SPECIFICATION Spec
CONSTANTS
  Routines <- MCRoutines
  Requests <- MCRequests
  Lanes <- MCLanes
  TileBytes = 32
  WorkBytes = 16
  Dims = {1, 2, 5, 9, 16}
  RowBuffer = 4
  Radii = {1, 3}
  LutSpan = 2
  Levels = {0, 1, 127, 128, 254, 255}
  Grids = {2, 3, 17, 33, 255}
  PixelLanes = 2
  MaxPixels = 2
  Vectors = {1, 3, 4}
  MaxCalls = 2
  Axes <- MCAxes
  Projections <- MCProjections
INVARIANTS
  BlasExact
  ProductTiled
  
  
  
  MatricesRight
CHECK_DEADLOCK FALSE
