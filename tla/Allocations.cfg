SPECIFICATION Spec
CONSTANTS
  Alignment = 16
  Types <- MCTypes
  Requests <- MCRequests
  MaxOps = 1
  MaxAdds = 3
  Lens = {8}
  PointerSize = 8
  MaxFields = 3
  StructCells = 2
  Textures <- MCTextures
  Buffers <- MCBuffers
  Places <- MCPlaces
  Details = {0, 1, 6, 7, 40}
  InAllocs = {in1, in2, in3}
  QueueSizes = {2}
  MaxMade = 3
  Windows = {"w1", "w2"}
  MaxCalls = 5
SYMMETRY MCSymmetry
INVARIANTS
  
  FieldsExact
  AccessExact
  
  ListenersTold
  
PROPERTIES
  
  FieldStored
CHECK_DEADLOCK FALSE
