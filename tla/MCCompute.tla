------------------------------ MODULE MCCompute ------------------------------
(***************************************************************************)
(* What the fixed functions compute: BLAS, the intrinsics and the matrix   *)
(* libraries.  A behaviour explores one of them, chosen at the start; the  *)
(* variables of the others stay at Off.                                    *)
(***************************************************************************)
EXTENDS MCBlas, IntrinsicRows, IntrinsicFront, IntrinsicPixels, Matrices

MCAxes == {<<0, 0, 1>>, <<-1, 0, 0>>, <<0, 2, 0>>}
MCProjections == {<<-1, 1, -1, 1, 1, 2>>, <<0, 2, -1, 3, 2, 3>>}

VARIABLE part   \* "blas", "rows", "front", "pixels", "matrices"

vars == <<part, blasVars, rowVars, frontVars, pixelVars, matrixVars>>

Off == 0
BlasOff == /\ phase = "off" /\ routine = Off /\ req = Off /\ call = Off /\ sliceNum = Off
           /\ taken = Off /\ walking = Off
RowOff == launch = Off /\ rows = Off /\ writes = Off /\ scratch = Off /\ buffer = Off
FrontOff == /\ api = "off" /\ script = Off /\ cpu = Off /\ launched = Off /\ cache = Off
            /\ dirty = Off /\ table = Off
PixelOff == /\ pixel = Off /\ sums = Off /\ histogram = Off /\ matrix = Off /\ compiled = Off
            /\ computed = Off
MatrixOff == /\ dim = Off /\ java = Off /\ core = Off /\ runtime = Off /\ exact = Off
             /\ strained = Off /\ last = Off /\ calls = Off

Init ==
  \/ part = "blas" /\ BlasInit /\ RowOff /\ FrontOff /\ PixelOff /\ MatrixOff
  \/ part = "rows" /\ RowInit /\ BlasOff /\ FrontOff /\ PixelOff /\ MatrixOff
  \/ part = "front" /\ FrontInit /\ BlasOff /\ RowOff /\ PixelOff /\ MatrixOff
  \/ part = "pixels" /\ PixelInit /\ BlasOff /\ RowOff /\ FrontOff /\ MatrixOff
  \/ part = "matrices" /\ MatrixInit /\ BlasOff /\ RowOff /\ FrontOff /\ PixelOff

Next ==
  \/ part = "blas" /\ BlasNext /\ UNCHANGED <<part, rowVars, frontVars, pixelVars, matrixVars>>
  \/ part = "rows" /\ RowNext /\ UNCHANGED <<part, blasVars, frontVars, pixelVars, matrixVars>>
  \/ part = "front" /\ FrontNext /\ UNCHANGED <<part, blasVars, rowVars, pixelVars, matrixVars>>
  \/ part = "pixels" /\ PixelNext /\ UNCHANGED <<part, blasVars, rowVars, frontVars, matrixVars>>
  \/ part = "matrices" /\ MatrixNext /\ UNCHANGED <<part, blasVars, rowVars, frontVars, pixelVars>>

Spec == Init /\ [][Next]_vars

\* A call of ScriptIntrinsicBLAS that the front end accepts reaches the kernel
\* with the operands' own shapes, and Java and C++ accept and send the same
\* calls (ScriptIntrinsicBLAS.java, cpp/ScriptIntrinsicBLAS.cpp,
\* CpuScriptIntrinsicBLAS::invokeForEach).
BlasExact == part = "blas" => OperandsExact /\ FrontEndsAgree

\* However the lanes share the slices, a tiled product computes every entry of
\* C once, from its own row and column (walk_tiled_gemm).
ProductTiled == part = "blas" => TilesExact

\* Every cell of a launched range is computed from its own neighbours and
\* nothing outside the range is stored, vector builds included; the blur's row
\* buffer is filled as far as it is read (rsCpuIntrinsicConvolve3x3.cpp,
\* rsCpuIntrinsicBlur.cpp and the others).
RowsExact == part = "rows" => RowExact /\ BufferFilled

\* An intrinsic is launched only with the elements its kernel was built for,
\* Java and C++ make the same calls, and a lookup launches with the table last
\* set (ScriptIntrinsic*.java, cpp/ScriptIntrinsics.cpp).
FrontExact == part = "front" => LaunchMatches /\ FrontCallsAgree /\ LutCurrent

\* Blending, lookups and YUV conversion give what their formulas say to within
\* the rounding of the code; a histogram counts every pixel once however the
\* lanes share them; the kernel compiled for a colour matrix computes the matrix
\* that was set last (rsCpuIntrinsicBlend.cpp, rsCpuIntrinsicHistogram.cpp,
\* CpuScriptIntrinsicColorMatrix::preLaunch).
PixelsExact == part = "pixels" => BlendExact /\ LookupExact /\ HistogramExact /\ MatrixComputes

\* Whatever the calls made, the core's matrices and a script's are those that
\* exact arithmetic gives, Java's too where it is not strained, and a frustum's
\* planes bound what the projection keeps (rsMatrix4x4.cpp, rs_matrix.c,
\* Matrix4f.java).
MatricesRight == part = "matrices" => MatricesExact /\ ProjectionsExact
==============================================================================
