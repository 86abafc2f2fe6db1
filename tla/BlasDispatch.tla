---------------------------- MODULE BlasDispatch ----------------------------
(* One call of the BLAS intrinsic, from the front end that checks the         *)
(* arguments (BlasJava, BlasCpp) to the CPU driver's invokeForEach            *)
(* (cpu_ref/rsCpuIntrinsicBLAS.cpp), which binds the three slots to the       *)
(* operands of a cblas routine and, for a large GEMM, splits the product into *)
(* tiles that the worker lanes take from a shared counter.                    *)
EXTENDS BlasCall, FiniteSets, TLC

CONSTANTS
  Routines,    \* the pairs <<routine, precision>> that are called
  Requests(_), \* the arguments tried for a routine
  Lanes,       \* the lanes of launchThreads; getThreadCount() is their number
  TileBytes,   \* 64 * 1024 in the code: the product size from which it tiles
  WorkBytes    \* 512 in the code: the largest tile edge, in bytes

VARIABLES
  phase,    \* "idle", "picked", "refused", "sent", "walk", "done"
  routine,  \* the routine and precision of the call
  req,      \* its arguments
  call,     \* the RsBlasCall dispatched
  sliceNum, \* mtls->mSliceNum
  taken,    \* the slices a lane has computed
  walking   \* the lanes still inside walk_tiled_gemm

blasVars == <<phase, routine, req, call, sliceNum, taken, walking>>

Java == INSTANCE BlasJava
Cpp == INSTANCE BlasCpp

NoRequest == [none |-> TRUE]
-----------------------------------------------------------------------------
(* cpu_ref/rsCpuIntrinsicBLAS.cpp                                             *)

\* initABC: the operand behind a slot and its leading dimension, the row stride
\* (rows start 16 bytes apart or at multiples of it) over the element size.
Stride(m) == ((m.x * SizeBytes[m.e] + 15) \div 16) * 16
Ld(m) == Stride(m) \div SizeBytes[m.e]

\* Which cblas operand each slot becomes: the general and triangular routines,
MatrixVector(f) == IF f \in {"gemv", "gbmv"} THEN <<"A", "X", "Y">> ELSE <<"A", "X", "null">>
\* the real symmetric ones and GER,
RealSymmetric(f) ==
  CASE f \in {"symv", "sbmv", "spmv"} -> <<"A", "X", "Y">>
    [] f \in {"ger", "syr2", "spr2"} -> <<"X", "Y", "A">>
    [] f \in {"syr", "spr"} -> <<"X", "A", "null">>
\* the Hermitian ones, GERU and GERC,
Hermitian(f) ==
  CASE f \in {"hemv", "hbmv", "hpmv"} -> <<"A", "X", "Y">>
    [] f \in {"geru", "gerc", "her2", "hpr2"} -> <<"X", "Y", "A">>
    [] f \in {"her", "hpr"} -> <<"X", "null", "A">>
\* and level 3.
MatrixMatrix(f) ==
  CASE f \in {"gemm", "symm", "syr2k"} -> <<"A", "B", "C">>
    [] f = "syrk" -> <<"A", "null", "C">>
    [] f \in {"trmm", "trsm"} -> <<"A", "B", "null">>
HermitianL3(f) == IF f = "herk" THEN <<"A", "null", "C">> ELSE <<"A", "B", "C">>
Bnnm(f) == <<"A", "B", "C">>

RealSymmetrics == {"symv", "sbmv", "spmv", "ger", "syr", "spr", "syr2", "spr2"}
Hermitians == {"hemv", "hbmv", "hpmv", "geru", "gerc", "her", "hpr", "her2", "hpr2"}
MatrixMatrices == {"gemm", "symm", "syrk", "syr2k", "trmm", "trsm"}

\* invokeForEach's switch on call->func.
Binding(f) ==
  CASE f \in RealSymmetrics -> RealSymmetric(f)
    [] f \in Hermitians -> Hermitian(f)
    [] f \in MatrixMatrices -> MatrixMatrix(f)
    [] f \in {"hemm", "herk", "her2k"} -> HermitianL3(f)
    [] f = "bnnm" -> Bnnm(f)
    [] OTHER -> MatrixVector(f)
-----------------------------------------------------------------------------
(* The part of each operand a row-major cblas routine refers to: rows and     *)
(* columns of a stored matrix, entries of a packed one or of a vector.        *)

Mat(r, c) == [kind |-> "matrix", rows |-> r, cols |-> c]
Band(r, c) == [kind |-> "band", rows |-> r, cols |-> c]
Pack(n) == [kind |-> "linear", rows |-> 1, cols |-> (n * (n + 1)) \div 2]
Vec(n, inc) == [kind |-> "linear", rows |-> 1, cols |-> 1 + (n - 1) * inc]
Unused == [kind |-> "none", rows |-> 0, cols |-> 0]

cblas_A(c) ==
  CASE c.func \in {"gemv", "ger", "geru", "gerc"} -> Mat(c.M, c.N)
    [] c.func = "gbmv" -> Band(c.M, c.KL + c.KU + 1)
    [] c.func \in {"trmv", "trsv", "symv", "hemv", "syr", "her", "syr2", "her2"} -> Mat(c.N, c.N)
    [] c.func \in {"tbmv", "tbsv", "sbmv", "hbmv"} -> Band(c.N, c.K + 1)
    [] c.func \in {"tpmv", "tpsv", "spmv", "hpmv", "spr", "hpr", "spr2", "hpr2"} -> Pack(c.N)
    [] c.func \in {"symm", "hemm", "trmm", "trsm"} -> IF c.side = "left" THEN Mat(c.M, c.M) ELSE Mat(c.N, c.N)
    [] c.func \in {"syrk", "herk", "syr2k", "her2k"} -> IF c.transA = NoTrans THEN Mat(c.N, c.K) ELSE Mat(c.K, c.N)
    [] c.func = "gemm" -> IF c.transA = NoTrans THEN Mat(c.M, c.K) ELSE Mat(c.K, c.M)
    [] c.func = "bnnm" -> Mat(c.M, c.K)

cblas_B(c) ==
  CASE c.func \in {"symm", "hemm", "trmm", "trsm"} -> Mat(c.M, c.N)
    [] c.func \in {"syr2k", "her2k"} -> cblas_A(c)
    [] c.func = "gemm" -> IF c.transB = NoTrans THEN Mat(c.K, c.N) ELSE Mat(c.N, c.K)
    [] c.func = "bnnm" -> Mat(c.N, c.K)
    [] OTHER -> Unused

cblas_C(c) ==
  CASE c.func \in {"symm", "hemm", "gemm", "bnnm"} -> Mat(c.M, c.N)
    [] c.func \in {"syrk", "herk", "syr2k", "her2k"} -> Mat(c.N, c.N)
    [] OTHER -> Unused

cblas_X(c) ==
  CASE c.func \in {"gemv", "gbmv"} -> Vec(IF c.transA = NoTrans THEN c.N ELSE c.M, c.incX)
    [] c.func \in {"ger", "geru", "gerc"} -> Vec(c.M, c.incX)
    [] OTHER -> Vec(c.N, c.incX)

cblas_Y(c) ==
  CASE c.func \in {"gemv", "gbmv"} -> Vec(IF c.transA = NoTrans THEN c.M ELSE c.N, c.incY)
    [] OTHER -> Vec(c.N, c.incY)

Refers(c, name) ==
  CASE name = "A" -> cblas_A(c) [] name = "B" -> cblas_B(c) [] name = "C" -> cblas_C(c)
    [] name = "X" -> cblas_X(c) [] name = "Y" -> cblas_Y(c)

\* What cblas itself refuses: a row longer than the leading dimension, and a
\* conjugate transpose in a complex symmetric update.
cblas_accepts(c, a) ==
  /\ \A i \in 1 .. 3 : LET b == Binding(c.func)[i] IN
       b # "null" => LET u == Refers(c, b) IN
         u.kind \in {"matrix", "band"} => u.cols <= Ld(a[b])
  /\ c.func \in {"syrk", "syr2k"} /\ c.prec \in {"C", "Z"} => c.transA # ConjTrans
-----------------------------------------------------------------------------
(* setupGEMM and walk_tiled_gemm                                              *)

MinOf(a, b) == IF a < b THEN a ELSE b
ElementBytes == SizeBytes[req.A.e]

TileEdge(edge, other, kk) ==
  IF edge * kk > TileBytes \div ElementBytes /\ edge * Cardinality(Lanes) > other
  THEN MinOf(edge \div Cardinality(Lanes), WorkBytes \div ElementBytes)
  ELSE 0

tileSizeN == TileEdge(call.N, call.M, call.K)
tileSizeM == TileEdge(call.M, call.N, call.K)
isThreadable == tileSizeM > 0 \/ tileSizeN > 0

\* The number of tiles along an edge and the size of one, when it is tiled.
NumTileRoundedUp(edge, size) == IF size > 0 THEN 1 + edge \div size ELSE 1
NumTile(edge, size) == IF size > 0 THEN 1 + (edge - 1) \div size ELSE 1
TileSize(edge, size) == IF size > 0 THEN size ELSE edge
numTileM == NumTile(call.M, tileSizeM)

\* The rows and columns of C that slice s stands for.
TileOf(s) ==
  LET m == (s % numTileM) * TileSize(call.M, tileSizeM)
      n == (s \div numTileM) * TileSize(call.N, tileSizeN)
  IN [mStart |-> m, mEnd |-> MinOf(m + TileSize(call.M, tileSizeM), call.M),
      nStart |-> n, nEnd |-> MinOf(n + TileSize(call.N, tileSizeN), call.N)]
EmptyTile(t) == t.mEnd <= t.mStart \/ t.nEnd <= t.nStart

\* The entries a tile's cblas_?gemm writes, each with the addresses its row of
\* op(A) and its column of op(B) start at, in elements from the operand's start.
TileWrites(s) ==
  LET t == TileOf(s)
      lda == Ld(req.A)  ldb == Ld(req.B)  ldc == Ld(req.C)
      mStride == IF call.transA = NoTrans THEN lda ELSE 1
      nStride == IF call.transB = NoTrans THEN 1 ELSE ldb
      aStep == IF call.transA = NoTrans THEN lda ELSE 1
      bStep == IF call.transB = NoTrans THEN 1 ELSE ldb
  IN {[slice |-> s,
       c |-> t.mStart * ldc + t.nStart + i * ldc + j,
       a |-> t.mStart * mStride + i * aStep,
       b |-> t.nStart * nStride + j * bStep]
        : i \in 0 .. t.mEnd - t.mStart - 1, j \in 0 .. t.nEnd - t.nStart - 1}
-----------------------------------------------------------------------------
BlasInit == /\ phase = "idle" /\ routine = <<"", "">> /\ req = NoRequest
        /\ call = ZeroCall /\ sliceNum = 0 /\ taken = {} /\ walking = {}

Pick == /\ phase = "idle"
        /\ \E r \in Routines : routine' = r
        /\ phase' = "picked"
        /\ UNCHANGED <<req, call, sliceNum, taken, walking>>

\* The application calls the routine.
Issue == /\ phase = "picked"
         /\ \E a \in Requests(routine) :
              /\ req' = a
              /\ call' = Java!Front(routine[1], routine[2], a)
              /\ phase' = IF call' = Refused THEN "refused" ELSE "sent"
         /\ UNCHANGED <<routine, sliceNum, taken, walking>>

\* invokeForEach: one cblas call, or the tiles of a large product.
InvokeForEach ==
  /\ phase = "sent"
  /\ IF call.func = "gemm" /\ isThreadable
     THEN phase' = "walk" /\ walking' = Lanes
     ELSE phase' = "done" /\ UNCHANGED walking
  /\ UNCHANGED <<routine, req, call, sliceNum, taken>>

\* One turn of walk_tiled_gemm's loop: the lane takes the next slice, and
\* leaves when the slice stands for no entry.
WalkSlice(l) ==
  /\ phase = "walk" /\ l \in walking
  /\ sliceNum' = sliceNum + 1
  /\ IF EmptyTile(TileOf(sliceNum))
     THEN walking' = walking \ {l} /\ UNCHANGED taken
     ELSE taken' = taken \cup {sliceNum} /\ UNCHANGED walking
  /\ UNCHANGED <<phase, routine, req, call>>

\* launchThreads returns when every lane has left.
Join == /\ phase = "walk" /\ walking = {}
        /\ phase' = "done"
        /\ UNCHANGED <<routine, req, call, sliceNum, taken, walking>>

BlasNext == Pick \/ Issue \/ InvokeForEach \/ Join \/ \E l \in Lanes : WalkSlice(l)

BlasSpec == BlasInit /\ [][BlasNext]_blasVars
-----------------------------------------------------------------------------
\* SYR2K checks C against A's columns for TRANSPOSE only.
Syr2kConj == call.func = "syr2k" /\ call.transA = ConjTrans
\* The slots that name an operand of the main context whatever the context.
MainOnly(i) == \/ call.func = "syrk" /\ call.prec \in {"C", "Z"} /\ i = 3
               \/ call.func = "her2k" /\ i = 1

\* An argument list the front end accepts is one the kernel computes with the
\* operands' own shapes: every slot the kernel binds is filled and no other, with
\* an object of the context the call goes to (but for the slots of MainOnly), and
\* the rows, columns and entries cblas refers to are exactly those of the
\* allocation, unless cblas refuses the band or the transpose.
OperandsExact ==
  phase = "sent" /\ ~Syr2kConj /\ cblas_accepts(call, req) =>
    \A i \in 1 .. 3 :
      LET b == Binding(call.func)[i]
          m == req[call.in[i].of]
          u == Refers(call, b)
      IN /\ (b = "null") <=> (call.in[i] = NullID)
         /\ b # "null" =>
              /\ call.in[i].of = b
              /\ call.in[i].inc = (req.inc /\ ~MainOnly(i))
              /\ u.kind = "matrix" => u.rows = m.y /\ u.cols = m.x
              /\ u.kind = "band" => u.rows = m.y
              /\ u.kind = "linear" => u.cols = m.x

\* The Java and the C++ front end accept the same arguments and send the same
\* call for them, IDs apart.
FrontEndsAgree ==
  phase \in {"sent", "refused"} /\ ~req.bad =>
    LET other == Cpp!Front(routine[1], routine[2], req)
    IN [call EXCEPT !.in = [i \in 1 .. 3 |-> call.in[i].of]]
         = [other EXCEPT !.in = [i \in 1 .. 3 |-> other.in[i].of]]

\* However the lanes share the slices, a tiled product computes every entry of
\* C exactly once, from its own row of op(A) and its own column of op(B).
TilesExact ==
  phase = "done" /\ taken # {} =>
    LET writes == UNION {TileWrites(s) : s \in taken}
        lda == Ld(req.A)  ldb == Ld(req.B)  ldc == Ld(req.C)
    IN \A i \in 0 .. req.C.y - 1, j \in 0 .. req.C.x - 1 :
         LET of == {w \in writes : w.c = i * ldc + j}
         IN /\ Cardinality(of) = 1
            /\ \A w \in of : /\ w.a = (IF call.transA = NoTrans THEN i * lda ELSE i)
                             /\ w.b = (IF call.transB = NoTrans THEN j ELSE j * ldb)
=============================================================================
