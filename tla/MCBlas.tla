------------------------------- MODULE MCBlas -------------------------------
(* Instances of BlasDispatch: every routine in every precision, operands up   *)
(* to 2 x 2 (5 x 5 for the tiled product), the options and one argument in    *)
(* each list that is out of range.                                            *)
EXTENDS BlasDispatch

Real == {"S", "D"}
Complex == {"C", "Z"}
General == {"gemv", "gbmv", "trmv", "tbmv", "tpmv", "trsv", "tbsv", "tpsv",
            "gemm", "symm", "syrk", "syr2k", "trmm", "trsm"}
MCRoutines ==
  (General \X Precisions) \cup (RealSymmetrics \X Real)
    \cup ((Hermitians \cup {"hemm", "herk", "her2k"}) \X Complex) \cup {<<"bnnm", "S">>}
MCLanes == {1, 2}

\* The option arguments, the last of each set one the Java checks refuse.
Dflt == [trA |-> NoTrans, trB |-> NoTrans, side |-> "left", uplo |-> "upper", diag |-> "unit",
         incX |-> 1, incY |-> 1, K |-> 0, KL |-> 0, KU |-> 0, aOff |-> 0, bOff |-> 0,
         inc |-> FALSE, bad |-> FALSE]
Shape(e, x, y) == [e |-> e, x |-> x, y |-> y]
Shapes(e, xs, ys) == {Shape(e, x, y) : x \in xs, y \in ys}
None == Shape("U8", 1, 0)
Other(e) == IF e = "F64" THEN "F32_2" ELSE "F64"

\* The operands: matrices, or a packed matrix, and vectors.
Operands2(e) == {[A |-> A, B |-> None, C |-> None, X |-> X, Y |-> Y]
                   : A \in Shapes(e, 1 .. 3, 0 .. 2), X \in Shapes(e, 1 .. 3, {0, 2}), Y \in Shapes(e, 1 .. 3, {0})}
                \cup {[A |-> Shape(e, 2, 2), B |-> None, C |-> None, X |-> Shape(Other(e), 2, 0), Y |-> Shape(e, 2, 0)],
                      [A |-> Shape(e, 2, 2), B |-> None, C |-> None, X |-> Shape(e, 2, 0), Y |-> Shape(e, 2, 2)]}
Operands3(e, d) == {[A |-> A, B |-> B, C |-> C, X |-> None, Y |-> None]
                      : A \in Shapes(e, d \ {0}, d), B \in Shapes(e, d \ {0}, d), C \in Shapes(e, d \ {0}, d)}
                   \cup {[A |-> Shape(e, 2, 2), B |-> Shape(e, 2, 2), C |-> Shape(Other(e), 2, 2), X |-> None, Y |-> None]}

\* The option lists of a routine.
Options(f) ==
  CASE f = "gemv" -> {[Dflt EXCEPT !.trA = t, !.incX = u, !.incY = v] : t \in Transposes, u \in 0 .. 2, v \in 0 .. 2}
    [] f = "gbmv" -> {[Dflt EXCEPT !.trA = t, !.KL = u, !.KU = v] : t \in Transposes, u \in {-1, 0, 1}, v \in {-1, 0, 3}}
    [] f \in {"trmv", "trsv", "tpmv", "tpsv"} -> {[Dflt EXCEPT !.trA = t, !.incX = u] : t \in Transposes, u \in 0 .. 2}
    [] f \in {"tbmv", "tbsv"} -> {[Dflt EXCEPT !.uplo = t, !.incX = u, !.K = v] : t \in Uplos, u \in 0 .. 2, v \in {-1, 0, 1, 3}}
    [] f \in {"sbmv", "hbmv"} -> {[Dflt EXCEPT !.uplo = t, !.incX = u, !.K = v] : t \in Uplos, u \in 0 .. 2, v \in {-1, 0, 1, 3}}
    [] f \in RealSymmetrics \cup Hermitians -> {[Dflt EXCEPT !.incX = t, !.incY = u] : t \in 0 .. 2, u \in 0 .. 2}
    [] f = "gemm" -> {[Dflt EXCEPT !.trA = t, !.trB = u] : t \in Transposes, u \in Transposes}
    [] f \in {"syrk", "syr2k", "herk", "her2k"} -> {[Dflt EXCEPT !.trA = t, !.inc = u] : t \in Transposes, u \in BOOLEAN}
    [] f \in {"symm", "hemm"} -> {[Dflt EXCEPT !.side = t, !.uplo = u, !.inc = v] : t \in Sides, u \in Uplos, v \in BOOLEAN}
    [] f \in {"trmm", "trsm"} -> {[Dflt EXCEPT !.side = t, !.trA = u] : t \in Sides, u \in Transposes}
    [] f = "bnnm" -> {[Dflt EXCEPT !.aOff = t, !.bOff = u] : t \in {-1, 0, 255, 256}, u \in {-1, 0, 255, 256}}
\* Arguments no enumeration holds: Java takes them as integers.
BadOptions == {[Dflt EXCEPT !.bad = TRUE, !.trA = "?"], [Dflt EXCEPT !.bad = TRUE, !.side = "?"],
               [Dflt EXCEPT !.bad = TRUE, !.uplo = "?"], [Dflt EXCEPT !.bad = TRUE, !.diag = "?"]}

MCRequests(r) ==
  LET e == IF r[1] = "bnnm" THEN "U8" ELSE ElementOf[r[2]]
      level3 == r[1] \in MatrixMatrices \cup {"hemm", "herk", "her2k", "bnnm"}
      operands == IF ~level3 THEN Operands2(e)
                  ELSE Operands3(e, IF r[1] = "gemm" THEN {0, 2, 5} ELSE 0 .. 2)
      square == [A |-> Shape(e, 2, 2), B |-> Shape(e, 2, 2), C |-> Shape(e, 2, 2),
                 X |-> Shape(e, 2, 0), Y |-> Shape(e, 2, 0)]
      Ask(m, o) == [f \in DOMAIN m \cup DOMAIN o |-> IF f \in DOMAIN m THEN m[f] ELSE o[f]]
  IN {Ask(m, o) : m \in operands, o \in Options(r[1])} \cup {Ask(square, o) : o \in BadOptions}
=============================================================================
