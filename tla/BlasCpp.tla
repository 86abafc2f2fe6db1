------------------------------ MODULE BlasCpp -------------------------------
(* cpp/ScriptIntrinsicBLAS.cpp: the C++ front end of the same routines.  The   *)
(* option arguments are enumerations there, so only HERK and HER2K check one; *)
(* a failed check records the error and goes on, and the dispatch at the end  *)
(* is skipped once an error is recorded (tryDispatch), so that a routine with *)
(* any failed check sends nothing.                                            *)
EXTENDS BlasCall

validateGEMV(e, a) ==
  LET op == Op(a.A, a.trA)
  IN /\ AllCompatible(e, {a.A, a.X, a.Y})
     /\ Vector(a.X, op.c, a.incX) /\ Vector(a.Y, op.r, a.incY)

validateTRMV(e, a) ==
  /\ Square(a.A)
  /\ AllCompatible(e, {a.A, a.X})
  /\ Vector(a.X, a.A.y, a.incX)

validateTPMV(e, a) ==
  /\ AllCompatible(e, {a.A, a.X})
  /\ Packed(a.A)
  /\ Vector(a.X, PackedOrder(a.A), a.incX)

validateSYMV(e, a) ==
  /\ Square(a.A)
  /\ AllCompatible(e, {a.A, a.X, a.Y})
  /\ Vector(a.X, a.A.y, a.incX) /\ Vector(a.Y, a.A.y, a.incY)

validateSPMV(e, a) ==
  /\ AllCompatible(e, {a.A, a.X, a.Y})
  /\ Packed(a.A)
  /\ Vector(a.X, PackedOrder(a.A), a.incX) /\ Vector(a.Y, PackedOrder(a.A), a.incY)

validateGER(e, a) ==
  /\ AllCompatible(e, {a.A, a.X, a.Y})
  /\ a.A.x >= 1 /\ a.A.y >= 1
  /\ Vector(a.X, a.A.y, a.incX) /\ Vector(a.Y, a.A.x, a.incY)

validateSYR(e, a) ==
  /\ AllCompatible(e, {a.A, a.X})
  /\ Square(a.A)
  /\ Vector(a.X, a.A.x, a.incX)

validateSPR(e, a) ==
  /\ AllCompatible(e, {a.A, a.X})
  /\ Packed(a.A)
  /\ Vector(a.X, PackedOrder(a.A), a.incX)

validateSYR2(e, a) ==
  /\ AllCompatible(e, {a.A, a.X, a.Y})
  /\ Square(a.A)
  /\ Vector(a.X, a.A.x, a.incX) /\ Vector(a.Y, a.A.x, a.incY)

validateSPR2(e, a) ==
  /\ AllCompatible(e, {a.A, a.X, a.Y})
  /\ Packed(a.A)
  /\ Vector(a.X, PackedOrder(a.A), a.incX) /\ Vector(a.Y, PackedOrder(a.A), a.incY)

validateGERU(e, a) ==
  /\ AllCompatible(e, {a.A, a.X, a.Y})
  /\ Vector(a.X, a.A.y, a.incX) /\ Vector(a.Y, a.A.x, a.incY)

\* With A, B and C the shapes of a product, A and B swapped on the right side;
\* with A and C only (B null, for SYRK) a square C of op(A)'s rows.
validateL3(e, trA, trB, side, withB, a) ==
  LET first == IF side = "right" THEN Op(a.B, NoTrans) ELSE Op(a.A, trA)
      second == IF side = "right" THEN Op(a.A, NoTrans) ELSE Op(a.B, trB)
  IN IF withB
     THEN /\ AllCompatible(e, {a.A, a.B, a.C})
          /\ first.c = second.r /\ first.r = a.C.y /\ second.c = a.C.x
     ELSE /\ AllCompatible(e, {a.A, a.C})
          /\ Square(a.C) /\ Op(a.A, trA).r = a.C.y

validateSYR2K(e, a) ==
  LET Cdim == IF a.trA = Trans THEN a.A.x ELSE a.A.y
  IN /\ AllCompatible(e, {a.A, a.B, a.C})
     /\ a.C.x = Cdim /\ a.C.y = Cdim
     /\ SameDims(a.A, a.B)

validateTRMM(e, a) ==
  /\ AllCompatible(e, {a.A, a.B})
  /\ Square(a.A)
  /\ IF a.side = "left" THEN a.A.x = a.B.y ELSE a.B.x = a.A.y

validateTRSM(e, a) ==
  /\ AllCompatible(e, {a.A, a.B})
  /\ Square(a.A)
  /\ a.A.x = (IF a.side = "left" THEN a.B.y ELSE a.B.x)

validateHEMMLeftOnly(e, a) ==
  /\ AllCompatible(e, {a.A, a.B, a.C})
  /\ Square(a.A)
  /\ a.side = "left" => a.A.x = a.B.y
  /\ SameDims(a.B, a.C)

validateHEMM(e, a) ==
  /\ AllCompatible(e, {a.A, a.B, a.C})
  /\ Square(a.A)
  /\ a.side = "left" => a.A.x = a.B.y
  /\ a.side = "right" => a.A.x = a.B.x
  /\ SameDims(a.B, a.C)

validateHERK(e, a) ==
  /\ AllCompatible(e, {a.A, a.C})
  /\ a.trA \in {NoTrans, ConjTrans}
  /\ Square(a.C)
  /\ a.C.x = (IF a.trA = NoTrans THEN a.A.y ELSE a.A.x)

validateHER2K(e, a) ==
  /\ AllCompatible(e, {a.A, a.B, a.C})
  /\ a.trA \in {NoTrans, ConjTrans}
  /\ Square(a.C)
  /\ a.C.x = (IF a.trA = NoTrans THEN a.A.y ELSE a.A.x)
  /\ SameDims(a.A, a.B)
-----------------------------------------------------------------------------
\* in_allocs of nScriptIntrinsicBLAS_*: A->getID(), X->getID(), ... or 0.
InAllocs(names) == [i \in 1 .. 3 |-> IF names[i] = "null" THEN NullID ELSE ID(names[i], FALSE)]

GEMV(p, a) ==
  SendIf(validateGEMV(ElementOf[p], a),
         [ZeroCall EXCEPT !.func = "gemv", !.prec = p, !.in = InAllocs(<<"A", "X", "Y">>),
            !.transA = a.trA, !.M = a.A.y, !.N = a.A.x, !.incX = a.incX, !.incY = a.incY])

GBMV(p, a) ==
  SendIf(validateGEMV(ElementOf[p], a) /\ a.KL >= 0 /\ a.KU >= 0,
         [ZeroCall EXCEPT !.func = "gbmv", !.prec = p, !.in = InAllocs(<<"A", "X", "Y">>),
            !.transA = a.trA, !.M = a.A.y, !.N = a.A.x, !.incX = a.incX, !.incY = a.incY,
            !.KL = a.KL, !.KU = a.KU])

\* The call of the triangular matrix-vector routines.
Triangular(f, p, a, n, k) ==
  [ZeroCall EXCEPT !.func = f, !.prec = p, !.in = InAllocs(<<"A", "X", "null">>),
     !.transA = a.trA, !.uplo = a.uplo, !.diag = a.diag, !.N = n, !.K = k, !.incX = a.incX]

TRMV(p, a) == SendIf(validateTRMV(ElementOf[p], a), Triangular("trmv", p, a, a.A.y, 0))
TBMV(p, a) == SendIf(a.K >= 0 /\ validateTRMV(ElementOf[p], a), Triangular("tbmv", p, a, a.A.y, a.K))
TPMV(p, a) == SendIf(validateTPMV(ElementOf[p], a), Triangular("tpmv", p, a, PackedOrder(a.A), 0))
TRSV(p, a) == SendIf(validateTRMV(ElementOf[p], a), Triangular("trsv", p, a, a.A.y, 0))
TBSV(p, a) == SendIf(validateTRMV(ElementOf[p], a) /\ a.K >= 0, Triangular("tbsv", p, a, a.A.y, a.K))
TPSV(p, a) == SendIf(validateTPMV(ElementOf[p], a), Triangular("tpsv", p, a, PackedOrder(a.A), 0))

\* The call of the symmetric and Hermitian routines of level 2.
Symmetric(f, p, a, names, n, k) ==
  [ZeroCall EXCEPT !.func = f, !.prec = p, !.in = InAllocs(names), !.uplo = a.uplo,
     !.N = n, !.K = k, !.incX = a.incX, !.incY = IF "Y" \in {names[i] : i \in 1 .. 3} THEN a.incY ELSE 0]
RankOne(f, p, a) ==
  [ZeroCall EXCEPT !.func = f, !.prec = p, !.in = InAllocs(<<"X", "Y", "A">>),
     !.M = a.A.y, !.N = a.A.x, !.incX = a.incX, !.incY = a.incY]

\* SYMV, SBMV and SPMV of one real precision.
RealProduct(f, p, a) ==
  LET e == ElementOf[p] IN
  CASE f = "symv" -> SendIf(validateSYMV(e, a), Symmetric(f, p, a, <<"A", "X", "Y">>, a.A.y, 0))
    [] f = "sbmv" -> SendIf(a.K >= 0 /\ validateSYMV(e, a), Symmetric(f, p, a, <<"A", "X", "Y">>, a.A.y, a.K))
    [] f = "spmv" -> SendIf(validateSPMV(e, a), Symmetric(f, p, a, <<"A", "X", "Y">>, PackedOrder(a.A), 0))
SRealProduct(f, a) == RealProduct(f, "S", a)
DRealProduct(f, a) == RealProduct(f, "D", a)

\* GER, SYR, SPR, SYR2 and SPR2 of one real precision.
RealUpdate(f, p, a) ==
  LET e == ElementOf[p] IN
  CASE f = "ger" -> SendIf(validateGER(e, a), RankOne(f, p, a))
    [] f = "syr" -> SendIf(validateSYR(e, a), Symmetric(f, p, a, <<"X", "A", "null">>, a.A.x, 0))
    [] f = "spr" -> SendIf(validateSPR(e, a), Symmetric(f, p, a, <<"X", "A", "null">>, PackedOrder(a.A), 0))
    [] f = "syr2" -> SendIf(validateSYR2(e, a), Symmetric(f, p, a, <<"X", "Y", "A">>, a.A.x, 0))
    [] f = "spr2" -> SendIf(validateSPR2(e, a), Symmetric(f, p, a, <<"X", "Y", "A">>, PackedOrder(a.A), 0))
SRealUpdate(f, a) == RealUpdate(f, "S", a)
DRealUpdate(f, a) == RealUpdate(f, "D", a)

\* HEMV, HBMV and HPMV of one complex precision: the checks of SYR2 and SPR2.
ComplexProduct(f, p, a) ==
  LET e == ElementOf[p] IN
  CASE f = "hemv" -> SendIf(validateSYR2(e, a), Symmetric(f, p, a, <<"A", "X", "Y">>, a.A.x, 0))
    [] f = "hbmv" -> SendIf(validateSYR2(e, a) /\ a.K >= 0, Symmetric(f, p, a, <<"A", "X", "Y">>, a.A.x, a.K))
    [] f = "hpmv" -> SendIf(validateSPR2(e, a), Symmetric(f, p, a, <<"A", "X", "Y">>, PackedOrder(a.A), 0))
CComplexProduct(f, a) == ComplexProduct(f, "C", a)
ZComplexProduct(f, a) == ComplexProduct(f, "Z", a)

\* GERU, GERC, HER, HPR, HER2 and HPR2 of one complex precision.
ComplexUpdate(f, p, a) ==
  LET e == ElementOf[p] IN
  CASE f \in {"geru", "gerc"} -> SendIf(validateGERU(e, a), RankOne(f, p, a))
    [] f = "her" -> SendIf(validateSYR(e, a), Symmetric(f, p, a, <<"X", "null", "A">>, a.A.x, 0))
    [] f = "hpr" -> SendIf(validateSPR(e, a), Symmetric(f, p, a, <<"X", "null", "A">>, PackedOrder(a.A), 0))
    [] f = "her2" -> SendIf(validateSYR2(e, a), Symmetric(f, p, a, <<"X", "Y", "A">>, a.A.x, 0))
    [] f = "hpr2" -> SendIf(validateSPR2(e, a), Symmetric(f, p, a, <<"X", "Y", "A">>, PackedOrder(a.A), 0))
CComplexUpdate(f, a) == ComplexUpdate(f, "C", a)
ZComplexUpdate(f, a) == ComplexUpdate(f, "Z", a)
-----------------------------------------------------------------------------
GEMM(p, a) ==
  SendIf(validateL3(ElementOf[p], a.trA, a.trB, "", TRUE, a),
         [ZeroCall EXCEPT !.func = "gemm", !.prec = p, !.in = InAllocs(<<"A", "B", "C">>),
            !.transA = a.trA, !.transB = a.trB,
            !.M = Op(a.A, a.trA).r, !.N = Op(a.B, a.trB).c, !.K = Op(a.A, a.trA).c])

\* SYMM and HEMM send the shape of C.
SideProduct(f, p, a) ==
  [ZeroCall EXCEPT !.func = f, !.prec = p, !.in = InAllocs(<<"A", "B", "C">>),
     !.side = a.side, !.uplo = a.uplo, !.M = a.C.y, !.N = a.C.x]

SYMM(p, a) ==
  SendIf(/\ Square(a.A)
         /\ validateL3(ElementOf[p], "", "", a.side, TRUE, a),
         SideProduct("symm", p, a))

HEMM(p, a) == SendIf(validateHEMM(ElementOf[p], a), SideProduct("hemm", p, a))

\* The rank-k updates send C's order and op(A)'s columns.
RankK(f, p, a, names) ==
  [ZeroCall EXCEPT !.func = f, !.prec = p, !.in = InAllocs(names), !.transA = a.trA,
     !.uplo = a.uplo, !.N = a.C.x, !.K = IF a.trA # NoTrans THEN a.A.y ELSE a.A.x]

SYRK(p, a) ==
  SendIf(validateL3(ElementOf[p], a.trA, "", "", FALSE, a),
         RankK("syrk", p, a, <<"A", "null", "C">>))

SYR2K(p, a) == SendIf(validateSYR2K(ElementOf[p], a),
                      RankK("syr2k", p, a, <<"A", "B", "C">>))

HERK(p, a) == SendIf(validateHERK(ElementOf[p], a),
                     RankK("herk", p, a, <<"A", "null", "C">>))

HER2K(p, a) == SendIf(validateHER2K(ElementOf[p], a),
                      RankK("her2k", p, a, <<"A", "B", "C">>))

TriangularL3(f, p, a) ==
  [ZeroCall EXCEPT !.func = f, !.prec = p, !.in = InAllocs(<<"A", "B", "null">>),
     !.transA = a.trA, !.side = a.side, !.uplo = a.uplo, !.diag = a.diag,
     !.M = a.B.y, !.N = a.B.x]

TRMM(p, a) == SendIf(validateTRMM(ElementOf[p], a),
                     TriangularL3("trmm", p, a))
TRSM(p, a) == SendIf(validateTRSM(ElementOf[p], a),
                     TriangularL3("trsm", p, a))

BNNM(a) ==
  SendIf(/\ validateL3("U8", NoTrans, Trans, "", TRUE, a)
         /\ a.aOff \in 0 .. 255 /\ a.bOff \in 0 .. 255,
         [ZeroCall EXCEPT !.func = "bnnm", !.in = InAllocs(<<"A", "B", "C">>),
            !.M = a.A.y, !.N = a.B.y, !.K = a.A.x, !.aOff = a.aOff, !.bOff = a.bOff])

\* The public method of ScriptIntrinsicBLAS that routine f in precision p is.
Front(f, p, a) ==
  CASE f = "gemv" -> GEMV(p, a)
    [] f = "gbmv" -> GBMV(p, a)
    [] f = "trmv" -> TRMV(p, a)
    [] f = "tbmv" -> TBMV(p, a)
    [] f = "tpmv" -> TPMV(p, a)
    [] f = "trsv" -> TRSV(p, a)
    [] f = "tbsv" -> TBSV(p, a)
    [] f = "tpsv" -> TPSV(p, a)
    [] f \in {"symv", "sbmv", "spmv"} -> IF p = "S" THEN SRealProduct(f, a) ELSE DRealProduct(f, a)
    [] f \in {"ger", "syr", "spr", "syr2", "spr2"} -> IF p = "S" THEN SRealUpdate(f, a) ELSE DRealUpdate(f, a)
    [] f \in {"hemv", "hbmv", "hpmv"} -> IF p = "C" THEN CComplexProduct(f, a) ELSE ZComplexProduct(f, a)
    [] f \in {"geru", "gerc", "her", "hpr", "her2", "hpr2"} ->
         IF p = "C" THEN CComplexUpdate(f, a) ELSE ZComplexUpdate(f, a)
    [] f = "gemm" -> GEMM(p, a)
    [] f = "symm" -> SYMM(p, a)
    [] f = "syrk" -> SYRK(p, a)
    [] f = "syr2k" -> SYR2K(p, a)
    [] f = "trmm" -> TRMM(p, a)
    [] f = "trsm" -> TRSM(p, a)
    [] f = "hemm" -> HEMM(p, a)
    [] f = "herk" -> HERK(p, a)
    [] f = "her2k" -> HER2K(p, a)
    [] f = "bnnm" -> BNNM(a)
=============================================================================
