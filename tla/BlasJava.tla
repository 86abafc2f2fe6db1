------------------------------ MODULE BlasJava ------------------------------
(* ScriptIntrinsicBLAS.java: the argument checks and the call every routine   *)
(* sends.  A routine comes in up to four precisions with the same body; p is  *)
(* the precision, a the request, and a.inc says whether the intrinsic runs in *)
(* the incremental (support library) context.                                 *)
EXTENDS BlasCall

validateSide(s) == s \in Sides
validateTranspose(t) == t \in Transposes
validateConjTranspose(t) == t \in {NoTrans, ConjTrans}
validateDiag(d) == d \in Diags
validateUplo(u) == u \in Uplos

validateGEMV(e, a) ==
  LET op == Op(a.A, a.trA)
  IN /\ validateTranspose(a.trA)
     /\ AllCompatible(e, {a.A, a.X, a.Y})
     /\ Vector(a.X, op.c, a.incX) /\ Vector(a.Y, op.r, a.incY)

validateTRMV(e, a) ==
  /\ validateTranspose(a.trA) /\ validateUplo(a.uplo) /\ validateDiag(a.diag)
  /\ Square(a.A)
  /\ AllCompatible(e, {a.A, a.X})
  /\ Vector(a.X, a.A.y, a.incX)

validateTPMV(e, a) ==
  /\ validateTranspose(a.trA) /\ validateUplo(a.uplo) /\ validateDiag(a.diag)
  /\ AllCompatible(e, {a.A, a.X})
  /\ Packed(a.A)
  /\ Vector(a.X, PackedOrder(a.A), a.incX)

validateSYMV(e, a) ==
  /\ validateUplo(a.uplo)
  /\ Square(a.A)
  /\ AllCompatible(e, {a.A, a.X, a.Y})
  /\ Vector(a.X, a.A.y, a.incX) /\ Vector(a.Y, a.A.y, a.incY)

validateSPMV(e, a) ==
  /\ validateUplo(a.uplo)
  /\ AllCompatible(e, {a.A, a.X, a.Y})
  /\ Packed(a.A)
  /\ Vector(a.X, PackedOrder(a.A), a.incX) /\ Vector(a.Y, PackedOrder(a.A), a.incY)

validateGER(e, a) ==
  /\ AllCompatible(e, {a.A, a.X, a.Y})
  /\ a.A.x >= 1 /\ a.A.y >= 1
  /\ Vector(a.X, a.A.y, a.incX) /\ Vector(a.Y, a.A.x, a.incY)

validateSYR(e, a) ==
  /\ validateUplo(a.uplo)
  /\ AllCompatible(e, {a.A, a.X})
  /\ Square(a.A)
  /\ Vector(a.X, a.A.x, a.incX)

validateSPR(e, a) ==
  /\ validateUplo(a.uplo)
  /\ AllCompatible(e, {a.A, a.X})
  /\ Packed(a.A)
  /\ Vector(a.X, PackedOrder(a.A), a.incX)

validateSYR2(e, a) ==
  /\ validateUplo(a.uplo)
  /\ AllCompatible(e, {a.A, a.X, a.Y})
  /\ Square(a.A)
  /\ Vector(a.X, a.A.x, a.incX) /\ Vector(a.Y, a.A.x, a.incY)

validateSPR2(e, a) ==
  /\ validateUplo(a.uplo)
  /\ AllCompatible(e, {a.A, a.X, a.Y})
  /\ Packed(a.A)
  /\ Vector(a.X, PackedOrder(a.A), a.incX) /\ Vector(a.Y, PackedOrder(a.A), a.incY)

validateGERU(e, a) ==
  /\ AllCompatible(e, {a.A, a.X, a.Y})
  /\ Vector(a.X, a.A.y, a.incX) /\ Vector(a.Y, a.A.x, a.incY)

\* With A, B and C the shapes of a product, A and B swapped on the right side;
\* with A and C only (B null, for SYRK) a square C of op(A)'s rows.
validateL3(e, trA, trB, side, withB, a) ==
  LET first == IF side = "right" THEN Op(a.B, NoTrans) ELSE Op(a.A, trA)
      second == IF side = "right" THEN Op(a.A, NoTrans) ELSE Op(a.B, trB)
  IN IF withB
     THEN /\ AllCompatible(e, {a.A, a.B, a.C})
          /\ first.c = second.r /\ first.r = a.C.y /\ second.c = a.C.x
     ELSE /\ AllCompatible(e, {a.A, a.C})
          /\ Square(a.C) /\ Op(a.A, trA).r = a.C.y

validateSYR2K(e, a) ==
  LET Cdim == IF a.trA = Trans THEN a.A.x ELSE a.A.y
  IN /\ validateTranspose(a.trA)
     /\ AllCompatible(e, {a.A, a.B, a.C})
     /\ a.C.x = Cdim /\ a.C.y = Cdim
     /\ SameDims(a.A, a.B)

validateTRMM(e, a) ==
  /\ validateSide(a.side) /\ validateTranspose(a.trA)
  /\ AllCompatible(e, {a.A, a.B})
  /\ Square(a.A)
  /\ IF a.side = "left" THEN a.A.x = a.B.y ELSE a.B.x = a.A.y

validateTRSM(e, a) ==
  /\ validateSide(a.side) /\ validateTranspose(a.trA)
  /\ AllCompatible(e, {a.A, a.B})
  /\ Square(a.A)
  /\ a.A.x = (IF a.side = "left" THEN a.B.y ELSE a.B.x)

validateHEMM(e, a) ==
  /\ validateSide(a.side)
  /\ AllCompatible(e, {a.A, a.B, a.C})
  /\ Square(a.A)
  /\ a.side = "left" => a.A.x = a.B.y
  /\ a.side = "right" => a.A.x = a.B.x
  /\ SameDims(a.B, a.C)

validateHERK(e, a) ==
  /\ AllCompatible(e, {a.A, a.C})
  /\ validateConjTranspose(a.trA)
  /\ Square(a.C)
  /\ a.C.x = (IF a.trA = NoTrans THEN a.A.y ELSE a.A.x)

validateHER2K(e, a) ==
  /\ AllCompatible(e, {a.A, a.B, a.C})
  /\ validateConjTranspose(a.trA)
  /\ Square(a.C)
  /\ a.C.x = (IF a.trA = NoTrans THEN a.A.y ELSE a.A.x)
  /\ SameDims(a.A, a.B)
-----------------------------------------------------------------------------
\* aID, xID, ...: A.getID(mRS), or getDummyAlloc(A) in the incremental context.
Slots(a, names) == [i \in 1 .. 3 |-> IF names[i] = "null" THEN NullID ELSE ID(names[i], a.inc)]

GEMV(p, a) ==
  SendIf(validateGEMV(ElementOf[p], a),
         [ZeroCall EXCEPT !.func = "gemv", !.prec = p, !.in = Slots(a, <<"A", "X", "Y">>),
            !.transA = a.trA, !.M = a.A.y, !.N = a.A.x, !.incX = a.incX, !.incY = a.incY])

GBMV(p, a) ==
  SendIf(validateGEMV(ElementOf[p], a) /\ a.KL >= 0 /\ a.KU >= 0,
         [ZeroCall EXCEPT !.func = "gbmv", !.prec = p, !.in = Slots(a, <<"A", "X", "Y">>),
            !.transA = a.trA, !.M = a.A.y, !.N = a.A.x, !.incX = a.incX, !.incY = a.incY,
            !.KL = a.KL, !.KU = a.KU])

\* The call of the triangular matrix-vector routines.
Triangular(f, p, a, n, k) ==
  [ZeroCall EXCEPT !.func = f, !.prec = p, !.in = Slots(a, <<"A", "X", "null">>),
     !.transA = a.trA, !.uplo = a.uplo, !.diag = a.diag, !.N = n, !.K = k, !.incX = a.incX]

TRMV(p, a) == SendIf(validateTRMV(ElementOf[p], a), Triangular("trmv", p, a, a.A.y, 0))
TBMV(p, a) == SendIf(a.K >= 0 /\ validateTRMV(ElementOf[p], a), Triangular("tbmv", p, a, a.A.y, a.K))
TPMV(p, a) == SendIf(validateTPMV(ElementOf[p], a), Triangular("tpmv", p, a, PackedOrder(a.A), 0))
TRSV(p, a) == SendIf(validateTRMV(ElementOf[p], a), Triangular("trsv", p, a, a.A.y, 0))
TBSV(p, a) == SendIf(validateTRMV(ElementOf[p], a) /\ a.K >= 0, Triangular("tbsv", p, a, a.A.y, a.K))
TPSV(p, a) == SendIf(validateTPMV(ElementOf[p], a), Triangular("tpsv", p, a, PackedOrder(a.A), 0))

\* The call of the symmetric and Hermitian routines of level 2.
Symmetric(f, p, a, names, n, k) ==
  [ZeroCall EXCEPT !.func = f, !.prec = p, !.in = Slots(a, names), !.uplo = a.uplo,
     !.N = n, !.K = k, !.incX = a.incX, !.incY = IF "Y" \in {names[i] : i \in 1 .. 3} THEN a.incY ELSE 0]
RankOne(f, p, a) ==
  [ZeroCall EXCEPT !.func = f, !.prec = p, !.in = Slots(a, <<"X", "Y", "A">>),
     !.M = a.A.y, !.N = a.A.x, !.incX = a.incX, !.incY = a.incY]

\* SYMV, SBMV and SPMV of one real precision.
RealProduct(f, p, a) ==
  LET e == ElementOf[p] IN
  CASE f = "symv" -> SendIf(validateSYMV(e, a), Symmetric(f, p, a, <<"A", "X", "Y">>, a.A.y, 0))
    [] f = "sbmv" -> SendIf(a.K >= 0 /\ validateSYMV(e, a), Symmetric(f, p, a, <<"A", "X", "Y">>, a.A.y, a.K))
    [] f = "spmv" -> SendIf(validateSPMV(e, a), Symmetric(f, p, a, <<"A", "X", "Y">>, PackedOrder(a.A), 0))
SRealProduct(f, a) == RealProduct(f, "S", a)
DRealProduct(f, a) == RealProduct(f, "D", a)

\* GER, SYR, SPR, SYR2 and SPR2 of one real precision.
RealUpdate(f, p, a) ==
  LET e == ElementOf[p] IN
  CASE f = "ger" -> SendIf(validateGER(e, a), RankOne(f, p, a))
    [] f = "syr" -> SendIf(validateSYR(e, a), Symmetric(f, p, a, <<"X", "A", "null">>, a.A.x, 0))
    [] f = "spr" -> SendIf(validateSPR(e, a), Symmetric(f, p, a, <<"X", "A", "null">>, PackedOrder(a.A), 0))
    [] f = "syr2" -> SendIf(validateSYR2(e, a), Symmetric(f, p, a, <<"X", "Y", "A">>, a.A.x, 0))
    [] f = "spr2" -> SendIf(validateSPR2(e, a), Symmetric(f, p, a, <<"X", "Y", "A">>, PackedOrder(a.A), 0))
SRealUpdate(f, a) == RealUpdate(f, "S", a)
DRealUpdate(f, a) == RealUpdate(f, "D", a)

\* HEMV, HBMV and HPMV of one complex precision: the checks of SYR2 and SPR2.
ComplexProduct(f, p, a) ==
  LET e == ElementOf[p] IN
  CASE f = "hemv" -> SendIf(validateSYR2(e, a), Symmetric(f, p, a, <<"A", "X", "Y">>, a.A.x, 0))
    [] f = "hbmv" -> SendIf(validateSYR2(e, a) /\ a.K >= 0, Symmetric(f, p, a, <<"A", "X", "Y">>, a.A.x, a.K))
    [] f = "hpmv" -> SendIf(validateSPR2(e, a), Symmetric(f, p, a, <<"A", "X", "Y">>, PackedOrder(a.A), 0))
CComplexProduct(f, a) == ComplexProduct(f, "C", a)
ZComplexProduct(f, a) == ComplexProduct(f, "Z", a)

\* GERU, GERC, HER, HPR, HER2 and HPR2 of one complex precision.
ComplexUpdate(f, p, a) ==
  LET e == ElementOf[p] IN
  CASE f \in {"geru", "gerc"} -> SendIf(validateGERU(e, a), RankOne(f, p, a))
    [] f = "her" -> SendIf(validateSYR(e, a), Symmetric(f, p, a, <<"X", "null", "A">>, a.A.x, 0))
    [] f = "hpr" -> SendIf(validateSPR(e, a), Symmetric(f, p, a, <<"X", "null", "A">>, PackedOrder(a.A), 0))
    [] f = "her2" -> SendIf(validateSYR2(e, a), Symmetric(f, p, a, <<"X", "Y", "A">>, a.A.x, 0))
    [] f = "hpr2" -> SendIf(validateSPR2(e, a), Symmetric(f, p, a, <<"X", "Y", "A">>, PackedOrder(a.A), 0))
CComplexUpdate(f, a) == ComplexUpdate(f, "C", a)
ZComplexUpdate(f, a) == ComplexUpdate(f, "Z", a)
-----------------------------------------------------------------------------
GEMM(p, a) ==
  SendIf(/\ validateTranspose(a.trA) /\ validateTranspose(a.trB)
         /\ validateL3(ElementOf[p], a.trA, a.trB, "", TRUE, a),
         [ZeroCall EXCEPT !.func = "gemm", !.prec = p, !.in = Slots(a, <<"A", "B", "C">>),
            !.transA = a.trA, !.transB = a.trB,
            !.M = Op(a.A, a.trA).r, !.N = Op(a.B, a.trB).c, !.K = Op(a.A, a.trA).c])

\* SYMM and HEMM send the shape of C.
SideProduct(f, p, a) ==
  [ZeroCall EXCEPT !.func = f, !.prec = p, !.in = Slots(a, <<"A", "B", "C">>),
     !.side = a.side, !.uplo = a.uplo, !.M = a.C.y, !.N = a.C.x]

SYMM(p, a) ==
  SendIf(/\ validateSide(a.side) /\ validateUplo(a.uplo) /\ Square(a.A)
         /\ validateL3(ElementOf[p], "", "", a.side, TRUE, a),
         SideProduct("symm", p, a))

HEMM(p, a) == SendIf(validateUplo(a.uplo) /\ validateHEMM(ElementOf[p], a), SideProduct("hemm", p, a))

\* The rank-k updates send C's order and op(A)'s columns.
RankK(f, p, a, names) ==
  [ZeroCall EXCEPT !.func = f, !.prec = p, !.in = Slots(a, names), !.transA = a.trA,
     !.uplo = a.uplo, !.N = a.C.x, !.K = IF a.trA # NoTrans THEN a.A.y ELSE a.A.x]

\* CSYRK and ZSYRK send C.getID(mRS), whatever the context.
SYRK(p, a) ==
  LET call == RankK("syrk", p, a, <<"A", "null", "C">>)
  IN SendIf(/\ validateTranspose(a.trA) /\ validateUplo(a.uplo)
            /\ validateL3(ElementOf[p], a.trA, "", "", FALSE, a),
            IF p \in {"C", "Z"} THEN [call EXCEPT !.in[3] = ID("C", FALSE)] ELSE call)

SYR2K(p, a) == SendIf(validateUplo(a.uplo) /\ validateSYR2K(ElementOf[p], a),
                      RankK("syr2k", p, a, <<"A", "B", "C">>))

HERK(p, a) == SendIf(validateUplo(a.uplo) /\ validateHERK(ElementOf[p], a),
                     RankK("herk", p, a, <<"A", "null", "C">>))

\* CHER2K and ZHER2K send A.getID(mRS), whatever the context.
HER2K(p, a) == SendIf(validateUplo(a.uplo) /\ validateHER2K(ElementOf[p], a),
                      [RankK("her2k", p, a, <<"A", "B", "C">>) EXCEPT !.in[1] = ID("A", FALSE)])

TriangularL3(f, p, a) ==
  [ZeroCall EXCEPT !.func = f, !.prec = p, !.in = Slots(a, <<"A", "B", "null">>),
     !.transA = a.trA, !.side = a.side, !.uplo = a.uplo, !.diag = a.diag,
     !.M = a.B.y, !.N = a.B.x]

TRMM(p, a) == SendIf(validateUplo(a.uplo) /\ validateDiag(a.diag) /\ validateTRMM(ElementOf[p], a),
                     TriangularL3("trmm", p, a))
TRSM(p, a) == SendIf(validateUplo(a.uplo) /\ validateDiag(a.diag) /\ validateTRSM(ElementOf[p], a),
                     TriangularL3("trsm", p, a))

BNNM(a) ==
  SendIf(/\ validateL3("U8", NoTrans, Trans, "", TRUE, a)
         /\ a.aOff \in 0 .. 255 /\ a.bOff \in 0 .. 255,
         [ZeroCall EXCEPT !.func = "bnnm", !.in = Slots(a, <<"A", "B", "C">>),
            !.M = a.A.y, !.N = a.B.y, !.K = a.A.x, !.aOff = a.aOff, !.bOff = a.bOff])

\* The public method of ScriptIntrinsicBLAS that routine f in precision p is.
Front(f, p, a) ==
  CASE f = "gemv" -> GEMV(p, a)
    [] f = "gbmv" -> GBMV(p, a)
    [] f = "trmv" -> TRMV(p, a)
    [] f = "tbmv" -> TBMV(p, a)
    [] f = "tpmv" -> TPMV(p, a)
    [] f = "trsv" -> TRSV(p, a)
    [] f = "tbsv" -> TBSV(p, a)
    [] f = "tpsv" -> TPSV(p, a)
    [] f \in {"symv", "sbmv", "spmv"} -> IF p = "S" THEN SRealProduct(f, a) ELSE DRealProduct(f, a)
    [] f \in {"ger", "syr", "spr", "syr2", "spr2"} -> IF p = "S" THEN SRealUpdate(f, a) ELSE DRealUpdate(f, a)
    [] f \in {"hemv", "hbmv", "hpmv"} -> IF p = "C" THEN CComplexProduct(f, a) ELSE ZComplexProduct(f, a)
    [] f \in {"geru", "gerc", "her", "hpr", "her2", "hpr2"} ->
         IF p = "C" THEN CComplexUpdate(f, a) ELSE ZComplexUpdate(f, a)
    [] f = "gemm" -> GEMM(p, a)
    [] f = "symm" -> SYMM(p, a)
    [] f = "syrk" -> SYRK(p, a)
    [] f = "syr2k" -> SYR2K(p, a)
    [] f = "trmm" -> TRMM(p, a)
    [] f = "trsm" -> TRSM(p, a)
    [] f = "hemm" -> HEMM(p, a)
    [] f = "herk" -> HERK(p, a)
    [] f = "her2k" -> HER2K(p, a)
    [] f = "bnnm" -> BNNM(a)
=============================================================================
