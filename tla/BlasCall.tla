------------------------------ MODULE BlasCall ------------------------------
(* The vocabulary of the BLAS intrinsic: the operands a front end is handed,  *)
(* and the RsBlasCall it packs for the runtime.  An allocation is its element *)
(* and its X and Y dimensions (Y is 0 when it is one-dimensional); a request  *)
(* names up to five operands A, B, C, X, Y and the option arguments; a call   *)
(* names, slot by slot, the operand whose ID fills it.                        *)
EXTENDS Integers, Sequences

NoTrans == "N"
Trans == "T"
ConjTrans == "C"
Transposes == {NoTrans, Trans, ConjTrans}
Sides == {"left", "right"}
Uplos == {"upper", "lower"}
Diags == {"unit", "nonunit"}
Precisions == {"S", "D", "C", "Z"}

\* Element::F32, F64, F32_2 and F64_2 of the four precisions, and their sizes.
ElementOf == [S |-> "F32", D |-> "F64", C |-> "F32_2", Z |-> "F64_2"]
SizeBytes == [F32 |-> 4, F64 |-> 8, F32_2 |-> 8, F64_2 |-> 16, U8 |-> 1]

\* isCompatible on the five elements above: size, data type and vector size.
isCompatible(e, f) == e = f
AllCompatible(e, allocs) == \A a \in allocs : isCompatible(a.e, e)

\* The ID of an operand in the main context, or (support library) of the
\* stand-in getDummyAlloc makes for it in the incremental context.
ID(name, inc) == [of |-> name, inc |-> inc]
NullID == ID("null", FALSE)

\* memset(&call, 0, sizeof(call)): what the fields a routine does not set hold.
ZeroCall == [func |-> "", prec |-> "", in |-> <<NullID, NullID, NullID>>,
             transA |-> "", transB |-> "", side |-> "", uplo |-> "", diag |-> "",
             M |-> 0, N |-> 0, K |-> 0, incX |-> 0, incY |-> 0, KL |-> 0, KU |-> 0,
             aOff |-> 0, bOff |-> 0]

\* What a front end does when an argument check throws: nothing is dispatched.
Refused == [ZeroCall EXCEPT !.func = "refused"]
SendIf(ok, call) == IF ok THEN call ELSE Refused

\* A vector operand: at most one row, a positive increment, and n entries inc
\* apart that fill the allocation exactly.
Vector(v, n, inc) == v.y <= 1 /\ inc > 0 /\ v.x = 1 + (n - 1) * inc
Square(m) == m.x = m.y
SameDims(m, n) == m.x = n.x /\ m.y = n.y
\* (int) sqrt(2 * dimX), the order of the matrix a packed allocation holds.
PackedOrder(ap) == CHOOSE r \in 0 .. 2 * ap.x :
                     r * r <= 2 * ap.x /\ (r + 1) * (r + 1) > 2 * ap.x
Packed(ap) == ap.y <= 1 /\ ap.x = (PackedOrder(ap) * (PackedOrder(ap) + 1)) \div 2

\* Rows and columns of op(m).
Op(m, t) == IF t \in {Trans, ConjTrans} THEN [r |-> m.x, c |-> m.y]
                                        ELSE [r |-> m.y, c |-> m.x]
=============================================================================
