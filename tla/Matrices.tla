------------------------------ MODULE Matrices ------------------------------
(* The matrices of the three layers that have them: Matrix2f, Matrix3f and    *)
(* Matrix4f of the Java front end, rsMatrix*.cpp of the core, and the script  *)
(* library's rs_matrix.c, which leaves the transformations to the core. The   *)
(* same calls are made on a pair of matrices in each layer and on exact ones. *)
(*                                                                            *)
(* A matrix is [m, d]: the integers m, column by column, over d > 0. Floats   *)
(* are exact: angles are quarter turns and axes lie along a coordinate.       *)
EXTENDS Integers, Sequences

CONSTANTS MaxCalls,   \* calls made
          Axes,       \* rotation axes
          Projections \* left, right, bottom, top, near and far planes

VARIABLES dim, java, core, runtime, exact, \* the pair, in each layer
          strained,                       \* Java called in a way it mishandles
          last, calls
matrixVars == <<dim, java, core, runtime, exact, strained, last, calls>>

Pair == 1 .. 2
Sum(n, f(_)) == LET s[k \in 0 .. n] == IF k = 0 THEN 0 ELSE s[k - 1] + f(k - 1) IN s[n]
Whole(m) == [m |-> m, d |-> 1]
SameMatrix(a, b) == IF a.d = b.d THEN a.m = b.m ELSE \A k \in DOMAIN a.m : a.m[k] * b.d = b.m[k] * a.d

\* get: column c, row r
At(n, m, c, r) == m[c * n + r + 1]
Entries(n, e(_)) == [k \in 1 .. n * n |-> e(k)] \o <<>> \* evaluated once
FromColumns(n, col(_)) == Entries(n, LAMBDA k : col((k - 1) \div n)[(k - 1) % n])

Cos(q) == <<1, 0, -1, 0>>[q + 1]
Sin(q) == <<0, 1, 0, -1>>[q + 1]
Abs(x) == IF x < 0 THEN -x ELSE x
Length(v) == Abs(v[1]) + Abs(v[2]) + Abs(v[3])
Unit(v) == [i \in 1 .. 3 |-> v[i] \div Length(v)]
-----------------------------------------------------------------------------
(* Products                                                                   *)

\* one column of lhs * rhs: the inner loop of every loadMultiply
Column(n, lhs, rhs, i) ==
    [r \in 0 .. n - 1 |-> Sum(n, LAMBDA j : At(n, lhs, j, r) * At(n, rhs, i, j))]
Product(n, a, b) ==
    [m |-> FromColumns(n, LAMBDA i : Column(n, a.m, b.m, i)), d |-> a.d * b.d]

\* Java writes each column into the destination as soon as it is computed. (A
\* factor that is overwritten is multiplied by integers, so its d stays.)
ReplaceColumn(n, mats, d, l, r, i) ==
    LET new == Column(n, mats[l].m, mats[r].m, i)
    IN  [mats EXCEPT ![d] =
            [m |-> Entries(n, LAMBDA k :
                       IF (k - 1) \div n = i THEN new[(k - 1) % n] ELSE mats[d].m[k]),
             d |-> mats[l].d * mats[r].d]]
ByColumns(n, mats, d, l, r) ==
    LET after[i \in 0 .. n] == IF i = 0 THEN mats ELSE ReplaceColumn(n, after[i - 1], d, l, r, i - 1)
    IN  after[n]

Matrix4fLoadMultiply(mats, d, l, r) == ByColumns(4, mats, d, l, r)
Matrix3fLoadMultiply(mats, d, l, r) == ByColumns(3, mats, d, l, r)
Matrix2fLoadMultiply(mats, d, l, r) == ByColumns(2, mats, d, l, r)
JavaLoadMultiply(n, mats, d, l, r) ==
    CASE n = 4 -> Matrix4fLoadMultiply(mats, d, l, r)
      [] n = 3 -> Matrix3fLoadMultiply(mats, d, l, r)
      [] n = 2 -> Matrix2fLoadMultiply(mats, d, l, r)

\* The core and the scripts compute the product aside.
Matrix4x4LoadMultiplyInPlace(mats, d, l, r) == ByColumns(4, mats, d, l, r)
Matrix4x4LoadMultiply(mats, d, l, r) == [mats EXCEPT ![d] = Product(4, mats[l], mats[r])]
Matrix3x3LoadMultiply(mats, d, l, r) == [mats EXCEPT ![d] = Product(3, mats[l], mats[r])]
Matrix2x2LoadMultiply(mats, d, l, r) == [mats EXCEPT ![d] = Product(2, mats[l], mats[r])]
CoreLoadMultiply(n, mats, d, l, r) ==
    CASE n = 4 -> Matrix4x4LoadMultiply(mats, d, l, r)
      [] n = 3 -> Matrix3x3LoadMultiply(mats, d, l, r)
      [] n = 2 -> Matrix2x2LoadMultiply(mats, d, l, r)

rsMatrixLoadMultiply4(mats, d, l, r) == [mats EXCEPT ![d] = Product(4, mats[l], mats[r])]
rsMatrixLoadMultiply3(mats, d, l, r) == [mats EXCEPT ![d] = Product(3, mats[l], mats[r])]
rsMatrixLoadMultiply2(mats, d, l, r) == [mats EXCEPT ![d] = Product(2, mats[l], mats[r])]
ScriptLoadMultiply(n, mats, d, l, r) ==
    CASE n = 4 -> rsMatrixLoadMultiply4(mats, d, l, r)
      [] n = 3 -> rsMatrixLoadMultiply3(mats, d, l, r)
      [] n = 2 -> rsMatrixLoadMultiply2(mats, d, l, r)

\* Java's multiply: through a temporary, register 3
JavaMultiply(n, a, b) ==
    JavaLoadMultiply(n, <<a, b, a>>, 3, 1, 2)[3]
-----------------------------------------------------------------------------
(* Java's transformations                                                     *)

Matrix4fIdentity == <<1, 0, 0, 0,  0, 1, 0, 0,  0, 0, 1, 0,  0, 0, 0, 1>>
Matrix3fIdentity == <<1, 0, 0,  0, 1, 0,  0, 0, 1>>
Matrix2fIdentity == <<1, 0,  0, 1>>
JavaIdentity(n) == CASE n = 4 -> Matrix4fIdentity [] n = 3 -> Matrix3fIdentity [] n = 2 -> Matrix2fIdentity

\* The axis is divided by its length only when that is 1.
Matrix4fRotate(q, v) ==
    LET c == Cos(q)  s == Sin(q)  nc == 1 - Cos(q)  x == v[1]  y == v[2]  z == v[3]
    IN  <<x*x*nc + c,   x*y*nc + z*s, z*x*nc - y*s, 0,
          x*y*nc - z*s, y*y*nc + c,   y*z*nc + x*s, 0,
          z*x*nc + y*s, y*z*nc - x*s, z*z*nc + c,   0,
          0, 0, 0, 1>>
Matrix3fRotate(q, v) ==
    LET c == Cos(q)  s == Sin(q)  nc == 1 - Cos(q)  x == v[1]  y == v[2]  z == v[3]
    IN  <<x*x*nc + c,   x*y*nc + z*s, z*x*nc - y*s,
          x*y*nc - z*s, y*y*nc + c,   y*z*nc + x*s,
          z*x*nc + y*s, y*z*nc - x*s, z*z*nc + c>>
Matrix3fTurn(q) == <<Cos(q), -Sin(q), 0,  Sin(q), Cos(q), 0,  0, 0, 1>>
Matrix2fTurn(q) == <<Cos(q), -Sin(q),  Sin(q), Cos(q)>>

Matrix4fScale(v) == [Matrix4fIdentity EXCEPT ![1] = v[1], ![6] = v[2], ![11] = v[3]]
Matrix3fScale(v) == [Matrix3fIdentity EXCEPT ![1] = v[1], ![5] = v[2], ![9] = v[3]]
Matrix2fScale(v) == [Matrix2fIdentity EXCEPT ![1] = v[1], ![4] = v[2]]
Matrix4fTranslate(v) == [Matrix4fIdentity EXCEPT ![13] = v[1], ![14] = v[2], ![15] = v[3]]
Matrix3fTranslate(v) == [Matrix3fIdentity EXCEPT ![7] = v[1], ![8] = v[2]]

\* load(Matrix3f)
Matrix4fLoad3(m) ==
    [k \in 1 .. 16 |-> LET c == (k - 1) \div 4  r == (k - 1) % 4
                       IN  IF c < 3 /\ r < 3 THEN At(3, m, c, r) ELSE IF k = 16 THEN 1 ELSE 0]

\* The projections' entries are quotients; all are put over one denominator.
Span(p, i) == p[2 * i] - p[2 * i - 1]
Middle(p, i) == p[2 * i] + p[2 * i - 1]
Spans(p) == Span(p, 1) * Span(p, 2) * Span(p, 3)
Matrix4fOrtho(p) ==
    LET s == Spans(p)
    IN  [m |-> [[k \in 1 .. 16 |-> s * Matrix4fIdentity[k]] EXCEPT
                   ![1] = 2 * (s \div Span(p, 1)), ![6] = 2 * (s \div Span(p, 2)),
                   ![11] = -2 * (s \div Span(p, 3)),
                   ![13] = -Middle(p, 1) * (s \div Span(p, 1)),
                   ![14] = -Middle(p, 2) * (s \div Span(p, 2)),
                   ![15] = -Middle(p, 3) * (s \div Span(p, 3))],
         d |-> s]
Matrix4fFrustum(p) ==
    LET s == Spans(p)
    IN  [m |-> [[k \in 1 .. 16 |-> s * Matrix4fIdentity[k]] EXCEPT
                   ![1] = 2 * p[5] * (s \div Span(p, 1)), ![6] = 2 * p[5] * (s \div Span(p, 2)),
                   ![9] = Middle(p, 1) * (s \div Span(p, 1)),
                   ![10] = Middle(p, 2) * (s \div Span(p, 2)),
                   ![11] = -Middle(p, 3) * (s \div Span(p, 3)),
                   ![12] = -s,
                   ![15] = -2 * p[6] * p[5] * (s \div Span(p, 3)),
                   ![16] = 0],
         d |-> s]

\* a field of view of a right angle, whose tangent is 1
Perspective(aspect, near, far) == <<-near * aspect, near * aspect, -near, near, near, far>>
Matrix4fPerspective(aspect, near, far) == Matrix4fFrustum(Perspective(aspect, near, far))

\* loadProjectionNormalized for a screen whose longer side is the shorter one
\* times aspect. Every product is written over its left factor.
OverLeft(a, b) == Matrix4fLoadMultiply(<<a, Whole(b)>>, 1, 1, 2)[1]
Matrix4fProjectionNormalized(wide, aspect) ==
    LET planes == IF wide THEN <<-aspect, aspect, -1, 1, 1, 100>>
                          ELSE <<-1, 1, -aspect, aspect, 1, 100>>
        turned == OverLeft(Matrix4fFrustum(planes), Matrix4fRotate(2, <<0, 1, 0>>))
        scaled == OverLeft(turned, Matrix4fScale(<<-2, 2, 1>>))
    IN  OverLeft(scaled, Matrix4fTranslate(<<0, 0, 2>>))

JavaLoad(n, w) ==
    CASE w.kind = "identity" -> Whole(JavaIdentity(n))
      [] w.kind = "rotate" -> Whole(IF n = 4 THEN Matrix4fRotate(w.q, w.v) ELSE Matrix3fRotate(w.q, w.v))
      [] w.kind = "turn" -> Whole(IF n = 3 THEN Matrix3fTurn(w.q) ELSE Matrix2fTurn(w.q))
      [] w.kind = "scale" -> Whole(CASE n = 4 -> Matrix4fScale(w.v) [] n = 3 -> Matrix3fScale(w.v)
                                     [] n = 2 -> Matrix2fScale(w.v))
      [] w.kind = "translate" -> Whole(IF n = 4 THEN Matrix4fTranslate(w.v) ELSE Matrix3fTranslate(w.v))
      [] w.kind = "load3" -> Whole(Matrix4fLoad3(w.v))
      [] w.kind = "ortho" -> Matrix4fOrtho(w.v)
      [] w.kind = "frustum" -> Matrix4fFrustum(w.v)
      [] w.kind = "perspective" -> Matrix4fPerspective(w.v[1], w.v[2], w.v[3])
      [] w.kind = "normalized" -> Matrix4fProjectionNormalized(w.q = 1, w.v[1])

Swapped(n, m) == Entries(n, LAMBDA k : At(n, m, (k - 1) % n, (k - 1) \div n))
Matrix4fTranspose(a) == [a EXCEPT !.m = Swapped(4, @)]
Matrix3fTranspose(a) == [a EXCEPT !.m = Swapped(3, @)]
Matrix2fTranspose(a) == [a EXCEPT !.m = [@ EXCEPT ![2] = a.m[3], ![3] = a.m[2]]]
JavaTranspose(n, a) ==
    CASE n = 4 -> Matrix4fTranspose(a) [] n = 3 -> Matrix3fTranspose(a) [] n = 2 -> Matrix2fTranspose(a)

computeCofactor(m, i, j) ==
    LET e(c, r) == m[((i + c) % 4) + 4 * ((j + r) % 4) + 1]
        minor == e(1, 1) * (e(2, 2) * e(3, 3) - e(2, 3) * e(3, 2))
               - e(1, 2) * (e(2, 1) * e(3, 3) - e(2, 3) * e(3, 1))
               + e(1, 3) * (e(2, 1) * e(3, 2) - e(2, 2) * e(3, 1))
    IN  IF (i + j) % 2 = 1 THEN -minor ELSE minor
\* the quotient of the cofactors by the determinant; a matrix without an
\* inverse is left alone
Divided(a, cofactors, det) ==
    IF det = 0 THEN a
    ELSE [m |-> [k \in 1 .. 16 |-> (IF det < 0 THEN -1 ELSE 1) * a.d * cofactors[k]], d |-> Abs(det)]
Matrix4fInverse(a) ==
    LET r == Entries(4, LAMBDA k : computeCofactor(a.m, (k - 1) \div 4, (k - 1) % 4))
    IN  Divided(a, r, a.m[1] * r[1] + a.m[5] * r[2] + a.m[9] * r[3] + a.m[13] * r[4])
Matrix4fInverseTranspose(a) ==
    LET r == Entries(4, LAMBDA k : computeCofactor(a.m, (k - 1) % 4, (k - 1) \div 4))
    IN  Divided(a, r, a.m[1] * r[1] + a.m[5] * r[5] + a.m[9] * r[9] + a.m[13] * r[13])
-----------------------------------------------------------------------------
(* The core's transformations; scripts call the same ones                     *)

Matrix4x4Identity == <<1, 0, 0, 0,  0, 1, 0, 0,  0, 0, 1, 0,  0, 0, 0, 1>>
Matrix3x3Identity == <<1, 0, 0,  0, 1, 0,  0, 0, 1>>
Matrix2x2Identity == <<1, 0,  0, 1>>
CoreIdentity(n) == CASE n = 4 -> Matrix4x4Identity [] n = 3 -> Matrix3x3Identity [] n = 2 -> Matrix2x2Identity

Matrix4x4Rotate(q, v) ==
    LET c == Cos(q)  s == Sin(q)  nc == 1 - Cos(q)
        u == IF Length(v) = 1 THEN v ELSE Unit(v)
        x == u[1]  y == u[2]  z == u[3]
    IN  <<x*x*nc + c,   x*y*nc + z*s, z*x*nc - y*s, 0,
          x*y*nc - z*s, y*y*nc + c,   y*z*nc + x*s, 0,
          z*x*nc + y*s, y*z*nc - x*s, z*z*nc + c,   0,
          0, 0, 0, 1>>
Matrix4x4Scale(v) == [Matrix4x4Identity EXCEPT ![1] = v[1], ![6] = v[2], ![11] = v[3]]
Matrix4x4Translate(v) == [Matrix4x4Identity EXCEPT ![13] = v[1], ![14] = v[2], ![15] = v[3]]
Matrix4x4Load3(m) ==
    <<m[1], m[2], m[3], 0,  m[4], m[5], m[6], 0,  m[7], m[8], m[9], 0,  0, 0, 0, 1>>
Matrix4x4Load2(m) ==
    <<m[1], m[2], 0, 0,  m[3], m[4], 0, 0,  0, 0, 1, 0,  0, 0, 0, 1>>
Matrix4x4Ortho(p) == Matrix4fOrtho(p)
Matrix4x4Frustum(p) == Matrix4fFrustum(p)
Matrix4x4Perspective(aspect, near, far) == Matrix4x4Frustum(Perspective(aspect, near, far))

\* The transformations the core lacks are loaded as floats.
CoreHas(n, w) ==
    \/ w.kind = "identity"
    \/ n = 4 /\ w.kind \in {"rotate", "scale", "translate", "load3", "load2", "ortho", "frustum", "perspective"}
CoreLoad(n, w) ==
    CASE w.kind = "identity" -> Whole(CoreIdentity(n))
      [] w.kind = "rotate" -> Whole(Matrix4x4Rotate(w.q, w.v))
      [] w.kind = "scale" -> Whole(Matrix4x4Scale(w.v))
      [] w.kind = "translate" -> Whole(Matrix4x4Translate(w.v))
      [] w.kind = "load3" -> Whole(Matrix4x4Load3(w.v))
      [] w.kind = "load2" -> Whole(Matrix4x4Load2(w.v))
      [] w.kind = "ortho" -> Matrix4x4Ortho(w.v)
      [] w.kind = "frustum" -> Matrix4x4Frustum(w.v)
      [] w.kind = "perspective" -> Matrix4x4Perspective(w.v[1], w.v[2], w.v[3])

\* the library's own: the identity and the loads of one matrix into another
rsMatrixLoadIdentity(n) ==
    CASE n = 4 -> <<1, 0, 0, 0,  0, 1, 0, 0,  0, 0, 1, 0,  0, 0, 0, 1>>
      [] n = 3 -> <<1, 0, 0,  0, 1, 0,  0, 0, 1>>
      [] n = 2 -> <<1, 0,  0, 1>>
rsMatrixLoad(kind, m) ==
    IF kind = "load3" THEN <<m[1], m[2], m[3], 0,  m[4], m[5], m[6], 0,  m[7], m[8], m[9], 0,  0, 0, 0, 1>>
                      ELSE <<m[1], m[2], 0, 0,  m[3], m[4], 0, 0,  0, 0, 1, 0,  0, 0, 0, 1>>
ScriptLoad(n, w) ==
    CASE w.kind = "identity" -> Whole(rsMatrixLoadIdentity(n))
      [] w.kind \in {"load3", "load2"} -> Whole(rsMatrixLoad(w.kind, w.v))
      [] OTHER -> CoreLoad(n, w)

Matrix4x4Transpose(a) == [a EXCEPT !.m = Swapped(4, @)]
Matrix3x3Transpose(a) == [a EXCEPT !.m = Swapped(3, @)]
Matrix2x2Transpose(a) == [a EXCEPT !.m = [@ EXCEPT ![2] = a.m[3], ![3] = a.m[2]]]
CoreTranspose(n, a) ==
    CASE n = 4 -> Matrix4x4Transpose(a) [] n = 3 -> Matrix3x3Transpose(a) [] n = 2 -> Matrix2x2Transpose(a)
Matrix4x4Inverse(a) ==
    LET r == Entries(4, LAMBDA k : computeCofactor(a.m, (k - 1) \div 4, (k - 1) % 4))
    IN  Divided(a, r, a.m[1] * r[1] + a.m[5] * r[2] + a.m[9] * r[3] + a.m[13] * r[4])
Matrix4x4InverseTranspose(a) ==
    LET r == Entries(4, LAMBDA k : computeCofactor(a.m, (k - 1) % 4, (k - 1) \div 4))
    IN  Divided(a, r, a.m[1] * r[1] + a.m[5] * r[5] + a.m[9] * r[9] + a.m[13] * r[13])
-----------------------------------------------------------------------------
(* Vectors and culling                                                        *)

\* rsMatrixMultiply of a vector: a component left out takes its place in the sum
TimesVector4(m, v) ==
    [r \in 1 .. 4 |->
        IF Len(v) = 4 THEN m[r] * v[1] + m[r + 4] * v[2] + m[r + 8] * v[3] + m[r + 12] * v[4]
        ELSE IF Len(v) = 3 THEN m[r] * v[1] + m[r + 4] * v[2] + m[r + 8] * v[3] + m[r + 12]
        ELSE m[r] * v[1] + m[r + 4] * v[2] + m[r + 12]]
TimesVector3(m, v) ==
    [r \in 1 .. 3 |->
        IF Len(v) = 3 THEN m[r] * v[1] + m[r + 3] * v[2] + m[r + 6] * v[3]
        ELSE m[r] * v[1] + m[r + 3] * v[2]]
TimesVector2(m, v) == <<m[1] * v[1] + m[3] * v[2], m[2] * v[1] + m[4] * v[2]>>
\* the core's, for three components only
vectorMultiply(m, v) ==
    [r \in 1 .. 4 |-> m[r] * v[1] + m[r + 4] * v[2] + m[r + 8] * v[3] + m[r + 12]]
rsMatrixMultiply(n, m, v) ==
    CASE n = 4 -> TimesVector4(m, v) [] n = 3 -> TimesVector3(m, v) [] n = 2 -> TimesVector2(m, v)

\* a plane: the fourth row plus or minus another, before it is divided by its length
Plane(m, sign, row) == [c \in 1 .. 4 |-> m[4 * c] + sign * m[4 * (c - 1) + row]]
rsExtractFrustumPlanes(m) ==
    <<Plane(m, 1, 1), Plane(m, -1, 1), Plane(m, -1, 2), Plane(m, 1, 2), Plane(m, 1, 3), Plane(m, -1, 3)>>
\* the distance to each plane, both sides multiplied by the plane's length
rsIsSphereInFrustum(sphere, planes) ==
    \A i \in DOMAIN planes :
        planes[i][1] * sphere[1] + planes[i][2] * sphere[2] + planes[i][3] * sphere[3] + planes[i][4]
            >= -sphere[4] * Length(planes[i])
-----------------------------------------------------------------------------
(* The exact matrices                                                         *)

Times(n, m, v) == [r \in 1 .. n |-> Sum(n, LAMBDA c : At(n, m, c, r - 1) * v[c + 1])]
Basis(n, c) == [r \in 1 .. n |-> IF r = c + 1 THEN 1 ELSE 0]
\* the matrix whose columns are the images of the basis vectors
Linear(n, f(_)) == Whole(FromColumns(n, LAMBDA c : [r \in 0 .. n - 1 |-> f(Basis(n, c))[r + 1]]))
ExactProduct(n, a, b) ==
    [Linear(n, LAMBDA v : Times(n, a.m, Times(n, b.m, v) \o <<>>)) EXCEPT !.d = a.d * b.d]

Cross(a, b) == <<a[2] * b[3] - a[3] * b[2], a[3] * b[1] - a[1] * b[3], a[1] * b[2] - a[2] * b[1]>>
Inner(a, b) == a[1] * b[1] + a[2] * b[2] + a[3] * b[3]
\* Rodrigues' formula
Turned(q, axis, v) ==
    LET k == Unit(axis)
        t == [i \in 1 .. 3 |-> v[i] * Cos(q) + Cross(k, v)[i] * Sin(q) + k[i] * Inner(k, v) * (1 - Cos(q))]
    IN  [i \in DOMAIN v |-> IF i <= 3 THEN t[i] ELSE v[i]]
Enlarged(n, k, m) ==
    Whole(FromColumns(n, LAMBDA c : [r \in 0 .. n - 1 |->
        IF c < k /\ r < k THEN At(k, m, c, r) ELSE IF c = r THEN 1 ELSE 0]))

ExactLoad(n, w) ==
    CASE w.kind = "identity" -> Linear(n, LAMBDA v : v)
      [] w.kind = "rotate" -> Linear(n, LAMBDA v : Turned(w.q, w.v, v))
      [] w.kind = "turn" -> Linear(n, LAMBDA v : [v EXCEPT ![1] = v[1] * Cos(w.q) + v[2] * Sin(w.q),
                                                           ![2] = v[2] * Cos(w.q) - v[1] * Sin(w.q)])
      [] w.kind = "scale" -> Linear(n, LAMBDA v : [i \in 1 .. n |-> IF i <= 3 THEN v[i] * w.v[i] ELSE v[i]])
      [] w.kind = "translate" -> Linear(n, LAMBDA v : [i \in 1 .. n |-> IF i < n THEN v[i] + w.v[i] * v[n] ELSE v[i]])
      [] w.kind = "load3" -> Enlarged(n, 3, w.v)
      [] w.kind = "load2" -> Enlarged(n, 2, w.v)
      [] OTHER -> IF CoreHas(n, w) THEN CoreLoad(n, w) ELSE JavaLoad(n, w)
-----------------------------------------------------------------------------
(* Calls                                                                      *)

Request(kind, q, v) == [kind |-> kind, q |-> q, v |-> v]
SampleVector == <<2, -1, 3>>
Post(n) ==
    {Request("scale", 0, SampleVector)}
      \cup (IF n > 2 THEN {Request("translate", 0, SampleVector)} \cup
                {Request("rotate", q, v) : q \in 1 .. 2, v \in Axes} ELSE {})
      \cup (IF n < 4 THEN {Request("turn", q, SampleVector) : q \in 1 .. 2} ELSE {})
Loads(n) ==
    Post(n) \cup {Request("identity", 0, SampleVector)} \cup
    (IF n = 4 THEN {Request("load3", 0, <<1, 2, 3, 4, 5, 6, 7, 8, 9>>), Request("load2", 0, <<1, 2, 3, 4>>)} \cup
                   {Request(k, 0, p) : k \in {"ortho", "frustum"}, p \in Projections} \cup
                   {Request("perspective", 0, <<1, 1, 2>>)} \cup
                   {Request("normalized", q, <<2>>) : q \in 0 .. 1} ELSE {})
JavaHas(w) == w.kind # "load2"
Strains(w) == w.kind = "rotate" /\ Length(w.v) # 1

NoCall == [kind |-> "none"]
MatrixInit ==
    /\ dim \in 2 .. 4
    /\ exact = [i \in Pair |-> Whole([k \in 1 .. dim * dim |->
                   IF i = 1 THEN ((k * k) % 5) - 1 ELSE IF k % (dim + 1) = 1 THEN 1 ELSE k % 2])]
    /\ java = exact /\ core = exact /\ runtime = exact
    /\ strained = FALSE /\ last = NoCall /\ calls = 0

\* Nothing follows a culled sphere, or a projection with a large denominator.
Call ==
    /\ calls < MaxCalls /\ last.kind # "cull"
    /\ last.kind = "load" => last.w.kind # "normalized"
    /\ calls' = calls + 1 /\ UNCHANGED dim

\* loadIdentity, loadRotate, ..., of the matrix d
Load(d, w) ==
    LET value == ExactLoad(dim, w)
    IN  /\ Call
        /\ java' = [java EXCEPT ![d] = IF JavaHas(w) THEN JavaLoad(dim, w) ELSE value]
        /\ core' = [core EXCEPT ![d] = IF CoreHas(dim, w) THEN CoreLoad(dim, w) ELSE value]
        /\ runtime' = [runtime EXCEPT ![d] = IF CoreHas(dim, w) THEN ScriptLoad(dim, w) ELSE value]
        /\ exact' = [exact EXCEPT ![d] = value]
        /\ strained' = (strained \/ Strains(w))
        /\ last' = [kind |-> "load", d |-> d, w |-> w]

\* rotate, scale, translate: loaded into a temporary and multiplied
Transform(d, w) ==
    LET value == ExactLoad(dim, w)
    IN  /\ Call
        /\ java' = [java EXCEPT ![d] = JavaMultiply(dim, @, JavaLoad(dim, w))]
        /\ core' = [core EXCEPT ![d] = CoreLoadMultiply(dim, <<@, IF CoreHas(dim, w) THEN CoreLoad(dim, w) ELSE value>>, 1, 1, 2)[1]]
        /\ runtime' = [runtime EXCEPT ![d] = ScriptLoadMultiply(dim, <<@, IF CoreHas(dim, w) THEN CoreLoad(dim, w) ELSE value>>, 1, 1, 2)[1]]
        /\ exact' = [exact EXCEPT ![d] = ExactProduct(dim, @, value)]
        /\ strained' = (strained \/ Strains(w))
        /\ last' = NoCall

LoadMultiply(d, l, r) ==
    /\ d = l => java[r].d = 1
    /\ d = r => java[l].d = 1
    /\ Call
    /\ java' = JavaLoadMultiply(dim, java, d, l, r)
    /\ core' = CoreLoadMultiply(dim, core, d, l, r)
    /\ runtime' = ScriptLoadMultiply(dim, runtime, d, l, r)
    /\ exact' = [exact EXCEPT ![d] = ExactProduct(dim, exact[l], exact[r])]
    /\ strained' = (strained \/ d = l)
    /\ last' = NoCall

Multiply(d, r) ==
    /\ Call
    /\ java' = [java EXCEPT ![d] = JavaMultiply(dim, @, java[r])]
    /\ core' = CoreLoadMultiply(dim, core, d, d, r)
    /\ runtime' = ScriptLoadMultiply(dim, runtime, d, d, r)
    /\ exact' = [exact EXCEPT ![d] = ExactProduct(dim, @, exact[r])]
    /\ last' = NoCall
    /\ UNCHANGED strained

Transpose(d) ==
    /\ Call
    /\ java' = [java EXCEPT ![d] = JavaTranspose(dim, @)]
    /\ core' = [core EXCEPT ![d] = CoreTranspose(dim, @)]
    /\ runtime' = [runtime EXCEPT ![d] = CoreTranspose(dim, @)]
    /\ exact' = [exact EXCEPT ![d].m = FromColumns(dim, LAMBDA c : [r \in 0 .. dim - 1 |-> At(dim, @, r, c)])]
    /\ last' = NoCall
    /\ UNCHANGED strained

Inverse(d, transposed) ==
    /\ Call /\ dim = 4 /\ exact[d].d <= 4
    /\ java' = [java EXCEPT ![d] = IF transposed THEN Matrix4fInverseTranspose(@) ELSE Matrix4fInverse(@)]
    /\ core' = [core EXCEPT ![d] = IF transposed THEN Matrix4x4InverseTranspose(@) ELSE Matrix4x4Inverse(@)]
    /\ runtime' = [runtime EXCEPT ![d] = IF transposed THEN Matrix4x4InverseTranspose(@) ELSE Matrix4x4Inverse(@)]
    /\ exact' = [exact EXCEPT ![d] = core'[d]]
    /\ last' = [kind |-> "inverse", d |-> d, transposed |-> transposed, of |-> exact[d]]
    /\ UNCHANGED strained

\* a vector of k components
Apply(d, k) ==
    /\ Call /\ k <= dim
    /\ LET v == SubSeq(<<2, 3, 5, 7>>, 1, k)
       IN  last' = [kind |-> "apply", d |-> d, v |-> v, script |-> rsMatrixMultiply(dim, runtime[d].m, v),
                    core |-> IF dim = 4 /\ k = 3 THEN vectorMultiply(core[d].m, v)
                             ELSE rsMatrixMultiply(dim, runtime[d].m, v)]
    /\ UNCHANGED <<java, core, runtime, exact, strained>>

\* the planes of an orthographic projection, which have whole lengths
Cull(sphere) ==
    /\ Call /\ last.kind = "load"
    /\ last.w.kind = "ortho"
    /\ last' = [kind |-> "cull", planes |-> last.w.v, sphere |-> sphere,
                seen |-> rsIsSphereInFrustum(sphere, rsExtractFrustumPlanes(runtime[last.d].m))]
    /\ UNCHANGED <<java, core, runtime, exact, strained>>

MatrixNext ==
    \/ \E d \in Pair : \/ \E w \in Loads(dim) : Load(d, w)
                       \/ \E w \in Post(dim) : Transform(d, w)
                       \/ \E l, r \in Pair : LoadMultiply(d, l, r)
                       \/ \E r \in Pair : Multiply(d, r)
                       \/ Transpose(d)
                       \/ \E t \in BOOLEAN : Inverse(d, t)
                       \/ \E k \in 2 .. 4 : Apply(d, k)
    \/ \E x \in {-3, -1, 0, 2, 4}, y \in {-4, 0, 2}, z \in {-5, -2, 0}, r \in 0 .. 1 : Cull(<<x, y, z, r>>)
MatrixSpec == MatrixInit /\ [][MatrixNext]_matrixVars
-----------------------------------------------------------------------------
(* Properties                                                                 *)

Equal(mats) == \A i \in Pair : SameMatrix(mats[i], exact[i])
\* the vector that a shorter one stands for
Expanded(v) == IF Len(v) = dim THEN v ELSE IF dim = 3 THEN v \o <<0>>
               ELSE IF Len(v) = 3 THEN v \o <<1>> ELSE v \o <<0, 1>>
\* a projection sends these corners to those of the cube, each times the last
Sends(a, v, to, k) == Times(4, a.m, v) = [i \in 1 .. 4 |-> to[i] * k * a.d]
ProjectsTo(a, w) ==
    LET p == IF w.kind = "perspective" THEN Perspective(w.v[1], w.v[2], w.v[3]) ELSE w.v
    IN  CASE w.kind = "ortho" ->
                /\ Sends(a, <<p[1], p[3], -p[5], 1>>, <<-1, -1, -1, 1>>, 1)
                /\ Sends(a, <<p[2], p[4], -p[6], 1>>, <<1, 1, 1, 1>>, 1)
                /\ Sends(a, <<p[1], p[4], -p[6], 1>>, <<-1, 1, 1, 1>>, 1)
          [] w.kind \in {"frustum", "perspective"} ->
                /\ Sends(a, <<p[1], p[3], -p[5], 1>>, <<-1, -1, -1, 1>>, p[5])
                /\ Sends(a, <<p[2], p[4], -p[5], 1>>, <<1, 1, -1, 1>>, p[5])
                /\ Sends(a, <<p[1] * p[6], p[4] * p[6], -p[6] * p[5], p[5]>>, <<-1, 1, 1, 1>>, p[6] * p[5])
          [] w.kind = "normalized" -> \* the corner of the screen at z = 0
                LET image == Times(4, a.m, IF w.q = 1 THEN <<w.v[1], 1, 0, 1>> ELSE <<1, w.v[1], 0, 1>>)
                IN  image[1] = image[4] /\ image[2] = image[4] /\ image[4] > 0
          [] OTHER -> TRUE

\* Whatever the calls made, the core's matrices and a script's are those that
\* exact arithmetic gives, and so are Java's unless its loadMultiply was given
\* its own matrix on the left or its loadRotate an axis that is not a unit
\* vector; a product may overwrite either of its factors, an inverse multiplies
\* back to the identity (Matrix4x4::loadMultiply's and inverse's contracts).
MatricesExact ==
    /\ Equal(core) /\ Equal(runtime)
    /\ strained \/ Equal(java)
    /\ last.kind = "inverse" /\ core[last.d] # last.of =>
          LET x == IF last.transposed THEN CoreTranspose(4, core[last.d]) ELSE core[last.d]
          IN  SameMatrix(Product(4, last.of, x), Whole(Matrix4x4Identity))

\* A projection loaded in Java or in the core maps the corners of the volume it
\* is given onto those of the unit cube, loadProjectionNormalized the screen's
\* corner at z = 0 to (1, 1) although every product in it overwrites its left
\* factor; a vector is expanded as rsMatrixMultiply's documentation says; and
\* rsIsSphereInFrustum drops exactly the spheres wholly beyond one of the planes
\* rsExtractFrustumPlanes took from the projection.
ProjectionsExact ==
    /\ last.kind = "load" => ProjectsTo(java[last.d], last.w) /\ ProjectsTo(exact[last.d], last.w)
    /\ last.kind = "apply" => \A out \in {last.script, last.core} :
                                 out = Times(dim, exact[last.d].m, Expanded(last.v))
    /\ last.kind = "cull" =>
          LET p == last.planes  s == last.sphere
              low == <<p[1], p[3], -p[6]>>  high == <<p[2], p[4], -p[5]>>
          IN  last.seen <=> \A i \in 1 .. 3 : low[i] - s[4] <= s[i] /\ s[i] <= high[i] + s[4]

\* What Matrix4f says of loadMultiply and loadRotate, "the result of multiplying
\* two given matrices" and "a rotation matrix of certain angle about a given
\* axis", with no condition on either.
JavaExact == Equal(java)
=============================================================================
