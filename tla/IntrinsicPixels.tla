-------------------------- MODULE IntrinsicPixels --------------------------
(* What the intrinsics compute: the blend modes, the 3D lookup, the YUV      *)
(* conversion, a histogram launch over several lanes, and the colour matrix, *)
(* whose kernel is put together for the coefficients that are not zero and   *)
(* kept for later launches.  Arithmetic keeps the width of the code.         *)
EXTENDS Integers, Sequences, FiniteSets, Bags

CONSTANTS
    Levels,     \* the values a channel takes when two pixels are blended
    Grids,      \* the sizes of a lookup cube
    PixelLanes,      \* the threads of a histogram launch
    MaxPixels,  \* bound on the pixels of a histogram launch
    Vectors     \* the vector sizes of a colour matrix launch

ASSUME PixelsAssumption == /\ Levels \subseteq 0..255
                           /\ Grids \subseteq 2..255
                           /\ PixelLanes \in Nat \ {0}

VARIABLES
    pixel,      \* the calculation being checked: its kind and its operands
    sums,       \* histogram: mSums, as a bag of indexes
    histogram,  \* histogram: the launch (kernel, coefficients, progress) and its output
    matrix,     \* colour matrix: the coefficients set (fp, fpa)
    compiled,   \* colour matrix: mOptKernel and mLastKey
    computed    \* colour matrix: what the last launch added up, by channel

pixelVars == <<pixel, sums, histogram, matrix, compiled, computed>>

Signed16(n) == ((n + 32768) % 65536) - 32768
Unsigned8(n) == n % 256
Shifted8(n) == n \div 256

----------------------------------------------------------------------------
(* Blend.  s and d are source and destination as <<colour, alpha>>; a colour *)
(* channel stands for all three.                                             *)
ByteProduct(x, y) == Shifted8(Signed16(x * y))
Each(F(_)) == [k \in 1..2 |-> Unsigned8(F(k))]

SrcOver(s, d) == Each(LAMBDA k : Signed16(s[k] + ByteProduct(d[k], 255 - s[2])))
DstOver(s, d) == Each(LAMBDA k : Signed16(d[k] + ByteProduct(s[k], 255 - d[2])))
SrcIn(s, d) == Each(LAMBDA k : ByteProduct(s[k], d[2]))
DstIn(s, d) == Each(LAMBDA k : ByteProduct(d[k], s[2]))
SrcOut(s, d) == Each(LAMBDA k : ByteProduct(s[k], 255 - d[2]))
DstOut(s, d) == Each(LAMBDA k : ByteProduct(d[k], 255 - s[2]))
SrcAtop(s, d) == <<Unsigned8(Shifted8(Signed16(s[1] * d[2] + d[1] * (255 - s[2])))), d[2]>>
DstAtop(s, d) == <<Unsigned8(Shifted8(Signed16(d[1] * s[2] + s[1] * (255 - d[2])))), s[2]>>
MultiplyBlend(s, d) == Each(LAMBDA k : ByteProduct(s[k], d[k]))
Add(s, d) == [k \in 1..2 |-> IF d[k] + s[k] > 255 THEN 255 ELSE d[k] + s[k]]

Modes == {"clear", "src", "dst", "src_over", "dst_over", "src_in", "dst_in",
          "src_out", "dst_out", "src_atop", "dst_atop", "multiply", "add"}
Blend(mode, s, d) ==
    CASE mode = "clear" -> <<0, 0>> [] mode = "src" -> s [] mode = "dst" -> d
      [] mode = "src_over" -> SrcOver(s, d) [] mode = "dst_over" -> DstOver(s, d)
      [] mode = "src_in" -> SrcIn(s, d) [] mode = "dst_in" -> DstIn(s, d)
      [] mode = "src_out" -> SrcOut(s, d) [] mode = "dst_out" -> DstOut(s, d)
      [] mode = "src_atop" -> SrcAtop(s, d) [] mode = "dst_atop" -> DstAtop(s, d)
      [] mode = "multiply" -> MultiplyBlend(s, d) [] mode = "add" -> Add(s, d)

(* Pixels with the colour multiplied by the alpha, which the modes are for.  *)
Premultiplied == {p \in Levels \X Levels : p[1] <= p[2]}

----------------------------------------------------------------------------
(* 3DLUT, in one dimension: the cell and the weights of a channel value, and *)
(* the interpolation of eight corners v (0..1 in each dimension); its sums   *)
(* stay under 65280 * 2^15, inside the code's 32 bits.                        *)
CoordMul(dim) == ((dim - 1) * 32768) \div 255
Coord(dim, in) == (in * CoordMul(dim)) \div 32768
Weight(dim, in) == (in * CoordMul(dim)) % 32768

Lerp(a, b, w, shift) == (a * (32768 - w) + b * w) \div shift
Interpolate(v, wx, wy, wz) ==
    LET yz(y, z) == Lerp(v[<<0, y, z>>], v[<<1, y, z>>], wx, 128)
        zz(z) == Lerp(yz(0, z), yz(1, z), wy, 32768)
    IN  Unsigned8((Lerp(zz(0), zz(1), wz, 32768) + 127) \div 256)
Corners == {0, 1} \X {0, 1} \X {0, 1}

----------------------------------------------------------------------------
(* YuvToRGB: one pixel.                                                      *)
Saturated(n) == IF n < 0 THEN 0 ELSE IF n > 255 THEN 255 ELSE n
YuvPixel(y, u, v) ==
    LET Y == y - 16
        U == u - 128
        V == v - 128
    IN  <<Saturated((Y * 298 + V * 409 + 128) \div 256),
          Saturated((Y * 298 - U * 100 - V * 208 + 128) \div 256),
          Saturated((Y * 298 + U * 516 + 128) \div 256)>>

----------------------------------------------------------------------------
(* Histogram.  vec is the vector size of the output, or for forEach_Dot of   *)
(* the input; the coefficients are in thousandths.                           *)
Counted == {0, 1, 255}
Pixels == {<<0, 0, 0, 0>>, <<0, 1, 255, 1>>, <<255, 255, 255, 255>>}
Dots == {<<299, 587, 114, 0>>, <<0, 0, 1000, 0>>, <<250, 250, 250, 250>>}
DotI(f) == [k \in 1..4 |-> (f[k] * 256 + 500) \div 1000]
Width(h) == IF h.dot THEN 1 ELSE IF h.vec = 3 THEN 4 ELSE h.vec
Dot(h, p) ==
    LET RECURSIVE Upto(_)
        Upto(k) == IF k = 0 THEN 0 ELSE DotI(h.f)[k] * p[k] + Upto(k - 1)
    IN  (Upto(h.vec) + 127) \div 256

(* The counters one pixel increments, in the sums of lane l.                 *)
Increments(h, p, l) ==
    IF h.dot THEN {256 * l + Dot(h, p)}
    ELSE {256 * Width(h) * l + p[k] * Width(h) + k - 1 : k \in 1..h.vec}

IdleHistogram == [state |-> "idle", dot |-> FALSE, vec |-> 1, f |-> <<299, 587, 114, 0>>,
         pixels |-> EmptyBag, out |-> EmptyBag]

(* preLaunch chooses the kernel and clears every lane's sums.                *)
HistogramPreLaunch(dot, vec, f) ==
    /\ histogram.state # "counting"
    /\ histogram' = [IdleHistogram EXCEPT !.state = "counting", !.dot = dot, !.vec = vec, !.f = f]
    /\ sums' = [i \in {j \in BagToSet(sums) : j >= 256 * Width(histogram') * PixelLanes} |-> sums[i]]

HistogramKernel(p, l) ==
    /\ histogram.state = "counting"
    /\ BagCardinality(histogram.pixels) < MaxPixels
    /\ sums' = sums (+) SetToBag(Increments(histogram, p, l))
    /\ histogram' = [histogram EXCEPT !.pixels = @ (+) SetToBag({p})]

HistogramPostLaunch ==
    LET size == 256 * Width(histogram)
        used == {i % size : i \in {j \in BagToSet(sums) : j < size * PixelLanes}}
        total(i) ==
            LET RECURSIVE Upto(_)
                Upto(t) == IF t < 0 THEN 0 ELSE CopiesIn(i + size * t, sums) + Upto(t - 1)
            IN  Upto(PixelLanes - 1)
    IN  /\ histogram.state = "counting"
        /\ histogram' = [histogram EXCEPT !.state = "done", !.out = [i \in used |-> total(i)]]
        /\ UNCHANGED sums

----------------------------------------------------------------------------
(* ColorMatrix.  A coefficient is in thousandths, c[i][j] weighs input       *)
(* channel i in output channel j (0..3).                                     *)
Ip(k) == LET n == k * 256 + 500 IN IF n >= 0 THEN n \div 1000 ELSE -((-n) \div 1000)
Channels == 0..3
setColorMatrix3(m) ==
    [i \in Channels |-> [j \in Channels |->
        IF i < 3 /\ j < 3 THEN m[i + 1][j + 1] ELSE IF i = 3 /\ j = 3 THEN 1000 ELSE 0]]
setGreyscale == setColorMatrix3(<<<<299, 299, 299>>, <<587, 587, 587>>, <<114, 114, 114>>>>)
setRGBtoYUV == setColorMatrix3(<<<<299, -147, 615>>, <<587, -289, -515>>, <<114, 436, -100>>>>)
setYUVtoRGB == setColorMatrix3(<<<<1000, 1000, 1000>>, <<0, -395, 2032>>, <<1140, -581, 0>>>>)
DefaultMatrix == setColorMatrix3(<<<<1000, 0, 0>>, <<0, 1000, 0>>, <<0, 0, 1000>>>>)
(* setColorMatrix with a program's own: colour into alpha, one channel only. *)
Matrices == {DefaultMatrix, setGreyscale, setRGBtoYUV, setYUVtoRGB,
             [setGreyscale EXCEPT ![0][3] = 500],
             setColorMatrix3(<<<<0, 0, 1>>, <<0, 1000, 0>>, <<0, 0, 0>>>>)}
Adds == {{}, {0}, {3}, {0, 1, 2}}

computeKeyPlain(m, ein, eout) ==
    LET hasFloat == ein.float \/ eout.float
        mask == {c \in Channels \X Channels : IF hasFloat THEN m.fp[c[1]][c[2]] # 0
                                              ELSE Ip(m.fp[c[1]][c[2]]) # 0}
    IN  [ein |-> ein, eout |-> eout,
         dot |-> /\ \A i \in Channels : Cardinality({Ip(m.fp[i][j]) : j \in 0..2}) = 1
                 /\ m.add = {},
         copyAlpha |-> ~hasFloat /\ Ip(m.fp[3][3]) = 256 /\ 3 \notin m.add
                       /\ mask \cap {<<0, 3>>, <<1, 3>>, <<2, 3>>} = {},
         coeffMask |-> {c \in mask : c[1] < ein.vec /\ c[2] < eout.vec},
         addMask |-> IF ein.float /\ ~eout.float THEN 0..eout.vec - 1 ELSE {}]

computeKey(m, ein, eout) ==
    LET hasFloat == ein.float \/ eout.float
        mask == {c \in Channels \X Channels : IF hasFloat THEN m.fp[c[1]][c[2]] # 0
                                              ELSE Ip(m.fp[c[1]][c[2]]) # 0}
    IN  [ein |-> ein, eout |-> eout,
         dot |-> /\ \A i \in Channels : Cardinality({Ip(m.fp[i][j]) : j \in 0..2}) = 1
                 /\ m.add = {},
         copyAlpha |-> ~hasFloat /\ Ip(m.fp[3][3]) = 256 /\ 3 \notin m.add
                       /\ mask \cap {<<0, 3>>, <<1, 3>>, <<2, 3>>} = {},
         coeffMask |-> {c \in mask : c[1] < ein.vec /\ c[2] < eout.vec},
         addMask |-> {j \in m.add : j < eout.vec}
                     \cup (IF ein.float /\ ~eout.float THEN 0..eout.vec - 1 ELSE {})]

(* build: the multiplications put together for a key.                        *)
Emitted(key) == {c \in key.coeffMask : /\ c[2] \in {1, 2} => ~key.dot
                                   /\ c[2] = 3 => ~key.copyAlpha}
Summed(terms, add) == [terms |-> terms, add |-> add, set |-> TRUE]

(* What output channel j of the built kernel holds: the inputs added up and  *)
(* whether the constant is.  The float code ends with a sum, the constant or *)
(* zero.  The integer code leaves the accumulator alone when there is        *)
(* nothing to add, and its prefix clears those of channels 1..3 only; a dot  *)
(* product is copied from channel 0, and the alpha then is the input's.      *)
Built(key, j) ==
    LET terms(k) == {c[1] : c \in {d \in Emitted(key) : d[2] = k}}
        plain(k) == [Summed(terms(k), k \in key.addMask)
                     EXCEPT !.set = k # 0 \/ terms(k) # {} \/ k \in key.addMask]
    IN  IF key.ein.float \/ key.eout.float THEN Summed(terms(j), j \in key.addMask)
        ELSE IF j = 3 /\ (key.copyAlpha \/ key.dot) THEN Summed({3} \cap (0..key.ein.vec - 1), FALSE)
        ELSE IF j \in {1, 2} /\ key.dot THEN plain(0)
        ELSE plain(j)

(* The scalar code One: every input of the vector, every output of it.       *)
One(m, key, j) ==
    LET int == ~key.ein.float /\ ~key.eout.float
    IN  Summed({i \in 0..key.ein.vec - 1 : IF int THEN Ip(m.fp[i][j]) # 0 ELSE m.fp[i][j] # 0},
            j \in m.add \/ (key.ein.float /\ ~key.eout.float))

NoKernel == [built |-> FALSE]
SetMatrix(c, a) ==
    /\ matrix' = [fp |-> c, add |-> a]
    /\ computed' = <<>>
    /\ UNCHANGED compiled

(* preLaunch and the kernel: on 32-bit ARM the code is built unless the last *)
(* one has the same key; it computes groups of four cells.                   *)
MatrixLaunch(ein, eout) ==
    LET key == computeKey(matrix, ein, eout)
    IN  /\ compiled' = IF compiled.built /\ compiled.key = key THEN compiled
                       ELSE [built |-> TRUE, key |-> key]
        /\ computed' = [j \in 0..eout.vec - 1 |-> Built(compiled'.key, j)]
        /\ UNCHANGED matrix

----------------------------------------------------------------------------
Kinds == {"blend", "lut3d", "yuv", "histogram", "matrix"}
Formats == [float : BOOLEAN, vec : Vectors]

PixelInit ==
    /\ pixel \in [kind : Kinds]
    /\ sums = EmptyBag /\ histogram = IdleHistogram
    /\ matrix = [fp |-> DefaultMatrix, add |-> {}]
    /\ compiled = NoKernel /\ computed = <<>>

HistogramStill == UNCHANGED <<sums, histogram>>
MatrixStill == UNCHANGED <<matrix, compiled, computed>>

Operands ==
    /\ DOMAIN pixel = {"kind"}
    /\ HistogramStill /\ MatrixStill
    /\ \/ /\ pixel.kind = "blend"
          /\ \E mode \in Modes, s \in Premultiplied, d \in Premultiplied :
               pixel' = [kind |-> "blend", mode |-> mode, s |-> s, d |-> d]
       \/ /\ pixel.kind = "lut3d"
          /\ \E dim \in Grids, in \in 0..255 : pixel' = [kind |-> "lut3d", dim |-> dim, in |-> in]
       \/ /\ pixel.kind = "yuv"
          /\ \E y \in 0..255, u, v \in {0, 128, 255} :
               pixel' = [kind |-> "yuv", y |-> y, u |-> u, v |-> v]

PixelNext ==
    \/ Operands
    \/ /\ pixel.kind = "histogram"
       /\ \/ \E dot \in BOOLEAN, vec \in 1..4, f \in Dots :
               (dot \/ f = IdleHistogram.f) /\ HistogramPreLaunch(dot, vec, f)
          \/ \E p \in Pixels, l \in 0..PixelLanes - 1 : HistogramKernel(p, l)
          \/ HistogramPostLaunch
       /\ MatrixStill /\ UNCHANGED pixel
    \/ /\ pixel.kind = "matrix"
       /\ \/ \E c \in Matrices, a \in Adds : SetMatrix(c, a)
          \/ \E ein, eout \in Formats : MatrixLaunch(ein, eout)
       /\ HistogramStill /\ UNCHANGED pixel

----------------------------------------------------------------------------
(* The share of source and destination in the result, of 255: the factors    *)
(* the compositing modes are known by.                                       *)
Factors(mode, s, d) ==
    CASE mode = "clear" -> <<0, 0>> [] mode = "src" -> <<255, 0>> [] mode = "dst" -> <<0, 255>>
      [] mode = "src_over" -> <<255, 255 - s[2]>> [] mode = "dst_over" -> <<255 - d[2], 255>>
      [] mode = "src_in" -> <<d[2], 0>> [] mode = "dst_in" -> <<0, s[2]>>
      [] mode = "src_out" -> <<255 - d[2], 0>> [] mode = "dst_out" -> <<0, 255 - s[2]>>
      [] mode = "src_atop" -> <<d[2], 255 - s[2]>> [] mode = "dst_atop" -> <<255 - d[2], s[2]>>
      [] OTHER -> <<255, 255>>

(* The short and byte arithmetic of the blend kernels never shows: every     *)
(* channel of the result is within two levels below the exact composition,   *)
(* and a result of premultiplied pixels is premultiplied.                    *)
BlendExact ==
    (pixel.kind = "blend" /\ "mode" \in DOMAIN pixel) =>
      LET r == Blend(pixel.mode, pixel.s, pixel.d)
          f == Factors(pixel.mode, pixel.s, pixel.d)
      IN  /\ r[1] <= r[2]
          /\ pixel.mode \notin {"multiply", "add"} =>
               \A k \in 1..2 : LET exact == pixel.s[k] * f[1] + pixel.d[k] * f[2]
                               IN  255 * r[k] <= exact /\ exact < 255 * (r[k] + 2)

(* A lookup reads the cells around its point, which are in the cube, its     *)
(* result is between the corners' values and the corners are hit exactly;    *)
(* neutral chroma converts to grey, from black at 16 to white at 235.        *)
LookupExact ==
    /\ (pixel.kind = "lut3d" /\ "in" \in DOMAIN pixel) =>
         LET w == Weight(pixel.dim, pixel.in)
         IN  /\ Coord(pixel.dim, pixel.in) + 1 <= pixel.dim - 1
             /\ \A v \in [Corners -> {7, 255}] :
                  LET r == Interpolate(v, w, w, w)
                  IN  /\ r \in 7..255
                      /\ Cardinality({v[c] : c \in Corners}) = 1 => r = v[<<0, 0, 0>>]
                      /\ w = 0 => r = v[<<0, 0, 0>>]
    /\ (pixel.kind = "yuv" /\ "y" \in DOMAIN pixel /\ pixel.u = 128 /\ pixel.v = 128) =>
         LET p == YuvPixel(pixel.y, 128, 128)
         IN  /\ p[1] = p[2] /\ p[2] = p[3]
             /\ pixel.y <= 16 <=> p[1] = 0
             /\ pixel.y >= 235 <=> p[1] = 255

(* The lanes' counts of one launch, and only of that launch, add up to the   *)
(* output: each bin of each channel holds the number of pixels with that     *)
(* value; with forEach_Dot each pixel is in one bin of the 256.              *)
HistogramExact ==
    histogram.state = "done" =>
      LET pixels == histogram.pixels
          w == Width(histogram)
          withValue(b, k) == {p \in BagToSet(pixels) : p[k] = b}
          count(S) == BagCardinality([p \in S |-> pixels[p]])
      IN  IF histogram.dot
          THEN /\ BagCardinality(histogram.out) = BagCardinality(pixels)
               /\ BagToSet(histogram.out) \subseteq 0..255
          ELSE \A b \in Counted, k \in 1..histogram.vec :
                 CopiesIn(b * w + k - 1, histogram.out) = count(withValue(b, k))

(* Built for a key: a dot product only fills what the integer code with the  *)
(* alpha copied, or without alpha, stores; a red that is always zero has no  *)
(* accumulator in the integer code.                                          *)
KeyCovered(key) ==
    LET float == key.ein.float \/ key.eout.float
    IN  /\ key.dot => ~float /\ (key.copyAlpha \/ key.eout.vec < 4)
        /\ ~float => 0 \in key.addMask \/ \E c \in key.coeffMask : c[2] = 0

(* Whatever matrices, constants and formats came before, a colour matrix     *)
(* launch runs code that adds up, for every output channel, exactly what the *)
(* scalar code adds up for the matrix set now.                               *)
MatrixComputes ==
    computed # <<>> =>
      LET key == computeKey(matrix, compiled.key.ein, compiled.key.eout)
      IN  KeyCovered(key) => \A j \in DOMAIN computed : computed[j] = One(matrix, key, j)

(* The same for every launch, as setGreyscale's "convert from RGB to         *)
(* luminance. The alpha channel will be a copy" reads for every format.      *)
MatrixAlwaysComputes ==
    computed # <<>> =>
      \A j \in DOMAIN computed : computed[j] = One(matrix, compiled.key, j)

============================================================================
