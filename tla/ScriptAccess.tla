---------------------------- MODULE ScriptAccess ----------------------------
(* How a script reaches the cells of an allocation: the accessors of          *)
(* driver/runtime/rs_allocation.c and the sampling of textures in             *)
(* driver/runtime/rs_sample.c, over the pointer table of the CPU driver.      *)
(*                                                                            *)
(* Every byte of the allocation holds a value of its own, its address, so     *)
(* what is read tells where. Coordinates are in sixteenths of a texture's     *)
(* width, levels of detail in quarters, and a sample is in 1024ths of a byte. *)
EXTENDS AllocLayout

CONSTANTS Textures, \* [kind, type, texture]: what samplers are tried on
          Buffers,  \* types whose cells are read and written
          Places,   \* coordinates sampled
          Details   \* levels of detail sampled

VARIABLES alloc, sampler, did
accessVars == <<alloc, sampler, did>>

Table(t) == PointerTable(t, Alignment)
CellByte(a) == a
Packed565(a) == (977 * a) % 65536 \* the 16 bits of a 565 cell
-----------------------------------------------------------------------------
(* rs_allocation.c                                                            *)

\* a coordinate that an overload lacks is 0
Coordinates(c) == [i \in 1 .. 3 |-> IF i <= Len(c) THEN c[i] ELSE 0]

\* where a cell of a given size is
rsOffset(a, size, x, y, z) == LET d == a.tab.lod[0] IN size * x + y * d.stride + z * d.stride * d.y
\* the typed accessors give it the size of the C type; vector loads and stores,
\* which start at the cell, that of the element
rsGetElementAtTyped(a, c) ==
    LET p == Coordinates(c) IN rsOffset(a, getSizeBytes(a.type.e), p[1], p[2], p[3])
rsOffsetNs(a, x, y, z) ==
    LET d == a.tab.lod[0] IN getSizeBytes(a.type.e) * x + y * d.stride + z * d.stride * d.y
rsAllocationVLoadX(a, c) == LET p == Coordinates(c) IN rsOffsetNs(a, p[1], p[2], p[3])
\* the accessors that return or take a pointer
rsGetElementAt(a, c) ==
    LET d == a.tab.lod[0]
        x == getSizeBytes(a.type.e) * c[1]
    IN  CASE Len(c) = 1 -> x
          [] Len(c) = 2 -> x + c[2] * d.stride
          [] Len(c) = 3 -> x + c[2] * d.stride + c[3] * d.stride * d.y
\* the bytes local_memcpy writes
rsSetElementAt(a, c) == {rsGetElementAt(a, c) + b : b \in 0 .. getSizeBytes(a.type.e) - 1}

\* luma is an ordinary cell; chroma is in plane 1 (U) or 2 (V), and yuv.shift is 1
rsGetElementAtYuv_Y(a, x, y) == rsOffset(a, 1, x, y, 0)
rsGetElementAtYuv(a, plane, x, y) ==
    a.tab.lod[plane].off + (x \div 2) * a.tab.step + (y \div 2) * a.tab.lod[plane].stride
-----------------------------------------------------------------------------
(* rs_sample.c: cells, as four channels                                       *)

SkR16ToR32(r) == r * 8 + r \div 4
SkG16ToG32(g) == g * 4 + g \div 16
getFrom565(c) == <<SkR16ToR32(c \div 2048), SkG16ToG32((c \div 32) % 64), SkR16ToR32(c % 32)>>

getElementAt1(p, x) == <<CellByte(p + x)>>
getElementAt2(p, x) == <<CellByte(p + 2 * x), CellByte(p + 2 * x + 1)>>
getElementAt3(p, x) == <<CellByte(p + 4 * x), CellByte(p + 4 * x + 1), CellByte(p + 4 * x + 2)>>
getElementAt4(p, x) == <<CellByte(p + 4 * x), CellByte(p + 4 * x + 1), CellByte(p + 4 * x + 2), CellByte(p + 4 * x + 3)>>
getElementAt565(p, x) == getFrom565(Packed565(p)) \* whatever x is
Row(p, stride, y) == p + y * stride

\* The weighted sum of cells, in 256ths; weights add up to 256.
Blend(cells, weights) ==
    LET sum[i \in 0 .. Len(cells)] ==
          IF i = 0 THEN [c \in DOMAIN cells[1] |-> 0]
          ELSE [c \in DOMAIN cells[1] |-> sum[i - 1][c] + cells[i][c] * weights[i]]
    IN  sum[Len(cells)]
Full == 255 * 256

getSample1D_A(p, xs, w) == LET r == Blend([i \in DOMAIN xs |-> getElementAt1(p, xs[i])], w) IN <<0, 0, 0, r[1]>>
getSample1D_L(p, xs, w) == LET r == Blend([i \in DOMAIN xs |-> getElementAt1(p, xs[i])], w) IN <<r[1], r[1], r[1], Full>>
getSample1D_LA(p, xs, w) == LET r == Blend([i \in DOMAIN xs |-> getElementAt2(p, xs[i])], w) IN <<r[1], r[1], r[1], r[2]>>
getSample1D_RGB(p, xs, w) == LET r == Blend([i \in DOMAIN xs |-> getElementAt3(p, xs[i])], w) IN <<r[1], r[1], r[3], Full>>
getSample1D_565(p, xs, w) == LET r == Blend([i \in DOMAIN xs |-> getElementAt565(p, xs[i])], w) IN <<r[1], r[1], r[3], Full>>
getSample1D_RGBA(p, xs, w) == Blend([i \in DOMAIN xs |-> getElementAt4(p, xs[i])], w)

At2(p, stride, get(_, _), cells) == [i \in DOMAIN cells |-> get(Row(p, stride, cells[i][2]), cells[i][1])]
getSample2D_A(p, s, cells, w) == LET r == Blend(At2(p, s, getElementAt1, cells), w) IN <<0, 0, 0, r[1]>>
getSample2D_L(p, s, cells, w) == LET r == Blend(At2(p, s, getElementAt1, cells), w) IN <<r[1], r[1], r[1], Full>>
getSample2D_LA(p, s, cells, w) == LET r == Blend(At2(p, s, getElementAt2, cells), w) IN <<r[1], r[1], r[1], r[2]>>
getSample2D_RGB(p, s, cells, w) == LET r == Blend(At2(p, s, getElementAt4, cells), w) IN <<r[1], r[2], r[3], Full>>
getSample2D_RGBA(p, s, cells, w) == Blend(At2(p, s, getElementAt4, cells), w)
getSample2D_565(p, s, cells, w) == LET r == Blend(At2(p, s, getElementAt565, cells), w) IN <<r[1], r[2], r[3], Full>>

getBilinearSample1D(kind, p, xs, w) ==
    CASE kind = "RGBA" -> getSample1D_RGBA(p, xs, w)
      [] kind = "A" -> getSample1D_A(p, xs, w)
      [] kind = "565" -> getSample1D_565(p, xs, w)
      [] kind = "RGB" -> getSample1D_RGB(p, xs, w)
      [] kind = "L" -> getSample1D_L(p, xs, w)
      [] kind = "LA" -> getSample1D_LA(p, xs, w)
getBilinearSample2D(kind, p, s, cells, w) ==
    CASE kind = "RGBA" -> getSample2D_RGBA(p, s, cells, w)
      [] kind = "A" -> getSample2D_A(p, s, cells, w)
      [] kind = "565" -> getSample2D_565(p, s, cells, w)
      [] kind = "RGB" -> getSample2D_RGB(p, s, cells, w)
      [] kind = "L" -> getSample2D_L(p, s, cells, w)
      [] kind = "LA" -> getSample2D_LA(p, s, cells, w)

Scaled(v) == [c \in 1 .. 4 |-> 256 * v[c]]
getNearestSample1D(kind, p, x) ==
    Scaled(CASE kind = "RGBA" -> getElementAt4(p, x)
             [] kind = "A" -> <<0, 0, 0>> \o getElementAt1(p, x)
             [] kind = "LA" -> LET e == getElementAt2(p, x) IN <<e[1], e[1], e[1], e[2]>>
             [] kind = "565" -> getElementAt565(p, x) \o <<255>>
             [] kind = "RGB" -> getElementAt3(p, x) \o <<255>>
             [] kind = "L" -> LET e == getElementAt1(p, x) IN <<e[1], e[1], e[1], 255>>)
\* luminance is not among its cases
getNearestSample2D(kind, p, s, x, y) ==
    LET q == Row(p, s, y)
    IN  Scaled(CASE kind = "RGBA" -> getElementAt4(q, x)
                 [] kind = "A" -> <<0, 0, 0>> \o getElementAt1(q, x)
                 [] kind = "LA" -> LET e == getElementAt2(q, x) IN <<e[1], e[1], e[1], e[2]>>
                 [] kind = "565" -> getElementAt565(q, x) \o <<255>>
                 [] kind = "RGB" -> getElementAt3(q, x) \o <<255>>
                 [] OTHER -> <<0, 0, 0, 255>>)
-----------------------------------------------------------------------------
(* rs_sample.c: places                                                        *)

Within(c, size) == IF c < 0 THEN 0 ELSE IF c > size - 1 THEN size - 1 ELSE c
wrapIReflected(wrap, coord, size) ==
    LET m == coord % (size * 2)
    IN  Within(CASE wrap = "WRAP" -> coord % size
                 [] wrap = "MIRRORED_REPEAT" -> IF m >= size THEN size * 2 - m ELSE m
                 [] OTHER -> coord, size)
wrapI(wrap, coord, size) ==
    LET m == coord % (size * 2)
    IN  Within(CASE wrap = "WRAP" -> coord % size
                 [] wrap = "MIRRORED_REPEAT" -> IF m >= size THEN (size * 2 - 1) - m ELSE m
                 [] OTHER -> coord, size)

\* the first of the two cells a coordinate falls between, and the second's weight
First(p) == IF p % 16 < 8 THEN p \div 16 - 1 ELSE p \div 16
Frac(p) == IF p % 16 < 8 THEN (p % 16) + 8 ELSE (p % 16) - 8

sample_LOD_LinearPixel1D(a, smp, u, lod) ==
    LET d == a.tab.lod[lod]
        p == u * d.x
        next == wrapI(smp.wrapS, First(p) + 1, d.x)
        location == wrapI(smp.wrapS, First(p), d.x)
    IN  getBilinearSample1D(a.kind, d.off, <<location, next>>, <<16 * (16 - Frac(p)), 16 * Frac(p)>>)
sample_LOD_NearestPixel1D(a, smp, u, lod) ==
    LET d == a.tab.lod[lod]
    IN  getNearestSample1D(a.kind, d.off, wrapI(smp.wrapS, (u * d.x) \div 16, d.x))
sample_LOD_LinearPixel2D(a, smp, uv, lod) ==
    LET d == a.tab.lod[lod]
        p == uv[1] * d.x
        q == uv[2] * d.y
        nx == wrapI(smp.wrapS, First(p) + 1, d.x)
        ny == wrapI(smp.wrapT, First(q) + 1, d.y)
        lx == wrapI(smp.wrapS, First(p), d.x)
        ly == wrapI(smp.wrapT, First(q), d.y)
    IN  getBilinearSample2D(a.kind, d.off, d.stride,
            <<<<lx, ly>>, <<nx, ly>>, <<lx, ny>>, <<nx, ny>>>>,
            <<(16 - Frac(p)) * (16 - Frac(q)), Frac(p) * (16 - Frac(q)),
              (16 - Frac(p)) * Frac(q), Frac(p) * Frac(q)>>)
sample_LOD_NearestPixel2D(a, smp, uv, lod) ==
    LET d == a.tab.lod[lod]
    IN  getNearestSample2D(a.kind, d.off, d.stride, wrapI(smp.wrapS, (uv[1] * d.x) \div 16, d.x),
                                                    wrapI(smp.wrapT, (uv[2] * d.y) \div 16, d.y))

Quarters(v) == [c \in 1 .. 4 |-> 4 * v[c]]
Zero == <<0, 0, 0, 0>>
Least(a, b) == IF a < b THEN a ELSE b
Mixed(a, b, f) == [c \in 1 .. 4 |-> a[c] * (4 - f) + b[c] * f]

\* lod in quarters: rounded, rounded down, rounded up
Sample1D(a, smp, u, lod) ==
    LET maxLOD == lodCount(a.type) - 1
        lod0 == Least(lod \div 4, maxLOD)
        lod1 == Least((lod + 3) \div 4, maxLOD)
    IN  IF ~a.texture THEN Zero
        ELSE IF lod <= 0
             THEN Quarters(IF smp.mag = "NEAREST" THEN sample_LOD_NearestPixel1D(a, smp, u, 0)
                                                  ELSE sample_LOD_LinearPixel1D(a, smp, u, 0))
        ELSE CASE smp.min = "LINEAR_MIP_NEAREST" ->
                    Quarters(sample_LOD_LinearPixel1D(a, smp, u, (Least(lod, 4 * maxLOD) + 2) \div 4))
               [] smp.min = "LINEAR_MIP_LINEAR" ->
                    Mixed(sample_LOD_LinearPixel1D(a, smp, u, lod0), sample_LOD_LinearPixel1D(a, smp, u, lod1), lod - 4 * lod0)
               [] OTHER -> Quarters(sample_LOD_NearestPixel1D(a, smp, u, 0))
Sample2D(a, smp, uv, lod) ==
    LET maxLOD == lodCount(a.type) - 1
        lod0 == Least(lod \div 4, maxLOD)
        lod1 == Least((lod + 3) \div 4, maxLOD)
    IN  IF ~a.texture THEN Zero
        ELSE IF lod <= 0
             THEN Quarters(IF smp.mag = "NEAREST" THEN sample_LOD_NearestPixel2D(a, smp, uv, 0)
                                                  ELSE sample_LOD_LinearPixel2D(a, smp, uv, 0))
        ELSE CASE smp.min = "LINEAR_MIP_NEAREST" ->
                    Quarters(sample_LOD_LinearPixel2D(a, smp, uv, (Least(lod, 4 * maxLOD) + 2) \div 4))
               [] smp.min = "LINEAR_MIP_LINEAR" ->
                    Mixed(sample_LOD_LinearPixel2D(a, smp, uv, lod0), sample_LOD_LinearPixel2D(a, smp, uv, lod1), lod - 4 * lod0)
               [] OTHER -> Quarters(sample_LOD_NearestPixel2D(a, smp, uv, 0))
\* the overload without a level
Sample2DPlain(a, smp, uv) ==
    IF ~a.texture THEN Zero
    ELSE Quarters(IF smp.mag = "NEAREST" THEN sample_LOD_NearestPixel2D(a, smp, uv, 0)
                                         ELSE sample_LOD_LinearPixel2D(a, smp, uv, 0))
-----------------------------------------------------------------------------
(* Steps                                                                      *)

Wraps == {"CLAMP", "WRAP", "MIRRORED_REPEAT"}
Samplers ==
    {[mag |-> m, min |-> n, wrapS |-> s, wrapT |-> t] :
        m \in {"NEAREST", "LINEAR"}, n \in {"NEAREST", "LINEAR", "LINEAR_MIP_LINEAR", "LINEAR_MIP_NEAREST"},
        s \in Wraps, t \in Wraps}
NotAsked == [op |-> "nothing"]
NoSampler == [mag |-> "NEAREST", min |-> "NEAREST", wrapS |-> "CLAMP", wrapT |-> "CLAMP"]

AccessInit ==
    /\ \/ /\ \E t \in Textures : alloc = [kind |-> t.kind, type |-> t.type, texture |-> t.texture, tab |-> Table(t.type)]
          /\ sampler \in Samplers
          /\ alloc.type.y = 0 => sampler.wrapT = "CLAMP"
       \/ /\ \E t \in Buffers : alloc = [kind |-> "cells", type |-> t, texture |-> FALSE, tab |-> Table(t)]
          /\ sampler = NoSampler
    /\ did = NotAsked

rsSample1D(u, lod) ==
    /\ did = NotAsked /\ alloc.kind # "cells" /\ alloc.type.y = 0
    /\ did' = [op |-> "sample", uv |-> <<u>>, lod |-> lod, value |-> Sample1D(alloc, sampler, u, lod)]
    /\ UNCHANGED <<alloc, sampler>>
rsSample2D(uv, lod) ==
    /\ did = NotAsked /\ alloc.kind # "cells" /\ alloc.type.y > 0
    /\ did' = [op |-> "sample", uv |-> uv, lod |-> lod, value |-> Sample2D(alloc, sampler, uv, lod)]
    /\ UNCHANGED <<alloc, sampler>>
rsSample2DPlain(uv) ==
    /\ did = NotAsked /\ alloc.kind # "cells" /\ alloc.type.y > 0
    /\ did' = [op |-> "sample", uv |-> uv, lod |-> 0, value |-> Sample2DPlain(alloc, sampler, uv)]
    /\ UNCHANGED <<alloc, sampler>>
AccessCell(c) ==
    /\ did = NotAsked /\ alloc.kind = "cells" /\ ~Planes(alloc.type)
    /\ did' = [op |-> "cell", at |-> c, found |-> {rsGetElementAtTyped(alloc, c), rsAllocationVLoadX(alloc, c), rsGetElementAt(alloc, c)},
               written |-> rsSetElementAt(alloc, c)]
    /\ UNCHANGED <<alloc, sampler>>
AccessFrame ==
    /\ did = NotAsked /\ alloc.kind = "cells" /\ Planes(alloc.type)
    /\ did' = [op |-> "frame",
               luma |-> [x \in 0 .. alloc.type.x - 1, y \in 0 .. alloc.type.y - 1 |-> rsGetElementAtYuv_Y(alloc, x, y)],
               chroma |-> [x \in 0 .. alloc.type.x - 1, y \in 0 .. alloc.type.y - 1, plane \in 1 .. 2 |->
                              rsGetElementAtYuv(alloc, plane, x, y)]]
    /\ UNCHANGED <<alloc, sampler>>

CoordinatesOf(t) ==
    CASE t.z > 0 -> {<<x, y, z>> : x \in 0 .. t.x - 1, y \in 0 .. t.y - 1, z \in 0 .. t.z - 1}
      [] t.y > 0 /\ t.z = 0 -> {<<x, y>> : x \in 0 .. t.x - 1, y \in 0 .. t.y - 1}
      [] OTHER -> {<<x>> : x \in 0 .. t.x - 1}
AccessNext ==
    \/ \E u \in Places, lod \in Details : rsSample1D(u, lod)
    \/ \E u \in Places, v \in {-9, 0, 7, 21}, lod \in Details : rsSample2D(<<u, v>>, lod)
    \/ \E u \in Places, v \in {-9, 7} : rsSample2DPlain(<<u, v>>)
    \/ \E c \in CoordinatesOf(alloc.type) : AccessCell(c)
    \/ AccessFrame
AccessSpec == AccessInit /\ [][AccessNext]_accessVars
-----------------------------------------------------------------------------
(* What a sampler asks for                                                    *)

\* the cell a wrap mode repeats at position j
Repeats(wrap, j, size, i) ==
    CASE wrap = "WRAP" -> (j - i) % size = 0
      [] wrap = "MIRRORED_REPEAT" -> (j - i) % (2 * size) = 0 \/ (j + i + 1) % (2 * size) = 0
      [] OTHER -> i = j \/ (j < 0 /\ i = 0) \/ (j >= size /\ i = size - 1)
CellAt(wrap, j, size) == CHOOSE i \in 0 .. size - 1 : Repeats(wrap, j, size, i)
AbsOf(n) == IF n < 0 THEN -n ELSE n
\* the weight, in 16ths, of the cell at position j for a coordinate p: all of it
\* for the cell p is in, or falling off with the distance from its middle
WeightOf(linear, j, p) ==
    IF linear THEN LET far == AbsOf(16 * j + 8 - p) IN IF far < 16 THEN 16 - far ELSE 0
    ELSE IF 16 * j <= p /\ p < 16 * j + 16 THEN 16 ELSE 0
Near(p) == {p \div 16 - 1, p \div 16, p \div 16 + 1}
Pixel(a, lod, x, y) ==
    LET o == GetOffsetPtr(a.type, a.tab, x, y, 0, lod, 0)
    IN  CASE a.kind = "RGBA" -> <<CellByte(o), CellByte(o + 1), CellByte(o + 2), CellByte(o + 3)>>
          [] a.kind = "RGB" -> <<CellByte(o), CellByte(o + 1), CellByte(o + 2), 255>>
          [] a.kind = "565" -> getFrom565(Packed565(o)) \o <<255>>
          [] a.kind = "A" -> <<0, 0, 0, CellByte(o)>>
          [] a.kind = "L" -> <<CellByte(o), CellByte(o), CellByte(o), 255>>
          [] a.kind = "LA" -> <<CellByte(o), CellByte(o), CellByte(o), CellByte(o + 1)>>
SumOver(S, f(_)) ==
    LET sum[T \in SUBSET S] == IF T = {} THEN 0 ELSE LET e == CHOOSE e \in T : TRUE IN f(e) + sum[T \ {e}]
    IN  sum[S]
Weighted(linear, lod, c) ==
    LET d == alloc.tab.lod[lod]
        p == did.uv[1] * d.x
        q == IF alloc.type.y = 0 THEN 0 ELSE did.uv[2] * d.y
        rows == IF alloc.type.y = 0 THEN {0} ELSE Near(q)
    IN  SumOver(Near(p) \X rows, LAMBDA jk :
            WeightOf(linear, jk[1], p) * (IF alloc.type.y = 0 THEN 16 ELSE WeightOf(linear, jk[2], q))
              * Pixel(alloc, lod, CellAt(sampler.wrapS, jk[1], d.x),
                      IF alloc.type.y = 0 THEN 0 ELSE CellAt(sampler.wrapT, jk[2], d.y))[c])
Described(c) ==
    LET top == 4 * (lodCount(alloc.type) - 1)
        lod == Least(did.lod, top)
        low == lod \div 4
        high == Least(low + 1, lodCount(alloc.type) - 1)
    IN  IF ~alloc.texture THEN 0
        ELSE IF did.lod <= 0 THEN 4 * Weighted(sampler.mag # "NEAREST", 0, c)
        ELSE CASE sampler.min = "NEAREST" -> 4 * Weighted(FALSE, 0, c)
               [] sampler.min = "LINEAR" -> 4 * Weighted(TRUE, 0, c)
               [] sampler.min = "LINEAR_MIP_NEAREST" -> 4 * Weighted(TRUE, IF lod % 4 < 2 THEN low ELSE high, c)
               [] sampler.min = "LINEAR_MIP_LINEAR" -> Weighted(TRUE, low, c) * (4 - (lod % 4)) + Weighted(TRUE, high, c) * (lod % 4)

\* the samples the code takes as the sampler describes them
SamplesLinear == IF did.lod <= 0 THEN sampler.mag = "LINEAR" ELSE sampler.min \in {"LINEAR_MIP_LINEAR", "LINEAR_MIP_NEAREST"}
Regular ==
    /\ alloc.kind # "565"
    /\ ~(alloc.kind = "RGB" /\ alloc.type.y = 0 /\ SamplesLinear)
    /\ ~(alloc.kind = "L" /\ alloc.type.y > 0 /\ ~SamplesLinear)
    /\ ~(did.lod > 0 /\ sampler.min = "LINEAR")

\* rsSample returns what the sampler describes, in every wrap mode and at every
\* level of detail: the cell the coordinate is in or the cells around it weighted
\* by distance, between the two levels around lod; but for 565 textures, for RGB
\* in one dimension, for luminance in two without filtering and for LINEAR
\* minification.
SampleExact == did.op = "sample" /\ Regular => \A c \in 1 .. 4 : did.value[c] = Described(c)

\* The documentation's "Fetches a value from a texture allocation in a way
\* described by the sampler.", without exceptions.
SampleDescribed == did.op = "sample" => \A c \in 1 .. 4 : did.value[c] = Described(c)

\* Every accessor of a script finds a cell where the driver put it, and a store
\* writes that cell and no other's bytes; the chroma of a frame is read inside
\* the chroma planes, U and V apart, one byte for each two by two pixels.
CellsFound ==
    /\ did.op = "cell" =>
          LET c == Coordinates(did.at)
              a == GetOffsetPtr(alloc.type, alloc.tab, c[1], c[2], c[3], 0, 0)
          IN  did.found = {a} /\ did.written = a .. a + getSizeBytes(alloc.type.e) - 1
    /\ did.op = "frame" =>
          /\ \A k \in DOMAIN did.luma : did.luma[k] = GetOffsetPtr(alloc.type, alloc.tab, k[1], k[2], 0, 0, 0)
          /\ \A k, m \in DOMAIN did.chroma :
               /\ alloc.tab.lod[0].stride * alloc.type.y <= did.chroma[k]
               /\ did.chroma[k] < allocSize(alloc.type, alloc.tab)
               /\ did.chroma[k] = did.chroma[m] <=>
                     k[1] \div 2 = m[1] \div 2 /\ k[2] \div 2 = m[2] \div 2 /\ k[3] = m[3]
=============================================================================
