--------------------------- MODULE IntrinsicRows ---------------------------
(* The CPU intrinsics as the launcher calls them: a kernel gets one row of  *)
(* the output, columns xstart..xend-1, and a pointer to column xstart.  It   *)
(* writes the row in up to three runs: pixels near the left edge one at a    *)
(* time, a middle run in groups of 2, 4 or 8 by a vector routine (on the     *)
(* builds that have one), and the rest one at a time.  What matters is which *)
(* cell each store goes to, how wide it is, and which input columns and rows *)
(* it was computed from; the arithmetic on the pixels is in IntrinsicPixels. *)
EXTENDS Integers, Sequences, FiniteSets

CONSTANTS
    Dims,       \* widths of the output (the one-channel blur's buffer holds
                \* 4 * RowBuffer cells, and wider rows are not launched)
    RowBuffer,  \* cells of the blur's buffer on the stack, 2048 in the code
    Radii       \* blur radii, rounded up

ASSUME RowsAssumption == Dims \subseteq 1..4 * RowBuffer /\ Radii \subseteq 1..25

VARIABLES
    launch,     \* the launch: intrinsic, element, build, range, sizes
    rows,       \* the input rows the kernel reads, top to bottom
    writes,     \* its stores in order: byte, width, columns read, saturation
    scratch,    \* mScratchSize of the lane: the blur's buffer on the heap
    buffer      \* the row buffer this launch used: its cells, the last one read

rowVars == <<launch, rows, writes, scratch, buffer>>

Max2(a, b) == IF a > b THEN a ELSE b
Min2(a, b) == IF a < b THEN a ELSE b
Clamp(i, n) == Max2(0, Min2(i, n - 1))

(* Elements: their type, vector size and, a cell of three padded to four,   *)
(* their bytes.                                                              *)
RowElements == [type : {"u8", "f32"}, vec : 1..4]
PaddedVec(v) == IF v = 3 THEN 4 ELSE v
Bytes(e) == PaddedVec(e.vec) * (IF e.type = "f32" THEN 4 ELSE 1)

----------------------------------------------------------------------------
(* A kernel's progress: the column it is at, the byte its out pointer is at,*)
(* and its stores.  The launcher points outPtr at column xstart.             *)
FepPtrSetup(L, cell) == [x |-> L.xstart, out |-> L.xstart * cell, writes |-> <<>>]

(* n pixels from the current column on, stored in cells of `cell` bytes;     *)
(* One(L, x) says what the pixel at column x is computed from.                  *)
Emit(p, L, n, cell, One(_, _)) ==
    [x |-> p.x + n, out |-> p.out + n * cell,
     writes |-> p.writes \o [i \in 1..n |->
         [out |-> p.out + (i - 1) * cell, cell |-> cell,
          taps |-> One(L, p.x + i - 1).taps, sat |-> One(L, p.x + i - 1).sat]]]

(* The rest of the row, one pixel at a time.                                 *)
Rest(p, L, cell, One(_, _)) == Emit(p, L, Max2(0, L.xend - p.x), cell, One)

(* What a vector routine reads for the pixel at x: x-r..x+r, never clamped.  *)
Straight(L, x) == [taps |-> [i \in 1..2 * L.r + 1 |-> x - L.r - 1 + i], sat |-> TRUE]

Arm == {"neon", "arm64"}    \* the builds with ARCH_ARM_USE_INTRINSICS

----------------------------------------------------------------------------
(* Convolve3x3: the first column alone, then pairs by the vector routine on  *)
(* the builds that have one, one column short of the end, then the rest.     *)
Rows3(L) == <<Max2(L.y - 1, 0), L.y, Min2(L.y + 1, L.dimY - 1)>>

ConvolveOneU(L, x) ==
    [taps |-> <<Max2(x - 1, 0), x, Min2(x + 1, L.dimX - 1)>>, sat |-> TRUE]

ConvolveOneF(L, x) ==
    [taps |-> <<Max2(x - 1, 0), x, Min2(x + 1, L.dimX - 1)>>, sat |-> FALSE]

First3(L, cell, One(_, _)) ==
    LET p == FepPtrSetup(L, cell) IN IF p.x = 0 THEN Emit(p, L, 1, cell, One) ELSE p

kernel3U4Wide(L) ==
    LET a   == First3(L, 4, ConvolveOneU)
        len == (L.xend - a.x) \div 2
        b   == IF L.build # "plain" /\ len > 0 THEN Emit(a, L, 2 * len, 4, Straight) ELSE a
    IN  Rest(b, L, 4, ConvolveOneU)

kernel3U4(L) ==
    LET a   == First3(L, 4, ConvolveOneU)
        len == (L.xend - a.x - 1) \div 2
        b   == IF L.build # "plain" /\ len > 0 THEN Emit(a, L, 2 * len, 4, Straight) ELSE a
    IN  Rest(b, L, 4, ConvolveOneU)

kernel3U2(L) == Rest(First3(L, 2, ConvolveOneU), L, 2, ConvolveOneU)
kernel3U1(L) == Rest(First3(L, 1, ConvolveOneU), L, 1, ConvolveOneU)
kernel3F4(L) == Rest(First3(L, 16, ConvolveOneF), L, 16, ConvolveOneF)
kernel3F2(L) == Rest(First3(L, 8, ConvolveOneF), L, 8, ConvolveOneF)
kernel3F1(L) == Rest(First3(L, 4, ConvolveOneF), L, 4, ConvolveOneF)

(* The constructor picks the kernel by the element.                          *)
Convolve3x3(L) ==
    IF L.elem.type = "f32"
    THEN CASE L.elem.vec = 1 -> kernel3F1(L)
           [] L.elem.vec = 2 -> kernel3F2(L)
           [] L.elem.vec \in {3, 4} -> kernel3F4(L)
    ELSE CASE L.elem.vec = 1 -> kernel3U1(L)
           [] L.elem.vec = 2 -> kernel3U2(L)
           [] L.elem.vec \in {3, 4} -> kernel3U4(L)

----------------------------------------------------------------------------
(* Convolve5x5: two columns alone, then quads (x86, seven or more columns    *)
(* left) or pairs (ARM, four or more), three columns short of the end.       *)
Rows5(L) == <<Max2(L.y - 2, 0), Max2(L.y - 1, 0), L.y,
              Min2(L.y + 1, L.dimY - 1), Min2(L.y + 2, L.dimY - 1)>>

Taps5(x, n) == <<Max2(x - 2, 0), Max2(x - 1, 0), x, Min2(x + 1, n - 1), Min2(x + 2, n - 1)>>
OneU(L, x) == [taps |-> Taps5(x, L.dimX), sat |-> TRUE]
OneF(L, x) == [taps |-> Taps5(x, L.dimX), sat |-> FALSE]

First5(L, cell, One(_, _)) ==
    Emit(FepPtrSetup(L, cell), L, Max2(0, Min2(L.xend, 2) - L.xstart), cell, One)

kernel5U4(L) ==
    LET a == First5(L, 4, OneU)
        n == CASE L.build = "sse" /\ a.x + 6 < L.xend -> 4 * ((L.xend - a.x - 3) \div 4)
               [] L.build \in Arm /\ a.x + 3 < L.xend -> 2 * ((L.xend - a.x - 3) \div 2)
               [] OTHER -> 0
    IN  Rest(Emit(a, L, n, 4, Straight), L, 4, OneU)

kernel5U2(L) == Rest(First5(L, 2, OneU), L, 2, OneU)
kernel5U1(L) == Rest(First5(L, 1, OneU), L, 1, OneU)
kernel5F4(L) == Rest(First5(L, 16, OneF), L, 16, OneF)
kernel5F2(L) == Rest(First5(L, 8, OneF), L, 8, OneF)
kernel5F1(L) == Rest(First5(L, 4, OneF), L, 4, OneF)

Convolve5x5(L) ==
    IF L.elem.type = "f32"
    THEN CASE L.elem.vec = 1 -> kernel5F1(L)
           [] L.elem.vec = 2 -> kernel5F2(L)
           [] L.elem.vec \in {3, 4} -> kernel5F4(L)
    ELSE CASE L.elem.vec = 1 -> kernel5U1(L)
           [] L.elem.vec = 2 -> kernel5U2(L)
           [] L.elem.vec \in {3, 4} -> kernel5U4(L)

----------------------------------------------------------------------------
(* Blur: a vertical pass over the whole row into a buffer of floats, then a  *)
(* horizontal pass over the range.  On ARM a routine does both.              *)
Window(c, r, n) == [i \in 1..2 * r + 1 |-> Clamp(c - r - 1 + i, n)]
OneVU(L) == Window(L.y, L.r, L.dimY)
OneVF(L) == [i \in 1..2 * L.r + 1 |-> L.y - L.r - 1 + i]
OneHU(L, x) == [taps |-> Window(x, L.r, L.dimX), sat |-> TRUE]

(* The buffer of a four-channel row wider than the one on the stack is the   *)
(* lane's scratch memory, grown when it is too small.                        *)
Scratch(L, size) == IF L.dimX > RowBuffer /\ L.dimX > size THEN L.dimX ELSE size

WholeRow(L) == [cells |-> L.dimX, reach |-> L.dimX - 1]

blurU4(L, size) ==
    LET p == FepPtrSetup(L, 4)
        a == Emit(p, L, Max2(0, Min2(L.r, L.xend) - p.x), 4, OneHU)
        n == IF L.build = "sse" /\ a.x + L.r < L.xend THEN (L.xend - L.r) - a.x ELSE 0
    IN  IF L.build \in Arm /\ L.dimX >= 4
        THEN [writes |-> Rest(p, L, 4, OneHU).writes, rows |-> OneVU(L),
              buffer |-> WholeRow(L), scratch |-> size]
        ELSE [writes |-> Rest(Emit(a, L, n, 4, Straight), L, 4, OneHU).writes,
              rows |-> IF L.y > L.r /\ L.y < L.dimY - L.r THEN OneVF(L) ELSE OneVU(L),
              buffer |-> [cells |-> IF L.dimX > RowBuffer THEN Scratch(L, size) ELSE RowBuffer,
                          reach |-> L.dimX - 1],
              scratch |-> Scratch(L, size)]

(* The one-channel kernel first goes on to a store address that is a         *)
(* multiple of four.  Its vector routine reads four cells more than it needs *)
(* and is kept four columns short of what it could do.                       *)
blurU1(L, size) ==
    LET p    == FepPtrSetup(L, 1)
        stop == {x \in L.xstart..L.xend :
                   x = L.xend \/ (x >= L.r /\ (L.align + x) % 4 = 0)}
        to   == CHOOSE x \in stop : \A other \in stop : x <= other
        a    == Emit(p, L, to - p.x, 1, OneHU)
        four == 4 * ((L.xend - (a.x + L.r)) \div 4)
        n    == IF L.build = "sse" /\ a.x + L.r < L.xend /\ four > 4 THEN four - 4 ELSE 0
    IN  IF /\ L.build \in Arm
           /\ L.dimX >= 16
           /\ L.r > 8 \/ L.dimX - Max2(0, L.xstart - 8) >= 16
        THEN [writes |-> Rest(p, L, 1, OneHU).writes, rows |-> OneVU(L),
              buffer |-> WholeRow(L), scratch |-> size]
        ELSE [writes |-> Rest(Emit(a, L, n, 1, Straight), L, 1, OneHU).writes,
              rows |-> IF L.y > L.r /\ L.y < L.dimY - L.r - 1 THEN OneVF(L) ELSE OneVU(L),
              buffer |-> [cells |-> 4 * RowBuffer,
                          reach |-> IF n > 0 THEN a.x + n - 1 + L.r + 4 ELSE L.dimX - 1],
              scratch |-> size]

Blur(L, size) == IF L.elem.vec = 1 THEN blurU1(L, size) ELSE blurU4(L, size)

----------------------------------------------------------------------------
(* Resize: four taps per output column, the centre of the column scaled by   *)
(* src / dst.  Positions are counted in halves of an output cell.  The store *)
(* starts xstart cells after the pointer it is given.                        *)
Start4(x, src, dst) == ((2 * x + 1) * src - 3 * dst) \div (2 * dst)
OneBiCubic(x, src, dst) ==
    LET s == Start4(x, src, dst)
    IN  <<Max2(0, s), Max2(0, s + 1), Min2(src - 1, s + 2), Min2(src - 1, s + 3)>>
RowsResize(L) == OneBiCubic(L.y, L.srcY, L.dimY)

BicubicU(L, x) == [taps |-> OneBiCubic(x, L.srcX, L.dimX), sat |-> TRUE]
BicubicF(L, x) == [taps |-> OneBiCubic(x, L.srcX, L.dimX), sat |-> FALSE]
Shifted(L, cell) ==
    LET p == FepPtrSetup(L, cell) IN [p EXCEPT !.out = p.out + L.xstart * cell]

(* The ARM routine takes the whole range when the scale is below four.       *)
ResizeU(L, cell) ==
    LET p == Shifted(L, cell)
        a == IF L.build \in Arm /\ L.xend > L.xstart /\ L.srcX < 4 * L.dimX
             THEN Emit(p, L, L.xend - L.xstart, cell, BicubicU) ELSE p
    IN  Rest(a, L, cell, BicubicU)

resizeU4(L) == ResizeU(L, 4)
resizeU2(L) == ResizeU(L, 2)
resizeU1(L) == ResizeU(L, 1)
resizeF4(L) == Rest(Shifted(L, 16), L, 16, BicubicF)
resizeF2(L) == Rest(Shifted(L, 8), L, 8, BicubicF)
resizeF1(L) == Rest(Shifted(L, 4), L, 4, BicubicF)

(* preLaunch picks the kernel by the input's element.                        *)
Resize(L) ==
    IF L.elem.type = "u8"
    THEN CASE L.elem.vec = 1 -> resizeU1(L)
           [] L.elem.vec = 2 -> resizeU2(L)
           [] L.elem.vec \in {3, 4} -> resizeU4(L)
    ELSE CASE L.elem.vec = 1 -> resizeF1(L)
           [] L.elem.vec = 2 -> resizeF2(L)
           [] L.elem.vec \in {3, 4} -> resizeF4(L)

----------------------------------------------------------------------------
(* YuvToRGB: two output columns share a chroma column, so an odd first       *)
(* column goes alone and the loop stores two columns at a time.              *)
YuvCell(L, x) == [taps |-> <<x, (x \div 2) * L.step>>, sat |-> TRUE]
YuvToRGB(L) ==
    LET p == Shifted(L, 4)
        a == IF p.x % 2 = 1 /\ L.xend > p.x THEN Emit(p, L, 1, 4, YuvCell) ELSE p
        b == IF L.build \in Arm /\ (L.step = 1 \/ L.adjacent)
             THEN Rest(a, L, 4, YuvCell) ELSE a
        pairs == (Max2(0, L.xend - b.x) + 1) \div 2
        Pair(l, x) == [taps |-> <<x, ((b.x + 2 * ((x - b.x) \div 2)) \div 2) * L.step>>,
                    sat |-> TRUE]
    IN  Emit(b, L, 2 * pairs, 4, Pair)

----------------------------------------------------------------------------
(* The kernels that compute each cell from the same cell of the input.       *)
Same(L, x) == [taps |-> <<x>>, sat |-> L.elem.type = "u8"]

LUT(L) == Rest(FepPtrSetup(L, 4), L, 4, Same)

LUT3D(L) ==
    LET p == FepPtrSetup(L, 4)
        a == IF L.build \in Arm THEN Rest(p, L, 4, Same) ELSE p
    IN  Rest(a, L, 4, Same)

(* The x86 routines of Blend do groups of eight when more than eight are     *)
(* left.                                                                      *)
BlendRow(L) ==
    LET p == FepPtrSetup(L, 4)
        a == CASE L.build \in Arm -> Rest(p, L, 4, Same)
               [] L.build = "sse" /\ p.x + 8 < L.xend ->
                    Emit(p, L, 8 * ((L.xend - p.x) \div 8), 4, Same)
               [] OTHER -> p
    IN  Rest(a, L, 4, Same)

(* ColorMatrix: the compiled routine (ARM, where memory for it could be      *)
(* mapped) does groups of four; on arm64 a routine takes the whole range of  *)
(* bytes.  One() stores four, two or one channel by the output's vector.     *)
ColorMatrixRow(L) ==
    LET cell == Bytes(L.elem)
        p    == FepPtrSetup(L, cell)
        len  == L.xend - p.x
        a    == CASE L.build = "neon" /\ L.built /\ len >= 4 ->
                       Emit(p, L, 4 * (len \div 4), cell, Same)
                  [] L.build = "arm64" /\ L.elem.type = "u8" -> Rest(p, L, cell, Same)
                  [] OTHER -> p
    IN  Rest(a, L, cell, Same)

----------------------------------------------------------------------------
(* One launch: the launcher gives the kernel a row of the output.  Only      *)
(* Convolve, Resize and ColorMatrix can be given launch options, that is, a  *)
(* range that starts or ends inside the row.                                 *)
RowKinds == {"convolve3", "convolve5", "blur", "resize", "yuv", "lut", "lut3d", "blend", "matrix"}
Clippable == {"convolve3", "convolve5", "resize", "matrix"}

RowElement(kind) ==
    CASE kind \in Clippable -> RowElements
      [] kind = "blur" -> {[type |-> "u8", vec |-> v] : v \in {1, 4}}
      [] OTHER -> {[type |-> "u8", vec |-> 4]}

Result(L, size) ==
    LET Of(p, rs) == [writes |-> p.writes, rows |-> rs,
                      buffer |-> WholeRow(L), scratch |-> size]
    IN  CASE L.kind = "convolve3" -> Of(Convolve3x3(L), Rows3(L))
          [] L.kind = "convolve5" -> Of(Convolve5x5(L), Rows5(L))
          [] L.kind = "blur" -> Blur(L, size)
          [] L.kind = "resize" -> Of(Resize(L), RowsResize(L))
          [] L.kind = "yuv" -> Of(YuvToRGB(L), <<L.y>>)
          [] L.kind = "lut" -> Of(LUT(L), <<L.y>>)
          [] L.kind = "lut3d" -> Of(LUT3D(L), <<L.y>>)
          [] L.kind = "blend" -> Of(BlendRow(L), <<L.y>>)
          [] L.kind = "matrix" -> Of(ColorMatrixRow(L), <<L.y>>)

Builds == {"plain", "sse", "neon", "arm64"}
IdleRow == {[kind |-> "none", script |-> kind, build |-> build] : kind \in RowKinds, build \in Builds}

RowInit ==
    /\ launch \in IdleRow
    /\ rows = <<>> /\ writes = <<>>
    /\ scratch = 0
    /\ buffer = [cells |-> 0, reach |-> -1]

Launched(L) ==
    LET r == Result(L, scratch)
    IN  /\ launch' = L
        /\ rows' = r.rows /\ writes' = r.writes
        /\ buffer' = r.buffer /\ scratch' = r.scratch

(* Every range of every intrinsic in an image of one row, and every row of   *)
(* higher ones for the whole range: rows and columns do not interact.        *)
RunKernel(kind, e, build, dimX, xs, xe, dimY, y) ==
    /\ (xs # 0 \/ xe # dimX) => kind \in Clippable /\ dimY = 1
    /\ \E r \in (CASE kind = "blur" -> Radii [] kind = "convolve5" -> {2} [] OTHER -> {1}), a \in (IF kind = "blur" THEN 0..3 ELSE {0}),
          src \in (IF kind # "resize" THEN {1} ELSE IF xs # 0 THEN {dimX} ELSE Dims),
          step \in (IF kind = "yuv" THEN 1..2 ELSE {1}), adj \in (IF kind = "yuv" THEN BOOLEAN ELSE {TRUE}) :
         Launched([kind |-> kind, elem |-> e, build |-> build, dimX |-> dimX, dimY |-> dimY,
                   xstart |-> xs, xend |-> xe, y |-> y, r |-> r, align |-> a,
                   srcX |-> src, srcY |-> src, step |-> step, adjacent |-> adj,
                   built |-> src = 1])

(* A blur script launched again on an output of another width, on the lane   *)
(* that keeps its scratch memory.                                            *)
BlurAgain(dimX) ==
    /\ launch.kind = "blur" /\ launch.elem.vec = 4 /\ launch.dimY = 1
    /\ Launched([launch EXCEPT !.dimX = dimX, !.xend = dimX])

RowNext ==
    \/ /\ launch \in IdleRow
       /\ \E e \in RowElement(launch.script), dimX \in Dims, dimY \in {1, 3, 6} :
            \E xs \in 0..dimX - 1, y \in 0..dimY - 1 :
              \E xe \in xs + 1..dimX :
                RunKernel(launch.script, e, launch.build, dimX, xs, xe, dimY, y)
    \/ \E dimX \in Dims : BlurAgain(dimX)

----------------------------------------------------------------------------
(* What the pixel at c is a function of, whatever the build: the window of   *)
(* radius r around it, clamped to the image.                                 *)
Reference(L, x) ==
    CASE L.kind = "convolve3" -> Window(x, 1, L.dimX)
      [] L.kind = "convolve5" -> Window(x, 2, L.dimX)
      [] L.kind = "blur" -> Window(x, L.r, L.dimX)
      [] L.kind = "resize" ->
           [i \in 1..4 |-> Clamp(Start4(x, L.srcX, L.dimX) + i - 1, L.srcX)]
      [] L.kind = "yuv" -> <<x, (x \div 2) * L.step>>
      [] OTHER -> <<x>>

ReferenceRows(L) ==
    CASE L.kind = "convolve3" -> Window(L.y, 1, L.dimY)
      [] L.kind = "convolve5" -> Window(L.y, 2, L.dimY)
      [] L.kind = "blur" -> Window(L.y, L.r, L.dimY)
      [] L.kind = "resize" ->
           [i \in 1..4 |-> Clamp(Start4(L.y, L.srcY, L.dimY) + i - 1, L.srcY)]
      [] OTHER -> <<L.y>>

(* Launches whose stores the row is exact for.  A Resize range that does not *)
(* start at column 0 is stored xstart cells too far (ResizeClipped), and     *)
(* YuvToRGB's loop stores the pair of a last odd column.                     *)
Exact(L) == /\ L.kind = "resize" => L.xstart = 0
            /\ L.kind = "yuv" => (L.xend % 2 = 0 \/ (L.build \in Arm /\ (L.step = 1 \/ L.adjacent)))

RowIsExact(L) ==
    /\ Len(writes) = L.xend - L.xstart
    /\ \A i \in 1..Len(writes) :
         /\ writes[i].cell = Bytes(L.elem)
         /\ writes[i].out = (L.xstart + i - 1) * Bytes(L.elem)
         /\ writes[i].taps = Reference(L, L.xstart + i - 1)
         /\ writes[i].sat = (L.elem.type = "u8")

(* However a kernel splits its row between single pixels and vector groups,  *)
(* on any build and for any range, width and element, it stores every cell   *)
(* of the range once, in cells of the element's size, nothing before, after  *)
(* or between, each computed from the same clamped window (kernelU4 and the  *)
(* others of Convolve3x3, Convolve5x5, Blur, Resize, YuvToRGB, LUT, 3DLUT,   *)
(* Blend and ColorMatrix).                                                   *)
RowExact == (launch \notin IdleRow /\ Exact(launch)) =>
    /\ RowIsExact(launch)
    /\ rows = ReferenceRows(launch)

(* The blur's horizontal pass reads only cells of the row buffer that exist  *)
(* and that the vertical pass of this launch has filled, whatever widths the *)
(* lane's scratch memory was grown for before (kernelU4, kernelU1).          *)
BufferFilled == launch \notin IdleRow => buffer.reach < Min2(launch.dimX, buffer.cells)

(* A resize restricted to a range of columns by launch options stores the    *)
(* columns of that range (forEach_bicubic with LaunchOptions).               *)
ResizeClipped == launch.kind = "resize" => RowIsExact(launch)

============================================================================
