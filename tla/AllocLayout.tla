---------------------------- MODULE AllocLayout ----------------------------
(* What a Type is in the core (rsType.cpp), in the Java and in the C++ front  *)
(* end, and where the CPU driver puts its cells (driver/rsdAllocation.cpp).   *)
(* Addresses are bytes from the allocation's first byte.                      *)
EXTENDS Integers, Sequences, FiniteSets

CONSTANT Alignment \* Allocation::kMinimumRSAlignment, a power of two

\* The elements used: the bytes of a component, the components, the bytes of an
\* element (a vector of three is padded to four).
Vec == [U8 |-> 1, U8_3 |-> 3, U16 |-> 1, A_8 |-> 1, RGB_565 |-> 1, RGBA_8888 |-> 4, YUV |-> 1]
mSize == [U8 |-> 1, U8_3 |-> 1, U16 |-> 2, A_8 |-> 1, RGB_565 |-> 2, RGBA_8888 |-> 1, YUV |-> 1]
getSizeBytes(e) == (IF Vec[e] = 3 THEN 4 ELSE Vec[e]) * mSize[e]

MaxOf(a, b) == IF a > b THEN a ELSE b
AtLeast1(n) == MaxOf(n, 1)
rsRound(n, a) == ((n + a - 1) \div a) * a
Half(n) == IF n > 1 THEN n \div 2 ELSE n

\* A type: dimensions (0 when absent), mipmaps, faces and the YUV format.
Type(e, x, y, z) ==
  [e |-> e, x |-> x, y |-> y, z |-> z, lods |-> FALSE, faces |-> FALSE, yuv |-> "none"]
FaceCount(t) == IF t.faces THEN 6 ELSE 1

\* Type.Builder.create: the combinations it refuses. The C++ builder refuses one more.
javaBuilds(t) ==
  /\ t.z > 0 => t.x >= 1 /\ t.y >= 1 /\ ~t.faces
  /\ t.y > 0 => t.x >= 1
  /\ t.faces => t.y >= 1
  /\ t.yuv # "none" => t.z = 0 /\ ~t.faces /\ ~t.lods
cppBuilds(t) == javaBuilds(t) /\ t.yuv # "420_888"
-----------------------------------------------------------------------------
(* rsType.cpp                                                                 *)

rsFindHighBit(n) == IF n < 2 THEN 0 ELSE CHOOSE b \in 1 .. n : 2 ^ b <= n /\ n < 2 ^ (b + 1)
Planes(t) == t.yuv # "none"

lodCount(t) ==
  CASE t.lods -> 1 + MaxOf(rsFindHighBit(t.x), MaxOf(rsFindHighBit(t.y), rsFindHighBit(t.z)))
    [] Planes(t) -> 3
    [] OTHER -> 1

\* The dimensions of a level: halved from the level above, a plane's for YUV.
lodDim(t) ==
  LET dim[l \in 0 .. lodCount(t) - 1] ==
        IF l = 0 THEN [x |-> t.x, y |-> t.y, z |-> t.z]
        ELSE IF Planes(t)
             THEN [x |-> IF t.yuv = "NV21" /\ l = 1 THEN t.x ELSE t.x \div 2, y |-> t.y \div 2, z |-> 0]
             ELSE [x |-> Half(dim[l - 1].x), y |-> Half(dim[l - 1].y), z |-> Half(dim[l - 1].z)]
  IN dim

CellsOf(d) == d.x * AtLeast1(d.y) * AtLeast1(d.z)
Total(f) == LET sum[n \in 0 .. Cardinality(DOMAIN f)] == IF n = 0 THEN 0 ELSE sum[n - 1] + f[n - 1]
            IN sum[Cardinality(DOMAIN f)]

\* Type::compute's mCellCount.
mCellCount(t) ==
  IF Planes(t) THEN t.x * t.y + 2 * ((t.x \div 2) * (t.y \div 2))
  ELSE FaceCount(t) * Total([l \in 0 .. lodCount(t) - 1 |-> CellsOf(lodDim(t)[l])])

\* calcElementCount of Type.java: it adds a halved level until every dimension is 1.
RECURSIVE SmallerLevels(_, _, _)
SmallerLevels(x, y, z) ==
  IF x > 1 \/ y > 1 \/ z > 1
  THEN Half(x) * Half(y) * Half(z) + SmallerLevels(Half(x), Half(y), Half(z)) ELSE 0

calcElementCountFirst(t) == AtLeast1(t.x) * AtLeast1(t.y) * AtLeast1(t.z) * FaceCount(t)
calcElementCount(t) ==
  calcElementCountFirst(t)
    + IF t.lods THEN FaceCount(t) * SmallerLevels(AtLeast1(t.x), AtLeast1(t.y), AtLeast1(t.z)) ELSE 0
\* and of cpp/Type.cpp.
cppElementCount(t) == calcElementCount(t)
-----------------------------------------------------------------------------
(* driver/rsdAllocation.cpp                                                   *)

\* DeriveYUVLayout: the stride and the start of the two chroma planes.
DeriveYUVLayout(t, stride) ==
  LET luma == stride * t.y
      cstride == rsRound(stride \div 2, 16)
      plane(l, s, off) == [x |-> t.x \div 2, y |-> t.y \div 2, z |-> 0, stride |-> s, off |-> off]
  IN IF t.yuv = "YV12"
     THEN [lod |-> [l \in 1 .. 2 |->
                      plane(l, cstride, luma + IF l = 1 THEN cstride * (t.y \div 2) ELSE 0)],
           uvSize |-> 2 * (cstride * (t.y \div 2)), step |-> 1]
     ELSE [lod |-> [l \in 1 .. 2 |-> plane(l, stride, luma + IF l = 1 THEN 1 ELSE 0)],
           uvSize |-> stride * (t.y \div 2), step |-> 2]

Bytes(d) == d.stride * AtLeast1(d.y) * AtLeast1(d.z)
\* AllocationBuildPointerTable: the levels after the first, the first of which
\* has the allocation's own dimensions.
PointerTable(t, align) ==
  LET size == getSizeBytes(t.e)
      top == [x |-> t.x, y |-> t.y, z |-> t.z, stride |-> rsRound(t.x * size, align), off |-> 0]
      lod[l \in 0 .. lodCount(t) - 1] ==
        IF l = 0 THEN top
        ELSE LET up == lod[l - 1]
                 nx == IF l = 1 THEN up.x ELSE Half(up.x)
             IN [x |-> nx,
                 y |-> IF l = 1 THEN up.y ELSE Half(up.y),
                 z |-> IF l = 1 THEN up.z ELSE Half(up.z),
                 stride |-> rsRound(nx * size, align), off |-> up.off + Bytes(up)]
      last == lod[lodCount(t) - 1]
      yuv == DeriveYUVLayout(t, top.stride)
  IN IF Planes(t)
     THEN [lod |-> [l \in 0 .. 2 |-> IF l = 0 THEN top ELSE yuv.lod[l]],
           faceOffset |-> Bytes(top) + yuv.uvSize, step |-> yuv.step]
     ELSE [lod |-> lod, faceOffset |-> last.off + Bytes(last), step |-> 1]
allocSize(t, tab) == tab.faceOffset * FaceCount(t)

\* GetOffsetPtr.
GetOffsetPtr(t, tab, x, y, z, lod, face) ==
  LET d == tab.lod[lod]
  IN d.off + face * tab.faceOffset + z * d.y * d.stride + y * d.stride + x * getSizeBytes(t.e)

\* The alignment support/jni's nIncAllocationCreateTyped asks for, so that an
\* allocation over the same memory has the same stride.
RECURSIVE Doubled(_, _)
Doubled(a, min) == IF a <= min THEN Doubled(2 * a, min) ELSE a
requiredAlignmentFixed(strideIn, xBytesSize) == 16
requiredAlignment(strideIn, xBytesSize) == Doubled(16, strideIn - xBytesSize)
=============================================================================
