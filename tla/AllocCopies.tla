---------------------------- MODULE AllocCopies ----------------------------
(* Copies between an application's arrays, bitmaps and allocations and the    *)
(* memory of an allocation: the front ends (AllocJava, AllocCpp), the core's  *)
(* rsi_Allocation* entry points (rsAllocation.cpp) and the CPU driver         *)
(* (driver/rsdAllocation.cpp). Commands reach the core in program order, so a *)
(* copy is one step.                                                          *)
EXTENDS AllocLayout

CONSTANTS
  Types,       \* the types allocations are made of
  Requests(_), \* the copies tried on an allocation of a type
  MaxOps       \* the copies of one behaviour

VARIABLES
  type, \* the allocation's type, or NoType
  tab,  \* drvState: where the driver put its levels and faces
  mem,  \* its bytes
  req,  \* the last copy asked for
  cmd,  \* the command sent for it
  out,  \* the bytes of the array or bitmap the last copy read into
  error,\* the core refused the command
  stray,\* a copy touched a byte outside the allocation or the caller's array
  ops   \* the copies made

copyVars == <<type, tab, mem, req, cmd, out, error, stray, ops>>

Java == INSTANCE AllocJava
Cpp == INSTANCE AllocCpp

NoType == [none |-> TRUE]
NoRequest == [op |-> "none"]
NoCommand == [cmd |-> "none"]
Leftover == -1      \* an uninitialised byte
Untouched == -2 \* a byte of the caller's array before a read
Filtered == -3  \* a byte of a generated mipmap level
Init0(a) == 1000 + a  \* what a kernel left at address a
Other(a) == 2000 + a  \* what the source of a copy between allocations holds

eSize == getSizeBytes(type.e)
At(x, y, z, lod, face) == GetOffsetPtr(type, tab, x, y, z, lod, face)
-----------------------------------------------------------------------------
(* A transfer is a set of lines: n bytes at mem in the allocation against n   *)
(* bytes at buf in the caller's buffer.                                       *)
Line(m, b, n) == [mem |-> m, buf |-> b, n |-> n]
Holding(lines, a) == {l \in lines : l.mem <= a /\ a < l.mem + l.n}
Filling(lines, i) == {l \in lines : l.buf <= i /\ i < l.buf + l.n}
Store(m, lines, Byte(_)) ==
  [a \in DOMAIN m |-> IF Holding(lines, a) = {} THEN m[a]
                      ELSE LET l == CHOOSE l \in Holding(lines, a) : TRUE IN Byte(l.buf + a - l.mem)]
Load(o, lines, m) ==
  [i \in DOMAIN o |-> IF Filling(lines, i) = {} THEN o[i]
                      ELSE LET l == CHOOSE l \in Filling(lines, i) : TRUE IN m[l.mem + i - l.buf]]
Escapes(lines, m, len) ==
  \E l \in lines : l.n > 0 /\ (l.mem < 0 \/ l.mem + l.n > Cardinality(DOMAIN m) \/ l.buf + l.n > len)

\* copyWithPadding and copyWithUnPadding: cells of four components against three.
m1 == mSize[type.e]
Padded(c, i) ==
  LET cell == i \div (4 * m1)
      b == i % (4 * m1)
  IN IF b < 3 * m1 /\ cell < c.count THEN (cell * 3 * m1) + b ELSE Leftover
BufferByte(c, i) == IF c.pad THEN Padded(c, i) ELSE i
BufferLen(c) == IF c.pad THEN (c.len \div 3) * 4 ELSE c.len
UnPadded(c, buf) ==
  LET cell(i) == i \div (3 * m1)
  IN [i \in 0 .. c.len - 1 |-> IF cell(i) < c.count THEN buf[(cell(i) * 4 * m1) + (i % (3 * m1))] ELSE Untouched]

\* The lines of rsdAllocationData1D, Data2D, Data3D and of the reads. A stride of
\* 0 stands for packed lines. The level is 0, the face the first.
Stride(c) == IF c.stride = 0 THEN eSize * c.w ELSE c.stride
Lines1D(c) == {Line(At(c.x, 0, 0, 0, 0), 0, c.w * eSize)}
Lines2D(c, face) ==
  {Line(At(c.x, c.y, 0, 0, face) + i * tab.lod[0].stride, i * Stride(c), eSize * c.w) : i \in 0 .. c.h - 1}
Lines3DOneSlice(c) ==
  {Line(At(c.x, c.y, c.z + k, 0, 0) + i * tab.lod[0].stride, i * Stride(c), eSize * c.w)
     : i \in 0 .. c.h - 1, k \in 0 .. c.d - 1}
Lines3D(c) ==
  {Line(At(c.x, c.y, c.z + k, 0, 0) + i * tab.lod[0].stride, (k * c.h + i) * Stride(c), eSize * c.w)
     : i \in 0 .. c.h - 1, k \in 0 .. c.d - 1}
\* Data2D goes on with the chroma planes of a YUV allocation, which follow the
\* luma lines in the caller's buffer: V and U of YV12, the pairs of NV21.
ChromaLines(c) ==
  LET first == c.h * Stride(c)
      rows == ((c.y + c.h) \div 2) - (c.y \div 2)
      n == IF type.yuv = "YV12" THEN (eSize * c.w) \div 2 ELSE eSize * c.w
      lods == IF type.yuv = "YV12" THEN <<1, 2>> ELSE <<2>>
  IN IF ~Planes(type) THEN {}
     ELSE {Line(At(c.x, c.y, 0, lods[p], 0) + i * tab.lod[lods[p]].stride, first + ((p - 1) * rows + i) * n, n)
             : i \in 0 .. rows - 1, p \in 1 .. Len(lods)}
Data2D(c) == Lines2D(c, 0) \cup ChromaLines(c)
\* rsi_AllocationCubeCreateFromBitmap: face f is f squares into each bitmap row.
LinesCube(c) ==
  {Line(At(0, i, 0, 0, f), i * 6 * type.x * eSize + f * type.x * eSize, type.x * eSize)
     : i \in 0 .. type.x - 1, f \in 0 .. 5}
\* rsdAllocationData2D_alloc_script and Data3D_alloc_script: line by line.
LinesCopy2D(c) ==
  {Line(At(c.x, c.y + i, 0, 0, 0), At(c.sx, c.sy + i, 0, 0, 0), c.w * eSize) : i \in 0 .. c.h - 1}
LinesCopy3D(c) ==
  {Line(At(c.x, c.y + i, c.z + k, 0, 0), At(c.sx, c.sy + i, c.sz + k, 0, 0), c.w * eSize)
     : i \in 0 .. c.h - 1, k \in 0 .. c.d - 1}
\* rsdAllocationGenerateMipmaps fills the driver's smaller levels of elements of
\* 8, 16 and 32 bits.
MipLines ==
  UNION {{Line(At(0, i, 0, l, f), 0, tab.lod[l].x * eSize) : i \in 0 .. tab.lod[l].y - 1, f \in 0 .. FaceCount(type) - 1}
           : l \in 1 .. lodCount(type) - 1}
GenerateMipmaps(m) == IF eSize \in {1, 2, 4} THEN Store(m, MipLines, LAMBDA i : Filtered) ELSE m
-----------------------------------------------------------------------------
(* The commands as the core plays them.                                       *)

FreshBytes(t) == [a \in 0 .. allocSize(t, PointerTable(t, Alignment)) - 1 |-> Init0(a)]
Done == out' = <<>> /\ error' = FALSE /\ UNCHANGED <<tab, type>>
Nothing == out' = <<>> /\ stray' = FALSE /\ UNCHANGED <<mem, tab, type>>

Write(c, lines) ==
  /\ mem' = Store(mem, lines, LAMBDA i : BufferByte(c, i))
  /\ stray' = Escapes(lines, mem, BufferLen(c))
  /\ Done
Read(c, lines) ==
  /\ LET buf == Load([i \in 0 .. BufferLen(c) - 1 |-> Untouched], lines, mem)
     IN out' = IF c.pad THEN UnPadded(c, buf) ELSE buf
  /\ stray' = Escapes(lines, mem, BufferLen(c))
  /\ error' = FALSE /\ UNCHANGED <<mem, tab, type>>
BadValue == error' = TRUE /\ Nothing

\* Allocation::data and Allocation::read check the size they are given: always for
\* one dimension, with an explicit stride for a two-dimensional read.
SizeMatches(c) == c.w * eSize = c.sizeBytes
ReadSizeMatches(c) == c.stride = 0 \/ eSize * c.w * c.h = c.sizeBytes

rsi_Allocation1DData(c) ==
  /\ c.cmd = "1DData"
  /\ IF SizeMatches(c) THEN Write(c, Lines1D(c)) ELSE BadValue
rsi_Allocation2DData(c) == c.cmd = "2DData" /\ Write(c, Data2D(c))
rsi_Allocation3DData(c) == c.cmd = "3DData" /\ Write(c, Lines3D(c))
rsi_Allocation1DRead(c) == c.cmd = "1DRead" /\ Read(c, Lines1D(c))
rsi_Allocation2DRead(c) ==
  /\ c.cmd = "2DRead"
  /\ IF ReadSizeMatches(c) THEN Read(c, Lines2D(c, 0)) ELSE BadValue
rsi_Allocation3DRead(c) == c.cmd = "3DRead" /\ Read(c, Lines3D(c))
rsi_AllocationRead(c) ==
  LET all == [c EXCEPT !.x = 0, !.y = 0, !.z = 0, !.w = type.x, !.h = type.y, !.d = type.z]
  IN /\ c.cmd = "Read"
     /\ CASE type.z > 0 -> Read(all, Lines3D(all))
          [] type.z = 0 /\ type.y > 0 -> Read(all, Lines2D(all, 0))
          [] OTHER -> IF SizeMatches(all) THEN Read(all, Lines1D(all)) ELSE BadValue
rsi_AllocationCopyToBitmap(c) ==
  c.cmd = "CopyToBitmap" /\ Read(c, Lines2D([c EXCEPT !.w = type.x, !.h = type.y], 0))
rsi_AllocationCopy2DRange(c) ==
  /\ c.cmd = "Copy2DRange"
  /\ mem' = Store(mem, LinesCopy2D(c), Other)
  /\ stray' = Escapes(LinesCopy2D(c), mem, Cardinality(DOMAIN mem))
  /\ Done
rsi_AllocationCopy3DRange(c) ==
  /\ c.cmd = "Copy3DRange"
  /\ mem' = Store(mem, LinesCopy3D(c), Other)
  /\ stray' = Escapes(LinesCopy3D(c), mem, Cardinality(DOMAIN mem))
  /\ Done

\* The creations start from a new allocation.
Created(m) == IF type.lods THEN GenerateMipmaps(m) ELSE m
rsi_AllocationCreateFromBitmap(c) ==
  /\ c.cmd = "CreateFromBitmap"
  /\ mem' = Created(Store(FreshBytes(type), Data2D(c), LAMBDA i : i))
  /\ stray' = Escapes(Data2D(c), mem, c.len)
  /\ Done
rsi_AllocationCubeCreateFromBitmap(c) ==
  /\ c.cmd = "CubeCreateFromBitmap"
  /\ mem' = Created(Store(FreshBytes(type), LinesCube(c), LAMBDA i : i))
  /\ stray' = Escapes(LinesCube(c), mem, c.len)
  /\ Done
\* rsdAllocationInitStrided with the bitmap's pixels: used as they are when the
\* rows are aligned, copied into a separate allocation otherwise.
UserProvided(c) ==
  /\ c.cmd = "CreateBacked"
  /\ mem' = IF (type.x * eSize) % Alignment = 0 THEN [a \in 0 .. c.len - 1 |-> a]
            ELSE Store(FreshBytes(type), Data2D(c), LAMBDA i : i)
  /\ stray' = ((type.x * eSize) % Alignment # 0 /\ Escapes(Data2D(c), mem, c.len))
  /\ Done
\* rsdAllocationResize: realloc, then zeroes for the new cells.
Resized(t, w) ==
  [a \in DOMAIN FreshBytes([t EXCEPT !.x = w]) |->
     CASE a \in t.x * eSize .. w * eSize - 1 -> 0
       [] a \in DOMAIN mem \ (t.x * eSize .. w * eSize - 1) -> mem[a]
       [] OTHER -> Leftover]
\* Allocation::resize1D.
resize1D(c) ==
  /\ c.cmd = "Resize1D"
  /\ type' = [type EXCEPT !.x = c.w] /\ tab' = PointerTable(type', Alignment)
  /\ mem' = Resized(type, c.w)
  /\ out' = <<>> /\ error' = FALSE /\ stray' = FALSE
-----------------------------------------------------------------------------
CopyInit ==
  /\ type = NoType /\ tab = <<>> /\ mem = <<>> /\ req = NoRequest /\ cmd = NoCommand
  /\ out = <<>> /\ error = FALSE /\ stray = FALSE /\ ops = 0

\* rsdAllocationInit.
Create(t) ==
  /\ type = NoType
  /\ type' = t /\ tab' = PointerTable(t, Alignment) /\ mem' = FreshBytes(t)
  /\ UNCHANGED <<req, cmd, out, error, stray, ops>>

Command(r) ==
  CASE r.api = "java" -> Java!Front(type, r)
    [] r.api = "cpp" -> Cpp!Front(type, r)
    [] r.api = "core" -> [cmd |-> "Resize1D", w |-> r.w]

Issue(r) ==
  /\ req' = r /\ cmd' = Command(r) /\ ops' = ops + 1
  /\ LET c == Command(r)
     IN \/ c.cmd = "refused" /\ error' = FALSE /\ Nothing
        \/ rsi_Allocation1DData(c) \/ rsi_Allocation2DData(c) \/ rsi_Allocation3DData(c)
        \/ rsi_Allocation1DRead(c) \/ rsi_Allocation2DRead(c) \/ rsi_Allocation3DRead(c)
        \/ rsi_AllocationRead(c) \/ rsi_AllocationCopyToBitmap(c)
        \/ rsi_AllocationCopy2DRange(c) \/ rsi_AllocationCopy3DRange(c)
        \/ rsi_AllocationCreateFromBitmap(c) \/ rsi_AllocationCubeCreateFromBitmap(c)
        \/ UserProvided(c) \/ resize1D(c)

CopyNext == (\E t \in Types : Create(t)) \/ (type # NoType /\ ops < MaxOps /\ \E r \in Requests(type) : Issue(r))
CopySpec == CopyInit /\ [][CopyNext]_copyVars
-----------------------------------------------------------------------------
(* What a copy asks for: cells of the allocation, each against the position   *)
(* of its first byte in the caller's buffer, or against a cell of the source. *)

Cell(x, y, z, f) == [x |-> x, y |-> y, z |-> z, f |-> f]
Payload == Vec[type.e] * m1 \* the bytes of a cell that carry components
Unit(r) == IF r.pad /\ Vec[type.e] = 3 THEN 3 * m1 ELSE eSize
AllCells == {Cell(x, y, z, f) : x \in 0 .. type.x - 1, y \in 0 .. AtLeast1(type.y) - 1,
                                z \in 0 .. AtLeast1(type.z) - 1, f \in 0 .. FaceCount(type) - 1}
AddressOf(c) == At(c.x, c.y, c.z, 0, c.f)
IndexOf(c) == (c.z * AtLeast1(type.y) + c.y) * type.x + c.x
InBox(c, r) == /\ c.x \in r.x .. r.x + r.w - 1 /\ c.y \in r.y .. r.y + r.h - 1
               /\ c.z \in r.z .. r.z + r.d - 1

Whole == {"copyFrom", "copyTo", "copyFromAllocation"}
Linear == {"copy1DRangeFrom", "copy1DRangeTo", "copy1DRangeFromAllocation"}
Planar == {"copy2DRangeFrom", "copy2DRangeTo", "copy2DStridedFrom", "copy2DStridedTo",
           "copy2DRangeFromAllocation", "copyFromBitmap", "copyToBitmap", "copy2DRangeFromBitmap", "createFromBitmap"}
Reads == {"copyTo", "copy1DRangeTo", "copy2DRangeTo", "copy2DStridedTo", "copy3DRangeTo", "copyToBitmap"}
FromAllocation == {"copy1DRangeFromAllocation", "copy2DRangeFromAllocation", "copy3DRangeFromAllocation", "copyFromAllocation"}
Creates == {"createFromBitmap", "createCubemapFromBitmap"}

Asks(r, c) ==
  CASE r.op = "createCubemapFromBitmap" -> TRUE
    [] r.op \in Whole -> c.f = 0
    [] r.op \in Linear -> c.f = 0 /\ IndexOf(c) \in r.x .. r.x + r.w - 1
    [] r.op \in Planar -> c.f = 0 /\ InBox(c, [r EXCEPT !.z = 0, !.d = 1])
    [] OTHER -> c.f = 0 /\ InBox(c, r)
Position(r, c) ==
  CASE r.op = "createCubemapFromBitmap" -> (c.y * 6 * type.x + c.f * type.x + c.x) * eSize
    [] r.op \in Whole -> IndexOf(c) * Unit(r)
    [] r.op \in Linear -> (IndexOf(c) - r.x) * Unit(r)
    [] r.op \in {"copy2DStridedFrom", "copy2DStridedTo"} -> (c.y - r.y) * r.stride + (c.x - r.x) * eSize
    [] r.op \in Planar -> ((c.y - r.y) * r.w + c.x - r.x) * Unit(r)
    [] OTHER -> (((c.z - r.z) * r.h + c.y - r.y) * r.w + c.x - r.x) * Unit(r)
SourceCell(r, c) ==
  CASE r.op \in Whole -> c
    [] r.op \in Linear -> [c EXCEPT !.x = c.x - r.x + r.sx]
    [] r.op \in Planar -> [c EXCEPT !.x = c.x - r.x + r.sx, !.y = c.y - r.y + r.sy]
    [] OTHER -> [c EXCEPT !.x = c.x - r.x + r.sx, !.y = c.y - r.y + r.sy, !.z = c.z - r.z + r.sz]
Value(r, c, b) ==
  IF r.op \in FromAllocation THEN Other(AddressOf(SourceCell(r, c)) + b) ELSE Position(r, c) + b

Accepted == cmd'.cmd # "refused"
\* The two whole copies that do less than they are asked: a copyTo into an array
\* larger than a one-dimensional allocation is refused by the core, and copyFrom
\* of an allocation copies nothing of a one-dimensional one and the first slice of
\* a three-dimensional one.
Partial(r) == \/ r.op = "copyTo" /\ error'
              \/ r.op = "copyFromAllocation" /\ (type.y = 0 \/ type.z > 1)

\* An accepted write (rsdAllocationData1D, Data2D, Data3D, the copies between
\* allocations, the bitmap creations) gives every cell of the region the bytes
\* that are its own in the caller's buffer and leaves every other cell of the
\* first level as it was, with the padding of rows and of vectors of three.
WritesExact ==
  (ops' # ops /\ req'.op # "resize" /\ req'.op \notin Reads /\ Accepted /\ ~Planes(type) /\ ~Partial(req')) =>
    /\ ~error'
    /\ \A c \in AllCells, b \in 0 .. Payload - 1 :
         mem'[AddressOf(c) + b] =
           IF Asks(req', c) THEN Value(req', c, b)
           ELSE IF req'.op \in Creates THEN Init0(AddressOf(c) + b) ELSE mem[AddressOf(c) + b]

\* An accepted read fills exactly the caller's bytes of the region, in the
\* caller's order, and writes no other byte of the array.
ReadsExact ==
  (ops' # ops /\ req'.op \in Reads /\ Accepted /\ ~Planes(type) /\ ~Partial(req')) =>
    LET asked == {c \in AllCells : Asks(req', c)}
        unit == IF cmd'.pad THEN Payload ELSE eSize
    IN /\ ~error' /\ mem' = mem
       /\ \A c \in asked, b \in 0 .. unit - 1 : out'[Position(req', c) + b] = mem[AddressOf(c) + b]
       /\ Cardinality({i \in DOMAIN out' : out'[i] # Untouched}) = unit * Cardinality(asked)

\* No accepted copy whose arguments the documentation allows touches a byte
\* outside the allocation or outside the caller's array.
StaysInside == ~stray

\* copyFrom of a whole YUV frame puts each byte of the frame in one cell of one
\* plane: no byte is lost and no cell of a plane keeps what it held.
FrameCopied ==
  (ops' # ops /\ Planes(type) /\ Accepted) =>
    LET place(l, x, y) == At(0, y, 0, l, 0) + x * (IF l = 0 THEN 1 ELSE tab.step)
        cells == {<<0, x, y>> : x \in 0 .. type.x - 1, y \in 0 .. type.y - 1}
                 \cup {<<l, x, y>> : l \in {1, 2}, x \in 0 .. (type.x \div 2) - 1, y \in 0 .. (type.y \div 2) - 1}
        held == [c \in cells |-> mem'[place(c[1], c[2], c[3])]]
    IN /\ {held[c] : c \in cells} = 0 .. Java!getBytesSize(type) - 1
       /\ \A c \in cells : c[1] = 0 => held[c] = c[3] * type.x + c[2]

\* copyFrom(Allocation), documented as copying an allocation of the same type,
\* gives every cell the source's bytes.
WholeCopied ==
  (ops' # ops /\ req'.op = "copyFromAllocation" /\ Accepted) =>
    \A c \in AllCells, b \in 0 .. Payload - 1 : mem'[AddressOf(c) + b] = Other(AddressOf(c) + b)

\* Allocation::resize1D keeps the cells both sizes have and clears the new ones.
ResizeKeeps ==
  (ops' # ops /\ req'.op = "resize") =>
    \A x \in 0 .. type'.x - 1, b \in 0 .. eSize - 1 :
      mem'[x * eSize + b] = IF x < type.x THEN mem[x * eSize + b] ELSE 0
-----------------------------------------------------------------------------
(* The layout of a type.                                                      *)

LevelCells(t) ==
  UNION {{[l |-> l, x |-> x, y |-> y, z |-> z, f |-> f]
            : x \in 0 .. AtLeast1(lodDim(t)[l].x) - 1, y \in 0 .. AtLeast1(lodDim(t)[l].y) - 1,
              z \in 0 .. AtLeast1(lodDim(t)[l].z) - 1, f \in 0 .. FaceCount(t) - 1}
           : l \in 0 .. lodCount(t) - 1}

\* Every cell of every level and face of a type has bytes of its own inside the
\* memory the driver allocates (AllocationBuildPointerTable, GetOffsetPtr).
CellsApart ==
  (type # NoType /\ ops = 0 /\ ~Planes(type)) =>
    LET at == [c \in LevelCells(type) |-> At(c.x, c.y, c.z, c.l, c.f)]
    IN /\ \A c \in DOMAIN at : at[c] >= 0 /\ at[c] + eSize <= allocSize(type, tab) /\ at[c] % eSize = 0
       /\ Cardinality({at[c] : c \in DOMAIN at}) = Cardinality(DOMAIN at)

\* The Java, the C++ and the core Type count the same cells for a type all three
\* can build, so the array sizes the front ends check are the core's.
CountsAgree ==
  (type # NoType /\ ops = 0 /\ ~Planes(type)) =>
    /\ javaBuilds(type) => calcElementCount(type) = mCellCount(type)
    /\ cppBuilds(type) => cppElementCount(type) = mCellCount(type)

\* nIncAllocationCreateTyped asks for an alignment under which the driver lays out
\* the shared memory as the allocation it shares, whatever alignment that one had.
\* The vendor driver may have aligned its rows to any power of two.
SharedLayoutSame ==
  (type # NoType /\ ops = 0 /\ type.y > 0 /\ ~type.lods /\ ~type.faces /\ ~Planes(type)) =>
    \A k \in 4 .. 7 :
      LET theirs == PointerTable(type, 2 ^ k)
          ours == PointerTable(type, requiredAlignment(theirs.lod[0].stride, type.x * eSize))
      IN ours = theirs
=============================================================================
