----------------------------- MODULE AllocJava -----------------------------
(* The copies of support/.../Allocation.java: the checks each makes and the   *)
(* command it sends through support/jni, which pads or unpads vectors of      *)
(* three. A request r names the region, the array's component type and its    *)
(* length n in components; the arrays of a request are never null.            *)
EXTENDS AllocLayout

Refused == [cmd |-> "refused"]
dtSize == [i8 |-> 1, i16 |-> 2]

\* updateCacheInfo, and the mSize the constructor computes.
mCurrentCount(t) == t.x * (IF t.y > 1 THEN t.y ELSE 1) * (IF t.z > 1 THEN t.z ELSE 1)
allocBytes(t) == calcElementCount(t) * getSizeBytes(t.e)
\* getBytesSize, what the documentation sizes arrays by.
getBytesSize(t) == IF Planes(t) THEN (3 * allocBytes(t) + 1) \div 2 ELSE allocBytes(t)

\* validateIsInt8, validateIsInt16, ...: the component types must agree.
DataType(e) == CASE e = "U16" -> "i16" [] e = "RGB_565" -> "565" [] OTHER -> "i8"
validateIs(t, r) == r.dt = DataType(t.e)
usePadding(t, r) == r.pad /\ Vec[t.e] = 3
arrayBytes(r) == r.n * dtSize[r.dt]

\* The array must hold the cells, at three components each when it is padded.
LargeEnough(t, r, dataSize) ==
  IF usePadding(t, r) THEN (dataSize \div 4) * 3 <= arrayBytes(r) ELSE dataSize <= arrayBytes(r)

data1DChecks(t, r, dataSize) ==
  r.x >= 0 /\ r.w >= 1 /\ r.x + r.w <= mCurrentCount(t) /\ LargeEnough(t, r, dataSize)
validate2DRange(t, r) ==
  /\ r.x >= 0 /\ r.y >= 0 /\ r.h >= 0 /\ r.w >= 0
  /\ r.x + r.w <= t.x /\ r.y + r.h <= t.y
validate3DRange(t, r) ==
  /\ r.x >= 0 /\ r.y >= 0 /\ r.z >= 0 /\ r.h >= 0 /\ r.w >= 0 /\ r.d >= 0
  /\ r.x + r.w <= t.x /\ r.y + r.h <= t.y /\ r.z + r.d <= t.z

\* A command on an array: the JNI passes the array itself, or pads through a
\* buffer of len / 3 * 4 components.
Array(cmd, t, r, count, sizeBytes) ==
  [cmd |-> cmd, x |-> r.x, y |-> r.y, z |-> r.z, w |-> r.w, h |-> r.h, d |-> r.d,
   sizeBytes |-> sizeBytes, stride |-> 0, pad |-> usePadding(t, r), count |-> count,
   len |-> arrayBytes(r)]
If(ok, c) == IF ok THEN c ELSE Refused
\* What the range copies of 2D and 3D pass as the size of the array.
sizeBytesOf(t, r, dataSize) == IF usePadding(t, r) THEN dataSize ELSE arrayBytes(r)
Region1D(t, r) == getSizeBytes(t.e) * r.w
Region2D(t, r) == getSizeBytes(t.e) * r.w * r.h
Region3D(t, r) == getSizeBytes(t.e) * r.w * r.h * r.d

copy1DRangeFromUnchecked(t, r) ==
  If(data1DChecks(t, r, Region1D(t, r)), Array("1DData", t, r, r.w, Region1D(t, r)))
copy1DRangeFrom(t, r) == If(validateIs(t, r), copy1DRangeFromUnchecked(t, r))

copy2DRangeFromUnchecked(t, r) ==
  If(validate2DRange(t, r) /\ LargeEnough(t, r, Region2D(t, r)),
     Array("2DData", t, r, r.w * r.h, sizeBytesOf(t, r, Region2D(t, r))))
copy2DRangeFrom(t, r) == If(validateIs(t, r), copy2DRangeFromUnchecked(t, r))

copy3DRangeFromUnchecked(t, r) ==
  If(validate3DRange(t, r) /\ LargeEnough(t, r, Region3D(t, r)),
     Array("3DData", t, r, r.w * r.h * r.d, sizeBytesOf(t, r, Region3D(t, r))))
copy3DRangeFrom(t, r) == If(validateIs(t, r), copy3DRangeFromUnchecked(t, r))

\* copyFromUnchecked picks the copy by the dimensions; copyFrom checks the type.
copyFromUnchecked(t, r) ==
  LET all == [r EXCEPT !.x = 0, !.y = 0, !.z = 0, !.w = t.x, !.h = t.y, !.d = t.z]
  IN CASE t.z > 0 -> copy3DRangeFromUnchecked(t, all)
       [] t.z = 0 /\ t.y > 0 -> copy2DRangeFromUnchecked(t, all)
       [] OTHER -> copy1DRangeFromUnchecked(t, [all EXCEPT !.w = mCurrentCount(t)])
copyFrom(t, r) == If(validateIs(t, r), copyFromUnchecked(t, r))

\* The reads.
copy1DRangeToUnchecked(t, r) ==
  If(data1DChecks(t, r, Region1D(t, r)), Array("1DRead", t, r, r.w, Region1D(t, r)))
copy1DRangeTo(t, r) == If(validateIs(t, r), copy1DRangeToUnchecked(t, r))
copy2DRangeToUnchecked(t, r) ==
  If(validate2DRange(t, r) /\ LargeEnough(t, r, Region2D(t, r)),
     Array("2DRead", t, r, r.w * r.h, sizeBytesOf(t, r, Region2D(t, r))))
copy2DRangeTo(t, r) == If(validateIs(t, r), copy2DRangeToUnchecked(t, r))

\* nAllocationRead passes the size of the array, padded when it is, and unpads
\* as many cells as the array can hold.
paddedLen(t, r) == IF usePadding(t, r) THEN (r.n \div 3) * 4 ELSE r.n
nAllocationRead(t, r) ==
  Array("Read", t, r, paddedLen(t, r) \div 4, paddedLen(t, r) * dtSize[r.dt])
copyToUnchecked(t, r) == If(LargeEnough(t, r, allocBytes(t)), nAllocationRead(t, r))
copyTo(t, r) == If(validateIs(t, r), copyToUnchecked(t, r))

\* Copies from another allocation: only the destination's range is checked.
CopyRange(cmd, r) == [cmd |-> cmd, x |-> r.x, y |-> r.y, z |-> r.z, w |-> r.w, h |-> r.h, d |-> r.d,
                      sx |-> r.sx, sy |-> r.sy, sz |-> r.sz]
copy1DRangeFromAllocation(t, r) ==
  CopyRange("Copy2DRange", [r EXCEPT !.y = 0, !.z = 0, !.h = 1, !.d = 0, !.sy = 0, !.sz = 0])
copy2DRangeFromAllocation(t, r) ==
  If(validate2DRange(t, r), CopyRange("Copy2DRange", [r EXCEPT !.z = 0, !.d = 0, !.sz = 0]))
copy3DRangeFromAllocation(t, r) == If(validate3DRange(t, r), CopyRange("Copy3DRange", r))
copyFromAllocation(t, r) ==
  copy2DRangeFromAllocation(t, [r EXCEPT !.x = 0, !.y = 0, !.w = t.x, !.h = t.y, !.sx = 0, !.sy = 0])

\* The bitmap operations: validateBitmapFormat and validateBitmapSize, then a
\* copy of the whole bitmap (r.w by r.h pixels of element r.config). A bitmap
\* without a configuration is redrawn as RGBA_8888 before it is copied from.
validateBitmapFormat(t, r) == r.config # "null" /\ r.config = t.e
validateBitmapSize(t, r) == t.x = r.w /\ t.y = r.h
Redrawn(r) == IF r.config = "null" THEN [r EXCEPT !.config = "RGBA_8888"] ELSE r
GetBitmapSize(r) == r.w * r.h * (CASE r.config = "RGBA_8888" -> 4 [] r.config = "RGB_565" -> 2 [] OTHER -> 1)
Bitmap(cmd, r) == [cmd |-> cmd, x |-> r.x, y |-> r.y, z |-> 0, w |-> r.w, h |-> r.h, d |-> 0,
                   sizeBytes |-> GetBitmapSize(r), stride |-> 0, pad |-> FALSE, count |-> 0, len |-> GetBitmapSize(r)]
copyFromBitmap(t, b) ==
  LET r == Redrawn(b)
  IN If(validateBitmapSize(t, r) /\ validateBitmapFormat(t, r), Bitmap("2DData", [r EXCEPT !.x = 0, !.y = 0]))
copy2DRangeFromBitmap(t, b) ==
  LET r == Redrawn(b)
  IN If(validateBitmapFormat(t, r) /\ validate2DRange(t, r), Bitmap("2DData", r))
copyToBitmap(t, r) ==
  If(validateBitmapFormat(t, r) /\ validateBitmapSize(t, r), Bitmap("CopyToBitmap", [r EXCEPT !.x = 0, !.y = 0]))

\* createFromBitmap: the type of the bitmap, and its pixels shared or copied.
\* The type the allocation gets is typeFromBitmap's.
typeFromBitmap(r) == [Type(r.config, r.w, r.h, 0) EXCEPT !.lods = r.full]
createFromBitmap(t, b) ==
  LET r == Redrawn(b)
      backed == ~r.full /\ r.config = "RGBA_8888" /\ r.shared
  IN If(~(b.config = "null" /\ b.shared) /\ t = typeFromBitmap(r),
        Bitmap(IF backed THEN "CreateBacked" ELSE "CreateFromBitmap", [r EXCEPT !.x = 0, !.y = 0]))
\* createCubemapFromBitmap: six square faces side by side, a power of two wide.
createCubemapFromBitmap(t, r) ==
  If(/\ r.w % 6 = 0 /\ r.w \div 6 = r.h /\ r.h = 2 ^ rsFindHighBit(r.h)
     /\ t = [Type(r.config, r.h, r.h, 0) EXCEPT !.faces = TRUE, !.lods = r.full],
     Bitmap("CubeCreateFromBitmap", r))

Front(t, r) ==
  CASE r.op = "copyFrom" -> IF r.checked THEN copyFrom(t, r) ELSE copyFromUnchecked(t, r)
    [] r.op = "copy1DRangeFrom" -> IF r.checked THEN copy1DRangeFrom(t, r) ELSE copy1DRangeFromUnchecked(t, r)
    [] r.op = "copy2DRangeFrom" -> IF r.checked THEN copy2DRangeFrom(t, r) ELSE copy2DRangeFromUnchecked(t, r)
    [] r.op = "copy3DRangeFrom" -> IF r.checked THEN copy3DRangeFrom(t, r) ELSE copy3DRangeFromUnchecked(t, r)
    [] r.op = "copyTo" -> IF r.checked THEN copyTo(t, r) ELSE copyToUnchecked(t, r)
    [] r.op = "copy1DRangeTo" -> IF r.checked THEN copy1DRangeTo(t, r) ELSE copy1DRangeToUnchecked(t, r)
    [] r.op = "copy2DRangeTo" -> IF r.checked THEN copy2DRangeTo(t, r) ELSE copy2DRangeToUnchecked(t, r)
    [] r.op = "copy1DRangeFromAllocation" -> copy1DRangeFromAllocation(t, r)
    [] r.op = "copy2DRangeFromAllocation" -> copy2DRangeFromAllocation(t, r)
    [] r.op = "copy3DRangeFromAllocation" -> copy3DRangeFromAllocation(t, r)
    [] r.op = "copyFromAllocation" -> copyFromAllocation(t, r)
    [] r.op = "copyFromBitmap" -> copyFromBitmap(t, r)
    [] r.op = "copy2DRangeFromBitmap" -> copy2DRangeFromBitmap(t, r)
    [] r.op = "copyToBitmap" -> copyToBitmap(t, r)
    [] r.op = "createFromBitmap" -> createFromBitmap(t, r)
    [] r.op = "createCubemapFromBitmap" -> createCubemapFromBitmap(t, r)
=============================================================================
