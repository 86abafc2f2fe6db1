------------------------------ MODULE AllocCpp ------------------------------
(* The copies of cpp/Allocation.cpp. A pointer carries no length, so only the *)
(* region is checked; a refused range raises an error and tryDispatch then    *)
(* sends nothing. Offsets and sizes are unsigned.                             *)
EXTENDS AllocLayout

Refused == [cmd |-> "refused"]
If(ok, c) == IF ok THEN c ELSE Refused
mCurrentCount(t) == t.x * (IF t.y > 1 THEN t.y ELSE 1) * (IF t.z > 1 THEN t.z ELSE 1)
usePadding(t, r) == r.pad /\ Vec[t.e] = 3

\* A command on a buffer of the caller, padded through a copy of the region.
Buffer(cmd, t, r, cells, pad, stride) ==
  [cmd |-> cmd, x |-> r.x, y |-> r.y, z |-> r.z, w |-> r.w, h |-> r.h, d |-> r.d,
   sizeBytes |-> cells * getSizeBytes(t.e), stride |-> stride, pad |-> pad,
   count |-> cells, len |-> r.n]
Row(t, r) == r.w * getSizeBytes(t.e)

validate1DRange(t, r) == r.w >= 1 /\ r.x + r.w <= mCurrentCount(t)
validate2DRange(t, r) == r.x + r.w <= t.x /\ r.y + r.h <= t.y
validate3DRange(t, r) == r.x + r.w <= t.x /\ r.y + r.h <= t.y /\ r.z + r.d <= t.z

copy1DRangeFrom(t, r) == If(validate1DRange(t, r), Buffer("1DData", t, r, r.w, usePadding(t, r), 0))
copy1DRangeTo(t, r) == If(validate1DRange(t, r), Buffer("1DRead", t, r, r.w, usePadding(t, r), 0))
copy1DFrom(t, r) == copy1DRangeFrom(t, [r EXCEPT !.x = 0, !.w = mCurrentCount(t)])
copy1DTo(t, r) == copy1DRangeTo(t, [r EXCEPT !.x = 0, !.w = mCurrentCount(t)])

copy2DRangeFrom(t, r) ==
  If(validate2DRange(t, r), Buffer("2DData", t, r, r.w * r.h, usePadding(t, r), Row(t, r)))
copy2DRangeTo(t, r) ==
  If(validate2DRange(t, r), Buffer("2DRead", t, r, r.w * r.h, usePadding(t, r), Row(t, r)))
\* The strided copies do not pad.
copy2DStridedFrom(t, r) ==
  If(validate2DRange(t, r), Buffer("2DData", t, r, r.w * r.h, FALSE, r.stride))
copy2DStridedTo(t, r) ==
  If(validate2DRange(t, r), Buffer("2DRead", t, r, r.w * r.h, FALSE, r.stride))

copy3DRangeFrom(t, r) ==
  If(validate3DRange(t, r), Buffer("3DData", t, r, r.w * r.h * r.d, usePadding(t, r), Row(t, r)))
copy3DRangeTo(t, r) ==
  If(validate3DRange(t, r), Buffer("3DRead", t, r, r.w * r.h * r.d, usePadding(t, r), Row(t, r)))

\* Copies from another allocation.
CopyRange(cmd, r) == [cmd |-> cmd, x |-> r.x, y |-> r.y, z |-> r.z, w |-> r.w, h |-> r.h, d |-> r.d,
                      sx |-> r.sx, sy |-> r.sy, sz |-> r.sz]
copy1DRangeFromAllocation(t, r) ==
  CopyRange("Copy2DRange", [r EXCEPT !.y = 0, !.z = 0, !.h = 1, !.d = 0, !.sy = 0, !.sz = 0])
copy2DRangeFromAllocation(t, r) ==
  If(validate2DRange(t, r), CopyRange("Copy2DRange", [r EXCEPT !.z = 0, !.d = 0, !.sz = 0]))
copy3DRangeFromAllocation(t, r) == If(validate3DRange(t, r), CopyRange("Copy3DRange", r))

Front(t, r) ==
  CASE r.op = "copyFrom" -> copy1DFrom(t, r)
    [] r.op = "copyTo" -> copy1DTo(t, r)
    [] r.op = "copy1DRangeFrom" -> copy1DRangeFrom(t, r)
    [] r.op = "copy1DRangeTo" -> copy1DRangeTo(t, r)
    [] r.op = "copy2DRangeFrom" -> copy2DRangeFrom(t, r)
    [] r.op = "copy2DRangeTo" -> copy2DRangeTo(t, r)
    [] r.op = "copy2DStridedFrom" -> copy2DStridedFrom(t, r)
    [] r.op = "copy2DStridedTo" -> copy2DStridedTo(t, r)
    [] r.op = "copy3DRangeFrom" -> copy3DRangeFrom(t, r)
    [] r.op = "copy3DRangeTo" -> copy3DRangeTo(t, r)
    [] r.op = "copy1DRangeFromAllocation" -> copy1DRangeFromAllocation(t, r)
    [] r.op = "copy2DRangeFromAllocation" -> copy2DRangeFromAllocation(t, r)
    [] r.op = "copy3DRangeFromAllocation" -> copy3DRangeFromAllocation(t, r)
=============================================================================
