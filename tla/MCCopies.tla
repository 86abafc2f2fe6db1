------------------------------- MODULE MCCopies ------------------------------
(* The allocations and the copies tried on them.                              *)
EXTENDS AllocCopies

\* Types whose layout is checked.
LayoutTypes ==
  {t \in {[e |-> e, x |-> x, y |-> y, z |-> z, lods |-> l, faces |-> f, yuv |-> "none"]
            : e \in {"U8_3", "U16"}, x \in 1 .. 5, y \in 0 .. 3, z \in 0 .. 3, l \in BOOLEAN, f \in BOOLEAN}
     : javaBuilds(t)}
\* Types copies are tried on.
CopyTypes ==
  {Type("U8", 3, 0, 0), Type("U8_3", 2, 0, 0), Type("U16", 3, 0, 0),
   Type("U8", 3, 2, 0), Type("U8_3", 2, 2, 0), Type("U8_3", 4, 2, 0), Type("RGB_565", 2, 2, 0),
   Type("RGBA_8888", 2, 2, 0), Type("RGBA_8888", 4, 2, 0), Type("A_8", 2, 1, 0),
   Type("U8", 2, 2, 2), Type("U8_3", 2, 2, 2),
   [Type("U8", 4, 2, 0) EXCEPT !.lods = TRUE], [Type("RGBA_8888", 2, 2, 0) EXCEPT !.lods = TRUE],
   [Type("RGBA_8888", 2, 2, 0) EXCEPT !.faces = TRUE],
   [Type("RGB_565", 2, 2, 0) EXCEPT !.faces = TRUE, !.lods = TRUE],
   [Type("YUV", 4, 4, 0) EXCEPT !.yuv = "YV12"], [Type("YUV", 4, 2, 0) EXCEPT !.yuv = "NV21"]}
MCTypes == LayoutTypes \cup CopyTypes

Base ==
  [api |-> "java", op |-> "none", checked |-> TRUE, x |-> 0, y |-> 0, z |-> 0, w |-> 0, h |-> 0, d |-> 0,
   n |-> 0, dt |-> "i8", pad |-> FALSE, stride |-> 0, sx |-> 0, sy |-> 0, sz |-> 0,
   config |-> "null", full |-> FALSE, shared |-> FALSE]

\* A C++ caller passes a buffer of the region's size.
CppBytes(t, r, cells) == cells * (IF r.pad /\ Vec[t.e] = 3 THEN 3 * mSize[t.e] ELSE getSizeBytes(t.e))
\* Rows without padding, so that cells in sequence are bytes in sequence.
NoRowPadding(t) == (t.y <= 1 /\ t.z <= 1) \/ (t.x * getSizeBytes(t.e)) % Alignment = 0
Cells(t) == t.x * AtLeast1(t.y) * AtLeast1(t.z)
\* Array lengths in components around the exact one for a number of cells.
Lengths(t, pad, cells) ==
  LET exact == cells * (IF pad THEN Vec[t.e] ELSE getSizeBytes(t.e) \div mSize[t.e])
  IN {n \in {exact - 1, exact, exact + 1} : n >= 0}

WithRegion(op, x, y, z, w, h, d, pad) ==
  [Base EXCEPT !.op = op, !.x = x, !.y = y, !.z = z, !.w = w, !.h = h, !.d = d, !.pad = pad]
Java1D(t) ==
  IF ~NoRowPadding(t) THEN {}
  ELSE UNION {{[WithRegion(op, x, 0, 0, w, 0, 0, pad) EXCEPT !.n = n, !.dt = dt]
                 : n \in Lengths(t, pad, w), dt \in {Java!DataType(t.e), "i8"} \ {"565"}}
               : op \in {"copy1DRangeFrom", "copy1DRangeTo"}, x \in 0 .. Cells(t), w \in 0 .. 2, pad \in BOOLEAN}
Java2D(t) ==
  UNION {{[WithRegion(op, x, y, 0, w, h, 0, pad) EXCEPT !.n = n, !.dt = Java!DataType(t.e)] : n \in Lengths(t, pad, w * h)}
           : op \in {"copy2DRangeFrom", "copy2DRangeTo"}, x \in 0 .. t.x, y \in 0 .. t.y, w \in 0 .. 2, h \in 0 .. 2, pad \in BOOLEAN}
Java3D(t) ==
  UNION {{[WithRegion("copy3DRangeFrom", x, y, z, w, h, d, pad) EXCEPT !.n = n] : n \in Lengths(t, pad, w * h * d)}
           : x \in 0 .. 1, y \in 0 .. 1, z \in 0 .. 1, w \in 1 .. 2, h \in 1 .. 2, d \in 1 .. 2, pad \in BOOLEAN}
JavaWhole(t) ==
  UNION {{[Base EXCEPT !.op = op, !.pad = pad, !.n = n, !.dt = Java!DataType(t.e), !.checked = ch]
            : n \in Lengths(t, pad, calcElementCount(t)), ch \in BOOLEAN}
           : op \in {"copyFrom", "copyTo"}, pad \in BOOLEAN}
Frame(t) == {[Base EXCEPT !.op = "copyFrom", !.n = Java!getBytesSize(t)]}

Cpp1D(t) ==
  IF ~NoRowPadding(t) THEN {}
  ELSE {[r EXCEPT !.api = "cpp", !.n = CppBytes(t, r, r.w)]
          : r \in {WithRegion(op, x, 0, 0, w, 0, 0, pad)
                     : op \in {"copy1DRangeFrom", "copy1DRangeTo"}, x \in 0 .. Cells(t), w \in 0 .. 2, pad \in BOOLEAN}}
       \cup {[r EXCEPT !.api = "cpp", !.n = CppBytes(t, r, Cells(t))]
          : r \in {WithRegion(op, 0, 0, 0, 0, 0, 0, pad) : op \in {"copyFrom", "copyTo"}, pad \in BOOLEAN}}
Cpp2D(t) ==
  {[r EXCEPT !.api = "cpp", !.n = CppBytes(t, r, r.w * r.h)]
     : r \in {WithRegion(op, x, y, 0, w, h, 0, pad)
                : op \in {"copy2DRangeFrom", "copy2DRangeTo"}, x \in 0 .. t.x, y \in 0 .. t.y, w \in 0 .. 2, h \in 0 .. 2, pad \in BOOLEAN}}
  \cup
  UNION {{[WithRegion(op, x, y, 0, w, h, 0, FALSE) EXCEPT !.api = "cpp", !.stride = w * getSizeBytes(t.e) + extra,
                                                          !.n = h * (w * getSizeBytes(t.e) + extra)]
            : extra \in {0, 3}}
           : op \in {"copy2DStridedFrom", "copy2DStridedTo"}, x \in 0 .. 1, y \in 0 .. 1, w \in 1 .. t.x, h \in 1 .. 2}
Cpp3D(t) ==
  {[r EXCEPT !.api = "cpp", !.n = CppBytes(t, r, r.w * r.h * r.d)]
     : r \in {WithRegion(op, x, y, z, w, h, d, pad)
                : op \in {"copy3DRangeFrom", "copy3DRangeTo"}, x \in 0 .. 1, y \in 0 .. 1, z \in 0 .. 1,
                  w \in 1 .. 2, h \in 1 .. 2, d \in 1 .. 2, pad \in BOOLEAN}}

\* The source is an allocation of the same type, its range inside it.
FromAllocations(t) ==
  {[WithRegion("copy1DRangeFromAllocation", x, 0, 0, w, 0, 0, FALSE) EXCEPT !.api = api, !.sx = sx]
     : api \in {"java", "cpp"}, x \in 0 .. t.x - 2, w \in 1 .. 2, sx \in 0 .. t.x - 2}
  \cup {[WithRegion("copy2DRangeFromAllocation", x, y, 0, w, h, 0, FALSE) EXCEPT !.api = api, !.sx = sx, !.sy = sy]
     : api \in {"java", "cpp"}, x \in 0 .. t.x, y \in 0 .. t.y, w \in 1 .. 2, h \in 1 .. 2, sx \in 0 .. t.x - 2, sy \in 0 .. t.y - 2}
  \cup (IF t.z = 0 THEN {}
        ELSE {[WithRegion("copy3DRangeFromAllocation", x, y, z, w, h, d, FALSE) EXCEPT !.api = api]
                : api \in {"java", "cpp"}, x \in 0 .. 1, y \in 0 .. 1, z \in 0 .. 1, w \in 1 .. 2, h \in 1 .. 2, d \in 1 .. 2})
  \cup {[Base EXCEPT !.op = "copyFromAllocation"]}

\* The bitmaps.
Bitmaps(t) ==
  {[WithRegion(op, x, y, 0, w, h, 0, FALSE) EXCEPT !.config = c, !.full = t.lods, !.shared = sh]
     : op \in {"copyFromBitmap", "copy2DRangeFromBitmap", "copyToBitmap", "createFromBitmap"},
       x \in 0 .. 1, y \in 0 .. 1, w \in {1, t.x}, h \in {1, t.y},
       c \in {"RGBA_8888", "RGB_565", "A_8", "null"}, sh \in BOOLEAN}
Cubes(t) ==
  {[Base EXCEPT !.op = "createCubemapFromBitmap", !.w = w, !.h = h, !.config = c, !.full = t.lods]
     : w \in {2, 6, 12}, h \in {1, 2}, c \in {"RGBA_8888", "RGB_565"}}

IsPixel(e) == e \in {"A_8", "RGB_565", "RGBA_8888"}
MCRequests(t) ==
  CASE t \notin CopyTypes -> {}
    [] Planes(t) -> Frame(t)
    [] t.faces -> Cubes(t)
    [] IsPixel(t.e) -> {r \in Bitmaps(t) : (r.op \in {"copyFromBitmap", "createFromBitmap", "copyToBitmap"} => r.x + r.y = 0)
                                          /\ (r.shared => r.op = "createFromBitmap")}
    [] t.lods -> Java2D(t)
    [] t.z > 0 -> Java3D(t) \cup JavaWhole(t) \cup Cpp3D(t) \cup FromAllocations(t)
    [] t.y > 0 -> Java1D(t) \cup Java2D(t) \cup JavaWhole(t) \cup Cpp1D(t) \cup Cpp2D(t) \cup FromAllocations(t)
    [] OTHER -> Java1D(t) \cup JavaWhole(t) \cup Cpp1D(t) \cup FromAllocations(t)
                \cup {[Base EXCEPT !.api = "core", !.op = "resize", !.w = w] : w \in 1 .. 5}
=============================================================================
