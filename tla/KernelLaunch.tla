----------------------------- MODULE KernelLaunch -----------------------------
(***************************************************************************)
(* How the CPU driver lays a kernel launch out over its lanes: the box of  *)
(* cells a launch covers (setUpMtlsDimensions), the walker and the slice   *)
(* size it picks (launchForEach, launchReduceParallel), and the cells a    *)
(* walker visits for the slice number it fetched.  All of it is uint32_t   *)
(* arithmetic, here modulo 2^W.  The dimensions other than x, y and z stay *)
(* at start = end = 0 (rsCpuScript.cpp:547), where sliceInt passes its     *)
(* argument on unchanged, so they are left out.                            *)
(***************************************************************************)
EXTENDS Integers, FiniteSets

CONSTANTS W,                    \* bits of a uint32_t
          XDims, YDims, ZDims,  \* the dimensions of the allocations
          Starts, Ends,         \* the coordinates a caller's options may name
          LaneCounts            \* mWorkers.mCount + 1

ASSUME WAssumption == W \in Nat \ {0}
ASSUME DimAssumption == /\ XDims \subseteq Nat \ {0} /\ YDims \subseteq Nat /\ ZDims \subseteq Nat
                        /\ Starts \subseteq Nat /\ Ends \subseteq Nat
                        /\ LaneCounts \subseteq Nat \ {0}

Word == 2 ^ W
Least(a, b) == IF a < b THEN a ELSE b
Most(a, b) == IF a > b THEN a ELSE b

Axes == {"x", "y", "z"}

\* SET_UP_DIMENSION: the part of one axis a launch covers.  opt is the caller's
\* RsScriptCall, where End = 0 means the axis was not restricted; a null one
\* restricts no axis.
NoOptions == [start |-> [a \in Axes |-> 0], end |-> [a \in Axes |-> 0]]
Restricted(opt, a) == opt.end[a] # 0
StartOf(dim, opt, a) == IF Restricted(opt, a) THEN Least(dim[a], opt.start[a]) ELSE 0
EndOf(dim, opt, a) == IF Restricted(opt, a) THEN Least(dim[a], opt.end[a]) ELSE dim[a]

\* setUpMtlsDimensions returns false for an empty range that was asked for.
SetUpOK(dim, opt) ==
  \A a \in Axes : Restricted(opt, a) => StartOf(dim, opt, a) < EndOf(dim, opt, a)

\* The bounds of the launch; the x and y walkers always want 0-1 at least.
Bounds(dim, opt) ==
  [dim   |-> dim,
   start |-> [a \in Axes |-> StartOf(dim, opt, a)],
   end   |-> [x |-> Most(1, EndOf(dim, opt, "x")),
              y |-> Most(1, EndOf(dim, opt, "y")),
              z |-> EndOf(dim, opt, "z")]]

\* The cells the launch is for, each <<x, y, z>>; an axis z that is not there
\* has the one coordinate 0.
Span(b, a) == b.start[a] .. (b.end[a] - 1)
Box(b) == Span(b, "x") \X Span(b, "y") \X (IF b.dim.z = 0 THEN {0} ELSE Span(b, "z"))

\* sliceInt: the coordinate slice number val has on an axis, and what is left
\* of val for the next axis.
SliceInt(val, start, end) ==
  IF start >= end THEN [p |-> start, r |-> val]
  ELSE [p |-> (val % (end - start)) + start, r |-> val \div (end - start)]

\* walk_general_foreach, walk_3d_reduce and the serial loops: slice n is one z
\* plane, and no plane once sliceInt leaves a remainder.
ZSlice(b, n) ==
  LET s == SliceInt(n, b.start.z, b.end.z)
  IN  IF s.r = 0 THEN Span(b, "x") \X Span(b, "y") \X {s.p} ELSE {}

\* walk_1d and walk_2d: slice n is mSliceSize coordinates of one axis, cut off
\* at its end; the walker returns when nothing is left.
SliceRange(b, a, size, n) ==
  LET from == (b.start[a] + n * size) % Word
      to   == Least((from + size) % Word, b.end[a])
  IN  from .. (to - 1)

\* The cells of slice n of launch j; none means that the walker returns.
Slice(j, n) ==
  CASE j.walk = "z" -> ZSlice(j.b, n)
    [] j.walk = "y" -> Span(j.b, "x") \X SliceRange(j.b, "y", j.size, n) \X {0}
    [] j.walk = "x" -> SliceRange(j.b, "x", j.size, n) \X {0} \X {0}

\* A launch with one lane and one walker: the serial loops of launchForEach and
\* launchReduceSerial.
SerialJob(b) == [b |-> b, walk |-> "z", size |-> 1, lanes |-> 1]

\* launchThreads: very small launches run on the calling thread only.
LanesFor(b, size, lanes) ==
  IF b.dim.y <= 1 /\ b.end.x <= (b.start.x + size) % Word THEN 1 ELSE lanes

ParallelJob(b, walk, size, lanes) ==
  [b |-> b, walk |-> walk, size |-> size, lanes |-> LanesFor(b, size, lanes)]

ForEachSize_NoMin(dim, lanes, perChunk) ==
  LET share == dim \div (lanes * 4)
  IN  IF perChunk = 0 THEN share ELSE Least(share, perChunk)
\* launchForEach: the smaller of a quarter of a lane's share and of what makes
\* 16k bytes, at least 1.  perChunk is the rows or cells in 16k bytes, 0 when
\* there is no allocation to go by (a row longer than that is as good as 1).
ForEachSize(dim, lanes, perChunk) ==
  LET share == dim \div (lanes * 4)
  IN  Most(1, IF perChunk = 0 THEN share ELSE Least(share, perChunk))

ForEachJob(b, lanes, perChunk) ==
  IF b.start.z # b.end.z THEN ParallelJob(b, "z", 1, lanes)
  ELSE IF b.dim.y > 1 THEN ParallelJob(b, "y", ForEachSize(b.dim.y, lanes, perChunk), lanes)
  ELSE ParallelJob(b, "x", ForEachSize(b.dim.x, lanes, perChunk), lanes)

\* launchReduceParallel
ReduceSize(dim, lanes) == Most(1, dim \div (lanes * 4))

ReduceJob(b, lanes) ==
  IF b.dim.z > 1 THEN ParallelJob(b, "z", 1, lanes)
  ELSE IF b.dim.y > 1 THEN ParallelJob(b, "y", ReduceSize(b.dim.y, lanes), lanes)
  ELSE ParallelJob(b, "x", ReduceSize(b.dim.x, lanes), lanes)
================================================================================
