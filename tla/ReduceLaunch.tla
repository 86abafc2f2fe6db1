----------------------------- MODULE ReduceLaunch -----------------------------
(***************************************************************************)
(* One general reduction of the CPU driver: invokeReduce sets it up; every *)
(* lane takes an accumulator of its own and folds the cells of its slices  *)
(* into it; the calling thread then combines the accumulators and converts *)
(* the result.  An accumulator is abstracted to the set of cells folded    *)
(* into it.  launchReduceSerial is a launch with one lane.                 *)
(***************************************************************************)
EXTENDS KernelLaunch

CONSTANT MaxWork                \* bound: cells of a launch times its lanes

Null == -2      \* a null pointer
Out == -1       \* the output allocation, an accumulator when there is no outconverter

VARIABLES
  phase,       \* "setup", "run", "combine", "done", or "error"
  job,         \* the MTLaunchStructReduce
  outc,        \* whether the kernel has an outconverter
  mSliceNum,
  accumCount,
  accumPtr,    \* the accumulator of each of the numThreads threads
  folded,      \* the cells folded into each accumulator that was initialised
  hold,        \* the cells each lane is folding
  left,        \* the lanes whose walker has not returned
  again,       \* the cells folded, or combined, twice into one accumulator
  idx, final   \* the combine loop

vars == <<phase, job, outc, mSliceNum, accumCount, accumPtr, folded, hold, left,
          again, idx, final>>

Lanes == 0 .. (job.lanes - 1)
Dims(lanes) == {d \in [x : XDims, y : YDims, z : ZDims] :
                  lanes * d.x * Most(1, d.y) * Most(1, d.z) <= MaxWork}
Options == [start : [Axes -> Starts], end : [Axes -> Ends]]

\* Where accumulators are: accumAlloc has one per thread, one fewer when the
\* output allocation serves as one of them.
AccumAlloc(threads, oc) == 0 .. (threads - (IF oc THEN 0 ELSE 1) - 1)
Accumulators == AccumAlloc(job.threads, outc) \cup {Out}

Job(dim, opt, lanes, parallel) ==
  LET b == Bounds(dim, opt)
      j == IF parallel THEN ReduceJob(b, lanes) ELSE SerialJob(b)
  IN  [b |-> j.b, walk |-> j.walk, size |-> j.size, lanes |-> j.lanes,
       threads |-> IF parallel THEN lanes ELSE 1]

Init ==
  /\ phase = "setup" /\ outc = FALSE
  /\ job = Job([x |-> 1, y |-> 0, z |-> 0], NoOptions, 1, FALSE)
  /\ mSliceNum = 0 /\ accumCount = 0
  /\ accumPtr = <<>> /\ folded = [a \in {} |-> {}] /\ hold = <<>>
  /\ left = {} /\ again = {} /\ idx = 0 /\ final = Null

\* invokeReduce up to the walkers.  The launch is parallel when it is threaded
\* and the kernel has a combiner.
SetUp(dim, opt, lanes, parallel, oc) ==
  /\ phase = "setup"
  /\ IF SetUpOK(dim, opt)
     THEN phase' = "run" /\ job' = Job(dim, opt, lanes, parallel /\ lanes > 1)
     ELSE phase' = "error" /\ job' = job
  /\ outc' = oc
  /\ accumPtr' = [t \in 0 .. (job'.threads - 1) |-> Null]
  /\ left' = IF phase' = "run" THEN 0 .. (job'.lanes - 1) ELSE {}
  /\ hold' = [l \in 0 .. (job'.lanes - 1) |-> {}]
  /\ UNCHANGED <<mSliceNum, accumCount, folded, again, idx, final>>

AccumulatorAt_Shared(i) == IF ~outc /\ i <= 1 THEN Out ELSE IF outc THEN i ELSE i - 1
\* The accumulator for the i-th thread that asks for one
AccumulatorAt(i) ==
  IF outc THEN i ELSE IF i = 0 THEN Out ELSE i - 1

\* reduce_get_accumulator: the index is fetched with __sync_fetch_and_add, and
\* the accumulator initialised.
GetAccumulator(l) ==
  /\ l \in left /\ accumPtr[l] = Null
  /\ accumCount' = accumCount + 1
  /\ accumPtr' = [accumPtr EXCEPT ![l] = AccumulatorAt(accumCount)]
  /\ folded' = [a \in (DOMAIN folded) \cup {AccumulatorAt(accumCount)} |->
                  IF a = AccumulatorAt(accumCount) THEN {} ELSE folded[a]]
  /\ UNCHANGED <<phase, job, outc, mSliceNum, hold, left, again, idx, final>>

Fetch(l) ==
  /\ l \in left /\ accumPtr[l] # Null /\ hold[l] = {}
  /\ mSliceNum' = (mSliceNum + 1) % Word
  /\ LET cells == Slice(job, mSliceNum) IN
     IF cells = {} THEN left' = left \ {l} /\ UNCHANGED hold
     ELSE hold' = [hold EXCEPT ![l] = cells] /\ UNCHANGED left
  /\ UNCHANGED <<phase, job, outc, accumCount, accumPtr, folded, again, idx, final>>

\* accumFunc over the rows of the slice
Accumulate(l) ==
  /\ l \in left /\ hold[l] # {}
  /\ folded' = [folded EXCEPT ![accumPtr[l]] = @ \cup hold[l]]
  /\ again' = again \cup (folded[accumPtr[l]] \cap hold[l])
  /\ hold' = [hold EXCEPT ![l] = {}]
  /\ UNCHANGED <<phase, job, outc, mSliceNum, accumCount, accumPtr, left, idx, final>>

\* launchThreads returns when every lane's walker has.
Launched ==
  /\ phase = "run" /\ left = {}
  /\ phase' = "combine"
  /\ final' = IF outc THEN Null ELSE Out
  /\ UNCHANGED <<job, outc, mSliceNum, accumCount, accumPtr, folded, hold, left,
                 again, idx>>

\* One turn of the loop over the accumulators.  A null entry would be handed to
\* the combiner; CombinesAll says that there is none.
Combine ==
  /\ phase = "combine" /\ idx < accumCount
  /\ idx' = idx + 1
  /\ LET this == accumPtr[idx] IN
     IF final = Null THEN final' = this /\ UNCHANGED <<folded, again>>
     ELSE /\ IF final = this \/ this = Null THEN UNCHANGED <<folded, again>>
             ELSE /\ folded' = [folded EXCEPT ![final] = @ \cup folded[this]]
                  /\ again' = again \cup (folded[final] \cap folded[this])
          /\ UNCHANGED final
  /\ UNCHANGED <<phase, job, outc, mSliceNum, accumCount, accumPtr, hold, left>>

\* The outconverter writes the output allocation from the final accumulator.
OutConvert ==
  /\ phase = "combine" /\ idx = accumCount
  /\ phase' = "done"
  /\ folded' = [a \in {Out} |-> folded[final]]
  /\ UNCHANGED <<job, outc, mSliceNum, accumCount, accumPtr, hold, left, again,
                 idx, final>>

Finished == phase \in {"done", "error"} /\ UNCHANGED vars

Start == /\ phase = "setup"
         /\ \E lanes \in LaneCounts : \E dim \in Dims(lanes), opt \in Options,
               parallel \in BOOLEAN, oc \in BOOLEAN : SetUp(dim, opt, lanes, parallel, oc)

Step == \/ \E l \in left : GetAccumulator(l) \/ Fetch(l) \/ Accumulate(l)
        \/ Launched \/ Combine \/ OutConvert

Next == Start \/ Step \/ Finished

\* The threads that run the lanes are scheduled.
Spec == Init /\ [][Next]_vars /\ WF_vars(Step)

(***************************************************************************)
(* Properties.                                                             *)
(***************************************************************************)

\* Every thread folds into an accumulator of its own, inside the memory that was
\* allocated for them (rsCpuCore.cpp:730 allocates one fewer without an
\* outconverter).
OwnAccumulator ==
  \A k \in DOMAIN accumPtr : accumPtr[k] # Null =>
     /\ accumPtr[k] \in Accumulators
     /\ \A l \in DOMAIN accumPtr : k # l => accumPtr[l] # accumPtr[k]

\* The combine loop takes the first accumCount entries of accumPtr: they are the
\* threads that have an accumulator, and there is one at least
\* (rsAssert(finalAccumPtr != nullptr), rsCpuCore.cpp:802).
CombinesAll ==
  phase = "combine" =>
    /\ \A i \in DOMAIN accumPtr : accumPtr[i] # Null <=> i < accumCount
    /\ idx = accumCount => final # Null

\* The result is made of every cell the caller asked for, each folded in once.
EachCellFolded == phase = "done" => folded[Out] = Box(job.b) /\ again = {}

================================================================================
