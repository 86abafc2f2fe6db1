----------------------------- MODULE ForEachLaunch -----------------------------
(***************************************************************************)
(* One forEach launch of the CPU driver: invokeForEach sets the launch up, *)
(* and the lanes of the pool, which WorkerPool shows to be called once     *)
(* each, fetch slice numbers from mSliceNum and run the kernel over the    *)
(* cells of their slices until a slice is empty.                           *)
(***************************************************************************)
EXTENDS KernelLaunch

CONSTANTS Chunks,               \* rows or cells in 16k bytes, 0 for no allocation
          MaxCells              \* bound: cells of a launch

VARIABLES
  phase,      \* "setup", "run", "done", or "error" after setError
  job,        \* the MTLaunchStructForEach
  mSliceNum,
  hold,       \* the cells each lane is running the kernel over
  left,       \* the lanes whose walker has not returned
  ran,        \* the cells the kernel has finished
  again       \* the cells it has finished more than once

vars == <<phase, job, mSliceNum, hold, left, ran, again>>

Lanes == 0 .. (job.lanes - 1)

Dims == {d \in [x : XDims, y : YDims, z : ZDims] :
           d.x * Most(1, d.y) * Most(1, d.z) <= MaxCells}
Options == [start : [Axes -> Starts], end : [Axes -> Ends]]

Init ==
  /\ phase = "setup" /\ job = SerialJob(Bounds([x |-> 1, y |-> 0, z |-> 0], NoOptions))
  /\ mSliceNum = 0 /\ hold = [l \in Lanes |-> {}] /\ left = {}
  /\ ran = {} /\ again = {}

\* invokeForEach, up to the call of the walkers: threaded is the launch's
\* (mWorkers.mCount >= 1) && isThreadable && !mInKernel.
SetUp(dim, opt, lanes, perChunk, threaded) ==
  /\ phase = "setup"
  /\ IF SetUpOK(dim, opt)
     THEN /\ phase' = "run"
          /\ job' = IF threaded /\ lanes > 1
                    THEN ForEachJob(Bounds(dim, opt), lanes, perChunk)
                    ELSE SerialJob(Bounds(dim, opt))
     ELSE phase' = "error" /\ job' = job
  /\ left' = IF phase' = "run" THEN 0 .. (job'.lanes - 1) ELSE {}
  /\ hold' = [l \in 0 .. (job'.lanes - 1) |-> {}]
  /\ UNCHANGED <<mSliceNum, ran, again>>

\* The fetch and the increment of mSliceNum are one __sync_fetch_and_add.
Fetch(l) ==
  /\ l \in left /\ hold[l] = {}
  /\ mSliceNum' = (mSliceNum + 1) % Word
  /\ LET cells == Slice(job, mSliceNum) IN
     IF cells = {} THEN left' = left \ {l} /\ UNCHANGED hold
     ELSE hold' = [hold EXCEPT ![l] = cells] /\ UNCHANGED left
  /\ UNCHANGED <<phase, job, ran, again>>

\* fn over the rows of the slice
Kernel(l) ==
  /\ l \in left /\ hold[l] # {}
  /\ ran' = ran \cup hold[l] /\ again' = again \cup (ran \cap hold[l])
  /\ hold' = [hold EXCEPT ![l] = {}]
  /\ UNCHANGED <<phase, job, mSliceNum, left>>

Return ==
  /\ phase = "run" /\ left = {}
  /\ phase' = "done"
  /\ UNCHANGED <<job, mSliceNum, hold, left, ran, again>>

Finished == phase \in {"done", "error"} /\ UNCHANGED vars

Start == /\ phase = "setup"
         /\ \E dim \in Dims, opt \in Options, lanes \in LaneCounts,
               perChunk \in Chunks, threaded \in BOOLEAN :
              SetUp(dim, opt, lanes, perChunk, threaded)

Step == Return \/ \E l \in left : Fetch(l) \/ Kernel(l)

Next == Start \/ Step \/ Finished

\* The threads that run the lanes are scheduled.
Spec == Init /\ [][Next]_vars /\ WF_vars(Step)

(***************************************************************************)
(* Properties.                                                             *)
(***************************************************************************)

\* When the launch returns, the kernel has run exactly once over every cell the
\* caller asked for, whatever walker, slice size and number of lanes were used.
EachCellOnce == phase = "done" => ran = Box(job.b) /\ again = {}

================================================================================
