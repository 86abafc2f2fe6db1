------------------------------ MODULE MCScripts ------------------------------
(***************************************************************************)
(* How scripts run: kernel launches, reductions, the two kinds of script   *)
(* groups and the cache of compiled code.  A behaviour explores one of     *)
(* them, chosen at the start; the variables of the others stay at Off.     *)
(***************************************************************************)
EXTENDS KernelLaunch, ScriptGroups, ClosureGroups, CodeCache

CONSTANTS Chunks, MaxCells, MaxWork     \* of ForEachLaunch and ReduceLaunch

MCScriptOf == <<1, 2, 3, 3>>

VARIABLES phase, job, mSliceNum, hold, left, again,     \* a launch
          ran,                                          \* of a kernel
          outc, accumCount, accumPtr, folded, idx, final \* of a reduction

VARIABLE part   \* "foreach", "reduce", "group", "closures", "cache"

ForEach == INSTANCE ForEachLaunch
Reduce == INSTANCE ReduceLaunch

launchVars == <<phase, job, mSliceNum, hold, left, again>>
reduceVars == <<outc, accumCount, accumPtr, folded, idx, final>>
vars == <<part, launchVars, ran, reduceVars, groupVars, closureVars, cacheVars>>

Off == 0
LaunchOff == phase = "off" /\ job = Off /\ mSliceNum = Off /\ hold = Off /\ left = Off /\ again = Off
RanOff == ran = Off
ReduceOff == /\ outc = Off /\ accumCount = Off /\ accumPtr = Off /\ folded = Off
             /\ idx = Off /\ final = Off
GroupOff == /\ inc = Off /\ objects = Off /\ twoD = Off /\ stage = "off" /\ kernels = Off
            /\ lines = Off /\ order = Off /\ ordered = Off /\ todo = Off /\ lane = Off
            /\ next = Off /\ mem = Off
ClosureOff == /\ bstage = "off" /\ closures = Off /\ references = Off /\ batches = Off
              /\ runs = Off /\ at = Off /\ globals = Off /\ cells = Off
CacheOff == /\ debuggable = Off /\ reuse = Off /\ build = Off /\ so = Off /\ obj = Off
            /\ mislinked = Off /\ LoadedLibraries = Off /\ copies = Off /\ live = {} /\ task = Off

Init ==
  \/ /\ part = "foreach" /\ ForEach!Init /\ ReduceOff
     /\ GroupOff /\ ClosureOff /\ CacheOff
  \/ /\ part = "reduce" /\ Reduce!Init /\ RanOff
     /\ GroupOff /\ ClosureOff /\ CacheOff
  \/ part = "group" /\ GroupInit /\ LaunchOff /\ RanOff /\ ReduceOff /\ ClosureOff /\ CacheOff
  \/ part = "closures" /\ ClosureInit /\ LaunchOff /\ RanOff /\ ReduceOff /\ GroupOff /\ CacheOff
  \/ part = "cache" /\ CacheInit /\ LaunchOff /\ RanOff /\ ReduceOff /\ GroupOff /\ ClosureOff

Next ==
  \/ /\ part = "foreach" /\ ForEach!Next
     /\ UNCHANGED <<part, reduceVars, groupVars, closureVars, cacheVars>>
  \/ /\ part = "reduce" /\ Reduce!Next
     /\ UNCHANGED <<part, ran, groupVars, closureVars, cacheVars>>
  \/ /\ part = "group" /\ GroupNext
     /\ UNCHANGED <<part, launchVars, ran, reduceVars, closureVars, cacheVars>>
  \/ /\ part = "closures" /\ ClosureNext
     /\ UNCHANGED <<part, launchVars, ran, reduceVars, groupVars, cacheVars>>
  \/ /\ part = "cache" /\ CacheNext
     /\ UNCHANGED <<part, launchVars, ran, reduceVars, groupVars, closureVars>>

Spec == Init /\ [][Next]_vars

\* The kernel of a forEach launch has run exactly once over every cell the
\* caller asked for when the launch returns (walk_1d_foreach, walk_2d_foreach,
\* walk_general_foreach), whatever slice size and number of lanes were used.
EachCellOnce == part = "foreach" => ForEach!EachCellOnce

\* The lanes of a reduction fold into accumulators of their own inside the
\* memory allocated for them, the combine loop finds each of them, and the
\* result holds every cell once (launchReduceParallel, reduce_get_accumulator).
ReductionExact ==
  part = "reduce" => Reduce!OwnAccumulator /\ Reduce!CombinesAll /\ Reduce!EachCellFolded

\* A group that create accepted is one connected graph without cycles
\* (validateCycle, validateDAG of ScriptGroup.Builder).
AcceptedIsDag == part = "group" => MadeIsDag

\* A group executed as a whole gives what its kernels compute along the
\* connections (ScriptGroup::execute, ScriptGroupRootRS).
ConnectedComputes == part = "group" => GroupComputes

\* The batches of a closure group give what the closures give one after the
\* other, each with its own globals, and Input.set reaches every place that the
\* input is used at (Batch::conflict, CpuScriptGroup2Impl, Input.set).
BatchedComputes == part = "closures" => BatchesCompute /\ InputsSet

\* No two live scripts share the globals of a loaded library, and each runs the
\* code compiled from its own bitcode, after any crash, failed link or rebuild
\* (loadSOHelper, CpuScriptImpl::init, ScriptExecutable::createFromSharedObject).
CacheSound == part = "cache" => OwnGlobals /\ CodeMatches
==============================================================================
