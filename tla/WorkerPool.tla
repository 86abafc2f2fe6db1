----------------------------- MODULE WorkerPool -----------------------------
(***************************************************************************)
(* The worker pool of the CPU reference driver (cpu_ref/rsCpuCore.cpp) and *)
(* the auto-reset Signal it is built from (rsSignal.cpp).  One command     *)
(* thread creates the helper threads, launches kernels on them with a      *)
(* fork/join protocol, and finally joins and destroys them.                *)
(*                                                                         *)
(* A helper is named by its lane, the number its callback receives: lane   *)
(* idx + 1 for the thread that fetched idx from mLaunchCount, lane 0 for   *)
(* the command thread.  A launch is an MTLaunchStruct on the command       *)
(* thread's stack; "live" is the one whose storage exists (0 when none).   *)
(***************************************************************************)
EXTENDS Integers, FiniteSets

CONSTANTS
  NumCpu,         \* sysconf(_SC_NPROCESSORS_CONF), or debug.rs.max-threads
  MaxLaunches,    \* bound on the number of kernel launches
  MaxSlices,      \* bound on the number of slices of a launch
  CreateMayFail,  \* TRUE when pthread_create may return an error
  Spurious        \* signals whose pthread_cond_wait may return unsignalled

ASSUME NumCpuAssumption == NumCpu \in Nat \ {0}
ASSUME BoundsAssumption == MaxLaunches \in Nat /\ MaxSlices \in Nat
ASSUME FaultAssumption == /\ CreateMayFail \in BOOLEAN
                          /\ Spurious \subseteq {"launch", "complete"}

Helpers == 1 .. (NumCpu - 1)
Lanes   == 0 .. (NumCpu - 1)
Slices  == 0 .. (MaxSlices - 1)

VARIABLES
  pc,              \* control point of the command thread
  ct,              \* its loop counter over the launch signals
  path,            \* how the current launch runs: serial, fast or pool
  created,         \* threads pthread_create has returned for
  mCount, mRunningCount, mLaunchCount, mExit,
  mLaunchCallback, \* TRUE when the callback pointer is not null
  mLaunchData,     \* the launch it points to, 0 for nullptr
  mSet,            \* lanes with mLaunchSignals[lane - 1].mSet true
  sigInit,         \* lanes whose launch signal has been init()ed
  completeSet,     \* mCompleteSignal.mSet
  hpc,             \* control points of the helpers
  arg,             \* the launch a helper's callback was called with
  live, launches, sliceTotal,
  mSliceNum,       \* next slice to hand out (in the MTLaunchStruct)
  slice,           \* slice a lane is running
  ran,             \* how often each slice of the launch has run
  calls            \* how often each lane has entered the launch's callback

ctlVars    == <<pc, ct, path, created>>
poolVars   == <<mCount, mRunningCount, mLaunchCount, mExit,
                mLaunchCallback, mLaunchData>>
signalVars == <<mSet, sigInit, completeSet>>
helperVars == <<hpc, arg>>
launchVars == <<live, launches, sliceTotal, mSliceNum, slice, ran, calls>>
vars == <<pc, ct, path, created, mCount, mRunningCount, mLaunchCount, mExit,
          mLaunchCallback, mLaunchData, mSet, sigInit, completeSet, hpc, arg,
          live, launches, sliceTotal, mSliceNum, slice, ran, calls>>

CallerPoints == {"new", "create", "initwait", "idle", "signal", "walk",
                 "kernel", "join", "cwait", "cblocked", "ret", "dsignal",
                 "djoin", "done"}
HelperPoints == {"none", "siginit", "loop", "wait", "blocked", "woken",
                 "walk", "kernel", "dec", "set", "exited"}

(***************************************************************************)
(* The constructor: mWorkers is zeroed, so mCompleteSignal starts unset;   *)
(* the launch signals keep the "set" state of Signal's constructor.        *)
(***************************************************************************)
Init ==
  /\ pc = "new" /\ ct = 1 /\ path = "serial" /\ created = 0
  /\ mCount = 0 /\ mRunningCount = 0 /\ mLaunchCount = 0 /\ mExit = FALSE
  /\ mLaunchCallback = FALSE /\ mLaunchData = 0
  /\ mSet = Helpers /\ sigInit = {} /\ completeSet = FALSE
  /\ hpc = [l \in Helpers |-> "none"] /\ arg = [l \in Helpers |-> 0]
  /\ live = 0 /\ launches = 0 /\ sliceTotal = 0 /\ mSliceNum = 0
  /\ slice = [l \in Lanes |-> 0] /\ ran = [s \in Slices |-> 0]
  /\ calls = [l \in Lanes |-> 0]

-----------------------------------------------------------------------------
(* RsdCpuReferenceImpl::init                                               *)

InitStart ==
  /\ pc = "new"
  /\ IF NumCpu < 2
     THEN pc' = "idle" /\ mCount' = 0 /\ UNCHANGED mRunningCount
     ELSE pc' = "create" /\ mCount' = NumCpu - 1 /\ mRunningCount' = NumCpu - 1
  /\ UNCHANGED <<ct, path, created, mLaunchCount, mExit, mLaunchCallback,
                 mLaunchData, signalVars, helperVars, launchVars>>

CreateThread ==
  /\ pc = "create" /\ created < mCount
  /\ created' = created + 1
  /\ UNCHANGED <<pc, ct, path, poolVars, signalVars, helperVars, launchVars>>

CreateFails ==
  /\ pc = "create" /\ created < mCount /\ CreateMayFail
  /\ mCount' = created /\ pc' = "initwait"
  /\ UNCHANGED <<ct, path, created, mRunningCount, mLaunchCount, mExit,
                 mLaunchCallback, mLaunchData, signalVars, helperVars,
                 launchVars>>

CreateDone ==
  /\ pc = "create" /\ created = mCount
  /\ pc' = "initwait"
  /\ UNCHANGED <<ct, path, created, poolVars, signalVars, helperVars,
                 launchVars>>

(* Mutated form: init() does not wait for the helpers to report.           *)
InitReturn_NoHandshake ==
  /\ pc = "initwait"
  /\ pc' = "idle"
  /\ UNCHANGED <<ct, path, created, poolVars, signalVars, helperVars,
                 launchVars>>

InitReturn ==
  /\ pc = "initwait" /\ mRunningCount = 0
  /\ pc' = "idle"
  /\ UNCHANGED <<ct, path, created, poolVars, signalVars, helperVars,
                 launchVars>>

(* while (mRunningCount != 0) usleep(100)                                  *)
InitPoll == pc = "initwait" /\ mRunningCount # 0 /\ UNCHANGED vars

-----------------------------------------------------------------------------
(* RsdCpuReferenceImpl::helperThreadProc and the walker it calls back      *)

HelperStart(l) ==
  /\ hpc[l] = "none" /\ mLaunchCount < created /\ l = mLaunchCount + 1
  /\ mLaunchCount' = mLaunchCount + 1
  /\ hpc' = [hpc EXCEPT ![l] = "siginit"]
  /\ UNCHANGED <<ctlVars, mCount, mRunningCount, mExit, mLaunchCallback,
                 mLaunchData, signalVars, arg, launchVars>>

HelperSignalInit(l) ==
  /\ hpc[l] = "siginit"
  /\ sigInit' = sigInit \cup {l}
  /\ hpc' = [hpc EXCEPT ![l] = "loop"]
  /\ UNCHANGED <<ctlVars, poolVars, mSet, completeSet, arg, launchVars>>

HelperLoop(l) ==
  /\ hpc[l] = "loop"
  /\ hpc' = [hpc EXCEPT ![l] = IF mExit THEN "exited" ELSE "wait"]
  /\ UNCHANGED <<ctlVars, poolVars, signalVars, arg, launchVars>>

(* Signal::wait: the test is an "if", not a "while".                       *)
HelperWait(l) ==
  /\ hpc[l] = "wait"
  /\ mSet' = mSet \ {l}
  /\ hpc' = [hpc EXCEPT ![l] = IF l \in mSet THEN "woken" ELSE "blocked"]
  /\ UNCHANGED <<ctlVars, poolVars, sigInit, completeSet, arg, launchVars>>

HelperWake(l) ==
  /\ hpc[l] = "blocked" /\ (l \in mSet \/ "launch" \in Spurious)
  /\ mSet' = mSet \ {l}
  /\ hpc' = [hpc EXCEPT ![l] = "woken"]
  /\ UNCHANGED <<ctlVars, poolVars, sigInit, completeSet, arg, launchVars>>

HelperCall(l) ==
  /\ hpc[l] = "woken"
  /\ IF mLaunchCallback
     THEN /\ hpc' = [hpc EXCEPT ![l] = "walk"]
          /\ arg' = [arg EXCEPT ![l] = mLaunchData]
          /\ calls' = [calls EXCEPT ![l] = @ + 1]
     ELSE /\ hpc' = [hpc EXCEPT ![l] = "dec"]
          /\ UNCHANGED <<arg, calls>>
  /\ UNCHANGED <<ctlVars, poolVars, signalVars, live, launches, sliceTotal,
                 mSliceNum, slice, ran>>

(* Mutated form: the counter is read but only advanced by the command      *)
(* thread.                                                                 *)
FetchSlice_NotAtomic(l) ==
  /\ mSliceNum' = IF l = 0 \/ mSliceNum >= sliceTotal
                  THEN mSliceNum + 1 ELSE mSliceNum
  /\ slice' = IF mSliceNum < sliceTotal
              THEN [slice EXCEPT ![l] = mSliceNum] ELSE slice

(* __sync_fetch_and_add(&mtls->mSliceNum, 1): a slice past the end ends    *)
(* the walk.                                                               *)
FetchSlice(l) ==
  /\ mSliceNum' = mSliceNum + 1
  /\ slice' = IF mSliceNum < sliceTotal
              THEN [slice EXCEPT ![l] = mSliceNum] ELSE slice

RunSlice(l) == ran' = [ran EXCEPT ![slice[l]] = @ + 1]

HelperFetch(l) ==
  /\ hpc[l] = "walk"
  /\ FetchSlice(l)
  /\ hpc' = [hpc EXCEPT ![l] = IF mSliceNum < sliceTotal THEN "kernel"
                                                         ELSE "dec"]
  /\ UNCHANGED <<ctlVars, poolVars, signalVars, arg, live, launches,
                 sliceTotal, ran, calls>>

HelperKernel(l) ==
  /\ hpc[l] = "kernel"
  /\ RunSlice(l)
  /\ hpc' = [hpc EXCEPT ![l] = "walk"]
  /\ UNCHANGED <<ctlVars, poolVars, signalVars, arg, live, launches,
                 sliceTotal, mSliceNum, slice, calls>>

HelperDec(l) ==
  /\ hpc[l] = "dec"
  /\ mRunningCount' = mRunningCount - 1
  /\ hpc' = [hpc EXCEPT ![l] = "set"]
  /\ UNCHANGED <<ctlVars, mCount, mLaunchCount, mExit, mLaunchCallback,
                 mLaunchData, signalVars, arg, launchVars>>

HelperSet(l) ==
  /\ hpc[l] = "set"
  /\ completeSet' = TRUE
  /\ hpc' = [hpc EXCEPT ![l] = "loop"]
  /\ UNCHANGED <<ctlVars, poolVars, mSet, sigInit, arg, launchVars>>

-----------------------------------------------------------------------------
(* launchForEach / launchThreads on the command thread                     *)

(* A new MTLaunchStruct with n slices, none of them run.                   *)
NewLaunch(n) ==
  /\ launches < MaxLaunches
  /\ launches' = launches + 1 /\ live' = launches + 1
  /\ sliceTotal' = n /\ mSliceNum' = 0
  /\ ran' = [s \in Slices |-> 0]
  /\ calls' = [l \in Lanes |-> IF l = 0 THEN 1 ELSE 0]
  /\ UNCHANGED slice

(* No helpers, or a script that is not threadable: the pool is not used.   *)
LaunchSerial(n) ==
  /\ pc = "idle" /\ NewLaunch(n)
  /\ pc' = "walk" /\ path' = "serial"
  /\ UNCHANGED <<ct, created, poolVars, signalVars, helperVars>>

(* The fast path for very small launches: the callback runs here only.     *)
LaunchFast(n) ==
  /\ pc = "idle" /\ mCount >= 1 /\ NewLaunch(n)
  /\ mLaunchData' = launches + 1 /\ mLaunchCallback' = TRUE
  /\ pc' = "walk" /\ path' = "fast"
  /\ UNCHANGED <<ct, created, mCount, mRunningCount, mLaunchCount, mExit,
                 signalVars, helperVars>>

LaunchPool(n) ==
  /\ pc = "idle" /\ mCount >= 1 /\ NewLaunch(n)
  /\ mLaunchData' = launches + 1 /\ mLaunchCallback' = TRUE
  /\ mRunningCount' = mCount
  /\ pc' = "signal" /\ ct' = 1 /\ path' = "pool"
  /\ UNCHANGED <<created, mCount, mLaunchCount, mExit, signalVars, helperVars>>

SignalNext ==
  /\ pc = "signal" /\ ct <= mCount
  /\ mSet' = mSet \cup {ct}
  /\ ct' = ct + 1
  /\ UNCHANGED <<pc, path, created, poolVars, sigInit, completeSet,
                 helperVars, launchVars>>

(* Mutated form: the loop stops before the last helper.                    *)
SignalDone_Early ==
  /\ pc = "signal" /\ ct >= mCount
  /\ pc' = "walk"
  /\ UNCHANGED <<ct, path, created, poolVars, signalVars, helperVars,
                 launchVars>>

SignalDone ==
  /\ pc = "signal" /\ ct > mCount
  /\ pc' = "walk"
  /\ UNCHANGED <<ct, path, created, poolVars, signalVars, helperVars,
                 launchVars>>

(* Mutated form: the join is left as soon as the caller has no more        *)
(* slices to fetch.                                                        *)
CallerFetch_NoJoin ==
  /\ pc = "walk"
  /\ FetchSlice(0)
  /\ pc' = IF mSliceNum < sliceTotal THEN "kernel" ELSE "ret"
  /\ UNCHANGED <<ct, path, created, poolVars, signalVars, helperVars, live,
                 launches, sliceTotal, ran, calls>>

CallerFetch ==
  /\ pc = "walk"
  /\ FetchSlice(0)
  /\ pc' = IF mSliceNum < sliceTotal THEN "kernel"
           ELSE IF path = "pool" THEN "join" ELSE "ret"
  /\ UNCHANGED <<ct, path, created, poolVars, signalVars, helperVars, live,
                 launches, sliceTotal, ran, calls>>

CallerKernel ==
  /\ pc = "kernel"
  /\ RunSlice(0)
  /\ pc' = "walk"
  /\ UNCHANGED <<ct, path, created, poolVars, signalVars, helperVars, live,
                 launches, sliceTotal, mSliceNum, slice, calls>>

(* Mutated form: the wait ends with one helper still running.              *)
Join_OffByOne ==
  /\ pc = "join"
  /\ pc' = IF mRunningCount <= 1 THEN "ret" ELSE "cwait"
  /\ UNCHANGED <<ct, path, created, poolVars, signalVars, helperVars,
                 launchVars>>

Join ==
  /\ pc = "join"
  /\ pc' = IF mRunningCount = 0 THEN "ret" ELSE "cwait"
  /\ UNCHANGED <<ct, path, created, poolVars, signalVars, helperVars,
                 launchVars>>

CompleteWait ==
  /\ pc = "cwait"
  /\ completeSet' = FALSE
  /\ pc' = IF completeSet THEN "join" ELSE "cblocked"
  /\ UNCHANGED <<ct, path, created, poolVars, mSet, sigInit, helperVars,
                 launchVars>>

CompleteWake ==
  /\ pc = "cblocked" /\ (completeSet \/ "complete" \in Spurious)
  /\ completeSet' = FALSE
  /\ pc' = "join"
  /\ UNCHANGED <<ct, path, created, poolVars, mSet, sigInit, helperVars,
                 launchVars>>

(* The launch returns and its MTLaunchStruct goes out of scope.            *)
LaunchReturn ==
  /\ pc = "ret"
  /\ pc' = "idle" /\ live' = 0
  /\ UNCHANGED <<ct, path, created, poolVars, signalVars, helperVars,
                 launches, sliceTotal, mSliceNum, slice, ran, calls>>

-----------------------------------------------------------------------------
(* ~RsdCpuReferenceImpl                                                    *)

Destroy ==
  /\ pc = "idle"
  /\ mExit' = TRUE /\ mLaunchData' = 0 /\ mLaunchCallback' = FALSE
  /\ mRunningCount' = mCount
  /\ pc' = "dsignal" /\ ct' = 1
  /\ UNCHANGED <<path, created, mCount, mLaunchCount, signalVars, helperVars,
                 launchVars>>

DestroySignal ==
  /\ pc = "dsignal" /\ ct <= mCount
  /\ mSet' = mSet \cup {ct}
  /\ ct' = ct + 1
  /\ UNCHANGED <<pc, path, created, poolVars, sigInit, completeSet,
                 helperVars, launchVars>>

DestroySignalDone ==
  /\ pc = "dsignal" /\ ct > mCount
  /\ pc' = "djoin"
  /\ UNCHANGED <<ct, path, created, poolVars, signalVars, helperVars,
                 launchVars>>

DestroyJoin ==
  /\ pc = "djoin" /\ \A l \in 1 .. mCount : hpc[l] = "exited"
  /\ pc' = "done"
  /\ UNCHANGED <<ct, path, created, poolVars, signalVars, helperVars,
                 launchVars>>

Terminated == pc = "done" /\ UNCHANGED vars

-----------------------------------------------------------------------------
InitSteps    == \/ InitStart \/ CreateThread \/ CreateFails
                \/ CreateDone \/ InitReturn \/ InitPoll
HelperStep(l) == \/ HelperStart(l) \/ HelperSignalInit(l) \/ HelperLoop(l)
                 \/ HelperWait(l) \/ HelperWake(l) \/ HelperCall(l)
                 \/ HelperFetch(l) \/ HelperKernel(l) \/ HelperDec(l)
                 \/ HelperSet(l)
LaunchSteps  == \/ SignalNext \/ SignalDone \/ CallerFetch \/ CallerKernel
                \/ Join \/ CompleteWait \/ CompleteWake \/ LaunchReturn
DestroySteps == \/ DestroySignal \/ DestroySignalDone \/ DestroyJoin

Next ==
  \/ InitSteps
  \/ \E l \in Helpers : HelperStep(l)
  \/ \E n \in 1 .. MaxSlices : LaunchSerial(n) \/ LaunchFast(n) \/ LaunchPool(n)
  \/ LaunchSteps
  \/ Destroy
  \/ DestroySteps
  \/ Terminated

Spec == Init /\ [][Next]_vars

(* Every thread keeps being scheduled; nothing forces a launch or the      *)
(* destructor to be called.                                                *)
FairSpec == /\ Spec
            /\ WF_vars(InitSteps \/ LaunchSteps \/ DestroySteps)
            /\ \A l \in Helpers : WF_vars(HelperStep(l))

-----------------------------------------------------------------------------
(* The counters of the pool stay within the threads that exist, and the    *)
(* control points and the data of a launch within their types.             *)
TypeOK ==
  /\ pc \in CallerPoints /\ ct \in Nat \ {0} /\ path \in {"serial", "fast", "pool"}
  /\ created \in 0 .. (NumCpu - 1)
  /\ mCount \in 0 .. (NumCpu - 1) /\ mRunningCount \in Int
  /\ mLaunchCount \in 0 .. (NumCpu - 1)
  /\ mExit \in BOOLEAN /\ mLaunchCallback \in BOOLEAN
  /\ mLaunchData \in 0 .. MaxLaunches
  /\ mSet \subseteq Helpers /\ sigInit \subseteq Helpers
  /\ completeSet \in BOOLEAN
  /\ hpc \in [Helpers -> HelperPoints] /\ arg \in [Helpers -> 0 .. MaxLaunches]
  /\ live \in 0 .. MaxLaunches /\ launches \in 0 .. MaxLaunches
  /\ sliceTotal \in 0 .. MaxSlices /\ mSliceNum \in Nat
  /\ slice \in [Lanes -> Nat] /\ ran \in [Slices -> Nat]
  /\ calls \in [Lanes -> Nat]
-----------------------------------------------------------------------------
InCallback(l) == hpc[l] \in {"walk", "kernel"}

(* A helper that is inside the walker was given the launch that is still   *)
(* on the command thread's stack: no helper runs with the data of a launch *)
(* that has returned, or of a later one (helperThreadProc calls            *)
(* mLaunchCallback(mLaunchData) only between launchThreads' set() and the  *)
(* end of its wait for mRunningCount).                                     *)
NoStaleLaunch ==
  \A l \in Helpers : InCallback(l) => live # 0 /\ arg[l] = live

(* When launchThreads returns every slice has run exactly once, and no     *)
(* slice ever runs twice, whatever lane fetched it from mSliceNum.         *)
SlicesRunOnce ==
  /\ \A s \in Slices : ran[s] <= 1
  /\ pc = "ret" => \A s \in 0 .. (sliceTotal - 1) : ran[s] = 1

(* When a launch that used the pool returns, every lane has entered the    *)
(* walker exactly once, and on the serial and fast paths only lane 0 has;  *)
(* the combine loop of launchReduceParallel indexes accumPtr by lane and   *)
(* relies on it.                                                           *)
EveryLaneCalled ==
  pc = "ret" =>
    calls = [l \in Lanes |-> IF path = "pool" \/ l = 0 THEN 1 ELSE 0]

(* What a caller of launchThreads relies on when it returns: each slice    *)
(* and each lane had its one turn, and counters and places keep their      *)
(* types.                                                                  *)
LaunchExact == TypeOK /\ SlicesRunOnce /\ EveryLaneCalled

(* launchThreads and the destructor set() only launch signals whose mutex  *)
(* and condition the helper thread has already init()ed.                   *)
SignalsReady ==
  pc \in {"signal", "dsignal"} => 1 .. mCount \subseteq sigInit

(* A launch returns: neither a wakeup of a helper nor the completion that  *)
(* the command thread waits for is lost.                                   *)
LaunchReturns == pc \in {"signal", "walk"} ~> pc = "idle"

(* init() returns once it has started creating threads.                    *)
InitReturns == pc = "create" ~> pc = "idle"

(* init() returns when every helper could be created: each of them brings  *)
(* mRunningCount down by one before it first waits.                        *)
InitReturnsIfCreated ==
  pc = "create" ~> (pc = "idle" \/ mCount < NumCpu - 1)

(* The destructor's joins return: every helper sees mExit.                 *)
DestroyReturns == pc = "dsignal" ~> pc = "done"

(* Every call on the pool returns: init() that could create its helpers,   *)
(* launchThreads, and the destructor.                                      *)
CallsReturn == InitReturnsIfCreated /\ LaunchReturns /\ DestroyReturns

(***************************************************************************)
(* The pool implements the fork/join abstraction.                          *)
(***************************************************************************)
AbsLane(l) ==
  IF live = 0 \/ calls[l] = 0 THEN "out"
  ELSE IF (IF l = 0 THEN pc \in {"signal", "walk", "kernel"}
                    ELSE InCallback(l))
       THEN "in" ELSE "left"

FJ == INSTANCE ForkJoin WITH
  phase <- IF live = 0 THEN "idle" ELSE "running",
  todo  <- {s \in 0 .. (sliceTotal - 1) : ran[s] = 0},
  lane  <- [l \in Lanes |-> AbsLane(l)]

(* Every behaviour of the pool is one of the abstract fork/join: launches  *)
(* do not overlap, and return only after all their work.                   *)
RefinesForkJoin == FJ!AbsSpec
=============================================================================
