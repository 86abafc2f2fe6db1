-------------------------- MODULE WorkerPoolTypes --------------------------
(***************************************************************************)
(* Proofs about the worker pool, for any number of CPUs, launches and      *)
(* slices: type correctness.                                               *)
(***************************************************************************)
EXTENDS WorkerPool, TLAPS

USE NumCpuAssumption, BoundsAssumption, FaultAssumption

-----------------------------------------------------------------------------
(* Running a slice keeps the type of the counters of runs.                 *)
LEMMA RanType ==
  ASSUME NEW l, ran \in [Slices -> Nat], RunSlice(l)
  PROVE  ran' \in [Slices -> Nat]
<1>1. CASE slice[l] \in Slices
  BY <1>1 DEF RunSlice
<1>2. CASE slice[l] \notin Slices
  <2>1. ran' = ran
    BY <1>2 DEF RunSlice
  <2> QED
    BY <2>1
<1> QED
  BY <1>1, <1>2

(* Fetching a slice keeps the types of the shared counter and the lane's slice. *)
LEMMA FetchType ==
  ASSUME NEW l, mSliceNum \in Nat, sliceTotal \in 0 .. MaxSlices,
         slice \in [Lanes -> Nat], FetchSlice(l)
  PROVE  mSliceNum' \in Nat /\ slice' \in [Lanes -> Nat]
<1>1. mSliceNum' \in Nat
  BY DEF FetchSlice
<1>2. CASE mSliceNum < sliceTotal
  <2>1. slice' = [slice EXCEPT ![l] = mSliceNum]
    BY <1>2 DEF FetchSlice
  <2> QED
    BY <1>1, <2>1
<1>3. CASE ~ (mSliceNum < sliceTotal)
  <2>1. slice' = slice
    BY <1>3 DEF FetchSlice
  <2> QED
    BY <1>1, <2>1
<1> QED
  BY <1>2, <1>3

(* The constructor establishes the types.                                  *)
LEMMA TypeInit == Init => TypeOK
<1> USE DEF CallerPoints, HelperPoints
<1> SUFFICES ASSUME Init PROVE TypeOK
  OBVIOUS
<1>1. mExit \in BOOLEAN /\ mLaunchCallback \in BOOLEAN /\ completeSet \in BOOLEAN
  BY DEF Init
<1>2. /\ hpc \in [Helpers -> HelperPoints] /\ arg \in [Helpers -> 0 .. MaxLaunches]
      /\ slice \in [Lanes -> Nat] /\ ran \in [Slices -> Nat]
      /\ calls \in [Lanes -> Nat]
  BY DEF Init
<1> QED
  BY <1>1, <1>2 DEF Init, TypeOK

(* Every step of init, helperThreadProc, launchThreads and the destructor  *)
(* keeps them.                                                             *)
LEMMA TypeStep == TypeOK /\ [Next]_vars => TypeOK'
<1> USE DEF CallerPoints, HelperPoints, ctlVars, poolVars, signalVars, helperVars, launchVars
<1> SUFFICES ASSUME TypeOK, [Next]_vars PROVE TypeOK'
  OBVIOUS
<1> USE DEF TypeOK
<1>1. CASE InitStart
  BY <1>1 DEF InitStart
<1>2. CASE CreateThread
  BY <1>2 DEF CreateThread
<1>3. CASE CreateFails
  BY <1>3 DEF CreateFails
<1>4. CASE CreateDone
  BY <1>4 DEF CreateDone
<1>5. CASE InitReturn
  BY <1>5 DEF InitReturn
<1>6. CASE InitPoll
  BY <1>6 DEF InitPoll, vars
<1>7. CASE SignalNext
  BY <1>7 DEF SignalNext, Helpers
<1>8. CASE SignalDone
  BY <1>8 DEF SignalDone
<1>9. CASE CallerFetch
  <2>1. (mSliceNum \in Nat /\ slice \in [Lanes -> Nat])'
    BY <1>9, FetchType DEF CallerFetch
  <2> QED
    BY <1>9, <2>1 DEF CallerFetch
<1>10. CASE CallerKernel
  <2>1. ran' \in [Slices -> Nat]
    BY <1>10, RanType DEF CallerKernel
  <2> QED
    BY <1>10, <2>1 DEF CallerKernel
<1>11. CASE Join
  BY <1>11 DEF Join
<1>12. CASE CompleteWait
  BY <1>12 DEF CompleteWait
<1>13. CASE CompleteWake
  BY <1>13 DEF CompleteWake
<1>14. CASE LaunchReturn
  BY <1>14 DEF LaunchReturn
<1>15. CASE Destroy
  <2>1. (mExit \in BOOLEAN /\ mLaunchCallback \in BOOLEAN)'
    BY <1>15 DEF Destroy
  <2> QED
    BY <1>15, <2>1 DEF Destroy
<1>16. CASE DestroySignal
  BY <1>16 DEF DestroySignal, Helpers
<1>17. CASE DestroySignalDone
  BY <1>17 DEF DestroySignalDone
<1>18. CASE DestroyJoin
  BY <1>18 DEF DestroyJoin
<1>19. CASE Terminated
  BY <1>19 DEF Terminated, vars
<1>20. ASSUME NEW l \in Helpers, HelperStart(l) PROVE TypeOK'
  BY <1>20 DEF HelperStart, Helpers
<1>21. ASSUME NEW l \in Helpers, HelperSignalInit(l) PROVE TypeOK'
  BY <1>21 DEF HelperSignalInit
<1>22. ASSUME NEW l \in Helpers, HelperLoop(l) PROVE TypeOK'
  BY <1>22 DEF HelperLoop
<1>23. ASSUME NEW l \in Helpers, HelperWait(l) PROVE TypeOK'
  BY <1>23 DEF HelperWait
<1>24. ASSUME NEW l \in Helpers, HelperWake(l) PROVE TypeOK'
  BY <1>24 DEF HelperWake
<1>25. ASSUME NEW l \in Helpers, HelperCall(l) PROVE TypeOK'
  BY <1>25 DEF HelperCall
<1>26. ASSUME NEW l \in Helpers, HelperFetch(l) PROVE TypeOK'
  <2>1. (mSliceNum \in Nat /\ slice \in [Lanes -> Nat])'
    BY <1>26, FetchType DEF HelperFetch
  <2> QED
    BY <1>26, <2>1 DEF HelperFetch
<1>27. ASSUME NEW l \in Helpers, HelperKernel(l) PROVE TypeOK'
  <2>1. ran' \in [Slices -> Nat]
    BY <1>27, RanType DEF HelperKernel
  <2> QED
    BY <1>27, <2>1 DEF HelperKernel
<1>28. ASSUME NEW l \in Helpers, HelperDec(l) PROVE TypeOK'
  BY <1>28 DEF HelperDec
<1>29. ASSUME NEW l \in Helpers, HelperSet(l) PROVE TypeOK'
  BY <1>29 DEF HelperSet
<1>30. ASSUME NEW n \in 1 .. MaxSlices, LaunchSerial(n) PROVE TypeOK'
  BY <1>30 DEF LaunchSerial, NewLaunch
<1>31. ASSUME NEW n \in 1 .. MaxSlices, LaunchFast(n) PROVE TypeOK'
  BY <1>31 DEF LaunchFast, NewLaunch
<1>32. ASSUME NEW n \in 1 .. MaxSlices, LaunchPool(n) PROVE TypeOK'
  BY <1>32 DEF LaunchPool, NewLaunch
<1>33. CASE UNCHANGED vars
  BY <1>33 DEF vars
<1> QED
  BY <1>1, <1>2, <1>3, <1>4, <1>5, <1>6, <1>7, <1>8, <1>9, <1>10, <1>11, <1>12, <1>13, <1>14, <1>15, <1>16, <1>17, <1>18, <1>19, <1>20, <1>21, <1>22, <1>23, <1>24, <1>25, <1>26, <1>27, <1>28, <1>29, <1>30, <1>31, <1>32, <1>33
  DEF Next, InitSteps, HelperStep, LaunchSteps, DestroySteps

(* Type correctness: mRunningCount, the slice counter and the control      *)
(* points of the command thread and of the helpers keep their types in     *)
(* every behaviour of the pool.                                            *)
THEOREM TypeCorrect == Spec => []TypeOK
  BY TypeInit, TypeStep, PTL DEF Spec
=============================================================================
