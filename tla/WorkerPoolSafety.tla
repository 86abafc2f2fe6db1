----------------------- MODULE WorkerPoolSafety -----------------------------
(***************************************************************************)
(* For any number of CPUs, launches and slices, the fork/join protocol     *)
(* never lets a helper run with a launch that has returned, and only       *)
(* initialised launch signals are set.                                     *)
(***************************************************************************)
EXTENDS WorkerPoolTypes, FiniteSetTheorems

USE NumCpuAssumption, BoundsAssumption, FaultAssumption
(* A helper owes the command thread a decrement of mRunningCount: its      *)
(* launch signal is set and not yet consumed, or it is between waking and  *)
(* decrementing, or launchThreads has counted it and not yet signalled it. *)
Quiescent == {"none", "siginit", "loop", "wait", "blocked", "set"}
Active    == {"woken", "walk", "kernel", "dec"}

Owes(l) ==
  \/ hpc[l] \in Quiescent /\ l \in mSet
  \/ hpc[l] \in Active
  \/ pc = "signal" /\ l >= ct

Owing == {l \in Helpers : Owes(l)}

InitPhase    == {"new", "create", "initwait"}
DestroyPhase == {"dsignal", "djoin", "done"}
LaunchPhase  == {"signal", "walk", "kernel", "join", "cwait", "cblocked"}

(* mRunningCount counts exactly the helpers that owe a decrement.          *)
CountInv ==
  pc \notin DestroyPhase \cup {"new"} => mRunningCount = Cardinality(Owing)

(* Outside a pool launch nobody owes one.                                  *)
QuietInv ==
  \/ pc \in {"idle", "ret"}
  \/ pc \in {"walk", "kernel"} /\ path # "pool"
  => Owing = {}

(* How far the creation of the helpers has got.                            *)
StartInv ==
  /\ \A l \in Helpers : hpc[l] # "none" <=> l <= mLaunchCount
  /\ \A l \in Helpers : hpc[l] \in {"none", "siginit"} => l \in mSet
  /\ \A l \in Helpers : hpc[l] \notin {"none", "siginit"} => l \in sigInit
  /\ mLaunchCount <= created /\ created <= mCount
  /\ pc = "new" => created = 0 /\ mRunningCount = 0 /\ \A l \in Helpers : hpc[l] = "none"
  /\ pc = "create" => mCount = NumCpu - 1
  /\ pc = "initwait" => mCount = created
  /\ pc \notin InitPhase => /\ mCount = NumCpu - 1
                            /\ \A l \in Helpers : hpc[l] \notin {"none", "siginit"}

(* A helper leaves its loop only after the destructor has begun.           *)
ExitInv ==
  /\ mExit => pc \in DestroyPhase
  /\ \A l \in Helpers : hpc[l] = "exited" => mExit

(* A helper that answers a launch has consumed its signal.                 *)
ConsumedInv ==
  pc \notin DestroyPhase => \A l \in Helpers : hpc[l] \in Active => l \notin mSet

(* Who may be called back, and with what.                                  *)
DataInv ==
  /\ pc \in InitPhase \cup DestroyPhase => ~ mLaunchCallback
  /\ pc \in LaunchPhase => live # 0
  /\ pc = "signal" => path = "pool"
  /\ pc \in {"join", "cwait", "cblocked"} => path = "pool"
  /\ pc \in LaunchPhase /\ path = "pool" => mLaunchCallback /\ mLaunchData = live
  /\ pc = "signal" => \A l \in Helpers : l >= ct =>
                        hpc[l] \in Quiescent /\ l \notin mSet
  /\ pc \in InitPhase \cup DestroyPhase =>
       \A l \in Helpers : hpc[l] \notin {"walk", "kernel"}

IndInv == TypeOK /\ CountInv /\ QuietInv /\ StartInv
          /\ ExitInv /\ ConsumedInv /\ DataInv /\ NoStaleLaunch

(* A condition wait on a launch signal returns only when it was signalled. *)
NoSpuriousLaunchWake == "launch" \notin Spurious

-----------------------------------------------------------------------------
(* The helpers that owe a decrement are a finite set, empty when its size is 0. *)
LEMMA OwingFinite ==
  /\ IsFiniteSet(Helpers) /\ Cardinality(Helpers) = NumCpu - 1
  /\ IsFiniteSet(Owing) /\ Cardinality(Owing) \in Nat
  /\ Cardinality(Owing) = 0 <=> Owing = {}
<1>1. IsFiniteSet(Helpers) /\ Cardinality(Helpers) = NumCpu - 1
  <2>1. 1 \in Int /\ NumCpu - 1 \in Int
    OBVIOUS
  <2> QED
    BY <2>1, FS_Interval DEF Helpers
<1>2. IsFiniteSet(Owing)
  BY <1>1, FS_Subset DEF Owing
<1> QED
  BY <1>1, <1>2, FS_CardinalityType, FS_EmptySet

(* The constructor's state satisfies the inductive invariant.              *)
LEMMA IndInit == Init => IndInv
<1> SUFFICES ASSUME Init PROVE IndInv
  OBVIOUS
<1>1. CountInv /\ QuietInv
  BY DEF Init, CountInv, QuietInv
<1>2. StartInv
  BY DEF Init, StartInv, InitPhase, Helpers
<1>3. ExitInv /\ ConsumedInv /\ DataInv /\ NoStaleLaunch
  BY DEF Init, ExitInv, ConsumedInv, Active, DataInv, NoStaleLaunch, InCallback, InitPhase, LaunchPhase, DestroyPhase
<1> QED
  BY <1>1, <1>2, <1>3, TypeInit DEF IndInv

(* Every step preserves it, unless a wait on a launch signal returns       *)
(* without having been signalled.                                          *)
LEMMA IndStep == ASSUME NoSpuriousLaunchWake PROVE IndInv /\ [Next]_vars => IndInv'
<1> SUFFICES ASSUME IndInv, [Next]_vars PROVE IndInv'
  OBVIOUS
<1>0. TypeOK /\ TypeOK'
  BY TypeStep DEF IndInv
<1>00. /\ pc \in CallerPoints /\ ct \in Nat \ {0} /\ mRunningCount \in Int
       /\ created \in Nat /\ mCount \in 0 .. (NumCpu - 1)
       /\ mLaunchCount \in Nat /\ launches \in Nat
       /\ hpc \in [Helpers -> HelperPoints] /\ DOMAIN arg = Helpers
  BY <1>0 DEF TypeOK
<1> USE <1>00 DEF ctlVars, poolVars, signalVars, helperVars, launchVars
<1>1. CASE InitStart
  <2>1. Owing' = Owing
    <3>1. \A h \in Helpers : Owes(h)' <=> Owes(h)
      BY <1>1 DEF InitStart, IndInv, Owes, Quiescent, Active, StartInv, ExitInv, DataInv, DestroyPhase, Helpers
    <3> QED
      BY <3>1 DEF Owing
  <2>2. StartInv'
    BY <1>1 DEF InitStart, IndInv, StartInv, InitPhase, Helpers
  <2>3. ExitInv'
    BY <1>1 DEF InitStart, IndInv, ExitInv, DestroyPhase
  <2>4. DataInv'
    BY <1>1 DEF InitStart, IndInv, DataInv, InitPhase, DestroyPhase, LaunchPhase, Quiescent
  <2>5. NoStaleLaunch'
    BY <1>1 DEF InitStart, IndInv, NoStaleLaunch, InCallback, DataInv
  <2>6. CountInv'
    <3>1. Owing = Helpers
      BY <1>1 DEF InitStart, IndInv, StartInv, Owing, Owes, Quiescent
    <3> QED
      BY <1>1, <2>1, <3>1, OwingFinite DEF InitStart, IndInv, CountInv, StartInv
  <2>7. QuietInv'
    BY <1>1, <2>1 DEF InitStart, QuietInv, Owing, Helpers
  <2>8. ConsumedInv'
    BY <1>1 DEF InitStart, IndInv, ConsumedInv, DestroyPhase, Active
  <2> QED
    BY <2>2, <2>3, <2>4, <2>5, <2>6, <2>7, <2>8, <1>0 DEF IndInv
<1>2. CASE CreateThread
  <2>1. Owing' = Owing
    <3>1. \A h \in Helpers : Owes(h)' <=> Owes(h)
      BY <1>2 DEF CreateThread, IndInv, Owes, Quiescent, Active, StartInv, ExitInv, DataInv, DestroyPhase, Helpers
    <3> QED
      BY <3>1 DEF Owing
  <2>2. StartInv'
    BY <1>2 DEF CreateThread, IndInv, StartInv, InitPhase, Helpers
  <2>3. ExitInv'
    BY <1>2 DEF CreateThread, IndInv, ExitInv, DestroyPhase
  <2>4. DataInv'
    BY <1>2 DEF CreateThread, IndInv, DataInv, InitPhase, DestroyPhase, LaunchPhase, Quiescent
  <2>5. NoStaleLaunch'
    BY <1>2 DEF CreateThread, IndInv, NoStaleLaunch, InCallback, DataInv
  <2>6. CountInv'
    BY <1>2, <2>1 DEF CreateThread, IndInv, CountInv, DestroyPhase
  <2>7. QuietInv'
    BY <1>2, <2>1 DEF CreateThread, IndInv, QuietInv
  <2>8. ConsumedInv'
    BY <1>2 DEF CreateThread, IndInv, ConsumedInv, DestroyPhase, Active
  <2> QED
    BY <2>2, <2>3, <2>4, <2>5, <2>6, <2>7, <2>8, <1>0 DEF IndInv
<1>3. CASE CreateFails
  <2>1. Owing' = Owing
    <3>1. \A h \in Helpers : Owes(h)' <=> Owes(h)
      BY <1>3 DEF CreateFails, IndInv, Owes, Quiescent, Active, StartInv, ExitInv, DataInv, DestroyPhase, Helpers
    <3> QED
      BY <3>1 DEF Owing
  <2>2. StartInv'
    BY <1>3 DEF CreateFails, IndInv, StartInv, InitPhase, Helpers
  <2>3. ExitInv'
    BY <1>3 DEF CreateFails, IndInv, ExitInv, DestroyPhase
  <2>4. DataInv'
    BY <1>3 DEF CreateFails, IndInv, DataInv, InitPhase, DestroyPhase, LaunchPhase, Quiescent
  <2>5. NoStaleLaunch'
    BY <1>3 DEF CreateFails, IndInv, NoStaleLaunch, InCallback, DataInv
  <2>6. CountInv'
    BY <1>3, <2>1 DEF CreateFails, IndInv, CountInv, DestroyPhase
  <2>7. QuietInv'
    BY <1>3, <2>1 DEF CreateFails, IndInv, QuietInv
  <2>8. ConsumedInv'
    BY <1>3 DEF CreateFails, IndInv, ConsumedInv, DestroyPhase, Active
  <2> QED
    BY <2>2, <2>3, <2>4, <2>5, <2>6, <2>7, <2>8, <1>0 DEF IndInv
<1>4. CASE CreateDone
  <2>1. Owing' = Owing
    <3>1. \A h \in Helpers : Owes(h)' <=> Owes(h)
      BY <1>4 DEF CreateDone, IndInv, Owes, Quiescent, Active, StartInv, ExitInv, DataInv, DestroyPhase, Helpers
    <3> QED
      BY <3>1 DEF Owing
  <2>2. StartInv'
    BY <1>4 DEF CreateDone, IndInv, StartInv, InitPhase, Helpers
  <2>3. ExitInv'
    BY <1>4 DEF CreateDone, IndInv, ExitInv, DestroyPhase
  <2>4. DataInv'
    BY <1>4 DEF CreateDone, IndInv, DataInv, InitPhase, DestroyPhase, LaunchPhase, Quiescent
  <2>5. NoStaleLaunch'
    BY <1>4 DEF CreateDone, IndInv, NoStaleLaunch, InCallback, DataInv
  <2>6. CountInv'
    BY <1>4, <2>1 DEF CreateDone, IndInv, CountInv, DestroyPhase
  <2>7. QuietInv'
    BY <1>4, <2>1 DEF CreateDone, IndInv, QuietInv
  <2>8. ConsumedInv'
    BY <1>4 DEF CreateDone, IndInv, ConsumedInv, DestroyPhase, Active
  <2> QED
    BY <2>2, <2>3, <2>4, <2>5, <2>6, <2>7, <2>8, <1>0 DEF IndInv
<1>5. CASE InitReturn
  <2>0. mRunningCount = 0 => Owing = {}
    BY <1>5, OwingFinite DEF InitReturn, IndInv, CountInv, DestroyPhase
  <2>1. Owing' = Owing
    <3>1. \A h \in Helpers : Owes(h)' <=> Owes(h)
      BY <1>5 DEF InitReturn, IndInv, Owes, Quiescent, Active, StartInv, ExitInv, DataInv, DestroyPhase, Helpers
    <3> QED
      BY <3>1 DEF Owing
  <2>2. StartInv'
    <3>1. \A h \in Helpers : hpc[h] \notin {"none", "siginit"}
      BY <1>5, <2>0 DEF InitReturn, IndInv, StartInv, Owing, Owes, Quiescent
    <3>2. mCount = NumCpu - 1
      BY <1>5, <3>1 DEF InitReturn, IndInv, StartInv, Helpers
    <3> QED
      BY <1>5, <3>1, <3>2 DEF InitReturn, IndInv, StartInv, InitPhase
  <2>3. ExitInv'
    BY <1>5 DEF InitReturn, IndInv, ExitInv, DestroyPhase
  <2>4. DataInv'
    BY <1>5 DEF InitReturn, IndInv, DataInv, InitPhase, DestroyPhase, LaunchPhase, Quiescent
  <2>5. NoStaleLaunch'
    BY <1>5 DEF InitReturn, IndInv, NoStaleLaunch, InCallback, DataInv
  <2>6. CountInv'
    BY <1>5, <2>1 DEF InitReturn, IndInv, CountInv, DestroyPhase
  <2>7. QuietInv'
    BY <1>5, <2>0, <2>1 DEF InitReturn, IndInv, QuietInv
  <2>8. ConsumedInv'
    BY <1>5 DEF InitReturn, IndInv, ConsumedInv, DestroyPhase, Active
  <2> QED
    BY <2>2, <2>3, <2>4, <2>5, <2>6, <2>7, <2>8, <1>0 DEF IndInv
<1>6. CASE InitPoll
  <2>1. Owing' = Owing
    <3>1. \A h \in Helpers : Owes(h)' <=> Owes(h)
      BY <1>6 DEF InitPoll, vars, IndInv, Owes, Quiescent, Active, StartInv, ExitInv, DataInv, DestroyPhase, Helpers
    <3> QED
      BY <3>1 DEF Owing
  <2>2. StartInv'
    BY <1>6 DEF InitPoll, vars, IndInv, StartInv, InitPhase, Helpers
  <2>3. ExitInv'
    BY <1>6 DEF InitPoll, vars, IndInv, ExitInv, DestroyPhase
  <2>4. DataInv'
    BY <1>6 DEF InitPoll, vars, IndInv, DataInv, InitPhase, DestroyPhase, LaunchPhase, Quiescent
  <2>5. NoStaleLaunch'
    BY <1>6 DEF InitPoll, vars, IndInv, NoStaleLaunch, InCallback, DataInv
  <2>6. CountInv'
    BY <1>6, <2>1 DEF InitPoll, vars, IndInv, CountInv, DestroyPhase
  <2>7. QuietInv'
    BY <1>6, <2>1 DEF InitPoll, vars, IndInv, QuietInv
  <2>8. ConsumedInv'
    BY <1>6 DEF InitPoll, vars, IndInv, ConsumedInv, DestroyPhase, Active
  <2> QED
    BY <2>2, <2>3, <2>4, <2>5, <2>6, <2>7, <2>8, <1>0 DEF IndInv
<1>7. CASE SignalNext
  <2>1. Owing' = Owing
    <3>1. \A h \in Helpers : Owes(h)' <=> Owes(h)
      BY <1>7 DEF SignalNext, IndInv, Owes, Quiescent, Active, StartInv, ExitInv, DataInv, DestroyPhase, Helpers
    <3> QED
      BY <3>1 DEF Owing
  <2>2. StartInv'
    BY <1>7 DEF SignalNext, IndInv, StartInv, InitPhase, Helpers
  <2>3. ExitInv'
    BY <1>7 DEF SignalNext, IndInv, ExitInv, DestroyPhase
  <2>4. DataInv'
    BY <1>7 DEF SignalNext, IndInv, DataInv, InitPhase, DestroyPhase, LaunchPhase, Quiescent, Helpers
  <2>5. NoStaleLaunch'
    BY <1>7 DEF SignalNext, IndInv, NoStaleLaunch, InCallback, DataInv
  <2>6. CountInv'
    BY <1>7, <2>1 DEF SignalNext, IndInv, CountInv, DestroyPhase
  <2>7. QuietInv'
    BY <1>7, <2>1 DEF SignalNext, IndInv, QuietInv
  <2>8. ConsumedInv'
    <3>1. \A h \in Helpers : h = ct => hpc[h] \in Quiescent
      BY <1>7 DEF SignalNext, IndInv, DataInv
    <3>2. \A h \in Helpers : h = ct => hpc[h] \notin Active
      BY <3>1 DEF Quiescent, Active
    <3>3. \A h \in Helpers : hpc'[h] \in Active => h # ct /\ h \notin mSet
      BY <1>7, <3>2 DEF SignalNext, IndInv, ConsumedInv, DestroyPhase
    <3> QED
      BY <1>7, <3>3 DEF SignalNext, ConsumedInv
  <2> QED
    BY <2>2, <2>3, <2>4, <2>5, <2>6, <2>7, <2>8, <1>0 DEF IndInv
<1>8. CASE SignalDone
  <2>1. Owing' = Owing
    <3>1. \A h \in Helpers : Owes(h)' <=> Owes(h)
      BY <1>8 DEF SignalDone, IndInv, Owes, Quiescent, Active, StartInv, ExitInv, DataInv, DestroyPhase, Helpers
    <3> QED
      BY <3>1 DEF Owing
  <2>2. StartInv'
    BY <1>8 DEF SignalDone, IndInv, StartInv, InitPhase, Helpers
  <2>3. ExitInv'
    BY <1>8 DEF SignalDone, IndInv, ExitInv, DestroyPhase
  <2>4. DataInv'
    BY <1>8 DEF SignalDone, IndInv, DataInv, InitPhase, DestroyPhase, LaunchPhase, Quiescent
  <2>5. NoStaleLaunch'
    BY <1>8 DEF SignalDone, IndInv, NoStaleLaunch, InCallback, DataInv
  <2>6. CountInv'
    BY <1>8, <2>1 DEF SignalDone, IndInv, CountInv, DestroyPhase
  <2>7. QuietInv'
    BY <1>8, <2>1 DEF SignalDone, IndInv, DataInv, QuietInv
  <2>8. ConsumedInv'
    BY <1>8 DEF SignalDone, IndInv, ConsumedInv, DestroyPhase, Active
  <2> QED
    BY <2>2, <2>3, <2>4, <2>5, <2>6, <2>7, <2>8, <1>0 DEF IndInv
<1>9. CASE CallerFetch
  <2>1. Owing' = Owing
    <3>1. \A h \in Helpers : Owes(h)' <=> Owes(h)
      BY <1>9 DEF CallerFetch, IndInv, Owes, Quiescent, Active, StartInv, ExitInv, DataInv, DestroyPhase, Helpers
    <3> QED
      BY <3>1 DEF Owing
  <2>2. StartInv'
    BY <1>9 DEF CallerFetch, IndInv, StartInv, InitPhase, Helpers
  <2>3. ExitInv'
    BY <1>9 DEF CallerFetch, IndInv, ExitInv, DestroyPhase
  <2>4. DataInv'
    BY <1>9 DEF CallerFetch, IndInv, DataInv, InitPhase, DestroyPhase, LaunchPhase, Quiescent
  <2>5. NoStaleLaunch'
    BY <1>9 DEF CallerFetch, IndInv, NoStaleLaunch, InCallback, DataInv
  <2>6. CountInv'
    BY <1>9, <2>1 DEF CallerFetch, IndInv, CountInv, DestroyPhase
  <2>7. QuietInv'
    BY <1>9, <2>1 DEF CallerFetch, IndInv, QuietInv
  <2>8. ConsumedInv'
    BY <1>9 DEF CallerFetch, IndInv, ConsumedInv, DestroyPhase, Active
  <2> QED
    BY <2>2, <2>3, <2>4, <2>5, <2>6, <2>7, <2>8, <1>0 DEF IndInv
<1>10. CASE CallerKernel
  <2>1. Owing' = Owing
    <3>1. \A h \in Helpers : Owes(h)' <=> Owes(h)
      BY <1>10 DEF CallerKernel, IndInv, Owes, Quiescent, Active, StartInv, ExitInv, DataInv, DestroyPhase, Helpers
    <3> QED
      BY <3>1 DEF Owing
  <2>2. StartInv'
    BY <1>10 DEF CallerKernel, IndInv, StartInv, InitPhase, Helpers
  <2>3. ExitInv'
    BY <1>10 DEF CallerKernel, IndInv, ExitInv, DestroyPhase
  <2>4. DataInv'
    BY <1>10 DEF CallerKernel, IndInv, DataInv, InitPhase, DestroyPhase, LaunchPhase, Quiescent
  <2>5. NoStaleLaunch'
    BY <1>10 DEF CallerKernel, IndInv, NoStaleLaunch, InCallback, DataInv
  <2>6. CountInv'
    BY <1>10, <2>1 DEF CallerKernel, IndInv, CountInv, DestroyPhase
  <2>7. QuietInv'
    BY <1>10, <2>1 DEF CallerKernel, IndInv, QuietInv
  <2>8. ConsumedInv'
    BY <1>10 DEF CallerKernel, IndInv, ConsumedInv, DestroyPhase, Active
  <2> QED
    BY <2>2, <2>3, <2>4, <2>5, <2>6, <2>7, <2>8, <1>0 DEF IndInv
<1>11. CASE Join
  <2>0. mRunningCount = 0 => Owing = {}
    BY <1>11, OwingFinite DEF Join, IndInv, CountInv, DestroyPhase
  <2>1. Owing' = Owing
    <3>1. \A h \in Helpers : Owes(h)' <=> Owes(h)
      BY <1>11 DEF Join, IndInv, Owes, Quiescent, Active, StartInv, ExitInv, DataInv, DestroyPhase, Helpers
    <3> QED
      BY <3>1 DEF Owing
  <2>2. StartInv'
    BY <1>11 DEF Join, IndInv, StartInv, InitPhase, Helpers
  <2>3. ExitInv'
    BY <1>11 DEF Join, IndInv, ExitInv, DestroyPhase
  <2>4. DataInv'
    BY <1>11 DEF Join, IndInv, DataInv, InitPhase, DestroyPhase, LaunchPhase, Quiescent
  <2>5. NoStaleLaunch'
    BY <1>11 DEF Join, IndInv, NoStaleLaunch, InCallback, DataInv
  <2>6. CountInv'
    BY <1>11, <2>1 DEF Join, IndInv, CountInv, DestroyPhase
  <2>7. QuietInv'
    BY <1>11, <2>0, <2>1 DEF Join, IndInv, QuietInv
  <2>8. ConsumedInv'
    BY <1>11 DEF Join, IndInv, ConsumedInv, DestroyPhase, Active
  <2> QED
    BY <2>2, <2>3, <2>4, <2>5, <2>6, <2>7, <2>8, <1>0 DEF IndInv
<1>12. CASE CompleteWait
  <2>1. Owing' = Owing
    <3>1. \A h \in Helpers : Owes(h)' <=> Owes(h)
      BY <1>12 DEF CompleteWait, IndInv, Owes, Quiescent, Active, StartInv, ExitInv, DataInv, DestroyPhase, Helpers
    <3> QED
      BY <3>1 DEF Owing
  <2>2. StartInv'
    BY <1>12 DEF CompleteWait, IndInv, StartInv, InitPhase, Helpers
  <2>3. ExitInv'
    BY <1>12 DEF CompleteWait, IndInv, ExitInv, DestroyPhase
  <2>4. DataInv'
    BY <1>12 DEF CompleteWait, IndInv, DataInv, InitPhase, DestroyPhase, LaunchPhase, Quiescent
  <2>5. NoStaleLaunch'
    BY <1>12 DEF CompleteWait, IndInv, NoStaleLaunch, InCallback, DataInv
  <2>6. CountInv'
    BY <1>12, <2>1 DEF CompleteWait, IndInv, CountInv, DestroyPhase
  <2>7. QuietInv'
    BY <1>12, <2>1 DEF CompleteWait, IndInv, QuietInv
  <2>8. ConsumedInv'
    BY <1>12 DEF CompleteWait, IndInv, ConsumedInv, DestroyPhase, Active
  <2> QED
    BY <2>2, <2>3, <2>4, <2>5, <2>6, <2>7, <2>8, <1>0 DEF IndInv
<1>13. CASE CompleteWake
  <2>1. Owing' = Owing
    <3>1. \A h \in Helpers : Owes(h)' <=> Owes(h)
      BY <1>13 DEF CompleteWake, IndInv, Owes, Quiescent, Active, StartInv, ExitInv, DataInv, DestroyPhase, Helpers
    <3> QED
      BY <3>1 DEF Owing
  <2>2. StartInv'
    BY <1>13 DEF CompleteWake, IndInv, StartInv, InitPhase, Helpers
  <2>3. ExitInv'
    BY <1>13 DEF CompleteWake, IndInv, ExitInv, DestroyPhase
  <2>4. DataInv'
    BY <1>13 DEF CompleteWake, IndInv, DataInv, InitPhase, DestroyPhase, LaunchPhase, Quiescent
  <2>5. NoStaleLaunch'
    BY <1>13 DEF CompleteWake, IndInv, NoStaleLaunch, InCallback, DataInv
  <2>6. CountInv'
    BY <1>13, <2>1 DEF CompleteWake, IndInv, CountInv, DestroyPhase
  <2>7. QuietInv'
    BY <1>13, <2>1 DEF CompleteWake, IndInv, QuietInv
  <2>8. ConsumedInv'
    BY <1>13 DEF CompleteWake, IndInv, ConsumedInv, DestroyPhase, Active
  <2> QED
    BY <2>2, <2>3, <2>4, <2>5, <2>6, <2>7, <2>8, <1>0 DEF IndInv
<1>14. CASE LaunchReturn
  <2>0. \A h \in Helpers : hpc[h] \notin Active /\ (hpc[h] \in Quiescent => h \notin mSet)
    BY <1>14 DEF LaunchReturn, IndInv, QuietInv, Owing, Owes
  <2>1. Owing' = Owing
    <3>1. \A h \in Helpers : Owes(h)' <=> Owes(h)
      BY <1>14 DEF LaunchReturn, IndInv, Owes, Quiescent, Active, StartInv, ExitInv, DataInv, DestroyPhase, Helpers
    <3> QED
      BY <3>1 DEF Owing
  <2>2. StartInv'
    BY <1>14 DEF LaunchReturn, IndInv, StartInv, InitPhase, Helpers
  <2>3. ExitInv'
    BY <1>14 DEF LaunchReturn, IndInv, ExitInv, DestroyPhase
  <2>4. DataInv'
    BY <1>14, <2>0 DEF LaunchReturn, IndInv, DataInv, Active, InitPhase, DestroyPhase, LaunchPhase, Quiescent
  <2>5. NoStaleLaunch'
    BY <1>14, <2>0 DEF LaunchReturn, IndInv, Active, NoStaleLaunch, InCallback, DataInv
  <2>6. CountInv'
    BY <1>14, <2>1 DEF LaunchReturn, IndInv, CountInv, DestroyPhase
  <2>7. QuietInv'
    BY <1>14, <2>1 DEF LaunchReturn, IndInv, QuietInv
  <2>8. ConsumedInv'
    BY <1>14 DEF LaunchReturn, IndInv, ConsumedInv, DestroyPhase, Active
  <2> QED
    BY <2>2, <2>3, <2>4, <2>5, <2>6, <2>7, <2>8, <1>0 DEF IndInv
<1>15. CASE Destroy
  <2>0. \A h \in Helpers : hpc[h] \notin Active /\ (hpc[h] \in Quiescent => h \notin mSet)
    BY <1>15 DEF Destroy, IndInv, QuietInv, Owing, Owes
  <2>1. Owing' = Owing
    <3>1. \A h \in Helpers : Owes(h)' <=> Owes(h)
      BY <1>15 DEF Destroy, IndInv, Owes, Quiescent, Active, StartInv, ExitInv, DataInv, DestroyPhase, Helpers
    <3> QED
      BY <3>1 DEF Owing
  <2>2. StartInv'
    BY <1>15 DEF Destroy, IndInv, StartInv, InitPhase, Helpers
  <2>3. ExitInv'
    BY <1>15 DEF Destroy, IndInv, ExitInv, DestroyPhase
  <2>4. DataInv'
    BY <1>15, <2>0 DEF Destroy, IndInv, DataInv, Active, InitPhase, DestroyPhase, LaunchPhase, Quiescent
  <2>5. NoStaleLaunch'
    BY <1>15, <2>0 DEF Destroy, IndInv, Active, NoStaleLaunch, InCallback, DataInv
  <2>6. CountInv'
    BY <1>15, <2>1 DEF Destroy, IndInv, CountInv, DestroyPhase
  <2>7. QuietInv'
    BY <1>15, <2>1 DEF Destroy, IndInv, QuietInv
  <2>8. ConsumedInv'
    BY <1>15 DEF Destroy, IndInv, ConsumedInv, DestroyPhase, Active
  <2> QED
    BY <2>2, <2>3, <2>4, <2>5, <2>6, <2>7, <2>8, <1>0 DEF IndInv
<1>16. CASE DestroySignal
  <2>1. pc \notin DestroyPhase => Owing' = Owing
    <3>1. pc \notin DestroyPhase => \A h \in Helpers : Owes(h)' <=> Owes(h)
      BY <1>16 DEF DestroySignal, IndInv, Owes, Quiescent, Active, ExitInv, DestroyPhase
    <3> QED
      BY <3>1 DEF Owing
  <2>2. StartInv'
    BY <1>16 DEF DestroySignal, IndInv, StartInv, InitPhase, Helpers
  <2>3. ExitInv'
    BY <1>16 DEF DestroySignal, IndInv, ExitInv, DestroyPhase
  <2>4. DataInv'
    BY <1>16 DEF DestroySignal, IndInv, DataInv, InitPhase, DestroyPhase, LaunchPhase, Quiescent
  <2>5. NoStaleLaunch'
    BY <1>16 DEF DestroySignal, IndInv, NoStaleLaunch, InCallback, DataInv
  <2>6. CountInv'
    BY <1>16, <2>1 DEF DestroySignal, IndInv, CountInv, DestroyPhase
  <2>7. QuietInv'
    BY <1>16, <2>1 DEF DestroySignal, IndInv, QuietInv, DestroyPhase
  <2>8. ConsumedInv'
    BY <1>16 DEF DestroySignal, IndInv, ConsumedInv, DestroyPhase, Active
  <2> QED
    BY <2>2, <2>3, <2>4, <2>5, <2>6, <2>7, <2>8, <1>0 DEF IndInv
<1>17. CASE DestroySignalDone
  <2>1. Owing' = Owing
    <3>1. \A h \in Helpers : Owes(h)' <=> Owes(h)
      BY <1>17 DEF DestroySignalDone, IndInv, Owes, Quiescent, Active, StartInv, ExitInv, DataInv, DestroyPhase, Helpers
    <3> QED
      BY <3>1 DEF Owing
  <2>2. StartInv'
    BY <1>17 DEF DestroySignalDone, IndInv, StartInv, InitPhase, Helpers
  <2>3. ExitInv'
    BY <1>17 DEF DestroySignalDone, IndInv, ExitInv, DestroyPhase
  <2>4. DataInv'
    BY <1>17 DEF DestroySignalDone, IndInv, DataInv, InitPhase, DestroyPhase, LaunchPhase, Quiescent
  <2>5. NoStaleLaunch'
    BY <1>17 DEF DestroySignalDone, IndInv, NoStaleLaunch, InCallback, DataInv
  <2>6. CountInv'
    BY <1>17, <2>1 DEF DestroySignalDone, IndInv, CountInv, DestroyPhase
  <2>7. QuietInv'
    BY <1>17, <2>1 DEF DestroySignalDone, IndInv, QuietInv
  <2>8. ConsumedInv'
    BY <1>17 DEF DestroySignalDone, IndInv, ConsumedInv, DestroyPhase, Active
  <2> QED
    BY <2>2, <2>3, <2>4, <2>5, <2>6, <2>7, <2>8, <1>0 DEF IndInv
<1>18. CASE DestroyJoin
  <2>1. Owing' = Owing
    <3>1. \A h \in Helpers : Owes(h)' <=> Owes(h)
      BY <1>18 DEF DestroyJoin, IndInv, Owes, Quiescent, Active, StartInv, ExitInv, DataInv, DestroyPhase, Helpers
    <3> QED
      BY <3>1 DEF Owing
  <2>2. StartInv'
    BY <1>18 DEF DestroyJoin, IndInv, StartInv, InitPhase, Helpers
  <2>3. ExitInv'
    BY <1>18 DEF DestroyJoin, IndInv, ExitInv, DestroyPhase
  <2>4. DataInv'
    BY <1>18 DEF DestroyJoin, IndInv, DataInv, InitPhase, DestroyPhase, LaunchPhase, Quiescent
  <2>5. NoStaleLaunch'
    BY <1>18 DEF DestroyJoin, IndInv, NoStaleLaunch, InCallback, DataInv
  <2>6. CountInv'
    BY <1>18, <2>1 DEF DestroyJoin, IndInv, CountInv, DestroyPhase
  <2>7. QuietInv'
    BY <1>18, <2>1 DEF DestroyJoin, IndInv, QuietInv
  <2>8. ConsumedInv'
    BY <1>18 DEF DestroyJoin, IndInv, ConsumedInv, DestroyPhase, Active
  <2> QED
    BY <2>2, <2>3, <2>4, <2>5, <2>6, <2>7, <2>8, <1>0 DEF IndInv
<1>19. CASE Terminated
  <2>1. Owing' = Owing
    <3>1. \A h \in Helpers : Owes(h)' <=> Owes(h)
      BY <1>19 DEF Terminated, vars, IndInv, Owes, Quiescent, Active, StartInv, ExitInv, DataInv, DestroyPhase, Helpers
    <3> QED
      BY <3>1 DEF Owing
  <2>2. StartInv'
    BY <1>19 DEF Terminated, vars, IndInv, StartInv, InitPhase, Helpers
  <2>3. ExitInv'
    BY <1>19 DEF Terminated, vars, IndInv, ExitInv, DestroyPhase
  <2>4. DataInv'
    BY <1>19 DEF Terminated, vars, IndInv, DataInv, InitPhase, DestroyPhase, LaunchPhase, Quiescent
  <2>5. NoStaleLaunch'
    BY <1>19 DEF Terminated, vars, IndInv, NoStaleLaunch, InCallback, DataInv
  <2>6. CountInv'
    BY <1>19, <2>1 DEF Terminated, vars, IndInv, CountInv, DestroyPhase
  <2>7. QuietInv'
    BY <1>19, <2>1 DEF Terminated, vars, IndInv, QuietInv
  <2>8. ConsumedInv'
    BY <1>19 DEF Terminated, vars, IndInv, ConsumedInv, DestroyPhase, Active
  <2> QED
    BY <2>2, <2>3, <2>4, <2>5, <2>6, <2>7, <2>8, <1>0 DEF IndInv
<1>20. ASSUME NEW l \in Helpers, HelperStart(l) PROVE IndInv'
  <2>1. Owing' = Owing
    <3>1. \A h \in Helpers : Owes(h)' <=> Owes(h)
      BY <1>20 DEF HelperStart, IndInv, Owes, Quiescent, Active, StartInv, ExitInv, DataInv, DestroyPhase, Helpers
    <3> QED
      BY <3>1 DEF Owing
  <2>2. StartInv'
    BY <1>20 DEF HelperStart, IndInv, StartInv, InitPhase, Helpers
  <2>3. ExitInv'
    BY <1>20 DEF HelperStart, IndInv, ExitInv, DestroyPhase
  <2>4. DataInv'
    BY <1>20 DEF HelperStart, IndInv, DataInv, InitPhase, DestroyPhase, LaunchPhase, Quiescent
  <2>5. NoStaleLaunch'
    BY <1>20 DEF HelperStart, IndInv, NoStaleLaunch, InCallback, DataInv
  <2>6. CountInv'
    BY <1>20, <2>1 DEF HelperStart, IndInv, CountInv, DestroyPhase
  <2>7. QuietInv'
    BY <1>20, <2>1 DEF HelperStart, IndInv, QuietInv
  <2>8. ConsumedInv'
    BY <1>20 DEF HelperStart, IndInv, ConsumedInv, DestroyPhase, Active
  <2> QED
    BY <2>2, <2>3, <2>4, <2>5, <2>6, <2>7, <2>8, <1>0 DEF IndInv
<1>21. ASSUME NEW l \in Helpers, HelperSignalInit(l) PROVE IndInv'
  <2>1. Owing' = Owing
    <3>1. \A h \in Helpers : Owes(h)' <=> Owes(h)
      BY <1>21 DEF HelperSignalInit, IndInv, Owes, Quiescent, Active, StartInv, ExitInv, DataInv, DestroyPhase, Helpers
    <3> QED
      BY <3>1 DEF Owing
  <2>2. StartInv'
    BY <1>21 DEF HelperSignalInit, IndInv, StartInv, InitPhase, Helpers
  <2>3. ExitInv'
    BY <1>21 DEF HelperSignalInit, IndInv, ExitInv, DestroyPhase
  <2>4. DataInv'
    BY <1>21 DEF HelperSignalInit, IndInv, DataInv, InitPhase, DestroyPhase, LaunchPhase, Quiescent
  <2>5. NoStaleLaunch'
    BY <1>21 DEF HelperSignalInit, IndInv, NoStaleLaunch, InCallback, DataInv
  <2>6. CountInv'
    BY <1>21, <2>1 DEF HelperSignalInit, IndInv, CountInv, DestroyPhase
  <2>7. QuietInv'
    BY <1>21, <2>1 DEF HelperSignalInit, IndInv, QuietInv
  <2>8. ConsumedInv'
    BY <1>21 DEF HelperSignalInit, IndInv, ConsumedInv, DestroyPhase, Active
  <2> QED
    BY <2>2, <2>3, <2>4, <2>5, <2>6, <2>7, <2>8, <1>0 DEF IndInv
<1>22. ASSUME NEW l \in Helpers, HelperLoop(l) PROVE IndInv'
  <2>1. pc \notin DestroyPhase => Owing' = Owing
    <3>1. pc \notin DestroyPhase => \A h \in Helpers : Owes(h)' <=> Owes(h)
      BY <1>22 DEF HelperLoop, IndInv, Owes, Quiescent, Active, ExitInv, DestroyPhase
    <3> QED
      BY <3>1 DEF Owing
  <2>2. StartInv'
    BY <1>22 DEF HelperLoop, IndInv, StartInv, InitPhase, Helpers
  <2>3. ExitInv'
    BY <1>22 DEF HelperLoop, IndInv, ExitInv, DestroyPhase
  <2>4. DataInv'
    BY <1>22 DEF HelperLoop, IndInv, ExitInv, DataInv, InitPhase, DestroyPhase, LaunchPhase, Quiescent
  <2>5. NoStaleLaunch'
    BY <1>22 DEF HelperLoop, IndInv, NoStaleLaunch, InCallback, DataInv
  <2>6. CountInv'
    BY <1>22, <2>1 DEF HelperLoop, IndInv, CountInv, DestroyPhase
  <2>7. QuietInv'
    BY <1>22, <2>1 DEF HelperLoop, IndInv, QuietInv, DestroyPhase
  <2>8. ConsumedInv'
    BY <1>22 DEF HelperLoop, IndInv, ConsumedInv, DestroyPhase, Active
  <2> QED
    BY <2>2, <2>3, <2>4, <2>5, <2>6, <2>7, <2>8, <1>0 DEF IndInv
<1>23. ASSUME NEW l \in Helpers, HelperWait(l) PROVE IndInv'
  <2>1. Owing' = Owing
    <3>1. \A h \in Helpers : Owes(h)' <=> Owes(h)
      BY <1>23 DEF HelperWait, IndInv, Owes, Quiescent, Active, StartInv, ExitInv, DataInv, DestroyPhase, Helpers
    <3> QED
      BY <3>1 DEF Owing
  <2>2. StartInv'
    BY <1>23 DEF HelperWait, IndInv, StartInv, InitPhase, Helpers
  <2>3. ExitInv'
    BY <1>23 DEF HelperWait, IndInv, ExitInv, DestroyPhase
  <2>4. DataInv'
    BY <1>23 DEF HelperWait, IndInv, DataInv, InitPhase, DestroyPhase, LaunchPhase, Quiescent
  <2>5. NoStaleLaunch'
    BY <1>23 DEF HelperWait, IndInv, NoStaleLaunch, InCallback, DataInv
  <2>6. CountInv'
    BY <1>23, <2>1 DEF HelperWait, IndInv, CountInv, DestroyPhase
  <2>7. QuietInv'
    BY <1>23, <2>1 DEF HelperWait, IndInv, QuietInv
  <2>8. ConsumedInv'
    BY <1>23 DEF HelperWait, IndInv, ConsumedInv, DestroyPhase, Active
  <2> QED
    BY <2>2, <2>3, <2>4, <2>5, <2>6, <2>7, <2>8, <1>0 DEF IndInv
<1>24. ASSUME NEW l \in Helpers, HelperWake(l) PROVE IndInv'
  <2>1. Owing' = Owing
    <3>1. \A h \in Helpers : Owes(h)' <=> Owes(h)
      BY <1>24, NoSpuriousLaunchWake DEF NoSpuriousLaunchWake, HelperWake, IndInv, Owes, Quiescent, Active, StartInv, ExitInv, DataInv, DestroyPhase, Helpers
    <3> QED
      BY <3>1 DEF Owing
  <2>2. StartInv'
    BY <1>24, NoSpuriousLaunchWake DEF NoSpuriousLaunchWake, HelperWake, IndInv, StartInv, InitPhase, Helpers
  <2>3. ExitInv'
    BY <1>24, NoSpuriousLaunchWake DEF NoSpuriousLaunchWake, HelperWake, IndInv, ExitInv, DestroyPhase
  <2>4. DataInv'
    BY <1>24, NoSpuriousLaunchWake DEF NoSpuriousLaunchWake, HelperWake, IndInv, DataInv, InitPhase, DestroyPhase, LaunchPhase, Quiescent
  <2>5. NoStaleLaunch'
    BY <1>24, NoSpuriousLaunchWake DEF NoSpuriousLaunchWake, HelperWake, IndInv, NoStaleLaunch, InCallback, DataInv
  <2>6. CountInv'
    BY <1>24, <2>1 DEF HelperWake, IndInv, CountInv, DestroyPhase
  <2>7. QuietInv'
    BY <1>24, <2>1 DEF HelperWake, IndInv, QuietInv
  <2>8. ConsumedInv'
    BY <1>24, NoSpuriousLaunchWake DEF NoSpuriousLaunchWake, HelperWake, IndInv, ConsumedInv, DestroyPhase, Active
  <2> QED
    BY <2>2, <2>3, <2>4, <2>5, <2>6, <2>7, <2>8, <1>0 DEF IndInv
<1>25. ASSUME NEW l \in Helpers, HelperCall(l) PROVE IndInv'
  <2>0. mLaunchCallback => pc \in LaunchPhase /\ path = "pool"
    <3>1. l \in Owing
      BY <1>25 DEF HelperCall, Owing, Owes, Active
    <3>2. pc \notin {"idle", "ret"} /\ (pc \in {"walk", "kernel"} => path = "pool")
      BY <3>1 DEF IndInv, QuietInv
    <3> QED
      BY <1>25, <3>2 DEF IndInv, CallerPoints, DataInv, InitPhase, DestroyPhase, LaunchPhase
  <2>1. Owing' = Owing
    <3>1. \A h \in Helpers : Owes(h)' <=> Owes(h)
      BY <1>25 DEF HelperCall, IndInv, Owes, Quiescent, Active, StartInv, ExitInv, DataInv, DestroyPhase, Helpers
    <3> QED
      BY <3>1 DEF Owing
  <2>2. StartInv'
    BY <1>25 DEF HelperCall, IndInv, StartInv, InitPhase, Helpers
  <2>3. ExitInv'
    BY <1>25 DEF HelperCall, IndInv, ExitInv, DestroyPhase
  <2>4. DataInv'
    BY <1>25, <2>0 DEF HelperCall, IndInv, DataInv, InitPhase, DestroyPhase, LaunchPhase, Quiescent
  <2>5. NoStaleLaunch'
    BY <1>25, <2>0 DEF HelperCall, IndInv, NoStaleLaunch, InCallback, DataInv
  <2>6. CountInv'
    BY <1>25, <2>1 DEF HelperCall, IndInv, CountInv, DestroyPhase
  <2>7. QuietInv'
    BY <1>25, <2>1 DEF HelperCall, IndInv, QuietInv
  <2>8. ConsumedInv'
    BY <1>25 DEF HelperCall, IndInv, ConsumedInv, DestroyPhase, Active
  <2> QED
    BY <2>2, <2>3, <2>4, <2>5, <2>6, <2>7, <2>8, <1>0 DEF IndInv
<1>26. ASSUME NEW l \in Helpers, HelperFetch(l) PROVE IndInv'
  <2>1. Owing' = Owing
    <3>1. \A h \in Helpers : Owes(h)' <=> Owes(h)
      BY <1>26 DEF HelperFetch, IndInv, Owes, Quiescent, Active, StartInv, ExitInv, DataInv, DestroyPhase, Helpers
    <3> QED
      BY <3>1 DEF Owing
  <2>2. StartInv'
    BY <1>26 DEF HelperFetch, IndInv, StartInv, InitPhase, Helpers
  <2>3. ExitInv'
    BY <1>26 DEF HelperFetch, IndInv, ExitInv, DestroyPhase
  <2>4. DataInv'
    BY <1>26 DEF HelperFetch, IndInv, DataInv, InitPhase, DestroyPhase, LaunchPhase, Quiescent
  <2>5. NoStaleLaunch'
    BY <1>26 DEF HelperFetch, IndInv, NoStaleLaunch, InCallback, DataInv
  <2>6. CountInv'
    BY <1>26, <2>1 DEF HelperFetch, IndInv, CountInv, DestroyPhase
  <2>7. QuietInv'
    BY <1>26, <2>1 DEF HelperFetch, IndInv, QuietInv
  <2>8. ConsumedInv'
    BY <1>26 DEF HelperFetch, IndInv, ConsumedInv, DestroyPhase, Active
  <2> QED
    BY <2>2, <2>3, <2>4, <2>5, <2>6, <2>7, <2>8, <1>0 DEF IndInv
<1>27. ASSUME NEW l \in Helpers, HelperKernel(l) PROVE IndInv'
  <2>1. Owing' = Owing
    <3>1. \A h \in Helpers : Owes(h)' <=> Owes(h)
      BY <1>27 DEF HelperKernel, IndInv, Owes, Quiescent, Active, StartInv, ExitInv, DataInv, DestroyPhase, Helpers
    <3> QED
      BY <3>1 DEF Owing
  <2>2. StartInv'
    BY <1>27 DEF HelperKernel, IndInv, StartInv, InitPhase, Helpers
  <2>3. ExitInv'
    BY <1>27 DEF HelperKernel, IndInv, ExitInv, DestroyPhase
  <2>4. DataInv'
    BY <1>27 DEF HelperKernel, IndInv, DataInv, InitPhase, DestroyPhase, LaunchPhase, Quiescent
  <2>5. NoStaleLaunch'
    BY <1>27 DEF HelperKernel, IndInv, NoStaleLaunch, InCallback, DataInv
  <2>6. CountInv'
    BY <1>27, <2>1 DEF HelperKernel, IndInv, CountInv, DestroyPhase
  <2>7. QuietInv'
    BY <1>27, <2>1 DEF HelperKernel, IndInv, QuietInv
  <2>8. ConsumedInv'
    BY <1>27 DEF HelperKernel, IndInv, ConsumedInv, DestroyPhase, Active
  <2> QED
    BY <2>2, <2>3, <2>4, <2>5, <2>6, <2>7, <2>8, <1>0 DEF IndInv
<1>28. ASSUME NEW l \in Helpers, HelperDec(l) PROVE IndInv'
  <2>1. pc \notin DestroyPhase => Owing' = Owing \ {l} /\ l \in Owing
    <3>1. pc \notin DestroyPhase => \A h \in Helpers : Owes(h)' <=> Owes(h) /\ h # l
      BY <1>28 DEF HelperDec, IndInv, Owes, Quiescent, Active, StartInv, ExitInv, DataInv, ConsumedInv, DestroyPhase, Helpers
    <3>2. Owes(l)
      BY <1>28 DEF HelperDec, Owes, Active
    <3> QED
      BY <3>1, <3>2 DEF Owing
  <2>2. StartInv'
    BY <1>28 DEF HelperDec, IndInv, StartInv, InitPhase, Helpers
  <2>3. ExitInv'
    BY <1>28 DEF HelperDec, IndInv, ExitInv, DestroyPhase
  <2>4. DataInv'
    BY <1>28 DEF HelperDec, IndInv, DataInv, InitPhase, DestroyPhase, LaunchPhase, Quiescent
  <2>5. NoStaleLaunch'
    BY <1>28 DEF HelperDec, IndInv, NoStaleLaunch, InCallback, DataInv
  <2>6. CountInv'
    <3>1. Cardinality(Owing \ {l}) = IF l \in Owing THEN Cardinality(Owing) - 1 ELSE Cardinality(Owing)
      BY OwingFinite, FS_RemoveElement
    <3>2. pc \notin DestroyPhase => Cardinality(Owing') = Cardinality(Owing) - 1
      BY <2>1, <3>1
    <3> QED
      BY <1>28, <3>2 DEF HelperDec, IndInv, CountInv, DestroyPhase
  <2>7. QuietInv'
    BY <1>28, <2>1 DEF HelperDec, IndInv, QuietInv, DestroyPhase
  <2>8. ConsumedInv'
    BY <1>28 DEF HelperDec, IndInv, ConsumedInv, DestroyPhase, Active
  <2> QED
    BY <2>2, <2>3, <2>4, <2>5, <2>6, <2>7, <2>8, <1>0 DEF IndInv
<1>29. ASSUME NEW l \in Helpers, HelperSet(l) PROVE IndInv'
  <2>1. Owing' = Owing
    <3>1. \A h \in Helpers : Owes(h)' <=> Owes(h)
      BY <1>29 DEF HelperSet, IndInv, Owes, Quiescent, Active, StartInv, ExitInv, DataInv, DestroyPhase, Helpers
    <3> QED
      BY <3>1 DEF Owing
  <2>2. StartInv'
    BY <1>29 DEF HelperSet, IndInv, StartInv, InitPhase, Helpers
  <2>3. ExitInv'
    BY <1>29 DEF HelperSet, IndInv, ExitInv, DestroyPhase
  <2>4. DataInv'
    BY <1>29 DEF HelperSet, IndInv, DataInv, InitPhase, DestroyPhase, LaunchPhase, Quiescent
  <2>5. NoStaleLaunch'
    BY <1>29 DEF HelperSet, IndInv, NoStaleLaunch, InCallback, DataInv
  <2>6. CountInv'
    BY <1>29, <2>1 DEF HelperSet, IndInv, CountInv, DestroyPhase
  <2>7. QuietInv'
    BY <1>29, <2>1 DEF HelperSet, IndInv, QuietInv
  <2>8. ConsumedInv'
    BY <1>29 DEF HelperSet, IndInv, ConsumedInv, DestroyPhase, Active
  <2> QED
    BY <2>2, <2>3, <2>4, <2>5, <2>6, <2>7, <2>8, <1>0 DEF IndInv
<1>30. ASSUME NEW n \in 1 .. MaxSlices, LaunchSerial(n) PROVE IndInv'
  <2>0. \A h \in Helpers : hpc[h] \notin Active /\ (hpc[h] \in Quiescent => h \notin mSet)
    BY <1>30 DEF LaunchSerial, NewLaunch, IndInv, QuietInv, Owing, Owes
  <2>1. Owing' = Owing
    <3>1. \A h \in Helpers : Owes(h)' <=> Owes(h)
      BY <1>30 DEF LaunchSerial, NewLaunch, IndInv, Owes, Quiescent, Active, StartInv, ExitInv, DataInv, DestroyPhase, Helpers
    <3> QED
      BY <3>1 DEF Owing
  <2>2. StartInv'
    BY <1>30 DEF LaunchSerial, NewLaunch, IndInv, StartInv, InitPhase, Helpers
  <2>3. ExitInv'
    BY <1>30 DEF LaunchSerial, NewLaunch, IndInv, ExitInv, DestroyPhase
  <2>4. DataInv'
    BY <1>30, <2>0 DEF LaunchSerial, NewLaunch, IndInv, DataInv, Active, InitPhase, DestroyPhase, LaunchPhase, Quiescent
  <2>5. NoStaleLaunch'
    BY <1>30, <2>0 DEF LaunchSerial, NewLaunch, IndInv, Active, NoStaleLaunch, InCallback, DataInv
  <2>6. CountInv'
    BY <1>30, <2>1 DEF LaunchSerial, NewLaunch, IndInv, CountInv, DestroyPhase
  <2>7. QuietInv'
    BY <1>30, <2>1 DEF LaunchSerial, NewLaunch, IndInv, QuietInv
  <2>8. ConsumedInv'
    BY <1>30 DEF LaunchSerial, NewLaunch, IndInv, ConsumedInv, DestroyPhase, Active
  <2> QED
    BY <2>2, <2>3, <2>4, <2>5, <2>6, <2>7, <2>8, <1>0 DEF IndInv
<1>31. ASSUME NEW n \in 1 .. MaxSlices, LaunchFast(n) PROVE IndInv'
  <2>0. \A h \in Helpers : hpc[h] \notin Active /\ (hpc[h] \in Quiescent => h \notin mSet)
    BY <1>31 DEF LaunchFast, NewLaunch, IndInv, QuietInv, Owing, Owes
  <2>1. Owing' = Owing
    <3>1. \A h \in Helpers : Owes(h)' <=> Owes(h)
      BY <1>31 DEF LaunchFast, NewLaunch, IndInv, Owes, Quiescent, Active, StartInv, ExitInv, DataInv, DestroyPhase, Helpers
    <3> QED
      BY <3>1 DEF Owing
  <2>2. StartInv'
    BY <1>31 DEF LaunchFast, NewLaunch, IndInv, StartInv, InitPhase, Helpers
  <2>3. ExitInv'
    BY <1>31 DEF LaunchFast, NewLaunch, IndInv, ExitInv, DestroyPhase
  <2>4. DataInv'
    BY <1>31, <2>0 DEF LaunchFast, NewLaunch, IndInv, DataInv, Active, InitPhase, DestroyPhase, LaunchPhase, Quiescent
  <2>5. NoStaleLaunch'
    BY <1>31, <2>0 DEF LaunchFast, NewLaunch, IndInv, Active, NoStaleLaunch, InCallback, DataInv
  <2>6. CountInv'
    BY <1>31, <2>1 DEF LaunchFast, NewLaunch, IndInv, CountInv, DestroyPhase
  <2>7. QuietInv'
    BY <1>31, <2>1 DEF LaunchFast, NewLaunch, IndInv, QuietInv
  <2>8. ConsumedInv'
    BY <1>31 DEF LaunchFast, NewLaunch, IndInv, ConsumedInv, DestroyPhase, Active
  <2> QED
    BY <2>2, <2>3, <2>4, <2>5, <2>6, <2>7, <2>8, <1>0 DEF IndInv
<1>32. ASSUME NEW n \in 1 .. MaxSlices, LaunchPool(n) PROVE IndInv'
  <2>0. \A h \in Helpers : hpc[h] \notin Active /\ (hpc[h] \in Quiescent => h \notin mSet)
    BY <1>32 DEF LaunchPool, NewLaunch, IndInv, QuietInv, Owing, Owes
  <2>1. Owing' = Helpers
    BY <1>32 DEF LaunchPool, NewLaunch, Owing, Owes, Helpers
  <2>2. StartInv'
    BY <1>32 DEF LaunchPool, NewLaunch, IndInv, StartInv, InitPhase, Helpers
  <2>3. ExitInv'
    BY <1>32 DEF LaunchPool, NewLaunch, IndInv, ExitInv, DestroyPhase
  <2>4. DataInv'
    <3>1. \A h \in Helpers : hpc[h] \in Quiescent /\ h \notin mSet
      BY <1>32, <2>0 DEF LaunchPool, NewLaunch, IndInv, HelperPoints, ExitInv, DestroyPhase, Quiescent, Active
    <3> QED
      BY <1>32, <3>1 DEF LaunchPool, NewLaunch, IndInv, DataInv, InitPhase, DestroyPhase, LaunchPhase
  <2>5. NoStaleLaunch'
    BY <1>32, <2>0 DEF LaunchPool, NewLaunch, IndInv, Active, NoStaleLaunch, InCallback, DataInv
  <2>6. CountInv'
    BY <1>32, <2>1, OwingFinite DEF LaunchPool, NewLaunch, IndInv, CountInv, StartInv, InitPhase
  <2>7. QuietInv'
    BY <1>32, <2>1 DEF LaunchPool, NewLaunch, IndInv, QuietInv
  <2>8. ConsumedInv'
    BY <1>32 DEF LaunchPool, NewLaunch, IndInv, ConsumedInv, DestroyPhase, Active
  <2> QED
    BY <2>2, <2>3, <2>4, <2>5, <2>6, <2>7, <2>8, <1>0 DEF IndInv
<1>33. CASE UNCHANGED vars
  <2>1. Owing' = Owing
    <3>1. \A h \in Helpers : Owes(h)' <=> Owes(h)
      BY <1>33 DEF vars, IndInv, Owes, Quiescent, Active, StartInv, ExitInv, DataInv, DestroyPhase, Helpers
    <3> QED
      BY <3>1 DEF Owing
  <2>2. StartInv'
    BY <1>33 DEF vars, IndInv, StartInv, InitPhase, Helpers
  <2>3. ExitInv'
    BY <1>33 DEF vars, IndInv, ExitInv, DestroyPhase
  <2>4. DataInv'
    BY <1>33 DEF vars, IndInv, DataInv, InitPhase, DestroyPhase, LaunchPhase, Quiescent
  <2>5. NoStaleLaunch'
    BY <1>33 DEF vars, IndInv, NoStaleLaunch, InCallback, DataInv
  <2>6. CountInv'
    BY <1>33, <2>1 DEF vars, IndInv, CountInv, DestroyPhase
  <2>7. QuietInv'
    BY <1>33, <2>1 DEF vars, IndInv, QuietInv
  <2>8. ConsumedInv'
    BY <1>33 DEF vars, IndInv, ConsumedInv, DestroyPhase, Active
  <2> QED
    BY <2>2, <2>3, <2>4, <2>5, <2>6, <2>7, <2>8, <1>0 DEF IndInv
<1> QED
  BY <1>1, <1>2, <1>3, <1>4, <1>5, <1>6, <1>7, <1>8, <1>9, <1>10, <1>11, <1>12, <1>13, <1>14, <1>15, <1>16, <1>17, <1>18, <1>19, <1>20, <1>21, <1>22, <1>23, <1>24, <1>25, <1>26, <1>27, <1>28, <1>29, <1>30, <1>31, <1>32, <1>33
  DEF Next, InitSteps, HelperStep, LaunchSteps, DestroySteps

(* If a launch signal's wait returns only when signalled, no helper ever   *)
(* runs the walker with a launch whose MTLaunchStruct is gone.             *)
THEOREM StaleLaunchFree ==
  ASSUME NoSpuriousLaunchWake PROVE Spec => []NoStaleLaunch
<1>1. IndInv => NoStaleLaunch
  BY DEF IndInv
<1>2. IndInv /\ [Next]_vars => IndInv'
  BY IndStep
<1> QED
  BY <1>1, <1>2, IndInit, PTL DEF Spec

(* Under the same condition launchThreads and the destructor only set()    *)
(* launch signals that the helpers have init()ed, even if creating threads *)
(* failed.                                                                 *)
THEOREM SignalsInitialised ==
  ASSUME NoSpuriousLaunchWake PROVE Spec => []SignalsReady
<1>1. IndInv => SignalsReady
  BY DEF IndInv, StartInv, SignalsReady, Helpers, InitPhase
<1>2. IndInv /\ [Next]_vars => IndInv'
  BY IndStep
<1> QED
  BY <1>1, <1>2, IndInit, PTL DEF Spec
=============================================================================
