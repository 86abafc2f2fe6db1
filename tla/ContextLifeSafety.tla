--------------------------- MODULE ContextLifeSafety ---------------------------
(***************************************************************************)
(* Proofs about the life of a Context, for every number of commands and    *)
(* every set of steps that may fail: what createContext hands out is       *)
(* running, and, unless the context's thread has reported an error, that   *)
(* thread is gone before the Context is deleted.                           *)
(***************************************************************************)
EXTENDS ContextLife, TLAPS

Looping == {"loop", "poll", "body", "play", "deinit"}
Starting == {"none", "load", "gl", "states", "send", "softsend", "start"}

\* What mRunning and mError say about the thread.
ThreadState ==
  /\ rs \in Starting => ~mRunning
  /\ rs \in Looping => mRunning /\ ~sync
  /\ rs = "send" => mError
  /\ rs = "exited" => mRunning \/ mError
  /\ rs = "deinit" => mExit
  /\ rs = "exited" /\ mRunning /\ ~sync => mExit

\* What the place of the client's thread says about the rest.
ClientState ==
  /\ app \in {"io", "attr", "create"} => rs = "none" /\ ~mError
  /\ app \in {"create", "wait", "join"} => ~sync
  /\ app = "inline" => sync
  /\ app = "check" => (mRunning \/ mError) /\ (sync => rs = "exited")
  /\ app = "created" => mRunning /\ ~mError /\ (sync => rs = "exited")
  /\ app \in {"attr", "create", "wait", "inline", "check", "created"} => sock = "open"
  /\ mExit => app \in {"shutdown", "join", "exit", "gone"}
  /\ freed => app = "gone"

\* Unless an error was reported, a thread that was started and has not exited is
\* one the destructor joins.
Joinable == ~mError =>
  /\ app = "shutdown" => rs = "none" \/ mRunning
  /\ app = "shutdown" /\ sync => rs \in {"none", "exited"}
  /\ app \in {"exit", "gone"} => rs \in {"none", "exited"}

\* The parts of TypeOK: the flags, the places of the two threads, the socket.
FlagTypes == /\ sync \in BOOLEAN /\ graphics \in BOOLEAN /\ mRunning \in BOOLEAN
             /\ mError \in BOOLEAN /\ mExit \in BOOLEAN /\ torn \in BOOLEAN
             /\ freed \in BOOLEAN
PlaceTypes ==
  /\ app \in {"io", "attr", "create", "wait", "inline", "check", "created",
              "shutdown", "join", "exit", "gone"}
  /\ rs \in {"none", "load", "gl", "states", "send", "softsend", "start",
             "loop", "poll", "body", "play", "deinit", "exited"}
  /\ sock \in {"none", "open", "shut"}
QueueTypes == sent \in 0..MaxCmds /\ queue \in 0..sent

LEMMA TypeParts == TypeOK <=> FlagTypes /\ PlaceTypes /\ QueueTypes
  BY Zenon DEF TypeOK, FlagTypes, PlaceTypes, QueueTypes

LEMMA FlagStep == FlagTypes /\ [Next]_vars => FlagTypes'
<1>. USE DEF FlagTypes, flags, state, io
<1>. SUFFICES ASSUME FlagTypes, [Next]_vars PROVE FlagTypes'
  OBVIOUS
<1>1. CASE Client
  BY <1>1, Zenon DEF Client, Fails, InitIO, InitAttr, StartThread, WaitRunning,
     InlineDone, CheckError, Shutdown, Join, Free
<1>2. CASE Thread
  BY <1>2, Zenon DEF Thread, LoadDriver, SetError, InitGL, InitStates, SendError,
     StartLoop, LoopTest, DeinitEGL, Poll, ReadBody, Play
<1>3. CASE Send \/ Destroy \/ Gone \/ UNCHANGED vars
  BY <1>3, Zenon DEF Send, Destroy, Gone, vars
<1>. QED
  BY <1>1, <1>2, <1>3, Zenon DEF Next

LEMMA PlaceStep == PlaceTypes /\ [Next]_vars => PlaceTypes'
<1>. USE DEF PlaceTypes, flags, state, io
<1>. SUFFICES ASSUME PlaceTypes, [Next]_vars PROVE PlaceTypes'
  OBVIOUS
<1>1. CASE Client
  BY <1>1 DEF Client, Fails, InitIO, InitAttr, StartThread, WaitRunning,
     InlineDone, CheckError, Shutdown, Join, Free
<1>2. CASE Thread
  BY <1>2 DEF Thread, LoadDriver, SetError, InitGL, InitStates, SendError,
     StartLoop, LoopTest, DeinitEGL, Poll, ReadBody, Play
<1>3. CASE Send \/ Destroy \/ Gone \/ UNCHANGED vars
  BY <1>3 DEF Send, Destroy, Gone, vars
<1>. QED
  BY <1>1, <1>2, <1>3 DEF Next

LEMMA QueueStep == QueueTypes /\ [Next]_vars => QueueTypes'
<1>. USE CmdAssumption DEF CmdAssumption, QueueTypes, flags, state, io
<1>. SUFFICES ASSUME QueueTypes, [Next]_vars PROVE QueueTypes'
  OBVIOUS
<1>1. CASE Client
  BY <1>1 DEF Client, Fails, InitIO, InitAttr, StartThread, WaitRunning,
     InlineDone, CheckError, Shutdown, Join, Free
<1>2. CASE Thread
  BY <1>2 DEF Thread, LoadDriver, SetError, InitGL, InitStates, SendError,
     StartLoop, LoopTest, DeinitEGL, Poll, ReadBody, Play
<1>3. CASE Send \/ Destroy \/ Gone \/ UNCHANGED vars
  BY <1>3 DEF Send, Destroy, Gone, vars
<1>. QED
  BY <1>1, <1>2, <1>3 DEF Next

\* The variables keep their types; in particular playCoreCommands takes from the
\* socket only commands that were sent.
THEOREM TypeCorrect == Spec => []TypeOK
<1>1. Init => FlagTypes
  BY Zenon DEF Init, FlagTypes
<1>2. Init => PlaceTypes
  BY DEF Init, PlaceTypes
<1>3. Init => QueueTypes
  BY CmdAssumption DEF Init, QueueTypes, CmdAssumption
<1>. QED
  BY <1>1, <1>2, <1>3, FlagStep, PlaceStep, QueueStep, TypeParts, PTL DEF Spec

LEMMA LifeInit == Init => ThreadState /\ ClientState
  BY DEF Init, ThreadState, ClientState, Looping, Starting

LEMMA LifeStep ==
  ASSUME TypeOK, ThreadState, ClientState, [Next]_vars
  PROVE  ThreadState' /\ ClientState'
<1>. USE DEF TypeOK, ThreadState, ClientState, Looping, Starting, flags, state, io
<1>1. CASE \/ Fails("io", "io") \/ InitIO \/ Fails("attr", "attr")
           \/ Fails("create", "create") \/ StartThread
  BY <1>1 DEF Fails, InitIO, StartThread
<1>2. CASE InitAttr
  BY <1>2 DEF InitAttr
<1>3. CASE WaitRunning \/ InlineDone \/ CheckError
  BY <1>3 DEF WaitRunning, InlineDone, CheckError
<1>4. CASE Shutdown \/ Join \/ Free
  BY <1>4 DEF Shutdown, Join, Free
<1>5. CASE \/ LoadDriver \/ InitGL \/ InitStates \/ SendError
  BY <1>5 DEF LoadDriver, InitGL, InitStates, SendError
<1>6. CASE \/ SetError("driver", "load", "send") \/ SetError("gl", "gl", "send")
           \/ SetError("soft", "states", "softsend")
  BY <1>6 DEF SetError
<1>7. CASE StartLoop
  BY <1>7 DEF StartLoop
<1>8. CASE LoopTest \/ DeinitEGL \/ Poll \/ ReadBody \/ Play
  BY <1>8 DEF LoopTest, DeinitEGL, Poll, ReadBody, Play
<1>9. CASE Send \/ Destroy \/ Gone \/ UNCHANGED vars
  BY <1>9 DEF Send, Destroy, Gone, vars
<1>. QED
  BY <1>1, <1>2, <1>3, <1>4, <1>5, <1>6, <1>7, <1>8, <1>9 DEF Next, Client, Thread

\* initContext's poll of mRunning and mError is enough: whichever steps fail, on
\* either thread, a context handed to the client has its socket open, no error,
\* and a thread in its loop.
THEOREM CreatedRuns == Spec => []CreatedIsRunning
<1>1. TypeOK /\ ThreadState /\ ClientState => CreatedIsRunning
  BY DEF TypeOK, ThreadState, ClientState, CreatedIsRunning, Looping, Starting
<1>. QED
  BY <1>1, LifeInit, LifeStep, TypeCorrect, PTL DEF Spec

LEMMA JoinableStep ==
  ASSUME TypeOK, ThreadState, ClientState, Joinable, [Next]_vars
  PROVE  Joinable'
<1>. USE DEF TypeOK, ThreadState, ClientState, Joinable, Looping, Starting, flags, state, io
<1>1. CASE \/ Fails("io", "io") \/ InitIO \/ Fails("attr", "attr")
           \/ Fails("create", "create") \/ StartThread \/ InitAttr
  BY <1>1 DEF Fails, InitIO, StartThread, InitAttr
<1>2. CASE WaitRunning \/ InlineDone \/ CheckError
  BY <1>2 DEF WaitRunning, InlineDone, CheckError
<1>3. CASE Shutdown \/ Join \/ Free
  BY <1>3 DEF Shutdown, Join, Free
<1>4. CASE \/ LoadDriver \/ InitGL \/ InitStates \/ SendError \/ StartLoop
  BY <1>4 DEF LoadDriver, InitGL, InitStates, SendError, StartLoop
<1>5. CASE \/ SetError("driver", "load", "send") \/ SetError("gl", "gl", "send")
           \/ SetError("soft", "states", "softsend")
  BY <1>5 DEF SetError
<1>6. CASE LoopTest \/ DeinitEGL \/ Poll \/ ReadBody \/ Play
  BY <1>6 DEF LoopTest, DeinitEGL, Poll, ReadBody, Play
<1>7. CASE Send \/ Destroy \/ Gone \/ UNCHANGED vars
  BY <1>7 DEF Send, Destroy, Gone, vars
<1>. QED
  BY <1>1, <1>2, <1>3, <1>4, <1>5, <1>6, <1>7 DEF Next, Client, Thread

\* ~Context never ends while the context's thread is running, unless that thread
\* has set mError: whatever else fails, the join that mRunning guards
\* (rsContext.cpp:560) is enough.
THEOREM JoinedBeforeDelete == Spec => []JoinedUnlessError
<1>1. Init => Joinable
  BY DEF Init, Joinable
<1>2. TypeOK /\ ThreadState /\ ClientState /\ Joinable /\ [Next]_vars => Joinable'
  BY JoinableStep
<1>3. TypeOK /\ ClientState /\ Joinable => JoinedUnlessError
  BY DEF TypeOK, ClientState, Joinable, JoinedUnlessError
<1>. QED
  BY <1>1, <1>2, <1>3, LifeInit, LifeStep, TypeCorrect, PTL DEF Spec
================================================================================
