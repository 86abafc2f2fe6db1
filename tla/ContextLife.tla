------------------------------ MODULE ContextLife ------------------------------
(***************************************************************************)
(* The life of a Context: createContext and initContext on the client's    *)
(* thread, Context::threadProc on the context's own thread (or on the      *)
(* client's, for a synchronous context), rsi_ContextDestroy and ~Context.  *)
(* The client learns how the thread's start went by polling mRunning and   *)
(* mError; the thread learns of the end through mExit and the closing of   *)
(* the command socket.                                                     *)
(***************************************************************************)
EXTENDS Naturals

CONSTANTS MayFail,    \* the steps of creation that may fail
          MaxCmds     \* bound: commands a client sends in all

Failures == {"io",      \* socketpair in ThreadIO::init
             "attr",    \* pthread_attr_init
             "create",  \* pthread_create
             "driver",  \* loadDriver, on the context's thread
             "gl",      \* initGLThread, on the context's thread
             "soft"}    \* an error set by the init of a graphics state, which goes on

ASSUME FailAssumption == MayFail \subseteq Failures
ASSUME CmdAssumption == MaxCmds \in Nat

VARIABLES
  sync,      \* mSynchronous
  graphics,  \* mIsGraphicsContext
  app,       \* where the client's thread is
  rs,        \* where the context's thread is, "none" before it exists
  mRunning,
  mError,    \* mError # RS_ERROR_NONE
  mExit,
  sock,      \* the command socket: "none" before init, "open", or "shut"
  sent,      \* commands sent so far
  queue,     \* commands in the socket
  torn,      \* the command being played was read without its data
  freed      \* the Context has been deleted

flags == <<sync, graphics>>
state == <<mRunning, mError, mExit>>
io == <<sock, sent, queue, torn>>
vars == <<flags, app, rs, state, io, freed>>

Init ==
  /\ sync \in BOOLEAN /\ graphics \in BOOLEAN
  /\ app = "io" /\ rs = "none"
  /\ mRunning = FALSE /\ mError = FALSE /\ mExit = FALSE
  /\ sock = "none" /\ sent = 0 /\ queue = 0 /\ torn = FALSE
  /\ freed = FALSE

(***************************************************************************)
(* createContext and initContext, on the client's thread.  A failure       *)
(* leads to "delete rsc", hence to the destructor, at "shutdown".          *)
(***************************************************************************)
Fails(what, where) ==
  what \in MayFail /\ app = where /\ app' = "shutdown" /\ UNCHANGED <<flags, rs, state, io, freed>>

InitIO ==
  /\ app = "io"
  /\ app' = "attr" /\ sock' = "open"
  /\ UNCHANGED <<flags, rs, state, sent, queue, torn, freed>>

InitAttr ==
  /\ app = "attr"
  /\ app' = IF sync THEN "inline" ELSE "create"
  /\ rs' = IF sync THEN "load" ELSE "none"
  /\ UNCHANGED <<flags, state, io, freed>>

StartThread ==
  /\ app = "create"
  /\ app' = "wait" /\ rs' = "load"
  /\ UNCHANGED <<flags, state, io, freed>>

WaitRunning_GivesUp ==
  /\ app = "wait"
  /\ app' = "check"
  /\ UNCHANGED <<flags, rs, state, io, freed>>

\* while (!mRunning && (mError == RS_ERROR_NONE)) usleep(100);
WaitRunning ==
  /\ app = "wait" /\ (mRunning \/ mError)
  /\ app' = "check"
  /\ UNCHANGED <<flags, rs, state, io, freed>>

\* A synchronous context ran threadProc on the client's own thread.
InlineDone ==
  /\ app = "inline" /\ rs = "exited"
  /\ app' = "check"
  /\ UNCHANGED <<flags, rs, state, io, freed>>

CheckError ==
  /\ app = "check"
  /\ app' = IF mError THEN "shutdown" ELSE "created"
  /\ UNCHANGED <<flags, rs, state, io, freed>>

(***************************************************************************)
(* Context::threadProc.                                                    *)
(***************************************************************************)
LoadDriver ==
  /\ rs = "load"
  /\ rs' = IF graphics THEN "gl" ELSE "start"
  /\ UNCHANGED <<flags, app, state, io, freed>>

InitGL ==
  /\ rs = "gl" /\ rs' = "states"
  /\ UNCHANGED <<flags, app, state, io, freed>>

\* setError sets mError, then sends the client a message through mIO; the
\* thread that failed returns, the one with a soft error goes on.
SetError(what, where, then) ==
  /\ what \in MayFail /\ rs = where
  /\ mError' = TRUE /\ rs' = then
  /\ UNCHANGED <<flags, app, mRunning, mExit, io, freed>>

SendError ==
  /\ rs \in {"send", "softsend"}
  /\ rs' = IF rs = "send" THEN "exited" ELSE "start"
  /\ UNCHANGED <<flags, app, state, io, freed>>

InitStates ==
  /\ rs = "states" /\ rs' = "start"
  /\ UNCHANGED <<flags, app, state, io, freed>>

StartLoop ==
  /\ rs = "start" /\ mRunning' = TRUE
  /\ rs' = IF sync THEN "exited" ELSE "loop"
  /\ UNCHANGED <<flags, app, mError, mExit, io, freed>>

LoopTest_Forever ==
  /\ rs = "loop"
  /\ rs' = "poll"
  /\ UNCHANGED <<flags, app, state, io, freed>>

\* while (!rsc->mExit), and the EGL cleanup after it
LoopTest ==
  /\ rs = "loop"
  /\ rs' = IF ~mExit THEN "poll" ELSE IF graphics THEN "deinit" ELSE "exited"
  /\ UNCHANGED <<flags, app, state, io, freed>>

DeinitEGL ==
  /\ rs = "deinit" /\ rs' = "exited"
  /\ UNCHANGED <<flags, app, state, io, freed>>

\* playCoreCommands: poll returns for a command or for the closed socket.  A
\* read of a closed socket returns 0, and a header of 0 bytes ends the loop.
Poll ==
  /\ rs = "poll" /\ (queue > 0 \/ sock = "shut")
  /\ rs' = IF sock = "shut" THEN "loop" ELSE "body"
  /\ queue' = IF sock = "shut" THEN queue ELSE queue - 1
  /\ UNCHANGED <<flags, app, state, sock, sent, torn, freed>>

\* The result of the second read, of the command's data, is not looked at.
ReadBody ==
  /\ rs = "body" /\ rs' = "play"
  /\ torn' = (sock = "shut")
  /\ UNCHANGED <<flags, app, state, sock, sent, queue, freed>>

Play ==
  /\ rs = "play" /\ rs' = "loop" /\ torn' = FALSE
  /\ UNCHANGED <<flags, app, state, sock, sent, queue, freed>>

(***************************************************************************)
(* The client uses the context and destroys it.                            *)
(***************************************************************************)
\* A command for an asynchronous context goes to the socket; a synchronous
\* context runs it in the call.
Send ==
  /\ app = "created" /\ sent < MaxCmds
  /\ sent' = sent + 1
  /\ queue' = IF sync THEN queue ELSE queue + 1
  /\ UNCHANGED <<flags, app, rs, state, sock, torn, freed>>

Destroy_NoExit ==
  /\ app = "created"
  /\ app' = "shutdown"
  /\ UNCHANGED <<flags, rs, state, io, freed>>

\* rsi_ContextDestroy: destroyWorkerThreadResources ends with mExit = true.
\* Nothing in it waits for the commands still in the socket.  The Java and C++
\* clients call finish() before it, but an ObjDestroy sent by a finalizer after
\* that is such a command.
Destroy ==
  /\ app = "created"
  /\ app' = "shutdown" /\ mExit' = TRUE
  /\ UNCHANGED <<flags, rs, mRunning, mError, io, freed>>

\* ~Context: mIO.shutdown().  When ThreadIO::init failed the descriptors it
\* closes were never opened; what that does to the process is not modelled.
Shutdown ==
  /\ app = "shutdown"
  /\ app' = IF ~sync /\ mRunning THEN "join" ELSE "exit"
  /\ sock' = "shut"
  /\ UNCHANGED <<flags, rs, state, sent, queue, torn, freed>>

Join_NoWait ==
  /\ app = "join"
  /\ app' = "exit"
  /\ UNCHANGED <<flags, rs, state, io, freed>>

Join ==
  /\ app = "join" /\ rs = "exited"
  /\ app' = "exit"
  /\ UNCHANGED <<flags, rs, state, io, freed>>

\* rsAssert(mExit), shutdownDriver, and the end of "delete rsc"
Free ==
  /\ app = "exit"
  /\ app' = "gone" /\ freed' = TRUE
  /\ UNCHANGED <<flags, rs, state, io>>

Gone == app = "gone" /\ UNCHANGED vars

Client == \/ Fails("io", "io") \/ InitIO
          \/ Fails("attr", "attr") \/ InitAttr
          \/ Fails("create", "create") \/ StartThread
          \/ WaitRunning \/ InlineDone \/ CheckError
          \/ Shutdown \/ Join \/ Free

Thread == \/ LoadDriver \/ SetError("driver", "load", "send")
          \/ InitGL \/ SetError("gl", "gl", "send")
          \/ InitStates \/ SetError("soft", "states", "softsend")
          \/ SendError \/ StartLoop
          \/ LoopTest \/ DeinitEGL \/ Poll \/ ReadBody \/ Play

Next == Client \/ Thread \/ Send \/ Destroy \/ Gone

\* The scheduler runs each of the two threads; whether and when the client
\* sends a command or destroys the context is its own affair.
Spec == Init /\ [][Next]_vars /\ WF_vars(Client) /\ WF_vars(Thread)

(***************************************************************************)
(* Properties.                                                             *)
(***************************************************************************)
\* Types, and the bound on the commands.
TypeOK ==
  /\ sync \in BOOLEAN /\ graphics \in BOOLEAN
  /\ app \in {"io", "attr", "create", "wait", "inline", "check", "created",
              "shutdown", "join", "exit", "gone"}
  /\ rs \in {"none", "load", "gl", "states", "send", "softsend", "start",
             "loop", "poll", "body", "play", "deinit", "exited"}
  /\ mRunning \in BOOLEAN /\ mError \in BOOLEAN /\ mExit \in BOOLEAN
  /\ sock \in {"none", "open", "shut"}
  /\ sent \in 0..MaxCmds /\ queue \in 0..sent
  /\ torn \in BOOLEAN /\ freed \in BOOLEAN

\* ~Context does not finish while the context's thread is still running code
\* of that context (rsContext.cpp:560 joins it).
NoUseAfterDelete == freed => rs \in {"none", "exited"}

\* The same, unless the context's thread has reported an error: the join that
\* mRunning guards covers every context that was created, and every failure of
\* the client's own steps (rsContext.cpp:560).
JoinedUnlessError == freed /\ ~mError => rs \in {"none", "exited"}

\* What createContext hands out works: its socket is open, no error is set,
\* and the thread that plays its commands is in its loop (rsContext.cpp:540).
CreatedIsRunning ==
  app = "created" => /\ mRunning /\ ~mError /\ ~mExit /\ sock = "open"
                     /\ IF sync THEN rs = "exited"
                                ELSE rs \in {"loop", "poll", "body", "play"}

\* A command is played without its data (the second read of playCoreCommands
\* found the socket closed, rsThreadIO.cpp:135) only when the context is at its
\* end, and no further command will be played.
TornIsLast == torn => (mExit \/ mError) /\ sock = "shut"

\* createContext returns, with a context or without one, whatever fails
\* (rsContext.cpp:540); the exception is an error set by the start-up of a
\* graphics state, which goes on: then ~Context joins a thread nobody told to
\* exit.
CreateReturns ==
  (app = "io") ~> (app \in {"created", "gone"} \/ (mError /\ mRunning))

\* rsContextDestroy returns: the context's thread notices mExit and the closed
\* socket wherever it was, and pthread_join returns.
DestroyReturns == mExit ~> freed

\* Creation and destruction of a context both return (Context::createContext,
\* rsi_ContextDestroy).
CallsReturn == CreateReturns /\ DestroyReturns

================================================================================
