---------------------------- MODULE CommandFifo -----------------------------
(***************************************************************************)
(* Commands from the client to the context's thread: the stubs and         *)
(* playback functions rsg_generator.c writes for rs.spec, ThreadIO's       *)
(* mToCore socket, playCoreCommands, and the handwritten ObjDestroy that   *)
(* finalizer threads call outside the client's lock.                       *)
(*                                                                         *)
(* A call is of one of the forms the generator tells apart:                *)
(*   plain   no pointer, no result: nobody waits                           *)
(*   data    const pointers only: data shorter than MaxInline bytes is     *)
(*           copied into the command, longer data is passed by address     *)
(*   sync    "sync" in rs.spec, or a pointer that cannot be inlined        *)
(*   ret     returns a value                                               *)
(*   destroy ObjDestroy, written by LF_ObjDestroy_handcode                 *)
(* The socket holds a header and a body per command.                       *)
(***************************************************************************)
EXTENDS Integers, Sequences, FiniteSets

CONSTANTS
  Apps,          \* threads that call under the RenderScript object's monitor
  Finalizers,    \* threads that only call ObjDestroy, without it
  MaxCalls,      \* bound on the calls of one thread
  MaxInline,     \* mMaxInlineSize
  CmdSize,       \* sizeof(RS_CMD_...)
  HdrSize,       \* sizeof(CoreCmdHeader)
  BufSize,       \* size of mSendBuffer and of playCoreCommands' buf
  DataSizes,     \* lengths of the data passed to "data" calls
  Cap,           \* tokens the socket buffer holds
  Vsync          \* TRUE when playCoreCommands gets a second descriptor

ASSUME SizesAssumption ==
  /\ MaxInline \in Nat /\ CmdSize \in Nat \ {0} /\ HdrSize \in Nat
  /\ BufSize \in Nat /\ DataSizes \subseteq Nat /\ Vsync \in BOOLEAN
  /\ HdrSize + CmdSize + MaxInline <= BufSize
ASSUME ThreadsAssumption == Apps \cap Finalizers = {} /\ MaxCalls \in Nat

Threads == Apps \cup Finalizers
NoThread == "nobody"
Call == [form : {"plain", "sync", "ret"}, data : {0}, from : Apps,
         n : 1 .. MaxCalls]
        \cup [form : {"data"}, data : DataSizes, from : Apps, n : 1 .. MaxCalls]
        \cup [form : {"destroy"}, data : {0}, from : Finalizers,
              n : 1 .. MaxCalls]
NoCall == [form |-> "none", data |-> 0, from |-> NoThread, n |-> 0]

\* What coreHeader and the stub put into mSendBuffer for a call.
Inlined(c) == c.form = "data" /\ c.data < MaxInline
Command(c) ==
  [call |-> c, bytes |-> CmdSize + IF Inlined(c) THEN c.data ELSE 0,
   ptr |-> c.form = "data" /\ c.data > 0 /\ ~Inlined(c)]
NoCommand == [call |-> NoCall, bytes |-> 0, ptr |-> FALSE]

\* A bug: the stub waits for data that exceeds the limit, not for data that
\* reaches it.
Waits_OffByOne(c) == \/ c.form \in {"sync", "ret"}
                     \/ c.form = "data" /\ c.data > MaxInline

\* The stub calls coreGetReturn.
Waits(c) == \/ c.form \in {"sync", "ret"}
            \/ c.form = "data" /\ c.data >= MaxInline

\* A bug: the playback function replies whenever there is data.
Replies_AnyData(cmd) == \/ cmd.call.form \in {"sync", "ret"}
                        \/ cmd.call.form = "data" /\ cmd.call.data # 0

\* The playback function calls coreSetReturn: it goes by the command's size.
Replies(cmd) ==
  \/ cmd.call.form \in {"sync", "ret"}
  \/ cmd.call.form = "data" /\ cmd.call.data # 0 /\ cmd.bytes = CmdSize

VARIABLES
  monitor,   \* thread inside a synchronized method of the RenderScript object
  tpc, call, \* each thread's control point and current call
  calls,     \* calls each thread has made
  sendBuf,   \* mSendBuffer
  sock,      \* mToCore, client to core
  replies,   \* mToCore, core to client
  result,    \* what a thread's coreGetReturn delivered
  rpc,       \* control point of the context's thread
  buf,       \* playCoreCommands' buf: header and body
  block,     \* waitTime is -1
  vsync      \* the second descriptor is readable

clientVars == <<monitor, tpc, call, calls, sendBuf, result>>
coreVars   == <<rpc, buf, block>>
vars == <<monitor, tpc, call, calls, sendBuf, sock, replies, result, rpc, buf,
          block, vsync>>

Init ==
  /\ monitor = NoThread
  /\ tpc = [t \in Threads |-> "out"] /\ call = [t \in Threads |-> NoCall]
  /\ calls = [t \in Threads |-> 0] /\ result = [t \in Threads |-> NoCall]
  /\ sendBuf = NoCommand
  /\ sock = <<>> /\ replies = <<>>
  /\ rpc = "poll" /\ buf = [header |-> NoCommand, body |-> NoCommand]
  /\ block = TRUE /\ vsync = FALSE

Tokens(cmd) == <<[part |-> "header", cmd |-> cmd], [part |-> "body", cmd |-> cmd]>>
Room(k) == Len(sock) + k <= Cap

-----------------------------------------------------------------------------
(* A client thread inside a synchronized API method. *)

Enter(t) ==
  /\ tpc[t] = "out" /\ monitor = NoThread /\ calls[t] < MaxCalls
  /\ monitor' = t
  /\ \E c \in Call : /\ c.from = t /\ c.n = calls[t] + 1
                     /\ call' = [call EXCEPT ![t] = c]
  /\ calls' = [calls EXCEPT ![t] = @ + 1]
  /\ tpc' = [tpc EXCEPT ![t] = "build"]
  /\ UNCHANGED <<sendBuf, sock, replies, result, coreVars, vsync>>

\* coreHeader, and the copying of the parameters.
Build(t) ==
  /\ tpc[t] = "build"
  /\ sendBuf' = Command(call[t])
  /\ tpc' = [tpc EXCEPT ![t] = "commit"]
  /\ UNCHANGED <<monitor, call, calls, sock, replies, result, coreVars, vsync>>

\* coreCommit: one send() of the whole command.
Commit(t) ==
  /\ tpc[t] = "commit" /\ Room(2)
  /\ sock' = sock \o Tokens(sendBuf)
  /\ tpc' = [tpc EXCEPT ![t] = IF Waits(call[t]) THEN "wait" ELSE "leave"]
  /\ UNCHANGED <<monitor, call, calls, sendBuf, replies, result, coreVars, vsync>>

\* coreGetReturn.
GetReturn(t) ==
  /\ tpc[t] = "wait" /\ replies # <<>>
  /\ result' = [result EXCEPT ![t] = Head(replies)]
  /\ replies' = Tail(replies)
  /\ tpc' = [tpc EXCEPT ![t] = "leave"]
  /\ UNCHANGED <<monitor, call, calls, sendBuf, sock, coreVars, vsync>>

\* The method returns; the caller may free the data it passed.
Leave(t) ==
  /\ tpc[t] = "leave"
  /\ monitor' = NoThread
  /\ call' = [call EXCEPT ![t] = NoCall]
  /\ result' = [result EXCEPT ![t] = NoCall]
  /\ tpc' = [tpc EXCEPT ![t] = "out"]
  /\ UNCHANGED <<calls, sendBuf, sock, replies, coreVars, vsync>>

\* LF_ObjDestroy_handcode: coreWrite of a command built on the stack.
ObjDestroy(f) ==
  /\ calls[f] < MaxCalls /\ Room(2)
  /\ calls' = [calls EXCEPT ![f] = @ + 1]
  /\ sock' = sock \o Tokens(Command([form |-> "destroy", data |-> 0, from |-> f,
                                     n |-> calls[f] + 1]))
  /\ UNCHANGED <<monitor, tpc, call, sendBuf, replies, result, coreVars, vsync>>

-----------------------------------------------------------------------------
(* The context's thread: playCoreCommands, called over and over. *)

PollCommand ==
  /\ rpc = "poll" /\ sock # <<>>
  /\ rpc' = "header"
  /\ UNCHANGED <<clientVars, sock, replies, buf, block, vsync>>

\* A bug: a readable second descriptor ends the loop even when a command waits,
\* and the caller renders before it looks at the commands again.
PollOther_VsyncFirst ==
  /\ rpc = "poll"
  /\ vsync \/ ~block
  /\ rpc' = "render"
  /\ UNCHANGED <<clientVars, sock, replies, buf, block, vsync>>

\* No command is there: poll() times out, or only the second descriptor is
\* readable.
PollOther ==
  /\ rpc = "poll" /\ sock = <<>>
  /\ vsync \/ ~block
  /\ rpc' = "render"
  /\ UNCHANGED <<clientVars, sock, replies, buf, block, vsync>>

ReadHeader ==
  /\ rpc = "header" /\ sock # <<>>
  /\ buf' = [buf EXCEPT !.header = Head(sock).cmd]
  /\ sock' = Tail(sock)
  /\ rpc' = "body"
  /\ UNCHANGED <<clientVars, replies, block, vsync>>

ReadBody ==
  /\ rpc = "body" /\ sock # <<>>
  /\ buf' = [buf EXCEPT !.body = Head(sock).cmd]
  /\ sock' = Tail(sock)
  /\ rpc' = "play"
  /\ UNCHANGED <<clientVars, replies, block, vsync>>

\* A bug: the reply is sent before the command runs.
Play_RepliesFirst ==
  /\ rpc = "play"
  /\ IF Replies(buf.body) /\ replies = <<>>
       THEN replies' = Append(replies, buf.body.call) /\ UNCHANGED <<rpc, block>>
       ELSE rpc' = "poll" /\ block' = (block /\ Vsync) /\ UNCHANGED replies
  /\ UNCHANGED <<clientVars, sock, buf, vsync>>

\* gPlaybackFuncs[cmdID]: run the command and reply if its stub waits.
Play ==
  /\ rpc = "play"
  /\ replies' = IF Replies(buf.body) THEN Append(replies, buf.body.call)
                                     ELSE replies
  /\ block' = (block /\ Vsync)
  /\ rpc' = "poll"
  /\ UNCHANGED <<clientVars, sock, buf, vsync>>

\* playCoreCommands has returned; threadProc draws a frame, if it draws, and
\* calls it again.
Render ==
  /\ rpc = "render"
  /\ block' = TRUE /\ vsync' = FALSE
  /\ buf' = [header |-> NoCommand, body |-> NoCommand]
  /\ rpc' = "poll"
  /\ UNCHANGED <<clientVars, sock, replies>>

VsyncArrives ==
  /\ Vsync /\ ~vsync
  /\ vsync' = TRUE
  /\ UNCHANGED <<clientVars, sock, replies, coreVars>>

\* Everything that was called has run, and the context's thread waits in poll().
Idle ==
  /\ \A t \in Threads : tpc[t] = "out" /\ calls[t] = MaxCalls
  /\ rpc = "poll" /\ block /\ sock = <<>>
  /\ UNCHANGED vars

CallStep(t) == Build(t) \/ Commit(t) \/ GetReturn(t) \/ Leave(t)
CoreStep == PollCommand \/ PollOther \/ ReadHeader \/ ReadBody \/ Play \/ Render
Next == \/ \E t \in Apps : Enter(t) \/ CallStep(t)
        \/ \E f \in Finalizers : ObjDestroy(f)
        \/ CoreStep \/ VsyncArrives \/ Idle

Spec == Init /\ [][Next]_vars

\* A thread inside a call goes on, and so does the context's thread.  Nobody
\* has to make a call, and no vsync has to arrive.  Committing is strongly fair:
\* the kernel wakes a sender for whom there is room, and finalizers that fill
\* the socket again cannot keep it out for ever.
FairSpec == /\ Spec
            /\ \A t \in Apps : WF_vars(CallStep(t)) /\ SF_vars(Commit(t))
            /\ WF_vars(CoreStep)

-----------------------------------------------------------------------------
(* Properties. *)

Commands == {Command(c) : c \in Call} \cup {NoCommand}

\* Threads, buffers and sockets keep their types, and every command fits the
\* buffers on both sides.
TypeOK ==
  /\ monitor \in Apps \cup {NoThread}
  /\ tpc \in [Threads -> {"out", "build", "commit", "wait", "leave"}]
  /\ call \in [Threads -> Call \cup {NoCall}]
  /\ result \in [Threads -> Call \cup {NoCall}]
  /\ sendBuf \in Commands /\ HdrSize + sendBuf.bytes <= BufSize
  /\ Len(sock) <= Cap /\ \A i \in DOMAIN sock : sock[i].cmd \in Commands
  /\ replies \in Seq(Call)
  /\ rpc \in {"poll", "render", "header", "body", "play"}
  /\ buf.header \in Commands /\ buf.body \in Commands
  /\ block \in BOOLEAN /\ vsync \in BOOLEAN

\* The command that is played is the one its header announced, whole: the
\* finalizers' commands never land inside another thread's.
PlaysWholeCommands == rpc = "play" => buf.header = buf.body

\* While a command that refers to the caller's memory is played, the caller
\* is still inside that call, waiting.
PointerValid ==
  rpc = "play" /\ buf.body.ptr =>
    LET c == buf.body.call IN call[c.from] = c /\ tpc[c.from] = "wait"

\* What playCoreCommands plays is a whole command whose pointers are valid, and
\* neither the sockets nor mSendBuffer is ever overfull.
CommandsValid == TypeOK /\ PlaysWholeCommands /\ PointerValid

\* A call that waits gets the reply to its own command, and no reply is left
\* for a later call to take by mistake.
OwnReply ==
  /\ \A t \in Apps : tpc[t] = "leave" /\ Waits(call[t]) => result[t] = call[t]
  /\ monitor = NoThread => replies = <<>>

\* Every call returns, even when it had to wait for the socket or for a reply.
CallReturns == \A t \in Apps : (tpc[t] # "out") ~> (tpc[t] = "out")

\* The commands the context's thread still has to run, in order.
Pending ==
  LET ahead == IF rpc \in {"body", "play"} THEN <<buf.header.call>> ELSE <<>>
      heads == SelectSeq(sock, LAMBDA k : k.part = "header")
  IN  ahead \o [i \in DOMAIN heads |-> heads[i].cmd.call]

From(c) == c.from

AbstractState(t) ==
  CASE tpc[t] = "wait" /\ replies = <<>> -> "waiting"
    [] tpc[t] = "wait" /\ replies # <<>> -> "answered"
    [] OTHER -> "out"

Queue == INSTANCE CommandQueue
           WITH Calls <- Call, queue <- Pending,
                state <- [t \in Threads |-> AbstractState(t)]

\* The FIFO implements CommandQueue: every command runs once, in the order of
\* the commits, and every call that waits is answered after its command ran.
RefinesQueue == Queue!QSpec
=============================================================================
