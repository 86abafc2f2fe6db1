--------------------------- MODULE MessageChannel ---------------------------
(***************************************************************************)
(* Messages from the runtime to the client: Context::sendMessageToClient,  *)
(* the mToClient socket of ThreadIO, and the message threads of the C++    *)
(* client (cpp/RenderScript.cpp) and of the Java support library           *)
(* (RenderScript.java), from start-up to the client's destructor.          *)
(*                                                                         *)
(* The socket carries one token per send(): a message's header, then its   *)
(* payload if it has one.  A message names its sender and its number, and  *)
(* has a size class: 0 no payload, 1 a payload every receive buffer        *)
(* starts out large enough for, 2 a larger payload.                        *)
(***************************************************************************)
EXTENDS Integers, Sequences, SequencesExt

CONSTANTS
  Clients,       \* the client libraries: subset of {"cpp", "java"}
  Senders,       \* threads that send (command thread, kernel lanes)
  MaxMsgs,       \* per client: bound on the messages of one sender
  UserSizes,     \* sizes of the messages scripts send
  ErrorSizes,    \* sizes of the messages setError sends
  Cap,           \* per client: tokens the socket buffer holds
  MessageFunc, ErrorFunc  \* TRUE when the client installed that handler

ASSUME ClientAssumption == Clients \subseteq {"cpp", "java"}
ASSUME SizesAssumption == UserSizes \subseteq 0 .. 2 /\ ErrorSizes \subseteq 0 .. 2
ASSUME BoundsAssumption == MaxMsgs \in [Clients -> 1 .. 9] /\ Cap \in [Clients -> Nat \ {0}]

NoSender == "none"
NoMsg    == [kind |-> "none", size |-> 0]      \* RS_MESSAGE_TO_CLIENT_NONE
Garbage  == [kind |-> "garbage", size |-> 0]   \* payload bytes read as header
Stray    == [kind |-> "user", size |-> 0]      \* what fresh memory may look like
Numbers  == UNION {1 .. MaxMsgs[c] : c \in Clients}
Message  == [kind : {"user", "error"}, size : 0 .. 2, from : Senders, n : Numbers]
Sendable == {m \in Message : m.size \in IF m.kind = "user" THEN UserSizes
                                                         ELSE ErrorSizes}
Token    == [part : {"header", "payload"}, msg : Message]

VARIABLES
  client,    \* whose message thread and teardown, constant
  lock,      \* holder of gMessageMutex
  spc, cur,  \* each sender's control point and current message
  sent,      \* messages each sender has begun
  sock,      \* the bytes in flight in mToClient
  shut,      \* mToClient.mShutdown; its descriptors are closed
  run,       \* mMessageRun (C++), mRun (Java)
  tpc,       \* control point of the message thread
  hdr,       \* mLastClientHeader
  type,      \* what ContextPeekMessage returned
  rbuf,      \* the message whose payload the receive buffer holds
  grown,     \* TRUE once the receive buffer has been enlarged
  cpc,       \* control point of the thread that owns the client object
  wire,      \* history: messages in the order their headers were sent
  got,       \* history: messages dispatched for the first time, in order
  phantom    \* history: messages dispatched without having been received

sendVars == <<lock, spc, cur, sent, wire>>
readVars == <<tpc, hdr, type, rbuf, grown, got, phantom>>
vars == <<client, lock, spc, cur, sent, sock, shut, run, tpc, hdr, type, rbuf,
          grown, cpc, wire, got, phantom>>

Init ==
  /\ client \in Clients
  /\ lock = NoSender
  /\ spc = [s \in Senders |-> "idle"] /\ cur = [s \in Senders |-> NoMsg]
  /\ sent = [s \in Senders |-> 0]
  /\ sock = <<>> /\ shut = FALSE
  /\ run = (client = "java")
  /\ tpc = "none" /\ hdr \in {NoMsg, Stray} \* never initialised
  /\ type = NoMsg /\ rbuf = NoMsg
  /\ grown = FALSE
  /\ cpc = "new"
  /\ wire = <<>> /\ got = <<>> /\ phantom = {}

-----------------------------------------------------------------------------
(* The senders.  The runtime stops sending once ContextFinish has replied. *)

\* sendMessageToClient takes gMessageMutex.
LockMessage(s) ==
  /\ cpc \in {"up", "finish"}
  /\ spc[s] = "idle" /\ sent[s] < MaxMsgs[client] /\ lock = NoSender
  /\ lock' = s
  /\ sent' = [sent EXCEPT ![s] = @ + 1]
  /\ \E m \in Sendable :
       m.from = s /\ m.n = sent[s] + 1 /\ cur' = [cur EXCEPT ![s] = m]
  /\ spc' = [spc EXCEPT ![s] = "header"]
  /\ UNCHANGED <<sock, shut, run, readVars, cpc, wire>>

\* sendToClient ends, and sendMessageToClient gives up gMessageMutex.
SendDone(s) ==
  /\ spc' = [spc EXCEPT ![s] = "idle"]
  /\ lock' = NoSender

\* A bug: the mutex is only held for the header.
SendHeader_Unlocked(s) ==
  /\ spc[s] = "header" /\ Len(sock) < Cap[client]
  /\ sock' = Append(sock, [part |-> "header", msg |-> cur[s]])
  /\ wire' = Append(wire, cur[s])
  /\ lock' = NoSender
  /\ spc' = [spc EXCEPT ![s] = IF cur[s].size > 0 THEN "payload" ELSE "idle"]
  /\ UNCHANGED <<cur, sent, shut, run, readVars, cpc>>

\* writeAsync of the header: send() blocks while the socket is full,
\* whatever waitForSpace says.
SendHeader(s) ==
  /\ spc[s] = "header" /\ Len(sock) < Cap[client]
  /\ sock' = Append(sock, [part |-> "header", msg |-> cur[s]])
  /\ wire' = Append(wire, cur[s])
  /\ IF cur[s].size > 0
       THEN spc' = [spc EXCEPT ![s] = "payload"] /\ lock' = lock
       ELSE SendDone(s)
  /\ UNCHANGED <<cur, sent, shut, run, readVars, cpc>>

\* writeAsync of the payload.
SendPayload(s) ==
  /\ spc[s] = "payload" /\ Len(sock) < Cap[client]
  /\ sock' = Append(sock, [part |-> "payload", msg |-> cur[s]])
  /\ SendDone(s)
  /\ UNCHANGED <<cur, sent, wire, shut, run, readVars, cpc>>

-----------------------------------------------------------------------------
(* The message thread. *)

\* ContextInitToClient has returned; the C++ thread announces itself.
ThreadStart ==
  /\ tpc = "start"
  /\ run' = (run \/ client = "cpp")
  /\ tpc' = "loop"
  /\ UNCHANGED <<sendVars, sock, shut, hdr, type, rbuf, grown, got, phantom, cpc>>

ThreadLoop ==
  /\ tpc = "loop"
  /\ tpc' = IF run THEN "peek" ELSE "exit"
  /\ UNCHANGED <<sendVars, sock, shut, run, hdr, type, rbuf, grown, got, phantom,
                 cpc>>

\* ContextPeekMessage: read() of a header returns at once, leaving
\* mLastClientHeader as it is, when the socket has been shut down ...
PeekShut ==
  /\ tpc = "peek" /\ shut
  /\ type' = hdr /\ tpc' = "get"
  /\ UNCHANGED <<sendVars, sock, shut, run, hdr, rbuf, grown, got, phantom, cpc>>

\* ... and otherwise goes on to recv().
PeekEnter ==
  /\ tpc = "peek" /\ ~shut
  /\ tpc' = "recvHeader"
  /\ UNCHANGED <<sendVars, sock, shut, run, hdr, type, rbuf, grown, got, phantom,
                 cpc>>

\* recv() of a header that is there.
PeekRecv ==
  /\ tpc = "recvHeader" /\ ~shut /\ sock # <<>>
  /\ hdr' = IF Head(sock).part = "header" THEN Head(sock).msg ELSE Garbage
  /\ type' = hdr' /\ sock' = Tail(sock) /\ tpc' = "get"
  /\ UNCHANGED <<sendVars, shut, run, rbuf, grown, got, phantom, cpc>>

\* shutdown() came meanwhile: a recv() that was already waiting returns its
\* eight zero bytes (cmdID NONE, no payload); one that was not fails on the
\* closed descriptor and leaves mLastClientHeader as it was.
PeekRecvShut ==
  /\ tpc = "recvHeader" /\ shut
  /\ hdr' \in {hdr} \cup (IF sock = <<>> THEN {NoMsg} ELSE {})
  /\ type' = hdr' /\ tpc' = "get"
  /\ UNCHANGED <<sendVars, sock, shut, run, rbuf, grown, got, phantom, cpc>>

\* TRUE when the message thread calls ContextGetMessage for this type.
Fetches(m) == client = "cpp" \/ m.kind \in {"user", "error"}

\* Whether the thread enlarges its buffer for the message: the C++ client
\* always, the Java client for user messages; JNI reads errors into char[1024].
Grows(m) == m.size = 2 /\ (client = "cpp" \/ m.kind = "user")

\* A bug: the buffer keeps its first size, and RESIZE makes the thread retry.
GetMessage_NoGrow ==
  /\ tpc = "get"
  /\ tpc' = CASE ~Fetches(type) \/ type.size = 0 -> "dispatch"
              [] Fetches(type) /\ type.size = 1 -> "payload"
              [] OTHER -> "get"
  /\ UNCHANGED <<sendVars, sock, shut, run, hdr, type, rbuf, grown, got, phantom,
                 cpc>>

\* Enlarge the buffer if need be, and call ContextGetMessage, which returns
\* RS_MESSAGE_TO_CLIENT_RESIZE and reads nothing when it is still too small.
GetMessage ==
  /\ tpc = "get"
  /\ grown' = (grown \/ Grows(type))
  /\ LET fits == type.size < 2 \/ Grows(type)
     IN  tpc' = IF Fetches(type) /\ type.size > 0 /\ fits
                  THEN "payload" ELSE "dispatch"
  /\ UNCHANGED <<sendVars, sock, shut, run, hdr, type, rbuf, got, phantom, cpc>>

\* getClientPayload's read() of the payload.
GetPayload ==
  /\ tpc = "payload"
  /\ \/ shut /\ UNCHANGED <<sock, rbuf>>
     \/ ~shut /\ sock # <<>> /\ sock' = Tail(sock) /\ rbuf' = Head(sock).msg
  /\ tpc' = "dispatch"
  /\ UNCHANGED <<sendVars, shut, run, hdr, type, grown, got, phantom, cpc>>

\* A bug: errors fall into the branch that calls nobody.
Called_UserOnly(m) == m.kind = "user" /\ MessageFunc

\* Whether the client's handler is called.  The C++ thread looks at
\* mMessageFunc for both kinds of message.
Called(m) == IF client = "cpp" \/ m.kind = "user" THEN MessageFunc
                                                  ELSE ErrorFunc


Seen == {got[i].msg : i \in DOMAIN got}

\* A user message or an error goes to its handler; any other type only waits.
Dispatch ==
  /\ tpc = "dispatch"
  /\ tpc' = "loop"
  /\ IF type.kind \notin {"user", "error"} THEN UNCHANGED <<got, phantom>>
     ELSE IF type \in Seen \cup {Stray}
            THEN phantom' = phantom \cup {type} /\ UNCHANGED got
            ELSE /\ got' = Append(got, [msg |-> type, called |-> Called(type),
                                        pay |-> type.size = 0 \/ rbuf = type])
                 /\ UNCHANGED phantom
  /\ UNCHANGED <<sendVars, sock, shut, run, hdr, type, rbuf, grown, cpc>>

-----------------------------------------------------------------------------
(* The thread that creates and destroys the client object. *)

\* RS::init starts the message thread (Java: MessageThread.start).
ClientInit ==
  /\ cpc = "new"
  /\ tpc' = "start"
  /\ cpc' = IF client = "cpp" THEN "initwait" ELSE "up"
  /\ UNCHANGED <<sendVars, sock, shut, run, hdr, type, rbuf, grown, got, phantom>>

\* pthread_create failed: init() returns false and the destructor does nothing.
ClientInitFails ==
  /\ cpc = "new" /\ client = "cpp"
  /\ cpc' = "failed"
  /\ UNCHANGED <<sendVars, sock, shut, run, readVars>>

ClientInitWait ==
  /\ cpc = "initwait" /\ run
  /\ cpc' = "up"
  /\ UNCHANGED <<sendVars, sock, shut, run, readVars>>

\* ~RS clears mMessageRun and calls finish(); helpDestroy starts with finish().
ClientDestroy ==
  /\ cpc = "up"
  /\ run' = (client = "java")
  /\ cpc' = "finish"
  /\ UNCHANGED <<sendVars, sock, shut, readVars>>

\* ContextFinish replies once the commands before it are done: no send is in
\* progress any more.
ClientFinish ==
  /\ cpc = "finish" /\ \A s \in Senders : spc[s] = "idle"
  /\ cpc' = "deinit"
  /\ UNCHANGED <<sendVars, sock, shut, run, readVars>>

\* ContextDeinitToClient: FifoSocket::shutdown.
ClientDeinit ==
  /\ cpc = "deinit"
  /\ shut' = TRUE
  /\ cpc' = IF client = "java" THEN "stop" ELSE "join"
  /\ UNCHANGED <<sendVars, sock, run, readVars>>

\* A bug: mRun stays TRUE.
ClientStop_NoFlag ==
  /\ cpc = "stop"
  /\ cpc' = "join"
  /\ UNCHANGED <<sendVars, sock, shut, run, readVars>>

\* Java: mRun = false, and interrupt() the message thread.
ClientStop ==
  /\ cpc = "stop"
  /\ run' = FALSE
  /\ cpc' = "join"
  /\ UNCHANGED <<sendVars, sock, shut, readVars>>

\* Join the message thread and destroy the context.
ClientJoin ==
  /\ cpc = "join" /\ tpc = "exit"
  /\ cpc' = "done"
  /\ UNCHANGED <<sendVars, sock, shut, run, readVars>>

Terminated ==
  /\ cpc \in {"done", "failed"}
  /\ UNCHANGED vars

SenderStep(s) == (SendHeader(s) \/ SendPayload(s)) /\ UNCHANGED client
ThreadStep == /\ \/ ThreadStart \/ ThreadLoop \/ PeekShut \/ PeekEnter \/ PeekRecv
                 \/ PeekRecvShut \/ GetMessage \/ GetPayload \/ Dispatch
              /\ UNCHANGED client
ClientStep == /\ \/ ClientInitWait \/ ClientFinish \/ ClientDeinit \/ ClientStop
                 \/ ClientJoin
              /\ UNCHANGED client
\* What scripts and applications do when they please.
Free == /\ \/ \E s \in Senders : LockMessage(s)
           \/ ClientInit \/ ClientInitFails \/ ClientDestroy
        /\ UNCHANGED client
Next == \/ \E s \in Senders : SenderStep(s)
        \/ ThreadStep \/ ClientStep \/ Free \/ Terminated

Spec == Init /\ [][Next]_vars

\* Threads that can go on do.  Nothing makes a script send, or an application
\* create or destroy its client, so those steps have no fairness.
FairSpec == /\ Spec
            /\ \A s \in Senders : WF_vars(SenderStep(s))
            /\ WF_vars(ThreadStep)
            /\ WF_vars(ClientStep)

-----------------------------------------------------------------------------
(* Properties. *)

Header == Message \cup {NoMsg, Garbage, Stray}

\* The mutex, the socket, the header and the control points keep their types.
TypeOK ==
  /\ lock \in Senders \cup {NoSender}
  /\ spc \in [Senders -> {"idle", "header", "payload"}]
  /\ cur \in [Senders -> Message \cup {NoMsg}]
  /\ sent \in [Senders -> 0 .. MaxMsgs[client]]
  /\ sock \in Seq(Token) /\ Len(sock) <= Cap[client]
  /\ shut \in BOOLEAN /\ run \in BOOLEAN /\ grown \in BOOLEAN
  /\ tpc \in {"none", "start", "loop", "peek", "recvHeader", "get", "payload",
              "dispatch", "exit"}
  /\ hdr \in Header /\ type \in Header /\ rbuf \in Message \cup {NoMsg}
  /\ cpc \in {"new", "failed", "initwait", "up", "finish", "deinit", "stop",
              "join", "done"}
  /\ wire \in Seq(Message)

\* ContextPeekMessage reads headers, never the payload of another message, and
\* messages are dispatched in the order their headers were sent, none skipped
\* and each with its own payload: gMessageMutex keeps the two sends of a message
\* together, and the buffer is large enough for ContextGetMessage to take the
\* payload off the socket.  Only the last message before shutdown() may have
\* lost its payload, and only after shutdown(), which leaves mLastClientHeader
\* as it was, is one dispatched again.
DeliveredIntact ==
  /\ hdr # Garbage
  /\ shut \/ phantom = {}
  /\ \A i \in DOMAIN got :
       /\ i \in DOMAIN wire /\ got[i].msg = wire[i]
       /\ got[i].pay \/ (shut /\ i = Len(got))

\* An error goes to the error handler whenever one is installed.
ErrorHandled ==
  \A i \in DOMAIN got :
    got[i].msg.kind = "error" /\ ErrorFunc => got[i].called

\* The context is destroyed only after the message thread, which uses it, has
\* ended.
NoUseAfterDestroy == cpc = "done" => tpc = "exit"

\* Messages arrive whole and in order at a thread that outlives no context
\* (sendMessageToClient, ContextPeekMessage, ~RS, helpDestroy).
MessagesSafe == TypeOK /\ DeliveredIntact /\ NoUseAfterDestroy

\* The client's destructor returns: finish() is answered and the message
\* thread ends.
DestroyReturns == (cpc = "finish") ~> (cpc = "done")

\* A message is dispatched unless the client is being torn down.
SentIsDelivered ==
  \A s \in Senders : \A n \in Numbers :
    (sent[s] >= n) ~> (cpc # "up" \/ \E m \in Seen : m.from = s /\ m.n = n)
=============================================================================
