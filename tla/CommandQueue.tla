---------------------------- MODULE CommandQueue ----------------------------
(***************************************************************************)
(* What the command FIFO promises its clients: the commands of all threads *)
(* run one at a time, each once, in the order they were submitted; a call  *)
(* that waits returns after its own command has run.                       *)
(***************************************************************************)
EXTENDS Sequences

CONSTANTS Threads, Calls,
          From(_),   \* the thread that makes a call
          Waits(_)   \* TRUE for a call that returns after its command ran

VARIABLES queue,     \* commands submitted and not yet run
          state      \* what each thread is doing

qvars == <<queue, state>>

QInit == queue = <<>> /\ state = [t \in Threads |-> "out"]

Submit(c) ==
  /\ state[From(c)] = "out"
  /\ queue' = Append(queue, c)
  /\ state' = [state EXCEPT ![From(c)] = IF Waits(c) THEN "waiting" ELSE @]

Run ==
  /\ queue # <<>>
  /\ queue' = Tail(queue)
  /\ state' = [state EXCEPT ![From(Head(queue))] =
                 IF Waits(Head(queue)) THEN "answered" ELSE @]

Return(t) ==
  /\ state[t] = "answered"
  /\ state' = [state EXCEPT ![t] = "out"]
  /\ UNCHANGED queue

QNext == Run \/ (\E c \in Calls : Submit(c)) \/ (\E t \in Threads : Return(t))

QSpec == /\ QInit /\ [][QNext]_qvars
         /\ WF_qvars(Run) /\ \A t \in Threads : WF_qvars(Return(t))
=============================================================================
