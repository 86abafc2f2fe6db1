----------------------------- MODULE MCMessages -----------------------------
(* Both client libraries.  The C++ client is given a socket that holds all its *)
(* messages, since its destructor can wait for ever on a full one.             *)
EXTENDS MessageChannel

MCMaxMsgs == [c \in Clients |-> IF c = "java" THEN 2 ELSE 1]
MCCap == [c \in Clients |-> IF c = "java" THEN 2 ELSE 4]

\* A socket that two messages fill.
MCTwo == [c \in Clients |-> 2]
=============================================================================
