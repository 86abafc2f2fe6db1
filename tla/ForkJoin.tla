------------------------------ MODULE ForkJoin ------------------------------
(***************************************************************************)
(* What a kernel launch of the CPU driver promises its caller: the slices  *)
(* of the launch run exactly once each, inside the walker of some lane,    *)
(* and the launch returns only when every slice has run and no lane is     *)
(* still in the walker.  Either the calling thread (lane 0) walks alone,   *)
(* or every lane of the pool walks exactly once.                           *)
(***************************************************************************)
EXTENDS Integers

CONSTANTS Lanes, MaxSlices

VARIABLES
  phase,   \* "idle" between launches, "running" during one
  todo,    \* slices of the launch that have not run yet
  lane     \* per lane: not entered the walker, inside it, left it

absVars == <<phase, todo, lane>>

AbsInit == phase = "idle" /\ todo = {} /\ lane = [l \in Lanes |-> "out"]

Fork(n) ==
  /\ phase = "idle" /\ phase' = "running"
  /\ todo' = 0 .. (n - 1)
  /\ lane' = [lane EXCEPT ![0] = "in"]

Enter(l) ==
  /\ phase = "running" /\ lane[l] = "out"
  /\ lane' = [lane EXCEPT ![l] = "in"]
  /\ UNCHANGED <<phase, todo>>

Run(s) ==
  /\ phase = "running" /\ s \in todo
  /\ \E l \in Lanes : lane[l] = "in"
  /\ todo' = todo \ {s}
  /\ UNCHANGED <<phase, lane>>

Leave(l) ==
  /\ phase = "running" /\ lane[l] = "in"
  /\ lane' = [lane EXCEPT ![l] = "left"]
  /\ UNCHANGED <<phase, todo>>

Joined == \/ \A l \in Lanes : lane[l] = "left"
          \/ /\ lane[0] = "left"
             /\ \A l \in Lanes \ {0} : lane[l] = "out"

Return ==
  /\ phase = "running" /\ todo = {} /\ Joined
  /\ phase' = "idle" /\ lane' = [l \in Lanes |-> "out"]
  /\ UNCHANGED todo

AbsNext ==
  \/ \E n \in 1 .. MaxSlices : Fork(n)
  \/ \E l \in Lanes : Enter(l) \/ Leave(l)
  \/ \E s \in todo : Run(s)
  \/ Return

AbsSpec == AbsInit /\ [][AbsNext]_absVars
=============================================================================
