------------------------------ MODULE BarReplay ------------------------------
(***************************************************************************)
(* What the event loop promises about the data: once the files are loaded,  *)
(* every bar of every symbol is handed to the portfolio and the strategy    *)
(* exactly once, in order, and the symbols advance in lockstep: no symbol   *)
(* receives bar n + 1 before every other symbol has received bar n or has   *)
(* run out of bars.  The run finishes only when nothing is left to deliver. *)
(***************************************************************************)
EXTENDS Integers

CONSTANT Listed       \* the symbols of the run

VARIABLES
  phase,              \* "loading", "replaying", "finished"
  total,              \* bars each symbol has
  delivered           \* bars of each symbol handed over so far

vars == <<phase, total, delivered>>

Init ==
  /\ phase = "loading"
  /\ total = [t \in Listed |-> 0]
  /\ delivered = [t \in Listed |-> 0]

Load ==
  /\ phase = "loading"
  /\ phase' = "replaying"
  /\ total' \in [Listed -> Nat]
  /\ UNCHANGED delivered

Deliver(t) ==
  /\ phase = "replaying"
  /\ delivered[t] < total[t]
  /\ \A u \in Listed : delivered[u] >= delivered[t] \/ delivered[u] = total[u]
  /\ delivered' = [delivered EXCEPT ![t] = @ + 1]
  /\ UNCHANGED <<phase, total>>

Finish ==
  /\ phase = "replaying"
  /\ delivered = total
  /\ phase' = "finished"
  /\ UNCHANGED <<total, delivered>>

Next == Load \/ Finish \/ \E t \in Listed : Deliver(t)

Spec == Init /\ [][Next]_vars
=============================================================================
