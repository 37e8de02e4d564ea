------------------------------- MODULE RunLife -------------------------------
(***************************************************************************)
(* What the API promises about runs, whatever Redis commands fail and       *)
(* whichever processes die: a run that has started comes to at most one     *)
(* result; a result once erased does not come back; success is announced    *)
(* only after the result is stored, and at most once; a failure is the      *)
(* last thing announced.                                                   *)
(***************************************************************************)
EXTENDS Sequences

CONSTANT Runs

VARIABLES
  stage,              \* "new", "working", "settled"
  result,             \* whether the run's result can be fetched
  erased,             \* whether its record has been erased
  told                \* the ends announced for it

vars == <<stage, result, erased, told>>

Init ==
  /\ stage = [r \in Runs |-> "new"]
  /\ result = [r \in Runs |-> FALSE]
  /\ erased = [r \in Runs |-> FALSE]
  /\ told = [r \in Runs |-> <<>>]

Start(r) ==
  /\ stage[r] = "new"
  /\ stage' = [stage EXCEPT ![r] = "working"]
  /\ UNCHANGED <<result, erased, told>>

Store(r) ==
  /\ stage[r] = "working"
  /\ stage' = [stage EXCEPT ![r] = "settled"]
  /\ result' = [result EXCEPT ![r] = TRUE]
  /\ UNCHANGED <<erased, told>>

\* Runs that fail, and runs that die with their process, settle without one.
GiveUp(lost) ==
  /\ stage' = [r \in Runs |-> IF r \in lost THEN "settled" ELSE stage[r]]
  /\ UNCHANGED <<result, erased, told>>

Succeed(r) ==
  /\ stage[r] = "settled" /\ told[r] = <<>>
  /\ result[r] \/ erased[r]
  /\ told' = [told EXCEPT ![r] = <<"complete">>]
  /\ UNCHANGED <<stage, result, erased>>

Fail(r) ==
  /\ stage[r] = "settled" /\ told[r] \in {<<>>, <<"complete">>}
  /\ told' = [told EXCEPT ![r] = Append(@, "error")]
  /\ UNCHANGED <<stage, result, erased>>

Erase(r) ==
  /\ result' = [result EXCEPT ![r] = FALSE]
  /\ erased' = [erased EXCEPT ![r] = TRUE]
  /\ UNCHANGED <<stage, told>>

Next ==
  \/ \E r \in Runs : Start(r) \/ Store(r) \/ Succeed(r) \/ Fail(r) \/ Erase(r)
  \/ \E lost \in SUBSET Runs : GiveUp(lost)

Spec == Init /\ [][Next]_vars
=============================================================================
