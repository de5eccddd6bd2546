----------------------------- MODULE AlertChannel -----------------------------
(***************************************************************************)
(* What the alert pipeline promises of the order of events: each consumer  *)
(* handles events that the detection service has published, and never goes *)
(* back to an earlier one.  It may miss events and meet one again.         *)
(***************************************************************************)
EXTENDS Naturals

CONSTANTS
  Consumer,
  MaxEvents   \* bound: events published

VARIABLES
  published,  \* events given to publish, numbered in that order
  handled     \* the last event each consumer has handled

vars == <<published, handled>>

Init ==
  /\ published = 0
  /\ handled = [c \in Consumer |-> 0]

Publish ==
  /\ published < MaxEvents
  /\ published' = published + 1
  /\ UNCHANGED handled

Handle(c, e) ==
  /\ handled[c] <= e /\ e <= published
  /\ handled' = [handled EXCEPT ![c] = e]
  /\ UNCHANGED published

Next == Publish \/ \E c \in Consumer, e \in 1..MaxEvents : Handle(c, e)

Spec == Init /\ [][Next]_vars
=============================================================================
