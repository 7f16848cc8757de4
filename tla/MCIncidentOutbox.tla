-------------------------- MODULE MCIncidentOutbox --------------------------
(***************************************************************************)
(* IncidentOutbox with small numbers of intents.  The idempotency keys are *)
(* hashes, so the order of the incident keys may be the reverse of theirs. *)
(***************************************************************************)
EXTENDS IncidentOutbox

CONSTANT N  \* number of intents

SomeItems == 1 .. N
SameOrder == [i \in SomeItems |-> i]
ReverseOrder == [i \in SomeItems |-> N + 1 - i]

\* Every step that stays possible is taken, which is more than FairSpec asks for: what
\* is refuted under it is not due to a process that just stops.
EagerSpec == Spec /\ WF_vars(AgentStep) /\ WF_vars(OperatorStep)
=============================================================================
