------------------------ MODULE MCIncidentLifecycle ------------------------
(***************************************************************************)
(* IncidentLifecycle with the default rule table of incidents.py: two      *)
(* cycles open and recover an endpoint or a target-wide outage, one opens  *)
(* and two recover the observer incident, one opens and recovers the blind *)
(* spot.                                                                   *)
(***************************************************************************)
EXTENDS IncidentLifecycle

CONSTANTS f1, f2, f3, web

DefaultOpen == [d \in Kinds |-> IF d \in {"endpoint", "target_wide"} THEN 2 ELSE 1]
DefaultRecovery == [d \in Kinds |-> IF d = "blind_spot" THEN 1 ELSE 2]

Finding(one, rest, page, late) ==
  [facts |-> [e \in Endpoint |-> CASE e = f1  -> one
                                   [] e = web -> page
                                   [] OTHER   -> rest],
   stale |-> late]

(***************************************************************************)
(* All quiet; f1 alone with a problem payload or a broken contract; the    *)
(* whole network unreachable, evaluated in time or after the host slept.   *)
(***************************************************************************)
TypicalObservations ==
  {Finding(one, "ok", "ok", FALSE) : one \in {"ok", "payload", "contract"}}
    \cup {Finding("retryable", "retryable", "retryable", late) : late \in BOOLEAN}
=============================================================================
