-------------------------- MODULE IncidentLifecycle --------------------------
(***************************************************************************)
(* The incident lifecycle of the monitoring agent: what one polling cycle  *)
(* of monitoring_agent/__main__.py does to the incident states and to the  *)
(* delivery intents kept in incident_state.json.                           *)
(*                                                                         *)
(* A cycle polls every endpoint, classifies the answers into conditions,   *)
(* removes the endpoint noise of a target-wide outage, advances the state  *)
(* of every incident, advances the blind-spot incident a second time, and  *)
(* writes states and intents with one atomic replace of the file.  The     *)
(* process may stop between any two cycles; its cycle counter starts again *)
(* at zero, the file does not.                                             *)
(*                                                                         *)
(* Timestamps, severities and reasons are left out: no guard of the        *)
(* lifecycle reads them, except the age of the latest cycle, which is the  *)
(* input "stale".                                                          *)
(***************************************************************************)
EXTENDS Integers, FiniteSets

CONSTANTS
  Facade,          \* endpoints behind the authenticated facade
  External,        \* endpoints polled directly (external_web)
  Observations,    \* what a cycle can find: an outcome per endpoint, and
                   \* whether it is stale when it is evaluated
  OpenCycles,      \* per kind: failing cycles that open an incident
  RecoveryCycles,  \* per kind: quiet cycles that recover it
  Cooldown,        \* recurrence_cooldown_cycles
  MaxStates,       \* max_incident_states of the store
  MaxCycle,        \* bound: cycles one process runs
  MaxStarts,       \* bound: how often the process is started
  StreakCap        \* bound: the longest streak the history tells apart

TargetWide == "target_wide_outage:facade_transport"
Observer   == "observer_self_health:facade_contract"
BlindSpot  == "supervision_center_blind_spot:observer_freshness"

Endpoint == Facade \cup External
Key == Endpoint \cup {TargetWide, Observer, BlindSpot}

Kinds == {"endpoint", "target_wide", "observer", "blind_spot"}

Kind(k) == CASE k = TargetWide -> "target_wide"
             [] k = Observer   -> "observer"
             [] k = BlindSpot  -> "blind_spot"
             [] OTHER          -> "endpoint"

\* What one poll can end in, as far as the rules tell it apart.
Outcome == {"ok", "payload", "retryable", "contract"}

ASSUME LifecycleAssumption ==
  /\ Observations \subseteq [facts : [Endpoint -> Outcome], stale : BOOLEAN]
  /\ Endpoint \cap {TargetWide, Observer, BlindSpot} = {}
  /\ Facade \cap External = {}
  /\ IsFiniteSet(Facade) /\ IsFiniteSet(External)
  /\ OpenCycles \in [Kinds -> Nat \ {0}]
  /\ RecoveryCycles \in [Kinds -> Nat \ {0}]
  /\ Cooldown \in Nat
  /\ MaxStates \in Nat \ {0}
  /\ MaxCycle \in Nat /\ MaxStarts \in Nat /\ StreakCap \in Nat
  /\ \A d \in Kinds : /\ Cooldown + OpenCycles[d] <= StreakCap
                      /\ RecoveryCycles[d] <= StreakCap

VARIABLES
  running,     \* does a polling process hold the writer lock
  starts,      \* processes started so far
  cycle,       \* cycle_sequence of the current process
  incident,    \* the persisted state of every incident
  lastIntent,  \* the newest delivery intent written for every incident
  failing,     \* history: conditions of the last cycle, suppressed or not
  streak       \* history: consecutive cycles with (> 0) or without (< 0)
               \* an unsuppressed condition, since the state file exists

vars == <<running, starts, cycle, incident, lastIntent, failing, streak>>

Status == {"absent", "candidate", "active", "resolved"}

\* IncidentState.  occurred stands for occurrence_count > 0 and recovered = 0
\* for recovered_cycle_sequence None.  failures counts up to the opening; what
\* failure_count grows to while the incident is active is only reported.
IncidentState == [status     : Status,
                  failures   : Nat,
                  recoveries : Nat,
                  occurred   : BOOLEAN,
                  recovered  : Nat]

Absent == [status |-> "absent", failures |-> 0, recoveries |-> 0,
           occurred |-> FALSE, recovered |-> 0]

-----------------------------------------------------------------------------
(***************************************************************************)
(* Classification of one cycle.  A facade endpoint answers well, answers   *)
(* with a problem payload, fails in a retryable way (connection error or   *)
(* timeout), or breaks the contract (HTTP, TLS or schema error).  For an   *)
(* external endpoint every failure is the same problem.                    *)
(***************************************************************************)
TargetWideOutage(facts) ==
  /\ Cardinality(Facade) >= 3
  /\ \A e \in Facade : facts[e] = "retryable"

EndpointProblem(facts) ==
  {e \in Facade : facts[e] \in {"payload", "retryable"}}
    \cup {e \in External : facts[e] # "ok"}

Conditions(facts) ==
  EndpointProblem(facts)
    \cup {k \in {TargetWide} : TargetWideOutage(facts)}
    \cup {k \in {Observer} : \E e \in Facade : facts[e] = "contract"}

\* Endpoint conditions a target-wide outage hides from the lifecycle.
Suppressed(facts) ==
  {e \in Facade : TargetWideOutage(facts) /\ facts[e] = "retryable"}

-----------------------------------------------------------------------------
(***************************************************************************)
(* One incident through one cycle.                                         *)
(***************************************************************************)
\* Mutant: the window is one cycle too long.
InsideLongerCooldown(s, seq) ==
  s.recovered # 0 /\ seq - s.recovered <= Cooldown + 1

InsideCooldown(s, seq) ==
  /\ Cooldown # 0
  /\ s.recovered # 0
  /\ seq - s.recovered <= Cooldown

\* Mutants: a failure leaves the quiet cycles counted so far, or takes one back.
KeepQuietCycles(s) == s
TakeBackQuietCycle(s) == [s EXCEPT !.recoveries = @ - 1]

\* An active incident fails again.
FailAgain(s) == [s EXCEPT !.recoveries = 0]

\* How many failing cycles a condition that is not active has now had.
Confirmations(s) == IF s.status = "candidate" THEN s.failures + 1 ELSE 1

\* A candidate, or a first failure, becomes a candidate or opens.
Confirm(s, k) ==
  LET opens == Confirmations(s) >= OpenCycles[Kind(k)]
  IN  [status     |-> IF opens THEN "active" ELSE "candidate",
       failures   |-> Confirmations(s),
       recoveries |-> 0,
       occurred   |-> s.occurred \/ opens,
       recovered  |-> IF opens THEN 0 ELSE s.recovered]

AdvanceFailing(s, k, seq) ==
  CASE s.status = "active" -> FailAgain(s)
    [] s.status = "resolved" /\ InsideCooldown(s, seq) -> s
    [] OTHER -> Confirm(s, k)

\* Mutant: an unconfirmed candidate waits for its next failure.
KeepCandidate(s) == s

\* A candidate without its condition is resolved as before, or forgotten.
ClearCandidate(s) ==
  IF s.occurred /\ s.recovered # 0
  THEN [s EXCEPT !.status = "resolved", !.failures = 0, !.recoveries = 0]
  ELSE Absent

\* An active incident without its condition comes closer to its recovery.
CountRecovery(s, k, seq) ==
  IF s.recoveries + 1 >= RecoveryCycles[Kind(k)]
  THEN [s EXCEPT !.status = "resolved", !.recoveries = @ + 1, !.recovered = seq]
  ELSE [s EXCEPT !.recoveries = @ + 1]

AdvanceRecovery(s, k, seq) ==
  CASE s.status = "candidate" -> ClearCandidate(s)
    [] s.status = "active"    -> CountRecovery(s, k, seq)
    [] OTHER                  -> s

\* _advance_states: every key in "keys" fails or recovers, the rest stand still.
Advance(states, conditions, keys, seq) ==
  [k \in Key |-> IF k \in conditions THEN AdvanceFailing(states[k], k, seq)
                 ELSE IF k \in keys THEN AdvanceRecovery(states[k], k, seq)
                 ELSE states[k]]

\* The cycle's own conditions, for all incidents.
AfterCycle(facts, seq) ==
  Advance(incident, Conditions(facts) \ Suppressed(facts), Key, seq)

\* The freshness check that follows it, for the blind spot alone.
AfterFreshness(states, stale, seq) ==
  Advance(states, {k \in {BlindSpot} : stale}, {BlindSpot}, seq)

(***************************************************************************)
(* The delivery intent a transition leaves in the outbox; "updated" and    *)
(* "suppressed" transitions leave none.                                    *)
(***************************************************************************)
Intents == {"none", "opened", "reopened", "recovered"}

NewIntent(old, before, after) ==
  CASE before.status # "active" /\ after.status = "active" ->
         IF before.occurred THEN "reopened" ELSE "opened"
    [] before.status = "active" /\ after.status = "resolved" -> "recovered"
    [] OTHER -> old

WithIntents(intents, before, after) ==
  [k \in Key |-> NewIntent(intents[k], before[k], after[k])]

(***************************************************************************)
(* Bounded retention: the newest resolved states fill what active and      *)
(* candidate states leave of the bound.  Which of them are the newest is   *)
(* left open.                                                              *)
(***************************************************************************)
\* Mutant: retention counts an active incident among the states it may drop.
OnlyCandidates(states) == {k \in Key : states[k].status = "candidate"}

Mandatory(states) == {k \in Key : states[k].status \in {"active", "candidate"}}
Resolved(states)  == {k \in Key : states[k].status = "resolved"}

Retained(states, kept) ==
  LET room == MaxStates - Cardinality(Mandatory(states))
  IN  Cardinality(kept) = IF Cardinality(Resolved(states)) <= room
                          THEN Cardinality(Resolved(states)) ELSE room

-----------------------------------------------------------------------------
Init ==
  /\ running = FALSE
  /\ starts = 0
  /\ cycle = 0
  /\ incident = [k \in Key |-> Absent]
  /\ lastIntent = [k \in Key |-> "none"]
  /\ failing = {}
  /\ streak = [k \in Key |-> 0]

\* A polling process takes the writer lock; its cycle counter starts at zero.
Start ==
  /\ ~running /\ starts < MaxStarts
  /\ running' = TRUE
  /\ starts' = starts + 1
  /\ cycle' = 0
  /\ UNCHANGED <<incident, lastIntent, failing, streak>>

\* The process is stopped or killed; the state file stays as last replaced.
Stop ==
  /\ running
  /\ running' = FALSE
  /\ UNCHANGED <<starts, cycle, incident, lastIntent, failing, streak>>

FailedStreak(n) == IF n < 0 THEN 1 ELSE IF n < StreakCap THEN n + 1 ELSE n
QuietStreak(n)  == IF n > 0 THEN -1 ELSE IF n > -StreakCap THEN n - 1 ELSE n

\* A streak of failures starts again when the store forgets the incident.
RecordHistory(facts, stale, forgotten) ==
  LET blind == {k \in {BlindSpot} : stale}
      seen  == (Conditions(facts) \ Suppressed(facts)) \cup blind
  IN  /\ failing' = Conditions(facts) \cup blind
      /\ streak' = [k \in Key |->
                      IF k \in seen \cap forgotten THEN 0
                      ELSE IF k \in seen THEN FailedStreak(streak[k])
                      ELSE QuietStreak(streak[k])]

\* One complete cycle whose result fits the store.
Cycle(facts, stale) ==
  LET seq   == cycle + 1
      mid   == AfterCycle(facts, seq)
      final == AfterFreshness(mid, stale, seq)
  IN  /\ running /\ cycle < MaxCycle
      /\ cycle' = seq
      /\ Cardinality(Mandatory(final)) <= MaxStates
      /\ \E kept \in SUBSET Resolved(final) :
           /\ Retained(final, kept)
           /\ incident' = [k \in Key |-> IF k \in Mandatory(final) \cup kept
                                        THEN final[k] ELSE Absent]
           /\ RecordHistory(facts, stale, Resolved(final) \ kept)
      /\ lastIntent' = WithIntents(WithIntents(lastIntent, incident, mid),
                                   mid, final)
      /\ UNCHANGED <<running, starts>>

\* Active and candidate states exceed the bound: IncidentStoreError ends the
\* process before the file is replaced.
CycleOverBound(facts, stale) ==
  LET seq   == cycle + 1
      final == AfterFreshness(AfterCycle(facts, seq), stale, seq)
  IN  /\ running /\ cycle < MaxCycle
      /\ Cardinality(Mandatory(final)) > MaxStates
      /\ running' = FALSE
      /\ cycle' = seq
      /\ UNCHANGED <<starts, incident, lastIntent, failing, streak>>

Next ==
  \/ Start
  \/ Stop
  \/ \E o \in Observations :
       Cycle(o.facts, o.stale) \/ CycleOverBound(o.facts, o.stale)

Spec == Init /\ [][Next]_vars

-----------------------------------------------------------------------------
(***************************************************************************)
(* Types: every state is a well-formed IncidentState and the counters stay *)
(* within the bounds of the instance.                                      *)
(***************************************************************************)
TypeOK ==
  /\ running \in BOOLEAN
  /\ starts \in 0 .. MaxStarts
  /\ cycle \in 0 .. MaxCycle
  /\ incident \in [Key -> IncidentState]
  /\ lastIntent \in [Key -> Intents]
  /\ failing \subseteq Key
  /\ streak \in [Key -> Int]

(***************************************************************************)
(* What the operator was told last is what the agent believes: the newest  *)
(* intent of an incident says "opened" or "reopened" exactly while the     *)
(* incident is active, across restarts, retention and a failing store.     *)
(***************************************************************************)
IntentsMatchState ==
  \A k \in Key :
    incident[k].status = "active" <=> lastIntent[k] \in {"opened", "reopened"}

(***************************************************************************)
(* An incident is opened or reopened only after its condition was seen,    *)
(* unsuppressed, in OpenCycles consecutive cycles (README rule table,      *)
(* "Opens after"), however the cycles are spread over processes.           *)
(***************************************************************************)
OpenedOnlyWhenConfirmed ==
  [][\A k \in Key :
       incident[k].status # "active" /\ incident'[k].status = "active"
         => streak'[k] >= OpenCycles[Kind(k)]]_vars

(***************************************************************************)
(* An incident other than the blind spot stops being active only after its *)
(* condition was absent or suppressed in RecoveryCycles consecutive        *)
(* cycles, and never without a "recovered" intent: neither retention nor a *)
(* restart makes the agent forget an open incident.                        *)
(***************************************************************************)
RecoveredOnlyWhenQuiet ==
  [][\A k \in Key \ {BlindSpot} :
       incident[k].status = "active" /\ incident'[k].status # "active"
         => /\ lastIntent'[k] = "recovered"
            /\ -streak'[k] >= RecoveryCycles[Kind(k)]]_vars

(***************************************************************************)
(* What makes the two properties above inductive: a candidate counts no    *)
(* more failures than there were consecutive failing cycles, and an active *)
(* incident no more recoveries than there were consecutive quiet ones.     *)
(***************************************************************************)
CountsMatchStreaks ==
  \A k \in Key :
    /\ incident[k].status = "candidate"
         => /\ incident[k].failures < OpenCycles[Kind(k)]
            /\ incident[k].failures <= streak[k]
    /\ incident[k].status = "active" /\ k # BlindSpot
         => /\ incident[k].recoveries < RecoveryCycles[Kind(k)]
            /\ incident[k].recoveries = 0 \/ incident[k].recoveries <= -streak[k]

(***************************************************************************)
(* A condition that lasts is reported: once it was seen in OpenCycles      *)
(* consecutive cycles that lie after the cooldown window of the last       *)
(* recovery, the incident is active while a process runs.  (A process that *)
(* the store ends has counted a cycle it did not write.)                   *)
(***************************************************************************)
PastCooldown(k) ==
  incident[k].recovered = 0
    \/ cycle >= incident[k].recovered + Cooldown + OpenCycles[Kind(k)]

ConfirmedConditionIsActive ==
  running =>
    \A k \in Key \ {BlindSpot} :
      streak[k] >= OpenCycles[Kind(k)] /\ PastCooldown(k)
        => incident[k].status = "active"

(***************************************************************************)
(* README, incident rule table: an endpoint incident "recovers after 2     *)
(* healthy cycles".  Read literally: the cycle that recovers an endpoint   *)
(* did not find the problem of that endpoint.                              *)
(***************************************************************************)
RecoveredOnlyWhenHealthy ==
  [][\A e \in Endpoint :
       incident[e].status = "active" /\ incident'[e].status = "resolved"
         => e \notin failing']_vars

(***************************************************************************)
(* README: "later confirmed recurrence reopens it after the recurrence     *)
(* cooldown".  Read literally: Cooldown + OpenCycles consecutive cycles    *)
(* with the condition are enough for the incident to be active.            *)
(***************************************************************************)
RecurrenceReopensAfterCooldown ==
  \A k \in Key \ {BlindSpot} :
    streak[k] >= Cooldown + OpenCycles[Kind(k)] => incident[k].status = "active"
=============================================================================
