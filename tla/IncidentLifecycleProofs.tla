---------------------- MODULE IncidentLifecycleProofs ----------------------
(***************************************************************************)
(* Proofs about IncidentLifecycle for any endpoints, rule table, cooldown, *)
(* bound on the states and observations that satisfy LifecycleAssumption.  *)
(***************************************************************************)
EXTENDS IncidentLifecycle, TLAPS

\* The two passes of one cycle over the incident states.
Mid(facts) == AfterCycle(facts, cycle + 1)
Final(facts, stale) == AfterFreshness(Mid(facts), stale, cycle + 1)

\* The conditions the lifecycle sees in one cycle, in either pass.
Seen(facts, stale) ==
  (Conditions(facts) \ Suppressed(facts)) \cup {k \in {BlindSpot} : stale}

-----------------------------------------------------------------------------
(***************************************************************************)
(* Lemmas about one incident.                                              *)
(***************************************************************************)

\* The rule table has an entry for every incident.
LEMMA Thresholds ==
  ASSUME NEW k \in Key
  PROVE  /\ OpenCycles[Kind(k)] \in Nat \ {0}
         /\ RecoveryCycles[Kind(k)] \in Nat \ {0}
         /\ OpenCycles[Kind(k)] <= StreakCap
         /\ RecoveryCycles[Kind(k)] <= StreakCap
         /\ StreakCap \in Nat
<1>1. Kind(k) \in Kinds
  BY DEF Kind, Kinds
<1>2. /\ OpenCycles[Kind(k)] \in Nat \ {0}
      /\ RecoveryCycles[Kind(k)] \in Nat \ {0}
      /\ Cooldown \in Nat /\ StreakCap \in Nat
      /\ Cooldown + OpenCycles[Kind(k)] <= StreakCap
      /\ RecoveryCycles[Kind(k)] <= StreakCap
  BY <1>1, LifecycleAssumption DEF LifecycleAssumption
<1> QED
  BY <1>2

\* A failing cycle: an active incident stays active, and only the last of
\* OpenCycles confirmations opens another one.
LEMMA FailingStep ==
  ASSUME NEW s \in IncidentState, NEW k \in Key, NEW seq \in Nat
  PROVE  LET t == AdvanceFailing(s, k, seq)
         IN  /\ t \in IncidentState
             /\ s.status = "active" => t.status = "active" /\ t.recoveries = 0
             /\ s.status # "active" /\ t.status = "active"
                  => /\ t.recoveries = 0
                     /\ Confirmations(s) >= OpenCycles[Kind(k)]
             /\ t.status = "candidate"
                  => /\ t.failures = Confirmations(s)
                     /\ t.failures < OpenCycles[Kind(k)]
<1>1. /\ OpenCycles[Kind(k)] \in Nat
      /\ Confirmations(s) \in Nat
  BY Thresholds DEF Confirmations, IncidentState
<1>2. CASE s.status = "active"
  BY <1>2 DEF AdvanceFailing, FailAgain, IncidentState, Status
<1>3. CASE s.status = "resolved" /\ InsideCooldown(s, seq)
  BY <1>3 DEF AdvanceFailing
<1>4. CASE ~(s.status = "active") /\ ~(s.status = "resolved" /\ InsideCooldown(s, seq))
  <2>1. AdvanceFailing(s, k, seq) = Confirm(s, k)
    BY <1>4 DEF AdvanceFailing
  <2> QED
    BY <1>1, <1>4, <2>1 DEF Confirm, IncidentState, Status
<1> QED
  BY <1>2, <1>3, <1>4

\* A quiet cycle: no candidate remains, nothing opens, and an active incident
\* is resolved with the last of its RecoveryCycles quiet cycles.
LEMMA RecoveryStep ==
  ASSUME NEW s \in IncidentState, NEW k \in Key, NEW seq \in Nat
  PROVE  LET t == AdvanceRecovery(s, k, seq)
         IN  /\ t \in IncidentState
             /\ t.status # "candidate"
             /\ s.status # "active" => t.status # "active"
             /\ s.status = "active" => t.status \in {"active", "resolved"}
             /\ s.status = "active" /\ t.status = "active"
                  => /\ t.recoveries = s.recoveries + 1
                     /\ t.recoveries < RecoveryCycles[Kind(k)]
             /\ s.status = "active" /\ t.status = "resolved"
                  => s.recoveries + 1 >= RecoveryCycles[Kind(k)]
<1> DEFINE t == AdvanceRecovery(s, k, seq)
<1>1. RecoveryCycles[Kind(k)] \in Nat
  BY Thresholds
<1>2. /\ s.status = "candidate" => t = ClearCandidate(s)
      /\ s.status = "active" => t = CountRecovery(s, k, seq)
      /\ s.status \notin {"candidate", "active"} => t = s
  BY DEF AdvanceRecovery
<1> HIDE DEF t
<1>3. CASE s.status = "candidate"
  <2>1. \/ t = Absent
        \/ t = [s EXCEPT !.status = "resolved", !.failures = 0, !.recoveries = 0]
    BY <1>2, <1>3 DEF ClearCandidate
  <2>2. CASE t = Absent
    <3>1. t \in IncidentState /\ t.status = "absent"
      BY <2>2 DEF Absent, IncidentState, Status
    <3> QED
      BY <1>3, <3>1 DEF t
  <2>3. CASE t = [s EXCEPT !.status = "resolved", !.failures = 0, !.recoveries = 0]
    <3>1. t \in IncidentState
      BY <2>3 DEF IncidentState, Status
    <3>2. t.status = "resolved"
      BY <2>3 DEF IncidentState
    <3> QED
      BY <1>3, <3>1, <3>2 DEF t
  <2> QED
    BY <2>1, <2>2, <2>3
<1>4. CASE s.status = "active"
  <2>1. CASE s.recoveries + 1 >= RecoveryCycles[Kind(k)]
    <3>1. t = [s EXCEPT !.status = "resolved", !.recoveries = @ + 1, !.recovered = seq]
      BY <1>2, <1>4, <2>1 DEF CountRecovery
    <3>2. t \in IncidentState
      <4>1. t = [s EXCEPT !.status = "resolved", !.recoveries = s.recoveries + 1,
                          !.recovered = seq]
        BY <3>1
      <4>2. s.recoveries + 1 \in Nat
        BY DEF IncidentState
      <4> DEFINE r == s.recoveries + 1
      <4> HIDE DEF r
      <4>3. r \in Nat /\ t = [s EXCEPT !.status = "resolved", !.recoveries = r,
                                        !.recovered = seq]
        BY <4>1, <4>2 DEF r
      <4> QED
        BY <4>3 DEF IncidentState, Status
    <3>3. t.status = "resolved"
      BY <3>1 DEF IncidentState
    <3> QED
      BY <1>4, <2>1, <3>2, <3>3 DEF t
  <2>2. CASE ~(s.recoveries + 1 >= RecoveryCycles[Kind(k)])
    <3>1. t = [s EXCEPT !.recoveries = @ + 1]
      BY <1>2, <1>4, <2>2 DEF CountRecovery
    <3>2. /\ t \in IncidentState
          /\ t.status = "active"
          /\ t.recoveries = s.recoveries + 1
          /\ t.recoveries < RecoveryCycles[Kind(k)]
      BY <1>1, <1>4, <2>2, <3>1 DEF IncidentState, Status
    <3> QED
      BY <1>4, <3>2 DEF t
  <2> QED
    BY <2>1, <2>2
<1>5. CASE s.status \notin {"candidate", "active"}
  BY <1>2, <1>5 DEF t
<1> QED
  BY <1>3, <1>4, <1>5

-----------------------------------------------------------------------------
(***************************************************************************)
(* Lemmas about one cycle.                                                 *)
(***************************************************************************)

\* One pass leads every key to a well-formed state of its own.
LEMMA PassStep ==
  ASSUME NEW states \in [Key -> IncidentState], NEW conditions, NEW keys,
         NEW seq \in Nat
  PROVE  Advance(states, conditions, keys, seq) \in [Key -> IncidentState]
<1> DEFINE A == Advance(states, conditions, keys, seq)
<1>1. ASSUME NEW k \in Key
      PROVE  (IF k \in conditions THEN AdvanceFailing(states[k], k, seq)
              ELSE IF k \in keys THEN AdvanceRecovery(states[k], k, seq)
              ELSE states[k]) \in IncidentState
  <2>1. states[k] \in IncidentState
    OBVIOUS
  <2> QED
    BY <2>1, FailingStep, RecoveryStep
<1> QED
  BY <1>1 DEF Advance

\* The blind spot is the one incident no cycle finds by itself.
LEMMA BlindSpotIsNoFinding ==
  ASSUME NEW facts
  PROVE  BlindSpot \notin Conditions(facts)
  BY LifecycleAssumption
  DEF LifecycleAssumption, Conditions, EndpointProblem, Endpoint, BlindSpot,
      TargetWide, Observer

\* Which step each incident takes in the two passes.
LEMMA PassesOfKey ==
  ASSUME TypeOK, NEW facts, NEW stale \in BOOLEAN, NEW k \in Key
  PROVE  /\ cycle + 1 \in Nat
         /\ incident[k] \in IncidentState
         /\ Mid(facts)[k] \in IncidentState
         /\ Final(facts, stale)[k] \in IncidentState
         /\ k # BlindSpot
              => /\ Final(facts, stale)[k] = Mid(facts)[k]
                 /\ Mid(facts)[k] =
                      IF k \in Seen(facts, stale)
                      THEN AdvanceFailing(incident[k], k, cycle + 1)
                      ELSE AdvanceRecovery(incident[k], k, cycle + 1)
         /\ k = BlindSpot
              => /\ Mid(facts)[k] = AdvanceRecovery(incident[k], k, cycle + 1)
                 /\ Final(facts, stale)[k] =
                      IF k \in Seen(facts, stale)
                      THEN AdvanceFailing(Mid(facts)[k], k, cycle + 1)
                      ELSE AdvanceRecovery(Mid(facts)[k], k, cycle + 1)
<1>1. cycle + 1 \in Nat /\ incident \in [Key -> IncidentState]
  BY LifecycleAssumption DEF LifecycleAssumption, TypeOK
<1>2. Mid(facts) \in [Key -> IncidentState]
  BY <1>1, PassStep DEF Mid, AfterCycle
<1>3. Final(facts, stale) \in [Key -> IncidentState]
  BY <1>1, <1>2, PassStep DEF Final, AfterFreshness
<1>4. Mid(facts)[k] =
        IF k \in Conditions(facts) \ Suppressed(facts)
        THEN AdvanceFailing(incident[k], k, cycle + 1)
        ELSE AdvanceRecovery(incident[k], k, cycle + 1)
  BY DEF Mid, AfterCycle, Advance
<1>5. Final(facts, stale)[k] =
        IF k = BlindSpot /\ stale THEN AdvanceFailing(Mid(facts)[k], k, cycle + 1)
        ELSE IF k = BlindSpot THEN AdvanceRecovery(Mid(facts)[k], k, cycle + 1)
        ELSE Mid(facts)[k]
  BY DEF Final, AfterFreshness, Advance
<1>6. k # BlindSpot =>
        (k \in Seen(facts, stale) <=> k \in Conditions(facts) \ Suppressed(facts))
  BY DEF Seen
<1>7. k = BlindSpot => /\ k \notin Conditions(facts)
                       /\ k \in Seen(facts, stale) <=> stale
  BY BlindSpotIsNoFinding DEF Seen
<1> QED
  BY <1>1, <1>2, <1>3, <1>4, <1>5, <1>6, <1>7

\* What a cycle that fits the store writes for one incident.
LEMMA CycleEffect ==
  ASSUME TypeOK, NEW facts, NEW stale \in BOOLEAN, Cycle(facts, stale),
         NEW k \in Key
  PROVE  LET f == Final(facts, stale)[k]
         IN  /\ incident'[k] \in {f, Absent}
             /\ f.status \in {"active", "candidate"} => incident'[k] = f
             /\ lastIntent'[k] =
                  NewIntent(NewIntent(lastIntent[k], incident[k], Mid(facts)[k]),
                            Mid(facts)[k], f)
             /\ \/ f.status = "resolved" /\ k \in Seen(facts, stale) /\ streak'[k] = 0
                \/ k \in Seen(facts, stale) /\ streak'[k] = FailedStreak(streak[k])
                \/ k \notin Seen(facts, stale) /\ streak'[k] = QuietStreak(streak[k])
<1> DEFINE final == Final(facts, stale)
<1>1. PICK kept \in SUBSET Resolved(final) :
        /\ incident' = [i \in Key |-> IF i \in Mandatory(final) \cup kept
                                      THEN final[i] ELSE Absent]
        /\ RecordHistory(facts, stale, Resolved(final) \ kept)
  BY DEF Cycle, Mid, Final
<1>2. lastIntent' = WithIntents(WithIntents(lastIntent, incident, Mid(facts)),
                                Mid(facts), final)
  BY DEF Cycle, Mid, Final
<1>3. lastIntent'[k] =
        NewIntent(NewIntent(lastIntent[k], incident[k], Mid(facts)[k]),
                  Mid(facts)[k], final[k])
  BY <1>2 DEF WithIntents
<1>4. /\ incident'[k] = IF k \in Mandatory(final) \cup kept THEN final[k] ELSE Absent
      /\ final[k].status \in {"active", "candidate"} => k \in Mandatory(final)
  BY <1>1 DEF Mandatory
<1>5. \/ k \in Resolved(final) /\ k \in Seen(facts, stale) /\ streak'[k] = 0
      \/ k \in Seen(facts, stale) /\ streak'[k] = FailedStreak(streak[k])
      \/ k \notin Seen(facts, stale) /\ streak'[k] = QuietStreak(streak[k])
  BY <1>1 DEF RecordHistory, Seen
<1>6. k \in Resolved(final) => final[k].status = "resolved"
  BY DEF Resolved
<1> HIDE DEF final
<1>7. /\ incident'[k] \in {final[k], Absent}
      /\ final[k].status \in {"active", "candidate"} => incident'[k] = final[k]
  BY <1>4
<1> QED
  BY <1>3, <1>5, <1>6, <1>7 DEF final

-----------------------------------------------------------------------------
(***************************************************************************)
(* Type correctness.                                                       *)
(***************************************************************************)
LEMMA CycleTypes ==
  ASSUME TypeOK, NEW o \in Observations, Cycle(o.facts, o.stale)
  PROVE  TypeOK'
<1>1. o.stale \in BOOLEAN
  BY LifecycleAssumption DEF LifecycleAssumption
<1>2. running' \in BOOLEAN /\ starts' \in 0 .. MaxStarts /\ cycle' \in 0 .. MaxCycle
  BY LifecycleAssumption DEF LifecycleAssumption, TypeOK, Cycle
<1>3. /\ incident' = [k \in Key |-> incident'[k]]
      /\ lastIntent' = [k \in Key |-> lastIntent'[k]]
      /\ streak' = [k \in Key |-> streak'[k]]
  BY DEF Cycle, WithIntents, RecordHistory
<1>4. failing' \subseteq Key
  <2>1. PICK kept : RecordHistory(o.facts, o.stale, kept)
    BY DEF Cycle
  <2>2. Conditions(o.facts) \subseteq Key
    BY DEF Conditions, EndpointProblem, Key, Endpoint
  <2>3. BlindSpot \in Key
    BY DEF Key
  <2> QED
    BY <2>1, <2>2, <2>3 DEF RecordHistory
<1>5. ASSUME NEW k \in Key
      PROVE  /\ incident'[k] \in IncidentState
             /\ lastIntent'[k] \in Intents
             /\ streak'[k] \in Int
  <2>1. incident'[k] \in IncidentState
    <3>1. Absent \in IncidentState
      BY DEF Absent, IncidentState, Status
    <3> QED
      BY <1>1, <3>1, PassesOfKey, CycleEffect
  <2>2. lastIntent'[k] \in Intents
    <3>1. lastIntent[k] \in Intents
      BY DEF TypeOK
    <3> QED
      BY <1>1, <3>1, CycleEffect DEF NewIntent, Intents
  <2>3. streak'[k] \in Int
    <3>1. streak[k] \in Int /\ StreakCap \in Nat
      BY LifecycleAssumption DEF LifecycleAssumption, TypeOK
    <3>2. FailedStreak(streak[k]) \in Int /\ QuietStreak(streak[k]) \in Int
      BY <3>1 DEF FailedStreak, QuietStreak
    <3> QED
      BY <1>1, <3>2, CycleEffect
  <2> QED
    BY <2>1, <2>2, <2>3
<1> QED
  BY <1>2, <1>3, <1>4, <1>5 DEF TypeOK

\* The type invariant: it holds in every reachable state of any instance.
THEOREM TypeCorrect == Spec => []TypeOK
<1>1. Init => TypeOK
  <2> SUFFICES ASSUME Init PROVE TypeOK
    OBVIOUS
  <2>1. Absent \in IncidentState
    BY DEF Absent, IncidentState, Status
  <2>2. incident \in [Key -> IncidentState]
    BY <2>1 DEF Init
  <2>3. MaxStarts \in Nat /\ MaxCycle \in Nat
    BY LifecycleAssumption DEF LifecycleAssumption
  <2>4. lastIntent \in [Key -> Intents] /\ streak \in [Key -> Int]
    BY DEF Init, Intents
  <2>5. running \in BOOLEAN /\ failing \subseteq Key
    BY DEF Init
  <2>6. starts \in 0 .. MaxStarts /\ cycle \in 0 .. MaxCycle
    BY <2>3 DEF Init
  <2> QED
    BY <2>2, <2>4, <2>5, <2>6 DEF TypeOK
<1>2. TypeOK /\ [Next]_vars => TypeOK'
  <2> SUFFICES ASSUME TypeOK, [Next]_vars PROVE TypeOK'
    OBVIOUS
  <2>1. CASE Start
    <3>1. MaxStarts \in Nat /\ MaxCycle \in Nat
      BY LifecycleAssumption DEF LifecycleAssumption
    <3> QED
      BY <2>1, <3>1 DEF Start, TypeOK
  <2>2. CASE Stop
    BY <2>2 DEF Stop, TypeOK
  <2>3. ASSUME NEW o \in Observations, Cycle(o.facts, o.stale) PROVE TypeOK'
    BY <2>3, CycleTypes
  <2>4. ASSUME NEW o \in Observations, CycleOverBound(o.facts, o.stale) PROVE TypeOK'
    <3>1. MaxCycle \in Nat
      BY LifecycleAssumption DEF LifecycleAssumption
    <3>2. cycle' \in 0 .. MaxCycle
      BY <2>4, <3>1 DEF CycleOverBound, TypeOK
    <3>3. running' \in BOOLEAN
      BY <2>4 DEF CycleOverBound
    <3> QED
      BY <2>4, <3>2, <3>3 DEF CycleOverBound, TypeOK
  <2>5. CASE UNCHANGED vars
    BY <2>5 DEF vars, TypeOK
  <2> QED
    BY <2>1, <2>2, <2>3, <2>4, <2>5 DEF Next
<1> QED
  BY <1>1, <1>2, PTL DEF Spec

-----------------------------------------------------------------------------
(***************************************************************************)
(* What the operator was told is what the agent believes.                  *)
(***************************************************************************)

\* The intents of the two passes follow the state of an incident.
LEMMA CycleKeepsIntents ==
  ASSUME TypeOK, NEW o \in Observations, Cycle(o.facts, o.stale),
         IntentsMatchState, NEW k \in Key
  PROVE  incident'[k].status = "active" <=> lastIntent'[k] \in {"opened", "reopened"}
<1> DEFINE s == incident[k]
           m == Mid(o.facts)[k]
           f == Final(o.facts, o.stale)[k]
           midIntent == NewIntent(lastIntent[k], s, m)
<1>1. o.stale \in BOOLEAN
  BY LifecycleAssumption DEF LifecycleAssumption
<1>2. /\ s.status = "active" => m.status \in {"active", "resolved"}
      /\ m.status = "active" => f.status \in {"active", "resolved"}
  <2>1. /\ cycle + 1 \in Nat /\ s \in IncidentState /\ m \in IncidentState
        /\ m \in {AdvanceFailing(s, k, cycle + 1), AdvanceRecovery(s, k, cycle + 1)}
        /\ f \in {m, AdvanceFailing(m, k, cycle + 1), AdvanceRecovery(m, k, cycle + 1)}
    BY <1>1, PassesOfKey
  <2> HIDE DEF s, m, f
  <2> QED
    BY <2>1, FailingStep, RecoveryStep
<1>3. s.status = "active" <=> lastIntent[k] \in {"opened", "reopened"}
  BY DEF IntentsMatchState
<1>4. /\ lastIntent'[k] = NewIntent(midIntent, m, f)
      /\ incident'[k] \in {f, Absent}
      /\ f.status = "active" => incident'[k] = f
  BY <1>1, CycleEffect
<1> HIDE DEF s, m, f
<1>5. m.status = "active" <=> midIntent \in {"opened", "reopened"}
  BY <1>2, <1>3 DEF NewIntent
<1> HIDE DEF midIntent
<1>6. f.status = "active" <=> lastIntent'[k] \in {"opened", "reopened"}
  BY <1>2, <1>4, <1>5 DEF NewIntent
<1>7. Absent.status # "active"
  BY DEF Absent
<1> QED
  BY <1>4, <1>6, <1>7

\* IntentsMatchState for every instance: restarts, retention and a full store
\* never leave an open incident unannounced or a closed one announced as open.
THEOREM IntentsCorrect == Spec => []IntentsMatchState
<1>1. Init => IntentsMatchState
  BY DEF Init, IntentsMatchState, Absent
<1>2. TypeOK /\ IntentsMatchState /\ [Next]_vars => IntentsMatchState'
  <2> SUFFICES ASSUME TypeOK, IntentsMatchState, [Next]_vars
               PROVE  IntentsMatchState'
    OBVIOUS
  <2>1. CASE UNCHANGED <<incident, lastIntent>>
    BY <2>1 DEF IntentsMatchState
  <2>2. ASSUME NEW o \in Observations, Cycle(o.facts, o.stale)
        PROVE  IntentsMatchState'
    BY <2>2, CycleKeepsIntents DEF IntentsMatchState
  <2> QED
    BY <2>1, <2>2 DEF Next, Start, Stop, CycleOverBound, vars
<1> QED
  BY <1>1, <1>2, TypeCorrect, PTL DEF Spec

-----------------------------------------------------------------------------
(***************************************************************************)
(* Incidents open after enough failing cycles and recover after enough     *)
(* quiet ones.                                                             *)
(***************************************************************************)

\* The state and the streak of an incident other than the blind spot.
LEMMA CycleOfOrdinaryKey ==
  ASSUME TypeOK, CountsMatchStreaks, NEW o \in Observations,
         Cycle(o.facts, o.stale), NEW k \in Key, k # BlindSpot
  PROVE  /\ incident'[k].status = "candidate"
              => /\ incident'[k].failures < OpenCycles[Kind(k)]
                 /\ incident'[k].failures <= streak'[k]
         /\ incident'[k].status = "active"
              => /\ incident'[k].recoveries < RecoveryCycles[Kind(k)]
                 /\ incident'[k].recoveries = 0
                      \/ incident'[k].recoveries <= -streak'[k]
         /\ incident[k].status # "active" /\ incident'[k].status = "active"
              => streak'[k] >= OpenCycles[Kind(k)]
         /\ incident[k].status = "active" /\ incident'[k].status # "active"
              => -streak'[k] >= RecoveryCycles[Kind(k)]
<1> DEFINE s == incident[k]
           f == Final(o.facts, o.stale)[k]
           t == incident'[k]
           n == streak[k]
           n2 == streak'[k]
           open == OpenCycles[Kind(k)]
           recovery == RecoveryCycles[Kind(k)]
           seen == Seen(o.facts, o.stale)
<1>1. o.stale \in BOOLEAN
  BY LifecycleAssumption DEF LifecycleAssumption
<1>2. /\ open \in Nat \ {0} /\ recovery \in Nat \ {0} /\ StreakCap \in Nat
      /\ open <= StreakCap /\ recovery <= StreakCap
  BY Thresholds
<1>3. /\ s \in IncidentState /\ f \in IncidentState /\ cycle + 1 \in Nat
      /\ f = IF k \in seen THEN AdvanceFailing(s, k, cycle + 1)
                           ELSE AdvanceRecovery(s, k, cycle + 1)
  BY <1>1, PassesOfKey
<1>4. /\ t \in {f, Absent}
      /\ f.status \in {"active", "candidate"} => t = f
      /\ \/ f.status = "resolved" /\ k \in seen /\ n2 = 0
         \/ k \in seen /\ n2 = FailedStreak(n)
         \/ k \notin seen /\ n2 = QuietStreak(n)
  BY <1>1, CycleEffect
<1>5. /\ n \in Int
      /\ s.status = "candidate" => s.failures < open /\ s.failures <= n
      /\ s.status = "active" => /\ s.recoveries < recovery
                                /\ s.recoveries = 0 \/ s.recoveries <= -n
  BY DEF TypeOK, CountsMatchStreaks
<1>6. s.failures \in Nat /\ s.recoveries \in Nat
  BY <1>3 DEF IncidentState
<1>7. Absent.status = "absent"
  BY DEF Absent
<1>8. CASE k \in seen
  <2>1. /\ s.status = "active" => f.status = "active" /\ f.recoveries = 0
        /\ s.status # "active" /\ f.status = "active"
             => f.recoveries = 0 /\ Confirmations(s) >= open
        /\ f.status = "candidate" => f.failures = Confirmations(s) /\ f.failures < open
    BY <1>3, <1>8, FailingStep
  <2>2. n2 = FailedStreak(n) \/ f.status = "resolved"
    BY <1>4, <1>8
  <2> HIDE DEF s, f, t, n, n2, open, recovery, seen
  <2>3. n2 = FailedStreak(n)
          => n2 \in Int /\ (s.status # "active" => n2 >= Confirmations(s) \/ n2 >= open)
    BY <1>2, <1>5, <1>6 DEF FailedStreak, Confirmations
  <2>4. Confirmations(s) \in Nat
    BY <1>6 DEF Confirmations
  <2> DEFINE c == Confirmations(s)
  <2> HIDE DEF c
  <2>5. /\ t.status = "candidate" => t.failures < open /\ t.failures <= n2
        /\ t.status = "active" => t.recoveries = 0
        /\ s.status # "active" /\ t.status = "active" => n2 >= open
        /\ s.status = "active" => t.status = "active"
    <3>1. /\ s.status # "active" /\ f.status = "active" => n2 >= open
          /\ f.status = "candidate" /\ s.status # "active"
               => f.failures < open /\ f.failures <= n2
      BY <1>2, <2>1, <2>2, <2>3, <2>4 DEF c
    <3> QED
      BY <1>4, <1>7, <2>1, <3>1
  <2> QED
    BY <1>2, <2>5 DEF s, t, n2, open, recovery
<1>9. CASE k \notin seen
  <2>1. /\ f.status # "candidate"
        /\ s.status # "active" => f.status # "active"
        /\ s.status = "active" => f.status \in {"active", "resolved"}
        /\ s.status = "active" /\ f.status = "active"
             => f.recoveries = s.recoveries + 1 /\ f.recoveries < recovery
        /\ s.status = "active" /\ f.status = "resolved"
             => s.recoveries + 1 >= recovery
    BY <1>3, <1>9, RecoveryStep
  <2>2. n2 = QuietStreak(n)
    BY <1>4, <1>9
  <2> HIDE DEF s, f, t, n, n2, open, recovery, seen
  <2>3. s.status = "active" => s.recoveries + 1 <= -n2
    BY <1>2, <1>5, <1>6, <2>2 DEF QuietStreak
  <2>4. n2 \in Int
    BY <1>2, <1>5, <2>2 DEF QuietStreak
  <2>5. /\ t.status # "candidate"
        /\ t.status = "active"
             => s.status = "active" /\ t.recoveries = s.recoveries + 1
                  /\ t.recoveries < recovery
        /\ s.status = "active" /\ t.status # "active" => s.recoveries + 1 >= recovery
    BY <1>4, <1>7, <2>1
  <2>6. /\ t.status = "active" => t.recoveries < recovery /\ t.recoveries <= -n2
        /\ s.status = "active" /\ t.status # "active" => -n2 >= recovery
    BY <1>2, <1>6, <2>3, <2>4, <2>5
  <2> QED
    BY <2>5, <2>6 DEF s, t, n2, open, recovery
<1> QED
  BY <1>8, <1>9

\* The blind spot advances twice: its candidate never survives the first pass.
LEMMA CycleOfBlindSpot ==
  ASSUME TypeOK, CountsMatchStreaks, NEW o \in Observations,
         Cycle(o.facts, o.stale), NEW k \in Key, k = BlindSpot
  PROVE  /\ incident'[k].status = "candidate"
              => /\ incident'[k].failures < OpenCycles[Kind(k)]
                 /\ incident'[k].failures <= streak'[k]
         /\ incident[k].status # "active" /\ incident'[k].status = "active"
              => streak'[k] >= OpenCycles[Kind(k)]
<1> DEFINE s == incident[k]
           m == Mid(o.facts)[k]
           f == Final(o.facts, o.stale)[k]
           t == incident'[k]
           n == streak[k]
           n2 == streak'[k]
           open == OpenCycles[Kind(k)]
           seen == Seen(o.facts, o.stale)
<1>1. o.stale \in BOOLEAN
  BY LifecycleAssumption DEF LifecycleAssumption
<1>2. open \in Nat \ {0} /\ StreakCap \in Nat /\ open <= StreakCap
  BY Thresholds
<1>3. /\ s \in IncidentState /\ m \in IncidentState /\ cycle + 1 \in Nat
      /\ m = AdvanceRecovery(s, k, cycle + 1)
      /\ f = IF k \in seen THEN AdvanceFailing(m, k, cycle + 1)
                           ELSE AdvanceRecovery(m, k, cycle + 1)
  BY <1>1, PassesOfKey
<1>4. /\ t \in {f, Absent}
      /\ f.status \in {"active", "candidate"} => t = f
      /\ \/ f.status = "resolved" /\ k \in seen /\ n2 = 0
         \/ k \in seen /\ n2 = FailedStreak(n)
         \/ k \notin seen /\ n2 = QuietStreak(n)
  BY <1>1, CycleEffect
<1>5. Absent.status = "absent"
  BY DEF Absent
<1>6. /\ m.status # "candidate"
      /\ s.status # "active" => m.status # "active"
  BY <1>3, RecoveryStep
<1>7. Confirmations(m) = 1
  BY <1>6 DEF Confirmations
<1>8. CASE k \in seen
  <2>1. /\ m.status # "active" /\ f.status = "active" => 1 >= open
        /\ f.status = "candidate" => f.failures = 1 /\ f.failures < open
    BY <1>3, <1>7, <1>8, FailingStep
  <2>2. n2 = FailedStreak(n) \/ f.status = "resolved"
    BY <1>4, <1>8
  <2>3. n \in Int
    BY DEF TypeOK
  <2>4. FailedStreak(n) >= 1 /\ FailedStreak(n) \in Int
    BY <1>2, <2>3 DEF FailedStreak
  <2> HIDE DEF s, m, f, t, n, n2, open, seen
  <2>5. /\ t.status = "candidate" => t.failures < open /\ t.failures <= n2
        /\ s.status # "active" /\ t.status = "active" => n2 >= open
    BY <1>2, <1>4, <1>5, <1>6, <2>1, <2>2, <2>4
  <2> QED
    BY <2>5 DEF s, t, n2, open
<1>9. CASE k \notin seen
  <2>1. /\ f.status # "candidate"
        /\ s.status # "active" => f.status # "active"
    BY <1>3, <1>6, <1>9, RecoveryStep
  <2> HIDE DEF s, m, f, t, n, n2, open, seen
  <2>2. /\ t.status # "candidate"
        /\ s.status # "active" => t.status # "active"
    BY <1>4, <1>5, <2>1
  <2> QED
    BY <2>2 DEF s, t
<1> QED
  BY <1>8, <1>9

\* The strengthening: the counts of the state file never run ahead of history.
THEOREM CountsCorrect == Spec => []CountsMatchStreaks
<1>1. Init => CountsMatchStreaks
  BY DEF Init, CountsMatchStreaks, Absent
<1>2. TypeOK /\ CountsMatchStreaks /\ [Next]_vars => CountsMatchStreaks'
  <2> SUFFICES ASSUME TypeOK, CountsMatchStreaks, [Next]_vars
               PROVE  CountsMatchStreaks'
    OBVIOUS
  <2>1. CASE UNCHANGED <<incident, streak>>
    BY <2>1 DEF CountsMatchStreaks
  <2>2. ASSUME NEW o \in Observations, Cycle(o.facts, o.stale)
        PROVE  CountsMatchStreaks'
    BY <2>2, CycleOfOrdinaryKey, CycleOfBlindSpot DEF CountsMatchStreaks
  <2> QED
    BY <2>1, <2>2 DEF Next, Start, Stop, CycleOverBound, vars
<1> QED
  BY <1>1, <1>2, TypeCorrect, PTL DEF Spec

\* OpenedOnlyWhenConfirmed for every instance and every rule table.
THEOREM OpenedCorrect == Spec => OpenedOnlyWhenConfirmed
<1> DEFINE Opened == \A k \in Key :
                       incident[k].status # "active" /\ incident'[k].status = "active"
                         => streak'[k] >= OpenCycles[Kind(k)]
<1>1. TypeOK /\ CountsMatchStreaks /\ [Next]_vars => [Opened]_vars
  <2> SUFFICES ASSUME TypeOK, CountsMatchStreaks, Next
               PROVE  Opened
    OBVIOUS
  <2>1. CASE UNCHANGED incident
    BY <2>1
  <2>2. ASSUME NEW o \in Observations, Cycle(o.facts, o.stale)
        PROVE  Opened
    BY <2>2, CycleOfOrdinaryKey, CycleOfBlindSpot
  <2> QED
    BY <2>1, <2>2 DEF Next, Start, Stop, CycleOverBound
<1> QED
  BY <1>1, TypeCorrect, CountsCorrect, PTL DEF Spec, OpenedOnlyWhenConfirmed

\* RecoveredOnlyWhenQuiet for every instance and every rule table.
THEOREM RecoveredCorrect == Spec => RecoveredOnlyWhenQuiet
<1> DEFINE Quiet == \A k \in Key \ {BlindSpot} :
                      incident[k].status = "active" /\ incident'[k].status # "active"
                        => /\ lastIntent'[k] = "recovered"
                           /\ -streak'[k] >= RecoveryCycles[Kind(k)]
<1>1. TypeOK /\ TypeOK' /\ CountsMatchStreaks /\ IntentsMatchState /\ [Next]_vars
        => [Quiet]_vars
  <2> SUFFICES ASSUME TypeOK, TypeOK', CountsMatchStreaks, IntentsMatchState, Next
               PROVE  Quiet
    OBVIOUS
  <2>1. CASE UNCHANGED incident
    BY <2>1
  <2>2. ASSUME NEW o \in Observations, Cycle(o.facts, o.stale)
        PROVE  Quiet
    <3>1. ASSUME NEW k \in Key, k # BlindSpot,
                 incident[k].status = "active", incident'[k].status # "active"
          PROVE  lastIntent'[k] = "recovered"
      <4> DEFINE m == Mid(o.facts)[k]
      <4>1. o.stale \in BOOLEAN
        BY LifecycleAssumption DEF LifecycleAssumption
      <4>2. /\ incident[k] \in IncidentState /\ cycle + 1 \in Nat
            /\ m \in {AdvanceFailing(incident[k], k, cycle + 1),
                      AdvanceRecovery(incident[k], k, cycle + 1)}
            /\ Final(o.facts, o.stale)[k] = m
        BY <3>1, <4>1, PassesOfKey
      <4>3. m.status \in {"active", "resolved"}
        BY <3>1, <4>2, FailingStep, RecoveryStep
      <4>4. /\ m.status = "active" => incident'[k] = m
            /\ lastIntent'[k] = NewIntent(NewIntent(lastIntent[k], incident[k], m), m, m)
        BY <2>2, <4>1, <4>2, CycleEffect
      <4> HIDE DEF m
      <4>5. m.status = "resolved"
        BY <3>1, <4>3, <4>4
      <4> QED
        BY <3>1, <4>4, <4>5 DEF NewIntent
    <3> QED
      BY <2>2, <3>1, CycleOfOrdinaryKey
  <2> QED
    BY <2>1, <2>2 DEF Next, Start, Stop, CycleOverBound
<1> QED
  BY <1>1, TypeCorrect, CountsCorrect, IntentsCorrect, PTL
  DEF Spec, RecoveredOnlyWhenQuiet

-----------------------------------------------------------------------------
(***************************************************************************)
(* A lasting condition is reported.                                        *)
(***************************************************************************)

(***************************************************************************)
(* The strengthening: what a failure streak of an incident that is not     *)
(* active has to say for itself.  An incident the store does not know has  *)
(* none; a candidate has counted all of it, or all of it that lies after   *)
(* the cooldown; a resolved incident is still inside its cooldown.         *)
(***************************************************************************)
StreakAccounted(k) ==
  LET s == incident[k]
  IN  /\ s.status = "absent" => streak[k] <= 0
      /\ s.status = "candidate" =>
           \/ streak[k] <= s.failures
           \/ s.recovered # 0 /\ (running => cycle - s.recovered - Cooldown <= s.failures)
      /\ s.status = "resolved" =>
           /\ s.recovered # 0
           /\ streak[k] > 0 /\ running => cycle - s.recovered <= Cooldown

StreaksAccounted == \A k \in Key \ {BlindSpot} : StreakAccounted(k)

\* Where a failing incident that does not open comes to stand.
LEMMA FailingPlace ==
  ASSUME NEW s \in IncidentState, NEW k \in Key, NEW seq \in Nat
  PROVE  LET t == AdvanceFailing(s, k, seq)
         IN  \/ t.status = "active"
             \/ t.status = "candidate" /\ s.status # "active"
                  /\ t.failures = Confirmations(s) /\ t.recovered = s.recovered
             \/ t = s /\ s.status = "resolved" /\ seq - s.recovered <= Cooldown
<1>1. CASE s.status = "active"
  BY <1>1 DEF AdvanceFailing, FailAgain, IncidentState
<1>2. CASE s.status = "resolved" /\ InsideCooldown(s, seq)
  BY <1>2 DEF AdvanceFailing, InsideCooldown
<1>3. CASE ~(s.status = "active") /\ ~(s.status = "resolved" /\ InsideCooldown(s, seq))
  <2>1. AdvanceFailing(s, k, seq) = Confirm(s, k)
    BY <1>3 DEF AdvanceFailing
  <2> QED
    BY <1>3, <2>1 DEF Confirm
<1> QED
  BY <1>1, <1>2, <1>3

\* A quiet incident that ends up resolved knows the cycle of its recovery.
LEMMA QuietPlace ==
  ASSUME NEW s \in IncidentState, NEW k \in Key, NEW seq \in Nat \ {0},
         s.status = "resolved" => s.recovered # 0
  PROVE  LET t == AdvanceRecovery(s, k, seq)
         IN  t.status = "resolved" => t.recovered # 0
<1> DEFINE t == AdvanceRecovery(s, k, seq)
<1>1. CASE s.status = "candidate"
  BY <1>1 DEF AdvanceRecovery, ClearCandidate, IncidentState, Absent
<1>2. CASE s.status = "active"
  <2>1. t = CountRecovery(s, k, seq)
    BY <1>2 DEF AdvanceRecovery
  <2>2. CASE s.recoveries + 1 >= RecoveryCycles[Kind(k)]
    BY <2>1, <2>2 DEF CountRecovery, IncidentState
  <2>3. CASE ~(s.recoveries + 1 >= RecoveryCycles[Kind(k)])
    BY <1>2, <2>1, <2>3 DEF CountRecovery, IncidentState
  <2> QED
    BY <2>2, <2>3
<1>3. CASE s.status \notin {"candidate", "active"}
  BY <1>3 DEF AdvanceRecovery
<1> QED
  BY <1>1, <1>2, <1>3

\* The store forgets a failing incident together with its streak.
LEMMA ForgottenStreak ==
  ASSUME TypeOK, NEW facts, NEW stale \in BOOLEAN, Cycle(facts, stale),
         NEW k \in Key, k \in Seen(facts, stale),
         Final(facts, stale)[k].status = "resolved",
         incident'[k].status # "resolved"
  PROVE  streak'[k] = 0
<1> DEFINE final == Final(facts, stale)
<1>1. PICK kept \in SUBSET Resolved(final) :
        /\ incident' = [i \in Key |-> IF i \in Mandatory(final) \cup kept
                                      THEN final[i] ELSE Absent]
        /\ RecordHistory(facts, stale, Resolved(final) \ kept)
  BY DEF Cycle, Mid, Final
<1>2. k \in Resolved(final)
  BY DEF Resolved
<1> HIDE DEF final
<1>3. k \notin kept
  <2>1. incident'[k] = IF k \in Mandatory(final) \cup kept THEN final[k] ELSE Absent
    BY <1>1
  <2> QED
    BY <2>1 DEF final
<1> QED
  BY <1>1, <1>2, <1>3 DEF RecordHistory, Seen

\* One cycle accounts for the streak it records.
LEMMA CycleAccountsStreak ==
  ASSUME TypeOK, NEW o \in Observations, Cycle(o.facts, o.stale),
         NEW k \in Key, k # BlindSpot, StreakAccounted(k)
  PROVE  StreakAccounted(k)'
<1> DEFINE s == incident[k]
           f == Final(o.facts, o.stale)[k]
           t == incident'[k]
           n == streak[k]
           n2 == streak'[k]
           seq == cycle + 1
           seen == Seen(o.facts, o.stale)
<1>1. o.stale \in BOOLEAN
  BY LifecycleAssumption DEF LifecycleAssumption
<1>2. StreakCap \in Nat \ {0} /\ Cooldown \in Nat
  BY Thresholds, LifecycleAssumption DEF LifecycleAssumption
<1>3. /\ s \in IncidentState /\ f \in IncidentState
      /\ f = IF k \in seen THEN AdvanceFailing(s, k, seq) ELSE AdvanceRecovery(s, k, seq)
  BY <1>1, PassesOfKey
<1>4. /\ t \in {f, Absent}
      /\ f.status \in {"active", "candidate"} => t = f
      /\ \/ f.status = "resolved" /\ k \in seen /\ n2 = 0
         \/ k \in seen /\ n2 = FailedStreak(n)
         \/ k \notin seen /\ n2 = QuietStreak(n)
  BY <1>1, CycleEffect
<1>5. n \in Int /\ cycle \in Nat /\ seq \in Nat \ {0}
  BY LifecycleAssumption DEF LifecycleAssumption, TypeOK
<1>6. s.failures \in Nat /\ s.recovered \in Nat
  BY <1>3 DEF IncidentState
<1>7. Absent.status = "absent"
  BY DEF Absent
<1>8. running /\ running' /\ cycle' = seq
  BY DEF Cycle
<1>9. /\ s.status = "absent" => n <= 0
      /\ s.status = "candidate" =>
           n <= s.failures \/ (s.recovered # 0 /\ cycle - s.recovered - Cooldown <= s.failures)
      /\ s.status = "resolved" =>
           s.recovered # 0 /\ (n > 0 => cycle - s.recovered <= Cooldown)
  BY <1>8 DEF StreakAccounted
<1>10. /\ t.status = "absent" => n2 <= 0
       /\ t.status = "candidate" =>
            n2 <= t.failures \/ (t.recovered # 0 /\ seq - t.recovered - Cooldown <= t.failures)
       /\ t.status = "resolved" =>
            t.recovered # 0 /\ (n2 > 0 => seq - t.recovered <= Cooldown)
  <2>1. CASE k \in seen
    <3>1. \/ f.status = "active"
          \/ f.status = "candidate" /\ s.status # "active"
               /\ f.failures = Confirmations(s) /\ f.recovered = s.recovered
          \/ f = s /\ s.status = "resolved" /\ seq - s.recovered <= Cooldown
      BY <1>3, <1>5, <2>1, FailingPlace
    <3>2. CASE f.status = "active"
      BY <1>4, <3>2
    <3>3. CASE f.status = "candidate" /\ s.status # "active"
               /\ f.failures = Confirmations(s) /\ f.recovered = s.recovered
      <4>1. t = f /\ n2 = FailedStreak(n)
        BY <1>4, <2>1, <3>3
      <4>2. n2 \in Int /\ (n <= 0 => n2 <= 1) /\ (n > 0 => n2 <= n + 1)
        BY <1>2, <1>5, <4>1 DEF FailedStreak
      <4>3. s.status \in {"absent", "candidate", "resolved"}
        BY <1>3, <3>3 DEF IncidentState, Status
      <4>4. /\ t.failures = IF s.status = "candidate" THEN s.failures + 1 ELSE 1
            /\ t.recovered = s.recovered /\ t.status = "candidate"
        BY <3>3, <4>1 DEF Confirmations
      <4>5. seq = cycle + 1
        OBVIOUS
      <4> HIDE DEF s, f, t, n, n2, seq, seen
      <4>6. \/ n2 <= t.failures
            \/ t.recovered # 0 /\ seq - t.recovered - Cooldown <= t.failures
        BY <1>2, <1>5, <1>6, <1>9, <4>2, <4>3, <4>4, <4>5
      <4> QED
        BY <4>4, <4>6
    <3>4. CASE f = s /\ s.status = "resolved" /\ seq - s.recovered <= Cooldown
      <4>1. t.status # "resolved" => n2 = 0
        BY <1>1, <2>1, <3>4, ForgottenStreak
      <4>2. t = f \/ t = Absent
        BY <1>4
      <4> HIDE DEF s, f, t, n, n2, seq, seen
      <4> QED
        BY <1>7, <1>9, <3>4, <4>1, <4>2
    <3> QED
      BY <3>1, <3>2, <3>3, <3>4
  <2>2. CASE k \notin seen
    <3>1. f.status # "candidate" /\ (f.status = "resolved" => f.recovered # 0)
      BY <1>3, <1>5, <1>9, <2>2, RecoveryStep, QuietPlace
    <3>2. n2 \in Int /\ n2 <= 0
      <4>1. n2 = QuietStreak(n)
        BY <1>4, <2>2
      <4> QED
        BY <1>2, <1>5, <4>1 DEF QuietStreak
    <3> HIDE DEF s, f, t, n, n2, seq, seen
    <3> QED
      BY <1>4, <1>7, <3>1, <3>2
  <2> QED
    BY <2>1, <2>2
<1> QED
  BY <1>8, <1>10 DEF StreakAccounted

\* Every streak stays accounted for, across restarts and a failing store.
LEMMA StreaksAccountedCorrect == Spec => []StreaksAccounted
<1>1. Init => StreaksAccounted
  BY DEF Init, StreaksAccounted, StreakAccounted, Absent
<1>2. TypeOK /\ StreaksAccounted /\ [Next]_vars => StreaksAccounted'
  <2> SUFFICES ASSUME TypeOK, StreaksAccounted, [Next]_vars,
                      NEW k \in Key, k # BlindSpot
               PROVE  StreakAccounted(k)'
    BY DEF StreaksAccounted
  <2>1. StreakAccounted(k)
    BY DEF StreaksAccounted
  <2>2. incident[k].failures \in Nat /\ incident[k].recovered \in Nat /\ Cooldown \in Nat
    BY LifecycleAssumption DEF LifecycleAssumption, TypeOK, IncidentState
  <2>3. CASE Start
    BY <2>1, <2>2, <2>3 DEF Start, StreakAccounted
  <2>4. CASE UNCHANGED <<incident, streak>> /\ ~running'
    BY <2>1, <2>4 DEF StreakAccounted
  <2>5. CASE UNCHANGED vars
    BY <2>1, <2>5 DEF vars, StreakAccounted
  <2>6. ASSUME NEW o \in Observations, Cycle(o.facts, o.stale)
        PROVE  StreakAccounted(k)'
    BY <2>1, <2>6, CycleAccountsStreak
  <2> QED
    BY <2>3, <2>4, <2>5, <2>6 DEF Next, Stop, CycleOverBound
<1> QED
  BY <1>1, <1>2, TypeCorrect, PTL DEF Spec

\* ConfirmedConditionIsActive for every instance and every rule table.
THEOREM ConfirmedCorrect == Spec => []ConfirmedConditionIsActive
<1>1. TypeOK /\ CountsMatchStreaks /\ StreaksAccounted => ConfirmedConditionIsActive
  <2> SUFFICES ASSUME TypeOK, CountsMatchStreaks, StreaksAccounted, running,
                      NEW k \in Key, k # BlindSpot,
                      streak[k] >= OpenCycles[Kind(k)], PastCooldown(k)
               PROVE  incident[k].status = "active"
    BY DEF ConfirmedConditionIsActive
  <2> DEFINE s == incident[k]
             n == streak[k]
             open == OpenCycles[Kind(k)]
  <2>1. open \in Nat \ {0} /\ Cooldown \in Nat /\ cycle \in Nat /\ n \in Int
    BY Thresholds, LifecycleAssumption DEF LifecycleAssumption, TypeOK
  <2>2. s \in IncidentState
    BY DEF TypeOK
  <2>3. s.status \in Status /\ s.failures \in Nat /\ s.recovered \in Nat
    BY <2>2 DEF IncidentState
  <2>4. s.status = "candidate" => s.failures < open
    BY DEF CountsMatchStreaks
  <2>5. /\ s.status = "absent" => n <= 0
        /\ s.status = "candidate" =>
             n <= s.failures \/ (s.recovered # 0 /\ cycle - s.recovered - Cooldown <= s.failures)
        /\ s.status = "resolved" =>
             s.recovered # 0 /\ (n > 0 => cycle - s.recovered <= Cooldown)
    BY DEF StreaksAccounted, StreakAccounted
  <2>6. n >= open /\ (s.recovered = 0 \/ cycle >= s.recovered + Cooldown + open)
    BY DEF PastCooldown
  <2> HIDE DEF s, n, open
  <2>7. s.status = "active"
    BY <2>1, <2>3, <2>4, <2>5, <2>6 DEF Status
  <2> QED
    BY <2>7 DEF s
<1> QED
  BY <1>1, TypeCorrect, CountsCorrect, StreaksAccountedCorrect, PTL
=============================================================================
