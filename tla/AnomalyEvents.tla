---------------------------- MODULE AnomalyEvents ----------------------------
(***************************************************************************)
(* From the measurements of one water meter to the mails about it:         *)
(*   vodomery_anomaly.py   scores new measurements,                        *)
(*   vodomery_events.py    turns runs of scores into events,               *)
(*   alerting/service.py   mails the events that a run has touched,        *)
(* which quarter_hour_job of the scheduler runs in this order, the steps   *)
(* that an operator may start of it alone, and the second half of          *)
(* database/outlier_review_apply.py, with which an API process scores and  *)
(* replays the whole meter again when the verdict on one of its            *)
(* measurements changes.                                                   *)
(*                                                                         *)
(* One model version, one type of event and one alert rule, which takes    *)
(* active and resolved events of a minimal duration.  A score is reduced   *)
(* to whether it triggers the event.  A measurement is named by its id,    *)
(* which also stands for its date: that readings come in order is what     *)
(* MeterImport is about.                                                   *)
(***************************************************************************)
EXTENDS Integers, SequencesExt

CONSTANTS
  MinConsecutive,  \* min_consecutive of the type of event
  MinDuration,     \* min_duration_minutes of the rule, in measurements
  SmtpTries,       \* _OUTLOOK_SMTP_MAX_ATTEMPTS: tries of one call to send a mail
  None,            \* no start, no transaction
  MaxMeasurements, \* bound: measurements that are imported
  MaxMissing,      \* bound: measurements without a profile
  MaxRebuilds,     \* bound: verdicts that are changed
  MaxFailures      \* bound: crashes of the scheduler and mails that raise

ASSUME EventsAssumption ==
  /\ MinConsecutive \in Nat \ {0} /\ SmtpTries \in Nat \ {0}
  /\ {MinDuration, MaxMeasurements, MaxMissing, MaxRebuilds, MaxFailures} \subseteq Nat

VARIABLES
  measurements,  \* what each measurement is for the scoring, by id
  cursor,        \* last_measurement_id of the scoring state
  scores,        \* rows of vodomery_anomaly_scores
  engine,        \* last_score_id of the event engine state
  state,         \* the row of vodomery_event_state, if there is one
  events,        \* rows of vodomery_anomaly_events
  deliveries,    \* rows of vodomery_alert_deliveries
  scoreIds, stateIds,  \* the sequences of two of these tables
  at,            \* where quarter_hour_job, or a step of it that is run by hand, is
  mode,          \* which of them it is; "job" while nothing runs
  scoring,       \* the open transaction of score_new_measurements: what it read
  work,          \* the open transaction of detect_events_from_scores
  found,         \* what it returned, until the alerts are done
  rebuild,       \* the open transaction of apply_outlier_review_update
  mails,         \* history: the copies that were mailed, by event and kind
  overlapped,    \* history: the job did something during a rebuild
  interrupted,   \* history: the alerts of some run were not completed
  silent,        \* history: a detection by hand has dropped what it found
  rebuilds, failures

tables == <<measurements, cursor, scores, engine, state, events, deliveries>>
sequences == <<scoreIds, stateIds>>
job == <<at, mode, scoring, work, found>>
counts == <<rebuilds, failures>>
vars == <<tables, sequences, job, rebuild, mails, overlapped, interrupted, silent, counts>>

\* "none": not valid, synthetic, a reset, without a delta, or no model version is
\* selected for its time.  "missing": the selected version has no profile for its slot;
\* it may as well be the measurement of another meter, in the same batch.
Heat == {"hot", "cold", "none", "missing"}

Init ==
  /\ measurements = <<>> /\ cursor = 0
  /\ scores = {} /\ engine = 0 /\ state = {}
  /\ events = {} /\ deliveries = {}
  /\ scoreIds = 0 /\ stateIds = 0
  /\ at = "idle" /\ mode = "job" /\ scoring = None /\ work = None /\ found = {}
  /\ rebuild = None
  /\ mails = <<>> /\ overlapped = FALSE /\ interrupted = FALSE /\ silent = FALSE
  /\ rebuilds = 0 /\ failures = 0

-----------------------------------------------------------------------------
(***************************************************************************)
(* Imports, and the scoring.                                               *)
(***************************************************************************)
\* quarter_hour_job imports before it scores.  The imports of another job may
\* come later, to the same effect: the later steps do not look at measurements.
Import(heat) ==
  /\ at = "idle"
  /\ Len(measurements) < MaxMeasurements
  /\ heat = "missing" =>
       Cardinality({i \in DOMAIN measurements : measurements[i] = "missing"}) < MaxMissing
  /\ measurements' = Append(measurements, heat)
  /\ UNCHANGED <<cursor, scores, engine, state, events, deliveries, sequences, job,
                 rebuild, mails, overlapped, interrupted, silent, counts>>

\* A row of vodomery_anomaly_scores for each of the measurements, in their order.
Unscored == {"none", "missing"}
ScoreRows(ids, heat) ==
  LET due == {i \in ids : heat[i] \notin Unscored}
  IN {[id |-> scoreIds + Cardinality({j \in due : j <= i}), m |-> i,
       hot |-> heat[i] = "hot", processed |-> FALSE] : i \in due}

\* The job gets to the scoring, or the scoring is run alone, by hand.  It reads the
\* measurements from its cursor on.  The batch is limited over all meters, so it
\* ends at any of this one's.
ScoreRead(last) ==
  /\ at = "idle"
  /\ scoring' = [i \in cursor + 1 .. last |-> measurements[i]]
  /\ at' = "score" /\ mode' \in {"job", "score"}
  /\ UNCHANGED <<tables, sequences, work, found, rebuild, mails, overlapped,
                 interrupted, silent, counts>>

\* No meter has anything new to score, and the job goes on.
ScoreNothing ==
  /\ at = "idle"
  /\ \A i \in cursor + 1 .. Len(measurements) : measurements[i] = "none"
  /\ at' = "detect"
  /\ UNCHANGED <<tables, sequences, mode, scoring, work, found, rebuild, mails,
                 overlapped, interrupted, silent, counts>>

\* An operator runs the detection alone.
ManualDetect ==
  /\ at = "idle"
  /\ at' = "detect" /\ mode' = "detect"
  /\ UNCHANGED <<tables, sequences, scoring, work, found, rebuild, mails, overlapped,
                 interrupted, silent, counts>>

\* The selected version has no profile for the slot of one of them.
ScoreMisses == "missing" \in Range(scoring)

\* It raises with nothing inserted and with the cursor where it was, so the next run
\* reads the same measurement again.
ScoreRaises ==
  /\ at = "score" /\ ScoreMisses
  /\ scoring' = None /\ at' = "idle" /\ mode' = "job"
  /\ UNCHANGED <<tables, sequences, work, found, rebuild, mails, overlapped,
                 interrupted, silent, counts>>

\* A row for a measurement waits for a rebuild that has taken the measurement away.
ScoreMustWait ==
  rebuild # None /\ \E i \in rebuild.from .. rebuild.upto :
                      i \in DOMAIN scoring /\ scoring[i] # "none"

\* Mutant: without ON CONFLICT DO NOTHING.
ScoreAgain ==
  /\ at = "score" /\ ~ScoreMisses /\ ~ScoreMustWait
  /\ LET rows == ScoreRows(DOMAIN scoring, scoring)
     IN /\ scores' = scores \cup rows
        /\ scoreIds' = scoreIds + Cardinality(rows)
  /\ cursor' = Max(DOMAIN scoring)
  /\ scoring' = None /\ mode' = "job"
  /\ at' = IF mode = "score" THEN "idle" ELSE "detect"
  /\ overlapped' = (overlapped \/ rebuild # None)
  /\ UNCHANGED <<measurements, engine, state, events, deliveries, stateIds,
                 work, found, rebuild, mails, interrupted, silent, counts>>

ScoreCommit ==
  /\ at = "score" /\ ~ScoreMisses /\ ~ScoreMustWait
  /\ LET known == {s.m : s \in scores}
         rows == ScoreRows(DOMAIN scoring \ known, scoring)
     IN /\ scores' = scores \cup rows
        /\ scoreIds' = scoreIds + Cardinality(rows)
  /\ cursor' = Max(DOMAIN scoring)
  /\ scoring' = None /\ mode' = "job"
  /\ at' = IF mode = "score" THEN "idle" ELSE "detect"
  /\ overlapped' = (overlapped \/ rebuild # None)
  /\ UNCHANGED <<measurements, engine, state, events, deliveries, stateIds,
                 work, found, rebuild, mails, interrupted, silent, counts>>

\* An insert that has waited fails when the rebuild commits: its statement does
\* not see the measurement that has come back, which violates the foreign key.
ScoreRollBack ==
  /\ at = "score" /\ ~ScoreMisses /\ ScoreMustWait
  /\ scoring' = None /\ at' = "idle" /\ mode' = "job"
  /\ UNCHANGED <<tables, sequences, work, found, rebuild, mails, overlapped,
                 interrupted, silent, counts>>

-----------------------------------------------------------------------------
(***************************************************************************)
(* The loop over scores, the same in detect_events_from_scores and in      *)
(* _rebuild_events_for_ident.  "w" is the loop's: the scores to do, the    *)
(* fields of the state row, the event of active_lookup (a set of at most   *)
(* one), the events it has closed, and the candidates for alerts.          *)
(***************************************************************************)
\* Mutant: without max(.., 0).
SignedDuration(start, m) == m - start

\* _duration_minutes
Duration(start, m) == IF m < start THEN 0 ELSE m - start

\* The events that a loop leaves to be written.
Written(w) == w.closed \cup w.event
Ids(rows) == {r.id : r \in rows}

\* A row that is inserted gets an id that no other has had.
WorkIds == IF work = None THEN {} ELSE Ids(Written(work.loop))
RebuildIds == IF rebuild = None \/ rebuild.loop = None THEN {} ELSE Ids(Written(rebuild.loop))
EventIds ==
  Ids(events) \cup {c.event : c \in DOMAIN mails} \cup WorkIds \cup RebuildIds

NewEvent(start, m) ==
  [id |-> Max(EventIds \cup {0}) + 1, start |-> start,
   duration |-> Duration(start, m), active |-> TRUE]

\* An event that is not in active_lookup is none to update.
Updated(event, m, active) ==
  {[id |-> e.id, start |-> e.start, duration |-> Duration(e.start, m),
    active |-> active] : e \in event}

Opens(w) == ~w.active /\ w.count + 1 >= MinConsecutive

\* active_event_candidates and resolved_event_candidates keep one event each.
Candidates(w, event, kind) ==
  {c \in w.candidates : event # {} => c.kind # kind}
    \cup {[event |-> e.id, kind |-> kind] : e \in event}

\* Mutant: only an event that opens is a candidate for an alert.
JudgeHotOnce(w, s) ==
  LET m == s.m
      start == IF w.count = 0 THEN m ELSE w.start
      event == IF Opens(w) THEN {NewEvent(start, m)}
               ELSE IF w.active THEN Updated(w.event, m, TRUE) ELSE w.event
  IN [todo |-> w.todo \ {s}, count |-> w.count + 1, start |-> start,
      active |-> w.active \/ Opens(w), event |-> event, closed |-> w.closed,
      candidates |-> IF Opens(w) THEN Candidates(w, event, "ACTIVE") ELSE w.candidates]

JudgeHot(w, s) ==
  LET m == s.m
      start == IF w.count = 0 THEN m ELSE w.start
      active == w.active \/ Opens(w)
      event == IF Opens(w) THEN {NewEvent(start, m)}
               ELSE IF w.active THEN Updated(w.event, m, TRUE) ELSE w.event
  IN [todo |-> w.todo \ {s}, count |-> w.count + 1, start |-> start, active |-> active,
      event |-> event, closed |-> w.closed,
      candidates |-> IF active THEN Candidates(w, event, "ACTIVE") ELSE w.candidates]

\* Mutant: is_active of the event is not reset.
JudgeColdStaysActive(w, s) ==
  LET ended == IF w.active THEN Updated(w.event, s.m, TRUE) ELSE {}
  IN [todo |-> w.todo \ {s}, count |-> 0, start |-> None, active |-> FALSE,
      event |-> IF w.active THEN {} ELSE w.event, closed |-> w.closed \cup ended,
      candidates |-> Candidates(w, ended, "RESOLVED")]

JudgeCold(w, s) ==
  LET ended == IF w.active THEN Updated(w.event, s.m, FALSE) ELSE {}
  IN [todo |-> w.todo \ {s}, count |-> 0, start |-> None, active |-> FALSE,
      event |-> IF w.active THEN {} ELSE w.event, closed |-> w.closed \cup ended,
      candidates |-> Candidates(w, ended, "RESOLVED")]

Judge(w, s) == IF s.hot THEN JudgeHot(w, s) ELSE JudgeCold(w, s)

\* The scores are judged in the order of their ids.
IsNext(s, w) == s \in w.todo /\ \A r \in w.todo : s.id <= r.id

\* The loop starts with the scores, the state row and the active event, which it
\* looks at only while the state is active.
Loop(rows, row, active) ==
  LET known == CHOOSE r \in row : TRUE
  IN [todo |-> rows,
      count |-> IF row = {} THEN 0 ELSE known.count,
      start |-> IF row = {} THEN None ELSE known.start,
      active |-> IF row = {} THEN FALSE ELSE known.active,
      event |-> {e \in active : row # {} /\ known.active}, closed |-> {}, candidates |-> {}]

StateRow(id, w) == [id |-> id, count |-> w.count, start |-> w.start, active |-> w.active]
Active(rows) == {e \in rows : e.active}

-----------------------------------------------------------------------------
(***************************************************************************)
(* detect_events_from_scores.  Its transaction has the lock of the engine  *)
(* state, which a rebuild does not take.                                   *)
(***************************************************************************)
\* Mutant: the first new score is skipped.
UnprocessedAfterNext == {s \in scores : ~s.processed /\ s.id > engine + 1}

\* Scores up to last_score_id are marked as processed without a look at them.
Unprocessed == {s \in scores : ~s.processed /\ s.id > engine}

\* The limit of the batch is over all meters, so it ends at any score of this one.
DetectLoad(last) ==
  /\ at = "detect"
  /\ LET rows == {s \in Unprocessed : s.id <= last.id}
         loop == Loop(rows, state, Active(events))
     IN work' = [loop |-> loop, batch |-> Ids(rows), row |-> Ids(state),
                 known |-> Ids(loop.event)]
  /\ at' = "judge"
  /\ UNCHANGED <<tables, sequences, mode, scoring, found, rebuild, mails, overlapped,
                 interrupted, silent, counts>>

\* Without a commit, and without events there are no alerts.
DetectNothing ==
  /\ at = "detect"
  /\ Unprocessed = {}
  /\ at' = "idle" /\ mode' = "job"
  /\ UNCHANGED <<tables, sequences, scoring, work, found, rebuild, mails, overlapped,
                 interrupted, silent, counts>>

DetectJudge ==
  /\ at = "judge" /\ work # None
  /\ \E s \in work.loop.todo :
       /\ IsNext(s, work.loop)
       /\ work' = [work EXCEPT !.loop = Judge(work.loop, s)]
  /\ UNCHANGED <<tables, sequences, at, mode, scoring, found, rebuild, mails, overlapped,
                 interrupted, silent, counts>>

\* It changes rows that an open rebuild has deleted or locked.
DetectMustWait ==
  /\ rebuild # None
  /\ \/ work.batch \cap rebuild.locked # {}
     \/ Ids(Written(work.loop)) \cap rebuild.events # {}
     \/ work.row \cap rebuild.row # {}

\* Its state row is gone or another one is in its place (StaleDataError or
\* uq_event_state_unique), the event that it updates is gone, or it leaves one active
\* beside another that it has not seen (uq_event_active_true; one that it closes is
\* updated before the new one is inserted).
DetectConflict ==
  \/ Ids(state) # work.row
  \/ ~(work.known \subseteq Ids(events))
  \/ work.loop.event # {} /\ ~(Ids(Active(events)) \subseteq Ids(Written(work.loop)))

\* In the job its candidates go on to the alerts; the detection alone drops them.
DetectCommit ==
  /\ at = "judge" /\ work # None /\ work.loop.todo = {}
  /\ ~DetectMustWait /\ ~DetectConflict
  /\ LET written == Written(work.loop)
         id == IF work.row = {} THEN stateIds + 1 ELSE CHOOSE i \in work.row : TRUE
     IN /\ events' = {e \in events : e.id \notin Ids(written)} \cup written
        /\ state' = {StateRow(id, work.loop)}
        /\ stateIds' = IF work.row = {} THEN id ELSE stateIds
  /\ scores' = {[s EXCEPT !.processed = s.processed \/ s.id \in work.batch \/ s.id <= engine] :
                s \in scores}
  /\ engine' = Max(work.batch)
  /\ found' = IF mode = "detect" THEN {} ELSE work.loop.candidates
  /\ at' = IF mode = "detect" THEN "idle" ELSE "alert"
  /\ silent' = (silent \/ (mode = "detect" /\ work.loop.candidates # {}))
  /\ work' = None /\ mode' = "job"
  /\ overlapped' = (overlapped \/ rebuild # None)
  /\ UNCHANGED <<measurements, cursor, deliveries, scoreIds, scoring, rebuild, mails,
                 interrupted, counts>>

\* The step of the job raises, which ends the job.
DetectRollBack ==
  /\ at = "judge" /\ work # None /\ work.loop.todo = {}
  /\ ~DetectMustWait /\ DetectConflict
  /\ work' = None /\ at' = "idle" /\ mode' = "job"
  /\ UNCHANGED <<tables, sequences, scoring, found, rebuild, mails, overlapped,
                 interrupted, silent, counts>>

-----------------------------------------------------------------------------
(***************************************************************************)
(* process_vodomery_alerts, for the events of this run only.               *)
(***************************************************************************)
\* Mutant: deliveries that are reserved are not left out.
DueAgain(c) ==
  \E e \in events : /\ e.id = c.event /\ e.duration >= MinDuration
                    /\ e.active = (c.kind = "ACTIVE")

\* _rule_matches_event, and no delivery that is reserved.
Due(c) ==
  /\ \E e \in events : /\ e.id = c.event /\ e.duration >= MinDuration
                      /\ e.active = (c.kind = "ACTIVE")
  /\ ~\E d \in deliveries : d.event = c.event /\ d.kind = c.kind /\ d.status = "SENT"

Delivered(items, status) ==
  {d \in deliveries : [event |-> d.event, kind |-> d.kind] \notin items}
    \cup {[event |-> c.event, kind |-> c.kind, status |-> status] : c \in items}

AlertNothing ==
  /\ at = "alert"
  /\ {c \in found : Due(c)} = {}
  /\ found' = {} /\ at' = "idle"
  /\ UNCHANGED <<tables, sequences, mode, scoring, work, rebuild, mails, overlapped,
                 interrupted, silent, counts>>

\* Another n copies of a mail about each of the items.
Posted(items, n) ==
  [c \in DOMAIN mails \cup items |->
     (IF c \in DOMAIN mails THEN mails[c] ELSE 0) + (IF c \in items THEN n ELSE 0)]

\* One call of send_email_outlook for the recipient of the rule.  It tries again after
\* a transient answer, which may have come when the server had taken the mail.
AlertSend ==
  /\ at = "alert"
  /\ found' = {c \in found : Due(c)}
  /\ found' # {}
  /\ \E n \in 1 .. SmtpTries : mails' = Posted(found', n)
  /\ at' = "mailed"
  /\ UNCHANGED <<tables, sequences, mode, scoring, work, rebuild, overlapped, interrupted,
                 silent, counts>>

\* The deliveries point to their events; when a rebuild has deleted one, the
\* commit fails, and that of the failure as well.
AlertCommit ==
  /\ at = "mailed"
  /\ rebuild # None => {c.event : c \in found} \cap rebuild.events = {}
  /\ LET kept == {c.event : c \in found} \subseteq Ids(events)
     IN /\ deliveries' = IF kept THEN Delivered(found, "SENT") ELSE deliveries
        /\ interrupted' = (interrupted \/ ~kept)
  /\ found' = {} /\ at' = "idle"
  /\ UNCHANGED <<measurements, cursor, scores, engine, state, events, sequences,
                 mode, scoring, work, rebuild, mails, overlapped, silent, counts>>

\* The mail raises, after copies of it went out or not; the failure is recorded and
\* the job ends.
AlertFail ==
  /\ at = "alert"
  /\ failures < MaxFailures
  /\ \E c \in found : Due(c)
  /\ deliveries' = Delivered({c \in found : Due(c)}, "FAILED")
  /\ rebuild # None => {c.event : c \in found} \cap rebuild.events = {}
  /\ \E n \in 0 .. SmtpTries :
       mails' = IF n = 0 THEN mails ELSE Posted({c \in found : Due(c)}, n)
  /\ failures' = failures + 1
  /\ interrupted' = TRUE
  /\ found' = {} /\ at' = "idle"
  /\ UNCHANGED <<measurements, cursor, scores, engine, state, events, sequences,
                 mode, scoring, work, rebuild, overlapped, silent, rebuilds>>

\* The scheduler is killed anywhere, or a step of the job raises.
Crash ==
  /\ at # "idle"
  /\ failures < MaxFailures
  /\ failures' = failures + 1
  /\ interrupted' = (interrupted \/ at \in {"alert", "mailed"})
  /\ scoring' = None /\ work' = None /\ found' = {} /\ at' = "idle" /\ mode' = "job"
  /\ UNCHANGED <<tables, sequences, rebuild, mails, overlapped, silent, rebuilds>>

-----------------------------------------------------------------------------
(***************************************************************************)
(* _rebuild_scores_for_ident and _rebuild_events_for_ident, in the         *)
(* transaction that also rebuilds the measurements.                        *)
(***************************************************************************)
\* The verdict on a measurement changes, which takes it out of the scoring, puts it back
\* or leaves it as it is (that the delta of the next one changes with it is left out).
\* Scores from its date on are deleted and made anew; then all events go, with their
\* deliveries.  When a profile for one of them is missing, the scoring raises and all is
\* rolled back, which is no step.
RebuildDelete(m, heat) ==
  /\ rebuild = None
  /\ rebuilds < MaxRebuilds
  /\ heat = measurements[m] \/ "none" \in {heat, measurements[m]}
  /\ heat # "missing"
  /\ LET fresh == ScoreRows(m .. Len(measurements), [measurements EXCEPT ![m] = heat])
     IN /\ rebuild' = [from |-> m, upto |-> Len(measurements), heat |-> heat,
                       fresh |-> fresh, gone |-> Ids({s \in scores : s.m >= m}),
                       locked |-> Ids({s \in scores : s.m >= m}),
                       events |-> Ids(events), row |-> {}, loop |-> None, judged |-> FALSE]
        /\ scoreIds' = scoreIds + Cardinality(fresh)
  /\ rebuilds' = rebuilds + 1
  /\ UNCHANGED <<tables, stateIds, job, mails, overlapped, interrupted, silent, failures>>

RebuiltScores == {s \in scores : s.id \notin rebuild.gone} \cup rebuild.fresh
KeptEvents == {e \in events : e.id \notin rebuild.events}

\* Mutant: the loop goes on from the old state row.
RebuildLoadKeepsState ==
  /\ rebuild # None /\ rebuild.loop = None
  /\ rebuild' = [rebuild EXCEPT !.row = Ids(state), !.locked = Ids(scores),
                                !.loop = Loop(RebuiltScores, state, {})]
  /\ UNCHANGED <<tables, sequences, job, mails, overlapped, interrupted, silent, counts>>

\* Deletes the state row, marks all scores as not processed, which locks them,
\* and loads them.
RebuildLoad ==
  /\ rebuild # None /\ rebuild.loop = None
  /\ rebuild' = [rebuild EXCEPT !.row = Ids(state), !.locked = Ids(scores),
                                !.loop = Loop(RebuiltScores, {}, {})]
  /\ UNCHANGED <<tables, sequences, job, mails, overlapped, interrupted, silent, counts>>

\* The first score makes a new state row.
RebuildJudge ==
  /\ rebuild # None /\ rebuild.loop # None
  /\ \E s \in rebuild.loop.todo :
       /\ IsNext(s, rebuild.loop)
       /\ rebuild' = [rebuild EXCEPT !.loop = Judge(rebuild.loop, s), !.judged = TRUE]
  /\ UNCHANGED <<tables, sequences, job, mails, overlapped, interrupted, silent, counts>>

RebuildDone == rebuild # None /\ rebuild.loop # None /\ rebuild.loop.todo = {}

\* uq_event_state_unique and uq_event_active_true again, for rows that the job
\* has inserted since.
RebuildConflict ==
  \/ rebuild.judged /\ Ids(state) # rebuild.row
  \/ rebuild.loop.event # {} /\ Active(KeptEvents) # {}

\* Marks all scores as processed, those that were not loaded as well; the
\* measurements come back with the ids they had.
RebuildCommit ==
  /\ RebuildDone /\ ~RebuildConflict
  /\ measurements' = [measurements EXCEPT ![rebuild.from] = rebuild.heat]
  /\ scores' = {[s EXCEPT !.processed = TRUE] : s \in RebuiltScores}
  /\ events' = KeptEvents \cup Written(rebuild.loop)
  /\ deliveries' = {d \in deliveries : d.event \notin rebuild.events}
  /\ state' = IF rebuild.judged THEN {StateRow(stateIds + 1, rebuild.loop)}
              ELSE {r \in state : r.id \notin rebuild.row}
  /\ stateIds' = IF rebuild.judged THEN stateIds + 1 ELSE stateIds
  /\ rebuild' = None
  /\ overlapped' = (overlapped \/ at = "score" \/ work # None)
  /\ UNCHANGED <<cursor, engine, scoreIds, job, mails, interrupted, silent, counts>>

RebuildRollBack ==
  /\ RebuildDone /\ RebuildConflict
  /\ rebuild' = None
  /\ UNCHANGED <<tables, sequences, job, mails, overlapped, interrupted, silent, counts>>

\* The API process is killed.
RebuildAbort ==
  /\ rebuild # None
  /\ failures < MaxFailures
  /\ failures' = failures + 1
  /\ rebuild' = None
  /\ UNCHANGED <<tables, sequences, job, mails, overlapped, interrupted, silent, rebuilds>>

-----------------------------------------------------------------------------
JobStep ==
  \/ (\E last \in cursor + 1 .. Len(measurements) : ScoreRead(last))
  \/ ScoreNothing \/ ScoreRaises \/ ScoreCommit \/ ScoreRollBack
  \/ (\E last \in Unprocessed : DetectLoad(last)) \/ DetectNothing \/ DetectJudge
  \/ DetectCommit \/ DetectRollBack
  \/ AlertNothing \/ AlertSend \/ AlertCommit

RebuildStep == RebuildLoad \/ RebuildJudge \/ RebuildCommit \/ RebuildRollBack

Next ==
  \/ \E heat \in Heat : Import(heat)
  \/ JobStep \/ ManualDetect \/ AlertFail \/ Crash
  \/ \E m \in DOMAIN measurements, heat \in Heat : RebuildDelete(m, heat)
  \/ RebuildStep \/ RebuildAbort

\* The scheduler runs the job again and again, whatever is run by hand in between,
\* each run ends, and so does a transaction of the API: a step of what runs is always
\* possible, unless it waits for an open rebuild.
Fairness ==
  /\ []<>(at = "idle") /\ []<>(at # "idle" /\ mode = "job")
  /\ []<>(rebuild = None)

Spec == Init /\ [][Next]_vars /\ Fairness

-----------------------------------------------------------------------------
(***************************************************************************)
(* Properties.                                                             *)
(***************************************************************************)
ScoreRow == [id : Nat, m : Nat, hot : BOOLEAN, processed : BOOLEAN]
EventRow == [id : Nat, start : Nat, duration : Nat, active : BOOLEAN]
Kind == {"ACTIVE", "RESOLVED"}
\* The shapes of the tables, of the job and of the two loops.
TypeOK ==
  /\ measurements \in Seq(Heat) /\ cursor \in 0 .. Len(measurements)
  /\ scores \subseteq ScoreRow /\ engine \in Nat
  /\ state \subseteq [id : Nat, count : Nat, start : Nat \cup {None}, active : BOOLEAN]
  /\ events \subseteq EventRow
  /\ deliveries \subseteq [event : Nat, kind : Kind, status : {"SENT", "FAILED"}]
  /\ scoreIds \in Nat /\ stateIds \in Nat
  /\ at \in {"idle", "score", "detect", "judge", "alert", "mailed"}
  /\ mode \in {"job", "score", "detect"}
  /\ scoring # None =>
       DOMAIN scoring \subseteq DOMAIN measurements /\ Range(scoring) \subseteq Heat
  /\ work # None =>
       /\ work.loop.todo \subseteq ScoreRow /\ work.loop.count \in Nat
       /\ Written(work.loop) \subseteq EventRow
  /\ rebuild # None /\ rebuild.loop # None =>
       /\ rebuild.loop.todo \subseteq ScoreRow /\ rebuild.loop.count \in Nat
       /\ Written(rebuild.loop) \subseteq EventRow
  /\ DOMAIN mails \subseteq [event : Nat, kind : Kind] /\ Range(mails) \subseteq Nat

\* Unless the job did something while a rebuild was open, the state row and the
\* events agree, whichever of the two transactions wrote them last: an active
\* state has exactly one active event, of the same start, and any other none.
StateMatchesEvents ==
  ~overlapped =>
    \/ Active(state) = {} /\ Active(events) = {}
    \/ \E r \in Active(state), e \in Active(events) :
         state = {r} /\ Active(events) = {e} /\ e.start = r.start

\* Reference: the runs of hot scores, each up to a cold one or the end, from the
\* cold one before it on, of at least MinConsecutive scores.
Processed == {s \in scores : s.processed}
ScoredInOrder == \A s, t \in scores : s.id < t.id => s.m < t.m
Hots(rows) == {s.m : s \in {r \in rows : r.hot}}
Colds(rows) == {s.m : s \in {r \in rows : ~r.hot}}
Run(hots, colds, b) == {m \in hots : m < b /\ \A c \in colds : c < b => c < m}
Runs ==
  LET colds == Colds(Processed)
      RunTo(b) == Run(Hots(Processed), colds, b)
      Of(b) == [start |-> Min(RunTo(b)), active |-> b \notin colds,
                duration |-> (IF b \in colds THEN b ELSE Max(RunTo(b))) - Min(RunTo(b))]
  IN {Of(b) : b \in {c \in colds \cup {Len(measurements) + 1} :
                       Cardinality(RunTo(c)) >= MinConsecutive}}

\* The events are the runs of the scores that were judged, in whatever batches
\* they came, before and after a rebuild: none is missing, split, doubled or left
\* open, and each has the duration that its scores give it.
EventsAreRuns ==
  ~overlapped /\ ScoredInOrder =>
    /\ {[start |-> e.start, active |-> e.active, duration |-> e.duration] : e \in events} = Runs
    /\ Cardinality(events) = Cardinality(Runs)

\* Also beside a rebuild, every measurement that the scoring has passed has one
\* score at most; and unless there was one, the score of what it is now.
ScoredOnce ==
  \A i \in 1 .. cursor :
    LET mine == {s \in scores : s.m = i}
    IN /\ Cardinality(mine) <= 1
       /\ ~overlapped =>
            {s.hot : s \in mine} =
              IF measurements[i] = "none" THEN {} ELSE {measurements[i] = "hot"}

\* Unless the alerts of a run were cut off, one call of the sender is all that there ever
\* is about one kind of news of one event, however many runs touch it: the copies are
\* those that the call may make.  An event is a row, and a rebuild makes new rows, which
\* are reported anew; without rebuilds the same run of scores is never another row.
Mailed(e, kind) == [event |-> e.id, kind |-> kind] \in DOMAIN mails
NoMailTwice ==
  ~interrupted =>
    /\ \A c \in DOMAIN mails : mails[c] <= SmtpTries
    /\ rebuilds = 0 =>
         \A e, f \in events, kind \in Kind :
           Mailed(e, kind) /\ Mailed(f, kind) /\ e.start = f.start => e = f

\* Without failures, rebuilds and a detection by hand that found something, between two
\* runs of the job an event that lasts long enough has been reported: the active one, and
\* the last that was resolved.  (Of several that one run resolves, only the last is
\* looked at.)
LongEventsReported ==
  (at = "idle" /\ ~interrupted /\ ~silent /\ rebuilds = 0) =>
    \A e \in events :
      e.duration >= MinDuration =>
        IF e.active THEN Mailed(e, "ACTIVE")
        ELSE (\A f \in events : ~f.active => f.id <= e.id) => Mailed(e, "RESOLVED")

\* In the end everything is scored and judged, after crashes, rolled back detections and
\* rebuilds too, unless the job did something beside a rebuild, or there is a measurement
\* to score whose profile is missing: the scoring never gets past that one.
EverythingJudged ==
  LET new == cursor + 1 .. Len(measurements)
  IN <>[](~overlapped /\ (\A i \in new : measurements[i] # "missing") =>
            /\ \A i \in new : measurements[i] = "none"
            /\ Processed = scores)
=============================================================================
