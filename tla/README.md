# A TLA+ verification of monitorovaci_platforma

The platform collects consumption measurements of water, gas, heat and
electricity meters, watches them for anomalies, and watches itself.  This
directory holds TLA+ modules of the parts whose correctness depends on order,
restarts and concurrency, TLC configurations that check them on small
instances, and TLAPS proofs that hold for every instance.

All paths below are relative to `src/`.

## 1. The system

| Component | State | Operations | Hard because of |
|---|---|---|---|
| Monitoring agent, incident lifecycle (`monitoring_agent/incidents.py`, `runtime_shadow.py`) | one `IncidentState` per incident key, persisted in `incident_state.json` | classify a cycle, suppress endpoint noise, advance, check freshness | confirmation over several cycles, restarts of the cycle counter, an evaluation in two passes |
| Monitoring agent, incident store (`incident_store.py`) | the whole file: states and outbox items | load, apply an evaluation, recover abandoned claims, claim, record a result, skip; retention with every write | read-modify-write without a lock, crashes between two writes, limits |
| Monitoring agent, delivery (`runtime_delivery.py`, `delivery.py`) and command line (`delivery_cli.py`) | the claim in hand and the rendered reports | one delivery per cycle; `send-due`, `skip-outbox`, review | answer lost after the server accepted, retries and backoff, operator beside the agent |
| Monitoring agent, polling process (`__main__.py`, `store.py`) | writer lock, cycle counter, observation log | poll, append, evaluate, deliver, sleep | kill at any point, retention of the log |
| Monitoring agent, observer and client | none | HTTP polls with retries | network input only |
| Monitoring agent, orchestrator, pilots, reports, audit | none that lives | one-shot tools over files | - |
| Scheduler, job locks (`core/scheduler/scheduler.py`) | thread locks per process, lock files, the `scheduler_process` lock | `locked_job`, `trigger_manual_job`, release, shutdown | threads of several processes, partial failure, several names per job |
| Scheduler, job table and runtime monitor | the set of failures already alerted | job bodies, alert mails | alert de-duplication when a delivery fails |
| Scheduler, database availability (`database_availability_state.py`, `scheduler.py`) | last observation per database and an event outbox, in SQLite | record a check, deliver in groups | a partial delivery, a kill between mail and mark, groups out of order |
| Scheduler, metrics (`metrics.py`) | one JSON file, cached in every process | record a run, heartbeat | lost updates, a temporary file name shared by processes |
| Local monitoring agents and exporters | candidates and active alerts | read logs and metrics | - |
| API, login throttle (`services/api/core/login_throttle.py`) | failures and blocks per account and address | allow, fail, succeed, evict | eviction at the limit |
| API, sessions and tokens | `token_version` in the database | login, logout, check | a request in flight beside a logout |
| API, services and routes | PostgreSQL | queries | - |
| Measurements, water imports and outlier reviews (`moduly/mereni/vodomery/database/vodomery_db_vse.py`, `outlier_review_apply.py`, `outlier_reviews.py`) | the measurements and the reviews, in PostgreSQL | import new readings; rebuild the measurements of a meter when a verdict changes | batches that end anywhere, late and repeated dates, two transactions without a common lock |
| Measurements, water scoring, events and alerts (`vodomery_anomaly.py`, `vodomery_events.py`, `alerting/service.py`) | scores, a state row and events per meter, deliveries, two cursors | score, open and close events, mail them; replay all of it after a changed verdict | runs of scores cut by batches, a replay beside the job, mail before commit |
| Measurements of gas, heat and pressure meters | the same in other tables | the same | the same |
| Prediction and backfill | files and PostgreSQL | statistics | - |
| Applications (Streamlit dashboard, SmartFuelPass, web search, meteo, revisions), web frontend, shared helpers | per session | user interface, scraping | - |

How they interact.  The monitoring agent polls the API over HTTP and never
shares its state; inside the agent the polling process and the operator's
command line share `incident_state.json`.  The scheduler process (`main.py`)
and every API process import the same scheduler module: they share the lock
files and the metrics file and nothing else, because the thread locks and the
cached metrics are per process.  Jobs call the measurement modules, which share
the database.  A verdict on an outlier is changed in an API process, in one
transaction that rebuilds the measurements of the meter, its scores and its
events; `quarter_hour_job` does the same tables in four transactions of its own,
and only row locks and unique indexes keep the two apart.  E-mail leaves the
system in four places (agent, runtime monitor, database availability,
alerting), each with its own idea of "already sent".

What makes each part correct:

* lifecycle: an incident opens only when confirmed, opens when it is confirmed,
  recovers only when quiet, and whoever follows the intents knows the state;
* outbox: what is recorded as sent was accepted, no more calls of the sender than
  attempts and crashes account for, bounded retries, final states stay final,
  nobody starves;
* locks: bodies that need one name exclude each other across all processes, no
  lock is left behind, competing runs do not all defeat each other;
* database availability: the events tell the history of each database, none is
  lost, nobody is told twice without a reason;
* imports: what the deltas of a meter add up to is what its counter advanced; no
  reading is lost or stored twice; what is set aside can be reviewed;
* events: they are the runs of triggering scores, whatever the batches; state
  row and events agree; one call of the sender per kind of news of an event, and
  long events are mailed;
* metrics: what one process records survives the other one's write;
* login throttle: a blocked account or address stays blocked for its window.

## 2. Modules

| Module | Models | Built on |
|---|---|---|
| `IncidentLifecycle` | incident states and intents through polling cycles and restarts | - |
| `MCIncidentLifecycle` | instance: three facade endpoints, an external page, default rule table | `IncidentLifecycle` |
| `IncidentLifecycleProofs` | theorems | `IncidentLifecycle`, TLAPS |
| `IncidentOutbox` | outbox, polling process and operator on one file | - |
| `MCIncidentOutbox` | instances with one to three intents | `IncidentOutbox` |
| `IncidentOutboxProofs` | theorems for any `Shared`, then those for `~Shared` | `IncidentOutbox`, TLAPS |
| `JobExclusion` | abstract: bodies with a common lock name exclude each other | - |
| `JobLocks` | thread locks, lock files, processes, manual runs | refines `JobExclusion` |
| `MCJobLocks` | instance: two `main.py`, one API process with two threads | `JobLocks` |
| `JobLocksProofs` | theorems, with the refinement | `JobLocks`, TLAPS |
| `DatabaseAvailability` | transitions of database availability and their delivery | - |
| `MCDatabaseAvailability` | instance: two databases, two recipients | `DatabaseAvailability` |
| `DatabaseAvailabilityProofs` | theorems | `DatabaseAvailability`, TLAPS |
| `MeterImport` | imports and rebuilds of the measurements of a meter, and its reviews | - |
| `MCMeterImport` | instance: four dates, four counter values | `MeterImport` |
| `MeterImportProofs` | theorems about rows, reviews and single deltas | `MeterImport`, TLAPS |
| `MeterConsumptionProofs` | theorem about what the deltas add up to | `MeterImportProofs` |
| `AnomalyEvents` | scores, events, alerts and their replay, of a meter | - |
| `MCAnomalyEvents` | instance: four measurements | `AnomalyEvents` |
| `AnomalyEventsProofs` | theorems about the tables and the scores | `AnomalyEvents`, TLAPS |
| `AnomalyResultsProofs` | theorems about mails, reports and runs | `AnomalyEventsProofs` |

### IncidentLifecycle

`incident` is the `IncidentState` of every key, `lastIntent` the newest outbox
item of every key, `cycle` the `cycle_sequence` of the running process.
`failing` and `streak` are history variables: they record what the cycles saw
and no action reads them.

`Cycle` is one call of `apply_shadow_incident_cycle`: `Conditions` is
`classify_cycle_conditions`, `Suppressed` is `_suppress_endpoint_noise`,
`Advance` is `_advance_states` with `AdvanceFailing`
(`_advance_failing_condition`) and `AdvanceRecovery`
(`_advance_recovery_condition`).  `AfterFreshness` is the second pass of
`evaluate_incident_lifecycle`, for the blind spot only.  `WithIntents` is the
part of `apply_evaluation` that turns transitions into outbox items,
`Retained` is `_retain_incident_states`; where it raises, `CycleOverBound` ends
the process and the file stays.  `Start` and `Stop` are the polling process:
the counter starts at zero, the file is as it was.  A write is one atomic
replace, so no crash inside it is told apart from `Stop`.

Left out: timestamps (the age of the latest cycle is the input `stale`),
severities, reasons, and the transitions that leave no intent (`updated`,
`suppressed`).  Which resolved states retention keeps is left open, since
several may carry one timestamp.

### IncidentOutbox

`items` is the outbox in the file.  Every store operation loads the file,
changes a copy, and replaces the file; it is therefore two actions, with `copy`
in between, and the other process may act between them.  The agent goes
through `BeginCycle`, `Apply` (or `ApplyOverBound`), `Scan` (or `ScanNothing`),
and then, like the operator's `send-due`, through `LoadClaims`,
`WriteRecovered`, `WriteClaim`, `Send`, `LoadResult`, `WriteResult`.
`skip-outbox` is `BeginSkip` and `WriteSkip`.  `Crash` kills either process
anywhere.

`Send` is one call of the sender, which is recorded as one attempt.  Both SMTP
senders of the repository (`monitoring_agent/delivery.py:193`,
`app/channels/email.py:124`) try up to three times inside a call, as long as the
answer is one of 421, 432, 451 and 452.  Such an answer may also come to the QUIT
behind a message that the server has taken, so a call may leave several copies; it
returns when its last try was accepted, and may raise whatever was accepted
before.  `SmtpTries` is the number of tries, here and in the two other modules
that mail.

`IncidentRank` is the order of the incident keys, by which
`_due_pending_items` breaks ties; the numbers of the intents are the order of
the file, by which `claim_due_delivery_intents` does.  Both orders are in the
code, and they differ, since idempotency keys are hashes.

Time is counted in cycles and passes only while some time in the file is still
ahead; once the outbox has nothing waiting it starts at zero again.  This keeps
the state space finite without a bound on the number of cycles, which the
liveness properties need.

`Shared` says whether an operator command may run beside a running agent.  The
operator's manual asks for a stopped agent; the code does not.  The runs have
`Shared = FALSE`.  `TypeOK`, `SentWasAccepted` and `RetriesBounded` are proved
without that condition: also when a claim times out and is taken over while its
holder still sends, and when the file is replaced by a copy that was loaded
before.  That a claim is exclusive is not claimed of that case: a `send-due` takes
no lock, and two processes may then send one intent.  `DeliveriesAccounted` and
`TerminalIsFinal` are for `~Shared`.

### JobExclusion and JobLocks

A task is a thread that can run a job.  `TryThreadLock` and `TryFileLock` are
the two halves of one iteration of `_try_acquire_job_locks`; `GiveUp` is its
way out, also from a file that is free but cannot be written or locked
(`FileUnusable`); `ReleaseFile` and `ReleaseThread` are `_release_job_locks` (lock files
first, each in reversed order), `FileError` is an operation on a lock file that
raises.  `Begin` is a dispatch by APScheduler (at most one instance of a job per
scheduler process) or a `trigger_manual_job`.  `StartWorker` is the start of the
worker thread, which may fail.  `LoopFails` is `_run_main_scheduler_loop`
raising: `main_scheduler` releases the `scheduler_process` lock while the
interpreter still waits for running jobs, so that a second scheduler process
may start.  `Vanish` is what the system does to the locks of a process that
ends.  `defeatedBy` is history.

A body is one step from `run` to `release`; what it does is not modelled.

### DatabaseAvailability

`state` and `events` are the two tables of `database_availability.sqlite3`;
everything else is local to one preflight of `quarter_hour_job`, the only job
that records transitions.  It holds its lock (`JobLocks`), so there is one
actor.  `Check` is `check_database_availability` with an arbitrary outcome,
`RecordObservation` is `_record_observation` for one service inside the open
transaction `draft`, `Commit` its end, `Load` is `load_pending_events`.  `Group`
is the next group of `groupby`: pending events of one type without an event of
the other type between them.  `Mail` is one iteration of the loop over the
recipients, one call of `send_email_outlook` of one to `SmtpTries` copies (see
`Send` above); `MailRaises` gives the group up, after the server has taken some
copies or none, and goes on with the next one (the `continue`).  `Mark` is
`mark_events_delivered`, `StoreFails` and `MarkFails` are the two handlers of
errors of the file, `Crash` is a kill between any two steps.  `copies` is
history.

Left out: reasons, times, labels, the count of failed checks, mail texts.  With
an empty list of recipients the code delivers nothing and keeps every event;
the module assumes at least one.

### MeterImport

`source` holds the readings of one meter in the source database, `table` and
`reviews` its rows in PostgreSQL.  `Arrive` adds a reading, perhaps with a date
that was there before.  The pure part is three operators, one per function:
`FilterValidRows` (resets, and zeros that turn out to be transient),
`PrepareRows` (outliers, spikes, gaps, deltas, verdicts) with `GapRows`
(`resolve_gap`), and `InsertedInto` (ON CONFLICT DO NOTHING).  `ScanRow` and
`PrepareRow` are the bodies of the loops of the first two, so that a proof can
speak of one iteration.  Both write paths go through `Prepared`, which sorts by
date with `InOrder`: the sorted sequence is defined by the number of
predecessors, since the sorting of a library is a recursion that no proof can
follow.

`vodomery_db_import` is one transaction.  `ImportRead` reads what is behind the
cursor and prepares it, `ImportCommit` inserts it together with its pending
reviews; the rows it prepared are `import` meanwhile.  It waits
(`ImportMustWait`) for row locks of an open rebuild, and fails (`ImportFails`)
when one statement would upsert the same review twice.  `ImportAbort` is any
other failure.

`apply_outlier_review_update` is one transaction too: `ReviewLoad` sets the
verdict and loads the readings from its date on, `ReviewDelete` deletes rows and
the other pending reviews, `ReviewCommit` prepares what it loaded against what
is left and puts it back.  The session does not flush before a query, so the
rebuild reads the verdict that was there before (`ReviewOverrides`).
`ReviewConflict` is the plain insert that finds a date taken.

`overlapped` and `torn` are history: the two transactions were open at the same
time; and a rebuild left slots of a filled gap without the row that closed the
gap, which it had deleted (`Whole`).

Abstractions: one meter and one source; counter values and times are small
integers, a delta is an integer number of the last decimal that is kept; the
threshold that the code computes from the history of a meter is a constant,
which applies once the history is long enough.

### AnomalyEvents

One meter, one model version, one type of event, one rule with one recipient.
A measurement is what it is for the scoring: `hot` (its score triggers the
event), `cold`, `none` (not scored), or `missing`: the model version that is
selected for it has no profile for its slot.  Its id stands for its date, since
that readings come in order is the business of `MeterImport`, and rebuilt
measurements keep their ids.

`quarter_hour_job` goes through `ScoreRead` and `ScoreCommit` (or
`ScoreNothing`), `DetectLoad`, `DetectJudge` for each score and `DetectCommit`
(or `DetectNothing`), then `AlertSend` and `AlertCommit` (or `AlertNothing`).
The batch of `DetectLoad` may end at any score, since `LIMIT` counts the scores
of all meters; its `known` are the ids of events that it found, and every other
id that it writes is new.  `JudgeHot` and `JudgeCold` are the two branches of the
loop; the same loop is in `_rebuild_events_for_ident`.  `ScoreRollBack` and `DetectRollBack` are the ends
that the database forces: a foreign key, a row that is gone, a unique index.
`AlertFail` is a mail that raises, after some copies or none, `Crash` a kill
anywhere.

A batch with a `missing` measurement makes `_build_per_identifier_selected_score_rows`
raise (`ScoreRaises`): nothing is inserted, the cursor stays, the job ends, and the
next run reads the same measurement.  A `missing` measurement may also stand for one
of another meter in the same batch: it stops the scoring alike, and a rebuild of this
meter does not meet it.  When it is this meter's own, a rebuild over it raises as well
and is rolled back, which is no step, unless the verdict takes it out of the scoring.
No action adds the profile.

The steps of the job can also be started by hand, each under the lock of
`quarter_hour_job`, so never beside it; `mode` says what runs.  `ScoreRead` begins
the job or the scoring alone.  `ManualDetect` is `detect_events_from_scores` alone,
which drops what it returns: its candidates get no alert (`silent` remembers that
there were some).  Alerting by hand scores, detects and mails, which is the job
without the import.

`AlertSend` is one call of the sender, of one to `SmtpTries` copies; `mails` counts
them by event and kind of news (`ACTIVE`, `RESOLVED`).

A changed verdict takes a measurement out of the scoring, puts it back, or leaves it
as it is (the code rebuilds whenever the verdict changes, and the rebuild may obey
the old one, see `confirmed_consumption`).  It is
`RebuildDelete` (from the change of the measurement to the
delete of the events), `RebuildLoad`, `RebuildJudge` for each score, and
`RebuildCommit` or `RebuildRollBack`.  What an open transaction has deleted,
inserted or locked is a field of `work` or `rebuild`; the `MustWait` and
`Conflict` operators say which statements of the other one it stops.

`mails`, `overlapped` (the job committed something beside an open rebuild, or
had read before one that committed), `interrupted` (the alerts of a run were
cut off) and `silent` are history.

Abstractions: scores are reduced to hot or cold, severities are
left out; a verdict changes what the reviewed measurement is for the scoring
and not the delta of the next one; model versions, which share the measurements
and nothing else, are left out, and so are the first run, which starts at the
newest score, and the early return of the scoring while no profile exists at all
(`vodomery_anomaly.py:76`), which changes nothing.

## 3. Runs

| Run | Expectation | Question | States |
|---|---|---|---|
| `incident_lifecycle` | pass | Do incidents open and recover when and only when they should, over restarts and with a full store? | 182,804 |
| `incident_outbox` | pass | Was what is recorded as sent accepted, is every copy owed to a call, are retries bounded, and is every pending intent tried? | 3,864,154 |
| `job_locks` | pass | Do the locks exclude, return and not defeat each other, and implement `JobExclusion`? | 1,067,676 |
| `database_availability` | pass | Do the events tell the history of each database, and does everyone get them, in order, in the end and not more often than errors explain? | 2,222,999 |
| `meter_import` | pass | Does each delta count, do they add up, is no reading lost or doubled, can what is set aside be reviewed and what is rebuilt be put back? | 1,418,687 |
| `anomaly_events` | pass | Are the events the runs of the scores, is everything scored once and judged, who is mailed, and how often? | 1,961,655 |
| `recovered_healthy` | violation | Does an endpoint recover only when it is healthy? | - |
| `recurrence_reopens` | violation | Is a recurrence reported after the cooldown? | - |
| `claim_recovery` | violation | Is every abandoned claim recovered? | - |
| `report_missing` | violation | Is what the loop claims what it rendered? | - |
| `busy_job` | violation | Does "busy" mean that the job runs? | - |
| `confirmed_consumption` | violation | Is a reading valid once it is confirmed as consumption? | - |

What the violation runs show:

* `recovered_healthy`: during a target-wide outage the endpoint conditions are
  suppressed, and `_advance_states` counts a suppressed condition as absent.
  An active endpoint incident "recovers" after two cycles of total outage.
* `recurrence_reopens`: `recovered_cycle_sequence` is persisted, the counter
  it is compared with is not.  After a restart the difference is negative and
  the recurrence stays suppressed until the new process has run as many cycles
  as the old one.  `ConfirmedConditionIsActive` is the property that does hold.
* `claim_recovery`: the loop recovers abandoned claims only on its way to a
  claim, and returns before when nothing is pending and due.  The last intent
  of an agent that crashed while sending is never sent.
* `report_missing`: see the two orders above.
* `busy_job`: `_try_acquire_process_lock` creates and opens the file outside
  its `try`; when that raises, the thread lock taken just before stays locked.
* `confirmed_consumption`: the rebuild after a changed verdict reads the
  verdicts by a query of columns in a session with `autoflush=False`, and so
  obeys the old one.  A reading that is confirmed as consumption is set aside
  again.

`NoLockIsLeft` is stated accordingly: lock files always, thread locks only as
long as no lock file operation has raised.  Likewise `PendingIsTried` excepts
the cycle that finds more waiting intents than `max_outbox_items`: it ends the
process before the delivery, and the next process meets the same file.

`NoticesInOrder` holds as long as no mail has raised, through kills and errors
of the file.  The condition is needed: a group whose mail raised is skipped for
this run and the later groups are not, so a recipient may read of an outage
after the notice of its end.  DEC-035 (`agents/decisions/DECISIONS.md:697`)
promises a retry and no order, so this is not listed as a finding.

Conditions of the properties of the measurements, and what TLC shows without
them:

* `ConsumptionAccounted`, `DeltasCount`, `NothingLost` and `EverythingImported` ask
  for readings in the order of their dates and no rebuild beside an import
  (`Undisturbed`; of `NothingLost` only the second part does).  A
  reading whose date is taken is not inserted; and one that an import adds while
  a rebuild is open gets its delta against rows that are about to be replaced.
  `OneRowPerDate`, `InvalidHasReview`, `DeltaBound` and `RebuildFits` hold in any
  case.
* `ConsumptionAccounted` also asks that no rebuild has begun inside a filled gap
  (`torn`), behind some of its slots.  `resolve_gap` leaves out the slots whose
  dates are taken by readings that were set aside, and the row that closes the gap
  gets what the slots that were filled leave.  But the counter values of the slots
  grow by the mean of one slot per slot, filled or not.  When the verdict on such a
  reading is changed, the rebuild deletes everything from its date on, the end of
  the gap too, and counts from what is left: from the last slot before it, with the
  slots that were left out in its counter value and in no delta, or from a reading
  among the slots that had run back, with the slots before it in no later delta.
  `DeltasCount` holds there as well: each delta is right about the row it counts
  from.  No document says what should hold, so this is a hazard of `PROJECT.json`
  and not a finding.
* `StateMatchesEvents`, `EventsAreRuns` and `EverythingJudged` ask that the job
  did nothing beside a rebuild.  A detection may insert an active event after
  the replay has deleted "all" of them; the state row of the replay then does
  not know of it, the next event that opens violates the unique index, and every
  later detection, of all meters, rolls back.
* `ScoredOnce` asks for it in its second part.  A scoring that has read a
  measurement before a rebuild sets it aside inserts its score afterwards.
* `EventsAreRuns` also asks that scores were made in the order of their
  measurements.  A rebuild ahead of the scoring cursor breaks it, and the loop
  then sees a cold score between two hot ones that are neighbours in time.
* `NoMailTwice` and `LongEventsReported` ask that no alert step was cut off.  A
  kill between the mail and the commit repeats the mail when a later run touches
  the event; one before the mail drops it, because only the events of the run
  are looked at.  Of several events that one run resolves, only the last is
  looked at.
* `NoMailTwice` says that there is one call of the sender per kind of news of an
  event, so at most `SmtpTries` copies.  An event is a row: a replay deletes the
  rows and makes new ones, which are mailed anew when a later run touches them.
  That the same run of scores is not reported as two rows is therefore said of
  behaviours without rebuilds only.
* `LongEventsReported` asks for no rebuild, and that no detection by hand has
  found something: that one drops its candidates, and an event that it resolves
  is never mailed.
* `EverythingJudged` excepts a measurement without a profile ahead of the cursor.
  The scoring raises on it in every run, for all meters, until somebody adds the
  profile or the measurement is set aside.  No document says otherwise, so this is
  a hazard and not a finding.

### Bounds

* `incident_lifecycle`: three facade endpoints are the fewest for which a
  target-wide outage exists; an external page is never suppressed.
  Five cycles per process are enough to open (2), recover (2) and fail again;
  two processes let every confirmation and cooldown span a restart.  Three states
  for seven keys make retention drop states and the store overflow.  Of all
  outcomes of a poll, the observations are those that lead to different
  condition sets: quiet, one endpoint with a problem, one with a broken contract,
  everything unreachable, and the same seen late by a host that has slept.
  `Cooldown = 1`, the default (`incidents.py:124`),
  reaches both sides of the window within the cycles.  `StreakCap = 3` is the
  largest count a property compares with.
* `incident_outbox`: three intents against two places overflow the outbox and
  make retention drop; two attempts with one backoff step reach the dead letter;
  one crash and one command suffice for each pair of steps they can separate.
  Two tries per call instead of three, here and below, tell a call with several
  copies from one without.
* `job_locks`: two scheduler processes meet only after a failing loop or a
  crash; the API process has two threads so that thread locks matter; of three
  jobs two need one name each and the third needs both.

* `database_availability`: two recipients make a partial delivery possible, two
  databases a group of several events and a transaction rolled back half way;
  three transitions are an outage and a recovery of one and an outage of the
  other; one raising mail, one error of the file and one kill meet at every pair of steps.

* `meter_import`: with an interval of one minute and gaps above three, the dates
  reach across a gap with three slots to fill, of which some are taken by readings
  that were set aside, so that a rebuild may begin inside the gap; the counter
  values are zero, two near ones and one that is an outlier, so that resets,
  transient zeros, spikes and outliers occur, and the counter may run back by less
  than a reset; the threshold of outliers applies from the first reading on
  (`MinHistory = 0`); one late reading, two verdicts (one to change, one that the
  next rebuild must obey) and one failing transaction.
* `anomaly_events`: one hot score makes an event (`MinConsecutive = 1`, as for the
  types of `vodomery_events.py:25`), so three measurements give an event that
  opens, ends and opens again, in one batch or in several, and one that opens,
  lasts to its mail (`MinDuration = 1`) and ends; one of them may be without a
  profile.  One rebuild and two failures meet at every pair of steps.  That events
  need several scores is covered by the theorems, which hold for every
  `MinConsecutive`.

### Fairness

`IncidentOutbox`, `DatabaseAvailability`, `MeterImport` and `AnomalyEvents` have
liveness.  Their fairness is stated of the places where a process is, in the form
"again and again": some step of what runs is always possible, unless it waits for a
rebuild, which ends; so a process that comes to a place and leaves it again and again
takes its steps.  Deadlock is checked in these runs but `meter_import`, whose
readings come to an end.

* `FairSpec` of `IncidentOutbox`: the agent comes to the start of a cycle and leaves
  it again and again, and a command that was started comes to its end.  The first
  is what the polling loop and the scheduled task of the deployment give:
  `monitoring_agent/README.md` installs the task at startup with restarts one
  minute after a failure.  The second is a sequential program without waits other
  than the mail server's timeout.
  `claim_recovery` runs under `EagerSpec`, weak fairness of all steps of both, which
  implies this: its counterexample is not a process that just stops.
* `FairSpec` of `DatabaseAvailability`: `quarter_hour_job` begins and ends again and
  again; APScheduler starts it every quarter of an hour.
* `Fairness` of `MeterImport`: an import that has something new to read begins again
  and again, and one that is open ends or waits for a rebuild.
* `Fairness` of `AnomalyEvents`: the job itself, not only a step started by hand, runs
  again and again, whatever runs ends, and so does an open transaction of the API,
  which is one request without waits for people.

Crashes and errors are bounded, so that they cannot happen for ever.  Nothing makes
anybody change a verdict, a reading arrive, a profile appear or a mail succeed.

## 4. Theorems

TLAPS checks these for every value of the constants that the ASSUME of the
module admits: any number of endpoints, processes, threads, jobs and names, any
thresholds, any bounds.

What a function does with a sequence of any length is an induction, and the
induction theorems of the library cannot be instantiated with the provers at
hand.  Where it is needed, the induction is made by hand: the steps that are as
claimed are a set of numbers, and one that contains zero and with each number
the next one contains them all, since the numbers are well-founded
(`AllSteps` of `MeterImportProofs`).  The same way gives that a recursive function
with these equations exists (`ScanExists`, `LoopExists`).

`IncidentLifecycleProofs` (from `LifecycleAssumption`):

* `TypeCorrect` is inductive as it stands.
* `IntentsCorrect`: a cycle writes two layers of intents, one per pass, and
  `IntentsMatchState` is preserved by each of them separately; a lemma states
  that for one incident, and retention keeps every active incident.
* `CountsCorrect`: `CountsMatchStreaks` is the inductive strengthening of the
  two action properties: what a state counts is backed by a streak of cycles.
  It is itself inductive relative to `TypeOK`.
* `OpenedCorrect` and `RecoveredCorrect`: an incident that opens had counted
  `OpenCycles - 1` failures before this cycle (by `CountsMatchStreaks`), and
  this cycle adds one; `LifecycleAssumption` says that the streak's cap lies
  above every threshold.  Recovery is the mirror image, except for the blind
  spot, whose first pass always counts as quiet.
* `ConfirmedCorrect`: `StreakAccounted` says what an incident that is not active
  has to say for a streak of failures.  An unknown incident has none (the store
  forgets both together, `ForgottenStreak`); a candidate has counted all of it,
  or all that lies after the cooldown; a resolved incident is still in its
  cooldown.  A restart sets the counter back to zero, which only lengthens the
  cooldown, so every part survives it; the property speaks of a running process,
  because one that the store ends has counted a cycle it did not write.

`IncidentOutboxProofs` (from `OutboxAssumption`), whether or not a command runs
beside the agent:

* The file alone is not inductive, since it is overwritten by copies that were
  loaded earlier.  `Inv` therefore says of every copy what it says of the file:
  what waits has an attempt left, and, before the first command, what is dead
  has none (`AllSound`, `Unskipped`); a copy that is to be written as it stands
  fits the bound (`CopyFits`); a result is recorded in a copy that shows the
  intent in progress (`InHand`).  Every operation on a copy has a lemma of its
  own, and `ActorStep` says once why a step of one actor does not disturb the
  other.  `FirstIsMember` shows that the next intent is well defined: among
  finitely many, one has the fewest before it.
* `TypeCorrect` and `RetriesCorrect` follow.  A stale copy can undo a claim, but
  no copy holds an intent that waits without an attempt left.
* `SentCorrect`: `Told` adds to `SentWasAccepted` that whoever has a success to record
  holds an intent that the server has accepted.  Every other operation on a copy
  only repeats what the copy says was sent (`CopiesSent`, `Repeats`), so it does not
  matter which copy ends up in the file, nor who has taken over the claim.

The second part of `IncidentOutboxProofs` (from `OutboxAssumption`, for
`~Shared`):

* `Solo` adds that one of the two actors rests (`Alone`), that a copy still to
  be written `Follows` from the file (it keeps what is final and counts no
  attempt), and that the copy from which a claim or a result is written is the
  file (`CopiesFollow`), so that a claim is in the file until its result is
  recorded (`HolderOwnsClaim`) and `LoadResult` never takes its error exit.
  `DeliveriesAccounted` is a part of it: `Accounts` is the balance of one step, in
  which the copies of a call are paid for by a result that is owed, and that by
  an attempt or by a crash.
* `DeliveriesCorrect` and `TerminalCorrect` follow.

`JobLocksProofs` (from `LocksAssumption`):

* The inductive invariant `FileInv` has five parts: a task behind its first lock
  has one to give back (`Behind`); what a task has in `files` is what the lock
  file says of its process (`Owned`); two tasks never have the same lock file
  (`Apart`); a task that is still trying misses a name (`Trying`); a task in its
  body has all of them (`Equipped`).  `Apart` is needed because a lock file names
  a process and not a thread, and it holds because a file is taken only while it
  is free.
* `ExclusionCorrect` follows: two bodies with a common name would have one lock
  file.  `LocksGivenBack` adds the converse direction (`HeldInv`): what is locked
  is locked for a task of a process that is up.
* `OneGetsThrough`: everybody takes locks in the same order, and each lock has a
  place in it (thread lock before lock file, name by name).  Each task that gave up
  has a place, that of the lock it failed to get; whoever defeated it holds that
  lock, and if it gave up as well, at a later place (`Placed`).  A task that gave up
  at the greatest place was therefore defeated by one that did not give up.  The
  invariant says only that such places exist (`Ranked`), so that no history
  variable is needed, and that locks are taken in ascending order (`Ascending`).
* `Implementation`: the initial states map to the initial state, `Begin` of
  `JobExclusion` is the step that takes the last lock, `End` is the release,
  the end of a process or an error, everything else stutters.

`DatabaseAvailabilityProofs` (from `AvailabilityAssumption`):

* `ObservedTells` is the heart of `EventsCorrect`: one observation keeps a pair
  of tables in agreement (`Tell`), whatever they were.  The invariant applies it
  to the open transaction (`Drafting`), so that a commit cannot break the file
  and a rollback has nothing to undo.
* `Drafting` also says that the transaction extends the file by undelivered
  events, and `NotYetTold` that nobody has been told of an event that is not in
  the file; together they make a rolled back event's number free again.
* `Delivering` describes the loop: whoever it has passed has the group in hand
  (`DeliveredCorrect`), a group in hand excuses one call, of `SmtpTries` copies at
  most (`CopiesCorrect`), and,
  while no mail has raised, what is no longer pending has reached everyone
  (`OrderCorrect`, since a group is closed under earlier pending events).

`MeterImportProofs` (from `ImportAssumption` and `NoneAssumption`):

* `SpecOneRowPerDate` and `SpecInvalidHasReview`, for any readings in any
  order, any verdicts and any interleaving.  The inductive invariant `IInv` adds
  to the two the shape of an open rebuild (`ReviewShape`) and that no row that it
  leaves needs a review that it withdraws (`WithdrawnNotNeeded`): the import may
  commit rows and reviews beside it, but not for a date it holds
  (`ImportMustWait`).  Nothing has to be known of what `Prepared` computes, only of
  what the two inserts do with it.
* `PreparedTells` is what has to be known for the rest: prepared rows are the
  readings, in their order, each once and all that are not zero; what else there
  is fills slots whose dates nothing else has, before a reading that is not zero;
  and no delta is below what the mean of a gap can be rounded up.  It is proved
  through both loops (`ScanTells` for a row of `filter_valid_rows`, `LoopTells` for
  one of `prepare_rows`).
* `TypeCorrect`, `SpecRebuildFits` and `SpecDeltaBound` follow with `TableInv`, in
  any case: what an import or a rebuild has in hand comes from the source
  (`Sourced`), an import has nothing that is a row already (`ImportRows`), and a
  rebuild has loaded and deleted the same rows (`RebuildRows`).
* `SpecNothingLost` and `SpecDeltasCount` need `Undisturbed`, and `Complete`: then
  an import has prepared all that is new against the table as it is
  (`ImportAlone`), a rebuild has loaded all that it deletes (`RebuildAlone`), every
  reading up to the cursor is a row unless it was zero (`ReadingsAreRows`), and
  the table is `Chained`.
* That the table stays `Chained` is the part of `prepare_rows` that is easy to get
  wrong.  `Adds` sorts what one iteration does into four cases: the row starts anew
  (the first one, a reset), runs back below the last row, is set aside, or counts
  from the last row with the slots between them.  `LoopCounts` is the invariant of
  the loop: table and rows so far are chained, the row that `prev` names is one of
  them, and everything valid behind it runs below it and has no delta.
  `PreparedCounts` is the result for the whole loop, and `ChainCut` says that a
  table from which a rebuild has deleted everything from a date on is still
  chained.

`MeterConsumptionProofs` (from the same two assumptions), on top of these:

* `SpecConsumptionAccounted` says of the whole segment between two resets what
  `SpecDeltasCount` says of one row.  `SpecDeltasCount` is not enough for it: that
  each row counts from some row before it does not exclude that two rows count
  from the same one, or that the row counted from is not the one the next delta
  leaves off at.  The inductive strengthening is `LinkInv`: the table is `Whole`
  (behind every slot is the row that closed its gap) and `Linked` (each valid row
  behind the first one `Follows` one before it: what stands between the two is
  slots that it shares the gap with, and rows that ran back).  It is inductive
  together with the `TableInv` and `Complete` of `MeterImportProofs`.
* Sums.  `MapThenSumSet` is a fold over a chosen order.  `AddingExists` gives, for
  the set of rows, a function from its subsets that adds them up one by one,
  `SumsAgree` that there is one such function, `ConsumptionAddsUp` that the fold
  agrees with it; `SubsetsGrow` is the induction over a finite set by which
  they are shown.  `ConsumptionGrows` and `ConsumptionOfBoth` are all that the rest
  needs.
* From linked rows to the sum.  `Accounted` says of a segment up to one of its
  rows that the deltas so far are the counter's advance, within the rounding of
  the slots and the rows that ran back.  `AccountedOn` carries it from a row to the
  one that follows it, `AllAccounted` through the dates, `EndOfSegment` from the
  last row that counts to the end, and `SegmentsAccounted` is the result.
* From the loops to linked rows.  Both loops remember the last row that advanced,
  `filter_valid_rows` to find resets and transient zeros, `prepare_rows` as the row
  that the next delta counts from.  They part when `prepare_rows` sets a row
  aside: the first one goes on from it, and a drop behind it is a reset for the
  first and may be none for the second.  `LinkFrom` says how the two are related:
  the row counted from is an `Anchor` of the rows so far, and the other lies below
  it by no more than a reset.  Each of the four cases of `Adds` keeps it
  (`LinkAnew`, `LinkBack`, `LinkAside`, `LinkCounts`); `PreparedLinks` is the result
  for a batch and `LinkedCut` that a table cut off by a rebuild stays linked if it
  stays whole.
* The proof corrected the property.  A rebuild that leaves a row that ran back
  among slots tears a gap too, which the earlier definition of `torn` did not say;
  and the rounding is bounded by the dates of the segment, not by the greatest
  date there is, which need not exist.

`AnomalyEventsProofs` (from `EventsAssumption`):

* `SpecStateMatchesEvents`, for batches, thresholds and failures without bound.
  The two loops have an invariant of their own (`LoopOk`: an active loop has
  exactly one open event, of its start, and everything closed is resolved).
  While nothing has overlapped, the tables agree, an open detection works on
  the rows that are there (`WorkOk`), and an open rebuild will delete all of
  them (`RebuildOk`).
* `TypeCorrect`: the invariant `TypeInv` adds that every table is finite, since
  ids are drawn and batches are cut by greatest elements, and that no id in a
  table or an open transaction is above the sequence it was drawn from.
* `SpecScoredOnce`: the scores are of different measurements (`ScoresApart`), and
  an open rebuild will put back scores of just those measurements whose scores it
  has deleted, under new ids (`RebuildApart`): a scoring beside it that would insert one
  of them waits for the measurement that the rebuild has taken away.  While nothing
  overlapped, every score is that of its measurement, also of what the
  measurement will be when the rebuild commits (`ScoresRight`, `FreshRight`).

`AnomalyResultsProofs` (from `EventsAssumption`), on top of these:

* `SpecLongEventsReported`: without rebuilds the ids of events grow with time, so
  the last resolved event is the one the code looks at (`InOrder`, `LoopInOrder`);
  each long event has been mailed or is a candidate of the run, unless a detection
  by hand has dropped it (`LongReported`).
* `SpecEventsAreRuns`: `LoopTells` says of a state row, an open event and resolved
  events that they are the runs of a set of hot and a set of cold scores.
  `JudgeTells` is the step of it for one more score, later than all of them; it
  holds of the tables and the scores processed, of an open detection and its
  batch, and of an open rebuild and all scores that will be there (`RunInv`).
* `SpecNoMailTwice`: what was mailed is `Settled`: its delivery is recorded, it is in
  the hand of the run that sent it, or its event is gone.  The last case is final
  because ids are not used again (`NewIds`), whatever a rebuild deletes and inserts
  beside the job; so there is no second call, and the first one left no more than
  `SmtpTries` copies.  That without rebuilds no two rows start alike follows from the
  runs: scores are then in the order of their measurements (`OrderInv`), and no two
  runs of scores have the same start.

Only model-checked are `PendingIsTried`, `EveryEventIsDelivered`,
`EverythingImported` and `EverythingJudged`: they hold under fairness, which
the installed provers do not reason about.  Every invariant and every action
property that a run expects to hold has a theorem.

## 5. Not modelled

* The observation log and its retention, heartbeat files, the delay arithmetic
  of the loop; the parser of `incident_state.json`; review and dry-run commands.
* The job bodies but for `quarter_hour_job`.  That
  `monthly_b1_v1_consumption_report_job` runs the water meter import and the
  detection under a lock name of its own is a choice of the job table that no
  document settles; it is listed as a hazard.
* Gas, heat and pressure meters: near copies of the modules of the water meters
  in other tables.  `MeterImport` and `AnomalyEvents` are translated from the
  water meters, and nothing is claimed of the copies.
* In the measurements: statistics behind the outlier threshold, profiles and
  z-scores, the mail about new reviews, prediction and backfill.
* Most of the repository's 122,000 lines are user interface, reports, statistics
  and queries, each the work of one session or one request on state that nobody
  else changes.  There is no control in them for a state machine to tell right
  from wrong, so most of the source stays outside by its nature.
* Network clients, report texts, statistics, user interfaces, scrapers: no
  state that outlives a call, or numbers out of TLC's reach.
* PostgreSQL: transactions are taken to be what they promise.

## 6. Plan

Done, in this order: incident lifecycle, outbox, job locks, database
availability, meter imports, anomaly events; then the proofs of every safety
property that a run checks.  Next:

1. The outbox beside a running operator command (`Shared`), for what does hold of
   deliveries there.
2. `SchedulerMetrics` with the runtime monitor's set of alerted failures: two
   processes, one file, one temporary name.
3. `LoginThrottle`: windows, blocks and eviction against the promise that a
   block lasts.
4. The intents of `IncidentLifecycle` feeding `IncidentOutbox`, for the order in
   which a recipient reads "opened" and "recovered"; retention of the observation
   log; the jobs that import and detect under other lock names.
