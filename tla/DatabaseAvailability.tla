------------------------ MODULE DatabaseAvailability ------------------------
(***************************************************************************)
(* How the scheduler tells people that a database is down or up again:     *)
(* the transitions kept in an SQLite file (database_availability_state.py) *)
(* and their delivery by the preflight of quarter_hour_job (scheduler.py). *)
(*                                                                         *)
(* The job holds its lock all the while (JobLocks), so there is one actor. *)
(* It can be killed between any two steps, a mail can raise before or      *)
(* after the server has taken it, and every use of the file can raise.     *)
(* One call of the sender tries up to SmtpTries times: an answer that is   *)
(* to be retried may come when the mail is already taken (app/channels/    *)
(* email.py), so the call may leave as many copies.                        *)
(* Reasons, times, labels and the count of failed checks are left out.     *)
(***************************************************************************)
EXTENDS Integers, Sequences, FiniteSets

CONSTANTS
  ServiceCount,    \* DATABASE_AVAILABILITY_CHECKS, numbered in their order
  RecipientCount,  \* DATABASE_ERROR_RECIPIENTS, numbered in their order
  SmtpTries,       \* _OUTLOOK_SMTP_MAX_ATTEMPTS
  MaxEvents,       \* bound: transitions
  MaxMailErrors,   \* bound: mails that raise
  MaxStoreErrors,  \* bound: uses of the file that raise
  MaxCrashes       \* bound: processes killed

ASSUME AvailabilityAssumption ==
  /\ ServiceCount \in Nat \ {0} /\ RecipientCount \in Nat \ {0}
  /\ SmtpTries \in Nat \ {0}
  /\ MaxEvents \in Nat /\ MaxMailErrors \in Nat
  /\ MaxStoreErrors \in Nat /\ MaxCrashes \in Nat

Services   == 1 .. ServiceCount
Recipients == 1 .. RecipientCount
EventIds   == 1 .. MaxEvents

VARIABLES
  state,        \* database_availability_state: the last observation of a service
  events,       \* database_availability_events, by id
  pc,           \* what the job does next
  down,         \* the services the check found unavailable
  draft,        \* state and events as the open transaction sees them
  pending,      \* ids of the events still to deliver in this run
  next,         \* the next service to record or recipient to write to
  copies,       \* history: mails about an event each recipient has got
  mailErrors, storeErrors, crashes

vars == <<state, events, pc, down, draft, pending, next, copies,
          mailErrors, storeErrors, crashes>>

Availability == {"unknown", "available", "unavailable"}
Event == [service : Services, type : {"unavailable", "recovered"}, delivered : BOOLEAN]

File == [state |-> state, events |-> events]
NoDraft == [state |-> [s \in Services |-> "unknown"], events |-> <<>>]

-----------------------------------------------------------------------------
\* Mutant: a service not seen before counts as recovered.
TransitionFromUnknown(was, up) ==
  IF ~up /\ was # "unavailable" THEN "unavailable"
  ELSE IF up /\ was # "available" THEN "recovered" ELSE "none"

\* What an observation of a service is a transition to, if it is one.
Transition(was, up) ==
  IF ~up /\ was # "unavailable" THEN "unavailable"
  ELSE IF up /\ was = "unavailable" THEN "recovered" ELSE "none"

NewEvent(s, type) == [service |-> s, type |-> type, delivered |-> FALSE]

\* The tables after one observation.
Observed(tables, s, up) ==
  LET type == Transition(tables.state[s], up)
  IN  [state  |-> [tables.state EXCEPT ![s] = IF up THEN "available" ELSE "unavailable"],
       events |-> IF type = "none" THEN tables.events
                  ELSE Append(tables.events, NewEvent(s, type))]

\* Mutant: only what is newer than the last delivered event.
AfterLastDelivered ==
  {i \in DOMAIN events : \A j \in i .. Len(events) : ~events[j].delivered}

\* Mutant: the delivery time is not looked at.
AllEvents == DOMAIN events

Undelivered == {i \in DOMAIN events : ~events[i].delivered}

\* Mutant: the newest events go out first.
NewestGroup ==
  {i \in pending : \A j, k \in pending : j >= i /\ k >= i => events[j].type = events[k].type}

\* Pending events go out in the order of their ids, a run of one type at a time.
Group ==
  {i \in pending : \A j, k \in pending : j <= i /\ k <= i => events[j].type = events[k].type}

-----------------------------------------------------------------------------
Init ==
  /\ state = NoDraft.state /\ events = <<>>
  /\ pc = "idle" /\ down = {} /\ draft = NoDraft /\ pending = {} /\ next = 1
  /\ copies = [r \in Recipients |-> [i \in EventIds |-> 0]]
  /\ mailErrors = 0 /\ storeErrors = 0 /\ crashes = 0

\* The preflight is over and the job forgets what it knew.
Rest ==
  /\ pc' = "idle" /\ down' = {} /\ draft' = NoDraft /\ pending' = {} /\ next' = 1

StoreError == storeErrors < MaxStoreErrors /\ storeErrors' = storeErrors + 1

\* check_database_availability finds these services down; record_observations
\* opens its transaction.
Check(found) ==
  /\ pc = "idle"
  /\ Len(events) + Cardinality({s \in Services : Transition(state[s], s \notin found) # "none"})
       <= MaxEvents
  /\ down' = found
  /\ draft' = File
  /\ pc' = "record"
  /\ UNCHANGED <<state, events, pending, next, copies, mailErrors, storeErrors, crashes>>

RecordObservation ==
  /\ pc = "record" /\ next \in Services
  /\ draft' = Observed(draft, next, next \notin down)
  /\ next' = next + 1
  /\ UNCHANGED <<state, events, pc, down, pending, copies, mailErrors, storeErrors, crashes>>

Commit ==
  /\ pc = "record" /\ next \notin Services
  /\ state' = draft.state /\ events' = draft.events
  /\ pc' = "load"
  /\ draft' = NoDraft /\ down' = {} /\ next' = 1
  /\ UNCHANGED <<pending, copies, mailErrors, storeErrors, crashes>>

Load ==
  /\ pc = "load"
  /\ pending' = Undelivered
  /\ pc' = "deliver"
  /\ UNCHANGED <<state, events, down, draft, next, copies, mailErrors, storeErrors, crashes>>

\* The transaction is rolled back, or what it committed waits for the next run.
StoreFails ==
  /\ pc \in {"record", "load"}
  /\ StoreError
  /\ Rest
  /\ UNCHANGED <<state, events, copies, mailErrors, crashes>>

Done ==
  /\ pc = "deliver" /\ pending = {}
  /\ Rest
  /\ UNCHANGED <<state, events, copies, mailErrors, storeErrors, crashes>>

-----------------------------------------------------------------------------
\* The server has taken n more mails about each event of the group for one recipient.
Mailed(r, n) ==
  [copies EXCEPT ![r] = [i \in EventIds |-> IF i \in Group THEN @[i] + n ELSE @[i]]]

\* The loop goes on with the next group.
NextGroup ==
  /\ pending' = pending \ Group
  /\ next' = 1
  /\ pc' = "deliver"

\* Mutant: one recipient too many.
BeyondLast == next = RecipientCount + 1

\* The mail was for the last recipient.
LastRecipient == next = RecipientCount

\* The last try of the call has succeeded.
Mail ==
  /\ pc = "deliver" /\ pending # {}
  /\ \E n \in 1 .. SmtpTries : copies' = Mailed(next, n)
  /\ next' = next + 1
  /\ pc' = IF LastRecipient THEN "mark" ELSE "deliver"
  /\ UNCHANGED <<state, events, down, draft, pending, mailErrors, storeErrors, crashes>>

\* The last try has raised, at times after the server took the mail.  The group is
\* given up for this run, the later groups are not.
MailRaises ==
  /\ pc = "deliver" /\ pending # {}
  /\ mailErrors < MaxMailErrors
  /\ mailErrors' = mailErrors + 1
  /\ \E n \in 0 .. SmtpTries : copies' = Mailed(next, n)
  /\ NextGroup
  /\ UNCHANGED <<state, events, down, draft, storeErrors, crashes>>

\* Mutant: everything loaded is marked with the first group.
AllMarked == pending

Marked == Group

Mark ==
  /\ pc = "mark"
  /\ events' = [i \in DOMAIN events |->
                  IF i \in Marked THEN [events[i] EXCEPT !.delivered = TRUE] ELSE events[i]]
  /\ NextGroup
  /\ UNCHANGED <<state, down, draft, copies, mailErrors, storeErrors, crashes>>

MarkFails ==
  /\ pc = "mark"
  /\ StoreError
  /\ NextGroup
  /\ UNCHANGED <<state, events, down, draft, copies, mailErrors, crashes>>

Crash ==
  /\ pc # "idle" /\ crashes < MaxCrashes
  /\ crashes' = crashes + 1
  /\ Rest
  /\ UNCHANGED <<state, events, copies, mailErrors, storeErrors>>

-----------------------------------------------------------------------------
JobStep ==
  \/ \E found \in SUBSET Services : Check(found)
  \/ RecordObservation \/ Commit \/ Load \/ StoreFails \/ Done
  \/ Mail \/ MailRaises \/ Mark \/ MarkFails

Next == JobStep \/ Crash

Spec == Init /\ [][Next]_vars

\* The scheduler starts the job every quarter of an hour and the job comes to an end.
FairSpec == Spec /\ []<>(pc # "idle") /\ []<>(pc = "idle")

-----------------------------------------------------------------------------
(***************************************************************************)
(* Types: the file holds well-formed events, only committed ones are       *)
(* pending, and the loop over the recipients ends with the last one.       *)
(***************************************************************************)
Tables == [state : [Services -> Availability], events : Seq(Event)]

TypeOK ==
  /\ File \in Tables /\ Len(events) <= MaxEvents
  /\ pc \in {"idle", "record", "load", "deliver", "mark"}
  /\ down \in SUBSET Services
  /\ draft \in Tables
  /\ pending \in SUBSET (DOMAIN events)
  /\ next \in Nat
  /\ pc = "record" => next \in 1 .. ServiceCount + 1
  /\ pc \in {"idle", "load"} => next = 1
  /\ pc = "deliver" => next \in Recipients
  /\ copies \in [Recipients -> [EventIds -> Nat]]
  /\ mailErrors \in 0 .. MaxMailErrors
  /\ storeErrors \in 0 .. MaxStoreErrors
  /\ crashes \in 0 .. MaxCrashes

(***************************************************************************)
(* The events of one service tell its history: the first one is an outage, *)
(* outage and recovery alternate, and the newest one is an outage exactly  *)
(* while the service is recorded as unavailable.  A repeated failure or a  *)
(* transaction rolled back half way leaves no event without its state.     *)
(***************************************************************************)
Adjacent(log, i, j) ==
  /\ i < j /\ log[i].service = log[j].service
  /\ \A k \in DOMAIN log : i < k /\ k < j => log[k].service # log[i].service

Oldest(log, i) == \A k \in DOMAIN log : k < i => log[k].service # log[i].service
Newest(log, i) == \A k \in DOMAIN log : k > i => log[k].service # log[i].service

Down(log, s) ==
  \E i \in DOMAIN log : /\ log[i].service = s /\ Newest(log, i)
                        /\ log[i].type = "unavailable"

Tell(tables) ==
  LET log == tables.events
  IN  /\ \A i \in DOMAIN log : Oldest(log, i) => log[i].type = "unavailable"
      /\ \A i, j \in DOMAIN log : Adjacent(log, i, j) => log[i].type # log[j].type
      /\ \A s \in Services : tables.state[s] = "unavailable" <=> Down(log, s)

EventsTellState == Tell(File)

(***************************************************************************)
(* An event is marked as delivered only after every recipient has got it:  *)
(* not when the mail to a later recipient raised, and not with a group     *)
(* that was sent before it.                                                *)
(***************************************************************************)
DeliveredReachedAll ==
  \A i \in DOMAIN events, r \in Recipients : events[i].delivered => copies[r][i] >= 1

(***************************************************************************)
(* Nobody is told twice without a reason: every further call of the sender *)
(* about an event is owed to a mail or a mark that raised or to a crash,   *)
(* and no call leaves more than SmtpTries copies.                          *)
(***************************************************************************)
InHand(r, i) ==
  i \in Group /\ (pc = "mark" \/ (pc = "deliver" /\ r < next))

CopiesAccounted ==
  \A r \in Recipients, i \in DOMAIN events :
    copies[r][i] <=
      SmtpTries * (mailErrors + storeErrors + crashes
                     + (IF events[i].delivered \/ InHand(r, i) THEN 1 ELSE 0))

(***************************************************************************)
(* As long as no mail has raised, whoever knows of an event knows of all   *)
(* earlier ones, through crashes and a failing file.  The condition is     *)
(* needed: a group whose mail raised is overtaken by the later groups, and *)
(* the recipient may read of an outage last that has long ended.           *)
(***************************************************************************)
NoticesInOrder ==
  mailErrors = 0 =>
    \A r \in Recipients, i, j \in DOMAIN events :
      i < j /\ copies[r][j] >= 1 => copies[r][i] >= 1

(***************************************************************************)
(* Once mails and the file stop failing, every event is delivered: again   *)
(* and again there is none left to deliver.                                *)
(***************************************************************************)
EveryEventIsDelivered == []<>(\A i \in DOMAIN events : events[i].delivered)
=============================================================================
