------------------------- MODULE AnomalyResultsProofs -------------------------
(***************************************************************************)
(* What the job and the rebuilds bring about, for every MinConsecutive,    *)
(* MinDuration, SmtpTries, number of measurements, batches, rebuilds and   *)
(* failures: there is one call of the sender about a kind of news of an    *)
(* event, without rebuilds the long events are reported, and the events    *)
(* are the runs of the scores.                                             *)
(***************************************************************************)
EXTENDS AnomalyEventsProofs

(***************************************************************************)
(* The ids of events are never used again: what the job and a rebuild will *)
(* insert has ids that no event has, had or will get from the other one,   *)
(* as far as there was a mail about it.                                    *)
(***************************************************************************)
MailIds == {c.event : c \in DOMAIN mails}
LoopQuiet(w) == ~w.active => w.event = {}

NewIds ==
  /\ work # None => /\ LoopQuiet(work.loop) /\ work.known \subseteq WorkIds
                    /\ (WorkIds \ work.known) \cap (Ids(events) \cup MailIds) = {}
  /\ rebuild # None /\ rebuild.loop # None => LoopQuiet(rebuild.loop)
  /\ RebuildIds \cap (Ids(events) \cup MailIds \cup WorkIds) = {}
  /\ rebuild # None => rebuild.events \subseteq Ids(events)

\* There will be no other call of the sender for this kind of news of this event.
Settled(c) ==
  \/ \E d \in deliveries : d.event = c.event /\ d.kind = c.kind /\ d.status = "SENT"
  \/ at = "mailed" /\ c \in found
  \/ c.event \notin Ids(events)

AllSettled == \A c \in DOMAIN mails : Settled(c) /\ mails[c] <= SmtpTries

MailInv ==
  /\ NewIds
  /\ ~interrupted => AllSettled

-----------------------------------------------------------------------------
LEMMA JudgeQuiet ==
  ASSUME NEW w, LoopTyped(w), LoopQuiet(w), NEW s \in ScoreRow
  PROVE  LoopQuiet(Judge(w, s)) /\ Ids(Written(w)) \subseteq Ids(Written(Judge(w, s)))
<1> DEFINE v == Judge(w, s)
<1> DEFINE m == s.m
<1>0. /\ w \in LoopType /\ w.event \in SUBSET EventRow /\ IsFiniteSet(w.event) /\ m \in Nat
      /\ w.active \in BOOLEAN
  <2>1. w.event \in SUBSET Written(w)
    BY DEF Written
  <2>2. IsFiniteSet(w.event)
    BY <2>1, FS_Subset DEF LoopTyped
  <2> QED BY <2>2 DEF LoopTyped, LoopType, ScoreRow
<1>1. /\ Ids(Updated(w.event, m, TRUE)) = Ids(w.event)
      /\ Ids(Updated(w.event, m, FALSE)) = Ids(w.event)
  BY <1>0, UpdatedTyped
<1>2. CASE s.hot
  <2> DEFINE new == NewEvent(IF w.count = 0 THEN m ELSE w.start, m)
  <2>1. /\ v.active = (w.active \/ Opens(w)) /\ v.closed = w.closed
        /\ v.event = IF Opens(w) THEN {new} ELSE IF w.active THEN Updated(w.event, m, TRUE)
                     ELSE w.event
    BY <1>2 DEF Judge, JudgeHot
  <2> HIDE DEF v, new
  <2>2. LoopQuiet(v)
    BY <2>1 DEF LoopQuiet
  <2>3. Ids(w.event) \subseteq Ids(v.event)
    <3>1. CASE Opens(w)
      BY <3>1 DEF Opens, LoopQuiet, Ids
    <3>2. CASE ~Opens(w)
      BY <3>2, <2>1, <1>1
    <3> QED BY <3>1, <3>2
  <2>4. Ids(Written(w)) \subseteq Ids(Written(v))
    BY <2>1, <2>3 DEF Ids, Written
  <2> QED BY <2>2, <2>4 DEF v
<1>3. CASE ~s.hot
  <2> DEFINE ended == IF w.active THEN Updated(w.event, m, FALSE) ELSE {}
  <2>1. /\ v.active = FALSE /\ v.closed = w.closed \cup ended
        /\ v.event = IF w.active THEN {} ELSE w.event
    BY <1>3 DEF Judge, JudgeCold
  <2>2. Ids(w.event) \subseteq Ids(ended)
    BY <1>1 DEF LoopQuiet, Ids
  <2> HIDE DEF v, ended
  <2>3. LoopQuiet(v)
    BY <2>1 DEF LoopQuiet
  <2>4. Ids(Written(w)) \subseteq Ids(Written(v))
    <3>1. \A e \in w.event : \E f \in v.closed : f.id = e.id
      BY <2>1, <2>2 DEF Ids
    <3>2. w.closed \subseteq v.closed
      BY <2>1
    <3> QED BY <3>1, <3>2 DEF Ids, Written
  <2> QED BY <2>3, <2>4 DEF v
<1> QED BY <1>2, <1>3

\* The steps that touch neither the events nor their deliveries nor the mails.
LEMMA MailsStay ==
  ASSUME MailInv, UNCHANGED <<events, deliveries, mails>>,
         ~interrupted' => ~interrupted,
         at = "mailed" => interrupted' \/ (at' = "mailed" /\ found' = found),
         work' = None \/ work' = work, rebuild' = None \/ rebuild' = rebuild
  PROVE  MailInv'
<1>1. WorkIds' \subseteq WorkIds /\ RebuildIds' \subseteq RebuildIds
      /\ (work' # None => WorkIds' = WorkIds) /\ MailIds' = MailIds /\ Ids(events)' = Ids(events)
  BY DEF WorkIds, RebuildIds, MailIds, Ids, Written
<1>2. NewIds'
  BY <1>1 DEF MailInv, NewIds, LoopQuiet
<1>3. ASSUME ~interrupted' PROVE AllSettled'
  BY <1>3 DEF MailInv, AllSettled, Settled, Ids
<1> QED BY <1>2, <1>3 DEF MailInv

LEMMA DetectLoadMails ==
  ASSUME TypeInv, MailInv, NEW last \in Unprocessed, DetectLoad(last)
  PROVE  MailInv'
<1> DEFINE rows == {s \in Unprocessed : s.id <= last.id}
<1> DEFINE loop == Loop(rows, state, Active(events))
<1>1. /\ at = "detect" /\ work'.loop = loop /\ work'.known = Ids(loop.event)
      /\ UNCHANGED <<events, deliveries, mails, rebuild, interrupted>>
  BY DEF DetectLoad, tables
<1>2. loop.closed = {} /\ loop.event \subseteq events /\ LoopQuiet(loop)
  BY DEF Loop, LoopQuiet, Active
<1> HIDE DEF loop
<1>3. Ids(Written(loop)) = Ids(loop.event) /\ Ids(loop.event) \subseteq Ids(events)
  BY <1>2 DEF Written, Ids
<1>4. /\ WorkIds' \subseteq Ids(events) /\ (work' # None => WorkIds' = Ids(loop.event))
      /\ RebuildIds' = RebuildIds /\ MailIds' = MailIds /\ Ids(events)' = Ids(events)
  BY <1>1, <1>3 DEF WorkIds, RebuildIds, MailIds, Ids
<1>5. NewIds'
  BY <1>1, <1>2, <1>3, <1>4 DEF MailInv, NewIds, LoopQuiet
<1>6. ASSUME ~interrupted' PROVE AllSettled'
  BY <1>1, <1>6 DEF MailInv, AllSettled, Settled, Ids
<1> QED BY <1>5, <1>6 DEF MailInv

LEMMA DetectJudgeMails ==
  ASSUME TypeInv, MailInv, DetectJudge
  PROVE  MailInv'
<1>1. PICK s \in work.loop.todo : work' = [work EXCEPT !.loop = Judge(work.loop, s)]
  BY DEF DetectJudge
<1> DEFINE loop == Judge(work.loop, s)
<1>2. /\ at = "judge" /\ at' = "judge" /\ work # None
      /\ UNCHANGED <<events, deliveries, mails, rebuild, interrupted, found>>
  BY DEF DetectJudge, tables
<1>3. WorkTyped /\ s \in ScoreRow /\ LoopTyped(work.loop)
  BY <1>2 DEF TypeInv, JobTyped, WorkTyped, LoopTyped, LoopType
<1>4. PICK n \in Nat : /\ \A j \in EventIds : j \in Nat /\ j < n
                       /\ Ids(Written(loop)) \subseteq Ids(Written(work.loop)) \cup {n}
  BY <1>3, JudgeTyped DEF TypeInv
<1>5. LoopQuiet(loop) /\ Ids(Written(work.loop)) \subseteq Ids(Written(loop))
  BY <1>2, <1>3, JudgeQuiet DEF MailInv, NewIds
<1>6. work'.loop = loop /\ work'.known = work.known
  BY <1>1, <1>3 DEF WorkTyped
<1> HIDE DEF loop
<1>7. /\ WorkIds' \subseteq WorkIds \cup {n}
      /\ work' # None => WorkIds \subseteq WorkIds'
      /\ RebuildIds' = RebuildIds /\ MailIds' = MailIds /\ Ids(events)' = Ids(events)
  BY <1>2, <1>4, <1>5, <1>6 DEF WorkIds, RebuildIds, MailIds, Ids
<1>8. n \notin Ids(events) \cup MailIds \cup WorkIds \cup RebuildIds
  BY <1>4 DEF EventIds, MailIds
<1>9. NewIds'
  BY <1>2, <1>5, <1>6, <1>7, <1>8 DEF MailInv, NewIds, LoopQuiet
<1>10. ASSUME ~interrupted' PROVE AllSettled'
  BY <1>2, <1>10 DEF MailInv, AllSettled, Settled, Ids
<1> QED BY <1>9, <1>10 DEF MailInv

\* What is inserted was not there, nor was there a mail about it.
LEMMA DetectCommitMails ==
  ASSUME TypeInv, MailInv, DetectCommit
  PROVE  MailInv'
<1> DEFINE w == work.loop
<1>1. /\ at = "judge" /\ work # None /\ work' = None
      /\ events' = {e \in events : e.id \notin Ids(Written(w))} \cup Written(w)
      /\ work.known \subseteq Ids(events)
      /\ UNCHANGED <<deliveries, mails, rebuild, interrupted>>
  BY DEF DetectCommit, DetectConflict
<1> HIDE DEF w
<1>2. WorkIds = Ids(Written(w)) /\ WorkIds' = {} /\ RebuildIds' = RebuildIds /\ MailIds' = MailIds
  BY <1>1 DEF WorkIds, RebuildIds, MailIds, w
<1>3. Ids(events)' = Ids(events) \cup WorkIds
  BY <1>1, <1>2 DEF Ids
<1>4. NewIds'
  BY <1>1, <1>2, <1>3 DEF MailInv, NewIds, LoopQuiet
<1>5. ASSUME ~interrupted' PROVE AllSettled'
  <2>1. AllSettled
    BY <1>1, <1>5 DEF MailInv
  <2>2. ASSUME NEW c \in DOMAIN mails PROVE Settled(c)'
    <3>1. Settled(c) /\ c.event \in MailIds
      BY <2>1 DEF AllSettled, MailIds
    <3>2. c.event \notin Ids(events) => c.event \notin Ids(events)'
      BY <1>1, <1>3, <3>1 DEF MailInv, NewIds
    <3> QED BY <1>1, <3>1, <3>2 DEF Settled
  <2> QED BY <1>1, <2>1, <2>2 DEF AllSettled
<1> QED BY <1>4, <1>5 DEF MailInv

\* One call for each that is due.
LEMMA MailsSent ==
  ASSUME TypeInv, AlertSend
  PROVE  /\ found' \subseteq found /\ \A c \in found' : Due(c)
         /\ \A c \in found : Due(c) => c \in found'
         /\ DOMAIN mails' = DOMAIN mails \cup found'
         /\ \A c \in DOMAIN mails \ found' : mails'[c] = mails[c]
         /\ \A c \in found' \ DOMAIN mails : mails'[c] <= SmtpTries
<1>1. found' = {c \in found : Due(c)}
  BY DEF AlertSend
<1>2. PICK n \in 1 .. SmtpTries : mails' = Posted(found', n)
  BY DEF AlertSend
<1>3. found' \in SUBSET Pair
  BY <1>1 DEF TypeInv, JobTyped
<1>4. n \in Nat /\ n <= SmtpTries
  BY EventsAssumption
<1>5. /\ DOMAIN mails' = DOMAIN mails \cup found'
      /\ \A c \in DOMAIN mails \ found' : mails'[c] = mails[c]
      /\ \A c \in found' \ DOMAIN mails : mails'[c] = n
  BY <1>2, <1>3, <1>4, CopiesPosted
<1> QED BY <1>1, <1>4, <1>5

LEMMA AlertSendMails ==
  ASSUME TypeInv, MailInv, AlertSend
  PROVE  MailInv'
<1>1. /\ at = "alert" /\ at' = "mailed"
      /\ UNCHANGED <<events, deliveries, work, rebuild, interrupted>>
  BY DEF AlertSend, tables
<1>2. /\ \A c \in found' : Due(c)
      /\ DOMAIN mails' = DOMAIN mails \cup found'
      /\ \A c \in DOMAIN mails \ found' : mails'[c] = mails[c]
      /\ \A c \in found' \ DOMAIN mails : mails'[c] <= SmtpTries
  BY MailsSent
<1>3. \A c : Due(c) => c.event \in Ids(events) /\ ~Settled(c)
  BY <1>1 DEF Due, Settled, Ids
<1>4. work = None
  BY <1>1 DEF TypeInv, JobTyped
<1>5. MailIds' \subseteq MailIds \cup Ids(events)
  BY <1>2, <1>3 DEF MailIds
<1>6. WorkIds' = {} /\ RebuildIds' = RebuildIds /\ Ids(events)' = Ids(events)
  BY <1>1, <1>4 DEF WorkIds, RebuildIds, Ids
<1>7. NewIds'
  BY <1>1, <1>4, <1>5, <1>6 DEF MailInv, NewIds
<1>8. ASSUME ~interrupted' PROVE AllSettled'
  <2>1. AllSettled
    BY <1>1, <1>8 DEF MailInv
  <2>2. \A c \in found' : c \notin DOMAIN mails
    BY <1>2, <1>3, <2>1 DEF AllSettled
  <2>3. \A c \in DOMAIN mails' : mails'[c] <= SmtpTries
    BY <1>2, <2>1, <2>2 DEF AllSettled
  <2>4. \A c \in DOMAIN mails : Settled(c)'
    BY <1>1, <2>1 DEF AllSettled, Settled, Ids
  <2>5. \A c \in found' : Settled(c)'
    BY <1>1 DEF Settled
  <2> QED BY <1>2, <2>3, <2>4, <2>5 DEF AllSettled
<1> QED BY <1>7, <1>8 DEF MailInv

LEMMA AlertCommitMails ==
  ASSUME TypeInv, MailInv, AlertCommit
  PROVE  MailInv'
<1> DEFINE kept == {c.event : c \in found} \subseteq Ids(events)
<1>1. /\ at = "mailed" /\ at' = "idle"
      /\ deliveries' = IF kept THEN Delivered(found, "SENT") ELSE deliveries
      /\ interrupted' = (interrupted \/ ~kept)
      /\ UNCHANGED <<events, work, rebuild, mails>>
  BY DEF AlertCommit
<1> HIDE DEF kept
<1>2. NewIds'
  BY <1>1 DEF MailInv, NewIds, WorkIds, RebuildIds, MailIds, Ids, LoopQuiet, Written
<1>3. ASSUME ~interrupted' PROVE AllSettled'
  <2>1. AllSettled /\ deliveries' = Delivered(found, "SENT")
    BY <1>1, <1>3 DEF MailInv
  <2>2. \A c \in found : \E d \in deliveries' :
          d.event = c.event /\ d.kind = c.kind /\ d.status = "SENT"
    <3> TAKE c \in found
    <3> DEFINE d == [event |-> c.event, kind |-> c.kind, status |-> "SENT"]
    <3>1. d \in deliveries' /\ d.event = c.event /\ d.kind = c.kind /\ d.status = "SENT"
      BY <2>1 DEF Delivered
    <3> QED BY <3>1
  <2>3. \A d \in deliveries : d.status = "SENT" =>
          \E t \in deliveries' : t.event = d.event /\ t.kind = d.kind /\ t.status = "SENT"
    <3> SUFFICES ASSUME NEW d \in deliveries, d.status = "SENT"
                 PROVE  \E t \in deliveries' :
                          t.event = d.event /\ t.kind = d.kind /\ t.status = "SENT"
      OBVIOUS
    <3> DEFINE c == [event |-> d.event, kind |-> d.kind]
    <3>1. CASE c \in found
      BY <2>2, <3>1
    <3>2. CASE c \notin found
      <4>1. d \in deliveries'
        BY <2>1, <3>2 DEF Delivered
      <4> QED BY <4>1
    <3> QED BY <3>1, <3>2
  <2>4. ASSUME NEW c \in DOMAIN mails PROVE Settled(c)'
    <3>1. Settled(c)
      BY <2>1 DEF AllSettled
    <3>2. CASE c \in found
      BY <1>1, <2>2, <3>2 DEF Settled
    <3>3. CASE \E d \in deliveries : d.event = c.event /\ d.kind = c.kind /\ d.status = "SENT"
      BY <1>1, <2>3, <3>3 DEF Settled
    <3>4. CASE c.event \notin Ids(events)
      BY <1>1, <3>4 DEF Settled, Ids
    <3> QED BY <3>1, <3>2, <3>3, <3>4 DEF Settled
  <2> QED BY <1>1, <2>1, <2>4 DEF AllSettled
<1> QED BY <1>2, <1>3 DEF MailInv

LEMMA RebuildLoopMails ==
  ASSUME TypeInv, MailInv, RebuildLoad \/ RebuildJudge
  PROVE  MailInv'
<1>0. /\ rebuild # None /\ RebuildTyped /\ rebuild'.events = rebuild.events
      /\ UNCHANGED <<events, deliveries, mails, work, interrupted, at, found>>
  <2>1. rebuild # None /\ RebuildTyped
    BY DEF RebuildLoad, RebuildJudge, TypeInv
  <2> QED BY <2>1 DEF RebuildLoad, RebuildJudge, RebuildTyped, tables, job
<1>1. WorkIds' = WorkIds /\ MailIds' = MailIds /\ Ids(events)' = Ids(events)
  BY <1>0 DEF WorkIds, MailIds, Ids
<1>2. LoopQuiet(rebuild'.loop) /\ RebuildIds' \cap (Ids(events) \cup MailIds \cup WorkIds) = {}
  <2>1. CASE RebuildLoad
    <3>1. rebuild'.loop = Loop(RebuiltScores, {}, {})
      BY <1>0, <2>1 DEF RebuildLoad, RebuildTyped
    <3>2. LoopQuiet(rebuild'.loop) /\ Written(rebuild'.loop) = {}
      BY <3>1 DEF Loop, LoopQuiet, Written
    <3>3. RebuildIds' = {}
      BY <3>2 DEF RebuildIds, Ids
    <3> QED BY <3>2, <3>3
  <2>2. CASE RebuildJudge
    <3>1. PICK s \in rebuild.loop.todo : rebuild'.loop = Judge(rebuild.loop, s)
      BY <1>0, <2>2 DEF RebuildJudge, RebuildTyped
    <3> DEFINE loop == Judge(rebuild.loop, s)
    <3>2. rebuild.loop # None /\ LoopTyped(rebuild.loop) /\ s \in ScoreRow
      BY <1>0, <2>2, <3>1 DEF RebuildJudge, RebuildTyped, LoopTyped, LoopType
    <3>3. PICK n \in Nat : /\ \A j \in EventIds : j \in Nat /\ j < n
                           /\ Ids(Written(loop)) \subseteq Ids(Written(rebuild.loop)) \cup {n}
      BY <3>2, JudgeTyped DEF TypeInv
    <3>4. LoopQuiet(loop)
      BY <1>0, <3>2, JudgeQuiet DEF MailInv, NewIds
    <3> HIDE DEF loop
    <3>5. RebuildIds' \subseteq RebuildIds \cup {n}
      BY <1>0, <3>1, <3>2, <3>3 DEF RebuildIds, loop
    <3>6. n \notin Ids(events) \cup MailIds \cup WorkIds
      BY <3>3 DEF EventIds, MailIds
    <3> QED BY <3>1, <3>4, <3>5, <3>6 DEF MailInv, NewIds, loop
  <2> QED BY <2>1, <2>2
<1>3. NewIds'
  BY <1>0, <1>1, <1>2 DEF MailInv, NewIds, LoopQuiet
<1>4. ASSUME ~interrupted' PROVE AllSettled'
  BY <1>0, <1>4 DEF MailInv, AllSettled, Settled, Ids
<1> QED BY <1>3, <1>4 DEF MailInv

\* The events that a rebuild deletes are gone for good.
LEMMA RebuildCommitMails ==
  ASSUME TypeInv, MailInv, RebuildCommit
  PROVE  MailInv'
<1> DEFINE w == rebuild.loop
<1>1. /\ rebuild # None /\ w # None /\ rebuild' = None
      /\ events' = KeptEvents \cup Written(w)
      /\ deliveries' = {d \in deliveries : d.event \notin rebuild.events}
      /\ UNCHANGED <<at, found, work, mails, interrupted>>
  BY DEF RebuildCommit, RebuildDone, job
<1>2. RebuildIds = Ids(Written(w)) /\ RebuildIds' = {} /\ WorkIds' = WorkIds /\ MailIds' = MailIds
  BY <1>1 DEF RebuildIds, WorkIds, MailIds
<1> HIDE DEF w
<1>3. Ids(events)' = (Ids(events) \ rebuild.events) \cup RebuildIds
  BY <1>1, <1>2 DEF Ids, KeptEvents
<1>4. RebuildIds \cap (Ids(events) \cup MailIds \cup WorkIds) = {}
      /\ rebuild.events \subseteq Ids(events)
  BY <1>1 DEF MailInv, NewIds
<1>5. NewIds'
  BY <1>1, <1>2, <1>3, <1>4 DEF MailInv, NewIds, LoopQuiet
<1>6. ASSUME ~interrupted' PROVE AllSettled'
  <2>1. AllSettled
    BY <1>1, <1>6 DEF MailInv
  <2>2. ASSUME NEW c \in DOMAIN mails PROVE Settled(c)'
    <3>1. Settled(c) /\ c.event \in MailIds
      BY <2>1 DEF AllSettled, MailIds
    <3>2. c.event \in rebuild.events \/ c.event \notin Ids(events)
            => c.event \notin Ids(events)'
      BY <1>3, <1>4, <3>1
    <3> QED BY <1>1, <3>1, <3>2 DEF Settled
  <2> QED BY <1>1, <2>1, <2>2 DEF AllSettled
<1> QED BY <1>5, <1>6 DEF MailInv

LEMMA StepMails ==
  ASSUME TypeInv, MailInv, [Next]_vars
  PROVE  MailInv'
<1>1. CASE \E heat \in Heat : Import(heat)
  BY <1>1, MailsStay DEF Import, job
<1>2. CASE JobStep
  <2>1. CASE \E last \in cursor + 1 .. Len(measurements) : ScoreRead(last)
    <3>1. /\ UNCHANGED <<events, deliveries, mails, work, rebuild, interrupted>> /\ at = "idle"
      BY <2>1 DEF ScoreRead, tables
    <3> QED BY <3>1, MailsStay
  <2>2. CASE ScoreNothing \/ ScoreRaises \/ ScoreCommit \/ ScoreRollBack
    BY <2>2, MailsStay DEF ScoreNothing, ScoreRaises, ScoreCommit, ScoreRollBack, tables
  <2>3. CASE \E last \in Unprocessed : DetectLoad(last)
    BY <2>3, DetectLoadMails
  <2>4. CASE DetectNothing \/ DetectRollBack \/ AlertNothing
    BY <2>4, MailsStay DEF DetectNothing, DetectRollBack, AlertNothing, tables
  <2>5. CASE DetectJudge
    BY <2>5, DetectJudgeMails
  <2>6. CASE DetectCommit
    BY <2>6, DetectCommitMails
  <2>7. CASE AlertSend
    BY <2>7, AlertSendMails
  <2>8. CASE AlertCommit
    BY <2>8, AlertCommitMails
  <2> QED BY <1>2, <2>1, <2>2, <2>3, <2>4, <2>5, <2>6, <2>7, <2>8 DEF JobStep
<1>3. CASE AlertFail
  <2> DEFINE due == {c \in found : Due(c)}
  <2>1. interrupted' = TRUE /\ at = "alert" /\ UNCHANGED <<events, work, rebuild>>
    BY <1>3 DEF AlertFail
  <2>2. PICK n \in 0 .. SmtpTries : mails' = IF n = 0 THEN mails ELSE Posted(due, n)
    BY <1>3 DEF AlertFail
  <2>3. \A c \in due : c.event \in Ids(events)
    BY DEF Due, Ids
  <2> HIDE DEF due
  <2>4. DOMAIN mails' \subseteq DOMAIN mails \cup due
    BY <2>2 DEF Posted
  <2>5. MailIds' \subseteq MailIds \cup Ids(events)
    BY <2>3, <2>4 DEF MailIds
  <2>6. work = None
    BY <2>1 DEF TypeInv, JobTyped
  <2>7. WorkIds' = {} /\ RebuildIds' = RebuildIds /\ Ids(events)' = Ids(events)
    BY <2>1, <2>6 DEF WorkIds, RebuildIds, Ids
  <2>8. NewIds'
    BY <2>1, <2>5, <2>6, <2>7 DEF MailInv, NewIds
  <2> QED BY <2>1, <2>8 DEF MailInv
<1>4. CASE Crash
  <2>1. /\ interrupted' = (interrupted \/ at \in {"alert", "mailed"}) /\ work' = None
        /\ UNCHANGED <<events, deliveries, mails, rebuild>>
    BY <1>4 DEF Crash, tables
  <2> QED BY <2>1, MailsStay
<1>5. CASE \E m \in DOMAIN measurements, heat \in Heat : RebuildDelete(m, heat)
  <2>1. /\ rebuild'.loop = None /\ rebuild'.events = Ids(events)
        /\ UNCHANGED <<events, deliveries, mails, work, at, found, interrupted>>
    BY <1>5 DEF RebuildDelete, tables, job
  <2>2. RebuildIds' = {} /\ WorkIds' = WorkIds /\ MailIds' = MailIds /\ Ids(events)' = Ids(events)
    BY <2>1 DEF RebuildIds, WorkIds, MailIds, Ids
  <2>3. NewIds'
    BY <2>1, <2>2 DEF MailInv, NewIds, LoopQuiet
  <2>4. ASSUME ~interrupted' PROVE AllSettled'
    BY <2>1, <2>4 DEF MailInv, AllSettled, Settled, Ids
  <2> QED BY <2>3, <2>4 DEF MailInv
<1>6. CASE RebuildLoad \/ RebuildJudge
  BY <1>6, RebuildLoopMails
<1>7. CASE RebuildCommit
  BY <1>7, RebuildCommitMails
<1>8. CASE RebuildRollBack \/ RebuildAbort
  BY <1>8, MailsStay DEF RebuildRollBack, RebuildAbort, tables, job
<1>9. CASE UNCHANGED vars
  BY <1>9, MailsStay DEF vars, tables, job
<1>10. CASE ManualDetect
  BY <1>10, MailsStay DEF ManualDetect, tables
<1> QED
  BY <1>1, <1>2, <1>3, <1>4, <1>5, <1>6, <1>7, <1>8, <1>9, <1>10 DEF Next, RebuildStep

LEMMA SpecMails == Spec => []MailInv
<1>1. Init => MailInv
  BY DEF Init, MailInv, NewIds, WorkIds, RebuildIds, MailIds, AllSettled
<1> QED BY <1>1, StepMails, SpecTyped, PTL DEF Spec

-----------------------------------------------------------------------------
(***************************************************************************)
(* Without rebuilds: ids of events grow with time, the active one has the  *)
(* greatest, and every long event that could be reported has been, or is   *)
(* among the candidates that the job has in hand.                          *)
(***************************************************************************)
IsMailed(c) == c \in DOMAIN mails

InOrder ==
  /\ \A e, f \in events : e.id = f.id => e = f
  /\ \A e, f \in events : e.active /\ ~f.active => f.id < e.id
  /\ \A d \in deliveries : d.status = "SENT" => IsMailed([event |-> d.event, kind |-> d.kind])
  /\ at = "mailed" => \A c \in found : IsMailed(c)

\* The event of the loop is an old one, or a candidate; so is the last it closes.
LoopInOrder(w) ==
  /\ \A e \in w.event : e \in events \/ [event |-> e.id, kind |-> "ACTIVE"] \in w.candidates
  /\ \A e \in w.closed : (\A f \in w.closed : f.id <= e.id) =>
       [event |-> e.id, kind |-> "RESOLVED"] \in w.candidates
  /\ \A e \in w.closed, f \in w.event : e.id < f.id
  /\ \A e \in Written(w), f \in events : ~f.active => f.id < e.id
  /\ \A e, f \in Written(w) : e.id = f.id => e = f

Reported(e, kind) ==
  \/ Mailed(e, kind)
  \/ at = "alert" /\ [event |-> e.id, kind |-> kind] \in found

LongReported ==
  \A e \in events :
    e.duration >= MinDuration =>
      /\ e.active => Reported(e, "ACTIVE")
      /\ ~e.active /\ (\A f \in events : ~f.active => f.id <= e.id) => Reported(e, "RESOLVED")

ReportInv ==
  /\ rebuilds \in Nat
  /\ rebuilds = 0 =>
       /\ rebuild = None /\ ~overlapped
       /\ InOrder
       /\ at = "judge" => LoopInOrder(work.loop)
       /\ ~interrupted /\ ~silent => LongReported

-----------------------------------------------------------------------------
LEMMA JudgeInOrder ==
  ASSUME NEW w, LoopTyped(w), LoopOk(w), LoopInOrder(w), NEW s \in ScoreRow,
         Bounded(EventIds), Ids(Written(w)) \subseteq EventIds,
         \A e \in events : e.id \in EventIds
  PROVE  LoopInOrder(Judge(w, s))
<1> DEFINE v == Judge(w, s)
<1> DEFINE m == s.m
<1>0. /\ m \in Nat /\ \A e \in Written(w) : e.id \in Nat /\ e.id \in EventIds
  BY DEF LoopTyped, LoopType, Written, EventRow, ScoreRow, Ids
<1>1. CASE s.hot
  <2> DEFINE start == IF w.count = 0 THEN m ELSE w.start
  <2> DEFINE new == NewEvent(start, m)
  <2>1. /\ v.closed = w.closed
        /\ v.event = IF Opens(w) THEN {new} ELSE IF w.active THEN Updated(w.event, m, TRUE)
                     ELSE w.event
        /\ v.candidates = IF w.active \/ Opens(w) THEN Candidates(w, v.event, "ACTIVE")
                          ELSE w.candidates
    BY <1>1 DEF Judge, JudgeHot
  <2>2. new.id \in Nat /\ \A j \in EventIds : j \in Nat /\ j < new.id
    BY FreshId
  <2> HIDE DEF v, new
  <2>3. /\ \A c \in w.candidates : c.kind = "RESOLVED" => c \in v.candidates
        /\ w.active \/ Opens(w) =>
             \A e \in v.event : [event |-> e.id, kind |-> "ACTIVE"] \in v.candidates
    BY <2>1 DEF Candidates
  <2>4. \A e \in v.closed : (\A f \in v.closed : f.id <= e.id) =>
          [event |-> e.id, kind |-> "RESOLVED"] \in v.candidates
    BY <2>1, <2>3 DEF LoopInOrder
  <2>5. CASE Opens(w)
    <3>1. v.event = {new} /\ w.event = {}
      BY <2>1, <2>5 DEF Opens, LoopOk
    <3>2. \A e \in Written(v) : e = new \/ e \in Written(w)
      BY <2>1, <3>1 DEF Written
    <3>3. \A e \in Written(w) : e.id < new.id
      BY <1>0, <2>2
    <3>4. \A f \in events : f.id < new.id
      BY <2>2
    <3>5. \A e, f \in Written(v) : e.id = f.id => e = f
      BY <3>2, <3>3, <2>2, <1>0 DEF LoopInOrder
    <3>6. \A e \in v.closed, f \in v.event : e.id < f.id
      BY <2>1, <3>1, <3>3 DEF Written
    <3>7. \A e \in Written(v), f \in events : ~f.active => f.id < e.id
      BY <3>2, <3>4 DEF LoopInOrder
    <3> QED BY <2>3, <2>4, <2>5, <3>5, <3>6, <3>7 DEF LoopInOrder, v
  <2>6. CASE w.active /\ ~Opens(w)
    <3>1. PICK e \in w.event : w.event = {e}
      BY <2>6 DEF LoopOk
    <3> DEFINE u == [id |-> e.id, start |-> e.start, duration |-> Duration(e.start, m),
                     active |-> TRUE]
    <3>2. v.event = {u} /\ u.id = e.id
      BY <2>1, <2>6, <3>1 DEF Updated
    <3> HIDE DEF u
    <3>3. /\ \A f \in w.closed : f.id < e.id /\ f.id \in Nat /\ e.id \in Nat
          /\ \A f \in events : ~f.active => f.id < e.id
      BY <1>0, <3>1 DEF LoopInOrder, Written
    <3>4. \A f, g \in Written(v) : f.id = g.id => f = g
      <4>1. \A g \in Written(v) : g = u \/ (g \in w.closed /\ g.id < u.id)
        BY <2>1, <3>2, <3>3 DEF Written
      <4>2. \A g \in w.closed : g \in Written(w) /\ g.id \in Nat
        BY <3>3 DEF Written
      <4> QED BY <4>1, <4>2, <3>2, <3>3 DEF LoopInOrder
    <3>5. \A f \in v.closed, g \in v.event : f.id < g.id
      BY <2>1, <3>2, <3>3
    <3>6. \A g \in Written(v), f \in events : ~f.active => f.id < g.id
      BY <2>1, <3>2, <3>3 DEF LoopInOrder, Written
    <3> QED BY <2>3, <2>4, <2>6, <3>4, <3>5, <3>6 DEF LoopInOrder, v
  <2>7. CASE ~w.active /\ ~Opens(w)
    <3>1. v.event = w.event /\ v.candidates = w.candidates
      BY <2>1, <2>7
    <3> QED BY <2>1, <3>1 DEF LoopInOrder, Written, v
  <2> QED BY <2>5, <2>6, <2>7
<1>2. CASE ~s.hot
  <2> DEFINE ended == IF w.active THEN Updated(w.event, m, FALSE) ELSE {}
  <2>1. /\ v.closed = w.closed \cup ended
        /\ v.event = IF w.active THEN {} ELSE w.event
        /\ v.candidates = Candidates(w, ended, "RESOLVED")
    BY <1>2 DEF Judge, JudgeCold
  <2>2. v.event = {}
    BY <2>1 DEF LoopOk
  <2>3. CASE w.active
    <3>1. PICK e \in w.event : w.event = {e}
      BY <2>3 DEF LoopOk
    <3> DEFINE u == [id |-> e.id, start |-> e.start, duration |-> Duration(e.start, m),
                     active |-> FALSE]
    <3>2. ended = {u} /\ u.id = e.id
      BY <2>3, <3>1 DEF Updated
    <3> HIDE DEF u, ended, v
    <3>3. /\ \A f \in w.closed : f.id < e.id /\ f.id \in Nat /\ e.id \in Nat
          /\ \A f \in events : ~f.active => f.id < e.id
      BY <1>0, <3>1 DEF LoopInOrder, Written
    <3>4. [event |-> u.id, kind |-> "RESOLVED"] \in v.candidates
      BY <2>1, <3>2 DEF Candidates
    <3>5. \A g \in v.closed : g = u \/ (g \in w.closed /\ g.id < u.id /\ u.id \in Nat /\ g.id \in Nat)
      BY <2>1, <3>2, <3>3
    <3>6. u \in v.closed
      BY <2>1, <3>2
    <3>7. \A g \in v.closed : (\A f \in v.closed : f.id <= g.id) =>
            [event |-> g.id, kind |-> "RESOLVED"] \in v.candidates
      <4> SUFFICES ASSUME NEW g \in v.closed, \A f \in v.closed : f.id <= g.id
                   PROVE  g = u
        BY <3>4
      <4>1. u.id <= g.id
        BY <3>6
      <4> QED BY <3>5, <4>1
    <3>8. \A f, g \in Written(v) : f.id = g.id => f = g
      BY <2>2, <3>5 DEF LoopInOrder, Written
    <3>9. \A g \in Written(v), f \in events : ~f.active => f.id < g.id
      BY <2>2, <3>2, <3>3, <3>5 DEF LoopInOrder, Written
    <3> QED BY <2>2, <3>7, <3>8, <3>9 DEF LoopInOrder, v
  <2>4. CASE ~w.active
    <3>1. ended = {} /\ w.event = {}
      BY <2>4 DEF LoopOk
    <3>2. v.closed = w.closed /\ \A c \in w.candidates : c \in v.candidates
      BY <2>1, <3>1 DEF Candidates
    <3> HIDE DEF v
    <3> QED BY <2>2, <3>1, <3>2 DEF LoopInOrder, Written, v
  <2> QED BY <2>3, <2>4
<1> QED BY <1>1, <1>2

\* The steps before the detection, and what ends the job anywhere.
LEMMA ReportsStay ==
  ASSUME ReportInv, UNCHANGED <<events, deliveries, mails, rebuild, rebuilds>>,
         rebuild = None /\ ~overlapped => ~overlapped',
         ~interrupted' => ~interrupted, ~silent' => ~silent,
         at = "alert" => interrupted' \/ (at' = "alert" /\ found' = found),
         at' = "mailed" => at = "mailed" /\ found' = found,
         at' = "judge" => at = "judge" /\ work' = work
  PROVE  ReportInv'
<1> SUFFICES ASSUME rebuilds = 0
             PROVE  /\ rebuild' = None /\ ~overlapped' /\ InOrder'
                    /\ at' = "judge" => LoopInOrder(work.loop)'
                    /\ ~interrupted' /\ ~silent' => LongReported'
  BY DEF ReportInv
<1>1. rebuild = None /\ ~overlapped /\ InOrder
  BY DEF ReportInv
<1>2. InOrder'
  BY <1>1 DEF InOrder, IsMailed
<1>3. ASSUME at' = "judge" PROVE LoopInOrder(work.loop)'
  BY <1>3 DEF ReportInv, LoopInOrder, Written
<1>4. ASSUME ~interrupted', ~silent' PROVE LongReported'
  <2>1. LongReported
    BY <1>4 DEF ReportInv
  <2>2. \A e \in events : \A kind : Reported(e, kind) => Reported(e, kind)'
    BY <1>4 DEF Reported, Mailed
  <2> QED BY <2>1, <2>2 DEF LongReported
<1> QED BY <1>1, <1>2, <1>3, <1>4

LEMMA DetectLoadReports ==
  ASSUME TypeInv, ReportInv, NEW last \in Unprocessed, DetectLoad(last)
  PROVE  ReportInv'
<1> DEFINE rows == {s \in Unprocessed : s.id <= last.id}
<1> DEFINE loop == Loop(rows, state, Active(events))
<1>1. /\ at = "detect" /\ at' = "judge" /\ work'.loop = loop
      /\ UNCHANGED <<events, deliveries, mails, rebuild, rebuilds, found, overlapped, interrupted,
                     silent>>
  BY DEF DetectLoad, tables, counts
<1>2. loop.closed = {} /\ loop.event \subseteq events /\ \A e \in loop.event : e.active
  BY DEF Loop, Active
<1> HIDE DEF loop
<1> SUFFICES ASSUME rebuilds = 0
             PROVE  /\ rebuild' = None /\ ~overlapped' /\ InOrder'
                    /\ LoopInOrder(work.loop)'
                    /\ ~interrupted' /\ ~silent' => LongReported'
  BY <1>1 DEF ReportInv
<1>3. rebuild = None /\ ~overlapped /\ InOrder
  BY DEF ReportInv
<1>4. InOrder'
  BY <1>1, <1>3 DEF InOrder, IsMailed
<1>5. LoopInOrder(loop)
  BY <1>2, <1>3 DEF InOrder, LoopInOrder, Written
<1>6. LoopInOrder(work.loop)'
  BY <1>1, <1>5 DEF LoopInOrder, Written
<1>7. ~interrupted' /\ ~silent' => LongReported'
  BY <1>1 DEF ReportInv, LongReported, Reported, Mailed
<1> QED BY <1>1, <1>3, <1>4, <1>6, <1>7

LEMMA DetectJudgeReports ==
  ASSUME TypeInv, IInv, ReportInv, DetectJudge
  PROVE  ReportInv'
<1>1. PICK s \in work.loop.todo : work' = [work EXCEPT !.loop = Judge(work.loop, s)]
  BY DEF DetectJudge
<1> DEFINE loop == Judge(work.loop, s)
<1>2. /\ at = "judge" /\ at' = "judge" /\ work # None
      /\ UNCHANGED <<events, deliveries, mails, rebuild, rebuilds, found, overlapped, interrupted,
                     silent>>
  BY DEF DetectJudge, tables, counts
<1>3. WorkTyped /\ s \in ScoreRow /\ LoopTyped(work.loop) /\ Bounded(EventIds)
  BY <1>2 DEF TypeInv, JobTyped, WorkTyped, LoopTyped, LoopType
<1>4. work'.loop = loop
  BY <1>1, <1>3 DEF WorkTyped
<1> HIDE DEF loop
<1> SUFFICES ASSUME rebuilds = 0
             PROVE  /\ rebuild' = None /\ ~overlapped' /\ InOrder'
                    /\ LoopInOrder(work.loop)'
                    /\ ~interrupted' /\ ~silent' => LongReported'
  BY <1>2 DEF ReportInv
<1>5. rebuild = None /\ ~overlapped /\ InOrder /\ LoopInOrder(work.loop)
  BY <1>2 DEF ReportInv
<1>6. InOrder'
  BY <1>2, <1>5 DEF InOrder, IsMailed
<1>7. LoopInOrder(loop)
  <2>1. LoopOk(work.loop)
    BY <1>2, <1>5 DEF IInv, WorkOk
  <2>2. Ids(Written(work.loop)) \subseteq EventIds /\ \A e \in events : e.id \in EventIds
    BY <1>2 DEF EventIds, WorkIds, Ids
  <2> QED BY <1>3, <1>5, <2>1, <2>2, JudgeInOrder DEF loop
<1>8. LoopInOrder(work.loop)'
  BY <1>2, <1>4, <1>7 DEF LoopInOrder, Written
<1>9. ~interrupted' /\ ~silent' => LongReported'
  BY <1>2 DEF ReportInv, LongReported, Reported, Mailed
<1> QED BY <1>2, <1>5, <1>6, <1>8, <1>9

\* What the detection writes is in order with what it leaves alone, and news of
\* it is among the candidates.
LEMMA DetectCommitReports ==
  ASSUME TypeInv, IInv, ReportInv, DetectCommit
  PROVE  ReportInv'
<1> DEFINE w == work.loop
<1> DEFINE kept == {e \in events : e.id \notin Ids(Written(w))}
<1>1. /\ at = "judge" /\ at' \in {"idle", "alert"} /\ work # None
      /\ events' = kept \cup Written(w)
      /\ ~silent' /\ w.candidates # {} => at' = "alert" /\ found' = w.candidates
      /\ ~silent' => ~silent
      /\ overlapped' = (overlapped \/ rebuild # None)
      /\ UNCHANGED <<deliveries, mails, rebuild, rebuilds, interrupted>>
  BY DEF DetectCommit, counts
<1> SUFFICES ASSUME rebuilds = 0
             PROVE  /\ rebuild' = None /\ ~overlapped' /\ InOrder'
                    /\ ~interrupted' /\ ~silent' => LongReported'
  BY <1>1 DEF ReportInv
<1>2. rebuild = None /\ ~overlapped /\ InOrder /\ LoopInOrder(w)
  BY <1>1 DEF ReportInv
<1>3. LoopOk(w) /\ Ids(Active(events)) \subseteq Ids(Written(w))
  BY <1>1, <1>2 DEF IInv, WorkOk
<1>4. /\ events \subseteq EventRow /\ Written(w) \subseteq EventRow
      /\ w.candidates \subseteq Pair
  BY <1>1 DEF TypeInv, TablesTyped, JobTyped, WorkTyped, LoopTyped, LoopType, Written
<1>5. \A e \in kept : ~e.active /\ e \in events /\ \A f \in Written(w) : e.id < f.id
  <2>1. \A e \in kept : e \in events /\ e.id \notin Ids(Written(w))
    OBVIOUS
  <2>2. \A e \in kept : ~e.active
    BY <1>3, <2>1 DEF Ids, Active
  <2> QED BY <1>2, <2>1, <2>2 DEF LoopInOrder
<1>6. \A e \in events : ~e.active => e \in kept
  <2> SUFFICES ASSUME NEW e \in events, ~e.active, NEW f \in Written(w), e.id = f.id PROVE FALSE
    BY DEF Ids
  <2>1. e.id < f.id /\ e.id \in Nat
    BY <1>2, <1>4 DEF LoopInOrder, EventRow
  <2> QED BY <2>1
<1>7. \A e \in events' : e.id \in Nat /\ e \in EventRow
  BY <1>1, <1>4 DEF EventRow
<1>8. \A e \in events' : \/ e \in kept
                         \/ e \in w.closed /\ ~e.active
                         \/ e \in w.event /\ e.active
  <2>1. \A e \in w.event : e.active
    BY <1>3 DEF LoopOk
  <2> HIDE DEF kept
  <2> QED BY <1>1, <1>3, <2>1 DEF Written, LoopOk
<1>9. w.closed \subseteq Written(w) /\ w.event \subseteq Written(w) /\ Written(w) \subseteq events'
      /\ kept \subseteq events'
  BY <1>1 DEF Written
<1> HIDE DEF kept, w
<1>10. InOrder'
  <2>1. \A e, f \in events' : e.id = f.id => e = f
    <3> SUFFICES ASSUME NEW e \in events', NEW f \in events', e.id = f.id PROVE e = f
      OBVIOUS
    <3>1. CASE e \in kept /\ f \in kept
      BY <1>2, <1>5, <3>1 DEF InOrder
    <3>2. CASE e \in Written(w) /\ f \in Written(w)
      BY <1>2, <3>2 DEF LoopInOrder
    <3>3. CASE e \in kept /\ f \in Written(w)
      BY <1>5, <1>7, <3>3
    <3>4. CASE f \in kept /\ e \in Written(w)
      BY <1>5, <1>7, <3>4
    <3> QED BY <1>1, <3>1, <3>2, <3>3, <3>4
  <2>2. \A e, f \in events' : e.active /\ ~f.active => f.id < e.id
    <3> SUFFICES ASSUME NEW e \in events', NEW f \in events', e.active, ~f.active
                 PROVE  f.id < e.id
      OBVIOUS
    <3>1. e \in w.event
      BY <1>5, <1>8
    <3>2. CASE f \in kept
      BY <1>5, <1>9, <3>1, <3>2
    <3>3. CASE f \in w.closed
      BY <1>2, <3>1, <3>3 DEF LoopInOrder
    <3> QED BY <1>8, <3>2, <3>3
  <2> QED BY <1>1, <1>2, <2>1, <2>2 DEF InOrder, IsMailed
<1>11. ASSUME ~interrupted', ~silent' PROVE LongReported'
  <2>1. LongReported
    BY <1>1, <1>2, <1>11 DEF ReportInv
  <2>2. ASSUME NEW e \in events', e.duration >= MinDuration, e.active
        PROVE  Reported(e, "ACTIVE")'
    <3>1. e \in w.event
      BY <1>5, <1>8, <2>2
    <3>2. CASE e \in events
      <4>1. Reported(e, "ACTIVE")
        BY <2>1, <2>2, <3>2 DEF LongReported
      <4> QED BY <1>1, <4>1 DEF Reported, Mailed
    <3>3. CASE [event |-> e.id, kind |-> "ACTIVE"] \in w.candidates
      BY <1>1, <1>11, <3>3 DEF Reported
    <3> QED BY <1>2, <3>1, <3>2, <3>3 DEF LoopInOrder
  <2>3. ASSUME NEW e \in events', e.duration >= MinDuration, ~e.active,
               \A f \in events' : ~f.active => f.id <= e.id
        PROVE  Reported(e, "RESOLVED")'
    <3>1. CASE e \in w.closed
      <4>1. \A f \in w.closed : f.id <= e.id
        BY <1>3, <1>9, <2>3 DEF LoopOk
      <4>2. [event |-> e.id, kind |-> "RESOLVED"] \in w.candidates
        BY <1>2, <3>1, <4>1 DEF LoopInOrder
      <4> QED BY <1>1, <1>11, <4>2 DEF Reported
    <3>2. CASE e \in kept
      <4>1. e \in events
        BY <1>5, <3>2
      <4>2. \A f \in events : ~f.active => f.id <= e.id
        BY <1>6, <1>9, <2>3
      <4>3. Reported(e, "RESOLVED")
        BY <2>1, <2>3, <4>1, <4>2 DEF LongReported
      <4> QED BY <1>1, <4>3 DEF Reported, Mailed
    <3> QED BY <1>8, <2>3, <3>1, <3>2
  <2> QED BY <2>2, <2>3 DEF LongReported
<1> QED BY <1>1, <1>2, <1>10, <1>11

\* A candidate of a long event is due, unless the mail about it is out.
LEMMA DueOrMailed ==
  ASSUME InOrder, NEW e \in events, e.duration >= MinDuration, NEW c,
         c = [event |-> e.id, kind |-> IF e.active THEN "ACTIVE" ELSE "RESOLVED"],
         e.active \in BOOLEAN
  PROVE  Due(c) \/ IsMailed(c)
<1>1. c.event = e.id /\ c.kind = (IF e.active THEN "ACTIVE" ELSE "RESOLVED")
      /\ c = [event |-> c.event, kind |-> c.kind]
  OBVIOUS
<1>2. e.active = (c.kind = "ACTIVE")
  BY <1>1
<1>3. ASSUME NEW d \in deliveries, d.event = c.event, d.kind = c.kind, d.status = "SENT"
      PROVE  IsMailed(c)
  BY <1>1, <1>3 DEF InOrder
<1> QED BY <1>1, <1>2, <1>3 DEF Due

\* When the mail is out, or nothing is due, nothing that was reported is in hand.
LEMMA AlertReports ==
  ASSUME TypeInv, ReportInv, at = "alert",
         \/ AlertNothing
         \/ AlertSend
  PROVE  ReportInv'
<1>1. /\ at' \in {"idle", "mailed"}
      /\ UNCHANGED <<events, deliveries, rebuild, rebuilds, overlapped, interrupted, silent>>
  BY DEF AlertNothing, AlertSend, tables, counts
<1>2. /\ \A c : IsMailed(c) => IsMailed(c)'
      /\ \A c \in found : Due(c) => IsMailed(c)'
      /\ at' = "mailed" => \A c \in found' : IsMailed(c)'
  <2>1. CASE AlertNothing
    BY <2>1 DEF AlertNothing, IsMailed
  <2>2. CASE AlertSend
    BY <2>2, MailsSent DEF IsMailed
  <2> QED BY <2>1, <2>2
<1> SUFFICES ASSUME rebuilds = 0
             PROVE  /\ rebuild' = None /\ ~overlapped' /\ InOrder'
                    /\ ~interrupted' /\ ~silent' => LongReported'
  BY <1>1 DEF ReportInv
<1>3. rebuild = None /\ ~overlapped /\ InOrder
  BY DEF ReportInv
<1>4. InOrder'
  BY <1>1, <1>2, <1>3 DEF InOrder
<1>5. ASSUME ~interrupted', ~silent' PROVE LongReported'
  <2>1. LongReported
    BY <1>1, <1>5 DEF ReportInv
  <2>2. ASSUME NEW e \in events, e.duration >= MinDuration, NEW kind,
               kind = (IF e.active THEN "ACTIVE" ELSE "RESOLVED"), Reported(e, kind)
        PROVE  Reported(e, kind)'
    <3> DEFINE c == [event |-> e.id, kind |-> kind]
    <3>1. IsMailed(c) \/ c \in found
      BY <2>2 DEF Reported, Mailed, IsMailed
    <3>2. e.active \in BOOLEAN
      BY DEF TypeInv, TablesTyped, EventRow
    <3>3. Due(c) \/ IsMailed(c)
      BY <1>3, <2>2, <3>2, DueOrMailed
    <3>4. IsMailed(c)'
      BY <1>2, <3>1, <3>3
    <3> QED BY <3>4 DEF Reported, Mailed, IsMailed
  <2> QED BY <1>1, <2>1, <2>2 DEF LongReported
<1> QED BY <1>1, <1>3, <1>4, <1>5

LEMMA AlertCommitReports ==
  ASSUME TypeInv, ReportInv, AlertCommit
  PROVE  ReportInv'
<1>1. /\ at = "mailed" /\ at' = "idle"
      /\ deliveries' \in {deliveries, Delivered(found, "SENT")}
      /\ ~interrupted' => ~interrupted
      /\ UNCHANGED <<events, mails, rebuild, rebuilds, overlapped, silent>>
  BY DEF AlertCommit, counts
<1> SUFFICES ASSUME rebuilds = 0
             PROVE  /\ rebuild' = None /\ ~overlapped' /\ InOrder'
                    /\ ~interrupted' /\ ~silent' => LongReported'
  BY <1>1 DEF ReportInv
<1>2. rebuild = None /\ ~overlapped /\ InOrder
  BY DEF ReportInv
<1>3. \A c : IsMailed(c)' <=> IsMailed(c)
  BY <1>1 DEF IsMailed
<1>4. ASSUME NEW d \in deliveries', d.status = "SENT"
      PROVE  IsMailed([event |-> d.event, kind |-> d.kind])
  <2>1. CASE d \in deliveries
    BY <1>2, <1>4, <2>1 DEF InOrder
  <2>2. CASE d \notin deliveries
    <3>1. PICK c \in found : d = [event |-> c.event, kind |-> c.kind, status |-> "SENT"]
      BY <1>1, <2>2 DEF Delivered
    <3>2. c = [event |-> d.event, kind |-> d.kind]
      BY <3>1 DEF TypeInv, JobTyped, Pair
    <3> QED BY <1>1, <1>2, <3>2 DEF InOrder
  <2> QED BY <2>1, <2>2
<1>5. InOrder'
  BY <1>1, <1>2, <1>3, <1>4 DEF InOrder
<1>6. ~interrupted' /\ ~silent' => LongReported'
  BY <1>1 DEF ReportInv, LongReported, Reported, Mailed
<1> QED BY <1>1, <1>2, <1>5, <1>6

LEMMA StepReports ==
  ASSUME TypeInv, IInv, ReportInv, [Next]_vars
  PROVE  ReportInv'
<1>1. CASE \E heat \in Heat : Import(heat)
  BY <1>1, ReportsStay DEF Import, job, counts
<1>2. CASE JobStep
  <2>1. CASE \E last \in cursor + 1 .. Len(measurements) : ScoreRead(last)
    <3>1. /\ UNCHANGED <<events, deliveries, mails, rebuild, rebuilds, overlapped, interrupted,
                         silent>>
          /\ at = "idle" /\ at' = "score"
      BY <2>1 DEF ScoreRead, tables, counts
    <3> QED BY <3>1, ReportsStay
  <2>2. CASE ScoreNothing \/ ScoreRaises \/ ScoreCommit \/ ScoreRollBack
    <3>1. /\ UNCHANGED <<events, deliveries, mails, rebuild, rebuilds, interrupted, silent>>
          /\ at \in {"idle", "score"} /\ at' \in {"idle", "detect"}
          /\ rebuild = None /\ ~overlapped => ~overlapped'
      <4>1. CASE ScoreNothing
        BY <4>1 DEF ScoreNothing, tables, counts
      <4>2. CASE ScoreCommit
        BY <4>2 DEF ScoreCommit, counts
      <4>3. CASE ScoreRollBack \/ ScoreRaises
        BY <4>3 DEF ScoreRollBack, ScoreRaises, tables, counts
      <4> QED BY <2>2, <4>1, <4>2, <4>3
    <3> QED BY <3>1, ReportsStay
  <2>3. CASE \E last \in Unprocessed : DetectLoad(last)
    BY <2>3, DetectLoadReports
  <2>4. CASE DetectNothing \/ DetectRollBack
    BY <2>4, ReportsStay DEF DetectNothing, DetectRollBack, tables, counts
  <2>5. CASE DetectJudge
    BY <2>5, DetectJudgeReports
  <2>6. CASE DetectCommit
    BY <2>6, DetectCommitReports
  <2>7. CASE AlertNothing \/ AlertSend
    BY <2>7, AlertReports DEF AlertNothing, AlertSend
  <2>8. CASE AlertCommit
    BY <2>8, AlertCommitReports
  <2> QED BY <1>2, <2>1, <2>2, <2>3, <2>4, <2>5, <2>6, <2>7, <2>8 DEF JobStep
<1>3. CASE AlertFail
  <2>1. /\ interrupted' = TRUE /\ at = "alert" /\ at' = "idle"
        /\ deliveries' = Delivered({c \in found : Due(c)}, "FAILED")
        /\ DOMAIN mails \subseteq DOMAIN mails'
        /\ UNCHANGED <<events, rebuild, rebuilds, overlapped>>
    BY <1>3 DEF AlertFail, Posted
  <2>2. ASSUME NEW d \in deliveries', d.status = "SENT" PROVE d \in deliveries
    BY <2>1, <2>2 DEF Delivered
  <2>3. InOrder => InOrder'
    BY <2>1, <2>2 DEF InOrder, IsMailed
  <2> QED BY <2>1, <2>3 DEF ReportInv
<1>4. CASE Crash
  <2>1. /\ interrupted' = (interrupted \/ at \in {"alert", "mailed"}) /\ at' = "idle"
        /\ UNCHANGED <<events, deliveries, mails, rebuild, rebuilds, overlapped, silent>>
    BY <1>4 DEF Crash, tables
  <2> QED BY <2>1, ReportsStay
<1>5. CASE \E m \in DOMAIN measurements, heat \in Heat : RebuildDelete(m, heat)
  BY <1>5 DEF RebuildDelete, ReportInv
<1>6. CASE RebuildLoad \/ RebuildJudge \/ RebuildCommit \/ RebuildRollBack \/ RebuildAbort
  BY <1>6 DEF RebuildLoad, RebuildJudge, RebuildCommit, RebuildRollBack, RebuildAbort,
              RebuildDone, ReportInv, counts
<1>7. CASE UNCHANGED vars
  BY <1>7, ReportsStay DEF vars, tables, job, counts
<1>8. CASE ManualDetect
  BY <1>8, ReportsStay DEF ManualDetect, tables, counts
<1> QED BY <1>1, <1>2, <1>3, <1>4, <1>5, <1>6, <1>7, <1>8 DEF Next, RebuildStep

LEMMA SpecReports == Spec => []ReportInv
<1>1. Init => ReportInv
  BY DEF Init, ReportInv, InOrder, LongReported
<1> QED BY <1>1, StepReports, SpecTyped, SpecIInv, PTL DEF Spec

\* Without failures, rebuilds and a detection by hand that found something no long event
\* is left unreported: after every run of the job, in whatever batches the scores came,
\* the active event and the last that was resolved have been mailed if they last long
\* enough.
THEOREM SpecLongEventsReported == Spec => []LongEventsReported
<1>1. ReportInv => LongEventsReported
  BY DEF ReportInv, LongReported, Reported, LongEventsReported
<1> QED BY <1>1, SpecReports, PTL

-----------------------------------------------------------------------------
(***************************************************************************)
(* Runs of hot scores.  H and C are the measurements with hot and with     *)
(* cold scores; a loop meets them in their order.                          *)
(***************************************************************************)
\* The run after the last cold score, and those that a cold score has ended.
OpenRun(H, C) == {m \in H : \A c \in C : c < m}
Long(S) == Cardinality(S) >= MinConsecutive
Fact(e) == [start |-> e.start, active |-> e.active, duration |-> e.duration]
Facts(rows) == {Fact(e) : e \in rows}
Ended(H, C, b) ==
  [start |-> Min(Run(H, C, b)), active |-> FALSE, duration |-> b - Min(Run(H, C, b))]
EndedRuns(H, C) == {Ended(H, C, b) : b \in {c \in C : Long(Run(H, C, c))}}

\* A loop that has judged H and C has their runs.
LoopTells(w, resolved, H, C) ==
  /\ w.count = Cardinality(OpenRun(H, C))
  /\ OpenRun(H, C) # {} => w.start = Min(OpenRun(H, C))
  /\ w.active <=> Long(OpenRun(H, C))
  /\ \A e \in w.event : /\ e.active /\ e.start = Min(OpenRun(H, C))
                        /\ e.duration = Max(OpenRun(H, C)) - Min(OpenRun(H, C))
  /\ Facts(resolved) = EndedRuns(H, C)
  /\ \A e, f \in resolved : e.start = f.start => e = f

-----------------------------------------------------------------------------
LEMMA MinOf ==
  ASSUME NEW S \in SUBSET Nat, S # {}
  PROVE  Min(S) \in S /\ \A i \in S : Min(S) <= i
<1>1. \E n \in S : \A i \in S : n <= i
  BY Smallest
<1> DEFINE x == Min(S)
<1>2. x \in S /\ \A i \in S : x <= i
  BY <1>1 DEF Min
<1> QED BY <1>2

LEMMA MinIs ==
  ASSUME NEW S \in SUBSET Nat, NEW n \in S, \A i \in S : n <= i
  PROVE  Min(S) = n
<1>1. Min(S) \in S /\ \A i \in S : Min(S) <= i
  BY MinOf
<1>2. Min(S) \in Nat /\ n \in Nat /\ Min(S) <= n /\ n <= Min(S)
  BY <1>1
<1> QED BY <1>2

LEMMA MaxIs ==
  ASSUME NEW S \in SUBSET Nat, NEW n \in S, \A i \in S : i <= n
  PROVE  Max(S) = n
<1>1. Bounded(S) /\ S # {}
  BY DEF Bounded
<1>2. Max(S) \in S /\ Max(S) \in Nat /\ \A i \in S : i <= Max(S)
  BY <1>1, MaxOf
<1>3. n \in Nat /\ Max(S) <= n /\ n <= Max(S)
  BY <1>2
<1> QED BY <1>2, <1>3

\* A run that is long enough has a first score.
LEMMA LongStarts ==
  ASSUME NEW S \in SUBSET Nat, IsFiniteSet(S), Long(S)
  PROVE  S # {} /\ Min(S) \in S /\ \A i \in S : Min(S) <= i
<1>1. S # {}
  BY FS_EmptySet, EventsAssumption DEF Long
<1> QED BY <1>1, MinOf

\* A later hot score belongs to the open run.
LEMMA HotGoesOn ==
  ASSUME NEW H \in SUBSET Nat, NEW C \in SUBSET Nat, NEW m \in Nat, \A i \in H \cup C : i < m
  PROVE  /\ OpenRun(H \cup {m}, C) = OpenRun(H, C) \cup {m}
         /\ EndedRuns(H \cup {m}, C) = EndedRuns(H, C)
<1>1. OpenRun(H \cup {m}, C) = OpenRun(H, C) \cup {m}
  BY DEF OpenRun
<1>2. \A b \in C : Run(H \cup {m}, C, b) = Run(H, C, b)
  <2> TAKE b \in C
  <2>1. b < m /\ b \in Nat
    OBVIOUS
  <2>2. ~(m < b)
    BY <2>1
  <2> QED BY <2>2 DEF Run
<1>3. \A b \in C : Ended(H \cup {m}, C, b) = Ended(H, C, b)
  BY <1>2 DEF Ended
<1>4. EndedRuns(H \cup {m}, C) = EndedRuns(H, C)
  BY <1>2, <1>3 DEF EndedRuns
<1> QED BY <1>1, <1>4

\* A later cold score ends it.
LEMMA ColdEnds ==
  ASSUME NEW H \in SUBSET Nat, NEW C \in SUBSET Nat, NEW m \in Nat, \A i \in H \cup C : i < m
  PROVE  /\ OpenRun(H, C \cup {m}) = {}
         /\ EndedRuns(H, C \cup {m}) =
              EndedRuns(H, C) \cup
                {[start |-> Min(S), active |-> FALSE, duration |-> m - Min(S)] :
                 S \in {R \in {OpenRun(H, C)} : Long(R)}}
<1> DEFINE D == C \cup {m}
<1> DEFINE T == OpenRun(H, C)
<1>1. OpenRun(H, D) = {}
  <2> SUFFICES ASSUME NEW i \in H, m < i PROVE FALSE
    BY DEF OpenRun
  <2>1. i < m /\ i \in Nat
    OBVIOUS
  <2> QED BY <2>1
<1>2. \A b \in C : Run(H, D, b) = Run(H, C, b)
  <2> TAKE b \in C
  <2>1. b < m /\ b \in Nat
    OBVIOUS
  <2>2. ~(m < b)
    BY <2>1
  <2> QED BY <2>2 DEF Run
<1>3. Run(H, D, m) = T
  <2>1. ~(m < m)
    OBVIOUS
  <2> QED BY <2>1 DEF Run, OpenRun
<1>4. \A b \in C : Ended(H, D, b) = Ended(H, C, b)
  BY <1>2 DEF Ended
<1>5. Ended(H, D, m) = [start |-> Min(T), active |-> FALSE, duration |-> m - Min(T)]
  BY <1>3 DEF Ended
<1> DEFINE last == {[start |-> Min(S), active |-> FALSE, duration |-> m - Min(S)] :
                    S \in {R \in {T} : Long(R)}}
<1>6. last = {Ended(H, D, b) : b \in {c \in {m} : Long(Run(H, D, c))}}
  BY <1>3, <1>5
<1>7. EndedRuns(H, D) = {Ended(H, D, b) : b \in {c \in C : Long(Run(H, D, c))}}
                          \cup {Ended(H, D, b) : b \in {c \in {m} : Long(Run(H, D, c))}}
  BY DEF EndedRuns
<1>8. {Ended(H, D, b) : b \in {c \in C : Long(Run(H, D, c))}} = EndedRuns(H, C)
  BY <1>2, <1>4 DEF EndedRuns
<1> QED BY <1>1, <1>6, <1>7, <1>8

LEMMA NoRuns == OpenRun({}, {}) = {} /\ EndedRuns({}, {}) = {} /\ ~Long({})
<1>1. OpenRun({}, {}) = {} /\ EndedRuns({}, {}) = {}
  BY DEF OpenRun, EndedRuns
<1>2. ~Long({})
  BY FS_EmptySet, EventsAssumption DEF Long
<1> QED BY <1>1, <1>2

\* An ended run starts before a cold score, the open run after it.
LEMMA EndedStartsBefore ==
  ASSUME NEW H \in SUBSET Nat, IsFiniteSet(H), NEW C \in SUBSET Nat,
         NEW r \in EndedRuns(H, C), NEW t \in OpenRun(H, C)
  PROVE  r.start \in Nat /\ r.start < t
<1>1. PICK b \in C : Long(Run(H, C, b)) /\ r = Ended(H, C, b)
  BY DEF EndedRuns
<1>2. Run(H, C, b) \in SUBSET H
  BY DEF Run
<1>3. IsFiniteSet(Run(H, C, b)) /\ Run(H, C, b) \in SUBSET Nat
  BY <1>2, FS_Subset
<1>4. Min(Run(H, C, b)) \in Run(H, C, b)
  BY <1>1, <1>3, LongStarts
<1> DEFINE x == Min(Run(H, C, b))
<1>5. x \in Nat /\ x < b /\ r.start = x
  BY <1>1, <1>4 DEF Ended, Run
<1>6. b < t /\ t \in Nat /\ b \in Nat
  BY DEF OpenRun
<1> HIDE DEF x
<1> QED BY <1>5, <1>6

\* Judging one more score, later than all, is what the runs do.
LEMMA JudgeTells ==
  ASSUME NEW w, LoopTyped(w), LoopOk(w), NEW s \in ScoreRow,
         NEW H \in SUBSET Nat, IsFiniteSet(H), NEW C \in SUBSET Nat,
         \A i \in H \cup C : i < s.m,
         NEW base, LoopTells(w, base \cup w.closed, H, C)
  PROVE  LET v == Judge(w, s)
         IN LoopTells(v, base \cup v.closed, IF s.hot THEN H \cup {s.m} ELSE H,
                                             IF s.hot THEN C ELSE C \cup {s.m})
<1> DEFINE v == Judge(w, s)
<1> DEFINE m == s.m
<1> DEFINE T == OpenRun(H, C)
<1> DEFINE resolved == base \cup w.closed
<1>0. m \in Nat /\ \A i \in H \cup C : i < m
  BY DEF ScoreRow
<1>1. T \in SUBSET Nat /\ IsFiniteSet(T) /\ Cardinality(T) \in Nat /\ \A i \in T : i < m
  <2>1. T \in SUBSET H
    BY DEF OpenRun
  <2> QED BY <1>0, <2>1, FS_Subset, FS_CardinalityType
<1>2. /\ w.count = Cardinality(T) /\ (T # {} => w.start = Min(T))
      /\ w.active <=> Long(T)
      /\ Facts(resolved) = EndedRuns(H, C)
      /\ \A e, f \in resolved : e.start = f.start => e = f
  BY DEF LoopTells
<1>3. T # {} => Min(T) \in T /\ Min(T) \in Nat /\ Min(T) < m /\ \A i \in T : Min(T) <= i
  <2> HIDE DEF T
  <2> QED BY <1>1, MinOf
<1>4. T = {} <=> w.count = 0
  <2> HIDE DEF T
  <2> QED BY <1>1, <1>2, FS_EmptySet
<1>5. ASSUME w.active
      PROVE  /\ T # {} /\ w.count > 0
             /\ \E e \in w.event : w.event = {e} /\ e.active /\ e.start = Min(T)
  <2>1. T # {}
    <3> HIDE DEF T
    <3> QED BY <1>1, <1>2, <1>5, LongStarts
  <2>2. PICK e \in w.event : w.event = {e}
    BY <1>5 DEF LoopOk
  <2>3. e.active /\ e.start = Min(T)
    BY <2>2 DEF LoopTells
  <2>4. w.count > 0
    BY <1>1, <1>2, <1>4, <2>1
  <2> QED BY <2>1, <2>2, <2>3, <2>4
<1>6. CASE s.hot
  <2> DEFINE start == IF w.count = 0 THEN m ELSE w.start
  <2> DEFINE U == T \cup {m}
  <2>1. /\ v.count = w.count + 1 /\ v.start = start /\ v.closed = w.closed
        /\ v.active = (w.active \/ Opens(w))
        /\ v.event = IF Opens(w) THEN {NewEvent(start, m)}
                     ELSE IF w.active THEN Updated(w.event, m, TRUE) ELSE w.event
    BY <1>6 DEF Judge, JudgeHot
  <2> HIDE DEF v, T
  <2>2. OpenRun(H \cup {m}, C) = U /\ EndedRuns(H \cup {m}, C) = EndedRuns(H, C)
    BY <1>0, HotGoesOn DEF T
  <2>3. U \in SUBSET Nat /\ m \in U /\ Cardinality(U) = Cardinality(T) + 1
    <3>1. m \notin T
      BY <1>0, <1>1
    <3> QED BY <1>0, <1>1, <3>1, FS_AddElement
  <2>4. Max(U) = m
    <3>1. \A i \in U : i <= m
      BY <1>0, <1>1
    <3> HIDE DEF U
    <3> QED BY <2>3, <3>1, MaxIs
  <2>5. Min(U) = start /\ start \in Nat /\ start <= m
    <3>1. CASE T = {}
      <4>1. start = m /\ \A i \in U : m <= i
        BY <1>0, <1>4, <3>1
      <4> HIDE DEF U
      <4> QED BY <1>0, <2>3, <4>1, MinIs
    <3>2. CASE T # {}
      <4>1. start = Min(T) /\ Min(T) \in U /\ Min(T) \in Nat /\ Min(T) <= m
        BY <1>0, <1>2, <1>3, <1>4, <3>2
      <4>2. \A i \in U : Min(T) <= i
        BY <1>3, <3>2, <4>1
      <4> HIDE DEF U
      <4> QED BY <2>3, <4>1, <4>2, MinIs
    <3> QED BY <3>1, <3>2
  <2> HIDE DEF start
  <2>6. Duration(start, m) = m - start
    BY <1>0, <2>5 DEF Duration
  <2>7. /\ v.active <=> Long(U)
        /\ \A e \in v.event : e.active /\ e.start = start /\ e.duration = m - start
    <3>1. CASE w.active
      <4>1. PICK e \in w.event : w.event = {e} /\ e.active /\ e.start = Min(T)
        BY <1>5, <3>1
      <4>2. start = Min(T)
        BY <1>2, <1>4, <1>5, <3>1 DEF start
      <4>3. ~Opens(w) /\ v.active
        BY <2>1, <3>1 DEF Opens
      <4>4. v.event = {[id |-> e.id, start |-> e.start, duration |-> Duration(e.start, m),
                        active |-> TRUE]}
        BY <2>1, <3>1, <4>1, <4>3 DEF Updated
      <4>5. Long(U)
        BY <1>1, <1>2, <2>3, <3>1, EventsAssumption DEF Long
      <4> QED BY <2>6, <4>1, <4>2, <4>3, <4>4, <4>5
    <3>2. CASE ~w.active
      <4>1. Opens(w) <=> Long(U)
        BY <1>2, <2>3, <3>2 DEF Opens, Long
      <4>2. CASE Opens(w)
        <5>1. v.event = {NewEvent(start, m)}
          BY <2>1, <4>2
        <5>2. LET e == NewEvent(start, m)
              IN e.active /\ e.start = start /\ e.duration = Duration(start, m)
          BY DEF NewEvent
        <5> QED BY <2>1, <2>6, <4>1, <4>2, <5>1, <5>2
      <4>3. CASE ~Opens(w)
        <5>1. v.event = {}
          BY <2>1, <3>2, <4>3 DEF LoopOk
        <5> QED BY <2>1, <3>2, <4>1, <4>3, <5>1
      <4> QED BY <4>2, <4>3
    <3> QED BY <3>1, <3>2
  <2>8. base \cup v.closed = resolved
    BY <2>1
  <2> HIDE DEF U, resolved
  <2>9. LoopTells(v, resolved, H \cup {m}, C)
    BY <1>2, <2>1, <2>2, <2>3, <2>4, <2>5, <2>7 DEF LoopTells
  <2> QED BY <1>6, <2>8, <2>9 DEF v
<1>7. CASE ~s.hot
  <2> DEFINE ended == IF w.active THEN Updated(w.event, m, FALSE) ELSE {}
  <2> DEFINE D == C \cup {m}
  <2> DEFINE last == {[start |-> Min(S), active |-> FALSE, duration |-> m - Min(S)] :
                      S \in {R \in {T} : Long(R)}}
  <2>1. /\ v.count = 0 /\ v.active = FALSE /\ v.closed = w.closed \cup ended
        /\ v.event = IF w.active THEN {} ELSE w.event
    BY <1>7 DEF Judge, JudgeCold
  <2>2. v.event = {} /\ base \cup v.closed = resolved \cup ended
    BY <2>1 DEF LoopOk
  <2>3. OpenRun(H, D) = {} /\ EndedRuns(H, D) = EndedRuns(H, C) \cup last
    BY <1>0, ColdEnds
  <2> HIDE DEF v
  <2>4. Cardinality({}) = 0 /\ ~Long({})
    BY NoRuns, FS_EmptySet
  <2>5. Facts(resolved \cup ended) = EndedRuns(H, D)
        /\ \A e, f \in resolved \cup ended : e.start = f.start => e = f
    <3>1. CASE w.active
      <4>1. PICK e \in w.event : w.event = {e} /\ e.start = Min(T)
        BY <1>5, <3>1
      <4> DEFINE u == [id |-> e.id, start |-> e.start, duration |-> Duration(e.start, m),
                       active |-> FALSE]
      <4>2. ended = {u} /\ u.start = Min(T)
        BY <3>1, <4>1 DEF Updated
      <4>3. Duration(e.start, m) = m - Min(T)
        BY <1>0, <1>3, <1>5, <3>1, <4>1 DEF Duration
      <4>4. Fact(u) = [start |-> Min(T), active |-> FALSE, duration |-> m - Min(T)]
        BY <4>1, <4>3 DEF Fact
      <4> HIDE DEF u, ended, resolved
      <4>5. last = {Fact(u)}
        BY <1>2, <3>1, <4>4
      <4>6. Facts(resolved \cup ended) = Facts(resolved) \cup {Fact(u)}
        BY <4>2 DEF Facts
      <4>7. \A f \in resolved : f.start # u.start
        <5> TAKE f \in resolved
        <5>1. Fact(f) \in EndedRuns(H, C) /\ Fact(f).start = f.start
          BY <1>2 DEF Facts, Fact
        <5>2. Min(T) \in T
          BY <1>3, <1>5, <3>1
        <5>3. f.start \in Nat /\ f.start < Min(T)
          BY <5>1, <5>2, EndedStartsBefore
        <5> QED BY <1>1, <4>2, <5>2, <5>3
      <4> QED BY <1>2, <2>3, <4>2, <4>5, <4>6, <4>7
    <3>2. CASE ~w.active
      <4>1. ended = {} /\ last = {}
        BY <1>2, <3>2
      <4> HIDE DEF ended, last
      <4> QED BY <1>2, <2>3, <4>1
    <3> QED BY <3>1, <3>2
  <2> HIDE DEF ended, last, resolved, D
  <2>6. LoopTells(v, resolved \cup ended, H, D)
    BY <2>1, <2>2, <2>3, <2>4, <2>5 DEF LoopTells
  <2> QED BY <1>7, <2>2, <2>6 DEF v, D
<1> QED BY <1>6, <1>7

-----------------------------------------------------------------------------
(***************************************************************************)
(* The runs of the tables, and those of the two open transactions.  The    *)
(* scores a loop has done come before those it has to do.                  *)
(***************************************************************************)
Resolved == {e \in events : ~e.active}
InTime(rows) == \A s, t \in rows : s.id < t.id => s.m < t.m
Apart(rows) == \A e, f \in rows : e.id = f.id => e = f

LoopOver(w, rows) ==
  /\ w.todo \subseteq rows
  /\ \A s \in rows \ w.todo, t \in w.todo : s.id < t.id
  /\ Apart(Written(w))

Judged(w, rows, base) ==
  LoopTells(w, base \cup w.closed, Hots(rows \ w.todo), Colds(rows \ w.todo))

\* What the job will have judged when it commits.
Batched == {s \in scores : s.processed \/ s.id \in work.batch}

EngineOk ==
  /\ engine <= scoreIds
  /\ \A s \in scores : s.processed \/ s.id > engine
  /\ \A s, t \in scores : s.processed /\ ~t.processed => s.id < t.id

TablesTell ==
  InTime(scores) =>
    LoopTells(Loop({}, state, Active(events)), Resolved, Hots(Processed), Colds(Processed))

WorkTells ==
  work # None =>
    /\ LoopOver(work.loop, Batched)
    /\ work.known = Ids(Active(events))
    /\ work.batch \subseteq Ids(scores)
    /\ \E top \in work.batch :
         \A s \in scores : s.id \in work.batch <=> ~s.processed /\ s.id <= top
    /\ InTime(scores) => Judged(work.loop, Batched, Resolved)

RebuildTells ==
  rebuild # None /\ rebuild.loop # None =>
    /\ LoopOver(rebuild.loop, RebuiltScores)
    /\ ~rebuild.judged => rebuild.loop.todo = RebuiltScores
    /\ InTime(RebuiltScores) => Judged(rebuild.loop, RebuiltScores, {})

RunInv == ~overlapped => Apart(events) /\ EngineOk /\ TablesTell /\ WorkTells /\ RebuildTells

-----------------------------------------------------------------------------
LEMMA JudgeApart ==
  ASSUME NEW w, LoopTyped(w), LoopOk(w), NEW s \in ScoreRow, Bounded(EventIds),
         Ids(Written(w)) \subseteq EventIds, Apart(Written(w))
  PROVE  Apart(Written(Judge(w, s)))
<1> DEFINE v == Judge(w, s)
<1>1. ASSUME NEW e, w.event = {e}, w.active, NEW u, u.id = e.id
      PROVE  Apart(w.closed \cup {u})
  <2>1. e.active /\ \A f \in w.closed : ~f.active
    BY <1>1 DEF LoopOk
  <2>2. \A f \in w.closed : f.id # u.id
    <3> TAKE f \in w.closed
    <3>1. f \in Written(w) /\ e \in Written(w)
      BY <1>1 DEF Written
    <3> QED BY <1>1, <2>1, <3>1 DEF Apart
  <2> QED BY <2>2 DEF Apart, Written
<1>2. w.active => \E e : w.event = {e}
  BY DEF LoopOk
<1>3. ASSUME w.active, NEW active
      PROVE  Apart(w.closed \cup Updated(w.event, s.m, active))
  <2>1. PICK e : w.event = {e}
    BY <1>2, <1>3
  <2> DEFINE u == [id |-> e.id, start |-> e.start, duration |-> Duration(e.start, s.m),
                   active |-> active]
  <2>2. Updated(w.event, s.m, active) = {u} /\ u.id = e.id
    BY <2>1 DEF Updated
  <2> HIDE DEF u
  <2>3. Apart(w.closed \cup {u})
    BY <1>1, <1>3, <2>1, <2>2
  <2> QED BY <2>2, <2>3
<1>4. CASE s.hot
  <2> DEFINE new == NewEvent(IF w.count = 0 THEN s.m ELSE w.start, s.m)
  <2>1. /\ v.closed = w.closed
        /\ v.event = IF Opens(w) THEN {new}
                     ELSE IF w.active THEN Updated(w.event, s.m, TRUE) ELSE w.event
    BY <1>4 DEF Judge, JudgeHot
  <2>2. \A i \in EventIds : i \in Nat /\ new.id \in Nat /\ i < new.id
    BY FreshId
  <2> HIDE DEF v, new
  <2>3. CASE Opens(w)
    <3>1. \A f \in w.closed : f.id \in EventIds
      BY DEF Written, Ids
    <3>2. \A f \in w.closed : f.id # new.id
      BY <2>2, <3>1
    <3>3. Written(v) = w.closed \cup {new}
      BY <2>1, <2>3 DEF Written
    <3> QED BY <3>2, <3>3 DEF Apart, Written, v
  <2>4. CASE ~Opens(w) /\ w.active
    BY <1>3, <2>1, <2>4 DEF Written, v
  <2>5. CASE ~Opens(w) /\ ~w.active
    BY <2>1, <2>5 DEF Written, v
  <2> QED BY <2>3, <2>4, <2>5
<1>5. CASE ~s.hot
  <2> DEFINE ended == IF w.active THEN Updated(w.event, s.m, FALSE) ELSE {}
  <2>1. v.closed = w.closed \cup ended /\ v.event = {}
    BY <1>5 DEF Judge, JudgeCold, LoopOk
  <2> HIDE DEF v
  <2>2. CASE w.active
    BY <1>3, <2>1, <2>2 DEF Written, v
  <2>3. CASE ~w.active
    BY <2>1, <2>3 DEF Written, Apart, v
  <2> QED BY <2>2, <2>3
<1> QED BY <1>4, <1>5

\* A step of either loop.
LEMMA JudgeOver ==
  ASSUME NEW w, LoopTyped(w), LoopOk(w), Bounded(EventIds), Ids(Written(w)) \subseteq EventIds,
         NEW rows \in SUBSET ScoreRow, NEW n \in Nat, \A r \in rows : r.m \in 1 .. n,
         \A r, t \in rows : r.id = t.id => r = t,
         LoopOver(w, rows), NEW s, IsNext(s, w), NEW base
  PROVE  /\ LoopOver(Judge(w, s), rows)
         /\ InTime(rows) /\ Judged(w, rows, base) => Judged(Judge(w, s), rows, base)
<1> DEFINE v == Judge(w, s)
<1> DEFINE done == rows \ w.todo
<1>1. s \in w.todo /\ s \in rows /\ s \in ScoreRow /\ \A r \in w.todo : s.id <= r.id
  BY DEF IsNext, LoopOver
<1>2. v.todo = w.todo \ {s}
  BY DEF Judge, JudgeHot, JudgeCold
<1>3. rows \ v.todo = done \cup {s} /\ v.todo \subseteq rows
  BY <1>1, <1>2 DEF LoopOver
<1>4. Apart(Written(v))
  BY <1>1, JudgeApart DEF LoopOver
<1>5. \A r \in rows \ v.todo, t \in v.todo : r.id < t.id
  <2> TAKE r \in rows \ v.todo, t \in v.todo
  <2>1. CASE r = s
    <3>1. s.id <= t.id /\ s.id # t.id /\ t \in rows
      BY <1>1, <1>2, <1>3
    <3> QED BY <1>1, <2>1, <3>1 DEF ScoreRow
  <2>2. CASE r # s
    BY <1>2, <1>3, <2>2 DEF LoopOver
  <2> QED BY <2>1, <2>2
<1>6. LoopOver(v, rows)
  <2> HIDE DEF v
  <2> QED BY <1>3, <1>4, <1>5 DEF LoopOver
<1>7. ASSUME InTime(rows), Judged(w, rows, base) PROVE Judged(v, rows, base)
  <2> DEFINE H == Hots(done)
  <2> DEFINE C == Colds(done)
  <2>1. /\ Hots(done \cup {s}) = IF s.hot THEN H \cup {s.m} ELSE H
        /\ Colds(done \cup {s}) = IF s.hot THEN C ELSE C \cup {s.m}
    BY DEF Hots, Colds
  <2>2. H \in SUBSET (1 .. n) /\ C \in SUBSET (1 .. n)
    BY DEF Hots, Colds
  <2>3. IsFiniteSet(H) /\ H \in SUBSET Nat /\ C \in SUBSET Nat
    <3> HIDE DEF H, C
    <3>1. IsFiniteSet(1 .. n) /\ \A i \in 1 .. n : i \in Nat
      BY FS_Interval
    <3>2. IsFiniteSet(H)
      BY <2>2, <3>1, FS_Subset
    <3> QED BY <2>2, <3>1, <3>2
  <2>4. \A i \in H \cup C : i < s.m
    <3>1. \A r \in done : r.m < s.m
      BY <1>1, <1>7 DEF LoopOver, InTime
    <3> QED BY <3>1 DEF Hots, Colds
  <2>5. LoopTells(w, base \cup w.closed, H, C)
    BY <1>7 DEF Judged
  <2> HIDE DEF H, C, done
  <2>6. LoopTells(v, base \cup v.closed, IF s.hot THEN H \cup {s.m} ELSE H,
                                         IF s.hot THEN C ELSE C \cup {s.m})
    BY <1>1, <2>3, <2>4, <2>5, JudgeTells
  <2> HIDE DEF v
  <2> QED BY <1>3, <2>1, <2>6 DEF Judged
<1> QED BY <1>6, <1>7

-----------------------------------------------------------------------------
\* The steps that leave the tables of the engine and the open transactions alone,
\* or end one of them without a trace, or start a rebuild.
LEMMA RunsStay ==
  ASSUME RunInv, UNCHANGED <<scores, engine, state, events>>, ~overlapped' => ~overlapped,
         engine <= scoreIds => engine <= scoreIds',
         work' = None \/ work' = work,
         rebuild' = None \/ rebuild'.loop = None \/ rebuild' = rebuild
  PROVE  RunInv'
<1> SUFFICES ASSUME ~overlapped
             PROVE  Apart(events)' /\ EngineOk' /\ TablesTell' /\ WorkTells' /\ RebuildTells'
  BY DEF RunInv
<1>0. Apart(events) /\ EngineOk /\ TablesTell /\ WorkTells /\ RebuildTells
  BY DEF RunInv
<1>1. Apart(events)'
  BY <1>0 DEF Apart
<1>2. EngineOk'
  BY <1>0 DEF EngineOk
<1>3. TablesTell'
  BY <1>0 DEF TablesTell, Resolved, Processed
<1>4. WorkTells'
  BY <1>0 DEF WorkTells, Resolved, Batched
<1>5. RebuildTells'
  BY <1>0 DEF RebuildTells, RebuiltScores
<1> QED BY <1>1, <1>2, <1>3, <1>4, <1>5

\* New scores come after all others.
LEMMA ScoreCommitRuns ==
  ASSUME TypeInv, RunInv, ScoreCommit
  PROVE  RunInv'
<1> DEFINE fresh == DOMAIN scoring \ {s.m : s \in scores}
<1> DEFINE rows == ScoreRows(fresh, scoring)
<1>1. /\ at = "score" /\ scores' = scores \cup rows
      /\ scoreIds' = scoreIds + Cardinality(rows)
      /\ overlapped' = (overlapped \/ rebuild # None)
      /\ UNCHANGED <<engine, state, events, work, rebuild>>
  BY DEF ScoreCommit
<1>2. /\ scoreIds \in Nat /\ engine \in Nat /\ work = None /\ ScoringTyped /\ cursor \in Nat
      /\ \A s \in scores : s.id \in Nat /\ s.id <= scoreIds
  BY <1>1 DEF TypeInv, JobTyped, TablesTyped, ScoreRow
<1>3. fresh \in SUBSET Nat /\ IsFiniteSet(fresh)
  <2>1. PICK last \in cursor + 1 .. Len(measurements) : DOMAIN scoring = cursor + 1 .. last
    BY <1>2 DEF ScoringTyped
  <2>2. last \in Int /\ cursor + 1 \in Int /\ DOMAIN scoring \in SUBSET Nat
    BY <1>2, <2>1
  <2>3. IsFiniteSet(DOMAIN scoring)
    BY <2>1, <2>2, FS_Interval
  <2> QED BY <2>2, <2>3, FS_Subset
<1>4. /\ Cardinality(rows) \in Nat
      /\ \A s \in rows : s.id \in Nat /\ scoreIds < s.id /\ ~s.processed
  <2> HIDE DEF fresh
  <2>1. rows = ScoreRows(fresh, scoring)
    OBVIOUS
  <2> HIDE DEF rows
  <2> QED BY <2>1, <1>2, <1>3, RowsOfMeasurements DEF ScoreRow
<1> HIDE DEF rows
<1> SUFFICES ASSUME ~overlapped, rebuild = None
             PROVE  Apart(events)' /\ EngineOk' /\ TablesTell' /\ WorkTells' /\ RebuildTells'
  BY <1>1 DEF RunInv
<1>5. Apart(events) /\ EngineOk /\ TablesTell
  BY DEF RunInv
<1>6. Apart(events)'
  BY <1>1, <1>5 DEF Apart
<1>7. EngineOk'
  <2>1. engine <= scoreIds'
    BY <1>1, <1>2, <1>4, <1>5 DEF EngineOk
  <2>2. \A s \in scores' : s.processed \/ s.id > engine
    BY <1>1, <1>2, <1>4, <1>5 DEF EngineOk
  <2>3. \A s, t \in scores' : s.processed /\ ~t.processed => s.id < t.id
    BY <1>1, <1>2, <1>4, <1>5 DEF EngineOk
  <2> QED BY <1>1, <2>1, <2>2, <2>3 DEF EngineOk
<1>8. TablesTell'
  <2>1. Processed' = Processed
    BY <1>1, <1>4 DEF Processed
  <2>2. InTime(scores)' => InTime(scores)
    BY <1>1 DEF InTime
  <2> QED BY <1>1, <1>5, <2>1, <2>2 DEF TablesTell, Resolved
<1>9. WorkTells' /\ RebuildTells'
  BY <1>1, <1>2 DEF WorkTells, RebuildTells
<1> QED BY <1>6, <1>7, <1>8, <1>9

\* The detection goes on from the tables.
LEMMA DetectLoadRuns ==
  ASSUME TypeInv, IInv, ScoreInv, RunInv, NEW last \in Unprocessed, DetectLoad(last)
  PROVE  RunInv'
<1> DEFINE rows == {s \in Unprocessed : s.id <= last.id}
<1> DEFINE loop == Loop(rows, state, Active(events))
<1> DEFINE empty == Loop({}, state, Active(events))
<1>1. /\ work'.loop = loop /\ work'.batch = Ids(rows) /\ work'.known = Ids(loop.event)
      /\ UNCHANGED <<scores, scoreIds, engine, state, events, rebuild, overlapped>>
  BY DEF DetectLoad, tables, sequences
<1> SUFFICES ASSUME ~overlapped
             PROVE  Apart(events)' /\ EngineOk' /\ TablesTell' /\ WorkTells' /\ RebuildTells'
  BY <1>1 DEF RunInv
<1>2. Apart(events) /\ EngineOk /\ TablesTell /\ RebuildTells
  BY DEF RunInv
<1>3. Apart(events)' /\ EngineOk' /\ TablesTell' /\ RebuildTells'
  BY <1>1, <1>2 DEF Apart, EngineOk, TablesTell, RebuildTells, Resolved, Processed, RebuiltScores
<1>4. /\ loop.todo = rows /\ loop.closed = {} /\ empty.closed = {}
      /\ loop.count = empty.count /\ loop.start = empty.start
      /\ loop.active = empty.active /\ loop.event = empty.event
  BY DEF Loop
<1>5. Written(loop) = Active(events) /\ loop.event = Active(events)
  BY <1>4, LoopStarts DEF IInv, Written
<1> HIDE DEF loop, empty
<1>6. \A s, t \in scores : s.id = t.id => s = t
  BY DEF ScoreInv, ScoresApart
<1>7. /\ rows \subseteq scores /\ last \in rows
      /\ \A s \in scores : s \in rows <=> ~s.processed /\ s.id <= last.id
      /\ \A s \in scores : s.id \in Ids(rows) <=> s \in rows
  <2>1. \A s \in scores : s \in Unprocessed <=> ~s.processed
    BY <1>2 DEF EngineOk, Unprocessed
  <2>2. last \in rows /\ rows \subseteq scores
    BY DEF Unprocessed, TypeInv, TablesTyped, ScoreRow
  <2>3. \A s \in scores : s.id \in Ids(rows) <=> s \in rows
    <3> TAKE s \in scores
    <3>1. ASSUME s.id \in Ids(rows) PROVE s \in rows
      <4>1. PICK t \in rows : t.id = s.id
        BY <3>1 DEF Ids
      <4> QED BY <1>6, <2>2, <4>1
    <3>2. ASSUME s \in rows PROVE s.id \in Ids(rows)
      BY <3>2 DEF Ids
    <3> QED BY <3>1, <3>2
  <2> QED BY <2>1, <2>2, <2>3
<1> HIDE DEF rows
<1>8. Batched' = Processed \cup rows /\ Batched' \ rows = Processed
  <2>1. Batched' = {s \in scores : s.processed \/ s \in rows}
    BY <1>1, <1>7 DEF Batched
  <2> QED BY <1>7, <2>1 DEF Processed
<1>9. LoopOver(loop, Batched')
  <2>1. \A s \in Processed, t \in rows : s.id < t.id
    BY <1>2, <1>7 DEF EngineOk, Processed
  <2>2. Apart(Written(loop))
    BY <1>2, <1>5 DEF Apart, Active
  <2> QED BY <1>4, <1>8, <2>1, <2>2 DEF LoopOver
<1>10. \E top \in Ids(rows) : \A s \in scores : s.id \in Ids(rows) <=> ~s.processed /\ s.id <= top
  <2>1. last.id \in Ids(rows)
    BY <1>7 DEF Ids
  <2> QED BY <1>7, <2>1
<1>11. Ids(rows) \subseteq Ids(scores)
  BY <1>7 DEF Ids
<1>12. InTime(scores) => Judged(loop, Batched', Resolved)
  <2> SUFFICES ASSUME InTime(scores) PROVE Judged(loop, Batched', Resolved)
    OBVIOUS
  <2>1. LoopTells(empty, Resolved, Hots(Processed), Colds(Processed))
    BY <1>2 DEF TablesTell, empty
  <2>2. LoopTells(loop, Resolved, Hots(Processed), Colds(Processed))
    BY <1>4, <2>1 DEF LoopTells
  <2>3. Resolved \cup loop.closed = Resolved
    BY <1>4
  <2> QED BY <1>4, <1>8, <2>2, <2>3 DEF Judged
<1>13. Active(events)' = Active(events) /\ Resolved' = Resolved /\ Ids(scores)' = Ids(scores)
       /\ InTime(scores)' = InTime(scores)
  BY <1>1 DEF Active, Resolved, Ids, InTime
<1>14. WorkTells'
  BY <1>1, <1>5, <1>9, <1>10, <1>11, <1>12, <1>13 DEF WorkTells
<1> QED BY <1>3, <1>14

\* The detection judges the next score of its batch.
LEMMA DetectJudgeRuns ==
  ASSUME TypeInv, IInv, ScoreInv, RunInv, DetectJudge
  PROVE  RunInv'
<1>1. PICK s \in work.loop.todo : IsNext(s, work.loop)
                                  /\ work' = [work EXCEPT !.loop = Judge(work.loop, s)]
  BY DEF DetectJudge
<1> DEFINE loop == Judge(work.loop, s)
<1>2. /\ at = "judge" /\ work # None
      /\ UNCHANGED <<scores, scoreIds, engine, state, events, rebuild, overlapped>>
  BY DEF DetectJudge, tables, sequences
<1> SUFFICES ASSUME ~overlapped
             PROVE  Apart(events)' /\ EngineOk' /\ TablesTell' /\ WorkTells' /\ RebuildTells'
  BY <1>2 DEF RunInv
<1>3. Apart(events) /\ EngineOk /\ TablesTell /\ WorkTells /\ RebuildTells
  BY DEF RunInv
<1>4. Apart(events)' /\ EngineOk' /\ TablesTell' /\ RebuildTells'
  BY <1>2, <1>3 DEF Apart, EngineOk, TablesTell, RebuildTells, Resolved, Processed, RebuiltScores
<1>5. WorkTyped /\ LoopTyped(work.loop) /\ LoopOk(work.loop) /\ Bounded(EventIds)
  BY <1>2 DEF TypeInv, JobTyped, WorkTyped, IInv, WorkOk
<1>6. work'.loop = loop /\ work'.batch = work.batch /\ work'.known = work.known
  BY <1>1, <1>5 DEF WorkTyped
<1>7. Ids(Written(work.loop)) \subseteq EventIds
  BY <1>2 DEF EventIds, WorkIds
<1>8. /\ Batched \in SUBSET ScoreRow /\ Len(measurements) \in Nat
      /\ \A r \in Batched : r.m \in 1 .. Len(measurements)
      /\ \A r, t \in Batched : r.id = t.id => r = t
  BY DEF Batched, TypeInv, TablesTyped, ScoreInv, ScoresApart
<1>9. LoopOver(work.loop, Batched)
  BY <1>2, <1>3 DEF WorkTells
<1>10. /\ LoopOver(loop, Batched)
       /\ InTime(Batched) /\ Judged(work.loop, Batched, Resolved) => Judged(loop, Batched, Resolved)
  BY <1>1, <1>5, <1>7, <1>8, <1>9, JudgeOver
<1>11. InTime(scores) => InTime(Batched)
  BY DEF InTime, Batched
<1> HIDE DEF loop
<1>12. /\ Batched' = Batched /\ Resolved' = Resolved /\ InTime(scores)' = InTime(scores)
       /\ Active(events)' = Active(events) /\ Ids(scores)' = Ids(scores)
  BY <1>2, <1>6 DEF Batched, Resolved, InTime, Active, Ids
<1>13. WorkTells'
  BY <1>2, <1>3, <1>6, <1>10, <1>11, <1>12 DEF WorkTells
<1> QED BY <1>4, <1>13

\* What a loop that has done everything leaves is what the next one starts from.
LEMMA LoopGoesOn ==
  ASSUME NEW w, LoopOk(w), NEW id, NEW rows, NEW closed, NEW H, NEW C,
         LoopTells(w, closed, H, C)
  PROVE  LoopTells(Loop(rows, {StateRow(id, w)}, w.event), closed, H, C)
<1> DEFINE r == StateRow(id, w)
<1> DEFINE v == Loop(rows, {r}, w.event)
<1>1. r.count = w.count /\ r.start = w.start /\ r.active = w.active
  BY DEF StateRow
<1> HIDE DEF r
<1>2. (CHOOSE x \in {r} : TRUE) = r
  OBVIOUS
<1>3. v.count = r.count /\ v.start = r.start /\ v.active = r.active /\ v.event \subseteq w.event
  BY <1>2 DEF Loop
<1> HIDE DEF v
<1>4. LoopTells(v, closed, H, C)
  BY <1>1, <1>3 DEF LoopTells
<1> QED BY <1>4 DEF v, r

\* It commits: the events that were resolved before and those of its loop.
LEMMA DetectCommitRuns ==
  ASSUME TypeInv, IInv, MailInv, RunInv, DetectCommit
  PROVE  RunInv'
<1> DEFINE w == work.loop
<1> DEFINE id == IF work.row = {} THEN stateIds + 1 ELSE CHOOSE i \in work.row : TRUE
<1> DEFINE kept == {e \in events : e.id \notin Ids(Written(w))}
<1> DEFINE Marked(s) ==
      [s EXCEPT !.processed = s.processed \/ s.id \in work.batch \/ s.id <= engine]
<1>1. /\ at = "judge" /\ work # None /\ work' = None /\ rebuild' = rebuild
      /\ w.todo = {}
      /\ events' = kept \cup Written(w) /\ state' = {StateRow(id, w)}
      /\ scores' = {Marked(s) : s \in scores}
      /\ engine' = Max(work.batch) /\ scoreIds' = scoreIds
      /\ overlapped' = (overlapped \/ rebuild # None)
  BY DEF DetectCommit, DetectConflict
<1> SUFFICES ASSUME ~overlapped, rebuild = None
             PROVE  Apart(events)' /\ EngineOk' /\ TablesTell' /\ WorkTells' /\ RebuildTells'
  BY <1>1 DEF RunInv
<1>2. /\ Apart(events) /\ EngineOk /\ WorkTells /\ LoopOk(w)
      /\ LoopOver(w, Batched) /\ work.known = Ids(Active(events))
      /\ work.batch \subseteq Ids(scores)
  BY <1>1 DEF RunInv, WorkTells, IInv, WorkOk
<1>3. /\ work.known \subseteq Ids(Written(w))
      /\ (Ids(Written(w)) \ work.known) \cap Ids(events) = {}
  BY <1>1 DEF MailInv, NewIds, WorkIds
<1>4. /\ \A s \in scores : s \in ScoreRow /\ Marked(s).id = s.id /\ Marked(s).m = s.m
                           /\ Marked(s).hot = s.hot /\ Marked(s) \in scores'
                           /\ Marked(s).processed = (s.processed \/ s.id \in work.batch)
      /\ \A t \in scores' : \E s \in scores : t = Marked(s)
  <2>1. \A s \in scores : s \in ScoreRow /\ (s.id <= engine => s.processed)
    BY <1>2 DEF EngineOk, TypeInv, TablesTyped, ScoreRow
  <2> QED BY <1>1, <2>1 DEF ScoreRow
<1> HIDE DEF w, id, Marked
<1>5. kept = Resolved
  <2>1. ASSUME NEW e \in events, e.active PROVE e.id \in Ids(Written(w))
    BY <1>2, <1>3, <2>1 DEF Ids, Active
  <2>2. ASSUME NEW e \in events, ~e.active PROVE e.id \notin Ids(Written(w))
    <3>1. e.id \in Ids(events)
      BY DEF Ids
    <3>2. ASSUME e.id \in work.known PROVE FALSE
      <4>1. PICK f \in Active(events) : f.id = e.id
        BY <1>2, <3>2 DEF Ids
      <4> QED BY <1>2, <2>2, <4>1 DEF Apart, Active
    <3> QED BY <1>3, <3>1, <3>2
  <2> QED BY <2>1, <2>2 DEF Resolved
<1>6. Apart(events)'
  <2>1. \A e \in kept, f \in Written(w) : e.id # f.id
    BY DEF Ids
  <2>2. Apart(Written(w)) /\ Apart(kept)
    BY <1>2 DEF LoopOver, Apart
  <2> HIDE DEF kept
  <2> QED BY <1>1, <2>1, <2>2 DEF Apart
<1> HIDE DEF kept
<1>7. Resolved' = Resolved \cup w.closed /\ Active(events)' = w.event
  <2>1. (\A e \in w.event : e.active) /\ (\A e \in w.closed : ~e.active)
    BY <1>2 DEF LoopOk
  <2> QED BY <1>1, <1>5, <2>1 DEF Resolved, Active, Written
<1>8. PICK top \in work.batch :
        \A s \in scores : s.id \in work.batch <=> ~s.processed /\ s.id <= top
  BY <1>1, <1>2 DEF WorkTells
<1>9. engine' = top /\ top \in Nat /\ top <= scoreIds
  <2>1. WorkTyped
    BY <1>1 DEF TypeInv, JobTyped
  <2>2. \A i \in work.batch : i <= top
    BY <1>2, <1>8 DEF Ids
  <2>3. work.batch \in SUBSET Nat
    BY <2>1 DEF WorkTyped
  <2> QED BY <1>1, <2>1, <2>2, <2>3, MaxIs DEF WorkTyped
<1>10. EngineOk'
  <2>1. \A s \in scores : Marked(s).processed \/ Marked(s).id > top
    <3> TAKE s \in scores
    <3>1. /\ s.id \in Nat /\ Marked(s).id = s.id
          /\ Marked(s).processed \/ (~s.processed /\ s.id \notin work.batch)
      BY <1>4 DEF ScoreRow
    <3>2. s.id \in work.batch <=> ~s.processed /\ s.id <= top
      BY <1>8
    <3> QED BY <1>9, <3>1, <3>2
  <2>2. \A s, t \in scores : Marked(s).processed /\ ~Marked(t).processed => s.id < t.id
    <3> SUFFICES ASSUME NEW s \in scores, NEW t \in scores,
                        Marked(s).processed, ~Marked(t).processed
                 PROVE  s.id < t.id
      OBVIOUS
    <3>1. ~t.processed /\ t.id \notin work.batch /\ (s.processed \/ s.id \in work.batch)
      BY <1>4
    <3>2. CASE s.processed
      BY <1>2, <3>1, <3>2 DEF EngineOk
    <3>3. CASE s.id \in work.batch
      <4>1. s.id <= top /\ ~(t.id <= top) /\ s.id \in Nat /\ t.id \in Nat
        BY <1>4, <1>8, <3>1, <3>3 DEF ScoreRow
      <4> QED BY <1>9, <4>1
    <3> QED BY <3>1, <3>2, <3>3
  <2>3. \A s \in scores' : s.processed \/ s.id > engine'
    BY <1>4, <1>9, <2>1
  <2>4. \A s, t \in scores' : s.processed /\ ~t.processed => s.id < t.id
    <3> TAKE s, t \in scores'
    <3>1. PICK p \in scores, q \in scores : s = Marked(p) /\ t = Marked(q)
      BY <1>4
    <3> QED BY <1>4, <2>2, <3>1
  <2> QED BY <1>1, <1>9, <2>3, <2>4 DEF EngineOk
<1>11. /\ Hots(Processed') = Hots(Batched) /\ Colds(Processed') = Colds(Batched)
       /\ InTime(scores') => InTime(scores)
  <2>1. \A s \in scores : Marked(s) \in Processed' <=> s \in Batched
    BY <1>4 DEF Processed, Batched
  <2>2. \A t \in Processed' : \E s \in Batched : t = Marked(s)
    <3> TAKE t \in Processed'
    <3>1. PICK s \in scores : t = Marked(s)
      BY <1>4 DEF Processed
    <3> QED BY <2>1, <3>1
  <2>3. Batched \subseteq scores /\ Processed' \subseteq scores'
    BY DEF Batched, Processed
  <2>4. \A i : i \in Hots(Processed') <=> i \in Hots(Batched)
    BY <1>4, <2>1, <2>2, <2>3 DEF Hots
  <2>5. \A i : i \in Colds(Processed') <=> i \in Colds(Batched)
    BY <1>4, <2>1, <2>2, <2>3 DEF Colds
  <2>6. InTime(scores') => InTime(scores)
    BY <1>4 DEF InTime
  <2> QED BY <2>4, <2>5, <2>6
<1>12. TablesTell'
  <2> SUFFICES ASSUME InTime(scores')
               PROVE  LoopTells(Loop({}, state', Active(events)'), Resolved',
                                Hots(Processed'), Colds(Processed'))
    BY DEF TablesTell
  <2>1. Judged(w, Batched, Resolved)
    BY <1>1, <1>2, <1>11 DEF WorkTells, w
  <2>2. LoopTells(w, Resolved \cup w.closed, Hots(Batched), Colds(Batched))
    BY <1>1, <2>1 DEF Judged, w
  <2> QED BY <1>1, <1>2, <1>7, <1>11, <2>2, LoopGoesOn
<1> QED BY <1>1, <1>6, <1>10, <1>12 DEF WorkTells, RebuildTells

-----------------------------------------------------------------------------
\* What a rebuild makes of the scores.
LEMMA RebuiltRows ==
  ASSUME TypeInv, ScoreInv, rebuild # None
  PROVE  /\ RebuiltScores \in SUBSET ScoreRow /\ Len(measurements) \in Nat
         /\ \A r \in RebuiltScores : r.m \in 1 .. Len(measurements)
         /\ \A r, t \in RebuiltScores : r.id = t.id => r = t
<1> DEFINE n == Len(measurements)
<1>1. /\ RebuildTyped /\ scores \subseteq ScoreRow /\ n \in Nat
      /\ rebuild.fresh \subseteq ScoreRow
  BY DEF TypeInv, TablesTyped, RebuildTyped
<1>2. \A r \in scores : r.m \in 1 .. n
  BY DEF ScoreInv, ScoresApart
<1>3. \A r \in rebuild.fresh : r.m \in 1 .. n
  <2>1. rebuild.from \in 1 .. rebuild.upto /\ rebuild.upto \in Nat /\ rebuild.upto <= n
    BY <1>1 DEF RebuildTyped
  <2>2. \A r \in rebuild.fresh : r.m \in rebuild.from .. rebuild.upto
    BY DEF ScoreInv, RebuildApart
  <2> HIDE DEF n
  <2> QED BY <1>1, <2>1, <2>2
<1>4. \A r, t \in RebuiltScores : r.id = t.id => r = t
  BY DEF RebuiltScores, ScoreInv, ScoresApart, RebuildApart
<1> QED BY <1>1, <1>2, <1>3, <1>4 DEF RebuiltScores

\* A rebuild starts from nothing.
LEMMA RebuildLoadRuns ==
  ASSUME TypeInv, RunInv, RebuildLoad
  PROVE  RunInv'
<1> DEFINE loop == Loop(RebuiltScores, {}, {})
<1>1. /\ rebuild # None /\ rebuild' = [rebuild EXCEPT !.row = Ids(state), !.locked = Ids(scores),
                                                      !.loop = loop]
      /\ UNCHANGED <<scores, scoreIds, engine, state, events, work, overlapped>>
  BY DEF RebuildLoad, tables, sequences, job
<1>2. rebuild'.loop = loop /\ RebuiltScores' = RebuiltScores
  <2>1. RebuildTyped
    BY <1>1 DEF TypeInv
  <2> HIDE DEF loop
  <2> QED BY <1>1, <2>1 DEF RebuildTyped, RebuiltScores
<1> SUFFICES ASSUME ~overlapped
             PROVE  Apart(events)' /\ EngineOk' /\ TablesTell' /\ WorkTells' /\ RebuildTells'
  BY <1>1 DEF RunInv
<1>3. Apart(events) /\ EngineOk /\ TablesTell /\ WorkTells
  BY DEF RunInv
<1>4. Apart(events)' /\ EngineOk' /\ TablesTell' /\ WorkTells'
  BY <1>1, <1>3 DEF Apart, EngineOk, TablesTell, WorkTells, Resolved, Processed, Batched
<1>5. /\ loop.todo = RebuiltScores /\ loop.count = 0 /\ loop.active = FALSE
      /\ loop.event = {} /\ loop.closed = {}
  BY DEF Loop
<1> HIDE DEF loop
<1>6. LoopOver(loop, RebuiltScores)
  BY <1>5 DEF LoopOver, Written, Apart
<1>7. Judged(loop, RebuiltScores, {})
  <2>1. Hots(RebuiltScores \ loop.todo) = {} /\ Colds(RebuiltScores \ loop.todo) = {}
    BY <1>5 DEF Hots, Colds
  <2>2. LoopTells(loop, {}, {}, {})
    BY <1>5, NoRuns, FS_EmptySet DEF LoopTells, Facts
  <2>3. {} \cup loop.closed = {}
    BY <1>5
  <2> QED BY <2>1, <2>2, <2>3 DEF Judged
<1>8. RebuildTells'
  BY <1>2, <1>5, <1>6, <1>7 DEF RebuildTells
<1> QED BY <1>4, <1>8

LEMMA RebuildJudgeRuns ==
  ASSUME TypeInv, IInv, ScoreInv, RunInv, RebuildJudge
  PROVE  RunInv'
<1>1. PICK s \in rebuild.loop.todo :
        /\ IsNext(s, rebuild.loop)
        /\ rebuild' = [rebuild EXCEPT !.loop = Judge(rebuild.loop, s), !.judged = TRUE]
  BY DEF RebuildJudge
<1> DEFINE loop == Judge(rebuild.loop, s)
<1>2. /\ rebuild # None /\ rebuild.loop # None
      /\ UNCHANGED <<scores, scoreIds, engine, state, events, work, overlapped>>
  BY DEF RebuildJudge, tables, sequences, job
<1> SUFFICES ASSUME ~overlapped
             PROVE  Apart(events)' /\ EngineOk' /\ TablesTell' /\ WorkTells' /\ RebuildTells'
  BY <1>2 DEF RunInv
<1>3. Apart(events) /\ EngineOk /\ TablesTell /\ WorkTells /\ RebuildTells
  BY DEF RunInv
<1>4. Apart(events)' /\ EngineOk' /\ TablesTell' /\ WorkTells'
  BY <1>2, <1>3 DEF Apart, EngineOk, TablesTell, WorkTells, Resolved, Processed, Batched
<1>5. RebuildTyped /\ LoopTyped(rebuild.loop) /\ LoopOk(rebuild.loop) /\ Bounded(EventIds)
  BY <1>2 DEF TypeInv, RebuildTyped, IInv, RebuildOk
<1>6. rebuild'.loop = loop /\ rebuild'.judged = TRUE /\ RebuiltScores' = RebuiltScores
  <2> HIDE DEF loop
  <2>1. rebuild' = [rebuild EXCEPT !.loop = loop, !.judged = TRUE]
    BY <1>1 DEF loop
  <2> QED BY <1>2, <1>5, <2>1 DEF RebuildTyped, RebuiltScores
<1>7. Ids(Written(rebuild.loop)) \subseteq EventIds
  BY <1>2 DEF EventIds, RebuildIds
<1>8. LoopOver(rebuild.loop, RebuiltScores)
  BY <1>2, <1>3 DEF RebuildTells
<1>9. /\ LoopOver(loop, RebuiltScores)
      /\ InTime(RebuiltScores) /\ Judged(rebuild.loop, RebuiltScores, {})
           => Judged(loop, RebuiltScores, {})
  BY <1>1, <1>2, <1>5, <1>7, <1>8, RebuiltRows, JudgeOver
<1> HIDE DEF loop
<1>10. RebuildTells'
  BY <1>2, <1>3, <1>6, <1>9 DEF RebuildTells
<1> QED BY <1>4, <1>10

\* Its events are all there are then, and all scores are judged.
LEMMA RebuildCommitRuns ==
  ASSUME TypeInv, IInv, RunInv, RebuildCommit
  PROVE  RunInv'
<1> DEFINE w == rebuild.loop
<1> DEFINE Marked(s) == [s EXCEPT !.processed = TRUE]
<1>1. /\ rebuild # None /\ w # None /\ w.todo = {} /\ rebuild' = None
      /\ scores' = {Marked(s) : s \in RebuiltScores}
      /\ events' = KeptEvents \cup Written(w)
      /\ state' = IF rebuild.judged THEN {StateRow(stateIds + 1, w)}
                  ELSE {r \in state : r.id \notin rebuild.row}
      /\ overlapped' = (overlapped \/ at = "score" \/ work # None)
      /\ UNCHANGED <<engine, scoreIds, work>>
  BY DEF RebuildCommit, RebuildDone, job
<1> SUFFICES ASSUME ~overlapped, work = None
             PROVE  Apart(events)' /\ EngineOk' /\ TablesTell' /\ WorkTells' /\ RebuildTells'
  BY <1>1 DEF RunInv
<1>2. /\ EngineOk /\ LoopOver(w, RebuiltScores) /\ LoopOk(w)
      /\ ~rebuild.judged => w.todo = RebuiltScores /\ ~w.active
      /\ InTime(RebuiltScores) => Judged(w, RebuiltScores, {})
      /\ Ids(events) \subseteq rebuild.events /\ Ids(state) = rebuild.row
  BY <1>1 DEF RunInv, RebuildTells, IInv, RebuildOk
<1>3. RebuiltScores \subseteq ScoreRow
  BY <1>1 DEF TypeInv, RebuildTyped, TablesTyped, RebuiltScores
<1>4. /\ \A s \in RebuiltScores : /\ Marked(s).id = s.id /\ Marked(s).m = s.m
                                  /\ Marked(s).hot = s.hot /\ Marked(s).processed = TRUE
                                  /\ Marked(s) \in scores'
      /\ \A t \in scores' : \E s \in RebuiltScores : t = Marked(s)
  BY <1>1, <1>3 DEF ScoreRow
<1> HIDE DEF w, Marked
<1>5. events' = Written(w)
  <2>1. KeptEvents = {}
    BY <1>2 DEF KeptEvents, Ids
  <2> QED BY <1>1, <2>1
<1>6. Resolved' = w.closed /\ Active(events)' = w.event
  <2>1. (\A e \in w.event : e.active) /\ (\A e \in w.closed : ~e.active)
    BY <1>2 DEF LoopOk
  <2> QED BY <1>5, <2>1 DEF Resolved, Active, Written
<1>7. Apart(events)'
  BY <1>2, <1>5 DEF LoopOver, Apart
<1>8. EngineOk'
  <2>1. \A t \in scores' : t.processed
    BY <1>4
  <2> QED BY <1>1, <1>2, <2>1 DEF EngineOk
<1>9. /\ Hots(Processed') = Hots(RebuiltScores) /\ Colds(Processed') = Colds(RebuiltScores)
      /\ InTime(scores') => InTime(RebuiltScores)
  <2>1. Processed' = scores'
    BY <1>4 DEF Processed
  <2>2. \A i : i \in Hots(scores') <=> i \in Hots(RebuiltScores)
    BY <1>4 DEF Hots
  <2>3. \A i : i \in Colds(scores') <=> i \in Colds(RebuiltScores)
    BY <1>4 DEF Colds
  <2>4. InTime(scores') => InTime(RebuiltScores)
    BY <1>4 DEF InTime
  <2> QED BY <2>1, <2>2, <2>3, <2>4
<1>10. TablesTell'
  <2> SUFFICES ASSUME InTime(scores')
               PROVE  LoopTells(Loop({}, state', Active(events)'), Resolved',
                                Hots(Processed'), Colds(Processed'))
    BY DEF TablesTell
  <2>1. Judged(w, RebuiltScores, {})
    BY <1>2, <1>9
  <2>2. LoopTells(w, w.closed, Hots(RebuiltScores), Colds(RebuiltScores))
    <3>1. RebuiltScores \ w.todo = RebuiltScores /\ {} \cup w.closed = w.closed
      BY <1>1 DEF w
    <3> QED BY <2>1, <3>1 DEF Judged
  <2>3. CASE rebuild.judged
    BY <1>1, <1>2, <1>6, <1>9, <2>2, <2>3, LoopGoesOn
  <2>4. CASE ~rebuild.judged
    <3> DEFINE v == Loop({}, {}, w.event)
    <3>1. state' = {}
      BY <1>1, <1>2, <2>4 DEF Ids
    <3>2. Hots(RebuiltScores) = {} /\ Colds(RebuiltScores) = {}
      BY <1>1, <1>2, <2>4 DEF Hots, Colds, w
    <3>3. v.count = 0 /\ v.active = FALSE /\ v.event = {}
      BY DEF Loop
    <3> HIDE DEF v
    <3>4. LoopTells(v, w.closed, {}, {})
      BY <2>2, <3>2, <3>3, NoRuns, FS_EmptySet DEF LoopTells
    <3> QED BY <1>6, <1>9, <3>1, <3>2, <3>4 DEF v
  <2> QED BY <2>3, <2>4
<1> QED BY <1>1, <1>7, <1>8, <1>10 DEF WorkTells, RebuildTells

\* It starts with the scores it makes anew.
LEMMA RebuildDeleteRuns ==
  ASSUME TypeInv, RunInv, NEW m \in DOMAIN measurements, NEW heat \in Heat,
         RebuildDelete(m, heat)
  PROVE  RunInv'
<1> DEFINE n == Len(measurements)
<1> DEFINE ids == m .. n
<1> DEFINE heats == [measurements EXCEPT ![m] = heat]
<1> DEFINE rows == ScoreRows(ids, heats)
<1>1. /\ rebuild'.loop = None /\ scoreIds' = scoreIds + Cardinality(rows)
      /\ UNCHANGED <<scores, engine, state, events, work, overlapped>>
  BY DEF RebuildDelete, tables, job
<1>2. n \in Nat /\ m \in 1 .. n /\ scoreIds \in Nat /\ engine \in Nat
  BY DEF TypeInv, TablesTyped
<1>3. ids \in SUBSET Nat /\ IsFiniteSet(ids)
  <2> HIDE DEF n
  <2>1. m \in Int /\ n \in Int /\ \A i \in m .. n : i \in Nat
    BY <1>2
  <2> QED BY <2>1, FS_Interval
<1>4. Cardinality(rows) \in Nat
  <2> HIDE DEF ids, heats
  <2>1. rows = ScoreRows(ids, heats)
    OBVIOUS
  <2> HIDE DEF rows
  <2> QED BY <2>1, <1>2, <1>3, RowsOfMeasurements
<1> HIDE DEF rows
<1>5. engine <= scoreIds => engine <= scoreIds'
  BY <1>1, <1>2, <1>4
<1> QED BY <1>1, <1>5, RunsStay

LEMMA StepRuns ==
  ASSUME TypeInv, IInv, ScoreInv, MailInv, RunInv, [Next]_vars
  PROVE  RunInv'
<1>1. CASE \E heat \in Heat : Import(heat)
  BY <1>1, RunsStay DEF Import, sequences, job
<1>2. CASE JobStep
  <2>1. CASE ScoreNothing \/ ScoreRaises \/ ScoreRollBack \/ DetectNothing
             \/ \E last \in cursor + 1 .. Len(measurements) : ScoreRead(last)
    BY <2>1, RunsStay DEF ScoreNothing, ScoreRaises, ScoreRollBack, DetectNothing, ScoreRead,
                          tables, sequences
  <2>2. CASE DetectRollBack
    BY <2>2, RunsStay DEF DetectRollBack, tables, sequences
  <2>3. CASE AlertNothing \/ AlertSend \/ AlertCommit
    BY <2>3, RunsStay DEF AlertNothing, AlertSend, AlertCommit, tables, sequences
  <2> QED BY <1>2, <2>1, <2>2, <2>3, ScoreCommitRuns, DetectLoadRuns, DetectJudgeRuns,
             DetectCommitRuns DEF JobStep
<1>3. CASE AlertFail \/ Crash
  BY <1>3, RunsStay DEF AlertFail, Crash, tables, sequences
<1>4. CASE \E m \in DOMAIN measurements, heat \in Heat : RebuildDelete(m, heat)
  BY <1>4, RebuildDeleteRuns
<1>5. CASE RebuildRollBack \/ RebuildAbort
  BY <1>5, RunsStay DEF RebuildRollBack, RebuildAbort, tables, sequences, job
<1>6. CASE UNCHANGED vars
  BY <1>6, RunsStay DEF vars, tables, sequences, job
<1>7. CASE ManualDetect
  BY <1>7, RunsStay DEF ManualDetect, tables, sequences
<1> QED BY <1>1, <1>2, <1>3, <1>4, <1>5, <1>6, <1>7, RebuildLoadRuns, RebuildJudgeRuns,
           RebuildCommitRuns DEF Next, RebuildStep

LEMMA SpecRuns == Spec => []RunInv
<1>1. Init => RunInv
  <2> SUFFICES ASSUME Init
               PROVE  Apart(events) /\ EngineOk /\ TablesTell /\ WorkTells /\ RebuildTells
    BY DEF RunInv
  <2>1. Apart(events) /\ EngineOk /\ WorkTells /\ RebuildTells
    BY DEF Init, Apart, EngineOk, WorkTells, RebuildTells
  <2>2. Hots(Processed) = {} /\ Colds(Processed) = {} /\ Resolved = {} /\ Active(events) = {}
        /\ state = {}
    BY DEF Init, Hots, Colds, Processed, Resolved, Active
  <2> DEFINE w == Loop({}, {}, {})
  <2>3. w.count = 0 /\ w.active = FALSE /\ w.event = {}
    BY DEF Loop
  <2> HIDE DEF w
  <2>4. LoopTells(w, {}, {}, {})
    BY <2>3, NoRuns, FS_EmptySet DEF LoopTells, Facts
  <2>5. TablesTell
    BY <2>2, <2>4 DEF TablesTell, w
  <2> QED BY <2>1, <2>5
<1> QED BY <1>1, StepRuns, SpecTyped, SpecIInv, SpecScores, SpecMails, PTL DEF Spec

\* The reference puts the open run to the ended ones, as that before the end.
LEMMA RunsAre ==
  ASSUME TypeInv, ScoreInv
  PROVE  LET H == Hots(Processed)
             C == Colds(Processed)
             T == OpenRun(H, C)
         IN Runs = EndedRuns(H, C) \cup
                     {[start |-> Min(S), active |-> TRUE, duration |-> Max(S) - Min(S)] :
                      S \in {R \in {T} : Long(R)}}
<1> DEFINE n == Len(measurements)
<1> DEFINE H == Hots(Processed)
<1> DEFINE C == Colds(Processed)
<1> DEFINE T == OpenRun(H, C)
<1> DEFINE RunTo(b) == Run(H, C, b)
<1> DEFINE Of(b) == [start |-> Min(RunTo(b)), active |-> b \notin C,
                     duration |-> (IF b \in C THEN b ELSE Max(RunTo(b))) - Min(RunTo(b))]
<1>1. n \in Nat /\ H \in SUBSET (1 .. n) /\ C \in SUBSET (1 .. n)
  BY DEF TypeInv, TablesTyped, ScoreInv, ScoresApart, Processed, Hots, Colds
<1>2. Runs = {Of(b) : b \in {c \in C \cup {n + 1} : Long(RunTo(c))}}
  BY DEF Runs, Long
<1> HIDE DEF H, C, n
<1>3. n + 1 \notin C
  BY <1>1
<1>4. RunTo(n + 1) = T
  <2>1. \A i \in H \cup C : i < n + 1
    BY <1>1
  <2> QED BY <2>1 DEF Run, OpenRun
<1>5. Of(n + 1) = [start |-> Min(T), active |-> TRUE, duration |-> Max(T) - Min(T)]
  BY <1>3, <1>4
<1>6. \A b \in C : Of(b) = Ended(H, C, b)
  BY DEF Ended
<1>7. Runs = {Of(b) : b \in {c \in C : Long(RunTo(c))}}
               \cup {Of(b) : b \in {c \in {n + 1} : Long(RunTo(c))}}
  BY <1>2
<1>8. {Of(b) : b \in {c \in C : Long(RunTo(c))}} = EndedRuns(H, C)
  BY <1>6 DEF EndedRuns
<1>9. {Of(b) : b \in {c \in {n + 1} : Long(RunTo(c))}}
        = {[start |-> Min(S), active |-> TRUE, duration |-> Max(S) - Min(S)] :
           S \in {R \in {T} : Long(R)}}
  BY <1>4, <1>5
<1> QED BY <1>7, <1>8, <1>9 DEF H, C

-----------------------------------------------------------------------------
(***************************************************************************)
(* Without rebuilds scores come in the order of their measurements, so     *)
(* events that start with the same score are the same row.                 *)
(***************************************************************************)
OrderInv == rebuilds = 0 => InTime(scores) /\ \A s \in scores : s.m <= cursor

LEMMA ScoreCommitOrder ==
  ASSUME TypeInv, OrderInv, ScoreCommit
  PROVE  OrderInv'
<1> DEFINE fresh == DOMAIN scoring \ {s.m : s \in scores}
<1> DEFINE rows == ScoreRows(fresh, scoring)
<1>1. /\ at = "score" /\ scores' = scores \cup rows /\ cursor' = Max(DOMAIN scoring)
      /\ rebuilds' = rebuilds
  BY DEF ScoreCommit, counts
<1>2. /\ scoreIds \in Nat /\ ScoringTyped /\ cursor \in Nat
      /\ \A s \in scores : s.id \in Nat /\ s.id <= scoreIds /\ s.m \in Nat
  BY <1>1 DEF TypeInv, JobTyped, TablesTyped, ScoreRow
<1>3. PICK last \in cursor + 1 .. Len(measurements) : DOMAIN scoring = cursor + 1 .. last
  BY <1>2 DEF ScoringTyped
<1>4. last \in Nat /\ cursor + 1 \in Int /\ DOMAIN scoring \in SUBSET Nat
      /\ last \in DOMAIN scoring /\ \A i \in DOMAIN scoring : cursor < i /\ i <= last
  <2>1. last \in Int /\ cursor + 1 <= last
    BY <1>2, <1>3
  <2> QED BY <1>2, <1>3, <2>1
<1>5. cursor' = last /\ cursor < last
  BY <1>1, <1>2, <1>4, MaxIs
<1>6. fresh \in SUBSET Nat /\ IsFiniteSet(fresh)
  <2>1. IsFiniteSet(DOMAIN scoring)
    BY <1>3, <1>4, FS_Interval
  <2> QED BY <1>4, <2>1, FS_Subset
<1>7. /\ \A s \in rows : s \in ScoreRow /\ scoreIds < s.id /\ s.m \in fresh
      /\ \A s, t \in rows : (s.id = t.id \/ s.m = t.m => s = t) /\ (s.m < t.m => s.id < t.id)
  <2> HIDE DEF fresh
  <2>1. rows = ScoreRows(fresh, scoring)
    OBVIOUS
  <2> HIDE DEF rows
  <2> QED BY <2>1, <1>2, <1>6, RowsOfMeasurements
<1>8. \A s \in rows : s.id \in Nat /\ s.m \in Nat /\ cursor < s.m /\ s.m <= last
  BY <1>4, <1>7 DEF ScoreRow
<1> HIDE DEF rows, fresh
<1> SUFFICES ASSUME rebuilds = 0
             PROVE  InTime(scores') /\ \A s \in scores' : s.m <= cursor'
  BY <1>1 DEF OrderInv, InTime
<1>9. InTime(scores) /\ \A s \in scores : s.m <= cursor
  BY DEF OrderInv
<1>10. InTime(scores')
  <2> SUFFICES ASSUME NEW s \in scores', NEW t \in scores', s.id < t.id PROVE s.m < t.m
    BY DEF InTime
  <2>1. CASE s \in scores /\ t \in scores
    BY <1>9, <2>1 DEF InTime
  <2>2. CASE s \in scores /\ t \in rows
    BY <1>2, <1>8, <1>9, <2>2
  <2>3. CASE s \in rows /\ t \in scores
    BY <1>2, <1>7, <1>8, <2>3
  <2>4. CASE s \in rows /\ t \in rows
    <3>1. s.m \in Nat /\ t.m \in Nat /\ s.id \in Nat /\ t.id \in Nat
      BY <1>8, <2>4
    <3>2. s.m # t.m /\ ~(t.m < s.m)
      BY <1>7, <2>4, <3>1
    <3> QED BY <3>1, <3>2
  <2> QED BY <1>1, <2>1, <2>2, <2>3, <2>4
<1>11. \A s \in scores' : s.m <= cursor'
  BY <1>1, <1>2, <1>4, <1>5, <1>8, <1>9
<1> QED BY <1>10, <1>11

LEMMA StepOrder ==
  ASSUME TypeInv, ReportInv, OrderInv, [Next]_vars
  PROVE  OrderInv'
<1>1. ASSUME UNCHANGED <<scores, cursor, rebuilds>> PROVE OrderInv'
  BY <1>1 DEF OrderInv, InTime
<1>2. CASE JobStep
  <2>1. CASE ScoreNothing \/ ScoreRaises \/ ScoreRollBack \/ DetectNothing
             \/ \E last \in cursor + 1 .. Len(measurements) : ScoreRead(last)
    BY <1>1, <2>1 DEF ScoreNothing, ScoreRaises, ScoreRollBack, DetectNothing, ScoreRead,
                      tables, counts
  <2>2. CASE DetectJudge \/ DetectRollBack \/ \E last \in Unprocessed : DetectLoad(last)
    BY <1>1, <2>2 DEF DetectJudge, DetectRollBack, DetectLoad, tables, counts
  <2>3. CASE AlertNothing \/ AlertSend \/ AlertCommit
    BY <1>1, <2>3 DEF AlertNothing, AlertSend, AlertCommit, tables, counts
  <2>4. CASE DetectCommit
    <3> DEFINE Marked(s) ==
          [s EXCEPT !.processed = s.processed \/ s.id \in work.batch \/ s.id <= engine]
    <3>1. scores' = {Marked(s) : s \in scores} /\ UNCHANGED <<cursor, rebuilds>>
      BY <2>4 DEF DetectCommit, counts
    <3>2. \A s \in scores : Marked(s).id = s.id /\ Marked(s).m = s.m
      BY DEF TypeInv, TablesTyped, ScoreRow
    <3> HIDE DEF Marked
    <3> QED BY <3>1, <3>2 DEF OrderInv, InTime
  <2> QED BY <1>2, <2>1, <2>2, <2>3, <2>4, ScoreCommitOrder DEF JobStep
<1>3. CASE ManualDetect \/ AlertFail \/ Crash \/ \E heat \in Heat : Import(heat)
  BY <1>1, <1>3 DEF ManualDetect, AlertFail, Crash, Import, tables, counts
<1>4. CASE \E m \in DOMAIN measurements, heat \in Heat : RebuildDelete(m, heat)
  BY <1>4 DEF RebuildDelete, ReportInv, OrderInv
<1>5. CASE RebuildStep \/ RebuildAbort
  <2>1. rebuild # None /\ rebuilds' = rebuilds
    BY <1>5 DEF RebuildStep, RebuildLoad, RebuildJudge, RebuildCommit, RebuildRollBack,
                RebuildAbort, RebuildDone, counts
  <2> QED BY <2>1 DEF ReportInv, OrderInv
<1>6. CASE UNCHANGED vars
  BY <1>1, <1>6 DEF vars, tables, counts
<1> QED BY <1>2, <1>3, <1>4, <1>5, <1>6 DEF Next

LEMMA SpecOrder == Spec => []OrderInv
<1>1. Init => OrderInv
  BY DEF Init, OrderInv, InTime
<1> QED BY <1>1, StepOrder, SpecTyped, SpecReports, PTL DEF Spec

\* However many runs of the job touch an event and whatever fails before the mail goes
\* out, there is one call of the sender about each kind of news of each event, which may
\* mail it SmtpTries times; unless the alerts of some run were cut off between the mail
\* and the commit of its deliveries.  An event is a row: a rebuild makes new rows, which
\* are mailed anew.  Without rebuilds no two rows that were mailed start with the same
\* score.
THEOREM SpecNoMailTwice == Spec => []NoMailTwice
<1>1. ASSUME TypeInv, IInv, ScoreInv, RunInv, ReportInv, OrderInv, rebuilds = 0
      PROVE  \A e, f \in events : e.start = f.start => e = f
  <2> DEFINE H == Hots(Processed)
  <2> DEFINE C == Colds(Processed)
  <2> DEFINE T == OpenRun(H, C)
  <2> DEFINE w == Loop({}, state, Active(events))
  <2>1. LoopTells(w, Resolved, H, C)
    BY <1>1 DEF ReportInv, OrderInv, RunInv, TablesTell
  <2>2. w.event = Active(events) /\ LoopOk(w)
    <3>1. LoopOk(w) /\ Written(w) = Active(events)
      BY <1>1, LoopStarts DEF IInv, ReportInv
    <3>2. w.closed = {}
      BY DEF Loop
    <3> HIDE DEF w
    <3> QED BY <3>1, <3>2 DEF Written
  <2>3. H \in SUBSET Nat /\ C \in SUBSET Nat /\ IsFiniteSet(H)
    <3> DEFINE n == Len(measurements)
    <3>1. n \in Nat /\ H \in SUBSET (1 .. n) /\ C \in SUBSET (1 .. n)
      BY <1>1 DEF TypeInv, TablesTyped, ScoreInv, ScoresApart, Processed, Hots, Colds
    <3> HIDE DEF H, C, n
    <3>2. IsFiniteSet(1 .. n) /\ \A i \in 1 .. n : i \in Nat
      BY <3>1, FS_Interval
    <3>3. IsFiniteSet(H)
      BY <3>1, <3>2, FS_Subset
    <3> QED BY <3>1, <3>2, <3>3
  <2> HIDE DEF w, H, C
  <2>4. \A e, f \in Resolved : e.start = f.start => e = f
    BY <2>1 DEF LoopTells
  <2>5. \A e, f \in Active(events) : e = f
    BY <2>2 DEF LoopOk
  <2>6. \A e \in Resolved, f \in Active(events) : e.start # f.start
    <3> TAKE e \in Resolved, f \in Active(events)
    <3>1. w.active /\ f.start = Min(T) /\ Long(T)
      BY <2>1, <2>2 DEF LoopTells, LoopOk
    <3>2. T \in SUBSET H
      BY DEF OpenRun
    <3>3. Min(T) \in T
      <4>1. T \in SUBSET Nat /\ IsFiniteSet(T)
        BY <2>3, <3>2, FS_Subset
      <4> HIDE DEF T
      <4> QED BY <3>1, <4>1, LongStarts
    <3>4. Fact(e) \in EndedRuns(H, C) /\ Fact(e).start = e.start
      BY <2>1 DEF LoopTells, Facts, Fact
    <3>5. e.start \in Nat /\ e.start < f.start
      BY <2>3, <3>1, <3>3, <3>4, EndedStartsBefore
    <3>6. f.start \in Nat
      BY <2>3, <3>1, <3>2, <3>3
    <3> QED BY <3>5, <3>6
  <2>7. events = Resolved \cup Active(events)
    BY DEF Resolved, Active
  <2> QED BY <2>4, <2>5, <2>6, <2>7
<1>2. TypeInv /\ IInv /\ ScoreInv /\ MailInv /\ RunInv /\ ReportInv /\ OrderInv => NoMailTwice
  BY <1>1 DEF MailInv, AllSettled, NoMailTwice
<1> QED
  BY <1>2, SpecTyped, SpecIInv, SpecScores, SpecMails, SpecRuns, SpecReports, SpecOrder, PTL

-----------------------------------------------------------------------------
\* Unless the job did something beside a rebuild, and as long as the scores came in
\* the order of time, the events are the runs of the scores that were judged: in
\* whatever batches they came, none is missing, split, doubled or left open, and
\* each has the duration that its scores give it.
THEOREM SpecEventsAreRuns == Spec => []EventsAreRuns
<1>1. ASSUME TypeInv, IInv, ScoreInv, RunInv, ~overlapped, ScoredInOrder
      PROVE  /\ {[start |-> e.start, active |-> e.active, duration |-> e.duration] : e \in events}
                  = Runs
             /\ Cardinality(events) = Cardinality(Runs)
  <2> DEFINE H == Hots(Processed)
  <2> DEFINE C == Colds(Processed)
  <2> DEFINE T == OpenRun(H, C)
  <2> DEFINE open == {[start |-> Min(S), active |-> TRUE, duration |-> Max(S) - Min(S)] :
                      S \in {R \in {T} : Long(R)}}
  <2> DEFINE w == Loop({}, state, Active(events))
  <2>1. LoopTells(w, Resolved, H, C)
    BY <1>1 DEF RunInv, TablesTell, ScoredInOrder, InTime
  <2>2. w.event = Active(events) /\ LoopOk(w)
    <3>1. LoopOk(w) /\ Written(w) = Active(events)
      BY <1>1, LoopStarts DEF IInv
    <3>2. w.closed = {}
      BY DEF Loop
    <3> HIDE DEF w
    <3> QED BY <3>1, <3>2 DEF Written
  <2>3. Runs = EndedRuns(H, C) \cup open
    BY <1>1, RunsAre
  <2> HIDE DEF w, H, C
  <2>4. Facts(Active(events)) = open
        /\ \A e, f \in Active(events) : e = f
    <3>1. CASE w.active
      <4>1. PICK e \in w.event : w.event = {e}
        BY <2>2, <3>1 DEF LoopOk
      <4>2. Long(T) /\ Fact(e) = [start |-> Min(T), active |-> TRUE, duration |-> Max(T) - Min(T)]
        <5>1. e.active = TRUE
          <6>1. e \in events /\ e.active /\ events \subseteq EventRow
            BY <1>1, <2>2, <4>1 DEF Active, TypeInv, TablesTyped
          <6> QED BY <6>1 DEF EventRow
        <5> QED BY <2>1, <3>1, <4>1, <5>1 DEF LoopTells, Fact
      <4>3. open = {Fact(e)}
        BY <4>2
      <4> QED BY <2>2, <4>1, <4>3 DEF Facts
    <3>2. CASE ~w.active
      <4>1. Active(events) = {} /\ ~Long(T)
        BY <2>1, <2>2, <3>2 DEF LoopTells, LoopOk
      <4> QED BY <4>1 DEF Facts
    <3> QED BY <3>1, <3>2
  <2>5. Facts(Resolved) = EndedRuns(H, C) /\ \A e, f \in Resolved : e.start = f.start => e = f
    BY <2>1 DEF LoopTells
  <2> HIDE DEF open
  <2>6. events = Resolved \cup Active(events)
    BY DEF Resolved, Active
  <2>7. Facts(events) = Runs
    BY <2>3, <2>4, <2>5, <2>6 DEF Facts
  <2>8. \A e, f \in events : Fact(e) = Fact(f) => e = f
    <3> TAKE e, f \in events
    <3>1. Fact(e) = Fact(f) => e.start = f.start /\ e.active = f.active
      BY DEF Fact
    <3> QED BY <2>4, <2>5, <3>1 DEF Resolved, Active
  <2>9. Cardinality(events) = Cardinality(Runs)
    <3> DEFINE g == [e \in events |-> Fact(e)]
    <3>1. g \in [events -> Runs] /\ \A r \in Runs : \E e \in events : g[e] = r
      BY <2>7 DEF Facts
    <3>2. \A e, f \in events : g[e] = g[f] => e = f
      BY <2>8
    <3> HIDE DEF g
    <3>3. g \in Surjection(events, Runs) /\ g \in Injection(events, Runs)
      BY <3>1, <3>2 DEF Surjection, Injection, IsInjective
    <3>4. IsFiniteSet(events)
      BY <1>1 DEF TypeInv, TablesTyped
    <3> QED BY <3>3, <3>4, FS_Surjection
  <2> QED BY <2>7, <2>9 DEF Facts, Fact
<1>2. TypeInv /\ IInv /\ ScoreInv /\ RunInv => EventsAreRuns
  BY <1>1 DEF EventsAreRuns
<1> QED BY <1>2, SpecTyped, SpecIInv, SpecScores, SpecRuns, PTL
=============================================================================
