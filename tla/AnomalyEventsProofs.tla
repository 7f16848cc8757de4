------------------------- MODULE AnomalyEventsProofs -------------------------
(***************************************************************************)
(* For every MinConsecutive, every number of measurements, batches,        *)
(* rebuilds and failures: the tables and the loops are well formed; as long*)
(* as the job and a rebuild have not run beside each other, the state row  *)
(* and the active event agree; and no measurement is scored twice.         *)
(***************************************************************************)
EXTENDS AnomalyEvents, FiniteSetTheorems, WellFoundedInduction, TLAPS

\* What a loop keeps: its event is the active one of its state.
LoopOk(w) ==
  /\ w.count \in Nat
  /\ w.active => /\ w.count > 0
                 /\ \E e \in w.event : w.event = {e} /\ e.active /\ e.start = w.start
  /\ ~w.active => w.event = {}
  /\ \A e \in w.closed : ~e.active

Agree ==
  \/ Active(state) = {} /\ Active(events) = {}
  \/ \E r \in Active(state), e \in Active(events) :
       state = {r} /\ Active(events) = {e} /\ e.start = r.start

StateOne ==
  /\ state = {} \/ \E r \in state : state = {r}
  /\ \A r \in state : r.count \in Nat /\ (r.active => r.count > 0)

\* The detection has taken over the active event, and writes it.
WorkOk ==
  work # None =>
    LoopOk(work.loop) /\ Ids(Active(events)) \subseteq Ids(Written(work.loop))

\* A rebuild takes all events away, and once it has loaded the scores the state
\* row as well.
RebuildOk ==
  rebuild # None =>
    /\ Ids(events) \subseteq rebuild.events
    /\ rebuild.loop # None =>
         /\ LoopOk(rebuild.loop)
         /\ Ids(state) = rebuild.row
         /\ ~rebuild.judged => ~rebuild.loop.active

\* The two open transactions are the records that their first steps make.
Shapes ==
  /\ work # None => work = [loop |-> work.loop, batch |-> work.batch, row |-> work.row,
                            known |-> work.known]
  /\ rebuild # None =>
       rebuild = [from |-> rebuild.from, upto |-> rebuild.upto, heat |-> rebuild.heat,
                  fresh |-> rebuild.fresh, gone |-> rebuild.gone,
                  locked |-> rebuild.locked, events |-> rebuild.events,
                  row |-> rebuild.row, loop |-> rebuild.loop, judged |-> rebuild.judged]

IInv ==
  /\ Shapes
  /\ ~overlapped => StateOne /\ Agree /\ WorkOk /\ RebuildOk

-----------------------------------------------------------------------------
\* A hot score keeps what a loop keeps, whether it opens an event or not.
LEMMA JudgeHotOk ==
  ASSUME NEW w, NEW s, LoopOk(w)
  PROVE  LoopOk(JudgeHot(w, s)) /\ Ids(Written(w)) \subseteq Ids(Written(JudgeHot(w, s)))
<1> DEFINE m == s.m
<1> DEFINE v == JudgeHot(w, s)
<1> DEFINE start == IF w.count = 0 THEN m ELSE w.start
<1>0. /\ v.count = w.count + 1 /\ v.start = start /\ v.closed = w.closed
      /\ v.active = (w.active \/ Opens(w))
      /\ v.event = IF Opens(w) THEN {NewEvent(start, m)}
                   ELSE IF w.active THEN Updated(w.event, m, TRUE) ELSE w.event
  BY DEF JudgeHot
<1>1. v.count \in Nat /\ v.count > 0 /\ \A e \in v.closed : ~e.active
  BY <1>0 DEF LoopOk
<1> HIDE DEF v
<1>2. CASE w.active
  <2>1. PICK e \in w.event : w.event = {e} /\ e.active /\ e.start = w.start
    BY <1>2 DEF LoopOk
  <2> DEFINE f == [id |-> e.id, start |-> e.start, duration |-> Duration(e.start, m), active |-> TRUE]
  <2>2. v.event = {f}
    BY <1>0, <1>2, <2>1 DEF Opens, Updated
  <2>3. f.active /\ f.start = v.start /\ f.id = e.id
    BY <1>0, <1>2, <2>1 DEF LoopOk
  <2> HIDE DEF f
  <2>4. LoopOk(v)
    BY <1>0, <1>1, <1>2, <2>2, <2>3 DEF LoopOk
  <2>5. Ids(Written(w)) \subseteq Ids(Written(v))
    BY <1>0, <2>1, <2>2, <2>3 DEF Ids, Written
  <2> QED BY <2>4, <2>5 DEF v
<1>3. CASE ~w.active /\ Opens(w)
  <2>1. v.event = {NewEvent(start, m)} /\ v.active
    BY <1>0, <1>3
  <2>2. NewEvent(start, m).active /\ NewEvent(start, m).start = v.start
    BY <1>0 DEF NewEvent
  <2>3. LoopOk(v)
    BY <1>1, <2>1, <2>2 DEF LoopOk
  <2>4. Ids(Written(w)) \subseteq Ids(Written(v))
    BY <1>0, <1>3 DEF Ids, Written, LoopOk
  <2> QED BY <2>3, <2>4 DEF v
<1>4. CASE ~w.active /\ ~Opens(w)
  <2>1. v.event = {} /\ ~v.active
    BY <1>0, <1>4 DEF LoopOk
  <2>2. LoopOk(v)
    BY <1>1, <2>1 DEF LoopOk
  <2>3. Ids(Written(w)) \subseteq Ids(Written(v))
    BY <1>0, <1>4 DEF Ids, Written, LoopOk
  <2> QED BY <2>2, <2>3 DEF v
<1> QED BY <1>2, <1>3, <1>4

\* So does a cold one: it closes the event, and writes it.
LEMMA JudgeColdOk ==
  ASSUME NEW w, NEW s, LoopOk(w)
  PROVE  LoopOk(JudgeCold(w, s)) /\ Ids(Written(w)) \subseteq Ids(Written(JudgeCold(w, s)))
<1> DEFINE m == s.m
<1> DEFINE v == JudgeCold(w, s)
<1> DEFINE ended == IF w.active THEN Updated(w.event, m, FALSE) ELSE {}
<1>0. /\ v.count = 0 /\ v.active = FALSE /\ v.closed = w.closed \cup ended
      /\ v.event = IF w.active THEN {} ELSE w.event
  BY DEF JudgeCold
<1>1. v.event = {}
  BY <1>0 DEF LoopOk
<1>2. \A e \in ended : ~e.active
  BY DEF Updated
<1>3. Ids(w.event) \subseteq Ids(ended)
  <2>1. CASE w.active
    <3> SUFFICES ASSUME NEW e \in w.event PROVE \E f \in ended : f.id = e.id
      BY DEF Ids
    <3> DEFINE f == [id |-> e.id, start |-> e.start, duration |-> Duration(e.start, m), active |-> FALSE]
    <3>1. f \in ended /\ f.id = e.id
      BY <2>1 DEF Updated
    <3> QED BY <3>1
  <2>2. CASE ~w.active
    BY <2>2 DEF LoopOk, Ids
  <2> QED BY <2>1, <2>2
<1> HIDE DEF v, ended
<1>4. LoopOk(v)
  BY <1>0, <1>1, <1>2 DEF LoopOk
<1>5. Ids(Written(w)) \subseteq Ids(Written(v))
  BY <1>0, <1>1, <1>3 DEF Ids, Written
<1> QED BY <1>4, <1>5 DEF v

LEMMA JudgeOk ==
  ASSUME NEW w, NEW s, LoopOk(w)
  PROVE  LoopOk(Judge(w, s)) /\ Ids(Written(w)) \subseteq Ids(Written(Judge(w, s)))
BY JudgeHotOk, JudgeColdOk DEF Judge

\* A loop that starts from a state row and the event that agrees with it.
LEMMA LoopStarts ==
  ASSUME NEW rows, StateOne, Agree
  PROVE  /\ LoopOk(Loop(rows, state, Active(events)))
         /\ Written(Loop(rows, state, Active(events))) = Active(events)
<1> DEFINE w == Loop(rows, state, Active(events))
<1> DEFINE known == CHOOSE r \in state : TRUE
<1>0. /\ w.event = {e \in Active(events) : state # {} /\ known.active} /\ w.closed = {}
      /\ w.count = IF state = {} THEN 0 ELSE known.count
      /\ w.start = IF state = {} THEN None ELSE known.start
      /\ w.active = IF state = {} THEN FALSE ELSE known.active
  BY DEF Loop
<1> HIDE DEF w
<1>1. CASE state = {}
  <2>1. Active(events) = {}
    BY <1>1 DEF Agree, Active
  <2>2. LoopOk(w) /\ Written(w) = Active(events)
    BY <1>0, <1>1, <2>1 DEF LoopOk, Written
  <2> QED BY <2>2 DEF w
<1>2. CASE state # {}
  <2>1. known \in state /\ state = {known}
    BY <1>2 DEF StateOne
  <2> HIDE DEF known
  <2>2. w.count = known.count /\ w.start = known.start /\ w.active = known.active
    BY <1>0, <1>2
  <2>3. known.count \in Nat /\ (known.active => known.count > 0)
    BY <2>1 DEF StateOne
  <2>4. CASE known.active
    <3>1. PICK e \in Active(events) : Active(events) = {e} /\ e.start = known.start
      BY <2>1, <2>4 DEF Agree, Active
    <3>2. e.active
      BY <3>1 DEF Active
    <3>3. LoopOk(w)
      BY <1>0, <2>2, <2>3, <2>4, <3>1, <3>2 DEF LoopOk
    <3>4. Written(w) = Active(events)
      BY <1>0, <1>2, <2>4, <3>1 DEF Written
    <3> QED BY <3>3, <3>4 DEF w
  <2>5. CASE ~known.active
    <3>1. Active(events) = {}
      BY <2>1, <2>5 DEF Agree, Active
    <3>2. LoopOk(w)
      BY <1>0, <2>2, <2>3, <2>5, <3>1 DEF LoopOk
    <3>3. Written(w) = Active(events)
      BY <1>0, <1>2, <2>5, <3>1 DEF Written
    <3> QED BY <3>2, <3>3 DEF w
  <2> QED BY <2>4, <2>5
<1> QED BY <1>1, <1>2

\* What a loop writes agrees with its state row, if it writes all that is active.
LEMMA WrittenAgrees ==
  ASSUME NEW w, LoopOk(w), NEW id, NEW kept, Active(kept) = {},
         state' = {StateRow(id, w)}, events' = kept \cup Written(w)
  PROVE  StateOne' /\ Agree'
<1> DEFINE r == StateRow(id, w)
<1>0. r.count = w.count /\ r.start = w.start /\ r.active = w.active
  BY DEF StateRow
<1> HIDE DEF r
<1>1. StateOne'
  BY <1>0 DEF StateOne, LoopOk, r
<1>2. CASE w.active
  <2>1. PICK e \in w.event : w.event = {e} /\ e.active /\ e.start = w.start
    BY <1>2 DEF LoopOk
  <2>2. Active(events)' = {e}
    BY <2>1 DEF Active, Written, LoopOk
  <2>3. r \in Active(state)' /\ state' = {r}
    BY <1>0, <1>2 DEF Active, r
  <2>4. Agree'
    BY <1>0, <2>1, <2>2, <2>3 DEF Agree
  <2> QED BY <1>1, <2>4
<1>3. CASE ~w.active
  <2>1. Active(events)' = {}
    BY <1>3 DEF Active, Written, LoopOk
  <2>2. Active(state)' = {}
    BY <1>0, <1>3 DEF Active, r
  <2> QED BY <1>1, <2>1, <2>2 DEF Agree
<1> QED BY <1>2, <1>3

-----------------------------------------------------------------------------
\* The steps that leave the state row, the events and both transactions alone.
LEMMA OthersIInv ==
  ASSUME IInv, UNCHANGED <<state, events, work, rebuild>>, ~overlapped' => ~overlapped
  PROVE  IInv'
BY DEF IInv, Shapes, StateOne, Agree, WorkOk, RebuildOk, Active, Ids, Written, LoopOk

\* The steps that end the transaction of the job without a trace.
LEMMA NoWorkIInv ==
  ASSUME IInv, UNCHANGED <<state, events, rebuild, overlapped>>, work' = None
  PROVE  IInv'
BY DEF IInv, Shapes, StateOne, Agree, WorkOk, RebuildOk, Active, Ids, Written, LoopOk

LEMMA NoRebuildIInv ==
  ASSUME IInv, UNCHANGED <<state, events, work, overlapped>>, rebuild' = None
  PROVE  IInv'
BY DEF IInv, Shapes, StateOne, Agree, WorkOk, RebuildOk, Active, Ids, Written, LoopOk

LEMMA DetectLoadIInv ==
  ASSUME IInv, NEW last, DetectLoad(last)
  PROVE  IInv'
<1> DEFINE rows == {s \in Unprocessed : s.id <= last.id}
<1> DEFINE loop == Loop(rows, state, Active(events))
<1> DEFINE batch == Ids(rows)
<1> DEFINE row == Ids(state)
<1> DEFINE known == Ids(loop.event)
<1>1. /\ work' = [loop |-> loop, batch |-> batch, row |-> row, known |-> known]
      /\ UNCHANGED <<state, events, rebuild, overlapped>>
  BY DEF DetectLoad, tables
<1> HIDE DEF rows, loop, batch, row, known
<1>2. /\ work'.loop = loop /\ work'.batch = batch /\ work'.row = row
      /\ work'.known = known
  BY <1>1
<1>3. Shapes'
  BY <1>1, <1>2 DEF IInv, Shapes
<1>4. ASSUME ~overlapped PROVE StateOne' /\ Agree' /\ RebuildOk'
  BY <1>1, <1>4 DEF IInv, StateOne, Agree, RebuildOk, Active, Ids, LoopOk
<1>5. ASSUME ~overlapped PROVE WorkOk'
  <2>1. LoopOk(loop) /\ Written(loop) = Active(events)
    BY <1>5, LoopStarts DEF IInv, loop
  <2> QED BY <1>1, <1>2, <2>1 DEF WorkOk, Active, Ids
<1> QED BY <1>1, <1>3, <1>4, <1>5 DEF IInv

LEMMA DetectJudgeIInv ==
  ASSUME IInv, DetectJudge
  PROVE  IInv'
<1>0. PICK s \in work.loop.todo : work' = [work EXCEPT !.loop = Judge(work.loop, s)]
  BY DEF DetectJudge
<1> DEFINE loop == Judge(work.loop, s)
<1>1. /\ work # None /\ work' = [work EXCEPT !.loop = loop]
      /\ UNCHANGED <<state, events, rebuild, overlapped>>
  BY <1>0 DEF DetectJudge, tables
<1> HIDE DEF loop
<1>2. work' = [loop |-> loop, batch |-> work.batch, row |-> work.row, known |-> work.known]
  BY <1>1 DEF IInv, Shapes
<1>3. /\ work'.loop = loop /\ work'.batch = work.batch /\ work'.row = work.row
      /\ work'.known = work.known
  BY <1>2
<1>4. Shapes'
  BY <1>1, <1>2, <1>3 DEF IInv, Shapes
<1>5. ASSUME ~overlapped PROVE StateOne' /\ Agree' /\ RebuildOk'
  BY <1>1, <1>5 DEF IInv, StateOne, Agree, RebuildOk, Active, Ids, LoopOk
<1>6. ASSUME ~overlapped PROVE WorkOk'
  <2>1. LoopOk(work.loop) /\ Ids(Active(events)) \subseteq Ids(Written(work.loop))
    BY <1>1, <1>6 DEF IInv, WorkOk
  <2>2. LoopOk(loop) /\ Ids(Written(work.loop)) \subseteq Ids(Written(loop))
    BY <2>1, JudgeOk DEF loop
  <2> QED BY <1>1, <1>3, <2>1, <2>2 DEF WorkOk, Active, Ids
<1> QED BY <1>1, <1>4, <1>5, <1>6 DEF IInv

LEMMA DetectCommitIInv ==
  ASSUME IInv, DetectCommit
  PROVE  IInv'
<1> DEFINE id == IF work.row = {} THEN stateIds + 1 ELSE CHOOSE i \in work.row : TRUE
<1> DEFINE kept == {e \in events : e.id \notin Ids(Written(work.loop))}
<1>1. /\ work # None /\ work' = None /\ rebuild' = rebuild
      /\ overlapped' = (overlapped \/ rebuild # None)
      /\ state' = {StateRow(id, work.loop)}
      /\ events' = kept \cup Written(work.loop)
  BY DEF DetectCommit
<1>2. Shapes'
  BY <1>1 DEF IInv, Shapes
<1>3. ASSUME ~overlapped' PROVE StateOne' /\ Agree' /\ WorkOk' /\ RebuildOk'
  <2>1. ~overlapped /\ rebuild = None
    BY <1>1, <1>3
  <2>2. LoopOk(work.loop) /\ Ids(Active(events)) \subseteq Ids(Written(work.loop))
    BY <1>1, <2>1 DEF IInv, WorkOk
  <2>3. Active(kept) = {}
    BY <2>2 DEF Active, Ids
  <2> HIDE DEF kept, id
  <2>4. StateOne' /\ Agree'
    BY <1>1, <2>2, <2>3, WrittenAgrees
  <2> QED BY <1>1, <2>1, <2>4 DEF WorkOk, RebuildOk
<1> QED BY <1>2, <1>3 DEF IInv

LEMMA RebuildDeleteIInv ==
  ASSUME IInv, NEW m, NEW heat, RebuildDelete(m, heat)
  PROVE  IInv'
<1>1. /\ rebuild'.events = Ids(events) /\ rebuild'.loop = None
      /\ UNCHANGED <<state, events, work, overlapped>>
  BY DEF RebuildDelete, tables, job
<1>2. rebuild' = [from |-> rebuild'.from, upto |-> rebuild'.upto, heat |-> rebuild'.heat,
                  fresh |-> rebuild'.fresh, gone |-> rebuild'.gone,
                  locked |-> rebuild'.locked, events |-> rebuild'.events,
                  row |-> rebuild'.row, loop |-> rebuild'.loop, judged |-> rebuild'.judged]
  BY DEF RebuildDelete
<1>3. Shapes'
  BY <1>1, <1>2 DEF IInv, Shapes
<1>4. ASSUME ~overlapped PROVE StateOne' /\ Agree' /\ WorkOk' /\ RebuildOk'
  BY <1>1, <1>4 DEF IInv, StateOne, Agree, WorkOk, RebuildOk, Active, Ids, Written, LoopOk
<1> QED BY <1>1, <1>3, <1>4 DEF IInv

LEMMA RebuildLoadIInv ==
  ASSUME IInv, RebuildLoad
  PROVE  IInv'
<1> DEFINE loop == Loop(RebuiltScores, {}, {})
<1> DEFINE row == Ids(state)
<1> DEFINE locked == Ids(scores)
<1>1. /\ rebuild # None
      /\ rebuild' = [rebuild EXCEPT !.row = row, !.locked = locked, !.loop = loop]
      /\ UNCHANGED <<state, events, work, overlapped>>
  BY DEF RebuildLoad, tables, job
<1>2. LoopOk(loop) /\ ~loop.active
  BY DEF Loop, LoopOk
<1>3. row = Ids(state)
  OBVIOUS
<1> HIDE DEF loop, row, locked
<1>4. rebuild' = [from |-> rebuild.from, upto |-> rebuild.upto, heat |-> rebuild.heat,
                  fresh |-> rebuild.fresh, gone |-> rebuild.gone,
                  locked |-> locked, events |-> rebuild.events,
                  row |-> row, loop |-> loop, judged |-> rebuild.judged]
  BY <1>1 DEF IInv, Shapes
<1>5. rebuild'.events = rebuild.events /\ rebuild'.loop = loop /\ rebuild'.row = row
  BY <1>4
<1>6. Shapes'
  BY <1>1, <1>4 DEF IInv, Shapes
<1>7. ASSUME ~overlapped PROVE StateOne' /\ Agree' /\ WorkOk'
  BY <1>1, <1>7 DEF IInv, StateOne, Agree, WorkOk, Active, Ids, Written, LoopOk
<1>8. ASSUME ~overlapped PROVE RebuildOk'
  BY <1>1, <1>2, <1>3, <1>5, <1>8 DEF IInv, RebuildOk, Ids
<1> QED BY <1>1, <1>6, <1>7, <1>8 DEF IInv

LEMMA RebuildJudgeIInv ==
  ASSUME IInv, RebuildJudge
  PROVE  IInv'
<1>0. PICK s \in rebuild.loop.todo :
        rebuild' = [rebuild EXCEPT !.loop = Judge(rebuild.loop, s), !.judged = TRUE]
  BY DEF RebuildJudge
<1> DEFINE loop == Judge(rebuild.loop, s)
<1>1. /\ rebuild # None /\ rebuild.loop # None
      /\ rebuild' = [rebuild EXCEPT !.loop = loop, !.judged = TRUE]
      /\ UNCHANGED <<state, events, work, overlapped>>
  BY <1>0 DEF RebuildJudge, tables, job
<1> HIDE DEF loop
<1>2. rebuild' = [from |-> rebuild.from, upto |-> rebuild.upto, heat |-> rebuild.heat,
                  fresh |-> rebuild.fresh, gone |-> rebuild.gone,
                  locked |-> rebuild.locked, events |-> rebuild.events,
                  row |-> rebuild.row, loop |-> loop, judged |-> TRUE]
  BY <1>1 DEF IInv, Shapes
<1>3. /\ rebuild'.events = rebuild.events /\ rebuild'.loop = loop
      /\ rebuild'.row = rebuild.row /\ rebuild'.judged
  BY <1>2
<1>4. Shapes'
  BY <1>1, <1>2 DEF IInv, Shapes
<1>5. ASSUME ~overlapped PROVE StateOne' /\ Agree' /\ WorkOk'
  BY <1>1, <1>5 DEF IInv, StateOne, Agree, WorkOk, Active, Ids, Written, LoopOk
<1>6. ASSUME ~overlapped PROVE RebuildOk'
  <2>1. /\ Ids(events) \subseteq rebuild.events /\ LoopOk(rebuild.loop)
        /\ Ids(state) = rebuild.row
    BY <1>1, <1>6 DEF IInv, RebuildOk
  <2>2. LoopOk(loop)
    BY <2>1, JudgeOk DEF loop
  <2> QED BY <1>1, <1>3, <2>1, <2>2 DEF RebuildOk, Ids
<1> QED BY <1>1, <1>4, <1>5, <1>6 DEF IInv

LEMMA RebuildCommitIInv ==
  ASSUME IInv, RebuildCommit
  PROVE  IInv'
<1>1. /\ rebuild # None /\ rebuild.loop # None /\ rebuild' = None /\ work' = work
      /\ overlapped' = (overlapped \/ at = "score" \/ work # None)
      /\ events' = KeptEvents \cup Written(rebuild.loop)
      /\ state' = IF rebuild.judged THEN {StateRow(stateIds + 1, rebuild.loop)}
                  ELSE {r \in state : r.id \notin rebuild.row}
  BY DEF RebuildCommit, RebuildDone, job
<1>2. Shapes'
  BY <1>1 DEF IInv, Shapes
<1>3. ASSUME ~overlapped' PROVE StateOne' /\ Agree' /\ WorkOk' /\ RebuildOk'
  <2>1. ~overlapped /\ work' = None
    BY <1>1, <1>3
  <2>2. /\ Ids(events) \subseteq rebuild.events /\ LoopOk(rebuild.loop)
        /\ Ids(state) = rebuild.row
        /\ ~rebuild.judged => ~rebuild.loop.active
    BY <1>1, <2>1 DEF IInv, RebuildOk
  <2>3. KeptEvents = {} /\ Active(KeptEvents) = {}
    BY <2>2 DEF KeptEvents, Ids, Active
  <2>4. StateOne' /\ Agree'
    <3>1. CASE rebuild.judged
      BY <1>1, <2>2, <2>3, <3>1, WrittenAgrees
    <3>2. CASE ~rebuild.judged
      <4>1. state' = {}
        BY <1>1, <2>2, <3>2 DEF Ids
      <4>2. Active(events)' = {}
        BY <1>1, <2>2, <2>3, <3>2 DEF Active, Written, LoopOk
      <4> QED BY <4>1, <4>2 DEF StateOne, Agree, Active
    <3> QED BY <3>1, <3>2
  <2> QED BY <1>1, <2>1, <2>4 DEF WorkOk, RebuildOk
<1> QED BY <1>2, <1>3 DEF IInv
-----------------------------------------------------------------------------
LEMMA InitIInv == Init => IInv
BY DEF Init, IInv, Shapes, StateOne, Agree, WorkOk, RebuildOk, Active

LEMMA JobIInv ==
  ASSUME IInv, JobStep
  PROVE  IInv'
<1>1. CASE \E last \in cursor + 1 .. Len(measurements) : ScoreRead(last)
  BY <1>1, OthersIInv DEF ScoreRead, tables
<1>2. CASE ScoreCommit
  BY <1>2, OthersIInv DEF ScoreCommit
<1>3. CASE ScoreNothing
  BY <1>3, OthersIInv DEF ScoreNothing, tables
<1>4. CASE DetectNothing
  BY <1>4, OthersIInv DEF DetectNothing, tables
<1>5. CASE DetectRollBack
  BY <1>5, NoWorkIInv DEF DetectRollBack, tables
<1>6. CASE AlertNothing
  BY <1>6, OthersIInv DEF AlertNothing, tables
<1>7. CASE AlertSend
  BY <1>7, OthersIInv DEF AlertSend, tables
<1>8. CASE AlertCommit
  BY <1>8, OthersIInv DEF AlertCommit
<1>9. CASE ScoreRollBack
  BY <1>9, OthersIInv DEF ScoreRollBack, tables
<1>10. CASE ScoreRaises
  BY <1>10, OthersIInv DEF ScoreRaises, tables
<1> QED
  BY <1>1, <1>2, <1>3, <1>4, <1>5, <1>6, <1>7, <1>8, <1>9, <1>10, DetectLoadIInv,
     DetectJudgeIInv, DetectCommitIInv DEF JobStep

LEMMA StepIInv ==
  ASSUME IInv, [Next]_vars
  PROVE  IInv'
<1>1. CASE \E heat \in Heat : Import(heat)
  BY <1>1, OthersIInv DEF Import, job
<1>2. CASE AlertFail
  BY <1>2, OthersIInv DEF AlertFail
<1>3. CASE Crash
  BY <1>3, NoWorkIInv DEF Crash, tables
<1>4. CASE \E m \in DOMAIN measurements, heat \in Heat : RebuildDelete(m, heat)
  BY <1>4, RebuildDeleteIInv
<1>5. CASE RebuildRollBack
  BY <1>5, NoRebuildIInv DEF RebuildRollBack, tables, job
<1>6. CASE RebuildAbort
  BY <1>6, NoRebuildIInv DEF RebuildAbort, tables, job
<1>7. CASE UNCHANGED vars
  BY <1>7, OthersIInv DEF vars, tables, job
<1>8. CASE ManualDetect
  BY <1>8, OthersIInv DEF ManualDetect, tables
<1> QED
  BY <1>1, <1>2, <1>3, <1>4, <1>5, <1>6, <1>7, <1>8, JobIInv, RebuildLoadIInv, RebuildJudgeIInv,
     RebuildCommitIInv DEF Next, RebuildStep

LEMMA SpecIInv == Spec => []IInv
BY InitIInv, StepIInv, PTL DEF Spec

\* Whatever scores come in whatever batches, and however often detections and
\* rebuilds end, fail or are killed: as long as the job did nothing beside an
\* open rebuild, an active state row has exactly one active event, the one that
\* started with it, and without one no event is active.
THEOREM SpecStateMatchesEvents == Spec => []StateMatchesEvents
<1>1. IInv => StateMatchesEvents
  BY DEF IInv, Agree, StateMatchesEvents
<1> QED BY <1>1, SpecIInv, PTL

-----------------------------------------------------------------------------
(***************************************************************************)
(* The greatest of a bounded set, new ids, and the rows that the scoring   *)
(* makes.                                                                  *)
(***************************************************************************)
LEMMA Smallest ==
  ASSUME NEW S \in SUBSET Nat, S # {}
  PROVE  \E n \in S : \A m \in S : n <= m
<1>1. PICK n \in S : \A m \in S : ~(<<m, n>> \in OpToRel(<, Nat))
  BY NatLessThanWellFounded, WFMin
<1>2. \A m \in S : ~(m < n)
  BY <1>1 DEF OpToRel
<1> QED BY <1>2

Bounded(S) == \E n \in Nat : \A i \in S : i \in 0 .. n

LEMMA MaxOf ==
  ASSUME NEW S, Bounded(S), S # {}
  PROVE  Max(S) \in S /\ Max(S) \in Nat /\ \A i \in S : i \in Nat /\ i <= Max(S)
<1> DEFINE U == {k \in Nat : \A i \in S : i <= k}
<1>0. PICK n \in Nat : \A i \in S : i \in 0 .. n
  BY DEF Bounded
<1>1. U \in SUBSET Nat /\ n \in U
  BY <1>0
<1>2. PICK k \in U : \A l \in U : k <= l
  BY <1>1, Smallest
<1>3. k \in S
  <2> SUFFICES ASSUME k \notin S PROVE FALSE
    OBVIOUS
  <2>1. PICK i \in S : TRUE
    OBVIOUS
  <2>2. \A j \in S : j \in Nat /\ j < k
    BY <1>0, <1>2
  <2>3. k - 1 \in U
    BY <2>1, <2>2, <1>2
  <2> QED BY <2>3, <1>2
<1>4. \A i \in S : i \in Nat /\ k >= i
  BY <1>0, <1>2
<1> DEFINE x == Max(S)
<1>5. x \in S /\ \A i \in S : x >= i
  BY <1>3, <1>4 DEF Max
<1> QED BY <1>4, <1>5

\* The id of an event that opens is greater than all that were there or are open.
LEMMA FreshId ==
  ASSUME Bounded(EventIds), NEW start, NEW m
  PROVE  /\ NewEvent(start, m).id \in Nat
         /\ \A i \in EventIds : i \in Nat /\ i < NewEvent(start, m).id
<1> DEFINE S == EventIds \cup {0}
<1>1. Bounded(S) /\ S # {}
  BY DEF Bounded
<1> HIDE DEF S
<1>2. Max(S) \in Nat /\ \A i \in S : i \in Nat /\ i <= Max(S)
  BY <1>1, MaxOf
<1>3. NewEvent(start, m).id = Max(S) + 1
  BY DEF NewEvent, S
<1>4. \A i \in EventIds : i \in S
  BY DEF S
<1> QED BY <1>2, <1>3, <1>4

\* The scoring makes one row for each measurement that counts, with new ids in
\* the order of the measurements.
LEMMA RowsOfMeasurements ==
  ASSUME scoreIds \in Nat, NEW ids \in SUBSET Nat, IsFiniteSet(ids), NEW heat,
         NEW rows, rows = ScoreRows(ids, heat)
  PROVE  /\ rows \subseteq ScoreRow /\ Cardinality(rows) \in Nat
         /\ \A s \in rows :
              /\ scoreIds < s.id /\ s.id <= scoreIds + Cardinality(rows)
              /\ s.m \in ids /\ heat[s.m] \notin Unscored /\ s.hot = (heat[s.m] = "hot")
              /\ ~s.processed
         /\ \A s, t \in rows : /\ s.id = t.id \/ s.m = t.m => s = t
                               /\ s.m < t.m => s.id < t.id
         /\ \A i \in ids : heat[i] \notin Unscored => \E s \in rows : s.m = i
<1> DEFINE due == {i \in ids : heat[i] \notin Unscored}
<1> DEFINE Upto(i) == {j \in due : j <= i}
<1> DEFINE Row(i) == [id |-> scoreIds + Cardinality(Upto(i)), m |-> i,
                      hot |-> heat[i] = "hot", processed |-> FALSE]
<1>0. rows = {Row(i) : i \in due}
  BY DEF ScoreRows
<1>1. due \subseteq Nat /\ IsFiniteSet(due) /\ Cardinality(due) \in Nat
  BY FS_Subset, FS_CardinalityType
<1>2. ASSUME NEW i \in due
      PROVE  Cardinality(Upto(i)) \in Nat /\ Cardinality(Upto(i)) > 0
             /\ Cardinality(Upto(i)) <= Cardinality(due)
  <2>1. Upto(i) \in SUBSET due /\ i \in Upto(i)
    BY <1>1
  <2>2. IsFiniteSet(Upto(i)) /\ Cardinality(Upto(i)) <= Cardinality(due)
    BY <1>1, <2>1, FS_Subset
  <2>3. Cardinality(Upto(i)) \in Nat /\ Cardinality(Upto(i)) # 0
    BY <2>1, <2>2, FS_CardinalityType, FS_EmptySet
  <2> QED BY <2>2, <2>3
<1>3. ASSUME NEW i \in due, NEW j \in due, i < j
      PROVE  Cardinality(Upto(i)) < Cardinality(Upto(j))
  <2>1. Upto(i) \in SUBSET Upto(j) /\ Upto(i) # Upto(j) /\ Upto(j) \in SUBSET due
    <3>1. j \in Upto(j) /\ j \notin Upto(i)
      BY <1>1, <1>3
    <3>2. Upto(i) \in SUBSET Upto(j)
      BY <1>1, <1>3
    <3> QED BY <3>1, <3>2
  <2>2. IsFiniteSet(Upto(j))
    BY <1>1, <2>1, FS_Subset
  <2>3. Cardinality(Upto(i)) <= Cardinality(Upto(j))
        /\ Cardinality(Upto(i)) # Cardinality(Upto(j))
    BY <2>1, <2>2, FS_Subset
  <2>4. Cardinality(Upto(i)) \in Nat /\ Cardinality(Upto(j)) \in Nat
    BY <1>2
  <2> HIDE DEF Upto, due
  <2> QED BY <2>3, <2>4
<1>4. ASSUME NEW i \in due
      PROVE  /\ Row(i) \in ScoreRow /\ Row(i).m = i
             /\ Row(i).id = scoreIds + Cardinality(Upto(i))
             /\ Row(i).hot = (heat[i] = "hot") /\ ~Row(i).processed
  BY <1>1, <1>2 DEF ScoreRow
<1>5. Cardinality(rows) = Cardinality(due)
  <2> DEFINE f == [i \in due |-> Row(i)]
  <2>1. f \in [due -> rows] /\ \A s \in rows : \E i \in due : f[i] = s
    BY <1>0
  <2>2. \A i, j \in due : f[i] = f[j] => i = j
    BY <1>4
  <2> HIDE DEF f
  <2>3. f \in Surjection(due, rows) /\ f \in Injection(due, rows)
    BY <2>1, <2>2 DEF Surjection, Injection, IsInjective
  <2> QED BY <2>3, <1>1, FS_Surjection
<1> HIDE DEF due, Upto, Row
<1>6. \A s \in rows : \E i \in due : s = Row(i)
  BY <1>0
<1>7. \A s, t \in rows : (s.id = t.id \/ s.m = t.m => s = t) /\ (s.m < t.m => s.id < t.id)
  <2> TAKE s, t \in rows
  <2>1. PICK i \in due, j \in due : s = Row(i) /\ t = Row(j)
    BY <1>6
  <2>2. i < j \/ i = j \/ j < i
    BY <1>1
  <2>3. /\ i < j => Cardinality(Upto(i)) < Cardinality(Upto(j))
        /\ j < i => Cardinality(Upto(j)) < Cardinality(Upto(i))
    BY <1>3
  <2>4. /\ s.m = i /\ s.id = scoreIds + Cardinality(Upto(i)) /\ Cardinality(Upto(i)) \in Nat
        /\ t.m = j /\ t.id = scoreIds + Cardinality(Upto(j)) /\ Cardinality(Upto(j)) \in Nat
        /\ i \in Nat /\ j \in Nat
    BY <2>1, <1>1, <1>2, <1>4
  <2>5. s.id = t.id \/ s.m = t.m => i = j
    BY <2>2, <2>3, <2>4
  <2>6. s.m < t.m => s.id < t.id
    BY <2>3, <2>4
  <2> QED BY <2>1, <2>5, <2>6
<1>8. \A i \in ids : heat[i] \notin Unscored => \E s \in rows : s.m = i
  <2> SUFFICES ASSUME NEW i \in ids, heat[i] \notin Unscored PROVE \E s \in rows : s.m = i
    OBVIOUS
  <2>1. i \in due
    BY DEF due
  <2>2. Row(i) \in rows
    BY <2>1, <1>0
  <2> QED BY <2>1, <2>2, <1>4
<1>9. \A s \in rows : /\ scoreIds < s.id /\ s.id <= scoreIds + Cardinality(rows)
                      /\ s.m \in ids /\ heat[s.m] \notin Unscored /\ s.hot = (heat[s.m] = "hot")
                      /\ ~s.processed
  <2> TAKE s \in rows
  <2>1. PICK i \in due : s = Row(i)
    BY <1>6
  <2>2. i \in ids /\ heat[i] \notin Unscored
    BY DEF due
  <2> QED BY <2>1, <2>2, <1>1, <1>2, <1>4, <1>5
<1> QED BY <1>1, <1>4, <1>5, <1>6, <1>7, <1>8, <1>9
-----------------------------------------------------------------------------
(***************************************************************************)
(* The shapes of everything.  A run that has started counts from a date,   *)
(* whatever has an id is bounded, and the sets that are counted or mailed  *)
(* are finite.                                                             *)
(***************************************************************************)
Pair == [event : Nat, kind : Kind]
StateType == [id : Nat, count : Nat, start : Nat \cup {None}, active : BOOLEAN]
LoopType ==
  [todo : SUBSET ScoreRow, count : Nat, start : Nat \cup {None}, active : BOOLEAN,
   event : SUBSET EventRow, closed : SUBSET EventRow, candidates : SUBSET Pair]

LoopTyped(w) ==
  /\ w \in LoopType
  /\ w.count > 0 => w.start \in Nat
  /\ IsFiniteSet(Written(w)) /\ IsFiniteSet(w.candidates)

WorkTyped ==
  /\ work \in [loop : LoopType, batch : SUBSET Nat, row : SUBSET Nat, known : SUBSET Nat]
  /\ LoopTyped(work.loop)
  /\ work.batch # {} /\ \A i \in work.batch : i <= scoreIds

RebuildTyped ==
  /\ rebuild \in [from : Nat, upto : Nat, heat : Heat, fresh : SUBSET ScoreRow,
                  gone : SUBSET Nat, locked : SUBSET Nat, events : SUBSET Nat,
                  row : SUBSET Nat, loop : LoopType \cup {None}, judged : BOOLEAN]
  /\ rebuild.from \in 1 .. rebuild.upto /\ rebuild.upto <= Len(measurements)
  /\ \A s \in rebuild.fresh : s.id <= scoreIds
  /\ rebuild.loop # None => LoopTyped(rebuild.loop)

TablesTyped ==
  /\ measurements \in Seq(Heat) /\ cursor \in 0 .. Len(measurements)
  /\ scores \subseteq ScoreRow /\ \A s \in scores : s.id <= scoreIds
  /\ engine \in Nat /\ scoreIds \in Nat /\ stateIds \in Nat
  /\ state \subseteq StateType /\ \A r \in state : r.count > 0 => r.start \in Nat
  /\ events \subseteq EventRow /\ IsFiniteSet(events)
  /\ deliveries \subseteq [event : Nat, kind : Kind, status : {"SENT", "FAILED"}]
  /\ DOMAIN mails \subseteq Pair /\ \A c \in DOMAIN mails : mails[c] \in Nat

ScoringTyped ==
  \E last \in cursor + 1 .. Len(measurements) :
    DOMAIN scoring = cursor + 1 .. last /\ \A i \in DOMAIN scoring : scoring[i] \in Heat

JobTyped ==
  /\ at \in {"idle", "score", "detect", "judge", "alert", "mailed"}
  /\ IF at = "score" THEN ScoringTyped ELSE scoring = None
  /\ IF at = "judge" THEN WorkTyped ELSE work = None
  /\ found \subseteq Pair /\ IsFiniteSet(found)

TypeInv ==
  /\ TablesTyped /\ JobTyped
  /\ rebuild # None => RebuildTyped
  /\ Bounded(EventIds)

-----------------------------------------------------------------------------
LEMMA RowTyped ==
  ASSUME NEW i \in Nat, NEW start \in Nat, NEW m \in Nat, NEW active \in BOOLEAN
  PROVE  /\ Duration(start, m) \in Nat
         /\ [id |-> i, start |-> start, duration |-> Duration(start, m), active |-> active]
              \in EventRow
<1>1. Duration(start, m) \in Nat
  BY DEF Duration
<1> QED BY <1>1 DEF EventRow

LEMMA UpdatedTyped ==
  ASSUME NEW event \in SUBSET EventRow, IsFiniteSet(event), NEW m \in Nat, NEW active \in BOOLEAN
  PROVE  /\ Updated(event, m, active) \subseteq EventRow /\ IsFiniteSet(Updated(event, m, active))
         /\ Ids(Updated(event, m, active)) = Ids(event)
<1> DEFINE Of(e) == [id |-> e.id, start |-> e.start, duration |-> Duration(e.start, m),
                     active |-> active]
<1>1. Updated(event, m, active) = {Of(e) : e \in event}
  BY DEF Updated
<1>2. \A e \in event : Of(e) \in EventRow /\ Of(e).id = e.id
  BY DEF EventRow, Duration
<1>3. IsFiniteSet(Updated(event, m, active))
  <2> DEFINE f == [e \in event |-> Of(e)]
  <2>1. f \in [event -> Updated(event, m, active)]
        /\ \A u \in Updated(event, m, active) : \E e \in event : f[e] = u
    BY <1>1
  <2> HIDE DEF f
  <2>2. f \in Surjection(event, Updated(event, m, active))
    BY <2>1 DEF Surjection
  <2> QED BY <2>2, FS_Surjection
<1> HIDE DEF Of
<1>4. Ids(Updated(event, m, active)) = Ids(event)
  BY <1>1, <1>2 DEF Ids
<1> QED BY <1>1, <1>2, <1>3, <1>4

LEMMA CandidatesTyped ==
  ASSUME NEW w, LoopTyped(w), NEW event \in SUBSET EventRow, IsFiniteSet(event), NEW kind \in Kind
  PROVE  /\ Candidates(w, event, kind) \subseteq Pair
         /\ IsFiniteSet(Candidates(w, event, kind))
<1> DEFINE Of(e) == [event |-> e.id, kind |-> kind]
<1> DEFINE mine == {Of(e) : e \in event}
<1> DEFINE others == {c \in w.candidates : event # {} => c.kind # kind}
<1>1. Candidates(w, event, kind) = others \cup mine
  BY DEF Candidates
<1>2. mine \subseteq Pair
  BY DEF Pair, EventRow
<1>3. others \subseteq Pair /\ IsFiniteSet(others)
  BY FS_Subset DEF LoopTyped, LoopType
<1>4. IsFiniteSet(mine)
  <2> DEFINE f == [e \in event |-> Of(e)]
  <2>1. f \in [event -> mine] /\ \A u \in mine : \E e \in event : f[e] = u
    OBVIOUS
  <2> HIDE DEF f, mine
  <2>2. f \in Surjection(event, mine)
    BY <2>1 DEF Surjection
  <2> QED BY <2>2, FS_Surjection
<1> HIDE DEF mine, others
<1> QED BY <1>1, <1>2, <1>3, <1>4, FS_Union

\* A loop that is typed stays so, and an id that a step adds to what it writes is
\* greater than all.
LEMMA JudgeTyped ==
  ASSUME NEW w, LoopTyped(w), NEW s \in ScoreRow, Bounded(EventIds)
  PROVE  /\ LoopTyped(Judge(w, s))
         /\ \E n \in Nat : /\ \A j \in EventIds : j \in Nat /\ j < n
                          /\ Ids(Written(Judge(w, s))) \subseteq Ids(Written(w)) \cup {n}
<1> DEFINE v == Judge(w, s)
<1> DEFINE m == s.m
<1>0. /\ w \in LoopType /\ (w.count > 0 => w.start \in Nat) /\ IsFiniteSet(w.candidates)
      /\ w.event \in SUBSET EventRow /\ w.closed \in SUBSET EventRow
      /\ IsFiniteSet(w.event) /\ IsFiniteSet(w.closed)
  <2>1. w \in LoopType /\ (w.count > 0 => w.start \in Nat) /\ IsFiniteSet(w.candidates)
        /\ IsFiniteSet(Written(w))
    BY DEF LoopTyped
  <2>2. w.event \in SUBSET Written(w) /\ w.closed \in SUBSET Written(w)
    BY DEF Written
  <2>3. IsFiniteSet(w.event) /\ IsFiniteSet(w.closed)
    BY <2>1, <2>2, FS_Subset
  <2> QED BY <2>1, <2>3 DEF LoopType
<1>1. m \in Nat
  BY DEF ScoreRow
<1>2. CASE s.hot
  <2> DEFINE start == IF w.count = 0 THEN m ELSE w.start
  <2> DEFINE new == NewEvent(start, m)
  <2>0. start \in Nat
    BY <1>0, <1>1 DEF LoopType
  <2>1. /\ v.todo = w.todo \ {s} /\ v.count = w.count + 1 /\ v.start = start
        /\ v.active = (w.active \/ Opens(w)) /\ v.closed = w.closed
        /\ v.event = IF Opens(w) THEN {new} ELSE IF w.active THEN Updated(w.event, m, TRUE) ELSE w.event
        /\ v.candidates = IF w.active \/ Opens(w) THEN Candidates(w, v.event, "ACTIVE")
                          ELSE w.candidates
        /\ v = [todo |-> v.todo, count |-> v.count, start |-> v.start, active |-> v.active,
                event |-> v.event, closed |-> v.closed, candidates |-> v.candidates]
    BY <1>2 DEF Judge, JudgeHot
  <2>2. new.id \in Nat /\ new \in EventRow /\ \A j \in EventIds : j \in Nat /\ j < new.id
    <3>1. new = [id |-> new.id, start |-> start, duration |-> Duration(start, m), active |-> TRUE]
      BY DEF NewEvent
    <3>2. new.id \in Nat /\ \A j \in EventIds : j \in Nat /\ j < new.id
      BY FreshId
    <3> HIDE DEF new
    <3>3. new \in EventRow
      BY <3>1, <3>2, <2>0, <1>1, RowTyped
    <3> QED BY <3>2, <3>3
  <2> HIDE DEF v, new, m, start
  <2>3. v.event \in SUBSET EventRow /\ IsFiniteSet(v.event)
    <3>1. CASE Opens(w)
      <4>1. v.event = {new}
        BY <2>1, <3>1
      <4> QED BY <4>1, <2>2, FS_Singleton
    <3>2. CASE ~Opens(w) /\ w.active
      <4>1. v.event = Updated(w.event, m, TRUE)
        BY <2>1, <3>2
      <4> QED BY <4>1, <1>0, <1>1, UpdatedTyped
    <3>3. CASE ~Opens(w) /\ ~w.active
      <4>1. v.event = w.event
        BY <2>1, <3>3
      <4> QED BY <4>1, <1>0
    <3> QED BY <3>1, <3>2, <3>3
  <2>4. v.candidates \in SUBSET Pair /\ IsFiniteSet(v.candidates)
    <3>1. w.candidates \in SUBSET Pair /\ "ACTIVE" \in Kind
      BY <1>0 DEF LoopType, Kind
    <3>2. Candidates(w, v.event, "ACTIVE") \in SUBSET Pair
          /\ IsFiniteSet(Candidates(w, v.event, "ACTIVE"))
      BY <2>3, <3>1, CandidatesTyped
    <3>3. CASE w.active \/ Opens(w)
      <4>1. v.candidates = Candidates(w, v.event, "ACTIVE")
        BY <2>1, <3>3
      <4> QED BY <4>1, <3>2
    <3>4. CASE ~(w.active \/ Opens(w))
      <4>1. v.candidates = w.candidates
        BY <2>1, <3>4
      <4> QED BY <4>1, <3>1, <1>0
    <3> QED BY <3>3, <3>4
  <2>5. IsFiniteSet(Written(v))
    BY <2>1, <2>3, <1>0, FS_Union DEF Written
  <2>6. v \in LoopType /\ v.start \in Nat
    <3>1. /\ v.todo \in SUBSET ScoreRow /\ v.count \in Nat /\ v.start \in Nat
          /\ v.active \in BOOLEAN /\ v.closed \in SUBSET EventRow
      BY <2>0, <2>1, <1>0 DEF LoopType, Opens
    <3> QED BY <3>1, <2>1, <2>3, <2>4 DEF LoopType
  <2>7. Ids(Written(v)) \subseteq Ids(Written(w)) \cup {new.id}
    <3>1. CASE Opens(w)
      BY <3>1, <2>1 DEF Ids, Written
    <3>2. CASE ~Opens(w)
      <4>1. Ids(v.event) = Ids(w.event)
        BY <3>2, <2>1, <1>0, <1>1, UpdatedTyped
      <4>2. \A e \in v.event : \E f \in w.event : f.id = e.id
        BY <4>1 DEF Ids
      <4>3. v.closed = w.closed
        BY <2>1
      <4> QED BY <4>2, <4>3 DEF Ids, Written
    <3> QED BY <3>1, <3>2
  <2>8. LoopTyped(v)
    BY <2>4, <2>5, <2>6 DEF LoopTyped
  <2> QED BY <2>2, <2>7, <2>8 DEF v
<1>3. CASE ~s.hot
  <2> DEFINE ended == IF w.active THEN Updated(w.event, m, FALSE) ELSE {}
  <2>1. /\ v.todo = w.todo \ {s} /\ v.count = 0 /\ v.start = None
        /\ v.active = FALSE /\ v.closed = w.closed \cup ended
        /\ v.event = IF w.active THEN {} ELSE w.event
        /\ v.candidates = Candidates(w, ended, "RESOLVED")
        /\ v = [todo |-> v.todo, count |-> v.count, start |-> v.start, active |-> v.active,
                event |-> v.event, closed |-> v.closed, candidates |-> v.candidates]
    BY <1>3 DEF Judge, JudgeCold
  <2>2. /\ ended \in SUBSET EventRow /\ IsFiniteSet(ended)
        /\ w.active => Ids(ended) = Ids(w.event)
    BY <1>0, <1>1, UpdatedTyped, FS_EmptySet
  <2>3. w.active \/ ended = {}
    OBVIOUS
  <2> HIDE DEF v, ended, m
  <2>4. v.candidates \in SUBSET Pair /\ IsFiniteSet(v.candidates)
    BY <2>1, <2>2, <1>0, CandidatesTyped DEF Kind
  <2>5. v.event \in SUBSET EventRow /\ IsFiniteSet(v.event) /\ IsFiniteSet(v.closed)
    <3>1. v.event = {} \/ v.event = w.event
      BY <2>1
    <3>2. IsFiniteSet(w.closed \cup ended) /\ v.closed = w.closed \cup ended
      BY <2>1, <2>2, <1>0, FS_Union
    <3> QED BY <3>1, <3>2, <1>0, FS_EmptySet
  <2>6. IsFiniteSet(Written(v))
    BY <2>5, FS_Union DEF Written
  <2>7. v \in LoopType /\ v.count = 0
    <3>1. /\ v.todo \in SUBSET ScoreRow /\ v.count \in Nat /\ v.start \in Nat \cup {None}
          /\ v.active \in BOOLEAN /\ v.closed \in SUBSET EventRow
      <4>1. w.closed \cup ended \in SUBSET EventRow
        BY <2>2, <1>0
      <4>2. w.todo \ {s} \in SUBSET ScoreRow
        BY <1>0 DEF LoopType
      <4>3. v.todo = w.todo \ {s} /\ v.closed = w.closed \cup ended
        BY <2>1
      <4>4. v.count = 0 /\ v.start = None /\ v.active = FALSE
        BY <2>1
      <4>5. v.count \in Nat /\ v.start \in Nat \cup {None}
        BY <4>4
      <4>6. v.active \in BOOLEAN
        BY <4>4, Zenon
      <4> QED BY <4>1, <4>2, <4>3, <4>5, <4>6
    <3>2. v = [todo |-> v.todo, count |-> v.count, start |-> v.start, active |-> v.active,
               event |-> v.event, closed |-> v.closed, candidates |-> v.candidates]
          /\ v.count = 0
      BY <2>1
    <3>3. v.event \in SUBSET EventRow /\ v.candidates \in SUBSET Pair
      BY <2>4, <2>5
    <3> QED BY <3>1, <3>2, <3>3 DEF LoopType
  <2>8. LoopTyped(v)
    BY <2>4, <2>6, <2>7 DEF LoopTyped
  <2>9. Ids(Written(v)) \subseteq Ids(Written(w))
    BY <2>1, <2>2, <2>3 DEF Ids, Written
  <2>10. NewEvent(0, 0).id \in Nat /\ \A j \in EventIds : j \in Nat /\ j < NewEvent(0, 0).id
    BY FreshId
  <2> QED BY <2>8, <2>9, <2>10 DEF v
<1> QED BY <1>2, <1>3

LEMMA LoopStartTyped ==
  ASSUME NEW rows \in SUBSET ScoreRow, NEW row \in SUBSET StateType,
         \A r \in row : r.count > 0 => r.start \in Nat,
         NEW active \in SUBSET EventRow, IsFiniteSet(active)
  PROVE  /\ LoopTyped(Loop(rows, row, active))
         /\ Written(Loop(rows, row, active)) \subseteq active
<1> DEFINE w == Loop(rows, row, active)
<1> DEFINE known == CHOOSE r \in row : TRUE
<1>1. /\ w.todo = rows /\ w.closed = {} /\ w.candidates = {}
      /\ w.event \in SUBSET active
      /\ w.count = IF row = {} THEN 0 ELSE known.count
      /\ w.start = IF row = {} THEN None ELSE known.start
      /\ w.active = IF row = {} THEN FALSE ELSE known.active
      /\ w = [todo |-> w.todo, count |-> w.count, start |-> w.start, active |-> w.active,
              event |-> w.event, closed |-> w.closed, candidates |-> w.candidates]
  BY DEF Loop
<1>2. row = {} \/ known \in row
  OBVIOUS
<1> HIDE DEF w, known
<1>3. /\ w.count \in Nat /\ w.start \in Nat \cup {None} /\ w.active \in BOOLEAN
      /\ w.count > 0 => w.start \in Nat
  <2>1. CASE row = {}
    BY <2>1, <1>1
  <2>2. CASE row # {}
    <3>1. known \in StateType /\ (known.count > 0 => known.start \in Nat)
      BY <2>2, <1>2
    <3>2. w.count = known.count /\ w.start = known.start /\ w.active = known.active
      BY <2>2, <1>1
    <3> QED BY <3>1, <3>2 DEF StateType
  <2> QED BY <2>1, <2>2
<1>4. w \in LoopType
  BY <1>1, <1>3 DEF LoopType
<1>5. Written(w) \subseteq active
  BY <1>1 DEF Written
<1>6. IsFiniteSet(Written(w)) /\ IsFiniteSet(w.candidates)
  BY <1>1, <1>5, FS_Subset, FS_EmptySet
<1> QED BY <1>3, <1>4, <1>5, <1>6 DEF LoopTyped, w

-----------------------------------------------------------------------------
LEMMA TablesStay ==
  ASSUME TablesTyped, UNCHANGED <<tables, sequences, mails>>
  PROVE  TablesTyped'
BY DEF TablesTyped, tables, sequences

LEMMA WorkStays ==
  ASSUME WorkTyped, work' = work, scoreIds \in Nat, scoreIds' \in Nat, scoreIds <= scoreIds'
  PROVE  WorkTyped'
<1>1. work'.loop = work.loop /\ work'.batch = work.batch
  OBVIOUS
<1>2. \A i \in work.batch : i \in Nat
  BY DEF WorkTyped
<1> QED BY <1>1, <1>2 DEF WorkTyped

LEMMA RebuildStays ==
  ASSUME rebuild # None => RebuildTyped, rebuild' = rebuild,
         Len(measurements) \in Nat, Len(measurements') \in Nat,
         Len(measurements) <= Len(measurements'),
         scoreIds \in Nat, scoreIds' \in Nat, scoreIds <= scoreIds'
  PROVE  (rebuild # None => RebuildTyped)'
<1> SUFFICES ASSUME rebuild # None PROVE RebuildTyped'
  OBVIOUS
<1>1. /\ rebuild'.fresh = rebuild.fresh /\ rebuild'.loop = rebuild.loop
      /\ rebuild'.from = rebuild.from /\ rebuild'.upto = rebuild.upto
  OBVIOUS
<1>2. \A s \in rebuild.fresh : s.id \in Nat
  BY DEF RebuildTyped, ScoreRow
<1>3. rebuild.upto \in Nat
  BY DEF RebuildTyped
<1> QED BY <1>1, <1>2, <1>3 DEF RebuildTyped

LEMMA IdsStay ==
  ASSUME Bounded(EventIds), EventIds' \subseteq EventIds
  PROVE  Bounded(EventIds)'
BY DEF Bounded

\* Ids that a step may add: one that is greater than all.
LEMMA IdAdded ==
  ASSUME Bounded(EventIds), NEW n \in Nat, EventIds' \subseteq EventIds \cup {n},
         \A j \in EventIds : j \in Nat /\ j < n
  PROVE  Bounded(EventIds)'
BY DEF Bounded

LEMMA ImportTyped ==
  ASSUME TypeInv, NEW heat \in Heat, Import(heat)
  PROVE  TypeInv'
<1>1. /\ at = "idle" /\ at' = at /\ measurements' = Append(measurements, heat)
      /\ UNCHANGED <<cursor, scores, engine, state, events, deliveries, sequences,
                     scoring, work, found, rebuild, mails>>
  BY DEF Import, job
<1>2. measurements \in Seq(Heat) /\ cursor \in 0 .. Len(measurements)
  BY DEF TypeInv, TablesTyped
<1>3. measurements' \in Seq(Heat) /\ Len(measurements') = Len(measurements) + 1
  BY <1>1, <1>2
<1>4. cursor' \in 0 .. Len(measurements') /\ Len(measurements) \in Nat
  BY <1>1, <1>2, <1>3
<1>5. TablesTyped'
  BY <1>1, <1>3, <1>4 DEF TypeInv, TablesTyped, sequences
<1>6. JobTyped'
  BY <1>1 DEF TypeInv, JobTyped
<1>7. (rebuild # None => RebuildTyped)'
  BY <1>1, <1>3, <1>4, RebuildStays DEF TypeInv, TablesTyped, sequences
<1>8. Bounded(EventIds)'
  BY <1>1, IdsStay DEF TypeInv, EventIds, WorkIds, RebuildIds
<1> QED BY <1>5, <1>6, <1>7, <1>8 DEF TypeInv

\* The steps of the job that change nothing but where it is.
LEMMA JobMoves ==
  ASSUME TypeInv, UNCHANGED <<tables, sequences, rebuild, mails>>, JobTyped',
         EventIds' \subseteq EventIds
  PROVE  TypeInv'
<1>1. TablesTyped'
  BY TablesStay DEF TypeInv
<1>2. (rebuild # None => RebuildTyped)'
  BY DEF TypeInv, TablesTyped, RebuildTyped, tables, sequences
<1>3. Bounded(EventIds)'
  BY IdsStay DEF TypeInv
<1> QED BY <1>1, <1>2, <1>3 DEF TypeInv

LEMMA ScoreReadTyped ==
  ASSUME TypeInv, NEW last \in cursor + 1 .. Len(measurements), ScoreRead(last)
  PROVE  TypeInv'
<1>1. /\ scoring' = [i \in cursor + 1 .. last |-> measurements[i]] /\ at = "idle" /\ at' = "score"
      /\ UNCHANGED <<tables, sequences, work, found, rebuild, mails>>
  BY DEF ScoreRead
<1>2. measurements \in Seq(Heat) /\ cursor \in 0 .. Len(measurements)
      /\ measurements' = measurements /\ cursor' = cursor
  BY <1>1 DEF TypeInv, TablesTyped, tables
<1>3. \A i \in cursor + 1 .. last : measurements[i] \in Heat
  BY <1>2
<1>4. ScoringTyped'
  BY <1>1, <1>2, <1>3 DEF ScoringTyped
<1>5. JobTyped'
  BY <1>1, <1>4 DEF TypeInv, JobTyped
<1>6. EventIds' \subseteq EventIds
  BY <1>1 DEF EventIds, WorkIds, RebuildIds, tables
<1> QED BY <1>1, <1>5, <1>6, JobMoves

LEMMA ScoreCommitTyped ==
  ASSUME TypeInv, ScoreCommit
  PROVE  TypeInv'
<1> DEFINE fresh == DOMAIN scoring \ {s.m : s \in scores}
<1> DEFINE rows == ScoreRows(fresh, scoring)
<1>1. /\ at = "score" /\ at' \in {"idle", "detect"} /\ scoring' = None
      /\ cursor' = Max(DOMAIN scoring)
      /\ scores' = scores \cup rows /\ scoreIds' = scoreIds + Cardinality(rows)
      /\ UNCHANGED <<measurements, engine, state, events, deliveries, stateIds, work, found,
                     rebuild, mails>>
  BY DEF ScoreCommit
<1>2. /\ measurements \in Seq(Heat) /\ cursor \in 0 .. Len(measurements)
      /\ scoreIds \in Nat /\ Len(measurements) \in Nat
  BY DEF TypeInv, TablesTyped
<1>3. PICK last \in cursor + 1 .. Len(measurements) : DOMAIN scoring = cursor + 1 .. last
  BY <1>1 DEF TypeInv, JobTyped, ScoringTyped
<1>4. fresh \in SUBSET Nat /\ IsFiniteSet(fresh)
  <2>1. fresh \in SUBSET (cursor + 1 .. last)
    BY <1>3
  <2>2. IsFiniteSet(cursor + 1 .. last)
    BY <1>2, <1>3, FS_Interval
  <2> QED BY <1>2, <1>3, <2>1, <2>2, FS_Subset
<1>5. /\ rows \subseteq ScoreRow /\ Cardinality(rows) \in Nat
      /\ \A s \in rows : s.id <= scoreIds + Cardinality(rows)
  <2> HIDE DEF fresh
  <2>1. rows = ScoreRows(fresh, scoring)
    OBVIOUS
  <2> HIDE DEF rows
  <2> QED BY <2>1, <1>2, <1>4, RowsOfMeasurements
<1>6. cursor' \in 0 .. Len(measurements)
  <2> DEFINE D == cursor + 1 .. last
  <2>1. last \in D /\ last \in Nat /\ Bounded(D)
    <3>1. \A i \in D : i \in 0 .. last
      BY <1>2, <1>3
    <3>2. last \in D /\ last \in Nat
      BY <1>2, <1>3
    <3> HIDE DEF D
    <3> QED BY <3>1, <3>2 DEF Bounded
  <2> HIDE DEF D
  <2>2. Max(D) \in D
    BY <2>1, MaxOf
  <2> QED BY <2>2, <1>1, <1>2, <1>3 DEF D
<1> HIDE DEF rows, fresh
<1>7. scoreIds' \in Nat /\ scoreIds <= scoreIds'
  BY <1>1, <1>2, <1>5
<1>8. TablesTyped'
  <2>1. \A s \in scores : s.id \in Nat /\ s.id <= scoreIds
    BY DEF TypeInv, TablesTyped, ScoreRow
  <2>2. \A s \in scores' : s.id <= scoreIds'
    BY <1>1, <1>2, <1>5, <1>7, <2>1
  <2> QED BY <1>1, <1>2, <1>5, <1>6, <1>7, <2>2 DEF TypeInv, TablesTyped
<1>9. JobTyped'
  BY <1>1 DEF TypeInv, JobTyped
<1>10. (rebuild # None => RebuildTyped)'
  BY <1>1, <1>2, <1>7, RebuildStays DEF TypeInv
<1>11. Bounded(EventIds)'
  BY <1>1, IdsStay DEF TypeInv, EventIds, WorkIds, RebuildIds
<1> QED BY <1>8, <1>9, <1>10, <1>11 DEF TypeInv

LEMMA DetectLoadTyped ==
  ASSUME TypeInv, NEW last \in Unprocessed, DetectLoad(last)
  PROVE  TypeInv'
<1> DEFINE rows == {s \in Unprocessed : s.id <= last.id}
<1> DEFINE loop == Loop(rows, state, Active(events))
<1> DEFINE batch == Ids(rows)
<1> DEFINE row == Ids(state)
<1> DEFINE known == Ids(loop.event)
<1>1. /\ at = "detect" /\ at' = "judge"
      /\ work' = [loop |-> loop, batch |-> batch, row |-> row, known |-> known]
      /\ UNCHANGED <<tables, sequences, scoring, found, rebuild, mails>>
  BY DEF DetectLoad
<1>2. /\ scores \subseteq ScoreRow /\ \A s \in scores : s.id <= scoreIds
      /\ state \in SUBSET StateType /\ \A r \in state : r.count > 0 => r.start \in Nat
      /\ events \subseteq EventRow /\ IsFiniteSet(events)
  BY DEF TypeInv, TablesTyped
<1>3. rows \in SUBSET scores /\ last \in rows
  BY <1>2 DEF Unprocessed, ScoreRow
<1>4. Active(events) \in SUBSET EventRow /\ IsFiniteSet(Active(events))
  BY <1>2, FS_Subset DEF Active
<1>5. LoopTyped(loop) /\ Written(loop) \subseteq Active(events)
  <2> HIDE DEF rows
  <2>1. rows \in SUBSET ScoreRow
    BY <1>2, <1>3
  <2> QED BY <2>1, <1>2, <1>4, LoopStartTyped
<1>6. batch # {} /\ batch \in SUBSET Nat /\ \A i \in batch : i <= scoreIds
  <2> HIDE DEF rows
  <2> QED BY <1>2, <1>3 DEF Ids, ScoreRow
<1>7. row \in SUBSET Nat
  BY <1>2 DEF Ids, StateType
<1>8. loop \in LoopType /\ known \in SUBSET Nat
  <2> HIDE DEF loop
  <2>1. loop \in LoopType
    BY <1>5 DEF LoopTyped
  <2> QED BY <2>1 DEF LoopType, Ids, EventRow
<1> HIDE DEF rows, loop, batch, row, known
<1>9. /\ work'.loop = loop /\ work'.batch = batch /\ scoreIds' = scoreIds
      /\ work' \in [loop : LoopType, batch : SUBSET Nat, row : SUBSET Nat, known : SUBSET Nat]
  BY <1>1, <1>6, <1>7, <1>8 DEF sequences
<1>10. WorkTyped'
  BY <1>5, <1>6, <1>9 DEF WorkTyped
<1>11. JobTyped'
  BY <1>1, <1>10 DEF TypeInv, JobTyped
<1>12. EventIds' \subseteq EventIds
  <2>1. \A i \in Ids(Written(loop)) : i \in Ids(events)
    BY <1>5 DEF Ids, Active
  <2>2. WorkIds' \subseteq Ids(events)
    BY <1>9, <2>1 DEF WorkIds
  <2>3. RebuildIds' = RebuildIds /\ events' = events /\ mails' = mails
    BY <1>1 DEF RebuildIds, tables
  <2> QED BY <2>2, <2>3 DEF EventIds
<1> QED BY <1>1, <1>11, <1>12, JobMoves

LEMMA DetectJudgeTyped ==
  ASSUME TypeInv, DetectJudge
  PROVE  TypeInv'
<1>1. PICK s \in work.loop.todo : work' = [work EXCEPT !.loop = Judge(work.loop, s)]
  BY DEF DetectJudge
<1> DEFINE loop == Judge(work.loop, s)
<1>2. /\ at = "judge" /\ at' = "judge" /\ work # None
      /\ UNCHANGED <<tables, sequences, scoring, found, rebuild, mails>>
  BY DEF DetectJudge
<1>3. WorkTyped
  BY <1>2 DEF TypeInv, JobTyped
<1>4. s \in ScoreRow /\ LoopTyped(work.loop)
  BY <1>3 DEF WorkTyped, LoopTyped, LoopType
<1>5. /\ LoopTyped(loop)
      /\ \E n \in Nat : /\ \A j \in EventIds : j \in Nat /\ j < n
                        /\ Ids(Written(loop)) \subseteq Ids(Written(work.loop)) \cup {n}
  BY <1>4, JudgeTyped DEF TypeInv
<1> HIDE DEF loop
<1>6. loop \in LoopType
  BY <1>5 DEF LoopTyped
<1>7. /\ work' \in [loop : LoopType, batch : SUBSET Nat, row : SUBSET Nat, known : SUBSET Nat]
      /\ work'.loop = loop /\ work'.batch = work.batch /\ scoreIds' = scoreIds
  BY <1>1, <1>2, <1>3, <1>6 DEF WorkTyped, sequences, loop
<1>8. WorkTyped'
  BY <1>3, <1>5, <1>7 DEF WorkTyped
<1>9. JobTyped'
  BY <1>2, <1>8 DEF TypeInv, JobTyped
<1>10. TablesTyped'
  BY <1>2, TablesStay DEF TypeInv
<1>11. (rebuild # None => RebuildTyped)'
  BY <1>2 DEF TypeInv, TablesTyped, RebuildTyped, tables, sequences
<1>12. Bounded(EventIds)'
  <2>1. PICK n \in Nat : /\ \A j \in EventIds : j \in Nat /\ j < n
                         /\ Ids(Written(loop)) \subseteq Ids(Written(work.loop)) \cup {n}
    BY <1>5
  <2>2. WorkIds' \subseteq WorkIds \cup {n}
    BY <1>2, <1>7, <2>1 DEF WorkIds
  <2>3. RebuildIds' = RebuildIds /\ events' = events /\ mails' = mails
    BY <1>2 DEF RebuildIds, tables
  <2>4. EventIds' \subseteq EventIds \cup {n}
    BY <2>2, <2>3 DEF EventIds
  <2> QED BY <2>1, <2>4, IdAdded DEF TypeInv
<1> QED BY <1>9, <1>10, <1>11, <1>12 DEF TypeInv

LEMMA DetectCommitTyped ==
  ASSUME TypeInv, DetectCommit
  PROVE  TypeInv'
<1> DEFINE w == work.loop
<1> DEFINE id == IF work.row = {} THEN stateIds + 1 ELSE CHOOSE i \in work.row : TRUE
<1> DEFINE kept == {e \in events : e.id \notin Ids(Written(w))}
<1>1. /\ at = "judge" /\ at' \in {"idle", "alert"} /\ work # None /\ work' = None
      /\ events' = kept \cup Written(w) /\ state' = {StateRow(id, w)}
      /\ stateIds' = IF work.row = {} THEN id ELSE stateIds
      /\ engine' = Max(work.batch) /\ found' \in {{}, w.candidates}
      /\ UNCHANGED <<measurements, cursor, deliveries, scoreIds, scoring, rebuild, mails>>
  BY DEF DetectCommit
<1>2. scores' = {[s EXCEPT !.processed = s.processed \/ s.id \in work.batch \/ s.id <= engine] :
                 s \in scores}
  BY DEF DetectCommit
<1>3. WorkTyped /\ TablesTyped
  BY <1>1 DEF TypeInv, JobTyped
<1>4. /\ LoopTyped(w) /\ w \in LoopType /\ Written(w) \in SUBSET EventRow
      /\ IsFiniteSet(Written(w)) /\ w.candidates \subseteq Pair /\ IsFiniteSet(w.candidates)
  BY <1>3 DEF WorkTyped, LoopTyped, LoopType, Written
<1>5. id \in Nat /\ stateIds' \in Nat
  BY <1>1, <1>3 DEF WorkTyped, TablesTyped
<1>6. engine' \in Nat
  <2>1. scoreIds \in Nat /\ work.batch # {} /\ \A i \in work.batch : i \in 0 .. scoreIds
    BY <1>3 DEF WorkTyped, TablesTyped
  <2>2. Bounded(work.batch)
    BY <2>1 DEF Bounded
  <2> QED BY <2>1, <2>2, <1>1, MaxOf
<1>7. scores' \subseteq ScoreRow /\ \A s \in scores' : s.id <= scoreIds'
  <2> SUFFICES ASSUME NEW t \in scores' PROVE t \in ScoreRow /\ t.id <= scoreIds
    BY <1>1
  <2>1. PICK s \in scores :
          t = [s EXCEPT !.processed = s.processed \/ s.id \in work.batch \/ s.id <= engine]
    BY <1>2
  <2>2. s \in ScoreRow /\ s.id <= scoreIds
    BY <1>3 DEF TablesTyped
  <2> QED BY <2>1, <2>2 DEF ScoreRow
<1> HIDE DEF w, id
<1>8. state' \subseteq StateType /\ \A r \in state' : r.count > 0 => r.start \in Nat
  BY <1>1, <1>4, <1>5 DEF StateRow, StateType, LoopTyped, LoopType
<1>9. events' \subseteq EventRow /\ IsFiniteSet(events')
  <2>1. kept \in SUBSET events
    OBVIOUS
  <2>2. IsFiniteSet(kept) /\ kept \subseteq EventRow
    BY <1>3, <2>1, FS_Subset DEF TablesTyped
  <2> HIDE DEF kept
  <2>3. IsFiniteSet(kept \cup Written(w))
    BY <2>2, <1>4, FS_Union
  <2> QED BY <1>1, <1>4, <2>2, <2>3
<1>10. TablesTyped'
  BY <1>1, <1>3, <1>5, <1>6, <1>7, <1>8, <1>9 DEF TablesTyped
<1>11. JobTyped'
  BY <1>1, <1>4, FS_EmptySet DEF TypeInv, JobTyped
<1>12. (rebuild # None => RebuildTyped)'
  BY <1>1 DEF TypeInv, TablesTyped, RebuildTyped
<1>13. EventIds' \subseteq EventIds
  <2>1. Ids(events') \subseteq Ids(events) \cup Ids(Written(w))
    BY <1>1 DEF Ids
  <2>2. Ids(Written(w)) = WorkIds
    BY <1>1 DEF WorkIds, w
  <2>3. WorkIds' = {} /\ RebuildIds' = RebuildIds /\ mails' = mails
    BY <1>1 DEF WorkIds, RebuildIds
  <2>4. Ids(events)' = Ids(events')
    BY DEF Ids
  <2> QED BY <2>1, <2>2, <2>3, <2>4 DEF EventIds
<1>14. Bounded(EventIds)'
  BY <1>13, IdsStay DEF TypeInv
<1> QED BY <1>10, <1>11, <1>12, <1>14 DEF TypeInv

\* What another mail makes of the counts of copies.
LEMMA CopiesPosted ==
  ASSUME TypeInv, NEW items \in SUBSET Pair, NEW n \in Nat, mails' = Posted(items, n)
  PROVE  /\ DOMAIN mails' = DOMAIN mails \cup items
         /\ \A c \in DOMAIN mails' : mails'[c] \in Nat
         /\ \A c \in DOMAIN mails \ items : mails'[c] = mails[c]
         /\ \A c \in items \ DOMAIN mails : mails'[c] = n
<1>1. DOMAIN mails' = DOMAIN mails \cup items
  BY DEF Posted
<1>2. \A c \in DOMAIN mails \cup items :
        mails'[c] = (IF c \in DOMAIN mails THEN mails[c] ELSE 0) + (IF c \in items THEN n ELSE 0)
  BY DEF Posted
<1>3. \A c \in DOMAIN mails : mails[c] \in Nat
  BY DEF TypeInv, TablesTyped
<1> QED BY <1>1, <1>2, <1>3

LEMMA AlertSendTyped ==
  ASSUME TypeInv, AlertSend
  PROVE  TypeInv'
<1> DEFINE due == {c \in found : Due(c)}
<1>1. /\ at = "alert" /\ at' = "mailed" /\ found' = due
      /\ UNCHANGED <<tables, sequences, scoring, work, rebuild>>
  BY DEF AlertSend
<1>2. due \in SUBSET found /\ \A c \in due : c.event \in Ids(events)
  BY DEF Due, Ids
<1> HIDE DEF due
<1>3. due \in SUBSET Pair /\ IsFiniteSet(due)
  BY <1>2, FS_Subset DEF TypeInv, JobTyped
<1>4. PICK n \in 1 .. SmtpTries : mails' = Posted(due, n)
  BY <1>1 DEF AlertSend
<1>5. DOMAIN mails' = DOMAIN mails \cup due /\ \A c \in DOMAIN mails' : mails'[c] \in Nat
  <2>1. n \in Nat
    BY EventsAssumption
  <2> QED BY <2>1, <1>3, <1>4, CopiesPosted
<1>7. TablesTyped'
  BY <1>1, <1>3, <1>5 DEF TypeInv, TablesTyped, tables, sequences
<1>8. JobTyped'
  BY <1>1, <1>3 DEF TypeInv, JobTyped
<1>9. (rebuild # None => RebuildTyped)'
  BY <1>1 DEF TypeInv, TablesTyped, RebuildTyped, tables, sequences
<1>10. EventIds' \subseteq EventIds
  <2>1. {c.event : c \in DOMAIN mails'} \subseteq {c.event : c \in DOMAIN mails} \cup Ids(events)
    BY <1>2, <1>5
  <2>2. events' = events /\ WorkIds' = WorkIds /\ RebuildIds' = RebuildIds
    BY <1>1 DEF tables, WorkIds, RebuildIds
  <2> QED BY <2>1, <2>2 DEF EventIds
<1>11. Bounded(EventIds)'
  BY <1>10, IdsStay DEF TypeInv
<1> QED BY <1>7, <1>8, <1>9, <1>11 DEF TypeInv

\* The deliveries change, maybe with copies of mails about old events, and the job ends.
LEMMA DeliveriesTyped ==
  ASSUME TypeInv, at \in {"alert", "mailed"}, at' = "idle", found' = {},
         NEW items \in SUBSET found, NEW status \in {"SENT", "FAILED"},
         deliveries' \in {deliveries, Delivered(items, status)},
         UNCHANGED <<measurements, cursor, scores, engine, state, events, sequences,
                     scoring, work, rebuild>>,
         \A c \in DOMAIN mails' : mails'[c] \in Nat,
         \A c \in DOMAIN mails' : c \in DOMAIN mails \/ (c \in Pair /\ c.event \in Ids(events))
  PROVE  TypeInv'
<1>1. TablesTyped'
  <2>1. items \in SUBSET Pair /\ found \in SUBSET Pair
    BY DEF TypeInv, JobTyped
  <2> DEFINE T == [event : Nat, kind : Kind, status : {"SENT", "FAILED"}]
  <2>2. deliveries \subseteq T
    BY DEF TypeInv, TablesTyped
  <2>3. \A c \in items : [event |-> c.event, kind |-> c.kind, status |-> status] \in T
    BY <2>1 DEF Pair
  <2> HIDE DEF T
  <2>4. Delivered(items, status) \subseteq T
    BY <2>2, <2>3 DEF Delivered
  <2>5. deliveries' \subseteq T
    BY <2>2, <2>4
  <2> QED BY <2>5 DEF TypeInv, TablesTyped, sequences, T
<1>2. JobTyped'
  BY FS_EmptySet DEF TypeInv, JobTyped
<1>3. (rebuild # None => RebuildTyped)'
  BY DEF TypeInv, TablesTyped, RebuildTyped, sequences
<1>4. Bounded(EventIds)'
  <2>1. {c.event : c \in DOMAIN mails'} \subseteq {c.event : c \in DOMAIN mails} \cup Ids(events)
    OBVIOUS
  <2>2. events' = events /\ WorkIds' = WorkIds /\ RebuildIds' = RebuildIds
    BY DEF WorkIds, RebuildIds
  <2>3. EventIds' \subseteq EventIds
    BY <2>1, <2>2 DEF EventIds
  <2> QED BY <2>3, IdsStay DEF TypeInv
<1> QED BY <1>1, <1>2, <1>3, <1>4 DEF TypeInv

LEMMA CrashTyped ==
  ASSUME TypeInv, at' = "idle", scoring' = None, work' = None,
         found' = {} \/ found' = found, UNCHANGED <<tables, sequences, rebuild, mails>>
  PROVE  TypeInv'
<1>1. JobTyped'
  BY FS_EmptySet DEF TypeInv, JobTyped
<1>2. EventIds' \subseteq EventIds
  BY DEF EventIds, WorkIds, RebuildIds, tables
<1> QED BY <1>1, <1>2, JobMoves

LEMMA JobStepTyped ==
  ASSUME TypeInv, JobStep
  PROVE  TypeInv'
<1>1. CASE \E last \in cursor + 1 .. Len(measurements) : ScoreRead(last)
  BY <1>1, ScoreReadTyped
<1>2. CASE ScoreNothing
  <2>1. /\ at = "idle" /\ at' = "detect"
        /\ UNCHANGED <<tables, sequences, scoring, work, found, rebuild, mails>>
    BY <1>2 DEF ScoreNothing
  <2>2. JobTyped'
    BY <2>1 DEF TypeInv, JobTyped
  <2>3. EventIds' \subseteq EventIds
    BY <2>1 DEF EventIds, WorkIds, RebuildIds, tables
  <2> QED BY <2>1, <2>2, <2>3, JobMoves
<1>3. CASE ScoreCommit
  BY <1>3, ScoreCommitTyped
<1>4. CASE ScoreRollBack
  BY <1>4, CrashTyped DEF ScoreRollBack, TypeInv, JobTyped
<1>5. CASE \E last \in Unprocessed : DetectLoad(last)
  BY <1>5, DetectLoadTyped
<1>6. CASE DetectNothing
  BY <1>6, CrashTyped DEF DetectNothing, TypeInv, JobTyped
<1>7. CASE DetectJudge
  BY <1>7, DetectJudgeTyped
<1>8. CASE DetectCommit
  BY <1>8, DetectCommitTyped
<1>9. CASE DetectRollBack
  BY <1>9, CrashTyped DEF DetectRollBack, TypeInv, JobTyped
<1>10. CASE AlertNothing
  BY <1>10, CrashTyped DEF AlertNothing, TypeInv, JobTyped
<1>11. CASE AlertSend
  BY <1>11, AlertSendTyped
<1>12. CASE AlertCommit
  <2>1. deliveries' \in {deliveries, Delivered(found, "SENT")}
    BY <1>12 DEF AlertCommit
  <2>2. /\ at = "mailed" /\ at' = "idle" /\ found' = {}
        /\ UNCHANGED <<measurements, cursor, scores, engine, state, events, sequences,
                       scoring, work, rebuild, mails>>
    BY <1>12 DEF AlertCommit
  <2>3. /\ \A c \in DOMAIN mails' : mails'[c] \in Nat
        /\ \A c \in DOMAIN mails' : c \in DOMAIN mails \/ (c \in Pair /\ c.event \in Ids(events))
    BY <2>2 DEF TypeInv, TablesTyped
  <2>4. found \in SUBSET found /\ "SENT" \in {"SENT", "FAILED"} /\ at \in {"alert", "mailed"}
    BY <2>2
  <2> QED BY <2>1, <2>2, <2>3, <2>4, DeliveriesTyped
<1>13. CASE ScoreRaises
  BY <1>13, CrashTyped DEF ScoreRaises, TypeInv, JobTyped
<1> QED
  BY <1>1, <1>2, <1>3, <1>4, <1>5, <1>6, <1>7, <1>8, <1>9, <1>10, <1>11, <1>12, <1>13
  DEF JobStep

LEMMA RebuildDeleteTyped ==
  ASSUME TypeInv, NEW m \in DOMAIN measurements, NEW heat \in Heat, RebuildDelete(m, heat)
  PROVE  TypeInv'
<1> DEFINE n == Len(measurements)
<1> DEFINE ids == m .. n
<1> DEFINE heats == [measurements EXCEPT ![m] = heat]
<1> DEFINE rows == ScoreRows(ids, heats)
<1> DEFINE gone == Ids({s \in scores : s.m >= m})
<1> DEFINE old == Ids(events)
<1>1. /\ rebuild' = [from |-> m, upto |-> n, heat |-> heat, fresh |-> rows, gone |-> gone,
                     locked |-> gone, events |-> old, row |-> {}, loop |-> None,
                     judged |-> FALSE]
      /\ scoreIds' = scoreIds + Cardinality(rows)
      /\ rebuild = None
      /\ UNCHANGED <<tables, stateIds, job, mails>>
  BY DEF RebuildDelete
<1>2. n \in Nat /\ m \in 1 .. n /\ scoreIds \in Nat
  BY DEF TypeInv, TablesTyped
<1>3. gone \in SUBSET Nat /\ old \in SUBSET Nat
  BY DEF TypeInv, TablesTyped, Ids, ScoreRow, EventRow
<1>4. ids \in SUBSET Nat /\ IsFiniteSet(ids)
  <2> HIDE DEF n
  <2>1. m \in Int /\ n \in Int /\ \A i \in m .. n : i \in Nat
    BY <1>2
  <2> QED BY <2>1, FS_Interval
<1>5. rows \in SUBSET ScoreRow /\ Cardinality(rows) \in Nat
      /\ \A s \in rows : s.id <= scoreIds + Cardinality(rows)
  <2> HIDE DEF ids, heats
  <2>1. rows = ScoreRows(ids, heats)
    OBVIOUS
  <2> HIDE DEF rows
  <2> QED BY <2>1, <1>2, <1>4, RowsOfMeasurements
<1> HIDE DEF rows, gone, old, n
<1>6. scoreIds' \in Nat /\ scoreIds <= scoreIds'
  BY <1>1, <1>2, <1>5
<1>7. RebuildTyped'
  <2>1. rebuild' \in [from : Nat, upto : Nat, heat : Heat, fresh : SUBSET ScoreRow,
                      gone : SUBSET Nat, locked : SUBSET Nat, events : SUBSET Nat,
                      row : SUBSET Nat, loop : LoopType \cup {None}, judged : BOOLEAN]
    BY <1>1, <1>2, <1>3, <1>5
  <2>2. rebuild'.from = m /\ rebuild'.upto = n /\ rebuild'.fresh = rows /\ rebuild'.loop = None
    BY <1>1
  <2>3. Len(measurements') = n
    BY <1>1 DEF tables, n
  <2> QED BY <1>1, <1>2, <1>5, <2>1, <2>2, <2>3 DEF RebuildTyped
<1>8. TablesTyped'
  <2>1. \A s \in scores : s.id \in Nat /\ s.id <= scoreIds
    BY DEF TypeInv, TablesTyped, ScoreRow
  <2>2. \A s \in scores : s.id <= scoreIds'
    BY <1>2, <1>6, <2>1
  <2> QED BY <1>1, <1>6, <2>2 DEF TypeInv, TablesTyped, tables
<1>9. JobTyped'
  <2>1. at = "judge" => WorkTyped'
    BY <1>1, <1>2, <1>6, WorkStays DEF TypeInv, JobTyped, job
  <2> QED BY <1>1, <2>1 DEF TypeInv, JobTyped, job, tables, ScoringTyped
<1>10. Bounded(EventIds)'
  <2>1. RebuildIds' = {}
    BY <1>1 DEF RebuildIds
  <2>2. EventIds' \subseteq EventIds
    BY <1>1, <2>1 DEF EventIds, WorkIds, tables, job
  <2> QED BY <2>2, IdsStay DEF TypeInv
<1> QED BY <1>7, <1>8, <1>9, <1>10 DEF TypeInv

LEMMA RebuildLoadTyped ==
  ASSUME TypeInv, RebuildLoad
  PROVE  TypeInv'
<1> DEFINE loop == Loop(RebuiltScores, {}, {})
<1> DEFINE row == Ids(state)
<1> DEFINE locked == Ids(scores)
<1>1. /\ rebuild # None
      /\ rebuild' = [rebuild EXCEPT !.row = row, !.locked = locked, !.loop = loop]
      /\ UNCHANGED <<tables, sequences, job, mails>>
  BY DEF RebuildLoad
<1>2. RebuildTyped /\ TablesTyped
  BY <1>1 DEF TypeInv
<1>3. row \in SUBSET Nat /\ locked \in SUBSET Nat
  BY <1>2 DEF TablesTyped, Ids, StateType, ScoreRow
<1>4. LoopTyped(loop) /\ Written(loop) = {}
  <2>1. RebuiltScores \in SUBSET ScoreRow
    BY <1>2 DEF RebuiltScores, TablesTyped, RebuildTyped
  <2>2. {} \in SUBSET EventRow /\ {} \in SUBSET StateType /\ IsFiniteSet({})
    BY FS_EmptySet
  <2> QED BY <2>1, <2>2, LoopStartTyped
<1> HIDE DEF loop, row, locked
<1>5. loop \in LoopType
  BY <1>4 DEF LoopTyped
<1>6. /\ rebuild' \in [from : Nat, upto : Nat, heat : Heat, fresh : SUBSET ScoreRow,
                       gone : SUBSET Nat, locked : SUBSET Nat, events : SUBSET Nat,
                       row : SUBSET Nat, loop : LoopType \cup {None}, judged : BOOLEAN]
      /\ rebuild'.from = rebuild.from /\ rebuild'.upto = rebuild.upto
      /\ rebuild'.fresh = rebuild.fresh /\ rebuild'.loop = loop
  BY <1>1, <1>2, <1>3, <1>5 DEF RebuildTyped
<1>7. RebuildTyped'
  BY <1>1, <1>2, <1>4, <1>6 DEF RebuildTyped, tables, sequences
<1>8. TablesTyped'
  BY <1>1, <1>2, TablesStay
<1>9. JobTyped'
  BY <1>1 DEF TypeInv, JobTyped, WorkTyped, ScoringTyped, job, tables, sequences
<1>10. Bounded(EventIds)'
  <2>1. RebuildIds' = {}
    BY <1>4, <1>6 DEF RebuildIds, Ids
  <2>2. EventIds' \subseteq EventIds
    BY <1>1, <2>1 DEF EventIds, WorkIds, tables, job
  <2> QED BY <2>2, IdsStay DEF TypeInv
<1> QED BY <1>7, <1>8, <1>9, <1>10 DEF TypeInv

LEMMA RebuildJudgeTyped ==
  ASSUME TypeInv, RebuildJudge
  PROVE  TypeInv'
<1>1. PICK s \in rebuild.loop.todo :
        rebuild' = [rebuild EXCEPT !.loop = Judge(rebuild.loop, s), !.judged = TRUE]
  BY DEF RebuildJudge
<1> DEFINE loop == Judge(rebuild.loop, s)
<1>2. /\ rebuild # None /\ rebuild.loop # None
      /\ UNCHANGED <<tables, sequences, job, mails>>
  BY DEF RebuildJudge
<1>3. RebuildTyped /\ TablesTyped
  BY <1>2 DEF TypeInv
<1>4. s \in ScoreRow /\ LoopTyped(rebuild.loop)
  BY <1>2, <1>3 DEF RebuildTyped, LoopTyped, LoopType
<1>5. /\ LoopTyped(loop)
      /\ \E n \in Nat : /\ \A j \in EventIds : j \in Nat /\ j < n
                        /\ Ids(Written(loop)) \subseteq Ids(Written(rebuild.loop)) \cup {n}
  BY <1>4, JudgeTyped DEF TypeInv
<1> HIDE DEF loop
<1>6. loop \in LoopType
  BY <1>5 DEF LoopTyped
<1>7. /\ rebuild' \in [from : Nat, upto : Nat, heat : Heat, fresh : SUBSET ScoreRow,
                       gone : SUBSET Nat, locked : SUBSET Nat, events : SUBSET Nat,
                       row : SUBSET Nat, loop : LoopType \cup {None}, judged : BOOLEAN]
      /\ rebuild'.from = rebuild.from /\ rebuild'.upto = rebuild.upto
      /\ rebuild'.fresh = rebuild.fresh /\ rebuild'.loop = loop
  BY <1>1, <1>3, <1>6 DEF RebuildTyped, loop
<1>8. RebuildTyped'
  BY <1>2, <1>3, <1>5, <1>7 DEF RebuildTyped, tables, sequences
<1>9. TablesTyped'
  BY <1>2, <1>3, TablesStay
<1>10. JobTyped'
  BY <1>2 DEF TypeInv, JobTyped, WorkTyped, ScoringTyped, job, tables, sequences
<1>11. Bounded(EventIds)'
  <2>1. PICK n \in Nat : /\ \A j \in EventIds : j \in Nat /\ j < n
                         /\ Ids(Written(loop)) \subseteq Ids(Written(rebuild.loop)) \cup {n}
    BY <1>5
  <2>2. RebuildIds' \subseteq RebuildIds \cup {n}
    BY <1>2, <1>7, <2>1 DEF RebuildIds
  <2>3. WorkIds' = WorkIds /\ events' = events /\ mails' = mails
    BY <1>2 DEF WorkIds, tables, job
  <2>4. EventIds' \subseteq EventIds \cup {n}
    BY <2>2, <2>3 DEF EventIds
  <2> QED BY <2>1, <2>4, IdAdded DEF TypeInv
<1> QED BY <1>8, <1>9, <1>10, <1>11 DEF TypeInv

LEMMA RebuildCommitTyped ==
  ASSUME TypeInv, RebuildCommit
  PROVE  TypeInv'
<1> DEFINE w == rebuild.loop
<1>1. /\ rebuild # None /\ w # None /\ rebuild' = None
      /\ measurements' = [measurements EXCEPT ![rebuild.from] = rebuild.heat]
      /\ scores' = {[s EXCEPT !.processed = TRUE] : s \in RebuiltScores}
      /\ events' = KeptEvents \cup Written(w)
      /\ deliveries' = {d \in deliveries : d.event \notin rebuild.events}
      /\ state' = IF rebuild.judged THEN {StateRow(stateIds + 1, w)}
                  ELSE {r \in state : r.id \notin rebuild.row}
      /\ stateIds' = IF rebuild.judged THEN stateIds + 1 ELSE stateIds
      /\ UNCHANGED <<cursor, engine, scoreIds, at, scoring, work, found, mails>>
  BY DEF RebuildCommit, RebuildDone, job
<1>2. RebuildTyped /\ TablesTyped
  BY <1>1 DEF TypeInv
<1>3. LoopTyped(w) /\ w \in LoopType /\ Written(w) \in SUBSET EventRow /\ IsFiniteSet(Written(w))
  BY <1>1, <1>2 DEF RebuildTyped, LoopTyped, LoopType, Written
<1>4. measurements' \in Seq(Heat) /\ Len(measurements') = Len(measurements)
  <2> DEFINE n == Len(measurements)
  <2>1. rebuild.heat \in Heat /\ n \in Nat /\ measurements \in [1 .. n -> Heat]
    BY <1>2 DEF RebuildTyped, TablesTyped
  <2> HIDE DEF n
  <2>2. measurements' \in [1 .. n -> Heat]
    BY <1>1, <2>1
  <2>3. measurements' \in Seq(Heat) /\ Len(measurements') = n
    BY <2>1, <2>2
  <2> QED BY <2>3 DEF n
<1>5. scores' \subseteq ScoreRow /\ \A s \in scores' : s.id <= scoreIds'
  <2> SUFFICES ASSUME NEW t \in scores' PROVE t \in ScoreRow /\ t.id <= scoreIds
    BY <1>1
  <2>1. PICK s \in RebuiltScores : t = [s EXCEPT !.processed = TRUE]
    BY <1>1
  <2>2. s \in ScoreRow /\ s.id <= scoreIds
    BY <1>2 DEF RebuiltScores, TablesTyped, RebuildTyped
  <2> QED BY <2>1, <2>2 DEF ScoreRow
<1> HIDE DEF w
<1>6. stateIds' \in Nat /\ state' \subseteq StateType
      /\ \A r \in state' : r.count > 0 => r.start \in Nat
  <2>1. CASE rebuild.judged
    <3>1. state' = {StateRow(stateIds + 1, w)} /\ stateIds' = stateIds + 1
      BY <1>1, <2>1
    <3>2. StateRow(stateIds + 1, w) \in StateType
      BY <1>2, <1>3 DEF StateRow, StateType, LoopType, TablesTyped
    <3>3. StateRow(stateIds + 1, w).count = w.count /\ StateRow(stateIds + 1, w).start = w.start
      BY DEF StateRow
    <3>4. stateIds' \in Nat
      BY <1>2, <3>1 DEF TablesTyped
    <3>5. w.count > 0 => w.start \in Nat
      BY <1>3 DEF LoopTyped
    <3> QED BY <3>1, <3>2, <3>3, <3>4, <3>5
  <2>2. CASE ~rebuild.judged
    BY <1>1, <1>2, <2>2 DEF TablesTyped
  <2> QED BY <2>1, <2>2
<1>7. events' \subseteq EventRow /\ IsFiniteSet(events')
  <2>1. KeptEvents \in SUBSET events
    BY DEF KeptEvents
  <2>2. IsFiniteSet(KeptEvents) /\ KeptEvents \subseteq EventRow
    BY <1>2, <2>1, FS_Subset DEF TablesTyped
  <2>3. IsFiniteSet(KeptEvents \cup Written(w))
    BY <2>2, <1>3, FS_Union
  <2> QED BY <1>1, <1>3, <2>2, <2>3
<1>8. TablesTyped'
  BY <1>1, <1>2, <1>4, <1>5, <1>6, <1>7 DEF TablesTyped
<1>9. JobTyped'
  BY <1>1, <1>4 DEF TypeInv, JobTyped, WorkTyped, ScoringTyped
<1>10. Bounded(EventIds)'
  <2>1. Ids(events') \subseteq Ids(events) \cup Ids(Written(w))
    BY <1>1 DEF Ids, KeptEvents
  <2>2. Ids(Written(w)) = RebuildIds
    BY <1>1 DEF RebuildIds, w
  <2>3. RebuildIds' = {} /\ WorkIds' = WorkIds /\ mails' = mails
    BY <1>1 DEF WorkIds, RebuildIds
  <2>4. Ids(events)' = Ids(events')
    BY DEF Ids
  <2>5. EventIds' \subseteq EventIds
    BY <2>1, <2>2, <2>3, <2>4 DEF EventIds
  <2> QED BY <2>5, IdsStay DEF TypeInv
<1> QED BY <1>1, <1>8, <1>9, <1>10 DEF TypeInv

LEMMA NoRebuildTyped ==
  ASSUME TypeInv, rebuild' = None, UNCHANGED <<tables, sequences, job, mails>>
  PROVE  TypeInv'
<1>1. TablesTyped' /\ JobTyped'
  BY TablesStay DEF TypeInv, JobTyped, WorkTyped, ScoringTyped, job, tables, sequences
<1>2. EventIds' \subseteq EventIds
  BY DEF EventIds, WorkIds, RebuildIds, tables, job
<1>3. Bounded(EventIds)'
  BY <1>2, IdsStay DEF TypeInv
<1> QED BY <1>1, <1>3 DEF TypeInv

LEMMA StepTyped ==
  ASSUME TypeInv, [Next]_vars
  PROVE  TypeInv'
<1>1. CASE \E heat \in Heat : Import(heat)
  BY <1>1, ImportTyped
<1>2. CASE JobStep
  BY <1>2, JobStepTyped
<1>3. CASE AlertFail
  <2> DEFINE items == {c \in found : Due(c)}
  <2>1. /\ at = "alert" /\ at' = "idle" /\ found' = {}
        /\ deliveries' = Delivered(items, "FAILED")
        /\ UNCHANGED <<measurements, cursor, scores, engine, state, events, sequences,
                       scoring, work, rebuild>>
    BY <1>3 DEF AlertFail
  <2>2. items \in SUBSET found /\ \A c \in items : c.event \in Ids(events)
    BY DEF Due, Ids
  <2>3. PICK n \in 0 .. SmtpTries : mails' = IF n = 0 THEN mails ELSE Posted(items, n)
    BY <1>3 DEF AlertFail
  <2> HIDE DEF items
  <2>4. items \in SUBSET Pair
    BY <2>2 DEF TypeInv, JobTyped
  <2>5. /\ \A c \in DOMAIN mails' : mails'[c] \in Nat
        /\ \A c \in DOMAIN mails' : c \in DOMAIN mails \/ c \in items
    <3>1. n \in Nat
      BY EventsAssumption
    <3>2. CASE n = 0
      BY <2>3, <3>2 DEF TypeInv, TablesTyped
    <3>3. CASE n # 0
      BY <2>3, <2>4, <3>1, <3>3, CopiesPosted
    <3> QED BY <3>2, <3>3
  <2>6. \A c \in DOMAIN mails' : c \in DOMAIN mails \/ (c \in Pair /\ c.event \in Ids(events))
    BY <2>2, <2>4, <2>5
  <2>7. /\ "FAILED" \in {"SENT", "FAILED"} /\ at \in {"alert", "mailed"}
        /\ deliveries' \in {deliveries, Delivered(items, "FAILED")}
    BY <2>1
  <2> QED BY <2>1, <2>2, <2>5, <2>6, <2>7, DeliveriesTyped
<1>4. CASE Crash
  BY <1>4, CrashTyped DEF Crash
<1>5. CASE \E m \in DOMAIN measurements, heat \in Heat : RebuildDelete(m, heat)
  BY <1>5, RebuildDeleteTyped
<1>6. CASE RebuildLoad
  BY <1>6, RebuildLoadTyped
<1>7. CASE RebuildJudge
  BY <1>7, RebuildJudgeTyped
<1>8. CASE RebuildCommit
  BY <1>8, RebuildCommitTyped
<1>9. CASE RebuildRollBack
  BY <1>9, NoRebuildTyped DEF RebuildRollBack
<1>10. CASE RebuildAbort
  BY <1>10, NoRebuildTyped DEF RebuildAbort
<1>12. CASE ManualDetect
  <2>1. /\ at = "idle" /\ at' = "detect"
        /\ UNCHANGED <<tables, sequences, scoring, work, found, rebuild, mails>>
    BY <1>12 DEF ManualDetect
  <2>2. JobTyped'
    BY <2>1 DEF TypeInv, JobTyped
  <2>3. EventIds' \subseteq EventIds
    BY <2>1 DEF EventIds, WorkIds, RebuildIds, tables
  <2> QED BY <2>1, <2>2, <2>3, JobMoves
<1>11. CASE UNCHANGED vars
  <2>1. JobTyped' /\ EventIds' \subseteq EventIds
    BY <1>11 DEF TypeInv, JobTyped, WorkTyped, ScoringTyped, EventIds, WorkIds, RebuildIds,
                vars, job, tables, sequences
  <2> QED BY <1>11, <2>1, JobMoves DEF vars
<1> QED
  BY <1>1, <1>2, <1>3, <1>4, <1>5, <1>6, <1>7, <1>8, <1>9, <1>10, <1>11, <1>12
  DEF Next, RebuildStep

LEMMA InitTyped == Init => TypeInv
<1> SUFFICES ASSUME Init PROVE TypeInv
  OBVIOUS
<1>1. TablesTyped
  BY FS_EmptySet DEF Init, TablesTyped
<1>2. JobTyped
  BY FS_EmptySet DEF Init, JobTyped
<1>3. EventIds = {}
  BY DEF Init, EventIds, WorkIds, RebuildIds, Ids
<1>4. Bounded(EventIds)
  BY <1>3 DEF Bounded
<1> QED BY <1>1, <1>2, <1>4 DEF Init, TypeInv

LEMMA SpecTyped == Spec => []TypeInv
BY InitTyped, StepTyped, PTL DEF Spec

ModeOk == mode \in {"job", "score", "detect"}
LEMMA SpecMode == Spec => []ModeOk
<1>1. Init => ModeOk
  BY DEF Init, ModeOk
<1>2. ASSUME ModeOk, [Next]_vars PROVE ModeOk'
  <2>1. CASE JobStep
    BY <1>2, <2>1 DEF ModeOk, JobStep, ScoreRead, ScoreNothing, ScoreRaises, ScoreCommit,
         ScoreRollBack, DetectLoad, DetectNothing, DetectJudge, DetectCommit, DetectRollBack,
         AlertNothing, AlertSend, AlertCommit
  <2>2. CASE ManualDetect \/ AlertFail \/ Crash \/ \E heat \in Heat : Import(heat)
    BY <1>2, <2>2 DEF ModeOk, ManualDetect, AlertFail, Crash, Import, job
  <2>3. CASE \/ \E m \in DOMAIN measurements, heat \in Heat : RebuildDelete(m, heat)
             \/ RebuildStep \/ RebuildAbort
    BY <1>2, <2>3 DEF ModeOk, RebuildDelete, RebuildStep, RebuildLoad, RebuildJudge,
         RebuildCommit, RebuildRollBack, RebuildAbort, job
  <2>4. CASE UNCHANGED vars
    BY <1>2, <2>4 DEF ModeOk, vars, job
  <2> QED BY <1>2, <2>1, <2>2, <2>3, <2>4 DEF Next
<1> QED BY <1>1, <1>2, PTL DEF Spec

\* Whatever is imported, in whatever batches it is scored, judged and mailed, and
\* wherever a rebuild, a kill or a roll back comes in between: the tables, the
\* position of the job and the two loops over scores keep their shapes.
THEOREM TypeCorrect == Spec => []TypeOK
<1>1. TypeInv /\ ModeOk => TypeOK
  <2> SUFFICES ASSUME TypeInv, ModeOk PROVE TypeOK
    OBVIOUS
  <2>1. scoring # None =>
          DOMAIN scoring \subseteq DOMAIN measurements /\ Range(scoring) \subseteq Heat
    BY DEF TypeInv, JobTyped, ScoringTyped, TablesTyped, Range
  <2>2. work # None =>
          /\ work.loop.todo \subseteq ScoreRow /\ work.loop.count \in Nat
          /\ Written(work.loop) \subseteq EventRow
    BY DEF TypeInv, JobTyped, WorkTyped, LoopTyped, LoopType, Written
  <2>3. rebuild # None /\ rebuild.loop # None =>
          /\ rebuild.loop.todo \subseteq ScoreRow /\ rebuild.loop.count \in Nat
          /\ Written(rebuild.loop) \subseteq EventRow
    BY DEF TypeInv, RebuildTyped, LoopTyped, LoopType, Written
  <2>4. DOMAIN mails \subseteq Pair /\ Range(mails) \subseteq Nat
    BY DEF TypeInv, TablesTyped, Range
  <2> QED BY <2>1, <2>2, <2>3, <2>4
          DEF TypeInv, TablesTyped, JobTyped, TypeOK, StateType, Pair, ModeOk
<1> QED BY <1>1, SpecTyped, SpecMode, PTL

-----------------------------------------------------------------------------
(***************************************************************************)
(* What the scores say of the measurements.  A rebuild keeps the scores    *)
(* outside of its range and has new ones for the range; unless the job did *)
(* something beside a rebuild, each score is that of its measurement.      *)
(***************************************************************************)
ScoresApart ==
  /\ \A s, t \in scores : s.id = t.id \/ s.m = t.m => s = t
  /\ \A s \in scores : s.m \in 1 .. Len(measurements)

RebuildApart ==
  rebuild # None =>
    /\ \A s \in scores : s.id \in rebuild.gone <=> s.m \in rebuild.from .. rebuild.upto
    /\ \A s, t \in rebuild.fresh : s.id = t.id \/ s.m = t.m => s = t
    /\ \A s \in scores, t \in rebuild.fresh : s.id # t.id
    /\ \A s \in rebuild.fresh : s.m \in rebuild.from .. rebuild.upto
    /\ \A i \in rebuild.gone : i <= scoreIds

\* What a measurement will be after the rebuild.
Rebuilt(i) == IF i = rebuild.from THEN rebuild.heat ELSE measurements[i]
FreshRight ==
  rebuild # None =>
    /\ rebuild.heat # "missing"
    /\ \A s \in rebuild.fresh : Rebuilt(s.m) \notin Unscored /\ s.hot = (Rebuilt(s.m) = "hot")
    /\ \A i \in rebuild.from .. rebuild.upto :
         Rebuilt(i) \notin Unscored => \E s \in rebuild.fresh : s.m = i

ScoresRight ==
  /\ \A s \in scores : measurements[s.m] \notin Unscored /\ s.hot = (measurements[s.m] = "hot")
  /\ \A i \in 1 .. cursor : measurements[i] \notin Unscored => \E s \in scores : s.m = i
  /\ \A i \in 1 .. cursor : measurements[i] # "missing"
  /\ rebuild # None => cursor <= rebuild.upto
  /\ at = "score" => \A i \in DOMAIN scoring : scoring[i] = measurements[i]

ScoreInv ==
  /\ ScoresApart /\ RebuildApart /\ FreshRight
  /\ ~overlapped => ScoresRight

\* The steps that leave the measurements, the scores and their rebuild alone.
LEMMA ScoresStay ==
  ASSUME ScoreInv, UNCHANGED <<measurements, cursor, scores, scoreIds>>,
         ~overlapped' => ~overlapped, at' = "score" => at = "score" /\ scoring' = scoring,
         \/ rebuild' = None
         \/ /\ rebuild # None
            /\ rebuild'.from = rebuild.from /\ rebuild'.upto = rebuild.upto
            /\ rebuild'.heat = rebuild.heat /\ rebuild'.fresh = rebuild.fresh
            /\ rebuild'.gone = rebuild.gone
  PROVE  ScoreInv'
<1>1. ScoresApart'
  BY DEF ScoreInv, ScoresApart
<1>2. RebuildApart'
  BY DEF ScoreInv, RebuildApart
<1>3. FreshRight'
  BY DEF ScoreInv, FreshRight, Rebuilt
<1>4. ASSUME ~overlapped' PROVE ScoresRight'
  BY <1>4 DEF ScoreInv, ScoresRight
<1> QED BY <1>1, <1>2, <1>3, <1>4 DEF ScoreInv

LEMMA ImportScores ==
  ASSUME TypeInv, ScoreInv, NEW heat, Import(heat)
  PROVE  ScoreInv'
<1>1. /\ measurements' = Append(measurements, heat) /\ at = "idle" /\ at' = "idle"
      /\ UNCHANGED <<cursor, scores, scoreIds, rebuild, overlapped>>
  BY DEF Import, job, sequences
<1>2. measurements \in Seq(Heat) /\ cursor \in 0 .. Len(measurements)
      /\ Len(measurements) \in Nat
  BY DEF TypeInv, TablesTyped
<1>3. /\ \A i \in 1 .. Len(measurements) : measurements'[i] = measurements[i]
      /\ Len(measurements') = Len(measurements) + 1
  BY <1>1, <1>2
<1>4. ScoresApart'
  BY <1>1, <1>2, <1>3 DEF ScoreInv, ScoresApart
<1>5. RebuildApart'
  BY <1>1 DEF ScoreInv, RebuildApart
<1>6. FreshRight'
  <2> SUFFICES ASSUME rebuild # None
               PROVE  \A i \in rebuild.from .. rebuild.upto : Rebuilt(i)' = Rebuilt(i)
    BY <1>1 DEF ScoreInv, FreshRight, RebuildApart
  <2>1. rebuild.from \in 1 .. rebuild.upto /\ rebuild.upto \in Nat
        /\ rebuild.upto <= Len(measurements)
    BY DEF TypeInv, RebuildTyped
  <2>2. \A i \in rebuild.from .. rebuild.upto : i \in 1 .. Len(measurements)
    BY <1>2, <2>1
  <2> QED BY <1>1, <1>3, <2>2 DEF Rebuilt
<1>7. ASSUME ~overlapped' PROVE ScoresRight'
  BY <1>1, <1>2, <1>3, <1>7 DEF ScoreInv, ScoresRight, ScoresApart
<1> QED BY <1>4, <1>5, <1>6, <1>7 DEF ScoreInv

LEMMA ScoreReadScores ==
  ASSUME TypeInv, ScoreInv, NEW last \in cursor + 1 .. Len(measurements), ScoreRead(last)
  PROVE  ScoreInv'
<1>1. /\ scoring' = [i \in cursor + 1 .. last |-> measurements[i]]
      /\ UNCHANGED <<measurements, cursor, scores, scoreIds, rebuild, overlapped>>
  BY DEF ScoreRead, tables, sequences
<1>2. ScoresApart' /\ RebuildApart' /\ FreshRight'
  BY <1>1 DEF ScoreInv, ScoresApart, RebuildApart, FreshRight, Rebuilt
<1>3. ASSUME ~overlapped' PROVE ScoresRight'
  BY <1>1, <1>3 DEF ScoreInv, ScoresRight
<1> QED BY <1>2, <1>3 DEF ScoreInv

LEMMA ScoreCommitScores ==
  ASSUME TypeInv, ScoreInv, ScoreCommit
  PROVE  ScoreInv'
<1> DEFINE fresh == DOMAIN scoring \ {s.m : s \in scores}
<1> DEFINE rows == ScoreRows(fresh, scoring)
<1>1. /\ at = "score" /\ at' \in {"idle", "detect"} /\ cursor' = Max(DOMAIN scoring)
      /\ ~ScoreMustWait /\ ~ScoreMisses
      /\ scores' = scores \cup rows /\ scoreIds' = scoreIds + Cardinality(rows)
      /\ overlapped' = (overlapped \/ rebuild # None)
      /\ UNCHANGED <<measurements, rebuild>>
  BY DEF ScoreCommit
<1>2. /\ measurements \in Seq(Heat) /\ cursor \in 0 .. Len(measurements)
      /\ scoreIds \in Nat /\ Len(measurements) \in Nat
      /\ scores \subseteq ScoreRow /\ \A s \in scores : s.id \in Nat /\ s.id <= scoreIds
  BY DEF TypeInv, TablesTyped, ScoreRow
<1>3. PICK last \in cursor + 1 .. Len(measurements) : DOMAIN scoring = cursor + 1 .. last
  BY <1>1 DEF TypeInv, JobTyped, ScoringTyped
<1>4. fresh \in SUBSET Nat /\ IsFiniteSet(fresh)
  <2>1. fresh \in SUBSET (cursor + 1 .. last)
    BY <1>3
  <2>2. IsFiniteSet(cursor + 1 .. last)
    BY <1>2, <1>3, FS_Interval
  <2> QED BY <1>2, <1>3, <2>1, <2>2, FS_Subset
<1>5. /\ rows \subseteq ScoreRow /\ Cardinality(rows) \in Nat
      /\ \A s \in rows :
           /\ scoreIds < s.id /\ s.m \in fresh /\ scoring[s.m] \notin Unscored
           /\ s.hot = (scoring[s.m] = "hot")
      /\ \A s, t \in rows : s.id = t.id \/ s.m = t.m => s = t
      /\ \A i \in fresh : scoring[i] \notin Unscored => \E s \in rows : s.m = i
  <2> HIDE DEF fresh
  <2>1. rows = ScoreRows(fresh, scoring)
    OBVIOUS
  <2> HIDE DEF rows
  <2> QED BY <2>1, <1>2, <1>4, RowsOfMeasurements
<1>6. cursor' = last
  <2> DEFINE D == cursor + 1 .. last
  <2>1. last \in D /\ last \in Nat /\ \A i \in D : i \in 0 .. last
    BY <1>2, <1>3
  <2> HIDE DEF D
  <2>2. Bounded(D)
    BY <2>1 DEF Bounded
  <2>3. Max(D) \in D /\ Max(D) \in Nat /\ last <= Max(D)
    BY <2>1, <2>2, MaxOf
  <2>4. Max(D) <= last
    BY <2>1, <2>3
  <2>5. cursor' = Max(D)
    BY <1>1, <1>3 DEF D
  <2> QED BY <2>1, <2>3, <2>4, <2>5
<1> HIDE DEF rows
<1>7. \A s \in rows : s.id \in Nat /\ s.m \in DOMAIN scoring /\ s.m \in 1 .. Len(measurements)
                      /\ \A t \in scores : t.m # s.m
  BY <1>2, <1>3, <1>5 DEF ScoreRow
<1> HIDE DEF fresh
<1>8. ScoresApart'
  <2>1. \A s \in scores, t \in rows : s.id # t.id /\ s.m # t.m
    BY <1>2, <1>5, <1>7
  <2> QED BY <1>1, <1>2, <1>5, <1>7, <2>1 DEF ScoreInv, ScoresApart
<1>9. RebuildApart'
  <2> SUFFICES ASSUME rebuild # None PROVE RebuildApart'
    BY <1>1 DEF RebuildApart
  <2>1. \A s \in rebuild.fresh : s.id \in Nat /\ s.id <= scoreIds
    BY DEF TypeInv, RebuildTyped, ScoreRow
  <2>2. \A i \in rebuild.gone : i \in Nat /\ i <= scoreIds
    BY DEF TypeInv, RebuildTyped, ScoreInv, RebuildApart
  <2>3. \A s \in rows : s.id \notin rebuild.gone /\ s.m \notin rebuild.from .. rebuild.upto
    BY <1>1, <1>2, <1>5, <1>7, <2>2 DEF ScoreMustWait, Unscored
  <2>4. \A s \in rows, t \in rebuild.fresh : s.id # t.id
    BY <1>2, <1>5, <1>7, <2>1
  <2>5. \A i \in rebuild.gone : i <= scoreIds'
    BY <1>1, <1>2, <1>5, <2>2
  <2> QED BY <1>1, <2>3, <2>4, <2>5 DEF ScoreInv, RebuildApart
<1>10. FreshRight'
  BY <1>1 DEF ScoreInv, FreshRight, Rebuilt
<1>11. ASSUME ~overlapped' PROVE ScoresRight'
  <2>1. ~overlapped /\ rebuild = None
    BY <1>1, <1>11
  <2>2. /\ ScoresRight /\ \A i \in DOMAIN scoring : scoring[i] = measurements[i]
    BY <1>1, <2>1 DEF ScoreInv, ScoresRight
  <2>3. \A s \in rows : measurements[s.m] \notin Unscored /\ s.hot = (measurements[s.m] = "hot")
    BY <1>5, <1>7, <2>2
  <2>4. ASSUME NEW i \in 1 .. cursor', measurements[i] \notin Unscored
        PROVE  \E s \in scores' : s.m = i
    <3>1. CASE i \in 1 .. cursor
      BY <1>1, <2>2, <2>4, <3>1 DEF ScoresRight
    <3>2. CASE i \notin 1 .. cursor
      <4>1. i \in DOMAIN scoring
        BY <1>2, <1>3, <1>6, <2>4, <3>2
      <4>2. scoring[i] \notin Unscored
        BY <2>2, <2>4, <4>1
      <4>3. i \in fresh \/ \E s \in scores : s.m = i
        BY <4>1 DEF fresh
      <4> QED BY <1>1, <1>5, <4>2, <4>3
    <3> QED BY <3>1, <3>2
  <2>5. ASSUME NEW i \in 1 .. cursor' PROVE measurements[i] # "missing"
    <3>1. CASE i \in 1 .. cursor
      BY <2>2, <3>1 DEF ScoresRight
    <3>2. CASE i \notin 1 .. cursor
      <4>1. i \in DOMAIN scoring
        BY <1>2, <1>3, <1>6, <2>5, <3>2
      <4> QED BY <1>1, <2>2, <4>1 DEF ScoreMisses, Range
    <3> QED BY <3>1, <3>2
  <2> QED BY <1>1, <2>1, <2>2, <2>3, <2>4, <2>5 DEF ScoresRight
<1> QED BY <1>8, <1>9, <1>10, <1>11 DEF ScoreInv

\* Marking scores as processed.
LEMMA DetectCommitScores ==
  ASSUME TypeInv, ScoreInv, DetectCommit
  PROVE  ScoreInv'
<1> DEFINE Marked(s) ==
      [s EXCEPT !.processed = s.processed \/ s.id \in work.batch \/ s.id <= engine]
<1>1. /\ scores' = {Marked(s) : s \in scores} /\ at = "judge" /\ at' # "score"
      /\ overlapped' = (overlapped \/ rebuild # None)
      /\ UNCHANGED <<measurements, cursor, scoreIds, rebuild>>
  BY DEF DetectCommit
<1>2. \A s \in scores : /\ Marked(s).id = s.id /\ Marked(s).m = s.m
                        /\ Marked(s).hot = s.hot /\ Marked(s) \in scores'
  BY <1>1 DEF TypeInv, TablesTyped, ScoreRow
<1>3. \A t \in scores' : \E s \in scores : t = Marked(s)
  BY <1>1
<1> HIDE DEF Marked
<1>4. ScoresApart'
  <2>1. \A s, t \in scores' : s.id = t.id \/ s.m = t.m => s = t
    <3> TAKE s, t \in scores'
    <3>1. PICK p \in scores, q \in scores : s = Marked(p) /\ t = Marked(q)
      BY <1>3
    <3> QED BY <3>1, <1>2 DEF ScoreInv, ScoresApart
  <2>2. \A t \in scores' : t.m \in 1 .. Len(measurements)
    BY <1>2, <1>3 DEF ScoreInv, ScoresApart
  <2> QED BY <1>1, <2>1, <2>2 DEF ScoresApart
<1>5. RebuildApart'
  <2> SUFFICES ASSUME rebuild # None PROVE RebuildApart'
    BY <1>1 DEF RebuildApart
  <2>1. \A t \in scores' : \E s \in scores : t.id = s.id /\ t.m = s.m
    BY <1>2, <1>3
  <2> QED BY <1>1, <2>1 DEF ScoreInv, RebuildApart
<1>6. FreshRight'
  BY <1>1 DEF ScoreInv, FreshRight, Rebuilt
<1>7. ASSUME ~overlapped' PROVE ScoresRight'
  <2>1. ~overlapped /\ rebuild = None /\ ScoresRight
    BY <1>1, <1>7 DEF ScoreInv
  <2>2. \A t \in scores' : measurements[t.m] \notin Unscored /\ t.hot = (measurements[t.m] = "hot")
    BY <1>2, <1>3, <2>1 DEF ScoresRight
  <2>3. \A i \in 1 .. cursor : measurements[i] \notin Unscored => \E t \in scores' : t.m = i
    BY <1>2, <2>1 DEF ScoresRight
  <2> QED BY <1>1, <2>1, <2>2, <2>3 DEF ScoresRight
<1> QED BY <1>4, <1>5, <1>6, <1>7 DEF ScoreInv

LEMMA RebuildDeleteScores ==
  ASSUME TypeInv, ScoreInv, NEW m \in DOMAIN measurements, NEW heat \in Heat,
         RebuildDelete(m, heat)
  PROVE  ScoreInv'
<1> DEFINE n == Len(measurements)
<1> DEFINE ids == m .. n
<1> DEFINE heats == [measurements EXCEPT ![m] = heat]
<1> DEFINE rows == ScoreRows(ids, heats)
<1> DEFINE gone == Ids({s \in scores : s.m >= m})
<1>1. /\ rebuild'.from = m /\ rebuild'.upto = n /\ rebuild'.heat = heat
      /\ rebuild'.fresh = rows /\ rebuild'.gone = gone
      /\ heat # "missing"
      /\ scoreIds' = scoreIds + Cardinality(rows)
      /\ UNCHANGED <<measurements, cursor, scores, at, scoring, overlapped>>
  BY DEF RebuildDelete, tables, job
<1>2. /\ n \in Nat /\ m \in 1 .. n /\ scoreIds \in Nat /\ cursor \in 0 .. n
      /\ DOMAIN measurements = 1 .. n
      /\ scores \subseteq ScoreRow /\ \A s \in scores : s.id \in Nat /\ s.id <= scoreIds
  BY DEF TypeInv, TablesTyped, ScoreRow
<1>4. ids \in SUBSET Nat /\ IsFiniteSet(ids)
  <2> HIDE DEF n
  <2>1. m \in Int /\ n \in Int /\ \A i \in m .. n : i \in Nat
    BY <1>2
  <2> QED BY <2>1, FS_Interval
<1>5. /\ rows \subseteq ScoreRow /\ Cardinality(rows) \in Nat
      /\ \A s \in rows :
           /\ scoreIds < s.id /\ s.m \in ids /\ heats[s.m] \notin Unscored
           /\ s.hot = (heats[s.m] = "hot")
      /\ \A s, t \in rows : s.id = t.id \/ s.m = t.m => s = t
      /\ \A i \in ids : heats[i] \notin Unscored => \E s \in rows : s.m = i
  <2> HIDE DEF ids, heats
  <2>1. rows = ScoreRows(ids, heats)
    OBVIOUS
  <2> HIDE DEF rows
  <2> QED BY <2>1, <1>2, <1>4, RowsOfMeasurements
<1>6. \A i \in ids : heats[i] = IF i = m THEN heat ELSE measurements[i]
  <2> HIDE DEF n
  <2>1. \A i \in ids : i \in DOMAIN measurements
    BY <1>2
  <2> QED BY <2>1
<1>7. \A s \in scores : s.m \in 1 .. n
  BY DEF ScoreInv, ScoresApart
<1> HIDE DEF rows, n, heats
<1>8. ScoresApart'
  BY <1>1 DEF ScoreInv, ScoresApart
<1>9. RebuildApart'
  <2>1. \A s \in scores : s.id \in gone <=> s.m \in ids
    <3> TAKE s \in scores
    <3>1. s.m >= m <=> s.m \in ids
      BY <1>2, <1>7
    <3>2. s.id \in gone => \E t \in scores : t.m >= m /\ t.id = s.id
      BY DEF Ids
    <3>3. s.m >= m => s.id \in gone
      BY DEF Ids
    <3> QED BY <3>1, <3>2, <3>3 DEF ScoreInv, ScoresApart
  <2>2. \A i \in gone : i <= scoreIds'
    <3> TAKE i \in gone
    <3>1. PICK s \in scores : i = s.id
      BY DEF Ids
    <3> QED BY <3>1, <1>1, <1>2, <1>5
  <2>3. \A s \in scores, t \in rows : s.id # t.id
    <3> TAKE s \in scores, t \in rows
    <3>1. s.id <= scoreIds /\ scoreIds < t.id /\ s.id \in Nat /\ t.id \in Nat
      BY <1>2, <1>5 DEF ScoreRow
    <3> QED BY <3>1, <1>2
  <2> HIDE DEF gone
  <2> QED BY <1>1, <1>5, <2>1, <2>2, <2>3 DEF RebuildApart
<1>10. FreshRight'
  <2>1. \A i \in ids : Rebuilt(i)' = heats[i]
    BY <1>1, <1>6 DEF Rebuilt
  <2> QED BY <1>1, <1>5, <2>1 DEF FreshRight
<1>11. ASSUME ~overlapped' PROVE ScoresRight'
  BY <1>1, <1>2, <1>11 DEF ScoreInv, ScoresRight
<1> QED BY <1>8, <1>9, <1>10, <1>11 DEF ScoreInv

LEMMA RebuildCommitScores ==
  ASSUME TypeInv, ScoreInv, RebuildCommit
  PROVE  ScoreInv'
<1> DEFINE Marked(s) == [s EXCEPT !.processed = TRUE]
<1> DEFINE n == Len(measurements)
<1>1. /\ rebuild # None /\ rebuild' = None
      /\ measurements' = [measurements EXCEPT ![rebuild.from] = rebuild.heat]
      /\ scores' = {Marked(s) : s \in RebuiltScores}
      /\ overlapped' = (overlapped \/ at = "score" \/ work # None)
      /\ UNCHANGED <<cursor, scoreIds, at, scoring>>
  BY DEF RebuildCommit, RebuildDone, job
<1>2. /\ n \in Nat /\ cursor \in 0 .. n /\ DOMAIN measurements = 1 .. n
      /\ rebuild.from \in 1 .. rebuild.upto /\ rebuild.upto \in Nat /\ rebuild.upto <= n
      /\ RebuiltScores \subseteq ScoreRow
  BY <1>1 DEF TypeInv, TablesTyped, RebuildTyped, RebuiltScores
<1>3. /\ Len(measurements') = n
      /\ \A i \in 1 .. n : measurements'[i] = Rebuilt(i)
  <2>1. rebuild.heat \in Heat /\ measurements \in [1 .. n -> Heat]
    BY <1>1 DEF TypeInv, TablesTyped, RebuildTyped
  <2> HIDE DEF n
  <2>2. measurements' \in [1 .. n -> Heat]
    BY <1>1, <2>1
  <2>3. Len(measurements') = n
    BY <1>2, <2>2
  <2> QED BY <1>1, <1>2, <2>1, <2>3 DEF Rebuilt
<1> HIDE DEF n
<1>4. \A s \in RebuiltScores : /\ Marked(s).id = s.id /\ Marked(s).m = s.m
                               /\ Marked(s).hot = s.hot /\ Marked(s) \in scores'
  BY <1>1, <1>2 DEF ScoreRow
<1>5. \A t \in scores' : \E s \in RebuiltScores : t = Marked(s)
  BY <1>1
<1> HIDE DEF Marked
<1>6. /\ \A s \in RebuiltScores :
           \/ s \in scores /\ s.m \notin rebuild.from .. rebuild.upto
           \/ s \in rebuild.fresh /\ s.m \in rebuild.from .. rebuild.upto
      /\ \A s \in scores : s.m \notin rebuild.from .. rebuild.upto => s \in RebuiltScores
      /\ rebuild.fresh \subseteq RebuiltScores
  BY <1>1 DEF ScoreInv, RebuildApart, RebuiltScores
<1>7. \A s, t \in RebuiltScores : s.id = t.id \/ s.m = t.m => s = t
  BY <1>1, <1>6 DEF ScoreInv, ScoresApart, RebuildApart
<1>8. \A s \in RebuiltScores : s.m \in 1 .. n
  <2>1. \A i \in rebuild.from .. rebuild.upto : i \in 1 .. n
    BY <1>2
  <2> QED BY <1>6, <2>1 DEF ScoreInv, ScoresApart, n
<1>9. ScoresApart'
  <2>1. \A s, t \in scores' : s.id = t.id \/ s.m = t.m => s = t
    <3> TAKE s, t \in scores'
    <3>1. PICK p \in RebuiltScores, q \in RebuiltScores : s = Marked(p) /\ t = Marked(q)
      BY <1>5
    <3> QED BY <3>1, <1>4, <1>7
  <2>2. \A t \in scores' : t.m \in 1 .. n
    BY <1>4, <1>5, <1>8
  <2> QED BY <1>3, <2>1, <2>2 DEF ScoresApart
<1>10. RebuildApart' /\ FreshRight'
  BY <1>1 DEF RebuildApart, FreshRight
<1>11. ASSUME ~overlapped' PROVE ScoresRight'
  <2>1. ~overlapped /\ at # "score" /\ ScoresRight /\ cursor <= rebuild.upto
    BY <1>1, <1>11 DEF ScoreInv, ScoresRight
  <2>2. \A s \in RebuiltScores : Rebuilt(s.m) \notin Unscored /\ s.hot = (Rebuilt(s.m) = "hot")
    <3> SUFFICES ASSUME NEW s \in RebuiltScores
                 PROVE  Rebuilt(s.m) \notin Unscored /\ s.hot = (Rebuilt(s.m) = "hot")
      OBVIOUS
    <3>1. CASE s \in rebuild.fresh
      BY <1>1, <3>1 DEF ScoreInv, FreshRight
    <3>2. CASE s \in scores /\ s.m \notin rebuild.from .. rebuild.upto
      <4>1. Rebuilt(s.m) = measurements[s.m]
        BY <1>2, <3>2 DEF Rebuilt
      <4> QED BY <2>1, <3>2, <4>1 DEF ScoresRight
    <3> QED BY <1>6, <3>1, <3>2
  <2>3. ASSUME NEW i \in 1 .. cursor, Rebuilt(i) \notin Unscored
        PROVE  \E s \in RebuiltScores : s.m = i
    <3>1. CASE i \in rebuild.from .. rebuild.upto
      BY <1>1, <1>6, <2>3, <3>1 DEF ScoreInv, FreshRight
    <3>2. CASE i \notin rebuild.from .. rebuild.upto
      <4>1. Rebuilt(i) = measurements[i]
        BY <1>2, <3>2 DEF Rebuilt
      <4> QED BY <1>6, <2>1, <2>3, <3>2, <4>1 DEF ScoresRight
    <3> QED BY <3>1, <3>2
  <2>4. \A t \in scores' : measurements'[t.m] \notin Unscored /\ t.hot = (measurements'[t.m] = "hot")
    BY <1>3, <1>4, <1>5, <1>8, <2>2
  <2>5. \A i \in 1 .. cursor : measurements'[i] \notin Unscored => \E t \in scores' : t.m = i
    <3> SUFFICES ASSUME NEW i \in 1 .. cursor, measurements'[i] \notin Unscored
                 PROVE  \E t \in scores' : t.m = i
      OBVIOUS
    <3>1. Rebuilt(i) \notin Unscored
      BY <1>2, <1>3
    <3> QED BY <1>4, <2>3, <3>1
  <2>6. \A i \in 1 .. cursor : measurements'[i] # "missing"
    <3> SUFFICES ASSUME NEW i \in 1 .. cursor PROVE Rebuilt(i) # "missing"
      BY <1>2, <1>3
    <3> QED BY <1>1, <2>1 DEF Rebuilt, ScoreInv, FreshRight, ScoresRight
  <2> QED BY <1>1, <2>1, <2>4, <2>5, <2>6 DEF ScoresRight
<1> QED BY <1>9, <1>10, <1>11 DEF ScoreInv

LEMMA StepScores ==
  ASSUME TypeInv, ScoreInv, [Next]_vars
  PROVE  ScoreInv'
<1>1. CASE \E heat \in Heat : Import(heat)
  BY <1>1, ImportScores
<1>2. CASE JobStep
  <2>1. CASE \E last \in cursor + 1 .. Len(measurements) : ScoreRead(last)
    BY <2>1, ScoreReadScores
  <2>2. CASE ScoreNothing \/ ScoreRollBack \/ ScoreRaises
    BY <2>2, ScoresStay DEF ScoreNothing, ScoreRollBack, ScoreRaises, tables, sequences
  <2>3. CASE ScoreCommit
    BY <2>3, ScoreCommitScores
  <2>4. CASE (\E last \in Unprocessed : DetectLoad(last)) \/ DetectNothing
    <3>1. /\ UNCHANGED <<tables, sequences, scoring, rebuild, overlapped>>
          /\ at' \in {"judge", "idle"}
      BY <2>4 DEF DetectLoad, DetectNothing
    <3> QED BY <3>1, ScoresStay DEF tables, sequences
  <2>5. CASE DetectJudge \/ DetectRollBack
    BY <2>5, ScoresStay DEF DetectJudge, DetectRollBack, tables, sequences
  <2>6. CASE DetectCommit
    BY <2>6, DetectCommitScores
  <2>7. CASE AlertNothing \/ AlertSend \/ AlertCommit
    BY <2>7, ScoresStay DEF AlertNothing, AlertSend, AlertCommit, tables, sequences
  <2> QED BY <1>2, <2>1, <2>2, <2>3, <2>4, <2>5, <2>6, <2>7 DEF JobStep
<1>3. CASE AlertFail \/ Crash \/ ManualDetect
  BY <1>3, ScoresStay DEF AlertFail, Crash, ManualDetect, tables, sequences
<1>4. CASE \E m \in DOMAIN measurements, heat \in Heat : RebuildDelete(m, heat)
  BY <1>4, RebuildDeleteScores
<1>5. CASE RebuildLoad \/ RebuildJudge
  <2>1. rebuild # None /\ RebuildTyped
    BY <1>5 DEF RebuildLoad, RebuildJudge, TypeInv
  <2>2. /\ rebuild'.from = rebuild.from /\ rebuild'.upto = rebuild.upto
        /\ rebuild'.heat = rebuild.heat /\ rebuild'.fresh = rebuild.fresh
        /\ rebuild'.gone = rebuild.gone
        /\ UNCHANGED <<measurements, cursor, scores, scoreIds, overlapped, at, scoring>>
    BY <1>5, <2>1 DEF RebuildLoad, RebuildJudge, RebuildTyped, tables, sequences, job
  <2> QED BY <2>1, <2>2, ScoresStay
<1>6. CASE RebuildCommit
  BY <1>6, RebuildCommitScores
<1>7. CASE RebuildRollBack \/ RebuildAbort
  BY <1>7, ScoresStay DEF RebuildRollBack, RebuildAbort, tables, sequences, job
<1>8. CASE UNCHANGED vars
  BY <1>8, ScoresStay DEF vars, tables, sequences, job
<1> QED BY <1>1, <1>2, <1>3, <1>4, <1>5, <1>6, <1>7, <1>8 DEF Next, RebuildStep

LEMMA SpecScores == Spec => []ScoreInv
<1>1. Init => ScoreInv
  BY DEF Init, ScoreInv, ScoresApart, RebuildApart, FreshRight, ScoresRight
<1> QED BY <1>1, StepScores, SpecTyped, PTL DEF Spec

\* Whatever the job and the rebuilds of the API do beside each other, a measurement
\* that the scoring has passed has one score at most, as the unique key and ON
\* CONFLICT DO NOTHING promise; and unless they did something beside each other, it
\* is the score of what the last verdict has made of the measurement.
THEOREM SpecScoredOnce == Spec => []ScoredOnce
<1>1. TypeInv /\ ScoreInv => ScoredOnce
  <2> SUFFICES ASSUME TypeInv, ScoreInv, NEW i \in 1 .. cursor,
                      NEW mine, mine = {s \in scores : s.m = i}
               PROVE  /\ Cardinality(mine) <= 1
                      /\ ~overlapped =>
                           {s.hot : s \in mine} =
                             IF measurements[i] = "none" THEN {} ELSE {measurements[i] = "hot"}
    BY DEF ScoredOnce
  <2>1. mine = {} \/ \E s \in mine : mine = {s}
    BY DEF ScoreInv, ScoresApart
  <2>2. Cardinality(mine) <= 1
    <3>1. ASSUME mine = {} PROVE Cardinality(mine) = 0
      BY <3>1, FS_EmptySet
    <3>2. ASSUME NEW s \in mine, mine = {s} PROVE Cardinality(mine) = 1
      BY <3>2, FS_Singleton
    <3> QED BY <2>1, <3>1, <3>2
  <2>3. ASSUME ~overlapped
        PROVE  {s.hot : s \in mine} =
                 IF measurements[i] = "none" THEN {} ELSE {measurements[i] = "hot"}
    <3>1. ScoresRight
      BY <2>3 DEF ScoreInv
    <3>2. CASE mine = {}
      <4>1. measurements[i] = "none"
        BY <3>1, <3>2 DEF ScoresRight, Unscored
      <4> QED BY <3>2, <4>1
    <3>3. CASE \E s \in mine : mine = {s}
      <4>1. PICK s \in mine : mine = {s}
        BY <3>3
      <4>2. measurements[i] \notin Unscored /\ s.hot = (measurements[i] = "hot")
        BY <3>1, <4>1 DEF ScoresRight
      <4>3. {t.hot : t \in mine} = {s.hot}
        BY <4>1
      <4> QED BY <4>2, <4>3 DEF Unscored
    <3> QED BY <2>1, <3>2, <3>3
  <2> QED BY <2>2, <2>3
<1> QED BY <1>1, SpecTyped, SpecScores, PTL
=============================================================================
