--------------------- MODULE DatabaseAvailabilityProofs ---------------------
(***************************************************************************)
(* What DatabaseAvailability guarantees for every number of services and   *)
(* recipients, and for any number of events, errors and crashes.           *)
(***************************************************************************)
EXTENDS DatabaseAvailability, FiniteSetTheorems, TLAPS

USE AvailabilityAssumption

-----------------------------------------------------------------------------
(***************************************************************************)
(* One observation keeps the tables in agreement and adds at most one      *)
(* event, which nobody has been told of.                                   *)
(***************************************************************************)
LEMMA ObservedTables ==
  ASSUME NEW tables \in Tables, NEW s \in Services, NEW up \in BOOLEAN
  PROVE  LET new == Observed(tables, s, up)
             n == Len(tables.events) + 1
         IN  /\ new \in Tables
             /\ \A t \in Services \ {s} : new.state[t] = tables.state[t]
             /\ new.state[s] = IF up THEN "available" ELSE "unavailable"
             /\ \/ /\ Transition(tables.state[s], up) = "none"
                   /\ new.events = tables.events
                \/ /\ Transition(tables.state[s], up) # "none"
                   /\ Len(new.events) = n
                   /\ \A i \in DOMAIN tables.events : new.events[i] = tables.events[i]
                   /\ new.events[n].service = s
                   /\ new.events[n].type = Transition(tables.state[s], up)
                   /\ ~new.events[n].delivered
<1> DEFINE type == Transition(tables.state[s], up)
           new == Observed(tables, s, up)
           n == Len(tables.events) + 1
<1>1. type \in {"unavailable", "recovered", "none"}
  BY DEF Transition
<1>2. /\ new.state = [tables.state EXCEPT ![s] = IF up THEN "available" ELSE "unavailable"]
      /\ new.events = IF type = "none" THEN tables.events
                      ELSE Append(tables.events, NewEvent(s, type))
      /\ new = [state |-> new.state, events |-> new.events]
  BY DEF Observed
<1> HIDE DEF type, new
<1>3. tables.state \in [Services -> Availability] /\ tables.events \in Seq(Event)
  BY DEF Tables
<1>4. new.state \in [Services -> Availability]
  BY <1>2, <1>3 DEF Availability
<1>5. CASE type = "none"
  BY <1>2, <1>3, <1>4, <1>5 DEF Tables, type, new
<1>6. CASE type # "none"
  <2> DEFINE e == NewEvent(s, type)
  <2>1. e \in Event /\ e.service = s /\ e.type = type /\ ~e.delivered
    BY <1>1, <1>6 DEF NewEvent, Event
  <2> HIDE DEF e
  <2>2. new.events = Append(tables.events, e)
    BY <1>2, <1>6 DEF e
  <2>3. /\ new.events \in Seq(Event) /\ Len(new.events) = n
        /\ \A i \in DOMAIN tables.events : new.events[i] = tables.events[i]
        /\ new.events[n] = e
    BY <1>3, <2>1, <2>2
  <2> QED
    BY <1>2, <1>3, <1>4, <1>6, <2>1, <2>3 DEF Tables, type, new
<1> QED
  BY <1>5, <1>6

LEMMA ObservedTells ==
  ASSUME NEW tables \in Tables, NEW s \in Services, NEW up \in BOOLEAN, Tell(tables)
  PROVE  Tell(Observed(tables, s, up))
<1> DEFINE new == Observed(tables, s, up)
           old == tables.events
           log == new.events
           n == Len(old) + 1
           type == Transition(tables.state[s], up)
<1>1. /\ new \in Tables
      /\ \A t \in Services \ {s} : new.state[t] = tables.state[t]
      /\ new.state[s] = IF up THEN "available" ELSE "unavailable"
      /\ \/ type = "none" /\ log = old
         \/ /\ type # "none"
            /\ Len(log) = n
            /\ \A i \in DOMAIN old : log[i] = old[i]
            /\ log[n].service = s
            /\ log[n].type = type
  BY ObservedTables
<1>2. /\ \A i \in DOMAIN old : Oldest(old, i) => old[i].type = "unavailable"
      /\ \A i, j \in DOMAIN old : Adjacent(old, i, j) => old[i].type # old[j].type
      /\ \A t \in Services : tables.state[t] = "unavailable" <=> Down(old, t)
  BY DEF Tell
<1>3. /\ type = "none" => (tables.state[s] = "unavailable" <=> ~up)
      /\ type = "unavailable" => ~up /\ tables.state[s] # "unavailable"
      /\ type = "recovered" => up /\ tables.state[s] = "unavailable"
      /\ type \in {"none", "unavailable", "recovered"}
  BY DEF Transition
<1>4. /\ old \in Seq(Event) /\ log \in Seq(Event)
      /\ \A i \in DOMAIN old : old[i].type \in {"unavailable", "recovered"}
  <2>1. old \in Seq(Event)
    BY DEF Tables
  <2>2. new \in Tables => log \in Seq(Event)
    <3> HIDE DEF new
    <3> QED
      BY DEF Tables
  <2>3. \A i \in DOMAIN old : old[i] \in Event
    <3> HIDE DEF old
    <3> QED
      BY <2>1
  <2> HIDE DEF new, old
  <2> QED
    BY <1>1, <2>1, <2>2, <2>3 DEF Event
<1> HIDE DEF new, old, log, type
<1>5. CASE type = "none"
  <2>1. log = old
    BY <1>1, <1>5
  <2>2. \A t \in Services : new.state[t] = "unavailable" <=> Down(log, t)
    BY <1>1, <1>2, <1>3, <1>5, <2>1
  <2> QED
    BY <1>2, <2>1, <2>2 DEF Tell, log, new
<1>6. CASE type # "none"
  <2>1. /\ Len(log) = n /\ n \in Nat \ {0}
        /\ \A i \in DOMAIN old : log[i] = old[i]
        /\ log[n].service = s /\ log[n].type = type
    BY <1>1, <1>4, <1>6
  <2>2. /\ DOMAIN log = 1 .. n /\ DOMAIN old = 1 .. n - 1
    BY <1>4, <2>1
  <2> HIDE DEF n
  <2>3. \A i \in DOMAIN old : Newest(log, i) <=> Newest(old, i) /\ old[i].service # s
    BY <2>1, <2>2 DEF Newest
  <2>4. Newest(log, n)
    BY <2>1, <2>2 DEF Newest
  <2>5. ASSUME NEW i \in DOMAIN log, Oldest(log, i)
        PROVE  log[i].type = "unavailable"
    <3>1. CASE i # n
      BY <1>2, <2>1, <2>2, <2>5, <3>1 DEF Oldest
    <3>2. CASE i = n
      <4>1. ~Down(old, s)
        BY <2>1, <2>2, <2>5, <3>2 DEF Down, Oldest
      <4> QED
        BY <1>2, <1>3, <1>6, <2>1, <3>2, <4>1
    <3> QED
      BY <3>1, <3>2
  <2>6. ASSUME NEW i \in DOMAIN log, NEW j \in DOMAIN log, Adjacent(log, i, j)
        PROVE  log[i].type # log[j].type
    <3>1. CASE j # n
      BY <1>2, <2>1, <2>2, <2>6, <3>1 DEF Adjacent
    <3>2. CASE j = n
      <4>1. i \in DOMAIN old /\ old[i].service = s /\ Newest(old, i) /\ log[i] = old[i]
        BY <2>1, <2>2, <2>6, <3>2 DEF Adjacent, Newest
      <4>2. Down(old, s) <=> old[i].type = "unavailable"
        BY <2>2, <4>1 DEF Down, Newest
      <4> QED
        BY <1>2, <1>3, <1>4, <1>6, <2>1, <3>2, <4>1, <4>2
    <3> QED
      BY <3>1, <3>2
  <2>7. ASSUME NEW t \in Services
        PROVE  new.state[t] = "unavailable" <=> Down(log, t)
    <3>1. CASE t = s
      <4>1. \A i \in DOMAIN log : log[i].service = s /\ Newest(log, i) => i = n
        BY <2>1, <2>2, <2>3
      <4>2. n \in DOMAIN log
        BY <2>1, <2>2
      <4>3. Down(log, s) <=> type = "unavailable"
        <5>1. log[n].service = s /\ Newest(log, n) /\ log[n].type = type
          BY <2>1, <2>4
        <5> QED
          BY <4>1, <4>2, <5>1 DEF Down
      <4> QED
        BY <1>1, <1>3, <1>6, <3>1, <4>3
    <3>2. CASE t # s
      <4>1. Down(log, t) <=> Down(old, t)
        BY <2>1, <2>2, <2>3, <3>2 DEF Down
      <4> QED
        BY <1>1, <1>2, <3>2, <4>1
    <3> QED
      BY <3>1, <3>2
  <2> QED
    BY <2>5, <2>6, <2>7 DEF Tell, log, new
<1> QED
  BY <1>5, <1>6 DEF new

-----------------------------------------------------------------------------
(***************************************************************************)
(* The inductive invariant.  The open transaction agrees with itself and   *)
(* extends the file; nobody has been told of what is not in the file; the  *)
(* recipients the loop has passed have the group in hand; and, while no    *)
(* mail has raised, what the loop has left behind has reached everyone.    *)
(***************************************************************************)
ToRecord(tables, n) ==
  {s \in Services : s >= n /\ Transition(tables.state[s], s \notin down) # "none"}

Drafting ==
  pc = "record" =>
    /\ Tell(draft)
    /\ Len(draft.events) >= Len(events)
    /\ \A i \in DOMAIN events : draft.events[i] = events[i]
    /\ \A i \in DOMAIN draft.events : i > Len(events) => ~draft.events[i].delivered
    /\ Len(draft.events) + Cardinality(ToRecord(draft, next)) <= MaxEvents

NotYetTold ==
  \A r \in Recipients, i \in EventIds : i > Len(events) => copies[r][i] = 0

Delivering ==
  /\ pc \notin {"deliver", "mark"} => pending = {}
  /\ \A i \in pending : ~events[i].delivered
  /\ \A r \in Recipients, i \in Group : InHand(r, i) => copies[r][i] >= 1
  /\ pc \in {"deliver", "mark"} /\ mailErrors = 0 =>
       \A r \in Recipients, i \in DOMAIN events \ pending : copies[r][i] >= 1

Inv == /\ TypeOK /\ EventsTellState /\ Drafting /\ NotYetTold /\ Delivering
       /\ DeliveredReachedAll /\ CopiesAccounted /\ NoticesInOrder

\* What can excuse a further copy.
Errors == mailErrors + storeErrors + crashes

LEMMA Types ==
  ASSUME TypeOK
  PROVE  /\ File \in Tables /\ draft \in Tables
         /\ state \in [Services -> Availability] /\ events \in Seq(Event)
         /\ DOMAIN events = 1 .. Len(events) /\ Len(events) \in Nat
         /\ DOMAIN events \subseteq EventIds
         /\ \A r \in Recipients, i \in EventIds : copies[r][i] \in Nat
         /\ Errors \in Nat
<1>1. state \in [Services -> Availability] /\ events \in Seq(Event)
  BY DEF TypeOK, Tables, File
<1>2. DOMAIN events = 1 .. Len(events) /\ Len(events) \in Nat
  BY <1>1
<1>3. DOMAIN events \subseteq EventIds
  BY <1>2 DEF TypeOK, EventIds
<1> QED
  BY <1>1, <1>2, <1>3 DEF TypeOK, Errors

\* The copies that m calls can leave, and n calls, if they are more.
LEMMA MoreCalls ==
  ASSUME NEW m \in Nat, NEW n \in Nat
  PROVE  /\ SmtpTries * m \in Nat
         /\ m <= n => SmtpTries * m <= SmtpTries * n
         /\ m + 1 <= n => SmtpTries * m + SmtpTries <= SmtpTries * n
<1>1. SmtpTries \in Nat
  OBVIOUS
<1>2. ASSUME NEW k \in Nat PROVE SmtpTries * k \in Nat
  BY <1>1
<1>3. ASSUME m <= n PROVE SmtpTries * m <= SmtpTries * n
  <2>1. n - m \in Nat /\ SmtpTries * n = SmtpTries * m + SmtpTries * (n - m)
    BY <1>1, <1>3
  <2>2. SmtpTries * (n - m) \in Nat
    BY <1>2, <2>1
  <2> QED
    BY <1>2, <2>1, <2>2
<1>4. ASSUME m + 1 <= n PROVE SmtpTries * m + SmtpTries <= SmtpTries * n
  <2>1. n - m - 1 \in Nat
        /\ SmtpTries * n = SmtpTries * m + SmtpTries + SmtpTries * (n - m - 1)
    BY <1>1, <1>4
  <2>2. SmtpTries * (n - m - 1) \in Nat
    BY <1>2, <2>1
  <2> QED
    BY <1>1, <1>2, <2>1, <2>2
<1> QED
  BY <1>2, <1>3, <1>4

\* What a count of copies may be after a step: no call was made and no excuse was
\* lost, or one call was made and one excuse was found.
LEMMA Accounted ==
  ASSUME NEW m \in Nat, NEW n \in Nat, NEW c \in Nat, NEW d \in Nat,
         c <= SmtpTries * m,
         (d <= c /\ m <= n) \/ (d <= c + SmtpTries /\ m + 1 <= n)
  PROVE  d <= SmtpTries * n
<1> DEFINE p == SmtpTries * m
           q == SmtpTries * n
<1>1. /\ p \in Nat /\ q \in Nat /\ SmtpTries \in Nat
      /\ m <= n => p <= q
      /\ m + 1 <= n => p + SmtpTries <= q
  BY MoreCalls
<1> HIDE DEF p, q
<1>2. c <= p
  BY DEF p
<1>3. d <= q
  BY <1>1, <1>2
<1> QED
  BY <1>3 DEF q

LEMMA GroupFacts ==
  ASSUME TypeOK
  PROVE  /\ Group \subseteq pending /\ pending \subseteq DOMAIN events
         /\ pending \subseteq EventIds
         /\ \A i \in Group, j \in pending : j < i => j \in Group
<1>1. pending \subseteq DOMAIN events /\ DOMAIN events \subseteq EventIds
  BY Types DEF TypeOK
<1>2. \A i \in Group, j \in pending : j < i => j \in Group
  BY <1>1 DEF Group, EventIds
<1> QED
  BY <1>1, <1>2 DEF Group

\* A run that ends has an error to show unless it has delivered everything.
LEMMA RestInv ==
  ASSUME Inv, Rest, UNCHANGED <<state, events, copies, mailErrors>>,
         storeErrors' \in 0 .. MaxStoreErrors, crashes' \in 0 .. MaxCrashes,
         Errors' \in Nat, Errors' >= Errors, pending # {} => Errors' >= Errors + 1
  PROVE  Inv'
<1>1. /\ pc' = "idle" /\ down' = {} /\ draft' = NoDraft /\ pending' = {} /\ next' = 1
      /\ UNCHANGED <<state, events, copies, mailErrors>>
  BY DEF Rest
<1>2. NoDraft \in Tables
  BY DEF NoDraft, Tables, Availability
<1>3. TypeOK'
  BY <1>1, <1>2 DEF Inv, TypeOK, File, Recipients
<1>4. EventsTellState' /\ NotYetTold' /\ DeliveredReachedAll' /\ NoticesInOrder'
  BY <1>1 DEF Inv, EventsTellState, File, NotYetTold, DeliveredReachedAll, NoticesInOrder
<1>5. Drafting'
  BY <1>1 DEF Drafting
<1>6. Delivering'
  BY <1>1 DEF Delivering, InHand
<1>7. CopiesAccounted'
  <2> SUFFICES ASSUME NEW r \in Recipients, NEW i \in DOMAIN events
               PROVE  copies[r][i] <= SmtpTries * (Errors' + (IF events[i].delivered THEN 1 ELSE 0))
    BY <1>1 DEF CopiesAccounted, InHand, Errors
  <2>1. copies[r][i] <=
          SmtpTries * (Errors + (IF events[i].delivered \/ InHand(r, i) THEN 1 ELSE 0))
    BY DEF Inv, CopiesAccounted, Errors
  <2>2. InHand(r, i) => pending # {}
    BY DEF InHand, Group
  <2>3. Errors \in Nat /\ copies[r][i] \in Nat
    BY Types DEF Inv
  <2>4. PICK old \in Nat, new \in Nat : old = Errors /\ new = Errors'
    BY <2>3
  <2> DEFINE m == old + (IF events[i].delivered \/ InHand(r, i) THEN 1 ELSE 0)
             n == new + (IF events[i].delivered THEN 1 ELSE 0)
  <2>5. m \in Nat /\ n \in Nat /\ m <= n
    <3>1. new >= old /\ (InHand(r, i) => new >= old + 1)
      BY <2>2, <2>4
    <3> QED
      BY <3>1
  <2>6. copies[r][i] <= SmtpTries * m
    BY <2>1, <2>4
  <2> HIDE DEF m, n
  <2>7. copies[r][i] <= SmtpTries * n
    BY <2>3, <2>5, <2>6, Accounted
  <2> QED
    BY <2>4, <2>7 DEF n
<1> QED
  BY <1>3, <1>4, <1>5, <1>6, <1>7 DEF Inv

\* Before it delivers, a run leaves the file and what people know as they are.
LEMMA NotDelivering ==
  ASSUME Inv, TypeOK', Drafting', pc \notin {"deliver", "mark"},
         pc' \notin {"deliver", "mark"},
         UNCHANGED <<state, events, pending, copies, mailErrors, storeErrors, crashes>>
  PROVE  Inv'
<1>1. EventsTellState' /\ NotYetTold' /\ DeliveredReachedAll' /\ NoticesInOrder'
  BY DEF Inv, EventsTellState, File, NotYetTold, DeliveredReachedAll, NoticesInOrder
<1>2. Delivering'
  BY DEF Inv, Delivering, InHand
<1>3. CopiesAccounted'
  BY DEF Inv, CopiesAccounted, InHand
<1> QED
  BY <1>1, <1>2, <1>3 DEF Inv

-----------------------------------------------------------------------------
(***************************************************************************)
(* Every action keeps the invariant.                                       *)
(***************************************************************************)
LEMMA CheckInv ==
  ASSUME Inv, NEW found \in SUBSET Services, Check(found) PROVE Inv'
<1>1. /\ pc = "idle" /\ pc' = "record" /\ down' = found /\ draft' = File
      /\ UNCHANGED <<state, events, pending, next, copies, mailErrors, storeErrors, crashes>>
      /\ Len(events) + Cardinality({s \in Services :
           Transition(state[s], s \notin found) # "none"}) <= MaxEvents
  BY DEF Check
<1>2. next = 1
  BY <1>1 DEF Inv, TypeOK
<1>3. TypeOK'
  BY <1>1, <1>2 DEF Inv, TypeOK, File
<1>4. Drafting'
  <2>1. ToRecord(draft, next)' = {s \in Services : Transition(state[s], s \notin found) # "none"}
    BY <1>1, <1>2 DEF ToRecord, Services, File
  <2>2. Tell(draft)'
    BY <1>1 DEF Inv, EventsTellState, Tell
  <2>3. draft'.events = events /\ Len(draft'.events) = Len(events)
    BY <1>1 DEF File
  <2>4. Len(draft'.events) + Cardinality(ToRecord(draft, next)') <= MaxEvents
    BY <1>1, <2>1, <2>3
  <2>5. DOMAIN events = 1 .. Len(events) /\ Len(events) \in Nat
    BY Types DEF Inv
  <2>6. \A i \in DOMAIN events : ~(i > Len(events))
    BY <2>5
  <2> QED
    BY <1>1, <2>2, <2>3, <2>4, <2>5, <2>6 DEF Drafting
<1> QED
  BY <1>1, <1>3, <1>4, NotDelivering

LEMMA RecordObservationInv ==
  ASSUME Inv, RecordObservation PROVE Inv'
<1> DEFINE up == next \notin down
           new == Observed(draft, next, up)
<1>1. /\ pc = "record" /\ next \in Services
      /\ draft' = new /\ next' = next + 1
      /\ UNCHANGED <<state, events, pc, down, pending, copies, mailErrors, storeErrors, crashes>>
  BY DEF RecordObservation
<1>2. draft \in Tables /\ up \in BOOLEAN
  BY DEF Inv, TypeOK
<1>3. /\ new \in Tables
      /\ \A t \in Services \ {next} : new.state[t] = draft.state[t]
      /\ \/ /\ Transition(draft.state[next], up) = "none"
            /\ new.events = draft.events
         \/ /\ Transition(draft.state[next], up) # "none"
            /\ Len(new.events) = Len(draft.events) + 1
            /\ \A i \in DOMAIN draft.events : new.events[i] = draft.events[i]
            /\ ~new.events[Len(draft.events) + 1].delivered
  <2> HIDE DEF up
  <2> QED
    BY <1>1, <1>2, ObservedTables
<1>4. Tell(new)
  BY <1>1, <1>2, ObservedTells DEF Inv, Drafting
<1> HIDE DEF new
<1>5. /\ Len(draft.events) >= Len(events)
      /\ \A i \in DOMAIN events : draft.events[i] = events[i]
      /\ \A i \in DOMAIN draft.events : i > Len(events) => ~draft.events[i].delivered
      /\ Len(draft.events) + Cardinality(ToRecord(draft, next)) <= MaxEvents
  BY <1>1 DEF Inv, Drafting
<1>6. /\ draft.events \in Seq(Event) /\ new.events \in Seq(Event)
      /\ Len(draft.events) \in Nat /\ Len(events) \in Nat
      /\ DOMAIN draft.events = 1 .. Len(draft.events) /\ DOMAIN events = 1 .. Len(events)
      /\ DOMAIN new.events = 1 .. Len(new.events)
  BY <1>2, <1>3, Types DEF Inv, Tables
<1> DEFINE A == ToRecord(draft, next)
           B == ToRecord(draft, next)'
<1>7. /\ A = IF Transition(draft.state[next], up) # "none" THEN B \cup {next} ELSE B
      /\ next \notin B /\ IsFiniteSet(A) /\ IsFiniteSet(B)
  <2>1. B = {s \in Services : s >= next + 1 /\ Transition(new.state[s], s \notin down) # "none"}
    BY <1>1 DEF ToRecord
  <2>2. A = {s \in Services : s >= next /\ Transition(draft.state[s], s \notin down) # "none"}
    BY DEF ToRecord
  <2>3. IsFiniteSet(Services)
    BY FS_Interval DEF Services
  <2>4. \A s \in Services : s >= next <=> (s >= next + 1 \/ s = next)
    BY <1>1 DEF Services
  <2>5. \A s \in Services : s >= next + 1 => s # next
    BY <1>1 DEF Services
  <2>6. \A s \in Services : s >= next + 1 => new.state[s] = draft.state[s]
    BY <1>3, <2>5
  <2> HIDE DEF A, B
  <2>7. A \subseteq Services /\ B \subseteq Services
    BY <2>1, <2>2
  <2>8. IsFiniteSet(A) /\ IsFiniteSet(B)
    BY <2>3, <2>7, FS_Subset
  <2>9. next \notin B
    BY <2>1, <2>5
  <2>10. \A s \in Services : s \in B <=> s \in A /\ s # next
    BY <2>1, <2>2, <2>4, <2>5, <2>6
  <2>11. next \in A <=> Transition(draft.state[next], up) # "none"
    BY <1>1, <2>2, <2>4
  <2> QED
    BY <1>1, <2>7, <2>8, <2>9, <2>10, <2>11
<1>8. Len(new.events) + Cardinality(B) <= MaxEvents
  <2> HIDE DEF A, B
  <2>1. Cardinality(A) \in Nat /\ Cardinality(B) \in Nat
    BY <1>7, FS_CardinalityType
  <2>2. Cardinality(B \cup {next}) = Cardinality(B) + 1
    BY <1>7, FS_AddElement
  <2>3. Len(draft.events) + Cardinality(A) <= MaxEvents
    BY <1>5 DEF A
  <2> QED
    BY <1>3, <1>6, <1>7, <2>1, <2>2, <2>3
<1>9. Drafting'
  <2>1. Len(new.events) >= Len(events)
    BY <1>3, <1>5, <1>6
  <2>2. \A i \in DOMAIN events : new.events[i] = events[i]
    BY <1>3, <1>5, <1>6
  <2>3. \A i \in DOMAIN new.events : i > Len(events) => ~new.events[i].delivered
    BY <1>3, <1>5, <1>6
  <2> QED
    BY <1>1, <1>4, <1>8, <2>1, <2>2, <2>3 DEF Drafting
<1>10. TypeOK'
  BY <1>1, <1>3 DEF Inv, TypeOK, File, Services
<1> QED
  BY <1>1, <1>9, <1>10, NotDelivering

LEMMA CommitInv ==
  ASSUME Inv, Commit PROVE Inv'
<1>1. /\ pc = "record" /\ next \notin Services
      /\ state' = draft.state /\ events' = draft.events
      /\ pc' = "load" /\ draft' = NoDraft /\ down' = {} /\ next' = 1
      /\ UNCHANGED <<pending, copies, mailErrors, storeErrors, crashes>>
  BY DEF Commit
<1>2. /\ Tell(draft)
      /\ Len(events') >= Len(events)
      /\ \A i \in DOMAIN events : events'[i] = events[i]
      /\ \A i \in DOMAIN events' : i > Len(events) => ~events'[i].delivered
      /\ Len(events') + Cardinality(ToRecord(draft, next)) <= MaxEvents
  BY <1>1 DEF Inv, Drafting
<1>3. File' = draft /\ File' \in Tables
  BY <1>1 DEF Inv, TypeOK, File, Tables
<1>4. events' \in Seq(Event) /\ Len(events') \in Nat /\ DOMAIN events' = 1 .. Len(events')
  BY <1>3 DEF File, Tables
<1>5. Len(events') <= MaxEvents
  <2>1. IsFiniteSet(ToRecord(draft, next))
    <3>1. IsFiniteSet(Services)
      BY FS_Interval DEF Services
    <3>2. ToRecord(draft, next) \subseteq Services
      BY DEF ToRecord
    <3> QED
      BY <3>1, <3>2, FS_Subset
  <2>2. Cardinality(ToRecord(draft, next)) \in Nat
    BY <2>1, FS_CardinalityType
  <2> QED
    BY <1>2, <1>4, <2>2
<1>6. pending = {} /\ pending' = {}
  BY <1>1 DEF Inv, Delivering
<1>7. NoDraft \in Tables
  BY DEF NoDraft, Tables, Availability
<1>8. TypeOK'
  BY <1>1, <1>3, <1>5, <1>6, <1>7 DEF Inv, TypeOK
<1>9. /\ DOMAIN events = 1 .. Len(events) /\ Len(events) \in Nat
      /\ DOMAIN events' \subseteq EventIds
  BY <1>8, <1>4, <1>5, Types DEF Inv, EventIds
<1>10. \A i \in DOMAIN events' \ DOMAIN events :
         ~events'[i].delivered /\ \A r \in Recipients : copies[r][i] = 0
  BY <1>2, <1>4, <1>9 DEF Inv, NotYetTold
<1>11. EventsTellState' /\ Drafting' /\ NotYetTold'
  <2>1. EventsTellState'
    BY <1>2, <1>3 DEF EventsTellState
  <2>2. Drafting'
    BY <1>1 DEF Drafting
  <2>3. \A r \in Recipients, i \in EventIds : i > Len(events') => copies[r][i] = 0
    BY <1>2, <1>4, <1>9 DEF Inv, NotYetTold, EventIds
  <2> QED
    BY <1>1, <2>1, <2>2, <2>3 DEF NotYetTold
<1>12. Delivering'
  BY <1>1, <1>6 DEF Delivering, InHand
<1>13. DeliveredReachedAll'
  BY <1>1, <1>2, <1>10 DEF Inv, DeliveredReachedAll
<1>14. CopiesAccounted'
  <2> SUFFICES ASSUME NEW r \in Recipients, NEW i \in DOMAIN events'
               PROVE  copies[r][i] <= SmtpTries * (Errors + (IF events'[i].delivered THEN 1 ELSE 0))
    BY <1>1 DEF CopiesAccounted, InHand, Errors
  <2>1. CASE i \in DOMAIN events
    BY <1>1, <1>2, <2>1 DEF Inv, CopiesAccounted, InHand, Errors
  <2>2. CASE i \notin DOMAIN events
    <3>1. Errors + (IF events'[i].delivered THEN 1 ELSE 0) \in Nat
      BY Types DEF Inv
    <3>2. SmtpTries * (Errors + (IF events'[i].delivered THEN 1 ELSE 0)) \in Nat
      BY <3>1, MoreCalls
    <3> QED
      BY <1>10, <2>2, <3>2
  <2> QED
    BY <2>1, <2>2
<1>15. NoticesInOrder'
  BY <1>1, <1>4, <1>9, <1>10 DEF Inv, NoticesInOrder
<1> QED
  BY <1>8, <1>11, <1>12, <1>13, <1>14, <1>15 DEF Inv

LEMMA LoadInv ==
  ASSUME Inv, Load PROVE Inv'
<1>1. /\ pc = "load" /\ pending' = Undelivered /\ pc' = "deliver"
      /\ UNCHANGED <<state, events, down, draft, next, copies, mailErrors, storeErrors, crashes>>
  BY DEF Load
<1>2. next = 1
  BY <1>1 DEF Inv, TypeOK
<1>3. TypeOK'
  BY <1>1, <1>2 DEF Inv, TypeOK, File, Undelivered, Recipients
<1>4. EventsTellState' /\ Drafting' /\ NotYetTold' /\ DeliveredReachedAll' /\ NoticesInOrder'
  BY <1>1 DEF Inv, EventsTellState, File, Drafting, NotYetTold, DeliveredReachedAll,
              NoticesInOrder
<1>5. \A r \in Recipients : \A i : ~InHand(r, i) /\ ~InHand(r, i)'
  BY <1>1, <1>2 DEF InHand, Recipients
<1>6. CopiesAccounted'
  BY <1>1, <1>5 DEF Inv, CopiesAccounted
<1>7. Delivering'
  BY <1>1, <1>5 DEF Inv, DeliveredReachedAll, Delivering, Undelivered
<1> QED
  BY <1>3, <1>4, <1>6, <1>7 DEF Inv

LEMMA StoreFailsInv ==
  ASSUME Inv, StoreFails PROVE Inv'
<1>1. /\ Rest /\ UNCHANGED <<state, events, copies, mailErrors, crashes>>
      /\ storeErrors < MaxStoreErrors /\ storeErrors' = storeErrors + 1
  BY DEF StoreFails, StoreError
<1> QED
  BY <1>1, RestInv DEF Inv, TypeOK, Errors

LEMMA DoneInv ==
  ASSUME Inv, Done PROVE Inv'
<1>1. /\ Rest /\ UNCHANGED <<state, events, copies, mailErrors, storeErrors, crashes>>
      /\ pending = {}
  BY DEF Done
<1> QED
  BY <1>1, RestInv DEF Inv, TypeOK, Errors

LEMMA CrashInv ==
  ASSUME Inv, Crash PROVE Inv'
<1>1. /\ Rest /\ UNCHANGED <<state, events, copies, mailErrors, storeErrors>>
      /\ crashes < MaxCrashes /\ crashes' = crashes + 1
  BY DEF Crash
<1> QED
  BY <1>1, RestInv DEF Inv, TypeOK, Errors

-----------------------------------------------------------------------------
\* A call that leaves k mails to recipient n adds k copies of each event of the group.
LEMMA MailedFacts ==
  ASSUME TypeOK, NEW n \in Recipients, NEW k \in Nat
  PROVE  /\ Mailed(n, k) \in [Recipients -> [EventIds -> Nat]]
         /\ \A r \in Recipients, i \in EventIds :
              Mailed(n, k)[r][i] =
                IF r = n /\ i \in Group THEN copies[r][i] + k ELSE copies[r][i]
<1>1. copies \in [Recipients -> [EventIds -> Nat]]
  BY DEF TypeOK
<1> DEFINE row == [i \in EventIds |-> IF i \in Group THEN copies[n][i] + k ELSE copies[n][i]]
<1>2. Mailed(n, k) = [copies EXCEPT ![n] = row]
  BY DEF Mailed
<1>3. row \in [EventIds -> Nat]
  BY <1>1
<1>4. \A i \in EventIds : row[i] = IF i \in Group THEN copies[n][i] + k ELSE copies[n][i]
  OBVIOUS
<1> HIDE DEF row
<1> QED
  BY <1>1, <1>2, <1>3, <1>4

\* When the loop goes on with the next group, nothing is in hand.
LEMMA NextGroupFacts ==
  ASSUME NextGroup
  PROVE  /\ pending' = pending \ Group /\ next' = 1 /\ pc' = "deliver"
         /\ 1 \in Recipients
         /\ \A r \in Recipients : \A i : ~InHand(r, i)'
  BY DEF NextGroup, InHand, Recipients

LEMMA MailInv ==
  ASSUME Inv, Mail PROVE Inv'
<1>1. /\ pc = "deliver" /\ pending # {}
      /\ \E k \in 1 .. SmtpTries : copies' = Mailed(next, k)
      /\ next' = next + 1
      /\ pc' = IF next = RecipientCount THEN "mark" ELSE "deliver"
      /\ UNCHANGED <<state, events, down, draft, pending, mailErrors, storeErrors, crashes>>
  BY DEF Mail, LastRecipient
<1>2. next \in Recipients
  BY <1>1 DEF Inv, TypeOK
<1> PICK k \in 1 .. SmtpTries : copies' = Mailed(next, k)
  BY <1>1
<1>k. k \in Nat /\ SmtpTries \in Nat /\ 1 <= k /\ k <= SmtpTries
  OBVIOUS
<1>3. /\ copies' \in [Recipients -> [EventIds -> Nat]]
      /\ \A r \in Recipients, i \in EventIds :
           copies'[r][i] = IF r = next /\ i \in Group THEN copies[r][i] + k ELSE copies[r][i]
  BY <1>k, <1>2, MailedFacts DEF Inv
<1>4. /\ Group \subseteq pending /\ pending \subseteq DOMAIN events
      /\ DOMAIN events \subseteq EventIds /\ DOMAIN events = 1 .. Len(events)
      /\ \A i \in Group, j \in pending : j < i => j \in Group
      /\ \A r \in Recipients, i \in EventIds : copies[r][i] \in Nat
      /\ Errors \in Nat
  BY GroupFacts, Types DEF Inv
<1>5. /\ \A i \in pending : ~events[i].delivered
      /\ \A r \in Recipients, i \in Group : InHand(r, i) => copies[r][i] >= 1
      /\ mailErrors = 0 =>
           \A r \in Recipients, i \in DOMAIN events \ pending : copies[r][i] >= 1
  BY <1>1 DEF Inv, Delivering
<1>6. \A r \in Recipients : \A i : /\ InHand(r, i) <=> i \in Group /\ r < next
                                   /\ InHand(r, i)' <=> i \in Group /\ r <= next
  <2>1. Group' = Group
    BY <1>1 DEF Group
  <2>2. \A r \in Recipients : r < next + 1 <=> r <= next
    BY <1>2 DEF Recipients
  <2>3. next = RecipientCount => \A r \in Recipients : r <= next
    BY <1>2 DEF Recipients
  <2> QED
    BY <1>1, <2>1, <2>2, <2>3 DEF InHand
<1>7. TypeOK'
  <2>1. next' \in Nat /\ (pc' = "deliver" => next' \in Recipients)
    BY <1>1, <1>2 DEF Recipients
  <2> QED
    BY <1>1, <1>3, <2>1 DEF Inv, TypeOK, File
<1>8. EventsTellState' /\ Drafting'
  BY <1>1 DEF Inv, EventsTellState, File, Drafting
<1>9. NotYetTold'
  <2>1. \A i \in EventIds : i > Len(events) => i \notin Group
    BY <1>4 DEF EventIds
  <2> QED
    BY <1>1, <1>3, <2>1 DEF Inv, NotYetTold
<1>10. \A r \in Recipients, i \in DOMAIN events : copies[r][i] >= 1 => copies'[r][i] >= 1
  BY <1>k, <1>3, <1>4
<1>11. \A i \in Group : copies'[next][i] >= 1
  BY <1>k, <1>2, <1>3, <1>4
<1>12. \A r \in Recipients, i \in Group : r <= next => copies'[r][i] >= 1
  <2>1. \A r \in Recipients : r <= next => r < next \/ r = next
    BY <1>2 DEF Recipients
  <2> QED
    BY <1>4, <1>5, <1>6, <1>10, <1>11, <2>1
<1>13. Delivering'
  <2>1. pc' \in {"deliver", "mark"}
    BY <1>1
  <2>2. Group' = Group
    BY <1>1 DEF Group
  <2> QED
    BY <1>1, <1>4, <1>5, <1>6, <1>10, <1>12, <2>1, <2>2 DEF Delivering
<1>14. DeliveredReachedAll'
  BY <1>1, <1>10 DEF Inv, DeliveredReachedAll
<1>15. CopiesAccounted'
  <2> SUFFICES ASSUME NEW r \in Recipients, NEW i \in DOMAIN events
               PROVE  copies'[r][i] <= SmtpTries *
                        (Errors + (IF events[i].delivered \/ InHand(r, i)' THEN 1 ELSE 0))
    BY <1>1 DEF CopiesAccounted, Errors
  <2> DEFINE m == Errors + (IF events[i].delivered \/ InHand(r, i) THEN 1 ELSE 0)
             n == Errors + (IF events[i].delivered \/ InHand(r, i)' THEN 1 ELSE 0)
  <2>1. copies[r][i] <= SmtpTries * m
    BY DEF Inv, CopiesAccounted, Errors
  <2>2. /\ m \in Nat /\ n \in Nat
        /\ copies[r][i] \in Nat /\ copies'[r][i] \in Nat
    BY <1>3, <1>4
  <2>3. CASE r = next /\ i \in Group
    <3>1. ~events[i].delivered /\ ~InHand(r, i) /\ InHand(r, i)'
      <4>1. ~(next < next) /\ next <= next
        BY <1>2 DEF Recipients
      <4> QED
        BY <1>4, <1>5, <1>6, <2>3, <4>1
    <3>2. copies'[r][i] <= copies[r][i] + SmtpTries
      BY <1>k, <1>3, <1>4, <2>3
    <3>3. m + 1 <= n
      BY <1>4, <3>1
    <3> HIDE DEF m, n
    <3>4. copies'[r][i] <= SmtpTries * n
      BY <2>1, <2>2, <3>2, <3>3, Accounted
    <3> QED
      BY <3>4 DEF n
  <2>4. CASE ~(r = next /\ i \in Group)
    <3>1. InHand(r, i) => InHand(r, i)'
      <4>1. r < next => r <= next
        BY <1>2 DEF Recipients
      <4> QED
        BY <1>6, <4>1
    <3>2. copies'[r][i] <= copies[r][i]
      BY <1>3, <1>4, <2>4
    <3>3. m <= n
      BY <1>4, <3>1
    <3> HIDE DEF m, n
    <3>4. copies'[r][i] <= SmtpTries * n
      BY <2>1, <2>2, <3>2, <3>3, Accounted
    <3> QED
      BY <3>4 DEF n
  <2> QED
    BY <2>3, <2>4
<1>16. NoticesInOrder'
  <2> SUFFICES ASSUME mailErrors = 0, NEW r \in Recipients, NEW i \in DOMAIN events,
                      NEW j \in DOMAIN events, i < j, copies'[r][j] >= 1
               PROVE  copies'[r][i] >= 1
    BY <1>1 DEF NoticesInOrder
  <2>1. CASE copies[r][j] >= 1
    BY <1>10, <2>1 DEF Inv, NoticesInOrder
  <2>2. CASE ~(copies[r][j] >= 1)
    <3>1. r = next /\ j \in Group
      BY <1>3, <1>4, <2>2
    <3>2. CASE i \in pending
      BY <1>4, <1>11, <3>1, <3>2
    <3>3. CASE i \notin pending
      BY <1>5, <1>10, <3>3
    <3> QED
      BY <3>2, <3>3
  <2> QED
    BY <2>1, <2>2
<1> QED
  BY <1>7, <1>8, <1>9, <1>13, <1>14, <1>15, <1>16 DEF Inv

LEMMA MailRaisesInv ==
  ASSUME Inv, MailRaises PROVE Inv'
<1>1. /\ pc = "deliver" /\ pending # {} /\ NextGroup
      /\ mailErrors < MaxMailErrors /\ mailErrors' = mailErrors + 1
      /\ \E k \in 0 .. SmtpTries : copies' = Mailed(next, k)
      /\ UNCHANGED <<state, events, down, draft, storeErrors, crashes>>
  BY DEF MailRaises
<1>2. /\ pending' = pending \ Group /\ next' = 1 /\ pc' = "deliver" /\ 1 \in Recipients
      /\ \A r \in Recipients : \A i : ~InHand(r, i)'
  BY <1>1, NextGroupFacts
<1> PICK k \in 0 .. SmtpTries : copies' = Mailed(next, k)
  BY <1>1
<1>k. k \in Nat /\ SmtpTries \in Nat /\ k <= SmtpTries
  OBVIOUS
<1>3. /\ copies' \in [Recipients -> [EventIds -> Nat]]
      /\ \A r \in Recipients, i \in EventIds :
           \/ copies'[r][i] = copies[r][i]
           \/ r = next /\ i \in Group /\ copies'[r][i] = copies[r][i] + k
  <2>1. TypeOK /\ next \in Recipients
    BY <1>1 DEF Inv, TypeOK
  <2> QED
    BY <1>k, <2>1, MailedFacts
<1>4. /\ Group \subseteq pending /\ pending \subseteq DOMAIN events
      /\ DOMAIN events \subseteq EventIds /\ DOMAIN events = 1 .. Len(events)
      /\ \A r \in Recipients, i \in EventIds : copies[r][i] \in Nat
      /\ Errors \in Nat
  BY GroupFacts, Types DEF Inv
<1>5. mailErrors \in Nat /\ mailErrors' \in 0 .. MaxMailErrors /\ mailErrors' # 0
  BY <1>1 DEF Inv, TypeOK
<1>6. TypeOK'
  BY <1>1, <1>2, <1>3, <1>5 DEF Inv, TypeOK, File
<1>7. EventsTellState' /\ Drafting' /\ NoticesInOrder'
  BY <1>1, <1>2, <1>5 DEF Inv, EventsTellState, File, Drafting, NoticesInOrder
<1>8. NotYetTold'
  <2>1. \A i \in EventIds : i > Len(events) => i \notin Group
    BY <1>4 DEF EventIds
  <2> QED
    BY <1>1, <1>3, <2>1 DEF Inv, NotYetTold
<1>9. Delivering'
  <2>1. \A r \in Recipients, i \in Group' : ~InHand(r, i)'
    BY <1>2
  <2> QED
    BY <1>1, <1>2, <1>5, <2>1 DEF Inv, Delivering
<1>10. DeliveredReachedAll'
  BY <1>k, <1>1, <1>3, <1>4 DEF Inv, DeliveredReachedAll
<1>11. CopiesAccounted'
  <2>1. Errors' = Errors + 1
    <3>1. storeErrors \in Nat /\ crashes \in Nat
      BY DEF Inv, TypeOK
    <3> QED
      BY <1>1, <1>5, <3>1 DEF Errors
  <2> SUFFICES ASSUME NEW r \in Recipients, NEW i \in DOMAIN events
               PROVE  copies'[r][i] <=
                        SmtpTries * (Errors + 1 + (IF events[i].delivered THEN 1 ELSE 0))
    BY <1>1, <1>2, <2>1 DEF CopiesAccounted, Errors
  <2> DEFINE m == Errors + (IF events[i].delivered \/ InHand(r, i) THEN 1 ELSE 0)
             n == Errors + 1 + (IF events[i].delivered THEN 1 ELSE 0)
  <2>2. copies[r][i] <= SmtpTries * m
    BY DEF Inv, CopiesAccounted, Errors
  <2>3. i \in Group => ~events[i].delivered
    BY <1>4 DEF Inv, Delivering
  <2>4. InHand(r, i) => i \in Group /\ r # next
    BY <1>1 DEF InHand, Inv, TypeOK, Recipients
  <2>5. /\ m \in Nat /\ n \in Nat
        /\ copies[r][i] \in Nat /\ copies'[r][i] \in Nat
    BY <1>3, <1>4
  <2>6. \/ copies'[r][i] <= copies[r][i] /\ m <= n
        \/ copies'[r][i] <= copies[r][i] + SmtpTries /\ m + 1 <= n
    <3>1. CASE copies'[r][i] = copies[r][i]
      BY <1>4, <3>1
    <3>2. CASE r = next /\ i \in Group /\ copies'[r][i] = copies[r][i] + k
      BY <1>k, <1>4, <2>3, <2>4, <3>2
    <3> QED
      BY <1>3, <1>4, <3>1, <3>2
  <2> HIDE DEF m, n
  <2>7. copies'[r][i] <= SmtpTries * n
    BY <2>2, <2>5, <2>6, Accounted
  <2> QED
    BY <2>7 DEF n
<1> QED
  BY <1>6, <1>7, <1>8, <1>9, <1>10, <1>11 DEF Inv

\* In "mark", the group in hand has reached everyone.
LEMMA GroupReached ==
  ASSUME Inv, pc = "mark"
  PROVE  \A r \in Recipients, i \in Group : InHand(r, i) /\ copies[r][i] >= 1
  BY DEF Inv, Delivering, InHand

LEMMA MarkInv ==
  ASSUME Inv, Mark PROVE Inv'
<1>1. /\ pc = "mark" /\ NextGroup
      /\ events' = [i \in DOMAIN events |->
                      IF i \in Group THEN [events[i] EXCEPT !.delivered = TRUE] ELSE events[i]]
      /\ UNCHANGED <<state, down, draft, copies, mailErrors, storeErrors, crashes>>
  BY DEF Mark, Marked
<1>2. /\ pending' = pending \ Group /\ next' = 1 /\ pc' = "deliver" /\ 1 \in Recipients
      /\ \A r \in Recipients : \A i : ~InHand(r, i)'
  BY <1>1, NextGroupFacts
<1>3. \A r \in Recipients, i \in Group : InHand(r, i) /\ copies[r][i] >= 1
  BY <1>1, GroupReached
<1>4. /\ Group \subseteq pending /\ pending \subseteq DOMAIN events
      /\ events \in Seq(Event) /\ Len(events) \in Nat /\ DOMAIN events = 1 .. Len(events)
      /\ DOMAIN events \subseteq EventIds
  BY GroupFacts, Types DEF Inv
<1>5. \A i \in DOMAIN events : events[i] \in Event
  BY <1>4
<1>6. \A i \in DOMAIN events :
        /\ events'[i] \in Event
        /\ events'[i].service = events[i].service /\ events'[i].type = events[i].type
        /\ events'[i].delivered <=> events[i].delivered \/ i \in Group
  <2> TAKE i \in DOMAIN events
  <2>1. [events[i] EXCEPT !.delivered = TRUE] \in Event
    BY <1>5 DEF Event
  <2>2. CASE i \in Group
    BY <1>1, <1>5, <2>1, <2>2 DEF Event
  <2>3. CASE i \notin Group
    BY <1>1, <1>5, <2>3
  <2> QED
    BY <2>2, <2>3
<1>7. /\ DOMAIN events' = DOMAIN events
      /\ events' \in Seq(Event) /\ Len(events') = Len(events)
  <2>1. DOMAIN events' = 1 .. Len(events)
    BY <1>1, <1>4
  <2>2. events' = [i \in 1 .. Len(events) |-> events'[i]]
    BY <1>1, <1>4
  <2>3. \A i \in 1 .. Len(events) : events'[i] \in Event
    BY <1>4, <1>6
  <2> HIDE DEF Event
  <2>4. events' \in [1 .. Len(events) -> Event]
    BY <2>2, <2>3
  <2>5. events' \in Seq(Event)
    BY <1>4, <2>4
  <2> QED
    BY <1>4, <2>1, <2>5
<1>8. TypeOK'
  <2>1. File' = [state |-> state, events |-> events'] /\ state \in [Services -> Availability]
    BY <1>1, Types DEF File, Inv
  <2>2. File' \in Tables
    BY <1>7, <2>1 DEF Tables
  <2> QED
    BY <1>1, <1>2, <1>4, <1>7, <2>2 DEF Inv, TypeOK
<1>9. EventsTellState'
  <2>1. /\ \A i \in DOMAIN events : Oldest(events, i) => events[i].type = "unavailable"
        /\ \A i, j \in DOMAIN events : Adjacent(events, i, j) => events[i].type # events[j].type
        /\ \A s \in Services : state[s] = "unavailable" <=> Down(events, s)
    BY DEF Inv, EventsTellState, Tell, File
  <2>2. \A i \in DOMAIN events : /\ Oldest(events', i) <=> Oldest(events, i)
                                 /\ Newest(events', i) <=> Newest(events, i)
    BY <1>6, <1>7 DEF Oldest, Newest
  <2>3. \A i, j \in DOMAIN events : Adjacent(events', i, j) <=> Adjacent(events, i, j)
    BY <1>6, <1>7 DEF Adjacent
  <2>4. \A s \in Services : Down(events', s) <=> Down(events, s)
    BY <1>6, <1>7, <2>2 DEF Down
  <2>5. File' = [state |-> state, events |-> events']
    BY <1>1 DEF File
  <2> QED
    BY <1>6, <1>7, <2>1, <2>2, <2>3, <2>4, <2>5 DEF EventsTellState, Tell
<1>10. Drafting' /\ NotYetTold'
  BY <1>1, <1>2, <1>7 DEF Inv, Drafting, NotYetTold
<1>11. Delivering'
  <2>1. \A i \in pending' : ~events'[i].delivered
    BY <1>2, <1>4, <1>6 DEF Inv, Delivering
  <2>2. mailErrors = 0 =>
          \A r \in Recipients, i \in DOMAIN events \ (pending \ Group) : copies[r][i] >= 1
    BY <1>1, <1>3 DEF Inv, Delivering
  <2> QED
    BY <1>1, <1>2, <1>7, <2>1, <2>2 DEF Delivering
<1>12. DeliveredReachedAll'
  BY <1>1, <1>3, <1>6, <1>7 DEF Inv, DeliveredReachedAll
<1>13. CopiesAccounted'
  <2> SUFFICES ASSUME NEW r \in Recipients, NEW i \in DOMAIN events
               PROVE  copies[r][i] <= SmtpTries * (Errors + (IF events'[i].delivered THEN 1 ELSE 0))
    BY <1>1, <1>2, <1>7 DEF CopiesAccounted, Errors
  <2> DEFINE m == Errors + (IF events[i].delivered \/ InHand(r, i) THEN 1 ELSE 0)
             n == Errors + (IF events'[i].delivered THEN 1 ELSE 0)
  <2>1. copies[r][i] <= SmtpTries * m
    BY DEF Inv, CopiesAccounted, Errors
  <2>2. InHand(r, i) => i \in Group
    BY DEF InHand
  <2>3. events'[i].delivered <=> events[i].delivered \/ i \in Group
    BY <1>6
  <2>4. Errors \in Nat /\ copies[r][i] \in Nat
    BY Types DEF Inv
  <2>5. m \in Nat /\ n \in Nat /\ m <= n
    BY <2>2, <2>3, <2>4
  <2> HIDE DEF m, n
  <2>6. copies[r][i] <= SmtpTries * n
    BY <2>1, <2>4, <2>5, Accounted
  <2> QED
    BY <2>6 DEF n
<1>14. NoticesInOrder'
  BY <1>1, <1>7 DEF Inv, NoticesInOrder
<1> QED
  BY <1>8, <1>9, <1>10, <1>11, <1>12, <1>13, <1>14 DEF Inv

LEMMA MarkFailsInv ==
  ASSUME Inv, MarkFails PROVE Inv'
<1>1. /\ pc = "mark" /\ NextGroup
      /\ storeErrors < MaxStoreErrors /\ storeErrors' = storeErrors + 1
      /\ UNCHANGED <<state, events, down, draft, copies, mailErrors, crashes>>
  BY DEF MarkFails, StoreError
<1>2. /\ pending' = pending \ Group /\ next' = 1 /\ pc' = "deliver" /\ 1 \in Recipients
      /\ \A r \in Recipients : \A i : ~InHand(r, i)'
  BY <1>1, NextGroupFacts
<1>3. \A r \in Recipients, i \in Group : copies[r][i] >= 1
  BY <1>1, GroupReached
<1>4. storeErrors' \in 0 .. MaxStoreErrors
  BY <1>1 DEF Inv, TypeOK
<1>5. TypeOK'
  BY <1>1, <1>2, <1>4 DEF Inv, TypeOK, File
<1>6. /\ EventsTellState' /\ Drafting' /\ NotYetTold' /\ DeliveredReachedAll'
      /\ NoticesInOrder'
  BY <1>1, <1>2 DEF Inv, EventsTellState, File, Drafting, NotYetTold, DeliveredReachedAll,
                    NoticesInOrder
<1>7. Delivering'
  BY <1>1, <1>2, <1>3 DEF Inv, Delivering
<1>8. CopiesAccounted'
  <2>1. Errors' = Errors + 1
    <3>1. mailErrors \in Nat /\ storeErrors \in Nat /\ crashes \in Nat
      BY DEF Inv, TypeOK
    <3> QED
      BY <1>1, <3>1 DEF Errors
  <2> SUFFICES ASSUME NEW r \in Recipients, NEW i \in DOMAIN events
               PROVE  copies[r][i] <=
                        SmtpTries * (Errors + 1 + (IF events[i].delivered THEN 1 ELSE 0))
    BY <1>1, <1>2, <2>1 DEF CopiesAccounted, Errors
  <2> DEFINE m == Errors + (IF events[i].delivered \/ InHand(r, i) THEN 1 ELSE 0)
             n == Errors + 1 + (IF events[i].delivered THEN 1 ELSE 0)
  <2>2. copies[r][i] <= SmtpTries * m
    BY DEF Inv, CopiesAccounted, Errors
  <2>3. Errors \in Nat /\ copies[r][i] \in Nat
    BY Types DEF Inv
  <2>4. m \in Nat /\ n \in Nat /\ m <= n
    BY <2>3
  <2> HIDE DEF m, n
  <2>5. copies[r][i] <= SmtpTries * n
    BY <2>2, <2>3, <2>4, Accounted
  <2> QED
    BY <2>5 DEF n
<1> QED
  BY <1>5, <1>6, <1>7, <1>8 DEF Inv

-----------------------------------------------------------------------------
LEMMA InvInit == Init => Inv
<1> SUFFICES ASSUME Init PROVE Inv
  OBVIOUS
<1>1. /\ state = [s \in Services |-> "unknown"] /\ events = <<>>
      /\ pc = "idle" /\ down = {} /\ draft = NoDraft /\ pending = {} /\ next = 1
      /\ copies = [r \in Recipients |-> [i \in EventIds |-> 0]]
      /\ mailErrors = 0 /\ storeErrors = 0 /\ crashes = 0
  BY DEF Init, NoDraft
<1>2. NoDraft \in Tables /\ File = NoDraft
  BY <1>1 DEF NoDraft, Tables, Availability, File
<1>3. DOMAIN events = {} /\ Len(events) = 0
  BY <1>1
<1>4. TypeOK
  BY <1>1, <1>2, <1>3 DEF TypeOK
<1>5. EventsTellState
  <2>1. NoDraft.events = <<>> /\ \A s \in Services : NoDraft.state[s] # "unavailable"
    BY DEF NoDraft
  <2>2. DOMAIN NoDraft.events = {}
    BY <2>1
  <2> QED
    BY <1>2, <2>1, <2>2 DEF EventsTellState, Tell, Down
<1>6. Drafting /\ NotYetTold /\ Delivering
  BY <1>1 DEF Drafting, NotYetTold, Delivering, InHand
<1>7. DeliveredReachedAll /\ CopiesAccounted /\ NoticesInOrder
  BY <1>3 DEF DeliveredReachedAll, CopiesAccounted, NoticesInOrder
<1> QED
  BY <1>4, <1>5, <1>6, <1>7 DEF Inv

LEMMA InvStutter ==
  ASSUME Inv, UNCHANGED vars PROVE Inv'
<1>1. UNCHANGED <<state, events, pc, down, draft, pending, next, copies,
                  mailErrors, storeErrors, crashes>>
  BY DEF vars
<1>2. /\ TypeOK' /\ EventsTellState' /\ Drafting' /\ NotYetTold'
  BY <1>1 DEF Inv, TypeOK, EventsTellState, File, Drafting, ToRecord, NotYetTold
<1>3. Delivering' /\ CopiesAccounted'
  BY <1>1 DEF Inv, Delivering, CopiesAccounted, InHand, Group
<1>4. DeliveredReachedAll' /\ NoticesInOrder'
  BY <1>1 DEF Inv, DeliveredReachedAll, NoticesInOrder
<1> QED
  BY <1>2, <1>3, <1>4 DEF Inv

LEMMA InvStep == Inv /\ [Next]_vars => Inv'
<1> SUFFICES ASSUME Inv, [Next]_vars PROVE Inv'
  OBVIOUS
<1>1. CASE UNCHANGED vars
  BY <1>1, InvStutter
<1>2. CASE JobStep
  BY <1>2, CheckInv, RecordObservationInv, CommitInv, LoadInv, StoreFailsInv, DoneInv,
     MailInv, MailRaisesInv, MarkInv, MarkFailsInv DEF JobStep
<1>3. CASE Crash
  BY <1>3, CrashInv
<1> QED
  BY <1>1, <1>2, <1>3 DEF Next

LEMMA InvHolds == Spec => []Inv
  BY InvInit, InvStep, PTL DEF Spec

-----------------------------------------------------------------------------
\* The tables, the open transaction and the loop over the recipients are always well formed.
THEOREM TypeCorrect == Spec => []TypeOK
<1>1. Inv => TypeOK
  BY DEF Inv
<1> QED
  BY <1>1, InvHolds, PTL

\* A service's events alternate between outage and recovery and agree with its state.
THEOREM EventsCorrect == Spec => []EventsTellState
<1>1. Inv => EventsTellState
  BY DEF Inv
<1> QED
  BY <1>1, InvHolds, PTL

\* Every recipient has got every event that is marked as delivered.
THEOREM DeliveredCorrect == Spec => []DeliveredReachedAll
<1>1. Inv => DeliveredReachedAll
  BY DEF Inv
<1> QED
  BY <1>1, InvHolds, PTL

\* A further copy of a notice is owed to an error or a crash.
THEOREM CopiesCorrect == Spec => []CopiesAccounted
<1>1. Inv => CopiesAccounted
  BY DEF Inv
<1> QED
  BY <1>1, InvHolds, PTL

\* While no mail has raised, nobody knows of an event without the earlier ones.
THEOREM OrderCorrect == Spec => []NoticesInOrder
<1>1. Inv => NoticesInOrder
  BY DEF Inv
<1> QED
  BY <1>1, InvHolds, PTL
=============================================================================
