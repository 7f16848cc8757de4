------------------------ MODULE IncidentOutboxProofs ------------------------
(***************************************************************************)
(* What IncidentOutbox guarantees for every set of intents, every limit    *)
(* and any number of crashes and operator commands.                        *)
(***************************************************************************)
EXTENDS IncidentOutbox, FiniteSetTheorems, WellFoundedInduction, TLAPS

USE OutboxAssumption

-----------------------------------------------------------------------------
(***************************************************************************)
(* The choice of the next intent is defined: among finitely many intents,  *)
(* the one that has the fewest before it has none.                         *)
(***************************************************************************)
LEMMA Smallest ==
  ASSUME NEW S \in SUBSET Nat, S # {}
  PROVE  \E n \in S : \A m \in S : n <= m
<1>1. PICK n \in S : \A m \in S : ~(<<m, n>> \in OpToRel(<, Nat))
  BY NatLessThanWellFounded, WFMin
<1>2. \A m \in S : ~(m < n)
  BY <1>1 DEF OpToRel
<1> QED
  BY <1>2

LEMMA FirstIsMember ==
  ASSUME NEW outbox \in Outbox, NEW C \in SUBSET Items, C # {},
         NEW rank \in [Items -> Nat],
         \A i, j \in Items : rank[i] = rank[j] => i = j
  PROVE  First(outbox, rank, C) \in C
<1> DEFINE B(i, j) == Before(outbox, rank, i, j)
           Below(i) == {j \in C : B(j, i)}
           Sizes == {Cardinality(Below(i)) : i \in C}
<1>1. \A i \in C : outbox[i].next \in Int /\ outbox[i].created \in Nat
                       /\ rank[i] \in Nat
  BY DEF Outbox, Item
<1>2. \A i \in C : ~B(i, i)
  BY <1>1 DEF Before
<1>3. \A i, j, k \in C : B(i, j) /\ B(j, k) => B(i, k)
  BY <1>1 DEF Before
<1>4. ASSUME NEW i \in C, NEW j \in C, i # j
      PROVE  B(i, j) \/ B(j, i)
  <2>1. rank[i] # rank[j]
    BY <1>4
  <2> QED
    BY <1>1, <2>1 DEF Before
<1> HIDE DEF B
<1>5. \A i \in C : IsFiniteSet(Below(i)) /\ Cardinality(Below(i)) \in Nat
  BY FS_Subset, FS_CardinalityType
<1>6. Sizes \in SUBSET Nat /\ Sizes # {}
  <2>1. PICK i \in C : TRUE
    OBVIOUS
  <2> HIDE DEF Below
  <2>2. Cardinality(Below(i)) \in Sizes
    OBVIOUS
  <2>3. Sizes \in SUBSET Nat
    BY <1>5
  <2> QED
    BY <2>2, <2>3
<1>7. PICK n \in Sizes : \A m \in Sizes : n <= m
  <2> HIDE DEF Sizes
  <2> QED
    BY <1>6, Smallest
<1>8. PICK i \in C : n = Cardinality(Below(i))
  BY <1>7
<1>9. ASSUME NEW j \in C, B(j, i)
      PROVE  FALSE
  <2>1. Below(j) \in SUBSET Below(i) /\ Below(j) # Below(i)
    BY <1>2, <1>3, <1>9
  <2>2. Cardinality(Below(j)) \in Sizes
    OBVIOUS
  <2> HIDE DEF Below
  <2>3. Cardinality(Below(j)) < Cardinality(Below(i))
    BY <2>1, <1>5, FS_Subset
  <2>4. Cardinality(Below(i)) <= Cardinality(Below(j))
    BY <2>2, <1>7, <1>8
  <2> QED
    BY <2>3, <2>4, <1>5
<1>10. \A j \in C \ {i} : Before(outbox, rank, i, j)
  BY <1>4, <1>9 DEF B
<1> QED
  BY <1>10 DEF First

-----------------------------------------------------------------------------
(***************************************************************************)
(* What the operations on one copy of the outbox return.                   *)
(***************************************************************************)
LEMMA NoClaimType == NoClaim \in ClaimId
BY DEF NoClaim, ClaimId

LEMMA EmptyType == Empty \in Outbox /\ Waiting(Empty) = {} /\ Terminal(Empty) = {}
BY NoClaimType DEF Empty, AbsentItem, Outbox, Item, Status, Waiting, Terminal

LEMMA RecoveredItems ==
  ASSUME NEW outbox \in Outbox, NEW t \in Nat
  PROVE  /\ Recovered(outbox, t) \in Outbox
         /\ Waiting(Recovered(outbox, t)) = Waiting(outbox)
         /\ Terminal(Recovered(outbox, t)) = Terminal(outbox)
         /\ \A i \in Items :
              /\ Recovered(outbox, t)[i].attempts = outbox[i].attempts
              /\ outbox[i].status # "in_progress"
                   => Recovered(outbox, t)[i] = outbox[i]
<1> DEFINE r == Recovered(outbox, t)
<1>1. r = [i \in Items |-> r[i]]
  BY DEF Recovered
<1>2. \A i \in Items :
        \/ r[i] = outbox[i]
        \/ /\ outbox[i].status = "in_progress"
           /\ r[i] = [outbox[i] EXCEPT !.status = "pending", !.next = t,
                                       !.claim = NoClaim]
  BY DEF Recovered, Abandoned
<1> HIDE DEF r
<1>3. ASSUME NEW i \in Items
      PROVE  /\ r[i] \in Item
             /\ r[i].attempts = outbox[i].attempts
             /\ outbox[i].status # "in_progress" => r[i] = outbox[i]
             /\ r[i].status = outbox[i].status
                  \/ (r[i].status = "pending" /\ outbox[i].status = "in_progress")
  <2> DEFINE o == outbox[i]
             d == r[i]
  <2>1. o \in Item
    BY DEF Outbox
  <2>2. \/ d = o
        \/ /\ o.status = "in_progress"
           /\ d = [o EXCEPT !.status = "pending", !.next = t, !.claim = NoClaim]
    BY <1>2
  <2> HIDE DEF o, d
  <2>3. CASE d = o
    BY <2>1, <2>3 DEF o, d
  <2>4. CASE /\ o.status = "in_progress"
             /\ d = [o EXCEPT !.status = "pending", !.next = t, !.claim = NoClaim]
    <3>1. d = [status |-> "pending", attempts |-> o.attempts,
               created |-> o.created, next |-> t, claim |-> NoClaim]
      BY <2>1, <2>4 DEF Item
    <3>2. o.attempts \in 0 .. MaxAttempts /\ o.created \in Nat /\ "pending" \in Status
      BY <2>1 DEF Item, Status
    <3>3. d \in Item
      BY <3>1, <3>2, NoClaimType DEF Item
    <3> QED
      BY <2>4, <3>1, <3>3 DEF o, d
  <2> QED
    BY <2>2, <2>3, <2>4
<1>4. r \in Outbox
  BY <1>1, <1>3 DEF Outbox
<1>5. Waiting(r) = Waiting(outbox) /\ Terminal(r) = Terminal(outbox)
  BY <1>3 DEF Waiting, Terminal
<1> QED
  BY <1>3, <1>4, <1>5 DEF r

LEMMA ClaimedItems ==
  ASSUME NEW outbox \in Outbox, NEW i \in Items, NEW a \in Actor,
         outbox[i].status = "pending", now[a] \in Nat
  PROVE  /\ Claimed(outbox, i, a) \in Outbox
         /\ Waiting(Claimed(outbox, i, a)) = Waiting(outbox)
         /\ Terminal(Claimed(outbox, i, a)) = Terminal(outbox)
         /\ \A j \in Items :
              /\ Claimed(outbox, i, a)[j].attempts = outbox[j].attempts
              /\ j # i => Claimed(outbox, i, a)[j] = outbox[j]
         /\ Claimed(outbox, i, a)[i].status = "in_progress"
         /\ Claimed(outbox, i, a)[i].claim = Claim(a)
<1> DEFINE c == [outbox[i] EXCEPT !.status = "in_progress", !.claim = Claim(a)]
<1>1. c \in Item /\ c.attempts = outbox[i].attempts /\ c.status = "in_progress"
      /\ c.claim = Claim(a)
  <2>1. Claim(a) \in ClaimId
    BY DEF Claim, ClaimId
  <2> QED
    BY <2>1 DEF Outbox, Item, Status
<1>2. Claimed(outbox, i, a) = [outbox EXCEPT ![i] = c]
  BY DEF Claimed
<1> HIDE DEF c
<1>3. Claimed(outbox, i, a) \in Outbox
  BY <1>1, <1>2 DEF Outbox
<1>4. \A j \in Items : Claimed(outbox, i, a)[j] = IF j = i THEN c ELSE outbox[j]
  BY <1>2 DEF Outbox
<1>5. Waiting(Claimed(outbox, i, a)) = Waiting(outbox)
      /\ Terminal(Claimed(outbox, i, a)) = Terminal(outbox)
  BY <1>1, <1>4 DEF Waiting, Terminal
<1> QED
  BY <1>1, <1>3, <1>4, <1>5

LEMMA SettledItem ==
  ASSUME NEW item \in Item, NEW status \in Status
  PROVE  /\ Settled(item, status) \in Item
         /\ Settled(item, status).status = status
         /\ Settled(item, status).attempts = item.attempts
<1> DEFINE d == Settled(item, status)
<1>1. d = [item EXCEPT !.status = status, !.created = 0, !.next = 0,
                       !.claim = NoClaim]
  BY DEF Settled
<1> HIDE DEF d
<1>2. d = [status |-> status, attempts |-> item.attempts, created |-> 0,
           next |-> 0, claim |-> NoClaim]
  BY <1>1 DEF Item
<1>3. item.attempts \in 0 .. MaxAttempts
  BY DEF Item
<1>4. d \in Item
  BY <1>2, <1>3, NoClaimType DEF Item
<1> QED
  BY <1>2, <1>4 DEF d

LEMMA SucceededItem ==
  ASSUME NEW item \in Item, item.attempts < MaxAttempts
  PROVE  /\ Succeeded(item) \in Item
         /\ Succeeded(item).status = "sent"
         /\ Succeeded(item).attempts = item.attempts + 1
<1> DEFINE next == [item EXCEPT !.attempts = @ + 1]
<1>1. next \in Item /\ next.attempts = item.attempts + 1
  BY DEF Item
<1> HIDE DEF next
<1> QED
  BY <1>1, SettledItem DEF Succeeded, Status, next

LEMMA PowerType == \A n \in Nat : 2 ^ n \in Int
BY Z3

LEMMA FailedItem ==
  ASSUME NEW item \in Item, item.attempts < MaxAttempts, NEW t \in Nat
  PROVE  /\ Failed(item, t) \in Item
         /\ Failed(item, t).attempts = item.attempts + 1
         /\ \/ /\ Failed(item, t).status = "pending"
               /\ item.attempts + 1 < MaxAttempts
            \/ /\ Failed(item, t).status = "dead_letter"
               /\ item.attempts + 1 = MaxAttempts
<1>0. item.attempts \in Nat
  BY DEF Item
<1>1. CASE item.attempts + 1 >= MaxAttempts
  <2> DEFINE next == [item EXCEPT !.attempts = @ + 1]
  <2>1. next \in Item /\ next.attempts = item.attempts + 1
    BY DEF Item
  <2>2. Failed(item, t) = Settled(next, "dead_letter")
    BY <1>1 DEF Failed
  <2> HIDE DEF next
  <2> QED
    BY <1>0, <1>1, <2>1, <2>2, SettledItem DEF Status
<1>2. CASE ~(item.attempts + 1 >= MaxAttempts)
  <2> DEFINE power == 2 ^ item.attempts
             later == t + Backoff * power
             tried == item.attempts + 1
             d == Failed(item, t)
  <2>1. power \in Int
    BY <1>0, PowerType
  <2>2. d = [item EXCEPT !.status = "pending", !.attempts = tried,
                         !.next = later, !.claim = NoClaim]
    BY <1>2 DEF Failed
  <2> HIDE DEF power
  <2>3. Backoff * power \in Int
    BY <2>1
  <2>4. later \in Int /\ tried \in 0 .. MaxAttempts /\ tried < MaxAttempts
    BY <1>0, <1>2, <2>3
  <2> HIDE DEF later, tried, d
  <2>5. d \in Item /\ d.status = "pending" /\ d.attempts = tried
    BY <2>2, <2>4, NoClaimType DEF Item, Status
  <2> QED
    BY <2>4, <2>5 DEF d, tried
<1> QED
  BY <1>1, <1>2

LEMMA RetainedItems ==
  ASSUME NEW outbox \in Outbox, NEW r \in Retained(outbox)
  PROVE  /\ r \in Outbox
         /\ \A i \in Items :
              \/ r[i] = outbox[i]
              \/ /\ i \in Terminal(outbox)
                 /\ r[i].status = "dropped"
                 /\ r[i].attempts = outbox[i].attempts
                 /\ r[i].claim = outbox[i].claim
<1>1. PICK kept \in SUBSET Terminal(outbox) :
        r = [i \in Items |-> IF i \in Terminal(outbox) \ kept
                             THEN [outbox[i] EXCEPT !.status = "dropped"]
                             ELSE outbox[i]]
  BY DEF Retained
<1>2. \A i \in Items : LET d == [outbox[i] EXCEPT !.status = "dropped"]
                       IN  /\ d \in Item /\ d.status = "dropped"
                           /\ d.attempts = outbox[i].attempts
                           /\ d.claim = outbox[i].claim
  BY DEF Outbox, Item, Status
<1>3. r \in Outbox
  BY <1>1, <1>2 DEF Outbox
<1> QED
  BY <1>1, <1>2, <1>3

LEMMA RetainedFits ==
  ASSUME NEW outbox \in Outbox, NEW r \in Retained(outbox),
         Cardinality(Waiting(outbox)) <= MaxItems
  PROVE  Fits(r)
<1> DEFINE size == IF Cardinality(Terminal(outbox)) <= MaxItems - Cardinality(Waiting(outbox))
                   THEN Cardinality(Terminal(outbox))
                   ELSE MaxItems - Cardinality(Waiting(outbox))
<1>1. PICK kept \in SUBSET Terminal(outbox) :
        /\ Cardinality(kept) = size
        /\ r = [i \in Items |-> IF i \in Terminal(outbox) \ kept
                                THEN [outbox[i] EXCEPT !.status = "dropped"]
                                ELSE outbox[i]]
  BY DEF Retained
<1>2. \A i \in Items : [outbox[i] EXCEPT !.status = "dropped"].status = "dropped"
  BY DEF Outbox, Item
<1>3. Waiting(r) = Waiting(outbox)
  BY <1>1, <1>2 DEF Waiting, Terminal
<1>4. Terminal(r) = kept
  BY <1>1, <1>2 DEF Terminal
<1>5. /\ IsFiniteSet(Waiting(outbox)) /\ IsFiniteSet(Terminal(outbox))
      /\ IsFiniteSet(kept)
  BY FS_Subset DEF Waiting, Terminal
<1>6. Cardinality(Waiting(outbox)) \in Nat /\ Cardinality(Terminal(outbox)) \in Nat
      /\ Cardinality(kept) \in Nat
  BY <1>5, FS_CardinalityType
<1>7. Waiting(outbox) \cap kept = {}
  BY DEF Waiting, Terminal
<1>8. Cardinality(Waiting(outbox) \cup kept)
        = Cardinality(Waiting(outbox)) + Cardinality(kept)
  <2> HIDE DEF size
  <2>1. Cardinality(Waiting(outbox) \cap kept) = 0
    BY <1>7, FS_EmptySet
  <2>2. Cardinality(Waiting(outbox) \cup kept)
          = Cardinality(Waiting(outbox)) + Cardinality(kept)
              - Cardinality(Waiting(outbox) \cap kept)
    BY <1>5, FS_Union
  <2> QED
    BY <1>6, <2>1, <2>2
<1>9. Cardinality(kept) <= MaxItems - Cardinality(Waiting(outbox))
  BY <1>1, <1>6
<1> QED
  BY <1>3, <1>4, <1>6, <1>8, <1>9 DEF Fits

\* A copy whose waiting intents were among those of a file that fits.
LEMMA FewerWaiting ==
  ASSUME NEW outbox, NEW other, Fits(outbox),
         Waiting(other) \subseteq Waiting(outbox) \cup Terminal(outbox)
  PROVE  Cardinality(Waiting(other)) <= MaxItems
<1> DEFINE both == Waiting(outbox) \cup Terminal(outbox)
<1>1. IsFiniteSet(both)
  BY FS_Subset DEF Waiting, Terminal
<1>2. /\ Cardinality(Waiting(other)) <= Cardinality(both)
      /\ Cardinality(both) \in Nat /\ Cardinality(Waiting(other)) \in Nat
  BY <1>1, FS_Subset, FS_CardinalityType
<1>3. Cardinality(both) <= MaxItems
  BY DEF Fits
<1> HIDE DEF both
<1> QED
  BY <1>2, <1>3

-----------------------------------------------------------------------------
(***************************************************************************)
(* The inductive invariant behind types and retries.  Every copy of the    *)
(* outbox is as sound as the file: what waits in it has an attempt left,   *)
(* what is dead has none, and a copy that may be written fits.             *)
(***************************************************************************)
Sound(outbox) ==
  /\ outbox \in Outbox
  /\ \A i \in Waiting(outbox) : outbox[i].attempts < MaxAttempts

Exhausted(outbox) ==
  \A i \in Items : outbox[i].status = "dead_letter" => outbox[i].attempts = MaxAttempts

Recording == {"record_success", "record_failure"}
Writing == Recording \cup {"recover", "claim", "skip"}

AllSound == Sound(items) /\ \A a \in Actor : Sound(copy[a])

Unskipped ==
  commands = 0 => /\ Exhausted(items)
                  /\ \A a \in Actor : Exhausted(copy[a])
                  /\ pc[Operator] = "idle"

CopyFits == \A a \in Actor : pc[a] \in Writing => Fits(copy[a])

InHand ==
  \A a \in Actor :
    /\ pc[a] \in Holding => held[a] \in Items
    /\ pc[a] \in Recording => copy[a][held[a]].status = "in_progress"

Inv == TypeOK /\ AllSound /\ Unskipped /\ CopyFits /\ InHand

-----------------------------------------------------------------------------
(***************************************************************************)
(* Every operation on a copy keeps it sound.                               *)
(***************************************************************************)
LEMMA EmptySound == Sound(Empty) /\ Exhausted(Empty) /\ Fits(Empty)
<1>1. Sound(Empty)
  BY EmptyType DEF Sound
<1>2. Exhausted(Empty)
  BY DEF Exhausted, Empty, AbsentItem
<1>3. Fits(Empty)
  BY EmptyType, FS_EmptySet DEF Fits
<1> QED
  BY <1>1, <1>2, <1>3

LEMMA WithIntentsSound ==
  ASSUME NEW outbox, Sound(outbox), NEW new \in SUBSET Items, NEW t \in Nat
  PROVE  /\ Sound(WithIntents(outbox, new, t))
         /\ Exhausted(outbox) => Exhausted(WithIntents(outbox, new, t))
         /\ \A i \in Items \ new : WithIntents(outbox, new, t)[i] = outbox[i]
         /\ \A i \in new : WithIntents(outbox, new, t)[i].attempts = 0
<1> DEFINE w == WithIntents(outbox, new, t)
           fresh == [status |-> "pending", attempts |-> 0, created |-> t,
                     next |-> t, claim |-> NoClaim]
<1>1. w = [i \in Items |-> IF i \in new THEN fresh ELSE outbox[i]]
  BY DEF WithIntents
<1>2. fresh \in Item /\ fresh.attempts = 0 /\ fresh.status = "pending"
  BY NoClaimType DEF Item, Status
<1> HIDE DEF w, fresh
<1>3. w \in Outbox
  BY <1>1, <1>2 DEF Outbox, Sound
<1>4. \A i \in Items : w[i] = IF i \in new THEN fresh ELSE outbox[i]
  BY <1>1
<1>5. \A i \in Waiting(w) : w[i].attempts < MaxAttempts
  BY <1>2, <1>4 DEF Waiting, Sound
<1>6. Exhausted(outbox) => Exhausted(w)
  BY <1>2, <1>4 DEF Exhausted
<1> QED
  BY <1>2, <1>3, <1>4, <1>5, <1>6 DEF Sound, w

LEMMA RecoveredSound ==
  ASSUME NEW outbox, Sound(outbox), NEW t \in Nat
  PROVE  /\ Sound(Recovered(outbox, t))
         /\ Exhausted(outbox) => Exhausted(Recovered(outbox, t))
         /\ Fits(outbox) => Fits(Recovered(outbox, t))
<1> DEFINE r == Recovered(outbox, t)
<1>1. /\ r \in Outbox /\ Waiting(r) = Waiting(outbox) /\ Terminal(r) = Terminal(outbox)
      /\ \A i \in Items : r[i].attempts = outbox[i].attempts
  BY RecoveredItems DEF Sound
<1> HIDE DEF r
<1>2. \A i \in Items : r[i].status = "dead_letter" => outbox[i].status = "dead_letter"
  BY <1>1 DEF Terminal, Waiting, Recovered, Abandoned, r
<1> QED
  BY <1>1, <1>2 DEF Sound, Exhausted, Fits, Waiting, r

LEMMA ClaimedSound ==
  ASSUME NEW outbox, Sound(outbox), NEW i \in Items, NEW a \in Actor,
         outbox[i].status = "pending", now[a] \in Nat
  PROVE  /\ Sound(Claimed(outbox, i, a))
         /\ Exhausted(outbox) => Exhausted(Claimed(outbox, i, a))
         /\ Fits(outbox) => Fits(Claimed(outbox, i, a))
<1> DEFINE c == Claimed(outbox, i, a)
<1>1. /\ c \in Outbox /\ Waiting(c) = Waiting(outbox) /\ Terminal(c) = Terminal(outbox)
      /\ \A j \in Items : c[j].attempts = outbox[j].attempts /\ (j # i => c[j] = outbox[j])
      /\ c[i].status = "in_progress"
  BY ClaimedItems DEF Sound
<1> HIDE DEF c
<1> QED
  BY <1>1 DEF Sound, Exhausted, Fits, Waiting, c

LEMMA RetainedSound ==
  ASSUME NEW outbox, Sound(outbox), NEW r \in Retained(outbox)
  PROVE  /\ Sound(r)
         /\ Exhausted(outbox) => Exhausted(r)
<1>1. /\ r \in Outbox
      /\ \A i \in Items : \/ r[i] = outbox[i]
                          \/ r[i].status = "dropped" /\ r[i].attempts = outbox[i].attempts
  BY RetainedItems DEF Sound
<1> QED
  BY <1>1 DEF Sound, Exhausted, Waiting

\* The copy with the result of one attempt.
Result(outbox, i, success, t) ==
  [outbox EXCEPT ![i] = IF success THEN Succeeded(@) ELSE Failed(@, t)]

LEMMA ResultItems ==
  ASSUME NEW outbox, Sound(outbox), NEW i \in Items, NEW success \in BOOLEAN,
         NEW t \in Nat, outbox[i].status = "in_progress"
  PROVE  LET r == Result(outbox, i, success, t)
         IN  /\ Sound(r)
             /\ Exhausted(outbox) => Exhausted(r)
             /\ Waiting(r) \subseteq Waiting(outbox)
             /\ r[i].attempts = outbox[i].attempts + 1
             /\ \A j \in Items \ {i} : r[j] = outbox[j]
             /\ r[i].status # "absent"
<1> DEFINE r == Result(outbox, i, success, t)
           o == outbox[i]
           d == r[i]
<1>1. o \in Item /\ o.attempts < MaxAttempts /\ o.attempts \in Nat
  BY DEF Sound, Outbox, Waiting, Item
<1>2. r = [outbox EXCEPT ![i] = IF success THEN Succeeded(o) ELSE Failed(o, t)]
  BY DEF Result
<1>3. \A j \in Items : r[j] = IF j = i THEN (IF success THEN Succeeded(o) ELSE Failed(o, t))
                              ELSE outbox[j]
  BY <1>2 DEF Sound, Outbox
<1>4. d = IF success THEN Succeeded(o) ELSE Failed(o, t)
  BY <1>3
<1> HIDE DEF o, d
<1>5. /\ d \in Item
      /\ d.attempts = o.attempts + 1
      /\ \/ d.status = "sent"
         \/ d.status = "pending" /\ o.attempts + 1 < MaxAttempts
         \/ d.status = "dead_letter" /\ o.attempts + 1 = MaxAttempts
  <2>1. CASE success
    BY <1>1, <1>4, <2>1, SucceededItem
  <2>2. CASE ~success
    BY <1>1, <1>4, <2>2, FailedItem
  <2> QED
    BY <2>1, <2>2
<1>6. \A j \in Items : r[j] = IF j = i THEN d ELSE outbox[j]
  BY <1>3, <1>4
<1>7. r \in Outbox
  <2>1. r = [outbox EXCEPT ![i] = d]
    BY <1>2, <1>4
  <2> HIDE DEF r
  <2> QED
    BY <1>5, <2>1 DEF Sound, Outbox
<1> HIDE DEF r
<1>8. Waiting(r) \subseteq Waiting(outbox)
  BY <1>6 DEF Waiting
<1>9. \A j \in Waiting(r) : r[j].attempts < MaxAttempts
  BY <1>1, <1>5, <1>6 DEF Waiting, Sound
<1>10. Exhausted(outbox) => Exhausted(r)
  BY <1>5, <1>6 DEF Exhausted
<1> QED
  BY <1>5, <1>6, <1>7, <1>8, <1>9, <1>10 DEF Sound, r, o

\* The copy in which the operator has skipped one intent.
Skipped(outbox, i) == [outbox EXCEPT ![i] = Settled(@, "dead_letter")]

LEMMA SkippedItems ==
  ASSUME NEW outbox, Sound(outbox), NEW i \in Items, outbox[i].status = "pending"
  PROVE  /\ Sound(Skipped(outbox, i))
         /\ Fits(outbox) => Fits(Skipped(outbox, i))
         /\ Skipped(outbox, i)[i].attempts = outbox[i].attempts
         /\ Skipped(outbox, i)[i].status = "dead_letter"
         /\ \A j \in Items \ {i} : Skipped(outbox, i)[j] = outbox[j]
<1> DEFINE s == Skipped(outbox, i)
           d == Settled(outbox[i], "dead_letter")
<1>1. d \in Item /\ d.status = "dead_letter" /\ d.attempts = outbox[i].attempts
  BY SettledItem DEF Sound, Outbox, Status
<1>2. s = [outbox EXCEPT ![i] = d]
  BY DEF Skipped
<1> HIDE DEF d, s
<1>3. s \in Outbox /\ \A j \in Items : s[j] = IF j = i THEN d ELSE outbox[j]
  BY <1>1, <1>2 DEF Sound, Outbox
<1>4. Waiting(s) \cup Terminal(s) = Waiting(outbox) \cup Terminal(outbox)
  BY <1>1, <1>3 DEF Waiting, Terminal
<1>5. \A j \in Waiting(s) : s[j].attempts < MaxAttempts
  BY <1>1, <1>3 DEF Waiting, Sound
<1> QED
  BY <1>1, <1>3, <1>4, <1>5 DEF Sound, Fits, s, d

-----------------------------------------------------------------------------
(***************************************************************************)
(* A step of one actor keeps the invariant when what it leaves behind, in  *)
(* the file and in its own hands, is sound.                                *)
(***************************************************************************)
\* The types of what every actor has.
ActorTypes ==
  /\ pc \in [Actor -> AgentPhases \cup {"skip"}]
  /\ pc[Operator] \in OperatorPhases /\ pc[Agent] \in AgentPhases
  /\ copy \in [Actor -> Outbox]
  /\ now \in [Actor -> Nat]
  /\ reports \in [Actor -> SUBSET Items]
  /\ held \in [Actor -> Items \cup {Nothing}]

\* Nobody but the actor changes what he has.
OnlyBy(a) ==
  \A b \in Actor \ {a} : /\ pc'[b] = pc[b] /\ copy'[b] = copy[b] /\ now'[b] = now[b]
                         /\ reports'[b] = reports[b] /\ held'[b] = held[b]

LEMMA ActorStep ==
  ASSUME Inv, NEW a \in Actor, ActorTypes', OnlyBy(a),
         Sound(items'), Fits(items'), Sound(copy'[a]),
         commands' = 0 => Exhausted(items') /\ Exhausted(copy'[a]),
         pc'[a] \in Writing => Fits(copy'[a]),
         pc'[a] \in Holding => held'[a] \in Items,
         pc'[a] \in Recording => copy'[a][held'[a]].status = "in_progress",
         commands' \in {commands, commands + 1}, commands' <= MaxCommands,
         a = Operator => (commands' = 0 => pc'[a] = "idle"),
         clock' \in Nat, delivered' \in [Items -> Nat], crashes' \in 0 .. MaxCrashes
  PROVE  Inv'
<1>1. commands' \in 0 .. MaxCommands /\ (commands' = 0 => commands = 0)
  BY DEF Inv, TypeOK
<1>2. TypeOK'
  BY <1>1 DEF TypeOK, ActorTypes, Sound
<1>3. AllSound'
  BY DEF Inv, AllSound, OnlyBy
<1>4. Unskipped'
  <2> SUFFICES ASSUME commands' = 0
               PROVE  /\ Exhausted(items')
                      /\ \A b \in Actor : Exhausted(copy'[b])
                      /\ pc'[Operator] = "idle"
    BY DEF Unskipped
  <2>1. \A b \in Actor : Exhausted(copy'[b])
    BY <1>1 DEF Inv, Unskipped, OnlyBy
  <2>2. pc'[Operator] = "idle"
    BY <1>1 DEF Inv, Unskipped, OnlyBy, Actor
  <2> QED
    BY <2>1, <2>2
<1>5. CopyFits'
  BY DEF Inv, CopyFits, OnlyBy
<1>6. InHand'
  BY DEF Inv, InHand, OnlyBy
<1> QED
  BY <1>2, <1>3, <1>4, <1>5, <1>6 DEF Inv

LEMMA PhasesDiffer == Agent \in Actor /\ Operator \in Actor /\ Agent # Operator
BY DEF Agent, Operator, Actor

LEMMA RestHands ==
  ASSUME Inv, NEW a \in Actor, NEW phase, Rest(a, phase),
         phase = "idle" \/ (a = Agent /\ phase = "down")
  PROVE  /\ ActorTypes' /\ OnlyBy(a)
         /\ pc'[a] = phase /\ copy'[a] = Empty
<1>1. /\ pc' = [pc EXCEPT ![a] = phase]
      /\ copy' = [copy EXCEPT ![a] = Empty]
      /\ now' = [now EXCEPT ![a] = 0]
      /\ reports' = [reports EXCEPT ![a] = {}]
      /\ held' = [held EXCEPT ![a] = Nothing]
  BY DEF Rest
<1>2. OnlyBy(a)
  BY <1>1 DEF Inv, TypeOK, OnlyBy
<1>3. pc'[a] = phase /\ copy'[a] = Empty
  BY <1>1 DEF Inv, TypeOK
<1>4. phase \in AgentPhases /\ (phase = "idle" => phase \in OperatorPhases)
  BY DEF AgentPhases, OperatorPhases
<1>5. pc' \in [Actor -> AgentPhases \cup {"skip"}]
  BY <1>1, <1>4 DEF Inv, TypeOK
<1>6. pc'[Operator] \in OperatorPhases /\ pc'[Agent] \in AgentPhases
  BY <1>1, <1>4, PhasesDiffer DEF Inv, TypeOK
<1>7. copy' \in [Actor -> Outbox] /\ now' \in [Actor -> Nat]
      /\ reports' \in [Actor -> SUBSET Items] /\ held' \in [Actor -> Items \cup {Nothing}]
  BY <1>1, EmptyType DEF Inv, TypeOK
<1> QED
  BY <1>2, <1>3, <1>5, <1>6, <1>7 DEF ActorTypes

\* An actor that comes to rest has only the file to answer for.
LEMMA RestStep ==
  ASSUME Inv, NEW a \in Actor, NEW phase, Rest(a, phase),
         phase = "idle" \/ (a = Agent /\ phase = "down"),
         Sound(items'), Fits(items'), commands = 0 => Exhausted(items'),
         UNCHANGED <<clock, delivered, commands>>, crashes' \in 0 .. MaxCrashes
  PROVE  Inv'
<1>1. /\ ActorTypes' /\ OnlyBy(a)
      /\ pc'[a] = phase /\ copy'[a] = Empty
  BY RestHands
<1>2. phase \notin Writing /\ phase \notin Holding /\ phase \notin Recording
  BY DEF Writing, Holding, Recording
<1>3. a = Operator => phase = "idle"
  BY PhasesDiffer
<1>4. /\ clock' \in Nat /\ delivered' \in [Items -> Nat]
      /\ commands' = commands /\ commands <= MaxCommands
  BY DEF Inv, TypeOK
<1> QED
  BY <1>1, <1>2, <1>3, <1>4, EmptySound, ActorStep

LEMMA FileUnchanged ==
  ASSUME Inv
  PROVE  Sound(items) /\ Fits(items) /\ (commands = 0 => Exhausted(items))
BY DEF Inv, TypeOK, AllSound, Unskipped

LEMMA FileNotWritten ==
  ASSUME Inv, items' = items
  PROVE  Sound(items') /\ Fits(items') /\ (commands = 0 => Exhausted(items'))
BY FileUnchanged

-----------------------------------------------------------------------------
(***************************************************************************)
(* Every action keeps the invariant.                                       *)
(***************************************************************************)
LEMMA StartInv ==
  ASSUME Inv, Start PROVE Inv'
<1>1. ActorTypes' /\ OnlyBy(Agent) /\ copy'[Agent] = copy[Agent] /\ pc'[Agent] = "idle"
  BY PhasesDiffer DEF Start, Inv, TypeOK, ActorTypes, OnlyBy, AgentPhases
<1>2. "idle" \notin Writing /\ "idle" \notin Holding /\ "idle" \notin Recording
  BY DEF Writing, Holding, Recording
<1>3. Sound(copy[Agent]) /\ (commands = 0 => Exhausted(copy[Agent]))
  BY PhasesDiffer DEF Inv, AllSound, Unskipped
<1>4. UNCHANGED <<items, clock, delivered, crashes, commands>>
  BY DEF Start
<1> QED
  BY <1>1, <1>2, <1>3, <1>4, FileNotWritten, PhasesDiffer, ActorStep DEF Inv, TypeOK

LEMMA BeginCycleInv ==
  ASSUME Inv, NEW new \in SUBSET Items, BeginCycle(new) PROVE Inv'
<1> DEFINE t == IF Waiting(items) = {} THEN 0
                ELSE IF TimeMatters THEN clock + 1 ELSE clock
           w == WithIntents(items, new, t)
<1>1. /\ clock' = t
      /\ now' = [now EXCEPT ![Agent] = t]
      /\ copy' = [copy EXCEPT ![Agent] = w]
      /\ pc' = [pc EXCEPT ![Agent] = "apply"]
      /\ UNCHANGED <<items, reports, held, delivered, crashes, commands>>
  BY DEF BeginCycle
<1>2. t \in Nat
  BY DEF Inv, TypeOK
<1>3. Sound(w) /\ (commands = 0 => Exhausted(w))
  BY <1>2, FileUnchanged, WithIntentsSound
<1>4. w \in Outbox
  BY <1>3 DEF Sound
<1> HIDE DEF t, w
<1>5. ActorTypes' /\ OnlyBy(Agent) /\ copy'[Agent] = w /\ pc'[Agent] = "apply"
  BY <1>1, <1>2, <1>4, PhasesDiffer DEF Inv, TypeOK, ActorTypes, OnlyBy, AgentPhases
<1>6. "apply" \notin Writing /\ "apply" \notin Holding /\ "apply" \notin Recording
  BY DEF Writing, Holding, Recording
<1> QED
  BY <1>1, <1>2, <1>3, <1>5, <1>6, FileNotWritten, PhasesDiffer, ActorStep
     DEF Inv, TypeOK

LEMMA ApplyInv ==
  ASSUME Inv, Apply PROVE Inv'
<1>1. /\ Cardinality(Waiting(copy[Agent])) <= MaxItems
      /\ items' \in Retained(copy[Agent])
      /\ pc' = [pc EXCEPT ![Agent] = "scan"]
      /\ copy' = [copy EXCEPT ![Agent] = Empty]
      /\ UNCHANGED <<clock, now, reports, held, delivered, crashes, commands>>
  BY DEF Apply
<1>2. Sound(copy[Agent]) /\ (commands = 0 => Exhausted(copy[Agent]))
  BY PhasesDiffer DEF Inv, AllSound, Unskipped
<1>3. Sound(items') /\ (commands = 0 => Exhausted(items'))
  BY <1>1, <1>2, RetainedSound
<1>4. Fits(items')
  BY <1>1, <1>2, RetainedFits DEF Sound
<1>5. ActorTypes' /\ OnlyBy(Agent) /\ copy'[Agent] = Empty /\ pc'[Agent] = "scan"
  BY <1>1, EmptyType, PhasesDiffer DEF Inv, TypeOK, ActorTypes, OnlyBy, AgentPhases
<1>6. "scan" \notin Writing /\ "scan" \notin Holding /\ "scan" \notin Recording
  BY DEF Writing, Holding, Recording
<1> QED
  BY <1>1, <1>3, <1>4, <1>5, <1>6, EmptySound, PhasesDiffer, ActorStep DEF Inv, TypeOK

LEMMA ApplyOverBoundInv ==
  ASSUME Inv, ApplyOverBound PROVE Inv'
<1>1. Rest(Agent, "down") /\ UNCHANGED <<items, clock, delivered, crashes, commands>>
  BY DEF ApplyOverBound
<1> QED
  BY <1>1, FileNotWritten, PhasesDiffer, RestStep DEF Inv, TypeOK

LEMMA ScanInv ==
  ASSUME Inv, Scan PROVE Inv'
<1> DEFINE i == First(items, IncidentRank, Due(items, now[Agent]))
<1>1. i \in Due(items, now[Agent])
  <2>1. Due(items, now[Agent]) \in SUBSET Items /\ Due(items, now[Agent]) # {}
    BY DEF Due, Scan
  <2>2. items \in Outbox
    BY DEF Inv, TypeOK
  <2> QED
    BY <2>1, <2>2, FirstIsMember
<1>2. i \in Items
  BY <1>1 DEF Due
<1>3. /\ reports' = [reports EXCEPT ![Agent] = {i}]
      /\ pc' = [pc EXCEPT ![Agent] = "load_claims"]
      /\ UNCHANGED <<items, clock, copy, now, held, delivered, crashes, commands>>
  BY DEF Scan
<1> HIDE DEF i
<1>4. ActorTypes' /\ OnlyBy(Agent) /\ copy'[Agent] = copy[Agent]
      /\ pc'[Agent] = "load_claims"
  BY <1>2, <1>3, PhasesDiffer DEF Inv, TypeOK, ActorTypes, OnlyBy, AgentPhases
<1>5. "load_claims" \notin Writing /\ "load_claims" \notin Holding
      /\ "load_claims" \notin Recording
  BY DEF Writing, Holding, Recording
<1>6. Sound(copy[Agent]) /\ (commands = 0 => Exhausted(copy[Agent]))
  BY PhasesDiffer DEF Inv, AllSound, Unskipped
<1> QED
  BY <1>3, <1>4, <1>5, <1>6, FileNotWritten, PhasesDiffer, ActorStep DEF Inv, TypeOK

LEMMA ScanNothingInv ==
  ASSUME Inv, ScanNothing PROVE Inv'
<1>1. Rest(Agent, "idle") /\ UNCHANGED <<items, clock, delivered, crashes, commands>>
  BY DEF ScanNothing
<1> QED
  BY <1>1, FileNotWritten, PhasesDiffer, RestStep DEF Inv, TypeOK

\* An actor that delivers has been told to: an operator's command is counted.
LEMMA Delivering ==
  ASSUME Inv, NEW a \in Actor, pc[a] \notin {"idle", "down"}
  PROVE  a = Operator => commands # 0
BY DEF Inv, Unskipped

LEMMA LoadClaimsInv ==
  ASSUME Inv, NEW a \in Actor, LoadClaims(a) PROVE Inv'
<1> DEFINE r == Recovered(items, now[a])
<1>1. /\ pc[a] = "load_claims"
      /\ copy' = [copy EXCEPT ![a] = r]
      /\ pc' = [pc EXCEPT ![a] = "recover"]
      /\ UNCHANGED <<items, clock, now, reports, held, delivered, crashes, commands>>
  BY DEF LoadClaims
<1>2. now[a] \in Nat
  BY DEF Inv, TypeOK
<1>3. Sound(r) /\ (commands = 0 => Exhausted(r)) /\ Fits(r)
  BY <1>2, FileUnchanged, RecoveredSound
<1>4. r \in Outbox
  BY <1>3 DEF Sound
<1> HIDE DEF r
<1>5. ActorTypes' /\ OnlyBy(a) /\ copy'[a] = r /\ pc'[a] = "recover"
  BY <1>1, <1>4, PhasesDiffer
     DEF Inv, TypeOK, ActorTypes, OnlyBy, AgentPhases, OperatorPhases
<1>6. "recover" \notin Holding /\ "recover" \notin Recording
  BY DEF Holding, Recording
<1>7. a = Operator => commands # 0
  BY <1>1, Delivering
<1> QED
  BY <1>1, <1>3, <1>5, <1>6, <1>7, FileNotWritten, ActorStep DEF Inv, TypeOK

LEMMA WriteRecoveredInv ==
  ASSUME Inv, NEW a \in Actor, WriteRecovered(a) PROVE Inv'
<1>1. /\ pc[a] = "recover"
      /\ items' = copy[a]
      /\ pc' = [pc EXCEPT ![a] = "claim"]
      /\ UNCHANGED <<clock, copy, now, reports, held, delivered, crashes, commands>>
  BY DEF WriteRecovered
<1>2. Sound(copy[a]) /\ (commands = 0 => Exhausted(copy[a])) /\ Fits(copy[a])
  BY <1>1 DEF Inv, AllSound, Unskipped, CopyFits, Writing
<1>3. ActorTypes' /\ OnlyBy(a) /\ copy'[a] = copy[a] /\ pc'[a] = "claim"
  BY <1>1, PhasesDiffer
     DEF Inv, TypeOK, ActorTypes, OnlyBy, AgentPhases, OperatorPhases
<1>4. "claim" \notin Holding /\ "claim" \notin Recording
  BY DEF Holding, Recording
<1>5. a = Operator => commands # 0
  BY <1>1, Delivering
<1> QED
  BY <1>1, <1>2, <1>3, <1>4, <1>5, ActorStep DEF Inv, TypeOK

\* The intent an actor claims, and what it then has.
LEMMA ClaimTaken ==
  ASSUME TypeOK, NEW a \in Actor, WriteClaim(a)
  PROVE  \E i \in Items :
           /\ i \in Candidates(a)
           /\ copy[a][i].status = "pending"
           /\ items' = Claimed(copy[a], i, a)
           /\ held' = [held EXCEPT ![a] = i]
           /\ pc' = [pc EXCEPT ![a] = IF i \in reports[a] THEN "send" ELSE "failed"]
           /\ pc[a] = "claim"
           /\ copy' = [copy EXCEPT ![a] = Empty]
           /\ UNCHANGED <<clock, now, reports, delivered, crashes, commands>>
<1> DEFINE i == First(copy[a], FileOrder, Candidates(a))
<1>1. Candidates(a) \in SUBSET Items /\ Candidates(a) # {}
  BY DEF Candidates, Due, WriteClaim
<1>2. copy[a] \in Outbox
  BY DEF TypeOK
<1>3. FileOrder \in [Items -> Nat] /\ \A j, k \in Items : FileOrder[j] = FileOrder[k] => j = k
  BY DEF FileOrder
<1>4. i \in Candidates(a)
  BY <1>1, <1>2, <1>3, FirstIsMember
<1>5. i \in Items /\ copy[a][i].status = "pending"
  BY <1>4 DEF Candidates, Due
<1>6. /\ items' = Claimed(copy[a], i, a)
      /\ held' = [held EXCEPT ![a] = i]
      /\ pc' = [pc EXCEPT ![a] = IF i \in reports[a] THEN "send" ELSE "failed"]
      /\ pc[a] = "claim"
      /\ copy' = [copy EXCEPT ![a] = Empty]
      /\ UNCHANGED <<clock, now, reports, delivered, crashes, commands>>
  BY DEF WriteClaim
<1> HIDE DEF i
<1> QED
  BY <1>4, <1>5, <1>6

LEMMA WriteClaimInv ==
  ASSUME Inv, NEW a \in Actor, WriteClaim(a) PROVE Inv'
<1>1. PICK i \in Items :
        /\ copy[a][i].status = "pending"
        /\ items' = Claimed(copy[a], i, a)
        /\ held' = [held EXCEPT ![a] = i]
        /\ pc' = [pc EXCEPT ![a] = IF i \in reports[a] THEN "send" ELSE "failed"]
        /\ pc[a] = "claim"
        /\ copy' = [copy EXCEPT ![a] = Empty]
        /\ UNCHANGED <<clock, now, reports, delivered, crashes, commands>>
  BY ClaimTaken DEF Inv
<1>2. Sound(copy[a]) /\ (commands = 0 => Exhausted(copy[a])) /\ Fits(copy[a])
      /\ now[a] \in Nat
  BY <1>1 DEF Inv, TypeOK, AllSound, Unskipped, CopyFits, Writing
<1>3. Sound(items') /\ (commands = 0 => Exhausted(items')) /\ Fits(items')
  BY <1>1, <1>2, ClaimedSound
<1>4. PICK phase \in {"send", "failed"} : pc' = [pc EXCEPT ![a] = phase]
  BY <1>1
<1>5. ActorTypes' /\ OnlyBy(a) /\ copy'[a] = Empty /\ pc'[a] = phase /\ held'[a] = i
  BY <1>1, <1>4, EmptyType, PhasesDiffer
     DEF Inv, TypeOK, ActorTypes, OnlyBy, AgentPhases, OperatorPhases
<1>6. phase \notin Writing /\ phase \notin Recording
  BY DEF Writing, Recording
<1>7. a = Operator => commands # 0
  BY <1>1, Delivering
<1> QED
  BY <1>1, <1>3, <1>5, <1>6, <1>7, EmptySound, ActorStep DEF Inv, TypeOK

LEMMA ClaimNothingInv ==
  ASSUME Inv, NEW a \in Actor, ClaimNothing(a) PROVE Inv'
<1>1. Rest(a, "idle") /\ UNCHANGED <<items, clock, delivered, crashes, commands>>
  BY DEF ClaimNothing
<1> QED
  BY <1>1, FileNotWritten, RestStep DEF Inv, TypeOK

LEMMA SendInv ==
  ASSUME Inv, NEW a \in Actor, Send(a) PROVE Inv'
<1>1. /\ pc[a] = "send"
      /\ UNCHANGED <<items, clock, copy, now, reports, held, crashes, commands>>
  BY DEF Send
<1>2. PICK phase \in {"succeeded", "failed"} : pc' = [pc EXCEPT ![a] = phase]
  BY DEF Send
<1>3. delivered' \in [Items -> Nat]
  <2>1. PICK n \in 0 .. SmtpTries : delivered' = [delivered EXCEPT ![held[a]] = @ + n]
    BY DEF Send
  <2>2. held[a] \in Items /\ delivered \in [Items -> Nat]
    BY <1>1 DEF Inv, TypeOK, InHand, Holding
  <2>3. n \in Nat
    OBVIOUS
  <2>4. delivered[held[a]] \in Nat
    BY <2>2
  <2> DEFINE sum == delivered[held[a]] + n
  <2>5. sum \in Nat
    BY <2>3, <2>4
  <2>6. delivered' = [delivered EXCEPT ![held[a]] = sum]
    BY <2>1
  <2> HIDE DEF sum
  <2> QED
    BY <2>2, <2>5, <2>6
<1>4. ActorTypes' /\ OnlyBy(a) /\ copy'[a] = copy[a] /\ pc'[a] = phase /\ held'[a] = held[a]
  BY <1>1, <1>2, PhasesDiffer
     DEF Inv, TypeOK, ActorTypes, OnlyBy, AgentPhases, OperatorPhases
<1>5. held[a] \in Items
  BY <1>1 DEF Inv, InHand, Holding
<1>6. phase \notin Writing /\ phase \notin Recording
  BY DEF Writing, Recording
<1>7. a = Operator => commands # 0
  BY <1>1, Delivering
<1>8. Sound(copy[a]) /\ (commands = 0 => Exhausted(copy[a]))
  BY DEF Inv, AllSound, Unskipped
<1> QED
  BY <1>1, <1>3, <1>4, <1>5, <1>6, <1>7, <1>8, FileNotWritten, ActorStep DEF Inv, TypeOK

LEMMA LoadResultInv ==
  ASSUME Inv, NEW a \in Actor, LoadResult(a) PROVE Inv'
<1>1. /\ pc[a] \in {"succeeded", "failed"}
      /\ UNCHANGED <<items, clock, delivered, crashes, commands>>
  BY DEF LoadResult
<1>2. CASE HoldsClaim(items, a)
  <2>1. PICK phase \in Recording : pc' = [pc EXCEPT ![a] = phase]
    BY <1>2 DEF LoadResult, Recording
  <2>2. /\ copy' = [copy EXCEPT ![a] = items]
        /\ UNCHANGED <<now, reports, held>>
    BY <1>2 DEF LoadResult
  <2>3. phase \in {"record_success", "record_failure"}
    BY DEF Recording
  <2>4. ActorTypes' /\ OnlyBy(a) /\ copy'[a] = items /\ pc'[a] = phase /\ held'[a] = held[a]
    BY <1>1, <2>1, <2>2, <2>3, PhasesDiffer
       DEF Inv, TypeOK, ActorTypes, OnlyBy, AgentPhases, OperatorPhases
  <2>5. held[a] \in Items /\ items[held[a]].status = "in_progress"
    BY <1>1, <1>2 DEF Inv, InHand, Holding, HoldsClaim
  <2>6. a = Operator => commands # 0
    BY <1>1, Delivering
  <2> QED
    BY <1>1, <2>2, <2>4, <2>5, <2>6, FileUnchanged, FileNotWritten, ActorStep
       DEF Inv, TypeOK
<1>3. CASE ~HoldsClaim(items, a)
  <2>1. Rest(a, IF a = Agent THEN "down" ELSE "idle")
    BY <1>3 DEF LoadResult
  <2>2. PICK phase : Rest(a, phase) /\ (phase = "idle" \/ (a = Agent /\ phase = "down"))
    BY <2>1
  <2> QED
    BY <1>1, <2>2, FileNotWritten, RestStep DEF Inv, TypeOK
<1> QED
  BY <1>2, <1>3

\* A result is written from a copy that shows the intent in progress.
LEMMA ResultWritten ==
  ASSUME Inv, NEW a \in Actor, WriteResult(a)
  PROVE  \E success \in BOOLEAN :
           /\ pc[a] \in Recording
           /\ held[a] \in Items
           /\ copy[a][held[a]].status = "in_progress"
           /\ Sound(copy[a]) /\ now[a] \in Nat
           /\ items' \in Retained(Result(copy[a], held[a], success, now[a]))
<1>1. /\ pc[a] \in Recording
      /\ items' \in Retained([copy[a] EXCEPT ![held[a]] =
                                IF pc[a] = "record_success" THEN Succeeded(@)
                                                            ELSE Failed(@, now[a])])
  BY DEF WriteResult, Recording
<1>2. held[a] \in Items /\ copy[a][held[a]].status = "in_progress"
  BY <1>1 DEF Inv, InHand, Holding, Recording
<1>3. Sound(copy[a]) /\ now[a] \in Nat
  BY DEF Inv, AllSound, TypeOK
<1>4. CASE pc[a] = "record_success"
  <2>1. items' \in Retained(Result(copy[a], held[a], TRUE, now[a]))
    BY <1>1, <1>4 DEF Result
  <2> QED
    BY <1>1, <1>2, <1>3, <2>1
<1>5. CASE pc[a] # "record_success"
  <2>1. items' \in Retained(Result(copy[a], held[a], FALSE, now[a]))
    BY <1>1, <1>5 DEF Result
  <2> QED
    BY <1>1, <1>2, <1>3, <2>1
<1> QED
  BY <1>4, <1>5

LEMMA WriteResultInv ==
  ASSUME Inv, NEW a \in Actor, WriteResult(a) PROVE Inv'
<1>1. PICK success \in BOOLEAN :
        /\ pc[a] \in Recording
        /\ held[a] \in Items
        /\ copy[a][held[a]].status = "in_progress"
        /\ Sound(copy[a]) /\ now[a] \in Nat
        /\ items' \in Retained(Result(copy[a], held[a], success, now[a]))
  BY ResultWritten
<1> DEFINE r == Result(copy[a], held[a], success, now[a])
<1>2. /\ Sound(r)
      /\ Exhausted(copy[a]) => Exhausted(r)
      /\ Waiting(r) \subseteq Waiting(copy[a])
  BY <1>1, ResultItems
<1> HIDE DEF r
<1>3. items' \in Retained(r)
  BY <1>1 DEF r
<1>4. Fits(copy[a]) /\ (commands = 0 => Exhausted(copy[a]))
  BY <1>1 DEF Inv, CopyFits, Writing, Unskipped
<1>5. Sound(items') /\ (commands = 0 => Exhausted(items'))
  BY <1>2, <1>3, <1>4, RetainedSound
<1>6. Cardinality(Waiting(r)) <= MaxItems
  BY <1>2, <1>4, FewerWaiting
<1>7. Fits(items')
  BY <1>2, <1>3, <1>6, RetainedFits DEF Sound
<1>8. Rest(a, "idle") /\ UNCHANGED <<clock, delivered, crashes, commands>>
  BY DEF WriteResult
<1> QED
  BY <1>5, <1>7, <1>8, RestStep DEF Inv, TypeOK

LEMMA BeginSendDueInv ==
  ASSUME Inv, NEW i \in Items, BeginSendDue(i) PROVE Inv'
<1>1. /\ commands < MaxCommands /\ commands' = commands + 1
      /\ now' = [now EXCEPT ![Operator] = clock]
      /\ reports' = [reports EXCEPT ![Operator] = {i}]
      /\ pc' = [pc EXCEPT ![Operator] = "load_claims"]
      /\ UNCHANGED <<copy, items, clock, held, delivered, crashes>>
  BY DEF BeginSendDue, Command
<1>2. ActorTypes' /\ OnlyBy(Operator) /\ copy'[Operator] = copy[Operator]
      /\ pc'[Operator] = "load_claims"
  BY <1>1, PhasesDiffer
     DEF Inv, TypeOK, ActorTypes, OnlyBy, AgentPhases, OperatorPhases
<1>3. "load_claims" \notin Writing /\ "load_claims" \notin Holding
      /\ "load_claims" \notin Recording
  BY DEF Writing, Holding, Recording
<1>4. Sound(copy[Operator])
  BY PhasesDiffer DEF Inv, AllSound
<1>5. commands' # 0 /\ commands' <= MaxCommands
  BY <1>1 DEF Inv, TypeOK
<1> QED
  BY <1>1, <1>2, <1>3, <1>4, <1>5, FileNotWritten, PhasesDiffer, ActorStep DEF Inv, TypeOK

LEMMA BeginSkipInv ==
  ASSUME Inv, NEW i \in Items, BeginSkip(i) PROVE Inv'
<1>1. /\ commands < MaxCommands /\ commands' = commands + 1
      /\ items[i].status = "pending"
      /\ now' = [now EXCEPT ![Operator] = clock]
      /\ copy' = [copy EXCEPT ![Operator] = Skipped(items, i)]
      /\ pc' = [pc EXCEPT ![Operator] = "skip"]
      /\ UNCHANGED <<reports, items, clock, held, delivered, crashes>>
  BY DEF BeginSkip, Command, Skipped
<1>2. Sound(Skipped(items, i)) /\ Fits(Skipped(items, i))
  BY <1>1, FileUnchanged, SkippedItems
<1>3. Skipped(items, i) \in Outbox
  BY <1>2 DEF Sound
<1>4. ActorTypes' /\ OnlyBy(Operator) /\ copy'[Operator] = Skipped(items, i)
      /\ pc'[Operator] = "skip"
  BY <1>1, <1>3, PhasesDiffer
     DEF Inv, TypeOK, ActorTypes, OnlyBy, AgentPhases, OperatorPhases
<1>5. "skip" \notin Holding /\ "skip" \notin Recording
  BY DEF Holding, Recording
<1>6. commands' # 0 /\ commands' <= MaxCommands
  BY <1>1 DEF Inv, TypeOK
<1> QED
  BY <1>1, <1>2, <1>4, <1>5, <1>6, FileNotWritten, PhasesDiffer, ActorStep DEF Inv, TypeOK

LEMMA WriteSkipInv ==
  ASSUME Inv, WriteSkip PROVE Inv'
<1>1. /\ pc[Operator] = "skip"
      /\ items' \in Retained(copy[Operator])
      /\ Rest(Operator, "idle")
      /\ UNCHANGED <<clock, delivered, crashes, commands>>
  BY DEF WriteSkip
<1>2. Sound(copy[Operator]) /\ (commands = 0 => Exhausted(copy[Operator]))
      /\ Fits(copy[Operator])
  BY <1>1, PhasesDiffer DEF Inv, AllSound, Unskipped, CopyFits, Writing
<1>3. Sound(items') /\ (commands = 0 => Exhausted(items'))
  BY <1>1, <1>2, RetainedSound
<1>4. Cardinality(Waiting(copy[Operator])) <= MaxItems
  BY <1>2, FewerWaiting
<1>5. Fits(items')
  BY <1>1, <1>2, <1>4, RetainedFits DEF Sound
<1> QED
  BY <1>1, <1>3, <1>5, PhasesDiffer, RestStep DEF Inv, TypeOK

LEMMA CrashInv ==
  ASSUME Inv, NEW a \in Actor, Crash(a) PROVE Inv'
<1>1. /\ crashes < MaxCrashes /\ crashes' = crashes + 1
      /\ UNCHANGED <<items, clock, delivered, commands>>
      /\ Rest(a, IF a = Agent THEN "down" ELSE "idle")
  BY DEF Crash
<1>2. PICK phase : Rest(a, phase) /\ (phase = "idle" \/ (a = Agent /\ phase = "down"))
  BY <1>1
<1>3. crashes' \in 0 .. MaxCrashes
  BY <1>1 DEF Inv, TypeOK
<1> QED
  BY <1>1, <1>2, <1>3, FileNotWritten, RestStep

LEMMA InvInit == Init => Inv
<1> SUFFICES ASSUME Init PROVE Inv
  OBVIOUS
<1>1. /\ items = Empty /\ clock = 0 /\ crashes = 0 /\ commands = 0
      /\ pc = [a \in Actor |-> IF a = Agent THEN "down" ELSE "idle"]
      /\ copy = [a \in Actor |-> Empty]
      /\ now = [a \in Actor |-> 0]
      /\ reports = [a \in Actor |-> {}]
      /\ held = [a \in Actor |-> Nothing]
      /\ delivered = [i \in Items |-> 0]
  BY DEF Init
<1>2. ActorTypes
  BY <1>1, EmptyType, PhasesDiffer DEF ActorTypes, AgentPhases, OperatorPhases
<1>3. TypeOK
  BY <1>1, <1>2, EmptyType, EmptySound DEF TypeOK, ActorTypes
<1>4. AllSound /\ Unskipped
  BY <1>1, EmptySound, PhasesDiffer DEF AllSound, Unskipped
<1>5. \A a \in Actor : pc[a] \notin Writing /\ pc[a] \notin Holding /\ pc[a] \notin Recording
  BY <1>1 DEF Writing, Holding, Recording
<1>6. CopyFits /\ InHand
  BY <1>5 DEF CopyFits, InHand
<1> QED
  BY <1>3, <1>4, <1>6 DEF Inv

LEMMA InvStep == Inv /\ [Next]_vars => Inv'
<1> SUFFICES ASSUME Inv, [Next]_vars PROVE Inv'
  OBVIOUS
<1>1. ASSUME NEW a \in Actor, Deliver(a) PROVE Inv'
  BY <1>1, LoadClaimsInv, WriteRecoveredInv, WriteClaimInv, ClaimNothingInv, SendInv,
     LoadResultInv, WriteResultInv DEF Deliver
<1>2. CASE AgentStep
  BY <1>1, <1>2, PhasesDiffer, StartInv, BeginCycleInv, ApplyInv, ApplyOverBoundInv,
     ScanInv, ScanNothingInv DEF AgentStep
<1>3. CASE OperatorStep
  BY <1>1, <1>3, PhasesDiffer, WriteSkipInv DEF OperatorStep
<1>4. CASE \E i \in Items : BeginSendDue(i) \/ BeginSkip(i)
  BY <1>4, BeginSendDueInv, BeginSkipInv
<1>5. CASE \E a \in Actor : Crash(a)
  BY <1>5, CrashInv
<1>6. CASE UNCHANGED vars
  BY <1>6 DEF vars, Inv, TypeOK, AllSound, Unskipped, CopyFits, InHand
<1> QED
  BY <1>2, <1>3, <1>4, <1>5, <1>6 DEF Next

LEMMA InvHolds == Spec => []Inv
<1> QED
  BY InvInit, InvStep, PTL DEF Spec

(***************************************************************************)
(* Every reachable state is well typed, whatever runs beside the agent:    *)
(* no sequence of retention, recovery and results overfills the file.      *)
(***************************************************************************)
THEOREM TypeCorrect == Spec => []TypeOK
<1>1. Inv => TypeOK
  BY DEF Inv
<1> QED
  BY <1>1, InvHolds, PTL

(***************************************************************************)
(* The retry budget holds even when an operator writes to the file beside  *)
(* the agent: no older copy gives an intent a further attempt.             *)
(***************************************************************************)
THEOREM RetriesCorrect == Spec => []RetriesBounded
<1>1. Inv => RetriesBounded
  BY DEF Inv, AllSound, Sound, Unskipped, Exhausted, RetriesBounded
<1> QED
  BY <1>1, InvHolds, PTL

-----------------------------------------------------------------------------
(***************************************************************************)
(* What "sent" says.  Copies of the file only repeat it, so it starts with *)
(* a success to record; and an actor has a success to record only when the *)
(* server has accepted the intent it holds.                                *)
(***************************************************************************)
Success == {"succeeded", "record_success"}

Told == SentWasAccepted
        /\ \A a \in Actor : pc[a] \in Success => delivered[held[a]] > 0

LEMMA CopiesSent ==
  ASSUME NEW outbox, Sound(outbox), NEW t \in Nat
  PROVE  /\ \A new \in SUBSET Items :
              SentIn(WithIntents(outbox, new, t)) \subseteq SentIn(outbox)
         /\ SentIn(Recovered(outbox, t)) \subseteq SentIn(outbox)
         /\ \A i \in Items : SentIn(Skipped(outbox, i)) \subseteq SentIn(outbox)
         /\ \A r \in Retained(outbox) : SentIn(r) \subseteq SentIn(outbox)
         /\ SentIn(Empty) = {}
<1>1. ASSUME NEW new \in SUBSET Items
      PROVE  SentIn(WithIntents(outbox, new, t)) \subseteq SentIn(outbox)
  <2>1. \A i \in Items : IF i \in new THEN WithIntents(outbox, new, t)[i].status = "pending"
                         ELSE WithIntents(outbox, new, t)[i] = outbox[i]
    BY DEF WithIntents
  <2> QED
    BY <2>1 DEF SentIn
<1>2. SentIn(Recovered(outbox, t)) \subseteq SentIn(outbox)
  <2>1. /\ Waiting(Recovered(outbox, t)) = Waiting(outbox)
        /\ \A i \in Items : outbox[i].status # "in_progress"
                              => Recovered(outbox, t)[i] = outbox[i]
    BY RecoveredItems DEF Sound
  <2> QED
    BY <2>1 DEF SentIn, Waiting
<1>3. ASSUME NEW i \in Items PROVE SentIn(Skipped(outbox, i)) \subseteq SentIn(outbox)
  <2>1. outbox[i] \in Item /\ outbox \in Outbox
    BY DEF Sound, Outbox
  <2>2. Settled(outbox[i], "dead_letter").status = "dead_letter"
    BY <2>1, SettledItem DEF Status
  <2>3. \A j \in Items : Skipped(outbox, i)[j] =
                           IF j = i THEN Settled(outbox[i], "dead_letter") ELSE outbox[j]
    BY <2>1 DEF Skipped, Outbox
  <2> QED
    BY <2>2, <2>3 DEF SentIn
<1>4. ASSUME NEW r \in Retained(outbox) PROVE SentIn(r) \subseteq SentIn(outbox)
  BY RetainedItems DEF Sound, SentIn
<1>5. SentIn(Empty) = {}
  BY DEF SentIn, Empty, AbsentItem
<1> QED
  BY <1>1, <1>2, <1>3, <1>4, <1>5

\* A step that hands nothing to the server and holds no success to record only
\* repeats what the file, or the actor's copy of it, says.
LEMMA Repeats ==
  ASSUME Inv, Told, NEW a \in Actor, OnlyBy(a), delivered' = delivered,
         SentIn(items') \subseteq SentIn(items) \cup SentIn(copy[a]),
         SentIn(copy'[a]) \subseteq SentIn(items) \cup SentIn(copy[a]),
         pc'[a] \in Success => pc[a] \in Success /\ held'[a] = held[a]
  PROVE  Told'
<1>1. \A i \in SentIn(items) \cup SentIn(copy[a]) : delivered[i] > 0
  BY DEF Told, SentWasAccepted
<1>2. \A b \in Actor : \A i \in SentIn(copy'[b]) : delivered'[i] > 0
  BY <1>1 DEF Told, SentWasAccepted, OnlyBy
<1>3. SentWasAccepted'
  BY <1>1, <1>2 DEF SentWasAccepted, SentIn
<1>4. \A b \in Actor : pc'[b] \in Success => delivered'[held'[b]] > 0
  BY DEF Told, OnlyBy
<1> QED
  BY <1>3, <1>4 DEF Told

LEMMA RestTold ==
  ASSUME Inv, Told, NEW a \in Actor, NEW phase, Rest(a, phase),
         phase = "idle" \/ (a = Agent /\ phase = "down"), delivered' = delivered,
         SentIn(items') \subseteq SentIn(items) \cup SentIn(copy[a])
  PROVE  Told'
<1>1. OnlyBy(a) /\ pc'[a] = phase /\ copy'[a] = Empty
  BY RestHands
<1>2. SentIn(Empty) = {}
  BY DEF SentIn, Empty, AbsentItem
<1>3. phase \notin Success
  BY DEF Success
<1> QED
  BY <1>1, <1>2, <1>3, Repeats

LEMMA SendTold ==
  ASSUME Inv, Told, NEW a \in Actor, Send(a) PROVE Told'
<1>1. /\ pc[a] = "send"
      /\ UNCHANGED <<items, clock, copy, now, reports, held, crashes, commands>>
  BY DEF Send
<1>2. /\ held[a] \in Items /\ delivered \in [Items -> Nat]
      /\ held \in [Actor -> Items \cup {Nothing}]
  BY <1>1 DEF Inv, TypeOK, InHand, Holding
<1>3. PICK n \in 0 .. SmtpTries :
        /\ delivered' = [delivered EXCEPT ![held[a]] = @ + n]
        /\ \E result \in {"succeeded", "failed"} :
             /\ result = "succeeded" => n > 0
             /\ pc' = [pc EXCEPT ![a] = result]
  BY DEF Send
<1>4. n \in Nat
  OBVIOUS
<1>5. /\ delivered'[held[a]] = delivered[held[a]] + n
      /\ \A i \in Items : i # held[a] => delivered'[i] = delivered[i]
  BY <1>2, <1>3
<1>6. \A i \in Items : delivered[i] > 0 => delivered'[i] > 0
  BY <1>2, <1>4, <1>5
<1>7. SentWasAccepted'
  BY <1>1, <1>6 DEF Told, SentWasAccepted, SentIn
<1>8. pc'[a] = "succeeded" => delivered'[held[a]] > 0
  <2>1. pc'[a] = "succeeded" => n > 0
    BY <1>3 DEF Inv, TypeOK
  <2>2. delivered[held[a]] \in Nat
    BY <1>2
  <2> QED
    BY <1>4, <1>5, <2>1, <2>2
<1>9. \A b \in Actor \ {a} : pc'[b] = pc[b]
  BY <1>3 DEF Inv, TypeOK
<1>10. pc'[a] \in {"succeeded", "failed"}
  BY <1>3 DEF Inv, TypeOK
<1>11. \A b \in Actor : pc[b] \in Success => held[b] \in Items
  BY DEF Inv, InHand, Success, Holding
<1>12. \A b \in Actor : pc'[b] \in Success => delivered'[held'[b]] > 0
  BY <1>1, <1>6, <1>8, <1>9, <1>10, <1>11 DEF Told, Success
<1> QED
  BY <1>7, <1>12 DEF Told

\* The claim is checked; a success stays a success.
LEMMA LoadResultTold ==
  ASSUME Inv, Told, NEW a \in Actor, LoadResult(a) PROVE Told'
<1>1. /\ pc[a] \in {"succeeded", "failed"}
      /\ UNCHANGED <<items, clock, delivered, crashes, commands>>
  BY DEF LoadResult
<1>2. CASE HoldsClaim(items, a)
  <2>1. /\ copy' = [copy EXCEPT ![a] = items]
        /\ pc' = [pc EXCEPT ![a] = IF @ = "succeeded" THEN "record_success"
                                                      ELSE "record_failure"]
        /\ UNCHANGED <<now, reports, held>>
    BY <1>2 DEF LoadResult
  <2>2. OnlyBy(a) /\ copy'[a] = items /\ held'[a] = held[a]
    BY <2>1 DEF Inv, TypeOK, OnlyBy
  <2>3. pc'[a] = IF pc[a] = "succeeded" THEN "record_success" ELSE "record_failure"
    BY <2>1 DEF Inv, TypeOK
  <2>4. pc'[a] \in Success => pc[a] \in Success
    BY <2>3 DEF Success
  <2> QED
    BY <1>1, <2>2, <2>4, Repeats
<1>3. CASE ~HoldsClaim(items, a)
  <2>1. Rest(a, IF a = Agent THEN "down" ELSE "idle")
    BY <1>3 DEF LoadResult
  <2>2. PICK phase : Rest(a, phase) /\ (phase = "idle" \/ (a = Agent /\ phase = "down"))
    BY <2>1
  <2> QED
    BY <1>1, <2>2, RestTold
<1> QED
  BY <1>2, <1>3

\* A success is told of the one intent it is recorded for, a failure of none.
LEMMA ResultSent ==
  ASSUME NEW outbox, Sound(outbox), NEW i \in Items, NEW t \in Nat,
         outbox[i].status = "in_progress"
  PROVE  /\ Sound(Result(outbox, i, TRUE, t)) /\ Sound(Result(outbox, i, FALSE, t))
         /\ SentIn(Result(outbox, i, TRUE, t)) \subseteq SentIn(outbox) \cup {i}
         /\ SentIn(Result(outbox, i, FALSE, t)) \subseteq SentIn(outbox)
<1>1. ASSUME NEW success \in BOOLEAN
      PROVE  /\ Sound(Result(outbox, i, success, t))
             /\ \A j \in Items \ {i} : Result(outbox, i, success, t)[j] = outbox[j]
  BY ResultItems
<1>2. outbox[i] \in Item /\ outbox[i].attempts < MaxAttempts /\ outbox \in Outbox
  BY DEF Sound, Outbox, Waiting
<1>3. Failed(outbox[i], t).status # "sent"
  BY <1>2, FailedItem
<1>4. Result(outbox, i, FALSE, t)[i] = Failed(outbox[i], t)
  BY <1>2 DEF Result, Outbox
<1>5. SentIn(Result(outbox, i, TRUE, t)) \subseteq SentIn(outbox) \cup {i}
  BY <1>1 DEF SentIn
<1>6. SentIn(Result(outbox, i, FALSE, t)) \subseteq SentIn(outbox)
  BY <1>1, <1>3, <1>4 DEF SentIn
<1> QED
  BY <1>1, <1>5, <1>6

\* The one step that writes "sent" anew has a success to record.
LEMMA WriteResultTold ==
  ASSUME Inv, Told, NEW a \in Actor, WriteResult(a) PROVE Told'
<1> DEFINE i == held[a]
<1>1. /\ pc[a] \in Recording
      /\ items' \in Retained([copy[a] EXCEPT ![i] =
                                IF pc[a] = "record_success" THEN Succeeded(@)
                                                            ELSE Failed(@, now[a])])
      /\ Rest(a, "idle") /\ UNCHANGED <<clock, delivered, crashes, commands>>
  BY DEF WriteResult, Recording
<1>2. i \in Items /\ copy[a][i].status = "in_progress" /\ Sound(copy[a]) /\ now[a] \in Nat
  BY <1>1 DEF Inv, TypeOK, AllSound, InHand, Holding, Recording
<1>3. \A j \in SentIn(copy[a]) : delivered[j] > 0
  BY DEF Told, SentWasAccepted
<1>4. \A j \in SentIn(items') : delivered[j] > 0
  <2>1. CASE pc[a] = "record_success"
    <3>1. items' \in Retained(Result(copy[a], i, TRUE, now[a]))
      BY <1>1, <2>1 DEF Result
    <3>2. SentIn(items') \subseteq SentIn(Result(copy[a], i, TRUE, now[a]))
      BY <1>2, <3>1, ResultSent, CopiesSent
    <3>3. delivered[i] > 0
      BY <2>1 DEF Told, Success
    <3>4. SentIn(Result(copy[a], i, TRUE, now[a])) \subseteq SentIn(copy[a]) \cup {i}
      BY <1>2, ResultSent
    <3> QED
      BY <1>3, <3>2, <3>3, <3>4
  <2>2. CASE pc[a] # "record_success"
    <3>1. items' \in Retained(Result(copy[a], i, FALSE, now[a]))
      BY <1>1, <2>2 DEF Result
    <3>2. SentIn(items') \subseteq SentIn(Result(copy[a], i, FALSE, now[a]))
      BY <1>2, <3>1, ResultSent, CopiesSent
    <3>3. SentIn(Result(copy[a], i, FALSE, now[a])) \subseteq SentIn(copy[a])
      BY <1>2, ResultSent
    <3> QED
      BY <1>3, <3>2, <3>3
  <2> QED
    BY <2>1, <2>2
<1>5. OnlyBy(a) /\ pc'[a] = "idle" /\ copy'[a] = Empty
  BY <1>1, RestHands
<1>6. "idle" \notin Success
  BY DEF Success
<1>7. SentIn(Empty) = {}
  BY DEF SentIn, Empty, AbsentItem
<1>8. SentWasAccepted'
  BY <1>1, <1>4, <1>5, <1>7 DEF Told, SentWasAccepted, OnlyBy, SentIn
<1>9. \A b \in Actor : pc'[b] \in Success => delivered'[held'[b]] > 0
  BY <1>1, <1>5, <1>6 DEF Told, OnlyBy
<1> QED
  BY <1>8, <1>9 DEF Told

LEMMA DeliverTold ==
  ASSUME Inv, Told, NEW a \in Actor, Deliver(a) PROVE Told'
<1>0. Sound(items) /\ now[a] \in Nat
  BY DEF Inv, AllSound, TypeOK
<1>1. CASE LoadClaims(a)
  <2>1. /\ copy' = [copy EXCEPT ![a] = Recovered(items, now[a])]
        /\ pc' = [pc EXCEPT ![a] = "recover"]
        /\ UNCHANGED <<items, clock, now, reports, held, delivered, crashes, commands>>
    BY <1>1 DEF LoadClaims
  <2>2. OnlyBy(a) /\ copy'[a] = Recovered(items, now[a]) /\ pc'[a] = "recover"
    BY <2>1 DEF Inv, TypeOK, OnlyBy
  <2> QED
    BY <1>0, <2>1, <2>2, CopiesSent, Repeats DEF Success
<1>2. CASE WriteRecovered(a)
  <2>1. /\ items' = copy[a]
        /\ pc' = [pc EXCEPT ![a] = "claim"]
        /\ UNCHANGED <<clock, copy, now, reports, held, delivered, crashes, commands>>
    BY <1>2 DEF WriteRecovered
  <2>2. OnlyBy(a) /\ copy'[a] = copy[a] /\ pc'[a] = "claim"
    BY <2>1 DEF Inv, TypeOK, OnlyBy
  <2> QED
    BY <2>1, <2>2, Repeats DEF Success
<1>3. CASE WriteClaim(a)
  <2>1. PICK i \in Items :
          /\ copy[a][i].status = "pending"
          /\ items' = Claimed(copy[a], i, a)
          /\ held' = [held EXCEPT ![a] = i]
          /\ pc' = [pc EXCEPT ![a] = IF i \in reports[a] THEN "send" ELSE "failed"]
          /\ copy' = [copy EXCEPT ![a] = Empty]
          /\ UNCHANGED <<clock, now, reports, delivered, crashes, commands>>
    BY <1>3, ClaimTaken DEF Inv
  <2>2. OnlyBy(a) /\ copy'[a] = Empty /\ pc'[a] \in {"send", "failed"}
    BY <2>1 DEF Inv, TypeOK, OnlyBy
  <2>3. Sound(copy[a])
    BY DEF Inv, AllSound
  <2>4. /\ \A j \in Items : j # i => items'[j] = copy[a][j]
        /\ items'[i].status = "in_progress"
    BY <1>0, <2>1, <2>3, ClaimedItems DEF Sound
  <2>5. SentIn(items') \subseteq SentIn(copy[a]) /\ SentIn(Empty) = {}
    BY <2>4 DEF SentIn, Empty, AbsentItem
  <2> QED
    BY <2>1, <2>2, <2>5, Repeats DEF Success
<1>4. CASE ClaimNothing(a)
  BY <1>4, RestTold DEF ClaimNothing
<1> QED
  BY <1>1, <1>2, <1>3, <1>4, SendTold, LoadResultTold, WriteResultTold DEF Deliver

LEMMA ToldStep == Inv /\ Told /\ [Next]_vars => Told'
<1> SUFFICES ASSUME Inv, Told, [Next]_vars PROVE Told'
  OBVIOUS
<1>0. /\ Sound(items) /\ \A a \in Actor : Sound(copy[a])
      /\ Agent \in Actor /\ Operator \in Actor
  BY PhasesDiffer DEF Inv, AllSound
<1>1. CASE Start
  <2>1. OnlyBy(Agent) /\ copy'[Agent] = copy[Agent] /\ pc'[Agent] = "idle"
        /\ UNCHANGED <<items, delivered>>
    BY <1>0, <1>1 DEF Start, Inv, TypeOK, OnlyBy
  <2> QED
    BY <1>0, <2>1, Repeats DEF Success
<1>2. ASSUME NEW new \in SUBSET Items, BeginCycle(new) PROVE Told'
  <2> DEFINE t == IF Waiting(items) = {} THEN 0
                  ELSE IF TimeMatters THEN clock + 1 ELSE clock
             w == WithIntents(items, new, t)
  <2>1. /\ now' = [now EXCEPT ![Agent] = t]
        /\ copy' = [copy EXCEPT ![Agent] = w]
        /\ pc' = [pc EXCEPT ![Agent] = "apply"]
        /\ UNCHANGED <<items, reports, held, delivered, crashes, commands>>
    BY <1>2 DEF BeginCycle
  <2>2. t \in Nat
    BY DEF Inv, TypeOK
  <2>3. SentIn(w) \subseteq SentIn(items)
    BY <1>0, <2>2, CopiesSent
  <2> HIDE DEF t, w
  <2>4. OnlyBy(Agent) /\ copy'[Agent] = w /\ pc'[Agent] = "apply"
    BY <1>0, <2>1 DEF Inv, TypeOK, OnlyBy
  <2> QED
    BY <1>0, <2>1, <2>3, <2>4, Repeats DEF Success
<1>3. CASE Apply
  <2>1. /\ items' \in Retained(copy[Agent])
        /\ pc' = [pc EXCEPT ![Agent] = "scan"]
        /\ copy' = [copy EXCEPT ![Agent] = Empty]
        /\ UNCHANGED <<clock, now, reports, held, delivered, crashes, commands>>
    BY <1>3 DEF Apply
  <2>2. OnlyBy(Agent) /\ copy'[Agent] = Empty /\ pc'[Agent] = "scan"
    BY <1>0, <2>1 DEF Inv, TypeOK, OnlyBy
  <2>3. SentIn(items') \subseteq SentIn(copy[Agent]) /\ SentIn(Empty) = {}
    BY <1>0, <2>1, CopiesSent, 0 \in Nat
  <2> QED
    BY <1>0, <2>1, <2>2, <2>3, Repeats DEF Success
<1>4. CASE ApplyOverBound
  BY <1>0, <1>4, RestTold DEF ApplyOverBound
<1>5. CASE Scan
  <2>1. OnlyBy(Agent) /\ copy'[Agent] = copy[Agent] /\ pc'[Agent] = "load_claims"
        /\ UNCHANGED <<items, delivered>>
    BY <1>0, <1>5 DEF Scan, Inv, TypeOK, OnlyBy
  <2> QED
    BY <1>0, <2>1, Repeats DEF Success
<1>6. CASE ScanNothing
  BY <1>0, <1>6, RestTold DEF ScanNothing
<1>7. CASE WriteSkip
  <2>1. /\ items' \in Retained(copy[Operator]) /\ Rest(Operator, "idle")
        /\ delivered' = delivered
    BY <1>7 DEF WriteSkip
  <2>2. SentIn(items') \subseteq SentIn(copy[Operator])
    BY <1>0, <2>1, CopiesSent, 0 \in Nat
  <2> QED
    BY <1>0, <2>1, <2>2, RestTold
<1>8. ASSUME NEW i \in Items, BeginSendDue(i) PROVE Told'
  <2>1. OnlyBy(Operator) /\ copy'[Operator] = copy[Operator]
        /\ pc'[Operator] = "load_claims" /\ UNCHANGED <<items, delivered>>
    BY <1>0, <1>8 DEF BeginSendDue, Command, Inv, TypeOK, OnlyBy
  <2> QED
    BY <1>0, <2>1, Repeats DEF Success
<1>9. ASSUME NEW i \in Items, BeginSkip(i) PROVE Told'
  <2>1. /\ now' = [now EXCEPT ![Operator] = clock]
        /\ copy' = [copy EXCEPT ![Operator] = Skipped(items, i)]
        /\ pc' = [pc EXCEPT ![Operator] = "skip"]
        /\ UNCHANGED <<reports, items, clock, held, delivered, crashes>>
    BY <1>9 DEF BeginSkip, Command, Skipped
  <2>2. OnlyBy(Operator) /\ copy'[Operator] = Skipped(items, i) /\ pc'[Operator] = "skip"
    BY <1>0, <2>1 DEF Inv, TypeOK, OnlyBy
  <2>3. SentIn(Skipped(items, i)) \subseteq SentIn(items)
    BY <1>0, CopiesSent, 0 \in Nat
  <2> QED
    BY <1>0, <2>1, <2>2, <2>3, Repeats DEF Success
<1>10. ASSUME NEW a \in Actor, Crash(a) PROVE Told'
  <2>1. PICK phase : Rest(a, phase) /\ (phase = "idle" \/ (a = Agent /\ phase = "down"))
    BY <1>10 DEF Crash
  <2> QED
    BY <1>10, <2>1, RestTold DEF Crash
<1>11. CASE UNCHANGED vars
  BY <1>11 DEF vars, Told, SentWasAccepted, SentIn
<1> QED
  BY <1>0, <1>1, <1>2, <1>3, <1>4, <1>5, <1>6, <1>7, <1>8, <1>9, <1>10, <1>11, DeliverTold
     DEF Next, AgentStep, OperatorStep

(***************************************************************************)
(* "Sent" is the truth, also when a command runs beside the agent, a claim *)
(* is recovered while its holder still sends, or an older copy replaces    *)
(* the file.                                                               *)
(***************************************************************************)
THEOREM SentCorrect == Spec => []SentWasAccepted
<1>1. Init => Told
  BY DEF Init, Told, SentWasAccepted, SentIn, Empty, AbsentItem, Success
<1>2. Told => SentWasAccepted
  BY DEF Told
<1> QED
  BY <1>1, <1>2, ToldStep, InvHolds, PTL DEF Spec

-----------------------------------------------------------------------------
(***************************************************************************)
(* What IncidentOutbox guarantees when, as the operator's manual asks, no  *)
(* command runs beside the agent.  Every theorem from here on is for       *)
(* ~Shared: a command that writes the file between the agent's reading and *)
(* its writing is overwritten by the agent's older copy, or the reverse.   *)
(***************************************************************************)
HIDE OutboxAssumption

(***************************************************************************)
(* How an operation may change an outbox: what is final stays so or is     *)
(* dropped, what is known stays known, and, unless a result is recorded,   *)
(* no attempt is counted.                                                  *)
(***************************************************************************)
Keeps(new, old) ==
  \A i \in Items :
    /\ i \in Terminal(old) => new[i].status \in {old[i].status, "dropped"}
    /\ old[i].status = "dropped" => new[i].status = "dropped"
    /\ new[i].status = "absent" => old[i].status = "absent"

Follows(new, old) ==
  Keeps(new, old) /\ \A i \in Items : new[i].attempts = old[i].attempts

\* An intent that is not in the file has had no attempt.
Untouched(outbox) ==
  \A i \in Items : outbox[i].status = "absent" => outbox[i].attempts = 0

LEMMA SameFollows == ASSUME NEW outbox PROVE Follows(outbox, outbox)
BY DEF Follows, Keeps

LEMMA FollowsUntouched ==
  ASSUME NEW new, NEW old, Follows(new, old), Untouched(old)
  PROVE  Untouched(new)
BY DEF Follows, Keeps, Untouched

LEMMA WithIntentsFollows ==
  ASSUME NEW outbox, Sound(outbox), Untouched(outbox), NEW new \in SUBSET Items,
         NEW t \in Nat, \A i \in new : outbox[i].status = "absent"
  PROVE  Follows(WithIntents(outbox, new, t), outbox)
<1> DEFINE w == WithIntents(outbox, new, t)
<1>1. \A i \in Items : IF i \in new THEN w[i].attempts = 0 /\ w[i].status = "pending"
                                    ELSE w[i] = outbox[i]
  BY DEF WithIntents
<1> HIDE DEF w
<1>2. \A i \in new : outbox[i].attempts = 0 /\ i \notin Terminal(outbox)
  BY DEF Untouched, Terminal
<1> QED
  BY <1>1, <1>2 DEF Follows, Keeps, w

LEMMA RecoveredFollows ==
  ASSUME NEW outbox, Sound(outbox), NEW t \in Nat
  PROVE  Follows(Recovered(outbox, t), outbox)
<1> DEFINE r == Recovered(outbox, t)
<1>1. /\ Waiting(r) = Waiting(outbox)
      /\ \A i \in Items : /\ r[i].attempts = outbox[i].attempts
                          /\ outbox[i].status # "in_progress" => r[i] = outbox[i]
  BY RecoveredItems DEF Sound
<1> HIDE DEF r
<1>2. ASSUME NEW i \in Items, outbox[i].status = "in_progress"
      PROVE  r[i].status \in {"pending", "in_progress"} /\ i \notin Terminal(outbox)
  BY <1>1, <1>2 DEF Waiting, Terminal
<1> QED
  BY <1>1, <1>2 DEF Follows, Keeps, r

LEMMA ClaimedFollows ==
  ASSUME NEW outbox, Sound(outbox), NEW i \in Items, NEW a \in Actor,
         outbox[i].status = "pending", now[a] \in Nat
  PROVE  Follows(Claimed(outbox, i, a), outbox)
<1> DEFINE c == Claimed(outbox, i, a)
<1>1. /\ \A j \in Items : c[j].attempts = outbox[j].attempts /\ (j # i => c[j] = outbox[j])
      /\ c[i].status = "in_progress"
  BY ClaimedItems DEF Sound
<1> HIDE DEF c
<1> QED
  BY <1>1 DEF Follows, Keeps, Terminal, c

LEMMA SkippedFollows ==
  ASSUME NEW outbox, Sound(outbox), NEW i \in Items, outbox[i].status = "pending"
  PROVE  Follows(Skipped(outbox, i), outbox)
<1> DEFINE s == Skipped(outbox, i)
<1>1. /\ s[i].attempts = outbox[i].attempts /\ s[i].status = "dead_letter"
      /\ \A j \in Items \ {i} : s[j] = outbox[j]
  BY SkippedItems
<1> HIDE DEF s
<1> QED
  BY <1>1 DEF Follows, Keeps, Terminal, s

LEMMA ResultKeeps ==
  ASSUME NEW outbox, Sound(outbox), NEW i \in Items, NEW success \in BOOLEAN,
         NEW t \in Nat, outbox[i].status = "in_progress"
  PROVE  Keeps(Result(outbox, i, success, t), outbox)
<1> DEFINE r == Result(outbox, i, success, t)
<1>1. r[i].status # "absent" /\ \A j \in Items \ {i} : r[j] = outbox[j]
  BY ResultItems
<1> HIDE DEF r
<1> QED
  BY <1>1 DEF Keeps, Terminal, r

\* Retention drops final intents and counts nothing.
LEMMA RetainedFollows ==
  ASSUME NEW outbox, Sound(outbox), NEW r \in Retained(outbox)
  PROVE  Follows(r, outbox)
<1>1. \A i \in Items :
        \/ r[i] = outbox[i]
        \/ r[i].status = "dropped" /\ r[i].attempts = outbox[i].attempts
  BY RetainedItems DEF Sound
<1> QED
  BY <1>1 DEF Follows, Keeps

LEMMA KeepsTransitive ==
  ASSUME NEW new, NEW middle, NEW old, Follows(new, middle), Keeps(middle, old)
  PROVE  /\ Keeps(new, old)
         /\ Follows(middle, old) => Follows(new, old)
BY DEF Follows, Keeps, Terminal

-----------------------------------------------------------------------------
(***************************************************************************)
(* The inductive invariant.  Only one of the two acts; a copy it is about  *)
(* to write still follows from the file, and where a claim or a result is  *)
(* to be written it is the file.                                           *)
(***************************************************************************)
Alone == pc[Agent] = "down" \/ pc[Operator] = "idle"

CopiesFollow ==
  \A a \in Actor :
    /\ pc[a] \in {"apply", "recover", "skip"} => Follows(copy[a], items)
    /\ pc[a] \in Recording \cup {"claim"} => copy[a] = items

\* From its claim to the write of its result an actor owns the intent: the file
\* shows it in progress under that actor's claim.
HolderOwnsClaim ==
  \A a \in Actor : pc[a] \in Holding => HoldsClaim(items, a)

Solo == Alone /\ CopiesFollow /\ HolderOwnsClaim /\ Untouched(items) /\ DeliveriesAccounted

\* The other actor rests.
OtherRests(a) == IF a = Agent THEN pc[Operator] = "idle" ELSE pc[Agent] = "down"

LEMMA Resting ==
  ASSUME NEW a \in Actor, OtherRests(a)
  PROVE  \A b \in Actor \ {a} :
           /\ pc[b] \notin {"apply", "recover", "skip"}
           /\ pc[b] \notin Recording \cup {"claim"}
           /\ pc[b] \notin Holding
<1>1. ASSUME NEW b \in Actor \ {a} PROVE pc[b] \in {"idle", "down"}
  BY DEF OtherRests, Actor, Agent, Operator
<1> QED
  BY <1>1 DEF Recording, Holding

LEMMA ActsAlone ==
  ASSUME Solo, NEW a \in Actor, pc[a] # (IF a = Agent THEN "down" ELSE "idle")
  PROVE  OtherRests(a)
BY DEF Solo, Alone, OtherRests, Actor

\* Whether an actor has an attempt at the intent still to record.
Owes(a, i) == IF a \in Unrecorded(i) THEN 1 ELSE 0

LEMMA TwoActors ==
  ASSUME NEW S \in SUBSET Actor
  PROVE  Cardinality(S) = (IF Agent \in S THEN 1 ELSE 0) + (IF Operator \in S THEN 1 ELSE 0)
<1>1. CASE Agent \notin S /\ Operator \notin S
  <2>1. S = {}
    BY <1>1 DEF Actor
  <2> QED
    BY <1>1, <2>1, FS_EmptySet
<1>2. CASE Agent \in S /\ Operator \notin S
  <2>1. S = {Agent}
    BY <1>2 DEF Actor
  <2>2. Cardinality(S) = 1
    BY <2>1, FS_Singleton
  <2> QED
    BY <1>2, <2>2
<1>3. CASE Agent \notin S /\ Operator \in S
  <2>1. S = {Operator}
    BY <1>3 DEF Actor
  <2>2. Cardinality(S) = 1
    BY <2>1, FS_Singleton
  <2> QED
    BY <1>3, <2>2
<1>4. CASE Agent \in S /\ Operator \in S
  <2>1. S = {Agent} \cup {Operator}
    BY <1>4 DEF Actor
  <2>2. IsFiniteSet({Agent}) /\ Cardinality({Agent}) = 1
    BY FS_Singleton
  <2>3. Cardinality({Agent} \cup {Operator}) = 2
    BY <2>2, PhasesDiffer, FS_AddElement
  <2> QED
    BY <1>4, <2>1, <2>3
<1> QED
  BY <1>1, <1>2, <1>3, <1>4

\* A call more pays for as many copies as one call delivers.
LEMMA MoreCalls ==
  ASSUME NEW m \in Nat, NEW n \in Nat
  PROVE  /\ SmtpTries * m \in Nat
         /\ m <= n => SmtpTries * m <= SmtpTries * n
         /\ m + 1 <= n => SmtpTries * m + SmtpTries <= SmtpTries * n
<1>1. SmtpTries \in Nat
  BY OutboxAssumption
<1>2. ASSUME NEW k \in Nat PROVE SmtpTries * k \in Nat
  BY <1>1
<1>3. ASSUME m <= n PROVE SmtpTries * m <= SmtpTries * n
  <2>1. n - m \in Nat /\ SmtpTries * n = SmtpTries * m + SmtpTries * (n - m)
    BY <1>1, <1>3
  <2>2. SmtpTries * (n - m) \in Nat
    BY <1>2, <2>1
  <2> QED
    BY <1>2, <2>1, <2>2
<1>4. ASSUME m + 1 <= n PROVE SmtpTries * m + SmtpTries <= SmtpTries * n
  <2>1. n - (m + 1) \in Nat
    BY <1>4
  <2>2. SmtpTries * n = SmtpTries * m + SmtpTries + SmtpTries * (n - (m + 1))
    BY <1>1, <1>4
  <2>3. SmtpTries * (n - (m + 1)) \in Nat
    BY <1>2, <2>1
  <2> QED
    BY <1>1, <1>2, <2>2, <2>3
<1> QED
  BY <1>2, <1>3, <1>4

\* A step of one actor accounts for what it delivers, by an attempt it counts,
\* a crash, or a result it now has to record.
Settles(a, i) == items[i].attempts + crashes + Owes(a, i)

Accounts(a) ==
  \A i \in Items :
    \/ delivered'[i] = delivered[i] /\ Settles(a, i) <= Settles(a, i)'
    \/ /\ delivered'[i] <= delivered[i] + SmtpTries
       /\ Settles(a, i) + 1 <= Settles(a, i)'

LEMMA StaysAccounted ==
  ASSUME TypeOK, TypeOK', NEW a \in Actor, OnlyBy(a), DeliveriesAccounted, Accounts(a)
  PROVE  DeliveriesAccounted'
<1> SUFFICES ASSUME NEW i \in Items
             PROVE  delivered'[i] <= SmtpTries * Calls(i)'
  BY DEF DeliveriesAccounted
<1> DEFINE U == Unrecorded(i)
           V == Unrecorded(i)'
<1>1. /\ Cardinality(U) = (IF Agent \in U THEN 1 ELSE 0) + (IF Operator \in U THEN 1 ELSE 0)
      /\ Cardinality(V) = (IF Agent \in V THEN 1 ELSE 0) + (IF Operator \in V THEN 1 ELSE 0)
  <2>1. U \in SUBSET Actor /\ V \in SUBSET Actor
    BY DEF Unrecorded
  <2> HIDE DEF U, V
  <2> QED
    BY <2>1, TwoActors
<1>2. \A b \in Actor \ {a} : b \in U <=> b \in V
  BY DEF OnlyBy, Unrecorded
<1>3. delivered[i] <= SmtpTries * Calls(i)
  BY DEF DeliveriesAccounted
<1>4. /\ delivered[i] \in Nat /\ delivered'[i] \in Nat /\ SmtpTries \in Nat
      /\ items[i].attempts \in Nat /\ items'[i].attempts \in Nat
      /\ crashes \in Nat /\ crashes' \in Nat
  BY OutboxAssumption DEF TypeOK, Outbox, Item
<1> HIDE DEF U, V
<1>5. /\ Calls(i) \in Nat /\ Calls(i)' \in Nat
      /\ Calls(i)' - Calls(i) = Settles(a, i)' - Settles(a, i)
  <2>1. /\ Settles(a, i) = items[i].attempts + crashes + (IF a \in U THEN 1 ELSE 0)
        /\ Settles(a, i)' = items'[i].attempts + crashes' + (IF a \in V THEN 1 ELSE 0)
    BY DEF Settles, Owes, U, V
  <2>2. /\ Calls(i) = items[i].attempts + crashes + Cardinality(U)
        /\ Calls(i)' = items'[i].attempts + crashes' + Cardinality(V)
    BY DEF Calls, U, V
  <2>3. CASE a = Agent
    <3>1. Operator \in U <=> Operator \in V
      BY <1>2, <2>3, PhasesDiffer
    <3> QED
      BY <1>1, <1>4, <2>1, <2>2, <2>3, <3>1
  <2>4. CASE a = Operator
    <3>1. Agent \in U <=> Agent \in V
      BY <1>2, <2>4, PhasesDiffer
    <3> QED
      BY <1>1, <1>4, <2>1, <2>2, <2>4, <3>1
  <2> QED
    BY <2>3, <2>4 DEF Actor
<1>6. Settles(a, i) \in Int /\ Settles(a, i)' \in Int
  BY <1>4 DEF Settles, Owes
<1>7. CASE delivered'[i] = delivered[i] /\ Settles(a, i) <= Settles(a, i)'
  <2>1. Calls(i) <= Calls(i)'
    BY <1>5, <1>6, <1>7
  <2>2. SmtpTries * Calls(i) <= SmtpTries * Calls(i)'
    BY <1>5, <2>1, MoreCalls
  <2>3. SmtpTries * Calls(i) \in Nat /\ SmtpTries * Calls(i)' \in Nat
    BY <1>5, MoreCalls
  <2> QED
    BY <1>3, <1>4, <1>7, <2>2, <2>3
<1>8. CASE /\ delivered'[i] <= delivered[i] + SmtpTries
           /\ Settles(a, i) + 1 <= Settles(a, i)'
  <2>1. Calls(i) + 1 <= Calls(i)'
    BY <1>5, <1>6, <1>8
  <2>2. SmtpTries * Calls(i) + SmtpTries <= SmtpTries * Calls(i)'
    BY <1>5, <2>1, MoreCalls
  <2>3. SmtpTries * Calls(i) \in Nat /\ SmtpTries * Calls(i)' \in Nat
    BY <1>5, MoreCalls
  <2> QED
    BY <1>3, <1>4, <1>8, <2>2, <2>3
<1> QED
  BY <1>7, <1>8 DEF Accounts

-----------------------------------------------------------------------------
(***************************************************************************)
(* A step of the one that acts keeps the invariant when what it writes     *)
(* follows from the file and what it then holds is its own.                *)
(***************************************************************************)
LEMMA SoloStep ==
  ASSUME Inv, Inv', Solo, NEW a \in Actor, OtherRests(a), OnlyBy(a),
         Untouched(items'), Accounts(a),
         pc'[a] \in {"apply", "recover", "skip"} => Follows(copy'[a], items'),
         pc'[a] \in Recording \cup {"claim"} => copy'[a] = items',
         pc'[a] \in Holding => /\ items'[held'[a]].status = "in_progress"
                               /\ items'[held'[a]].claim = [by |-> a, at |-> now'[a]]
  PROVE  Solo'
<1>1. Alone'
  BY PhasesDiffer DEF OtherRests, OnlyBy, Alone, Actor
<1>2. CopiesFollow'
  BY Resting DEF CopiesFollow, OnlyBy
<1>3. HolderOwnsClaim'
  BY Resting DEF HolderOwnsClaim, HoldsClaim, Claim, OnlyBy
<1>4. DeliveriesAccounted'
  BY StaysAccounted DEF Inv, Solo
<1> QED
  BY <1>1, <1>2, <1>3, <1>4 DEF Solo

\* Nothing is delivered and no attempt counted: an actor that had nothing to
\* record has nothing to account for.
LEMMA NothingOwed ==
  ASSUME Inv, Inv', Solo, NEW a \in Actor, Follows(items', items),
         delivered' = delivered, crashes' = crashes,
         pc[a] \in Holding \ {"send"}
           => pc'[a] \in Holding \ {"send"} /\ held'[a] = held[a]
  PROVE  Untouched(items') /\ Accounts(a)
<1>1. Untouched(items')
  BY FollowsUntouched DEF Solo
<1>2. ASSUME NEW i \in Items
      PROVE  delivered'[i] = delivered[i] /\ Settles(a, i) <= Settles(a, i)'
  <2>1. a \in Unrecorded(i) => a \in Unrecorded(i)'
    BY DEF Unrecorded
  <2>2. Owes(a, i) <= Owes(a, i)' /\ Owes(a, i) \in Nat /\ Owes(a, i)' \in Nat
    BY <2>1 DEF Owes
  <2>3. items'[i].attempts = items[i].attempts
    BY DEF Follows
  <2>4. delivered[i] \in Nat /\ items[i].attempts \in Nat /\ crashes \in Nat
    BY DEF Inv, TypeOK, Outbox, Item
  <2> QED
    BY <2>2, <2>3, <2>4 DEF Settles
<1> QED
  BY <1>1, <1>2 DEF Accounts

LEMMA FileFollows == ASSUME items' = items PROVE Follows(items', items)
BY SameFollows

\* An actor that had nothing to record comes to rest.
LEMMA RestSolo ==
  ASSUME Inv, Inv', Solo, NEW a \in Actor, NEW phase, OtherRests(a), Rest(a, phase),
         phase = "idle" \/ (a = Agent /\ phase = "down"), pc[a] \notin Holding,
         UNCHANGED <<items, delivered, crashes>>
  PROVE  Solo'
<1>1. OnlyBy(a) /\ pc'[a] = phase
  BY RestHands
<1>2. Untouched(items') /\ Accounts(a)
  BY FileFollows, NothingOwed
<1>3. phase \notin {"apply", "recover", "skip"} /\ phase \notin Recording \cup {"claim"}
      /\ phase \notin Holding
  BY DEF Recording, Holding
<1> QED
  BY <1>1, <1>2, <1>3, SoloStep

-----------------------------------------------------------------------------
(***************************************************************************)
(* Every action keeps the invariant, and what is final in the file.        *)
(***************************************************************************)
LEMMA StartSolo ==
  ASSUME Inv, Inv', Solo, ~Shared, Start PROVE Solo' /\ Keeps(items', items)
<1>1. /\ pc[Agent] = "down" /\ pc[Operator] = "idle"
      /\ pc' = [pc EXCEPT ![Agent] = "idle"]
      /\ UNCHANGED <<items, clock, copy, now, reports, held, delivered, crashes, commands>>
  BY DEF Start
<1>2. OnlyBy(Agent) /\ pc'[Agent] = "idle" /\ OtherRests(Agent)
  BY <1>1, PhasesDiffer DEF Inv, TypeOK, OnlyBy, OtherRests
<1>3. "idle" \notin Holding /\ "idle" \notin Recording \cup {"claim"} /\ "down" \notin Holding
  BY DEF Recording, Holding
<1>4. Untouched(items') /\ Accounts(Agent)
  BY <1>1, <1>3, PhasesDiffer, FileFollows, NothingOwed
<1> QED
  BY <1>1, <1>2, <1>3, <1>4, PhasesDiffer, FileFollows, SoloStep DEF Follows

LEMMA BeginCycleSolo ==
  ASSUME Inv, Inv', Solo, NEW new \in SUBSET Items, BeginCycle(new)
  PROVE  Solo' /\ Keeps(items', items)
<1> DEFINE t == IF Waiting(items) = {} THEN 0
                ELSE IF TimeMatters THEN clock + 1 ELSE clock
           w == WithIntents(items, new, t)
<1>1. /\ pc[Agent] = "idle"
      /\ now' = [now EXCEPT ![Agent] = t]
      /\ copy' = [copy EXCEPT ![Agent] = w]
      /\ pc' = [pc EXCEPT ![Agent] = "apply"]
      /\ UNCHANGED <<items, reports, held, delivered, crashes, commands>>
      /\ \A i \in new : items[i].status = "absent"
  BY DEF BeginCycle
<1>2. t \in Nat
  BY DEF Inv, TypeOK
<1>3. Follows(w, items)
  BY <1>1, <1>2, FileUnchanged, WithIntentsFollows DEF Solo
<1> HIDE DEF t, w
<1>4. OnlyBy(Agent) /\ pc'[Agent] = "apply" /\ copy'[Agent] = w
  BY <1>1, PhasesDiffer DEF Inv, TypeOK, OnlyBy
<1>5. "apply" \notin Holding /\ "apply" \notin Recording \cup {"claim"} /\ "idle" \notin Holding
  BY DEF Recording, Holding
<1>6. OtherRests(Agent)
  BY <1>1, PhasesDiffer, ActsAlone
<1>7. Untouched(items') /\ Accounts(Agent)
  BY <1>1, <1>5, PhasesDiffer, FileFollows, NothingOwed
<1> QED
  BY <1>1, <1>3, <1>4, <1>5, <1>6, <1>7, PhasesDiffer, FileFollows, SoloStep DEF Follows

LEMMA ApplySolo ==
  ASSUME Inv, Inv', Solo, Apply PROVE Solo' /\ Keeps(items', items)
<1>1. /\ pc[Agent] = "apply"
      /\ items' \in Retained(copy[Agent])
      /\ pc' = [pc EXCEPT ![Agent] = "scan"]
      /\ copy' = [copy EXCEPT ![Agent] = Empty]
      /\ UNCHANGED <<clock, now, reports, held, delivered, crashes, commands>>
  BY DEF Apply
<1>2. Follows(copy[Agent], items) /\ Sound(copy[Agent])
  BY <1>1, PhasesDiffer DEF Inv, AllSound, Solo, CopiesFollow
<1>3. Follows(items', items)
  BY <1>1, <1>2, RetainedFollows, KeepsTransitive DEF Follows
<1>4. OnlyBy(Agent) /\ pc'[Agent] = "scan"
  BY <1>1, PhasesDiffer DEF Inv, TypeOK, OnlyBy
<1>5. "scan" \notin Holding /\ "scan" \notin Recording \cup {"claim"} /\ "apply" \notin Holding
  BY DEF Recording, Holding
<1>6. OtherRests(Agent)
  BY <1>1, PhasesDiffer, ActsAlone
<1>7. Untouched(items') /\ Accounts(Agent)
  BY <1>1, <1>3, <1>5, PhasesDiffer, NothingOwed
<1> QED
  BY <1>3, <1>4, <1>5, <1>6, <1>7, PhasesDiffer, SoloStep DEF Follows

LEMMA ApplyOverBoundSolo ==
  ASSUME Inv, Inv', Solo, ApplyOverBound PROVE Solo' /\ Keeps(items', items)
<1>1. /\ pc[Agent] = "apply" /\ Rest(Agent, "down")
      /\ UNCHANGED <<items, clock, delivered, crashes, commands>>
  BY DEF ApplyOverBound
<1>2. OtherRests(Agent) /\ pc[Agent] \notin Holding
  BY <1>1, PhasesDiffer, ActsAlone DEF Holding
<1> QED
  BY <1>1, <1>2, PhasesDiffer, FileFollows, RestSolo DEF Follows

LEMMA ScanSolo ==
  ASSUME Inv, Inv', Solo, Scan PROVE Solo' /\ Keeps(items', items)
<1>1. /\ pc[Agent] = "scan"
      /\ \E i : reports' = [reports EXCEPT ![Agent] = {i}]
      /\ pc' = [pc EXCEPT ![Agent] = "load_claims"]
      /\ UNCHANGED <<items, clock, copy, now, held, delivered, crashes, commands>>
  BY DEF Scan
<1>2. OnlyBy(Agent) /\ pc'[Agent] = "load_claims"
  BY <1>1, PhasesDiffer DEF Inv, TypeOK, OnlyBy
<1>3. "load_claims" \notin Holding /\ "load_claims" \notin Recording \cup {"claim"}
      /\ "scan" \notin Holding
  BY DEF Recording, Holding
<1>4. OtherRests(Agent)
  BY <1>1, PhasesDiffer, ActsAlone
<1>5. Untouched(items') /\ Accounts(Agent)
  BY <1>1, <1>3, PhasesDiffer, FileFollows, NothingOwed
<1> QED
  BY <1>1, <1>2, <1>3, <1>4, <1>5, PhasesDiffer, FileFollows, SoloStep DEF Follows

LEMMA ScanNothingSolo ==
  ASSUME Inv, Inv', Solo, ScanNothing PROVE Solo' /\ Keeps(items', items)
<1>1. /\ pc[Agent] = "scan" /\ Rest(Agent, "idle")
      /\ UNCHANGED <<items, clock, delivered, crashes, commands>>
  BY DEF ScanNothing
<1>2. OtherRests(Agent) /\ pc[Agent] \notin Holding
  BY <1>1, PhasesDiffer, ActsAlone DEF Holding
<1> QED
  BY <1>1, <1>2, PhasesDiffer, FileFollows, RestSolo DEF Follows

LEMMA LoadClaimsSolo ==
  ASSUME Inv, Inv', Solo, NEW a \in Actor, LoadClaims(a)
  PROVE  Solo' /\ Keeps(items', items)
<1> DEFINE r == Recovered(items, now[a])
<1>1. /\ pc[a] = "load_claims"
      /\ copy' = [copy EXCEPT ![a] = r]
      /\ pc' = [pc EXCEPT ![a] = "recover"]
      /\ UNCHANGED <<items, clock, now, reports, held, delivered, crashes, commands>>
  BY DEF LoadClaims
<1>2. Follows(r, items)
  BY FileUnchanged, RecoveredFollows DEF Inv, TypeOK
<1> HIDE DEF r
<1>3. OnlyBy(a) /\ pc'[a] = "recover" /\ copy'[a] = r
  BY <1>1 DEF Inv, TypeOK, OnlyBy
<1>4. "recover" \notin Holding /\ "recover" \notin Recording \cup {"claim"}
      /\ "load_claims" \notin Holding
  BY DEF Recording, Holding
<1>5. OtherRests(a)
  BY <1>1, ActsAlone
<1>6. Untouched(items') /\ Accounts(a)
  BY <1>1, <1>4, FileFollows, NothingOwed
<1> QED
  BY <1>1, <1>2, <1>3, <1>4, <1>5, <1>6, FileFollows, SoloStep DEF Follows

LEMMA WriteRecoveredSolo ==
  ASSUME Inv, Inv', Solo, NEW a \in Actor, WriteRecovered(a)
  PROVE  Solo' /\ Keeps(items', items)
<1>1. /\ pc[a] = "recover"
      /\ items' = copy[a]
      /\ pc' = [pc EXCEPT ![a] = "claim"]
      /\ UNCHANGED <<clock, copy, now, reports, held, delivered, crashes, commands>>
  BY DEF WriteRecovered
<1>2. Follows(items', items)
  BY <1>1 DEF Solo, CopiesFollow
<1>3. OnlyBy(a) /\ pc'[a] = "claim" /\ copy'[a] = items'
  BY <1>1 DEF Inv, TypeOK, OnlyBy
<1>4. "claim" \notin Holding /\ "recover" \notin Holding
  BY DEF Holding
<1>5. OtherRests(a)
  BY <1>1, ActsAlone
<1>6. Untouched(items') /\ Accounts(a)
  BY <1>1, <1>2, <1>4, NothingOwed
<1> QED
  BY <1>2, <1>3, <1>4, <1>5, <1>6, SoloStep DEF Follows

LEMMA WriteClaimSolo ==
  ASSUME Inv, Inv', Solo, NEW a \in Actor, WriteClaim(a)
  PROVE  Solo' /\ Keeps(items', items)
<1>1. PICK i \in Items :
        /\ copy[a][i].status = "pending"
        /\ items' = Claimed(copy[a], i, a)
        /\ held' = [held EXCEPT ![a] = i]
        /\ pc' = [pc EXCEPT ![a] = IF i \in reports[a] THEN "send" ELSE "failed"]
        /\ pc[a] = "claim"
        /\ copy' = [copy EXCEPT ![a] = Empty]
        /\ UNCHANGED <<clock, now, reports, delivered, crashes, commands>>
  BY ClaimTaken DEF Inv
<1>2. copy[a] = items /\ Sound(items) /\ now[a] \in Nat
  BY <1>1 DEF Inv, TypeOK, AllSound, Solo, CopiesFollow
<1>3. Follows(items', items)
  BY <1>1, <1>2, ClaimedFollows
<1>4. items'[i].status = "in_progress" /\ items'[i].claim = [by |-> a, at |-> now[a]]
  BY <1>1, <1>2, ClaimedItems DEF Sound, Claim
<1>5. PICK phase \in {"send", "failed"} : pc' = [pc EXCEPT ![a] = phase]
  BY <1>1
<1>6. OnlyBy(a) /\ pc'[a] = phase /\ held'[a] = i /\ now'[a] = now[a]
  BY <1>1, <1>5 DEF Inv, TypeOK, OnlyBy
<1>7. phase \notin Recording \cup {"claim"} /\ "claim" \notin Holding
  BY DEF Recording, Holding
<1>8. OtherRests(a)
  BY <1>1, ActsAlone
<1>9. Untouched(items') /\ Accounts(a)
  BY <1>1, <1>3, <1>7, NothingOwed
<1> QED
  BY <1>3, <1>4, <1>6, <1>7, <1>8, <1>9, SoloStep DEF Follows

LEMMA ClaimNothingSolo ==
  ASSUME Inv, Inv', Solo, NEW a \in Actor, ClaimNothing(a)
  PROVE  Solo' /\ Keeps(items', items)
<1>1. /\ pc[a] = "claim" /\ Rest(a, "idle")
      /\ UNCHANGED <<items, clock, delivered, crashes, commands>>
  BY DEF ClaimNothing
<1>2. OtherRests(a) /\ pc[a] \notin Holding
  BY <1>1, ActsAlone DEF Holding
<1> QED
  BY <1>1, <1>2, FileFollows, RestSolo DEF Follows

\* What the server accepts is owed from now on.
LEMMA SendSolo ==
  ASSUME Inv, Inv', Solo, NEW a \in Actor, Send(a)
  PROVE  Solo' /\ Keeps(items', items)
<1>1. /\ pc[a] = "send"
      /\ UNCHANGED <<items, clock, copy, now, reports, held, crashes, commands>>
  BY DEF Send
<1>2. PICK phase \in {"succeeded", "failed"} : pc' = [pc EXCEPT ![a] = phase]
  BY DEF Send
<1>3. OnlyBy(a) /\ pc'[a] = phase /\ held'[a] = held[a] /\ now'[a] = now[a]
  BY <1>1, <1>2 DEF Inv, TypeOK, OnlyBy
<1>4. phase \in Holding \ {"send"} /\ phase \notin Recording \cup {"claim"}
      /\ "send" \in Holding
  BY DEF Recording, Holding
<1>5. OtherRests(a)
  BY <1>1, ActsAlone
<1>6. HoldsClaim(items, a)
  BY <1>1, <1>4 DEF Solo, HolderOwnsClaim
<1>7. Untouched(items')
  BY <1>1 DEF Solo
<1>8. ASSUME NEW i \in Items
      PROVE  \/ delivered'[i] = delivered[i] /\ Settles(a, i) <= Settles(a, i)'
             \/ /\ delivered'[i] <= delivered[i] + SmtpTries
                /\ Settles(a, i) + 1 <= Settles(a, i)'
  <2>1. Owes(a, i) = 0 /\ Owes(a, i)' = IF held[a] = i THEN 1 ELSE 0
    BY <1>1, <1>3, <1>4 DEF Owes, Unrecorded
  <2>2. PICK n \in 0 .. SmtpTries : delivered' = [delivered EXCEPT ![held[a]] = @ + n]
    BY DEF Send
  <2>3. delivered[i] \in Nat /\ items[i].attempts \in Nat /\ crashes \in Nat
        /\ SmtpTries \in Nat /\ delivered \in [Items -> Nat]
    BY OutboxAssumption DEF Inv, TypeOK, Outbox, Item
  <2>4. delivered'[i] = IF held[a] = i THEN delivered[i] + n ELSE delivered[i]
    BY <2>2, <2>3
  <2> QED
    BY <1>1, <2>1, <2>3, <2>4 DEF Settles
<1> QED
  BY <1>1, <1>3, <1>4, <1>5, <1>6, <1>7, <1>8, FileFollows, SoloStep
     DEF Follows, Accounts, HoldsClaim, Claim

\* Nobody can have taken the claim: the error exit is never taken.
LEMMA LoadResultSolo ==
  ASSUME Inv, Inv', Solo, NEW a \in Actor, LoadResult(a)
  PROVE  Solo' /\ Keeps(items', items)
<1>1. /\ pc[a] \in {"succeeded", "failed"}
      /\ UNCHANGED <<items, clock, delivered, crashes, commands>>
  BY DEF LoadResult
<1>2. HoldsClaim(items, a)
  BY <1>1 DEF Solo, HolderOwnsClaim, Holding
<1>3. /\ copy' = [copy EXCEPT ![a] = items]
      /\ UNCHANGED <<now, reports, held>>
  BY <1>2 DEF LoadResult
<1>4. PICK phase \in Recording : pc' = [pc EXCEPT ![a] = phase]
  BY <1>2 DEF LoadResult, Recording
<1>5. OnlyBy(a) /\ pc'[a] = phase /\ held'[a] = held[a] /\ now'[a] = now[a]
      /\ copy'[a] = items'
  BY <1>1, <1>3, <1>4 DEF Inv, TypeOK, OnlyBy
<1>6. phase \in Holding \ {"send"} /\ phase \notin {"apply", "recover", "skip"}
  BY DEF Recording, Holding
<1>7. OtherRests(a)
  BY <1>1, ActsAlone
<1>8. Untouched(items') /\ Accounts(a)
  BY <1>1, <1>5, <1>6, FileFollows, NothingOwed
<1> QED
  BY <1>1, <1>2, <1>5, <1>6, <1>7, <1>8, FileFollows, SoloStep
     DEF Follows, HoldsClaim, Claim

\* The attempt that is counted pays for the delivery that was owed.
LEMMA WriteResultSolo ==
  ASSUME Inv, Inv', Solo, NEW a \in Actor, WriteResult(a)
  PROVE  Solo' /\ Keeps(items', items)
<1>1. PICK success \in BOOLEAN :
        /\ pc[a] \in Recording
        /\ held[a] \in Items
        /\ copy[a][held[a]].status = "in_progress"
        /\ Sound(copy[a]) /\ now[a] \in Nat
        /\ items' \in Retained(Result(copy[a], held[a], success, now[a]))
  BY ResultWritten
<1>2. Rest(a, "idle") /\ UNCHANGED <<clock, delivered, crashes, commands>>
  BY DEF WriteResult
<1>3. copy[a] = items
  BY <1>1 DEF Solo, CopiesFollow
<1> DEFINE r == Result(items, held[a], success, now[a])
<1>4. /\ Sound(r) /\ Keeps(r, items)
      /\ r[held[a]].attempts = items[held[a]].attempts + 1
      /\ r[held[a]].status # "absent"
      /\ \A j \in Items \ {held[a]} : r[j] = items[j]
  BY <1>1, <1>3, ResultItems, ResultKeeps
<1>5. items' \in Retained(r)
  BY <1>1, <1>3
<1> HIDE DEF r
<1>6. Follows(items', r)
  BY <1>4, <1>5, RetainedFollows
<1>7. Keeps(items', items)
  BY <1>4, <1>6, KeepsTransitive
<1>8. \A i \in Items : items'[i].attempts =
                         IF i = held[a] THEN items[i].attempts + 1 ELSE items[i].attempts
  BY <1>4, <1>6 DEF Follows
<1>9. Untouched(items')
  <2>1. Untouched(r)
    BY <1>4 DEF Solo, Untouched
  <2> QED
    BY <1>6, <2>1, FollowsUntouched
<1>10. OnlyBy(a) /\ pc'[a] = "idle"
  BY <1>2, RestHands
<1>11. "idle" \notin Holding /\ "idle" \notin Recording \cup {"claim"}
       /\ pc[a] \notin {"idle", "down"}
  BY <1>1 DEF Recording, Holding
<1>12. OtherRests(a)
  BY <1>11, ActsAlone
<1>13. ASSUME NEW i \in Items
       PROVE  delivered'[i] = delivered[i] /\ Settles(a, i) <= Settles(a, i)'
  <2>1. Owes(a, i) <= (IF i = held[a] THEN 1 ELSE 0) /\ Owes(a, i) \in Nat
    BY DEF Owes, Unrecorded
  <2>2. Owes(a, i)' \in Nat
    BY DEF Owes
  <2>3. delivered[i] \in Nat /\ items[i].attempts \in Nat /\ crashes \in Nat
    BY DEF Inv, TypeOK, Outbox, Item
  <2> QED
    BY <1>2, <1>8, <2>1, <2>2, <2>3 DEF Settles
<1> QED
  BY <1>7, <1>9, <1>10, <1>11, <1>12, <1>13, SoloStep DEF Accounts

LEMMA BeginSendDueSolo ==
  ASSUME Inv, Inv', Solo, ~Shared, NEW i \in Items, BeginSendDue(i)
  PROVE  Solo' /\ Keeps(items', items)
<1>1. /\ pc[Operator] = "idle" /\ pc[Agent] = "down"
      /\ now' = [now EXCEPT ![Operator] = clock]
      /\ reports' = [reports EXCEPT ![Operator] = {i}]
      /\ pc' = [pc EXCEPT ![Operator] = "load_claims"]
      /\ UNCHANGED <<copy, items, clock, held, delivered, crashes>>
  BY DEF BeginSendDue, Command
<1>2. OnlyBy(Operator) /\ pc'[Operator] = "load_claims" /\ OtherRests(Operator)
  BY <1>1, PhasesDiffer DEF Inv, TypeOK, OnlyBy, OtherRests
<1>3. "load_claims" \notin Holding /\ "load_claims" \notin Recording \cup {"claim"}
      /\ "idle" \notin Holding
  BY DEF Recording, Holding
<1>4. Untouched(items') /\ Accounts(Operator)
  BY <1>1, <1>3, PhasesDiffer, FileFollows, NothingOwed
<1> QED
  BY <1>1, <1>2, <1>3, <1>4, PhasesDiffer, FileFollows, SoloStep DEF Follows

LEMMA BeginSkipSolo ==
  ASSUME Inv, Inv', Solo, ~Shared, NEW i \in Items, BeginSkip(i)
  PROVE  Solo' /\ Keeps(items', items)
<1>1. /\ pc[Operator] = "idle" /\ pc[Agent] = "down"
      /\ items[i].status = "pending"
      /\ now' = [now EXCEPT ![Operator] = clock]
      /\ copy' = [copy EXCEPT ![Operator] = Skipped(items, i)]
      /\ pc' = [pc EXCEPT ![Operator] = "skip"]
      /\ UNCHANGED <<reports, items, clock, held, delivered, crashes>>
  BY DEF BeginSkip, Command, Skipped
<1>2. Follows(Skipped(items, i), items)
  BY <1>1, FileUnchanged, SkippedFollows
<1>3. OnlyBy(Operator) /\ pc'[Operator] = "skip" /\ OtherRests(Operator)
      /\ copy'[Operator] = Skipped(items, i)
  BY <1>1, PhasesDiffer DEF Inv, TypeOK, OnlyBy, OtherRests
<1>4. "skip" \notin Holding /\ "skip" \notin Recording \cup {"claim"} /\ "idle" \notin Holding
  BY DEF Recording, Holding
<1>5. Untouched(items') /\ Accounts(Operator)
  BY <1>1, <1>4, PhasesDiffer, FileFollows, NothingOwed
<1> QED
  BY <1>1, <1>2, <1>3, <1>4, <1>5, PhasesDiffer, FileFollows, SoloStep DEF Follows

LEMMA WriteSkipSolo ==
  ASSUME Inv, Inv', Solo, WriteSkip PROVE Solo' /\ Keeps(items', items)
<1>1. /\ pc[Operator] = "skip"
      /\ items' \in Retained(copy[Operator])
      /\ Rest(Operator, "idle")
      /\ UNCHANGED <<clock, delivered, crashes, commands>>
  BY DEF WriteSkip
<1>2. Follows(copy[Operator], items) /\ Sound(copy[Operator])
  BY <1>1, PhasesDiffer DEF Inv, AllSound, Solo, CopiesFollow
<1>3. Follows(items', items)
  BY <1>1, <1>2, RetainedFollows, KeepsTransitive DEF Follows
<1>4. OnlyBy(Operator) /\ pc'[Operator] = "idle"
  BY <1>1, PhasesDiffer, RestHands
<1>5. "idle" \notin Holding /\ "idle" \notin Recording \cup {"claim"} /\ "skip" \notin Holding
  BY DEF Recording, Holding
<1>6. OtherRests(Operator)
  BY <1>1, PhasesDiffer, ActsAlone
<1>7. Untouched(items') /\ Accounts(Operator)
  BY <1>1, <1>3, <1>5, PhasesDiffer, NothingOwed
<1> QED
  BY <1>3, <1>4, <1>5, <1>6, <1>7, PhasesDiffer, SoloStep DEF Follows

\* A crash pays for what the killed process can no longer record.
LEMMA CrashSolo ==
  ASSUME Inv, Inv', Solo, NEW a \in Actor, Crash(a)
  PROVE  Solo' /\ Keeps(items', items)
<1>1. /\ pc[a] # (IF a = Agent THEN "down" ELSE "idle")
      /\ crashes' = crashes + 1
      /\ UNCHANGED <<items, clock, delivered, commands>>
      /\ Rest(a, IF a = Agent THEN "down" ELSE "idle")
  BY DEF Crash
<1>2. PICK phase : Rest(a, phase) /\ (phase = "idle" \/ (a = Agent /\ phase = "down"))
  BY <1>1
<1>3. OnlyBy(a) /\ pc'[a] = phase
  BY <1>2, RestHands
<1>4. phase \notin {"apply", "recover", "skip"} /\ phase \notin Recording \cup {"claim"}
      /\ phase \notin Holding
  BY <1>2 DEF Recording, Holding
<1>5. OtherRests(a)
  BY <1>1, ActsAlone
<1>6. Untouched(items')
  BY <1>1 DEF Solo
<1>7. ASSUME NEW i \in Items
      PROVE  delivered'[i] = delivered[i] /\ Settles(a, i) <= Settles(a, i)'
  <2>1. Owes(a, i) <= 1 /\ Owes(a, i) \in Nat /\ Owes(a, i)' \in Nat
    BY DEF Owes
  <2>2. delivered[i] \in Nat /\ items[i].attempts \in Nat /\ crashes \in Nat
    BY DEF Inv, TypeOK, Outbox, Item
  <2> QED
    BY <1>1, <2>1, <2>2 DEF Settles
<1> QED
  BY <1>1, <1>3, <1>4, <1>5, <1>6, <1>7, FileFollows, SoloStep DEF Follows, Accounts

LEMMA SoloInit == Init => Solo
<1> SUFFICES ASSUME Init PROVE Solo
  OBVIOUS
<1>1. /\ items = Empty /\ crashes = 0
      /\ pc = [a \in Actor |-> IF a = Agent THEN "down" ELSE "idle"]
      /\ delivered = [i \in Items |-> 0]
  BY DEF Init
<1>2. Alone
  BY <1>1, PhasesDiffer DEF Alone
<1>3. \A a \in Actor : /\ pc[a] \notin {"apply", "recover", "skip"}
                       /\ pc[a] \notin Recording \cup {"claim"}
                       /\ pc[a] \notin Holding
  BY <1>1 DEF Recording, Holding
<1>4. CopiesFollow /\ HolderOwnsClaim
  BY <1>3 DEF CopiesFollow, HolderOwnsClaim
<1>5. Untouched(items)
  BY <1>1 DEF Untouched, Empty, AbsentItem
<1>6. DeliveriesAccounted
  <2> SUFFICES ASSUME NEW i \in Items
               PROVE  delivered[i] <= SmtpTries * Calls(i)
    BY DEF DeliveriesAccounted
  <2>1. Unrecorded(i) = {}
    BY <1>3 DEF Unrecorded
  <2>2. items[i].attempts = 0
    BY <1>1 DEF Empty, AbsentItem
  <2>3. Calls(i) = 0 /\ SmtpTries * 0 \in Nat
    BY <1>1, <2>1, <2>2, FS_EmptySet, MoreCalls DEF Calls
  <2> QED
    BY <1>1, <2>3
<1> QED
  BY <1>2, <1>4, <1>5, <1>6 DEF Solo

LEMMA SoloNext ==
  ASSUME Inv, Inv', Solo, ~Shared, [Next]_vars PROVE Solo' /\ Keeps(items', items)
<1>1. ASSUME NEW a \in Actor, Deliver(a) PROVE Solo' /\ Keeps(items', items)
  BY <1>1, LoadClaimsSolo, WriteRecoveredSolo, WriteClaimSolo, ClaimNothingSolo, SendSolo,
     LoadResultSolo, WriteResultSolo DEF Deliver
<1>2. CASE AgentStep
  BY <1>1, <1>2, PhasesDiffer, StartSolo, BeginCycleSolo, ApplySolo, ApplyOverBoundSolo,
     ScanSolo, ScanNothingSolo DEF AgentStep
<1>3. CASE OperatorStep
  BY <1>1, <1>3, PhasesDiffer, WriteSkipSolo DEF OperatorStep
<1>4. CASE \E i \in Items : BeginSendDue(i) \/ BeginSkip(i)
  BY <1>4, BeginSendDueSolo, BeginSkipSolo
<1>5. CASE \E a \in Actor : Crash(a)
  BY <1>5, CrashSolo
<1>6. CASE UNCHANGED vars
  <2>1. Solo'
    BY <1>6 DEF vars, Solo, Alone, CopiesFollow, HolderOwnsClaim, HoldsClaim, Claim,
                DeliveriesAccounted, Calls, Unrecorded
  <2>2. items' = items
    BY <1>6 DEF vars
  <2> QED
    BY <2>1, <2>2, FileFollows DEF Follows
<1> QED
  BY <1>2, <1>3, <1>4, <1>5, <1>6 DEF Next

LEMMA SoloHolds == ~Shared => (Spec => []Solo)
<1> SUFFICES ASSUME ~Shared PROVE Spec => []Solo
  OBVIOUS
<1>1. Inv /\ Inv' /\ Solo /\ [Next]_vars => Solo'
  BY SoloNext
<1> QED
  BY <1>1, SoloInit, InvHolds, PTL DEF Spec

(***************************************************************************)
(* Without a command beside the agent, every copy that a recipient gets is *)
(* owed to a call of the sender that is recorded as an attempt, is about   *)
(* to be, or was cut off by a crash; each call leaves SmtpTries at most.   *)
(***************************************************************************)
THEOREM DeliveriesCorrect == ~Shared => (Spec => []DeliveriesAccounted)
<1>1. Solo => DeliveriesAccounted
  BY DEF Solo
<1> QED
  BY <1>1, SoloHolds, PTL

(***************************************************************************)
(* Without a command beside the agent, nothing brings a sent or dead       *)
(* intent back.                                                            *)
(***************************************************************************)
THEOREM TerminalCorrect == ~Shared => (Spec => TerminalIsFinal)
<1> SUFFICES ASSUME ~Shared PROVE Spec => TerminalIsFinal
  OBVIOUS
<1>1. Inv /\ Inv' /\ Solo /\ [Next]_vars
        => [\A i \in Terminal(items) :
              items'[i].status \in {items[i].status, "dropped"}]_items
  BY SoloNext DEF Keeps, Terminal
<1> QED
  BY <1>1, SoloHolds, InvHolds, PTL DEF Spec, TerminalIsFinal
=============================================================================
