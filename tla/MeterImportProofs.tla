-------------------------- MODULE MeterImportProofs --------------------------
(***************************************************************************)
(* Proofs about MeterImport.  The first part is about the operators:       *)
(* filter_valid_rows drops zeros only, prepare_rows makes one row of every *)
(* reading, fills slots that nothing else has, and lets each delta say how *)
(* far the counter has advanced.  The second rests on what the tables do   *)
(* with rows and reviews, whatever rows come: no date gets two rows and no *)
(* invalid row is without a review.  The third brings the two together: a  *)
(* rebuild can put back what it deleted, no delta is far below zero, no    *)
(* reading is lost, and the deltas of the table count.                     *)
(***************************************************************************)
EXTENDS MeterImport, FiniteSetTheorems, WellFoundedInduction, TLAPS

-----------------------------------------------------------------------------
(***************************************************************************)
(* Finite sets and loops.                                                  *)
(***************************************************************************)
LEMMA Smallest ==
  ASSUME NEW S \in SUBSET Nat, S # {}
  PROVE  \E n \in S : \A m \in S : n <= m
<1>1. PICK n \in S : \A m \in S : ~(<<m, n>> \in OpToRel(<, Nat))
  BY NatLessThanWellFounded, WFMin
<1>2. \A m \in S : ~(m < n)
  BY <1>1 DEF OpToRel
<1> QED BY <1>2

\* Induction over a loop of n steps, as a fact about the set of the steps that
\* are as claimed.
LEMMA AllSteps ==
  ASSUME NEW n \in Nat, NEW T \in SUBSET (0 .. n), 0 \in T,
         \A i \in 1 .. n : i - 1 \in T => i \in T
  PROVE  n \in T
<1> SUFFICES ASSUME n \notin T PROVE FALSE
  OBVIOUS
<1> DEFINE U == (0 .. n) \ T
<1>0. U \in SUBSET Nat /\ U # {}
  OBVIOUS
<1>1. PICK k \in U : \A m \in U : k <= m
  BY <1>0, Smallest
<1>2. k \in 1 .. n /\ k - 1 \in T
  BY <1>1
<1> QED BY <1>1, <1>2

\* What a function on 1 .. n reaches has a largest member.
LEMMA LargestValue ==
  ASSUME NEW n \in Nat \ {0}, NEW f \in [1 .. n -> Nat]
  PROVE  \E m \in 1 .. n : \A i \in 1 .. n : f[i] <= f[m]
<1> DEFINE T == {k \in 0 .. n - 1 : \E m \in 1 .. k + 1 : \A i \in 1 .. k + 1 : f[i] <= f[m]}
<1>1. 0 \in T
  OBVIOUS
<1>2. ASSUME NEW k \in 1 .. n - 1, k - 1 \in T PROVE k \in T
  <2>1. PICK m \in 1 .. k : \A i \in 1 .. k : f[i] <= f[m]
    BY <1>2
  <2>2. f[k + 1] \in Nat /\ f[m] \in Nat
    OBVIOUS
  <2>3. CASE f[k + 1] <= f[m]
    <3>1. m \in 1 .. k + 1 /\ \A i \in 1 .. k + 1 : f[i] <= f[m]
      BY <2>1, <2>3
    <3> QED BY <3>1
  <2>4. CASE f[m] <= f[k + 1]
    <3>1. \A i \in 1 .. k + 1 : f[i] <= f[k + 1]
      BY <2>1, <2>2, <2>4
    <3> QED BY <3>1
  <2> QED BY <2>2, <2>3, <2>4
<1> HIDE DEF T
<1>3. T \in SUBSET (0 .. n - 1) /\ n - 1 \in Nat
  BY DEF T
<1>4. n - 1 \in T
  BY <1>1, <1>2, <1>3, AllSteps
<1> QED BY <1>4 DEF T

\* get_last_measurements returns the latest valid row of the table, or none.
LEMMA LastValidIs ==
  ASSUME NEW rows, IsFiniteSet(rows), \A r \in rows : r.date \in Nat /\ r # None
  PROVE  \/ LastValid(rows) = None /\ \A r \in rows : ~r.platne
         \/ /\ LastValid(rows) \in rows /\ LastValid(rows).platne
            /\ \A r \in rows : r.platne => r.date <= LastValid(rows).date
<1> DEFINE valid == {r \in rows : r.platne}
<1> SUFFICES ASSUME valid # {} PROVE \E r \in valid : \A other \in valid : other.date <= r.date
  BY DEF LastValid
<1>1. IsFiniteSet(valid)
  BY FS_Subset
<1>2. PICK n \in Nat : ExistsBijection(1 .. n, valid)
  BY <1>1, FS_NatBijection
<1>3. PICK b \in Bijection(1 .. n, valid) : TRUE
  BY <1>2 DEF ExistsBijection
<1>4. b \in [1 .. n -> valid] /\ \A r \in valid : \E i \in 1 .. n : b[i] = r
  BY <1>3 DEF Bijection, Injection, Surjection
<1>5. n # 0
  BY <1>4
<1> DEFINE f == [i \in 1 .. n |-> b[i].date]
<1>6. f \in [1 .. n -> Nat]
  BY <1>4
<1>7. PICK m \in 1 .. n : \A i \in 1 .. n : f[i] <= f[m]
  BY <1>5, <1>6, LargestValue
<1>8. \A i \in 1 .. n : b[i].date <= b[m].date
  BY <1>7
<1> QED BY <1>4, <1>8

\* InOrder sorts a finite set by a strict total order.
LEMMA InOrderSorts ==
  ASSUME NEW S, IsFiniteSet(S), NEW before,
         \A x \in S : <<x, x>> \notin before,
         \A x, y \in S : x # y => <<x, y>> \in before \/ <<y, x>> \in before,
         \A x, y, z \in S : <<x, y>> \in before /\ <<y, z>> \in before => <<x, z>> \in before
  PROVE  /\ InOrder(S, before) \in [1 .. Cardinality(S) -> S]
         /\ Cardinality(S) \in Nat
         /\ \A x \in S : \E k \in 1 .. Cardinality(S) : InOrder(S, before)[k] = x
         /\ \A k, l \in 1 .. Cardinality(S) :
              k < l => <<InOrder(S, before)[k], InOrder(S, before)[l]>> \in before
<1> DEFINE n == Cardinality(S)
           Preds(x) == {y \in S : <<y, x>> \in before}
           rank == [x \in S |-> Cardinality(Preds(x))]
           order == InOrder(S, before)
<1>0. n \in Nat
  BY FS_CardinalityType
<1>1. ASSUME NEW x \in S PROVE IsFiniteSet(Preds(x)) /\ rank[x] \in 0 .. n - 1
  <2>1. Preds(x) \in SUBSET S /\ x \notin Preds(x)
    OBVIOUS
  <2>2. IsFiniteSet(Preds(x)) /\ Cardinality(Preds(x)) <= n /\ Cardinality(Preds(x)) # n
    BY <2>1, FS_Subset
  <2>3. Cardinality(Preds(x)) \in Nat
    BY <2>2, FS_CardinalityType
  <2> QED BY <2>2, <2>3, <1>0
<1>2. ASSUME NEW x \in S, NEW z \in S, <<x, z>> \in before PROVE rank[x] < rank[z]
  <2>1. Preds(x) \in SUBSET Preds(z) /\ x \in Preds(z) /\ x \notin Preds(x)
    BY <1>2
  <2>2. Cardinality(Preds(x)) <= Cardinality(Preds(z)) /\ Cardinality(Preds(x)) # Cardinality(Preds(z))
    BY <2>1, <1>1, FS_Subset
  <2> HIDE DEF Preds
  <2>3. rank[x] \in Int /\ rank[z] \in Int
    BY <1>1
  <2> QED BY <2>2, <2>3
<1> HIDE DEF rank, Preds
<1>3. rank \in [S -> 0 .. n - 1]
  BY <1>1 DEF rank
<1>4. \A x, z \in S : rank[x] = rank[z] => x = z
  <2> SUFFICES ASSUME NEW x \in S, NEW z \in S, x # z PROVE rank[x] # rank[z]
    OBVIOUS
  <2>1. rank[x] < rank[z] \/ rank[z] < rank[x]
    BY <1>2
  <2> QED BY <2>1, <1>3
<1>5. \A k \in 0 .. n - 1 : \E x \in S : rank[x] = k
  <2>1. rank \in Injection(S, 0 .. n - 1)
    BY <1>3, <1>4 DEF Injection, IsInjective
  <2>2. IsFiniteSet(0 .. n - 1) /\ Cardinality(0 .. n - 1) = n
    <3> HIDE DEF n
    <3>1. n - 1 \in Int /\ (n - 1) - 0 + 1 = n /\ (0 > n - 1 => n = 0)
      BY <1>0
    <3> QED BY <3>1, FS_Interval
  <2> DEFINE T == 0 .. n - 1
  <2> HIDE DEF T
  <2>3. rank \in Injection(S, T) /\ IsFiniteSet(T) /\ Cardinality(T) = Cardinality(S)
    BY <2>1, <2>2 DEF T
  <2>4. Cardinality(S) = Cardinality(T) <=> rank \in Surjection(S, T)
    BY <2>3, FS_Injection, Zenon
  <2> QED BY <2>3, <2>4 DEF Surjection, T
<1>6. order = [k \in 1 .. n |-> CHOOSE x \in S : Cardinality(Preds(x)) = k - 1]
  BY DEF InOrder, Preds
<1>7. ASSUME NEW k \in 1 .. n PROVE order[k] \in S /\ rank[order[k]] = k - 1
  <2>1. k - 1 \in 0 .. n - 1
    BY <1>0
  <2>2. PICK x \in S : rank[x] = k - 1
    BY <2>1, <1>5
  <2>3. \A y \in S : rank[y] = Cardinality(Preds(y))
    BY DEF rank
  <2>4. \E y \in S : Cardinality(Preds(y)) = k - 1
    BY <2>2, <2>3
  <2>5. order[k] = CHOOSE y \in S : Cardinality(Preds(y)) = k - 1
    BY <1>6
  <2>6. order[k] \in S /\ Cardinality(Preds(order[k])) = k - 1
    BY <2>4, <2>5
  <2> QED BY <2>3, <2>6
<1> HIDE DEF order
<1>8. order \in [1 .. n -> S]
  <2>1. order = [k \in 1 .. n |-> order[k]]
    BY <1>6
  <2> QED BY <2>1, <1>7
<1>9. ASSUME NEW x \in S PROVE \E k \in 1 .. n : order[k] = x
  <2>1. rank[x] \in 0 .. n - 1
    BY <1>3
  <2>2. rank[x] + 1 \in 1 .. n /\ (rank[x] + 1) - 1 = rank[x]
    BY <2>1, <1>0
  <2>3. order[rank[x] + 1] \in S /\ rank[order[rank[x] + 1]] = rank[x]
    BY <2>2, <1>7
  <2> QED BY <2>2, <2>3, <1>4
<1>10. ASSUME NEW k \in 1 .. n, NEW l \in 1 .. n, k < l
       PROVE  <<order[k], order[l]>> \in before
  <2>1. order[k] \in S /\ order[l] \in S /\ rank[order[k]] = k - 1 /\ rank[order[l]] = l - 1
    BY <1>7
  <2>2. order[k] # order[l]
    BY <2>1, <1>10
  <2>3. ~(<<order[l], order[k]>> \in before)
    BY <2>1, <1>2, <1>10
  <2> QED BY <2>1, <2>2, <2>3
<1> QED BY <1>0, <1>8, <1>9, <1>10 DEF order

-----------------------------------------------------------------------------
(***************************************************************************)
(* filter_valid_rows: what its scan has kept behind each row.              *)
(***************************************************************************)
Same(x, r) == x.recid = r.recid /\ x.date = r.date /\ x.objem = r.objem
Sorted(s) == \A k, l \in 1 .. Len(s) : k < l => Earlier(s[k], s[l])

IsScan(f, n, batch, baseline) ==
  f = [i \in 0 .. n |-> IF i = 0 THEN [last |-> baseline, kept |-> <<>>]
                        ELSE ScanRow(f[i - 1], batch, i)]

LEMMA ScanExists ==
  ASSUME NEW batch, NEW baseline, Len(batch) \in Nat
  PROVE  \E f : IsScan(f, Len(batch), batch, baseline)
<1> DEFINE n == Len(batch)
           T == {k \in 0 .. n : \E f : IsScan(f, k, batch, baseline)}
<1>1. 0 \in T
  <2> DEFINE f == [i \in 0 .. 0 |-> [last |-> baseline, kept |-> <<>>]]
  <2>1. IsScan(f, 0, batch, baseline)
    BY DEF IsScan
  <2> QED BY <2>1
<1>2. ASSUME NEW k \in 1 .. n, k - 1 \in T PROVE k \in T
  <2>1. PICK f : IsScan(f, k - 1, batch, baseline)
    BY <1>2
  <2> DEFINE g == [i \in 0 .. k |-> IF i = k THEN ScanRow(f[k - 1], batch, k) ELSE f[i]]
  <2>2. \A i \in 0 .. k - 1 :
          f[i] = IF i = 0 THEN [last |-> baseline, kept |-> <<>>]
                 ELSE ScanRow(f[i - 1], batch, i)
    BY <2>1 DEF IsScan
  <2>3. \A i \in 0 .. k :
          g[i] = IF i = 0 THEN [last |-> baseline, kept |-> <<>>]
                 ELSE ScanRow(g[i - 1], batch, i)
    BY <2>2
  <2>4. g = [i \in 0 .. k |-> g[i]]
    OBVIOUS
  <2> HIDE DEF g
  <2>5. IsScan(g, k, batch, baseline)
    BY <2>3, <2>4 DEF IsScan
  <2> QED BY <2>5
<1> HIDE DEF T
<1>3. n \in T
  BY <1>1, <1>2, AllSteps DEF T
<1> QED BY <1>3 DEF T

LEMMA FilterIsScan ==
  ASSUME NEW batch, NEW baseline, Len(batch) \in Nat
  PROVE  \E f : /\ IsScan(f, Len(batch), batch, baseline)
                /\ FilterValidRows(batch, baseline) = f[Len(batch)].kept
<1>1. FilterValidRows(batch, baseline) =
        (CHOOSE f : IsScan(f, Len(batch), batch, baseline))[Len(batch)].kept
  BY DEF FilterValidRows, IsScan
<1> QED BY <1>1, ScanExists, Zenon

\* A sorted sequence that grows by something later than all it has.
LEMMA AppendSorted ==
  ASSUME NEW S, NEW s \in Seq(S), NEW x \in S, Sorted(s),
         \A k \in 1 .. Len(s) : Earlier(s[k], x)
  PROVE  Sorted(Append(s, x))
BY DEF Sorted

\* The state of the scan behind row i of a sorted batch.
ScanTells(acc, batch, i) ==
  /\ acc.kept \in Seq(KeptReading)
  /\ Sorted(acc.kept)
  /\ \A k \in 1 .. Len(acc.kept) : \E j \in 1 .. i : Same(acc.kept[k], batch[j])
  /\ \A j \in 1 .. i : batch[j].objem # 0 =>
       \E k \in 1 .. Len(acc.kept) : Same(acc.kept[k], batch[j])

LEMMA ScanRowTells ==
  ASSUME NEW batch \in Seq(Reading), Sorted(batch), NEW i \in 1 .. Len(batch),
         NEW acc, ScanTells(acc, batch, i - 1)
  PROVE  ScanTells(ScanRow(acc, batch, i), batch, i)
<1> DEFINE r == batch[i]
           drops == acc.last # None /\ HasResetDiff(r.objem, acc.last.objem)
           transient == drops /\ r.objem = 0 /\ ZeroBlockReturns(batch, i, acc.last)
           row == [recid |-> r.recid, date |-> r.date, objem |-> r.objem, reset |-> drops]
           new == ScanRow(acc, batch, i)
<1>0. r \in Reading
  OBVIOUS
<1>1. CASE transient
  <2>1. new = acc /\ r.objem = 0
    BY <1>1 DEF ScanRow
  <2>2. i - 1 \in Nat /\ \A j \in 1 .. i : j \in 1 .. i - 1 \/ j = i
    OBVIOUS
  <2> QED BY <2>1, <2>2 DEF ScanTells
<1>2. CASE ~transient
  <2>1. new.kept = Append(acc.kept, row)
    BY <1>2 DEF ScanRow
  <2>2. row \in KeptReading
    BY <1>0 DEF KeptReading, Reading
  <2>3. Same(row, r)
    BY DEF Same
  <2> HIDE DEF row, r, new
  <2> DEFINE n == Len(acc.kept)
  <2>4. acc.kept \in Seq(KeptReading) /\ n \in Nat
    BY DEF ScanTells
  <2>5. /\ new.kept \in Seq(KeptReading) /\ Len(new.kept) = n + 1
        /\ \A k \in 1 .. n : new.kept[k] = acc.kept[k]
        /\ new.kept[n + 1] = row
    BY <2>1, <2>2, <2>4
  <2>6. \A k \in 1 .. n : Earlier(acc.kept[k], row)
    <3> SUFFICES ASSUME NEW k \in 1 .. n PROVE Earlier(acc.kept[k], row)
      OBVIOUS
    <3>1. PICK j \in 1 .. i - 1 : Same(acc.kept[k], batch[j])
      BY DEF ScanTells
    <3>2. Earlier(batch[j], batch[i])
      <4>1. j \in 1 .. Len(batch) /\ j < i
        OBVIOUS
      <4> QED BY <4>1 DEF Sorted
    <3> QED BY <3>1, <3>2, <2>3 DEF Same, Earlier, r
  <2>7. Sorted(new.kept)
    BY <2>1, <2>2, <2>4, <2>6, AppendSorted DEF ScanTells
  <2>8. \A k \in 1 .. n + 1 : \E j \in 1 .. i : Same(new.kept[k], batch[j])
    <3> SUFFICES ASSUME NEW k \in 1 .. n + 1 PROVE \E j \in 1 .. i : Same(new.kept[k], batch[j])
      OBVIOUS
    <3>1. CASE k = n + 1
      BY <3>1, <2>3, <2>5 DEF r
    <3>2. CASE k \in 1 .. n
      <4>1. PICK j \in 1 .. i - 1 : Same(acc.kept[k], batch[j])
        BY <3>2 DEF ScanTells
      <4> QED BY <4>1, <3>2, <2>5
    <3> QED BY <3>1, <3>2, <2>4
  <2>9. \A j \in 1 .. i : batch[j].objem # 0 => \E k \in 1 .. n + 1 : Same(new.kept[k], batch[j])
    <3> SUFFICES ASSUME NEW j \in 1 .. i, batch[j].objem # 0
                 PROVE  \E k \in 1 .. n + 1 : Same(new.kept[k], batch[j])
      OBVIOUS
    <3>1. CASE j = i
      BY <3>1, <2>3, <2>4, <2>5 DEF r
    <3>2. CASE j \in 1 .. i - 1
      <4>1. PICK k \in 1 .. n : Same(acc.kept[k], batch[j])
        BY <3>2 DEF ScanTells
      <4> QED BY <4>1, <2>4, <2>5
    <3> QED BY <3>1, <3>2
  <2> QED BY <2>5, <2>7, <2>8, <2>9 DEF ScanTells, new
<1> QED BY <1>1, <1>2

\* filter_valid_rows keeps sorted readings, and drops zeros only.
LEMMA FilterKeeps ==
  ASSUME NEW batch \in Seq(Reading), Sorted(batch), NEW baseline
  PROVE  LET kept == FilterValidRows(batch, baseline)
         IN /\ kept \in Seq(KeptReading) /\ Sorted(kept)
            /\ \A k \in 1 .. Len(kept) : \E j \in 1 .. Len(batch) : Same(kept[k], batch[j])
            /\ \A j \in 1 .. Len(batch) : batch[j].objem # 0 =>
                 \E k \in 1 .. Len(kept) : Same(kept[k], batch[j])
<1> DEFINE n == Len(batch)
<1>0. n \in Nat
  OBVIOUS
<1>1. PICK f : IsScan(f, n, batch, baseline) /\ FilterValidRows(batch, baseline) = f[n].kept
  BY <1>0, FilterIsScan
<1>2. /\ f[0] = [last |-> baseline, kept |-> <<>>]
      /\ \A i \in 1 .. n : f[i] = ScanRow(f[i - 1], batch, i)
  BY <1>0, <1>1 DEF IsScan
<1> DEFINE T == {i \in 0 .. n : ScanTells(f[i], batch, i)}
<1>3. 0 \in T
  <2>1. f[0].kept = <<>> /\ <<>> \in Seq(KeptReading) /\ Len(<<>>) = 0
    BY <1>2
  <2>2. ScanTells(f[0], batch, 0)
    BY <2>1 DEF ScanTells, Sorted
  <2> QED BY <1>0, <2>2
<1>4. ASSUME NEW i \in 1 .. n, i - 1 \in T PROVE i \in T
  <2>1. ScanTells(f[i - 1], batch, i - 1)
    BY <1>4
  <2>2. ScanTells(ScanRow(f[i - 1], batch, i), batch, i)
    BY <2>1, ScanRowTells
  <2> QED BY <1>2, <2>2
<1> HIDE DEF T
<1>5. n \in T
  BY <1>0, <1>3, <1>4, AllSteps DEF T
<1>6. ScanTells(f[n], batch, n)
  BY <1>5 DEF T
<1> QED BY <1>1, <1>6 DEF ScanTells

\* What the scan last counted from before and behind a row that it keeps.
WatchStep(last, r, now) ==
  /\ r.reset <=> last # None /\ HasResetDiff(r.objem, last.objem)
  /\ IF Advances(r.reset, r.objem, last) THEN now # None /\ now.objem = r.objem
     ELSE now = last

Watched(kept, baseline) ==
  \E lasts : /\ lasts[0] = baseline
             /\ \A k \in 1 .. Len(kept) : WatchStep(lasts[k - 1], kept[k], lasts[k])

LEMMA FilterWatches ==
  ASSUME NEW batch \in Seq(Reading), NEW baseline
  PROVE  Watched(FilterValidRows(batch, baseline), baseline)
<1> DEFINE n == Len(batch)
           Tells(acc) ==
             /\ acc.kept \in Seq(KeptReading)
             /\ \E lasts :
                  /\ lasts[0] = baseline /\ lasts[Len(acc.kept)] = acc.last
                  /\ \A k \in 1 .. Len(acc.kept) : WatchStep(lasts[k - 1], acc.kept[k], lasts[k])
<1>0. n \in Nat
  OBVIOUS
<1>1. PICK f : IsScan(f, n, batch, baseline) /\ FilterValidRows(batch, baseline) = f[n].kept
  BY <1>0, FilterIsScan
<1>2. /\ f[0] = [last |-> baseline, kept |-> <<>>]
      /\ \A i \in 1 .. n : f[i] = ScanRow(f[i - 1], batch, i)
  BY <1>0, <1>1 DEF IsScan
<1> DEFINE T == {i \in 0 .. n : Tells(f[i])}
<1>3. 0 \in T
  <2> DEFINE lasts == [k \in {0} |-> baseline]
  <2>1. f[0].kept = <<>> /\ f[0].last = baseline /\ Len(<<>>) = 0 /\ <<>> \in Seq(KeptReading)
    BY <1>2
  <2>2. lasts[0] = baseline
    OBVIOUS
  <2> HIDE DEF lasts
  <2>3. Tells(f[0])
    BY <2>1, <2>2
  <2> QED BY <1>0, <2>3
<1>4. ASSUME NEW i \in 1 .. n, i - 1 \in T PROVE i \in T
  <2> DEFINE acc == f[i - 1]
             new == f[i]
             r == batch[i]
             drops == acc.last # None /\ HasResetDiff(r.objem, acc.last.objem)
             transient == drops /\ r.objem = 0 /\ ZeroBlockReturns(batch, i, acc.last)
             row == [recid |-> r.recid, date |-> r.date, objem |-> r.objem, reset |-> drops]
             now == IF Advances(drops, r.objem, acc.last) THEN r ELSE acc.last
             m == Len(acc.kept)
  <2>1. Tells(acc)
    BY <1>4
  <2>2. new = IF transient THEN acc ELSE [last |-> now, kept |-> Append(acc.kept, row)]
    BY <1>2 DEF ScanRow
  <2>3. r \in Reading /\ r # None
    <3>1. r \in Reading
      OBVIOUS
    <3> QED BY <3>1, NoneAssumption
  <2>4. row \in KeptReading
    BY <2>3 DEF KeptReading, Reading
  <2>5. WatchStep(acc.last, row, now)
    BY <2>3 DEF WatchStep
  <2> HIDE DEF acc, new, transient, row, now, T
  <2>6. Tells(new)
    <3>1. CASE transient
      BY <2>1, <2>2, <3>1
    <3>2. CASE ~transient
      <4>1. new.last = now /\ new.kept = Append(acc.kept, row) /\ m \in Nat
            /\ acc.kept \in Seq(KeptReading)
        BY <2>1, <2>2, <3>2
      <4>2. /\ new.kept \in Seq(KeptReading) /\ Len(new.kept) = m + 1
            /\ \A k \in 1 .. m : new.kept[k] = acc.kept[k]
            /\ new.kept[m + 1] = row
        BY <4>1, <2>4
      <4>3. PICK lasts : /\ lasts[0] = baseline /\ lasts[m] = acc.last
                         /\ \A k \in 1 .. m : WatchStep(lasts[k - 1], acc.kept[k], lasts[k])
        BY <2>1
      <4> DEFINE more == [k \in 0 .. m + 1 |-> IF k = m + 1 THEN now ELSE lasts[k]]
      <4> HIDE DEF m
      <4>4. more[0] = baseline /\ more[m + 1] = now /\ \A k \in 0 .. m : more[k] = lasts[k]
        BY <4>1, <4>3
      <4> HIDE DEF more
      <4>5. ASSUME NEW k \in 1 .. m + 1 PROVE WatchStep(more[k - 1], new.kept[k], more[k])
        <5>1. CASE k = m + 1
          <6>1. k - 1 = m /\ m \in 0 .. m
            BY <5>1, <4>1
          <6> QED BY <5>1, <6>1, <4>2, <4>3, <4>4, <2>5
        <5>2. CASE k \in 1 .. m
          <6>1. k - 1 \in 0 .. m /\ k \in 0 .. m
            BY <5>2, <4>1
          <6> QED BY <5>2, <6>1, <4>2, <4>3, <4>4
        <5>3. k = m + 1 \/ k \in 1 .. m
          BY <4>1
        <5> QED BY <5>1, <5>2, <5>3
      <4> QED BY <4>1, <4>2, <4>4, <4>5
    <3> QED BY <3>1, <3>2
  <2> QED BY <2>6, <1>0 DEF T, new
<1> HIDE DEF T
<1>5. n \in T
  BY <1>0, <1>3, <1>4, AllSteps DEF T
<1>6. Tells(f[n])
  BY <1>5 DEF T
<1> QED BY <1>1, <1>6 DEF Watched

-----------------------------------------------------------------------------
(***************************************************************************)
(* resolve_gap: the arithmetic of the mean, and the slots it fills.        *)
(***************************************************************************)
\* A row that fills a slot of a gap.
Filler(x) ==
  /\ x.synthetic /\ x.platne /\ x.recid = None
  /\ x.delta \in Nat /\ ~x.gap /\ ~x.reset
Within(x) == x.delta # None => x.delta >= -(x.date \div (2 * Interval))

LEMMA Div ==
  ASSUME NEW a \in Nat, NEW b \in Nat \ {0}
  PROVE  a \div b \in Nat /\ b * (a \div b) <= a /\ a < b * (a \div b) + b
OBVIOUS

\* The mean of a gap, counted for as many slots as are filled, is at most half a
\* unit for each slot of the gap more than the counter has advanced.
LEMMA MeanOfGap ==
  ASSUME NEW total \in Nat, NEW slots \in Nat \ {0}, NEW filled \in 0 .. slots - 1
  PROVE  /\ MeanDelta(total, slots) \in Nat
         /\ 2 * (total - MeanDelta(total, slots) * filled) >= -slots
<1> DEFINE mean == (2 * total + slots) \div (2 * slots)
<1>1. mean \in Nat /\ 2 * slots * mean <= 2 * total + slots
  <2>1. 2 * total + slots \in Nat /\ 2 * slots \in Nat \ {0}
    OBVIOUS
  <2> QED BY <2>1, Div
<1> HIDE DEF mean
<1>2. mean * filled <= mean * slots
  BY <1>1
<1>3. 2 * slots * mean = 2 * (mean * slots)
  BY <1>1
<1>4. 2 * (total - mean * filled) >= -slots
  <2>1. mean * filled \in Nat /\ mean * slots \in Nat
    BY <1>1
  <2> QED BY <2>1, <1>1, <1>2, <1>3
<1> QED BY <1>1, <1>4 DEF mean, MeanDelta

\* Half a unit for each slot of a gap that ends at a date.
LEMMA HalfOfSlots ==
  ASSUME NEW start \in Nat, NEW date \in Nat, start <= date,
         NEW delta \in Int, 2 * delta >= -((date - start) \div Interval)
  PROVE  delta >= -(date \div (2 * Interval))
<1> DEFINE slots == (date - start) \div Interval
           q == date \div (2 * Interval)
<1>1. Interval \in Nat \ {0} /\ 2 * Interval \in Nat \ {0} /\ date - start \in Nat
  BY ImportAssumption
<1>2. slots \in Nat /\ Interval * slots <= date - start
  BY <1>1, Div
<1>3. q \in Nat /\ date < 2 * Interval * q + 2 * Interval
  BY <1>1, Div
<1> HIDE DEF slots, q
<1>4. Interval * slots < Interval * (2 * q + 2)
  <2>1. Interval * (2 * q + 2) = 2 * Interval * q + 2 * Interval
    BY <1>1, <1>3
  <2> QED BY <2>1, <1>1, <1>2, <1>3
<1>5. slots < 2 * q + 2
  BY <1>1, <1>2, <1>3, <1>4
<1>6. 2 * delta >= -slots
  BY DEF slots
<1>7. delta >= -q
  BY <1>2, <1>3, <1>5, <1>6
<1> QED BY <1>7 DEF q

\* Slots of a gap lie strictly inside it.
LEMMA SlotInGap ==
  ASSUME NEW start \in Nat, NEW date \in Nat, date - start > Interval * MaxGap
  PROVE  /\ (date - start) \div Interval \in Nat \ {0}
         /\ \A i \in 1 .. ((date - start) \div Interval) - 1 :
              /\ start + i * Interval \in Nat
              /\ start < start + i * Interval /\ start + i * Interval < date
         /\ start <= date
<1> DEFINE slots == (date - start) \div Interval
<1>1. Interval \in Nat \ {0} /\ MaxGap \in Nat \ {0, 1}
  BY ImportAssumption
<1>2. Interval * MaxGap >= 2 * Interval
  BY <1>1
<1>3. date - start \in Nat /\ start <= date /\ date - start > 2 * Interval
  <2>1. Interval * MaxGap \in Nat
    BY <1>1
  <2> QED BY <2>1, <1>1, <1>2
<1>4. slots \in Nat /\ Interval * slots <= date - start /\ date - start < Interval * slots + Interval
  BY <1>1, <1>3, Div
<1> HIDE DEF slots
<1>5. slots # 0
  BY <1>1, <1>3, <1>4
<1>6. ASSUME NEW i \in 1 .. slots - 1
      PROVE  /\ start + i * Interval \in Nat
             /\ start < start + i * Interval /\ start + i * Interval < date
  <2>1. i \in Nat /\ i <= slots - 1 /\ slots - 1 \in Nat
    BY <1>4
  <2>2. i * Interval <= (slots - 1) * Interval
    BY <2>1, <1>1
  <2>3. (slots - 1) * Interval = Interval * slots - Interval
    BY <1>1, <1>4
  <2>4. i * Interval \in Nat \ {0} /\ Interval * slots \in Nat
    BY <2>1, <1>1, <1>4
  <2> QED BY <2>2, <2>3, <2>4, <1>1, <1>3, <1>4
<1> QED BY <1>3, <1>4, <1>5, <1>6 DEF slots

\* How rows fill the gap between prev and r: with slots that count its mean, in order
\* and on dates that nothing else has.
FillsGap(prev, r, occupied, rows) ==
  LET mean == MeanDelta(r.objem - prev.objem, Slots(prev, r))
  IN /\ rows \in Seq(Row) /\ Len(rows) \in 0 .. Slots(prev, r) - 1
     /\ Slots(prev, r) \in Nat \ {0} /\ mean \in Nat
     /\ \A k \in 1 .. Len(rows) :
          /\ Filler(rows[k]) /\ rows[k].delta = mean
          /\ rows[k].date \notin occupied /\ r.objem # 0
          /\ prev.date < rows[k].date /\ rows[k].date < r.date
          /\ r.objem - rows[k].objem >= -(r.date \div (2 * Interval))
     /\ \A k, l \in 1 .. Len(rows) : k < l => rows[k].date < rows[l].date
     /\ r.objem = prev.objem => rows = <<>>

\* resolve_gap fills free slots strictly inside the gap, in their order and at most
\* all of them, with a mean that is not negative; and only when the counter has
\* advanced.
LEMMA GapRowsFill ==
  ASSUME NEW prev, NEW r, NEW occupied,
         prev.date \in Nat, prev.objem \in Nat, r.date \in Nat, r.objem \in Nat,
         r.objem >= prev.objem, r.date - prev.date > Interval * MaxGap
  PROVE  FillsGap(prev, r, occupied, GapRows(prev, r, occupied))
<1> DEFINE total == r.objem - prev.objem
           slots == Slots(prev, r)
           mean == MeanDelta(total, slots)
           Slot(i) == prev.date + i * Interval
           free == {i \in 1 .. slots - 1 : Slot(i) \notin occupied}
           Filled(i) == [recid |-> None, date |-> Slot(i), objem |-> prev.objem + mean * i,
                         delta |-> mean, platne |-> TRUE, gap |-> FALSE,
                         synthetic |-> TRUE, reset |-> FALSE]
           before == {p \in free \X free : p[1] < p[2]}
           order == InOrder(free, before)
           rows == GapRows(prev, r, occupied)
<1>1. /\ slots \in Nat \ {0} /\ total \in Nat
      /\ \A i \in 1 .. slots - 1 :
           Slot(i) \in Nat /\ prev.date < Slot(i) /\ Slot(i) < r.date
  BY SlotInGap DEF Slots
<1> HIDE DEF slots
<1>2. mean \in Nat
  <2>1. 0 \in 0 .. slots - 1
    BY <1>1
  <2> QED BY <2>1, <1>1, MeanOfGap
<1> HIDE DEF mean
<1>3. CASE total <= 0
  <2>1. rows = <<>>
    BY <1>3 DEF GapRows
  <2>2. rows \in Seq(Row) /\ Len(rows) = 0
    BY <2>1
  <2> HIDE DEF rows
  <2> QED BY <2>2, <1>1, <1>2 DEF FillsGap, rows, slots, mean
<1>4. CASE ~(total <= 0)
  <2>1. r.objem # 0
    BY <1>4
  <2>2. rows = [k \in 1 .. Len(order) |-> Filled(order[k])]
    BY <1>4 DEF GapRows, slots, mean
  <2>3. IsFiniteSet(free) /\ Cardinality(free) <= slots - 1
    <3>1. IsFiniteSet(1 .. slots - 1) /\ Cardinality(1 .. slots - 1) = slots - 1
      <4>1. 1 \in Int /\ slots - 1 \in Int /\ (slots - 1) - 1 + 1 = slots - 1
            /\ (1 > slots - 1 => slots - 1 = 0)
        BY <1>1
      <4> QED BY <4>1, FS_Interval
    <3>2. free \in SUBSET (1 .. slots - 1)
      OBVIOUS
    <3> HIDE DEF free
    <3>3. IsFiniteSet(free) /\ Cardinality(free) <= Cardinality(1 .. slots - 1)
      BY <3>1, <3>2, FS_Subset
    <3> QED BY <3>1, <3>3
  <2>4. \A i \in free : i \in Nat /\ i \in 1 .. slots - 1 /\ Slot(i) \notin occupied
    BY <1>1
  <2>5. /\ \A x \in free : <<x, x>> \notin before
        /\ \A x, y \in free : x # y => <<x, y>> \in before \/ <<y, x>> \in before
        /\ \A x, y, z \in free : <<x, y>> \in before /\ <<y, z>> \in before => <<x, z>> \in before
    <3>1. \A x, y \in free : <<x, y>> \in before <=> x < y
      OBVIOUS
    <3> HIDE DEF before, free
    <3> QED BY <3>1, <2>4
  <2> HIDE DEF before, free
  <2>6. /\ order \in [1 .. Cardinality(free) -> free] /\ Cardinality(free) \in Nat
        /\ \A k, l \in 1 .. Cardinality(free) : k < l => order[k] < order[l]
    <3>1. /\ order \in [1 .. Cardinality(free) -> free] /\ Cardinality(free) \in Nat
          /\ \A k, l \in 1 .. Cardinality(free) : k < l => <<order[k], order[l]>> \in before
      BY <2>3, <2>5, InOrderSorts
    <3> QED BY <3>1 DEF before
  <2> HIDE DEF order
  <2>7. Len(order) = Cardinality(free) /\ order \in Seq(free)
    BY <2>6
  <2> DEFINE n == Cardinality(free)
  <2>8. n \in 0 .. slots - 1
    BY <2>3, <2>6, <1>1
  <2>9. ASSUME NEW k \in 1 .. n
        PROVE  /\ Filled(order[k]) \in Row
               /\ Filled(order[k]).date \notin occupied
               /\ prev.date < Filled(order[k]).date /\ Filled(order[k]).date < r.date
               /\ r.objem - Filled(order[k]).objem >= -(r.date \div (2 * Interval))
    <3> DEFINE i == order[k]
    <3>1. i \in free
      BY <2>6
    <3> HIDE DEF i
    <3>2. /\ i \in Nat /\ i \in 1 .. slots - 1
          /\ Slot(i) \notin occupied /\ Slot(i) \in Nat
          /\ prev.date < Slot(i) /\ Slot(i) < r.date
      BY <3>1, <2>4, <1>1
    <3>3. prev.objem + mean * i \in Nat
      BY <3>2, <1>2
    <3>4. /\ Filled(i) \in Row /\ Filled(i).date \notin occupied
          /\ prev.date < Filled(i).date /\ Filled(i).date < r.date
      BY <3>2, <3>3, <1>2 DEF Row
    <3> DEFINE rest == total - mean * i
    <3>5. rest \in Int /\ 2 * rest >= -slots /\ prev.date <= r.date
      <4>1. 2 * rest >= -slots
        BY <3>2, <1>1, MeanOfGap DEF mean
      <4>2. rest \in Int /\ prev.date <= r.date
        BY <3>2, <1>1, <1>2
      <4> QED BY <4>1, <4>2
    <3> HIDE DEF rest
    <3>6. rest >= -(r.date \div (2 * Interval))
      BY <3>5, HalfOfSlots DEF slots, Slots
    <3>7. r.objem - Filled(i).objem = rest
      BY <3>2, <1>2 DEF rest
    <3> HIDE DEF Filled
    <3>8. r.objem - Filled(i).objem >= -(r.date \div (2 * Interval))
      BY <3>6, <3>7
    <3> QED BY <3>4, <3>8 DEF i
  <2>10. rows \in Seq(Row) /\ Len(rows) = n /\ \A k \in 1 .. n : rows[k] = Filled(order[k])
    <3> HIDE DEF Filled, rows
    <3>1. rows = [k \in 1 .. n |-> Filled(order[k])]
      BY <2>2, <2>7
    <3>2. rows \in [1 .. n -> Row]
      BY <3>1, <2>9
    <3> QED BY <3>1, <3>2, <2>6
  <2> HIDE DEF rows
  <2>11. ASSUME NEW k \in 1 .. n
         PROVE  /\ Filler(rows[k]) /\ rows[k].delta = mean
                /\ rows[k].date \notin occupied
                /\ prev.date < rows[k].date /\ rows[k].date < r.date
                /\ r.objem - rows[k].objem >= -(r.date \div (2 * Interval))
    <3> DEFINE row == rows[k]
    <3>1. row = Filled(order[k])
      BY <2>10
    <3>2. Filler(row) /\ row.delta = mean
      BY <3>1, <1>2 DEF Filler
    <3> HIDE DEF Filled
    <3>3. /\ row.date \notin occupied
          /\ prev.date < row.date /\ row.date < r.date
          /\ r.objem - row.objem >= -(r.date \div (2 * Interval))
      BY <2>9, <3>1
    <3> QED BY <3>2, <3>3
  <2>12. ASSUME NEW k \in 1 .. n, NEW l \in 1 .. n, k < l
         PROVE  rows[k].date < rows[l].date
    <3>1. order[k] \in Nat /\ order[l] \in Nat /\ order[k] < order[l]
      BY <2>4, <2>6, <2>12
    <3>2. rows[k].date = Slot(order[k]) /\ rows[l].date = Slot(order[l])
      BY <2>10
    <3>3. order[k] * Interval < order[l] * Interval
      BY <3>1, ImportAssumption
    <3>4. order[k] * Interval \in Nat /\ order[l] * Interval \in Nat
      BY <3>1, ImportAssumption
    <3> QED BY <3>2, <3>3, <3>4
  <2>13. r.objem # prev.objem
    BY <1>4
  <2> QED BY <2>1, <2>8, <2>10, <2>11, <2>12, <2>13, <1>1, <1>2 DEF FillsGap, rows, slots, mean
<1> QED BY <1>1, <1>3, <1>4

-----------------------------------------------------------------------------
(***************************************************************************)
(* prepare_rows: what one row adds, what the loop has made behind each     *)
(* row, and what both transactions insert for the readings they have.      *)
(***************************************************************************)
\* The ways in which a row follows the row that the next delta counts from: it is
\* the first one or one behind a reset, the counter has run back, the row is set
\* aside, or its delta counts from there.
StartsAnew(prev, row) == row.platne /\ row.delta = None /\ (prev = None \/ row.reset)

RunsBack(prev, row) ==
  /\ prev # None /\ row.platne /\ ~row.reset /\ ~row.gap
  /\ row.delta = None /\ row.objem < prev.objem

SetAside(prev, row) == prev # None /\ ~row.platne /\ row.objem >= prev.objem

Counts(prev, filled, row) ==
  /\ prev # None /\ row.platne /\ ~row.reset /\ row.objem >= prev.objem
  /\ filled # <<>> => row.gap
  /\ \A k \in 1 .. Len(filled) :
       /\ prev.date < filled[k].date
       /\ row.objem - filled[k].objem >= -(row.date \div (2 * Interval))
  /\ \A k, l \in 1 .. Len(filled) : k < l => filled[k].date < filled[l].date
  /\ row.delta = None => filled = <<>> /\ row.objem = prev.objem
  /\ row.delta # None =>
       \E mean \in Nat : /\ \A k \in 1 .. Len(filled) : filled[k].delta = mean
                         /\ row.delta + mean * Len(filled) = row.objem - prev.objem

\* What one row of prepare_rows adds: filled slots and the row itself.
Adds(acc, new, rows, stored, i) ==
  \E filled \in Seq(Row), row \in Row :
    /\ new.out = acc.out \o Append(filled, row)
    /\ ~row.synthetic /\ Same(row, rows[i]) /\ Within(row)
    /\ row.reset <=> /\ rows[i].reset
                     /\ acc.prev = None \/ HasResetDiff(row.objem, acc.prev.objem)
    /\ \A k \in 1 .. Len(filled) :
         /\ Filler(filled[k]) /\ Within(filled[k])
         /\ filled[k].date \notin Occupied(rows, stored)
         /\ filled[k].date < row.date /\ row.objem # 0
    /\ \/ StartsAnew(acc.prev, row) /\ filled = <<>> /\ new.prev = rows[i]
       \/ RunsBack(acc.prev, row) /\ filled = <<>> /\ new.prev = acc.prev
       \/ SetAside(acc.prev, row) /\ filled = <<>> /\ new.prev = acc.prev
       \/ Counts(acc.prev, filled, row) /\ new.prev = rows[i]

LEMMA PrepareRowAdds ==
  ASSUME NEW rows \in Seq(KeptReading), NEW i \in 1 .. Len(rows),
         NEW stored, NEW overrides, NEW acc,
         acc.prev # None => acc.prev.date \in Nat /\ acc.prev.objem \in Nat
  PROVE  Adds(acc, PrepareRow(acc, rows, stored, overrides, i), rows, stored, i)
<1> DEFINE r == rows[i]
           next == IF i < Len(rows) THEN rows[i + 1] ELSE None
           prev == acc.prev
           reset == r.reset /\ (prev = None \/ HasResetDiff(r.objem, prev.objem))
           rises == ~reset /\ prev # None /\ r.objem >= prev.objem
           gap == r.date - prev.date > Interval * MaxGap
           total == r.objem - prev.objem
           candidate == IF gap THEN MeanDelta(total, Slots(prev, r)) ELSE total
           rejected ==
             /\ rises
             /\ ~Confirmed(overrides, r.date, "CONFIRMED_CONSUMPTION")
             /\ \/ Confirmed(overrides, r.date, "CONFIRMED_OUTLIER")
                \/ IsDeltaOutlier(candidate, stored)
                \/ ~gap /\ IsReturnSpike(r, next, prev)
           counted == rises /\ ~rejected
           filled == IF counted /\ gap THEN GapRows(prev, r, Occupied(rows, stored)) ELSE <<>>
           delta == CASE ~counted -> None
                      [] counted /\ ~gap -> total
                      [] counted /\ gap /\ total = 0 -> None
                      [] OTHER -> total - candidate * Len(filled)
           valid == ~rejected
           filling == counted /\ gap
           row == [recid |-> r.recid, date |-> r.date, objem |-> r.objem,
                   delta |-> delta, platne |-> valid,
                   gap |-> filling, synthetic |-> FALSE, reset |-> reset]
           new == PrepareRow(acc, rows, stored, overrides, i)
<1>1. /\ new.prev = IF ~rejected /\ Advances(reset, r.objem, prev) THEN r ELSE prev
      /\ new.out = acc.out \o Append(filled, row)
  BY DEF PrepareRow
<1> HIDE DEF new
<1>2. r \in KeptReading /\ r.date \in Nat /\ r.objem \in Nat /\ r.recid \in Nat \ {0}
  <2>1. r \in KeptReading
    OBVIOUS
  <2>2. Date \subseteq Nat /\ Objem \subseteq Nat
    BY ImportAssumption
  <2> HIDE DEF r
  <2> QED BY <2>1, <2>2 DEF KeptReading
<1>3. counted => rises /\ prev.date \in Nat /\ prev.objem \in Nat /\ total \in Nat
  BY <1>2
<1>4. /\ reset \in BOOLEAN /\ valid \in BOOLEAN /\ filling \in BOOLEAN
      /\ filling <=> counted /\ gap
      /\ reset <=> rows[i].reset /\ (prev = None \/ HasResetDiff(rows[i].objem, prev.objem))
      /\ rises => prev # None /\ r.objem >= prev.objem
  OBVIOUS
<1> HIDE DEF r, reset, rejected, valid, filling
<1>5. CASE counted /\ gap
  <2>1. filled = GapRows(prev, r, Occupied(rows, stored))
    BY <1>5
  <2> DEFINE slots == Slots(prev, r)
             mean == MeanDelta(total, slots)
  <2>2. /\ filled \in Seq(Row) /\ Len(filled) \in 0 .. slots - 1
        /\ slots \in Nat \ {0} /\ mean \in Nat
        /\ \A k \in 1 .. Len(filled) :
             /\ Filler(filled[k]) /\ filled[k].delta = mean
             /\ filled[k].date \notin Occupied(rows, stored) /\ r.objem # 0
             /\ prev.date < filled[k].date /\ filled[k].date < r.date
             /\ r.objem - filled[k].objem >= -(r.date \div (2 * Interval))
        /\ \A k, l \in 1 .. Len(filled) : k < l => filled[k].date < filled[l].date
        /\ r.objem = prev.objem => filled = <<>>
    <3>1. /\ r.date \in Nat /\ r.objem \in Nat /\ prev.date \in Nat /\ prev.objem \in Nat
          /\ r.objem >= prev.objem /\ r.date - prev.date > Interval * MaxGap
      BY <1>2, <1>3, <1>5 DEF rises
    <3> HIDE DEF filled, prev, gap, candidate, counted, delta, row, new, rises, next
    <3>2. FillsGap(prev, r, Occupied(rows, stored), filled)
      BY <3>1, <2>1, GapRowsFill
    <3> QED BY <3>2 DEF FillsGap
  <2>3. candidate = mean
    BY <1>5
  <2>4. 2 * (total - mean * Len(filled)) >= -slots
    BY <1>3, <1>5, <2>2, MeanOfGap
  <2>5. delta = IF total = 0 THEN None ELSE total - mean * Len(filled)
    <3> HIDE DEF total, filled, candidate, counted, gap
    <3> QED BY <1>5, <2>3
  <2> DEFINE d == total - mean * Len(filled)
  <2>6. d \in Int
    BY <1>3, <1>5, <2>2
  <2>7. d >= -(r.date \div (2 * Interval))
    <3>1. prev.date <= r.date
      BY <1>2, <1>3, <1>5, SlotInGap
    <3>2. 2 * d >= -((r.date - prev.date) \div Interval)
      BY <2>4 DEF Slots
    <3> HIDE DEF d
    <3> QED BY <3>1, <3>2, <1>2, <1>3, <1>5, <2>6, HalfOfSlots
  <2>8. delta \in Int \cup {None} /\ (delta # None => delta >= -(r.date \div (2 * Interval)))
    BY <2>5, <2>6, <2>7
  <2>9. /\ prev # None /\ ~reset /\ valid /\ filling /\ r.objem >= prev.objem
        /\ new.prev = r
    BY <1>1, <1>4, <1>5 DEF Advances, rejected, valid
  <2>10. delta = None => total = 0
    BY <2>5, <2>6, ImportAssumption
  <2> HIDE DEF delta, filled, d
  <2>11. row \in Row
    BY <1>2, <1>4, <2>8 DEF Row
  <2>12. /\ ~row.synthetic /\ Same(row, rows[i]) /\ Within(row)
         /\ row.reset <=> rows[i].reset /\ (prev = None \/ HasResetDiff(row.objem, prev.objem))
    BY <1>4, <2>8 DEF Same, Within, r
  <2>13. \A k \in 1 .. Len(filled) :
           /\ Filler(filled[k]) /\ Within(filled[k])
           /\ filled[k].date \notin Occupied(rows, stored)
           /\ filled[k].date < row.date /\ row.objem # 0
    <3> SUFFICES ASSUME NEW k \in 1 .. Len(filled)
                 PROVE  Within(filled[k])
      BY <2>2
    <3> HIDE DEF mean
    <3>0. filled[k] \in Row
      BY <2>2
    <3>1. filled[k].date \in Nat /\ filled[k].delta \in Nat
      BY <2>2, <3>0 DEF Row
    <3>2. filled[k].date \div (2 * Interval) \in Nat
      <4>1. 2 * Interval \in Nat \ {0}
        BY ImportAssumption
      <4> QED BY <3>1, <4>1, Div
    <3> QED BY <3>1, <3>2 DEF Within
  <2>14. Counts(prev, filled, row)
    <3>1. /\ row.delta = delta /\ row.objem = r.objem /\ row.date = r.date
          /\ row.platne /\ ~row.reset /\ row.gap
      BY <2>9
    <3>2. delta # None => delta + mean * Len(filled) = total
      <4>1. mean * Len(filled) \in Int /\ total \in Int
        BY <1>3, <1>5, <2>2
      <4> HIDE DEF mean, total, filled
      <4>2. delta # None => delta = total - mean * Len(filled)
        BY <2>5
      <4> QED BY <4>1, <4>2
    <3>3. delta = None => r.objem = prev.objem
      BY <2>10, <1>2, <1>3, <1>5
    <3> HIDE DEF row, delta, filled, mean
    <3> QED BY <3>1, <3>2, <3>3, <2>2, <2>9 DEF Counts
  <2> HIDE DEF row
  <2> QED BY <1>1, <2>2, <2>11, <2>12, <2>13, <2>14, <2>9 DEF r, new, Adds
<1>6. CASE ~(counted /\ gap)
  <2>1. filled = <<>> /\ filled \in Seq(Row) /\ Len(filled) = 0
    BY <1>6
  <2>2. delta = None \/ (counted /\ delta = total)
    BY <1>6
  <2>3. r.date \div (2 * Interval) \in Nat
    <3>1. 2 * Interval \in Nat \ {0}
      BY ImportAssumption
    <3> QED BY <1>2, <3>1, Div
  <2>4. delta \in Int \cup {None} /\ (delta # None => delta >= -(r.date \div (2 * Interval)))
    <3> HIDE DEF delta, total, counted
    <3> QED BY <1>3, <2>2, <2>3
  <2>5. delta = None \/ delta = total
    BY <1>6
  <2>6. delta # None => counted /\ ~gap /\ delta = total
    BY <1>6
  <2>7. counted => delta # None
    BY <1>3, <1>6, ImportAssumption
  <2> HIDE DEF delta, filled
  <2>8. row \in Row
    BY <1>2, <1>4, <2>4 DEF Row
  <2>9. /\ ~row.synthetic /\ Same(row, rows[i]) /\ Within(row)
        /\ row.reset <=> rows[i].reset /\ (prev = None \/ HasResetDiff(row.objem, prev.objem))
    BY <1>4, <2>4 DEF Same, Within, r
  <2>10. filled \in Seq(Row) /\ \A k \in 1 .. Len(filled) : FALSE
    BY <2>1
  <2>11. \/ StartsAnew(prev, row) /\ filled = <<>> /\ new.prev = r
         \/ RunsBack(prev, row) /\ filled = <<>> /\ new.prev = prev
         \/ SetAside(prev, row) /\ filled = <<>> /\ new.prev = prev
         \/ Counts(prev, filled, row) /\ new.prev = r
    <3>0. /\ row.delta = delta /\ row.objem = r.objem /\ row.platne = valid
          /\ row.reset = reset /\ row.gap = filling
      OBVIOUS
    <3> HIDE DEF row
    <3>1. CASE counted
      <4>1. prev # None /\ ~reset /\ valid /\ r.objem >= prev.objem /\ new.prev = r
        BY <1>1, <1>4, <3>1 DEF Advances, rejected, valid
      <4>2. delta # None /\ delta = total
        BY <2>6, <2>7, <3>1
      <4>3. delta + 0 * Len(filled) = total /\ 0 \in Nat
        BY <1>3, <2>1, <3>1, <4>2
      <4> HIDE DEF total
      <4>4. Counts(prev, filled, row)
        BY <2>1, <2>10, <3>0, <4>1, <4>2, <4>3 DEF Counts, total
      <4> QED BY <4>1, <4>4
    <3>2. CASE rises /\ rejected
      <4>1. prev # None /\ ~valid /\ r.objem >= prev.objem /\ new.prev = prev
        BY <1>1, <1>4, <3>2 DEF valid
      <4> QED BY <4>1, <3>0, <2>1 DEF SetAside
    <3>3. CASE ~rises
      <4>1. ~rejected /\ valid /\ delta = None
        BY <3>3, <2>6 DEF rejected, valid
      <4>2. CASE prev = None \/ reset
        <5>1. new.prev = r
          BY <1>1, <4>1, <4>2 DEF Advances
        <5> QED BY <5>1, <4>1, <4>2, <3>0, <2>1 DEF StartsAnew
      <4>3. CASE prev # None /\ ~reset
        <5>1. ~(r.objem >= prev.objem)
          BY <3>3, <4>3
        <5>2. r.objem < prev.objem
          BY <5>1, <4>3, <1>2
        <5>3. new.prev = prev
          BY <1>1, <4>3, <5>1 DEF Advances
        <5>4. ~filling
          BY <1>4, <3>3
        <5> QED BY <5>2, <5>3, <5>4, <4>1, <4>3, <3>0, <2>1 DEF RunsBack
      <4> QED BY <4>2, <4>3
    <3> QED BY <3>1, <3>2, <3>3
  <2> HIDE DEF row
  <2> QED BY <1>1, <2>8, <2>9, <2>10, <2>11 DEF r, new, Adds
<1> QED BY <1>5, <1>6

\* The rows that the loop of prepare_rows has made behind row i of sorted readings.
LoopTells(out, rows, stored, i) ==
  /\ out \in Seq(Row)
  /\ \A k \in 1 .. Len(out) : Within(out[k])
  /\ \A k \in Actual(out) : \E j \in 1 .. i : Same(out[k], rows[j])
  /\ \A j \in 1 .. i : \E k \in Actual(out) : Same(out[k], rows[j])
  /\ \A k, l \in Actual(out) : k < l => Earlier(out[k], out[l])
  /\ \A k \in (1 .. Len(out)) \ Actual(out) :
       /\ Filler(out[k]) /\ out[k].date \notin Occupied(rows, stored)
       /\ \E l \in Actual(out) : out[k].date < out[l].date /\ out[l].objem # 0

LEMMA LoopAdds ==
  ASSUME NEW rows \in Seq(KeptReading), Sorted(rows), NEW i \in 1 .. Len(rows),
         NEW stored, NEW out, LoopTells(out, rows, stored, i - 1),
         NEW filled \in Seq(Row), NEW row \in Row,
         ~row.synthetic, Same(row, rows[i]), Within(row),
         \A k \in 1 .. Len(filled) :
           /\ Filler(filled[k]) /\ Within(filled[k])
           /\ filled[k].date \notin Occupied(rows, stored)
           /\ filled[k].date < row.date /\ row.objem # 0
  PROVE  LoopTells(out \o Append(filled, row), rows, stored, i)
<1> DEFINE new == out \o Append(filled, row)
           n == Len(out)
           m == Len(filled)
           last == n + m + 1
<1>1. out \in Seq(Row) /\ n \in Nat /\ m \in Nat
  BY DEF LoopTells
<1>2. /\ new \in Seq(Row) /\ Len(new) = last
      /\ \A k \in 1 .. n : new[k] = out[k]
      /\ \A k \in 1 .. m : new[n + k] = filled[k]
      /\ new[last] = row
  BY <1>1
<1> HIDE DEF new, n, m
<1>3. \A k \in 1 .. last : k \in 1 .. n \/ (k - n \in 1 .. m /\ k = n + (k - n)) \/ k = last
  BY <1>1
<1>4. 1 .. n \subseteq 1 .. last /\ last \in 1 .. last /\ \A k \in 1 .. m : n + k \in 1 .. last
  BY <1>1
<1>5. Actual(new) = Actual(out) \cup {last}
  <2>1. \A k \in 1 .. last : ~new[k].synthetic <=> (k \in 1 .. n /\ ~out[k].synthetic) \/ k = last
    <3> SUFFICES ASSUME NEW k \in 1 .. last
                 PROVE  ~new[k].synthetic <=> (k \in 1 .. n /\ ~out[k].synthetic) \/ k = last
      OBVIOUS
    <3>1. CASE k \in 1 .. n
      BY <3>1, <1>1, <1>2
    <3>2. CASE k - n \in 1 .. m /\ k = n + (k - n)
      <4>1. new[k] = filled[k - n]
        BY <3>2, <1>2
      <4>2. new[k].synthetic /\ k \notin 1 .. n /\ k # last
        BY <4>1, <3>2, <1>1 DEF m, Filler
      <4> QED BY <4>2
    <3>3. CASE k = last
      BY <3>3, <1>2
    <3> QED BY <1>3, <3>1, <3>2, <3>3
  <2>2. Actual(new) = {k \in 1 .. last : ~new[k].synthetic}
    BY <1>2 DEF Actual
  <2>3. Actual(out) = {k \in 1 .. n : ~out[k].synthetic}
    BY DEF Actual, n
  <2> QED BY <2>1, <2>2, <2>3, <1>4
<1>6. Actual(out) \subseteq 1 .. n
  BY DEF Actual, n
<1>7. \A k \in 1 .. last : Within(new[k])
  <2> SUFFICES ASSUME NEW k \in 1 .. last PROVE Within(new[k])
    OBVIOUS
  <2>1. CASE k \in 1 .. n
    BY <2>1, <1>2 DEF LoopTells, n
  <2>2. CASE k - n \in 1 .. m /\ k = n + (k - n)
    BY <2>2, <1>2 DEF m
  <2>3. CASE k = last
    BY <2>3, <1>2
  <2> QED BY <1>3, <2>1, <2>2, <2>3
<1>8. \A k \in Actual(new) : \E j \in 1 .. i : Same(new[k], rows[j])
  <2> SUFFICES ASSUME NEW k \in Actual(new) PROVE \E j \in 1 .. i : Same(new[k], rows[j])
    OBVIOUS
  <2>1. CASE k \in Actual(out)
    <3>1. PICK j \in 1 .. i - 1 : Same(out[k], rows[j])
      BY <2>1 DEF LoopTells
    <3>2. new[k] = out[k] /\ j \in 1 .. i
      BY <2>1, <1>2, <1>6
    <3> QED BY <3>1, <3>2
  <2>2. CASE k = last
    BY <2>2, <1>2
  <2> QED BY <1>5, <2>1, <2>2
<1>9. \A j \in 1 .. i : \E k \in Actual(new) : Same(new[k], rows[j])
  <2> SUFFICES ASSUME NEW j \in 1 .. i PROVE \E k \in Actual(new) : Same(new[k], rows[j])
    OBVIOUS
  <2>1. CASE j = i
    BY <2>1, <1>2, <1>5
  <2>2. CASE j \in 1 .. i - 1
    <3>1. PICK k \in Actual(out) : Same(out[k], rows[j])
      BY <2>2 DEF LoopTells
    <3> QED BY <3>1, <1>2, <1>5, <1>6
  <2> QED BY <2>1, <2>2
<1>10. \A k, l \in Actual(new) : k < l => Earlier(new[k], new[l])
  <2> SUFFICES ASSUME NEW k \in Actual(new), NEW l \in Actual(new), k < l
               PROVE  Earlier(new[k], new[l])
    OBVIOUS
  <2>1. k \in Actual(out) /\ k \in 1 .. n
    BY <1>1, <1>5, <1>6
  <2>2. CASE l \in Actual(out)
    BY <2>1, <2>2, <1>2, <1>6 DEF LoopTells
  <2>3. CASE l = last
    <3>1. PICK j \in 1 .. i - 1 : Same(out[k], rows[j])
      BY <2>1 DEF LoopTells
    <3>2. Earlier(rows[j], rows[i])
      <4>1. j \in 1 .. Len(rows) /\ j < i
        OBVIOUS
      <4> QED BY <4>1 DEF Sorted
    <3>3. new[k] = out[k] /\ new[l] = row
      BY <2>1, <2>3, <1>2
    <3> QED BY <3>1, <3>2, <3>3 DEF Same, Earlier
  <2> QED BY <1>5, <2>2, <2>3
<1>11. \A k \in (1 .. last) \ Actual(new) :
         /\ Filler(new[k]) /\ new[k].date \notin Occupied(rows, stored)
         /\ \E l \in Actual(new) : new[k].date < new[l].date /\ new[l].objem # 0
  <2> SUFFICES ASSUME NEW k \in (1 .. last) \ Actual(new)
               PROVE  /\ Filler(new[k]) /\ new[k].date \notin Occupied(rows, stored)
                      /\ \E l \in Actual(new) : new[k].date < new[l].date /\ new[l].objem # 0
    OBVIOUS
  <2>1. CASE k \in 1 .. n
    <3>1. k \in (1 .. n) \ Actual(out) /\ new[k] = out[k]
      BY <2>1, <1>2, <1>5
    <3>2. Filler(out[k]) /\ out[k].date \notin Occupied(rows, stored)
      BY <3>1 DEF LoopTells, n
    <3>3. PICK l \in Actual(out) : out[k].date < out[l].date /\ out[l].objem # 0
      BY <3>1 DEF LoopTells, n
    <3>4. new[l] = out[l] /\ l \in Actual(new)
      BY <1>2, <1>5, <1>6
    <3> QED BY <3>1, <3>2, <3>3, <3>4
  <2>2. CASE k - n \in 1 .. m /\ k = n + (k - n)
    <3>1. new[k] = filled[k - n]
      BY <2>2, <1>2
    <3>2. /\ Filler(new[k]) /\ new[k].date \notin Occupied(rows, stored)
          /\ new[k].date < new[last].date /\ new[last].objem # 0
      BY <2>2, <3>1, <1>2 DEF m
    <3> QED BY <3>2, <1>5
  <2> QED BY <1>3, <1>5, <2>1, <2>2
<1> QED BY <1>2, <1>7, <1>8, <1>9, <1>10, <1>11 DEF LoopTells, new

IsLoop(f, n, rows, stored, overrides) ==
  f = [i \in 0 .. n |-> IF i = 0 THEN [prev |-> LastValid(stored), out |-> <<>>]
                        ELSE PrepareRow(f[i - 1], rows, stored, overrides, i)]

LEMMA LoopExists ==
  ASSUME NEW rows, NEW stored, NEW overrides, Len(rows) \in Nat
  PROVE  \E f : IsLoop(f, Len(rows), rows, stored, overrides)
<1> DEFINE n == Len(rows)
           start == [prev |-> LastValid(stored), out |-> <<>>]
           T == {k \in 0 .. n : \E f : IsLoop(f, k, rows, stored, overrides)}
<1>1. 0 \in T
  <2> DEFINE f == [i \in 0 .. 0 |-> start]
  <2>1. IsLoop(f, 0, rows, stored, overrides)
    BY DEF IsLoop
  <2> QED BY <2>1
<1>2. ASSUME NEW k \in 1 .. n, k - 1 \in T PROVE k \in T
  <2>1. PICK f : IsLoop(f, k - 1, rows, stored, overrides)
    BY <1>2
  <2> DEFINE g == [i \in 0 .. k |-> IF i = k THEN PrepareRow(f[k - 1], rows, stored, overrides, k)
                                    ELSE f[i]]
  <2>2. \A i \in 0 .. k - 1 :
          f[i] = IF i = 0 THEN start ELSE PrepareRow(f[i - 1], rows, stored, overrides, i)
    BY <2>1 DEF IsLoop
  <2>3. \A i \in 0 .. k :
          g[i] = IF i = 0 THEN start ELSE PrepareRow(g[i - 1], rows, stored, overrides, i)
    BY <2>2
  <2>4. g = [i \in 0 .. k |-> g[i]]
    OBVIOUS
  <2> HIDE DEF g
  <2>5. IsLoop(g, k, rows, stored, overrides)
    BY <2>3, <2>4 DEF IsLoop
  <2> QED BY <2>5
<1> HIDE DEF T
<1>3. n \in T
  BY <1>1, <1>2, AllSteps DEF T
<1> QED BY <1>3 DEF T

LEMMA PrepareIsLoop ==
  ASSUME NEW rows, NEW stored, NEW overrides, Len(rows) \in Nat
  PROVE  \E f : /\ IsLoop(f, Len(rows), rows, stored, overrides)
                /\ PrepareRows(rows, stored, overrides) = f[Len(rows)].out
<1>1. PrepareRows(rows, stored, overrides) =
        (CHOOSE f : IsLoop(f, Len(rows), rows, stored, overrides))[Len(rows)].out
  BY DEF PrepareRows, IsLoop
<1> QED BY <1>1, LoopExists, Zenon

\* The loop of prepare_rows, step by step.
LEMMA PrepareAdds ==
  ASSUME NEW rows \in Seq(KeptReading), NEW stored \in SUBSET Row,
         IsFiniteSet(stored), NEW overrides
  PROVE  \E f : /\ f[0] = [prev |-> LastValid(stored), out |-> <<>>]
                /\ \A i \in 1 .. Len(rows) : Adds(f[i - 1], f[i], rows, stored, i)
                /\ PrepareRows(rows, stored, overrides) = f[Len(rows)].out
<1> DEFINE n == Len(rows)
           Typed(prev) == prev # None => prev.date \in Nat /\ prev.objem \in Nat
<1>0. n \in Nat
  OBVIOUS
<1>1. PICK f : /\ IsLoop(f, n, rows, stored, overrides)
               /\ PrepareRows(rows, stored, overrides) = f[n].out
  BY <1>0, PrepareIsLoop
<1>2. /\ f[0] = [prev |-> LastValid(stored), out |-> <<>>]
      /\ \A i \in 1 .. n : f[i] = PrepareRow(f[i - 1], rows, stored, overrides, i)
  BY <1>0, <1>1 DEF IsLoop
<1>3. ASSUME NEW i \in 1 .. n, Typed(f[i - 1].prev)
      PROVE  Adds(f[i - 1], f[i], rows, stored, i)
  BY <1>2, <1>3, PrepareRowAdds
<1> DEFINE T == {i \in 0 .. n : Typed(f[i].prev)}
<1>4. 0 \in T
  <2>1. \A r \in stored : r.date \in Nat /\ r.objem \in Nat /\ r # None
    BY NoneAssumption DEF Row
  <2>2. LastValid(stored) \in stored \cup {None}
    BY <2>1, LastValidIs
  <2> QED BY <1>0, <1>2, <2>1, <2>2
<1>5. ASSUME NEW i \in 1 .. n, i - 1 \in T PROVE i \in T
  <2>1. Adds(f[i - 1], f[i], rows, stored, i) /\ Typed(f[i - 1].prev)
    BY <1>3, <1>5
  <2>2. f[i].prev \in {f[i - 1].prev, rows[i]}
    BY <2>1 DEF Adds
  <2>3. rows[i].date \in Nat /\ rows[i].objem \in Nat
    <3>1. rows[i] \in KeptReading
      OBVIOUS
    <3> QED BY <3>1, ImportAssumption DEF KeptReading
  <2> QED BY <2>1, <2>2, <2>3
<1> HIDE DEF T
<1>6. \A i \in 0 .. n : i \in T
  <2> SUFFICES ASSUME NEW i \in 0 .. n PROVE i \in T
    OBVIOUS
  <2> DEFINE U == T \cap (0 .. i)
  <2>1. U \in SUBSET (0 .. i) /\ 0 \in U /\ i \in Nat
    BY <1>4
  <2>2. \A j \in 1 .. i : j - 1 \in U => j \in U
    BY <1>0, <1>5
  <2> HIDE DEF U
  <2>3. i \in U
    BY <2>1, <2>2, AllSteps
  <2> QED BY <2>3 DEF U
<1>7. \A i \in 1 .. n : Adds(f[i - 1], f[i], rows, stored, i)
  <2> SUFFICES ASSUME NEW i \in 1 .. n PROVE Adds(f[i - 1], f[i], rows, stored, i)
    OBVIOUS
  <2>1. i - 1 \in T
    BY <1>0, <1>6
  <2> QED BY <2>1, <1>3 DEF T
<1> QED BY <1>1, <1>2, <1>7

\* prepare_rows makes a row of every reading it is given, in their order, and
\* fills dates that neither they nor the table have.
LEMMA PrepareKeeps ==
  ASSUME NEW rows \in Seq(KeptReading), Sorted(rows), NEW stored \in SUBSET Row,
         IsFiniteSet(stored), NEW overrides
  PROVE  LoopTells(PrepareRows(rows, stored, overrides), rows, stored, Len(rows))
<1> DEFINE n == Len(rows)
<1>0. n \in Nat
  OBVIOUS
<1>1. PICK f : /\ f[0] = [prev |-> LastValid(stored), out |-> <<>>]
               /\ \A i \in 1 .. n : Adds(f[i - 1], f[i], rows, stored, i)
               /\ PrepareRows(rows, stored, overrides) = f[n].out
  BY PrepareAdds
<1> DEFINE T == {i \in 0 .. n : LoopTells(f[i].out, rows, stored, i)}
<1>2. 0 \in T
  <2>1. <<>> \in Seq(Row) /\ Len(<<>>) = 0
    OBVIOUS
  <2>2. Actual(<<>>) = {}
    BY <2>1 DEF Actual
  <2>3. LoopTells(<<>>, rows, stored, 0)
    BY <2>1, <2>2 DEF LoopTells
  <2> QED BY <1>0, <1>1, <2>3
<1>3. ASSUME NEW i \in 1 .. n, i - 1 \in T PROVE i \in T
  <2>0. LoopTells(f[i - 1].out, rows, stored, i - 1) /\ i \in 0 .. n
    BY <1>0, <1>3
  <2> HIDE DEF T
  <2>1. PICK filled \in Seq(Row), row \in Row :
          /\ f[i].out = f[i - 1].out \o Append(filled, row)
          /\ ~row.synthetic /\ Same(row, rows[i]) /\ Within(row)
          /\ \A k \in 1 .. Len(filled) :
               /\ Filler(filled[k]) /\ Within(filled[k])
               /\ filled[k].date \notin Occupied(rows, stored)
               /\ filled[k].date < row.date /\ row.objem # 0
    <3>1. Adds(f[i - 1], f[i], rows, stored, i)
      BY <1>1
    <3> QED BY <3>1, Zenon DEF Adds
  <2>2. LoopTells(f[i - 1].out \o Append(filled, row), rows, stored, i)
    BY <2>0, <2>1, LoopAdds
  <2>3. LoopTells(f[i].out, rows, stored, i)
    BY <2>1, <2>2
  <2> QED BY <2>0, <2>3 DEF T
<1> HIDE DEF T
<1>4. n \in T
  BY <1>0, <1>2, <1>3, AllSteps DEF T
<1> QED BY <1>1, <1>4 DEF T

Singled(readings) == \A x, y \in readings : x.recid = y.recid => x = y

\* What both transactions insert for a set of readings.
PreparedTells(out, readings, stored) ==
  /\ out \in Seq(Row)
  /\ \A k \in 1 .. Len(out) : Within(out[k])
  /\ \A k \in Actual(out) : \E x \in readings : Same(out[k], x)
  /\ \A x \in readings : x.objem # 0 => \E k \in Actual(out) : Same(out[k], x)
  /\ \A k, l \in Actual(out) : k < l => Earlier(out[k], out[l])
  /\ \A k \in (1 .. Len(out)) \ Actual(out) :
       /\ Filler(out[k])
       /\ \A r \in stored : r.date # out[k].date
       /\ \A l \in Actual(out) : out[l].date # out[k].date
       /\ \E l \in Actual(out) : out[k].date < out[l].date /\ out[l].objem # 0

\* Both transactions go through the readings that filter_valid_rows keeps, by date.
KeptOf(kept, readings) ==
  /\ kept \in Seq(KeptReading) /\ Sorted(kept)
  /\ \A k \in 1 .. Len(kept) : \E x \in readings : Same(kept[k], x)
  /\ \A x \in readings : x.objem # 0 => \E k \in 1 .. Len(kept) : Same(kept[k], x)

LEMMA KeptIs ==
  ASSUME NEW readings \in SUBSET Reading, IsFiniteSet(readings), Singled(readings),
         NEW stored, NEW overrides
  PROVE  \E kept : /\ KeptOf(kept, readings) /\ Watched(kept, LastValid(stored))
                   /\ Prepared(readings, stored, overrides) = PrepareRows(kept, stored, overrides)
<1> DEFINE before == {p \in readings \X readings : Earlier(p[1], p[2])}
           batch == InOrder(readings, before)
           kept == FilterValidRows(batch, LastValid(stored))
           n == Cardinality(readings)
<1>1. \A x, y \in readings : <<x, y>> \in before <=> Earlier(x, y)
  OBVIOUS
<1>2. \A x \in readings : x.recid \in Nat /\ x.date \in Nat
  BY ImportAssumption DEF Reading
<1> HIDE DEF before
<1>3. \A x \in readings : <<x, x>> \notin before
  BY <1>1, <1>2 DEF Earlier
<1>4. \A x, y \in readings : x # y => <<x, y>> \in before \/ <<y, x>> \in before
  <2> SUFFICES ASSUME NEW x \in readings, NEW y \in readings, x # y
               PROVE  Earlier(x, y) \/ Earlier(y, x)
    BY <1>1
  <2>1. x.recid # y.recid
    BY DEF Singled
  <2> QED BY <2>1, <1>2 DEF Earlier
<1>5. \A x, y, z \in readings : <<x, y>> \in before /\ <<y, z>> \in before => <<x, z>> \in before
  BY <1>1, <1>2 DEF Earlier
<1>6. /\ batch \in [1 .. n -> readings] /\ n \in Nat
      /\ \A x \in readings : \E k \in 1 .. n : batch[k] = x
      /\ \A k, l \in 1 .. n : k < l => <<batch[k], batch[l]>> \in before
  BY <1>3, <1>4, <1>5, InOrderSorts
<1> HIDE DEF batch, n
<1>7. batch \in Seq(Reading) /\ Len(batch) = n
  BY <1>6
<1>8. Sorted(batch)
  <2>1. \A k \in 1 .. n : batch[k] \in readings
    BY <1>6
  <2> QED BY <1>1, <1>6, <1>7, <2>1 DEF Sorted
<1>9. /\ kept \in Seq(KeptReading) /\ Sorted(kept)
      /\ \A k \in 1 .. Len(kept) : \E j \in 1 .. n : Same(kept[k], batch[j])
      /\ \A j \in 1 .. n : batch[j].objem # 0 => \E k \in 1 .. Len(kept) : Same(kept[k], batch[j])
  BY <1>7, <1>8, FilterKeeps
<1>10. /\ Prepared(readings, stored, overrides) = PrepareRows(kept, stored, overrides)
       /\ Watched(kept, LastValid(stored))
  BY <1>7, FilterWatches DEF Prepared, batch, before
<1> HIDE DEF kept
<1>11. \A k \in 1 .. Len(kept) : \E x \in readings : Same(kept[k], x)
  <2> SUFFICES ASSUME NEW k \in 1 .. Len(kept) PROVE \E x \in readings : Same(kept[k], x)
    OBVIOUS
  <2>1. PICK j \in 1 .. n : Same(kept[k], batch[j])
    BY <1>9
  <2> QED BY <2>1, <1>6
<1>12. \A x \in readings : x.objem # 0 => \E k \in 1 .. Len(kept) : Same(kept[k], x)
  <2> SUFFICES ASSUME NEW x \in readings, x.objem # 0
               PROVE  \E k \in 1 .. Len(kept) : Same(kept[k], x)
    OBVIOUS
  <2>1. PICK j \in 1 .. n : batch[j] = x
    BY <1>6
  <2> QED BY <1>9, <2>1
<1> QED BY <1>9, <1>10, <1>11, <1>12 DEF KeptOf

LEMMA PreparedIs ==
  ASSUME NEW readings \in SUBSET Reading, IsFiniteSet(readings), Singled(readings),
         NEW stored \in SUBSET Row, IsFiniteSet(stored), NEW overrides
  PROVE  PreparedTells(Prepared(readings, stored, overrides), readings, stored)
<1>1. PICK kept : /\ KeptOf(kept, readings)
                  /\ Prepared(readings, stored, overrides) = PrepareRows(kept, stored, overrides)
  BY KeptIs
<1> DEFINE out == PrepareRows(kept, stored, overrides)
<1>2. kept \in Seq(KeptReading) /\ Sorted(kept)
  BY <1>1 DEF KeptOf
<1>3. LoopTells(out, kept, stored, Len(kept))
  BY <1>2, PrepareKeeps
<1> HIDE DEF out
<1>4. \A k \in Actual(out) : \E x \in readings : Same(out[k], x)
  <2> SUFFICES ASSUME NEW k \in Actual(out) PROVE \E x \in readings : Same(out[k], x)
    OBVIOUS
  <2>1. PICK i \in 1 .. Len(kept) : Same(out[k], kept[i])
    BY <1>3 DEF LoopTells
  <2>2. PICK x \in readings : Same(kept[i], x)
    BY <1>1 DEF KeptOf
  <2> QED BY <2>1, <2>2 DEF Same
<1>5. \A x \in readings : x.objem # 0 => \E k \in Actual(out) : Same(out[k], x)
  <2> SUFFICES ASSUME NEW x \in readings, x.objem # 0 PROVE \E k \in Actual(out) : Same(out[k], x)
    OBVIOUS
  <2>1. PICK i \in 1 .. Len(kept) : Same(kept[i], x)
    BY <1>1 DEF KeptOf
  <2>2. PICK k \in Actual(out) : Same(out[k], kept[i])
    BY <1>3 DEF LoopTells
  <2> QED BY <2>1, <2>2 DEF Same
<1>6. ASSUME NEW k \in (1 .. Len(out)) \ Actual(out)
       PROVE  /\ Filler(out[k])
              /\ \A r \in stored : r.date # out[k].date
              /\ \A l \in Actual(out) : out[l].date # out[k].date
              /\ \E l \in Actual(out) : out[k].date < out[l].date /\ out[l].objem # 0
  <2>1. Filler(out[k]) /\ out[k].date \notin Occupied(kept, stored)
    BY <1>3 DEF LoopTells
  <2>2. \A r \in stored : r.date # out[k].date
    BY <2>1 DEF Occupied
  <2>3. ASSUME NEW l \in Actual(out) PROVE out[l].date # out[k].date
    <3>1. PICK i \in 1 .. Len(kept) : Same(out[l], kept[i])
      BY <1>3 DEF LoopTells
    <3>2. kept[i].date \in Occupied(kept, stored)
      <4>1. i \in DOMAIN kept
        BY <1>2
      <4> QED BY <4>1 DEF Occupied
    <3> QED BY <2>1, <3>1, <3>2 DEF Same
  <2>4. \E l \in Actual(out) : out[k].date < out[l].date /\ out[l].objem # 0
    BY <1>3 DEF LoopTells
  <2> QED BY <2>1, <2>2, <2>3, <2>4
<1>7. PreparedTells(out, readings, stored)
  BY <1>3, <1>4, <1>5, <1>6 DEF PreparedTells, LoopTells
<1> QED BY <1>1, <1>7 DEF out

-----------------------------------------------------------------------------
(***************************************************************************)
(* The deltas: rows that count from one another are a chain, and the loop  *)
(* of prepare_rows continues the chain of a table whose rows are all       *)
(* earlier than the readings.                                              *)
(***************************************************************************)
\* Every row that has an earlier valid one counts from one, unless it is a reset.
Chained(rows) ==
  \A r \in rows :
    r.platne /\ ~r.synthetic /\ ~r.reset /\ (\E e \in rows : e.platne /\ e.date < r.date) =>
      \E p \in rows : p.platne /\ CountsFrom(p, r, rows)

\* The valid rows later than p lie below it and have no delta.
CountsOn(p, rows) ==
  \A x \in rows : x.platne /\ p.date < x.date =>
    ~x.synthetic /\ ~x.reset /\ x.delta = None /\ x.objem < p.objem

\* What a delta says is a matter of the valid rows in between.
LEMMA SameBetween ==
  ASSUME NEW p, NEW r, NEW A, NEW B,
         \A x \in A : x.platne /\ p.date < x.date /\ x.date < r.date => x \in B,
         \A x \in B : x.platne /\ p.date < x.date /\ x.date < r.date => x \in A,
         CountsFrom(p, r, A)
  PROVE  CountsFrom(p, r, B)
<1> DEFINE Between(rows) == {x \in rows : x.platne /\ p.date < x.date /\ x.date < r.date}
<1>1. Between(A) = Between(B)
  OBVIOUS
<1> DEFINE a == Between(A)
           b == Between(B)
<1>2. a = b
  BY <1>1
<1> HIDE DEF a, b
<1>3. /\ p.date < r.date
      /\ \A x \in a \ {y \in a : y.synthetic} : x.delta = None /\ ~x.reset /\ x.objem < p.objem
      /\ r.delta = None => r.objem - p.objem <= 0
      /\ r.delta # None =>
           /\ {y \in a : y.synthetic} = {} => r.delta = r.objem - p.objem
           /\ \A x \in {y \in a : y.synthetic} :
                r.delta + x.delta * Cardinality({y \in a : y.synthetic}) = r.objem - p.objem
  BY DEF CountsFrom, a
<1> QED BY <1>2, <1>3 DEF CountsFrom, b

\* A chain stays one when its end is cut off.
LEMMA ChainCut ==
  ASSUME NEW rows \in SUBSET Row, Chained(rows), NEW date \in Nat
  PROVE  Chained({r \in rows : r.date < date})
<1> DEFINE A == {r \in rows : r.date < date}
<1> SUFFICES ASSUME NEW r \in A, r.platne, ~r.synthetic, ~r.reset,
                    \E e \in A : e.platne /\ e.date < r.date
             PROVE  \E p \in A : p.platne /\ CountsFrom(p, r, A)
  BY DEF Chained
<1>1. PICK p \in rows : p.platne /\ CountsFrom(p, r, rows)
  BY DEF Chained
<1>2. \A x \in rows : x.date \in Nat
  BY DEF Row
<1>3. \A x \in rows : x.date < r.date => x \in A
  BY <1>2
<1>4. p \in A
  BY <1>1, <1>3 DEF CountsFrom
<1>5. A \subseteq rows
  OBVIOUS
<1> HIDE DEF A
<1>6. CountsFrom(p, r, A)
  BY <1>1, <1>3, <1>5, SameBetween
<1> QED BY <1>1, <1>4, <1>6

\* A chain grows by a row that is later than all, if that counts from one of them.
LEMMA ChainGrows ==
  ASSUME NEW rows \in SUBSET Row, Chained(rows), NEW row \in Row,
         \A x \in rows : x.date < row.date,
         row.platne /\ ~row.reset /\ (\E e \in rows : e.platne) =>
           \E p \in rows : p.platne /\ CountsFrom(p, row, rows)
  PROVE  Chained(rows \cup {row})
<1> DEFINE B == rows \cup {row}
<1> SUFFICES ASSUME NEW r \in B, r.platne, ~r.synthetic, ~r.reset,
                    NEW e \in B, e.platne, e.date < r.date
             PROVE  \E p \in B : p.platne /\ CountsFrom(p, r, B)
  BY DEF Chained
<1>1. \A x \in B : x.date \in Nat
  BY DEF Row
<1>2. \A x \in B : x.date < r.date => x \in rows
  <2> SUFFICES ASSUME NEW x \in B, x.date < r.date, x = row PROVE x \in rows
    OBVIOUS
  <2>1. r \in rows \/ r = row
    OBVIOUS
  <2> QED BY <2>1, <1>1
<1>3. \E p \in rows : p.platne /\ CountsFrom(p, r, rows)
  <2>1. e \in rows
    BY <1>2
  <2>2. CASE r = row
    BY <2>1, <2>2
  <2>3. CASE r \in rows
    BY <2>1, <2>3 DEF Chained
  <2> QED BY <2>2, <2>3
<1>4. PICK p \in rows : p.platne /\ CountsFrom(p, r, rows)
  BY <1>3
<1>5. p \in B /\ rows \subseteq B
  OBVIOUS
<1> HIDE DEF B
<1>6. CountsFrom(p, r, B)
  BY <1>2, <1>4, <1>5, SameBetween
<1> QED BY <1>4, <1>5, <1>6

\* Filling slots behind the row that the deltas count on from leaves a chain.
LEMMA ChainFilled ==
  ASSUME NEW rows \in SUBSET Row, Chained(rows), NEW filled \in SUBSET Row,
         NEW p \in rows, p.platne, CountsOn(p, rows),
         \A x \in filled : x.synthetic /\ p.date < x.date
  PROVE  Chained(rows \cup filled)
<1> DEFINE B == rows \cup filled
<1> SUFFICES ASSUME NEW r \in B, r.platne, ~r.synthetic, ~r.reset,
                    NEW e \in B, e.platne, e.date < r.date
             PROVE  \E q \in B : q.platne /\ CountsFrom(q, r, B)
  BY DEF Chained
<1>1. \A x \in B : x.date \in Nat
  BY DEF Row
<1>2. r \in rows
  OBVIOUS
<1>3. \E d \in rows : d.platne /\ d.date < r.date
  <2>1. CASE e \in rows
    BY <2>1
  <2>2. CASE e \in filled
    BY <2>2, <1>1
  <2> QED BY <2>1, <2>2
<1>4. PICK q \in rows : q.platne /\ CountsFrom(q, r, rows)
  BY <1>2, <1>3 DEF Chained
<1>5. CASE p.date < r.date
  <2>1. r.delta = None
    BY <1>2, <1>5 DEF CountsOn
  <2> DEFINE between == {x \in rows : x.platne /\ q.date < x.date /\ x.date < r.date}
             now == {x \in B : x.platne /\ q.date < x.date /\ x.date < r.date}
  <2>2. /\ q.date < r.date
        /\ \A x \in between \ {y \in between : y.synthetic} :
             x.delta = None /\ ~x.reset /\ x.objem < q.objem
        /\ r.objem - q.objem <= 0
    BY <1>4, <2>1 DEF CountsFrom
  <2>3. \A x \in now : ~x.synthetic => x \in between
    OBVIOUS
  <2> HIDE DEF between
  <2>4. \A x \in now \ {y \in now : y.synthetic} :
          x.delta = None /\ ~x.reset /\ x.objem < q.objem
    BY <2>2, <2>3
  <2> HIDE DEF B
  <2>5. CountsFrom(q, r, B)
    BY <2>1, <2>2, <2>4 DEF CountsFrom
  <2> QED BY <1>4, <2>5 DEF B
<1>6. CASE ~(p.date < r.date)
  <2>1. \A x \in B : x.date < r.date => x \in rows
    BY <1>1, <1>6
  <2>2. rows \subseteq B
    OBVIOUS
  <2> HIDE DEF B
  <2>3. CountsFrom(q, r, B)
    BY <1>4, <2>1, <2>2, SameBetween
  <2> QED BY <1>4, <2>2, <2>3
<1> QED BY <1>5, <1>6

\* The slots that a sequence fills are as many as it is long.
LEMMA FilledCount ==
  ASSUME NEW filled \in Seq(Row),
         \A k, l \in 1 .. Len(filled) : k < l => filled[k].date < filled[l].date
  PROVE  Cardinality(Range(filled)) = Len(filled)
<1> DEFINE n == Len(filled)
<1>1. n \in Nat /\ filled \in [1 .. n -> Range(filled)]
      /\ \A x \in Range(filled) : \E k \in 1 .. n : filled[k] = x
  BY DEF Range
<1>2. ASSUME NEW k \in 1 .. n, NEW l \in 1 .. n, filled[k] = filled[l] PROVE k = l
  <2>1. filled[k] \in Row /\ filled[k].date \in Nat
    <3>1. filled[k] \in Row
      OBVIOUS
    <3> QED BY <3>1 DEF Row
  <2>2. ~(k < l) /\ ~(l < k)
    BY <1>2, <2>1
  <2> QED BY <2>2, <1>1
<1>3. filled \in Bijection(1 .. n, Range(filled))
  BY <1>1, <1>2 DEF Bijection, Injection, Surjection, IsInjective
<1>4. ExistsBijection(1 .. n, Range(filled))
  BY <1>3 DEF ExistsBijection
<1> QED BY <1>1, <1>4, FS_CountingElements

\* A row that counts, counts from the row that the deltas counted on from.
LEMMA RowCounts ==
  ASSUME NEW rows \in SUBSET Row, NEW p \in rows, p.platne, CountsOn(p, rows),
         NEW prev, p.date = prev.date, p.objem = prev.objem,
         NEW filled \in Seq(Row), NEW row \in Row, Counts(prev, filled, row),
         \A x \in rows : x.date < row.date,
         \A k \in 1 .. Len(filled) : Filler(filled[k]) /\ filled[k].date < row.date
  PROVE  CountsFrom(p, row, rows \cup Range(filled))
<1> DEFINE F == Range(filled)
           B == rows \cup F
           between == {x \in B : x.platne /\ p.date < x.date /\ x.date < row.date}
           inside == {x \in between : x.synthetic}
           n == Len(filled)
<1>1. n \in Nat /\ \A x \in F : \E k \in 1 .. n : x = filled[k]
  BY DEF Range
<1>2. ASSUME NEW x \in F
      PROVE  x.synthetic /\ x.platne /\ p.date < x.date /\ x.date < row.date
  <2>1. PICK k \in 1 .. n : x = filled[k]
    BY <1>1
  <2> QED BY <2>1 DEF Filler, Counts
<1> HIDE DEF F
<1>3. inside = F
  <2>1. \A x \in inside : x \in F
    BY DEF CountsOn
  <2>2. \A x \in F : x \in inside
    BY <1>2
  <2> QED BY <2>1, <2>2
<1>4. Cardinality(F) = n
  BY FilledCount DEF Counts, F
<1>5. p.date < row.date
  OBVIOUS
<1>6. \A x \in between \ inside : x.delta = None /\ ~x.reset /\ x.objem < p.objem
  <2>1. \A x \in between \ inside : x \in rows
    BY <1>3
  <2> QED BY <2>1 DEF CountsOn
<1>7. p.objem \in Nat /\ row.objem \in Nat /\ row.delta \in Int \cup {None}
  BY DEF Row
<1>8. row.delta = None => row.objem - p.objem <= 0
  BY <1>7 DEF Counts
<1>9. ASSUME row.delta # None
      PROVE  /\ F = {} => row.delta = row.objem - p.objem
             /\ \A x \in F : row.delta + x.delta * n = row.objem - p.objem
  <2>1. PICK mean \in Nat : /\ \A k \in 1 .. n : filled[k].delta = mean
                            /\ row.delta + mean * n = row.objem - p.objem
    BY <1>9 DEF Counts
  <2>2. \A x \in F : x.delta = mean
    BY <1>1, <2>1
  <2>3. F = {} => n = 0
    BY <1>1, <1>4, FS_EmptySet
  <2>4. n = 0 => row.delta = row.objem - p.objem
    <3>1. n = 0 => mean * n = 0
      OBVIOUS
    <3> QED BY <2>1, <3>1, <1>7, <1>9
  <2> QED BY <2>1, <2>2, <2>3, <2>4
<1> HIDE DEF between, inside, n
<1>10. CountsFrom(p, row, B)
  BY <1>3, <1>4, <1>5, <1>6, <1>8, <1>9 DEF CountsFrom, between, inside
<1> QED BY <1>10 DEF B, F

InDateOrder(s) == \A k, l \in 1 .. Len(s) : k < l => s[k].date < s[l].date
DatesDiffer(s) == \A k, l \in 1 .. Len(s) : k # l => s[k].date # s[l].date

\* The row that deltas count on from behind row i, in the table or among those made.
CountsOnFrom(prev, rows) ==
  /\ prev = None => \A x \in rows : ~x.platne
  /\ prev # None => \E p \in rows : /\ p.platne /\ CountsOn(p, rows)
                                    /\ p.date = prev.date /\ p.objem = prev.objem

\* The state of the loop of prepare_rows behind row i of rows that are all later
\* than the table.
LoopCounts(acc, rows, stored, i) ==
  /\ acc.out \in Seq(Row)
  /\ Chained(stored \cup Range(acc.out))
  /\ CountsOnFrom(acc.prev, stored \cup Range(acc.out))
  /\ \A x \in stored \cup Range(acc.out) : \A j \in i + 1 .. Len(rows) : x.date < rows[j].date
  /\ DatesDiffer(acc.out)
  /\ \A k \in 1 .. Len(acc.out) :
       IF acc.out[k].synthetic THEN acc.out[k].platne
       ELSE \E j \in 1 .. Len(rows) : acc.out[k].date = rows[j].date

\* A row that fills no slot, behind rows that are all earlier.
LEMMA RowMade ==
  ASSUME NEW all \in SUBSET Row, Chained(all), NEW prev, CountsOnFrom(prev, all),
         NEW row \in Row, ~row.synthetic, \A x \in all : x.date < row.date
  PROVE  /\ StartsAnew(prev, row) => /\ Chained(all \cup {row})
                                     /\ CountsOnFrom(row, all \cup {row})
         /\ RunsBack(prev, row) \/ SetAside(prev, row) =>
              /\ Chained(all \cup {row}) /\ CountsOnFrom(prev, all \cup {row})
<1> DEFINE B == all \cup {row}
<1>0. /\ row.date \in Nat /\ row.objem \in Nat /\ row # None
      /\ \A x \in all : x.date \in Nat /\ x.objem \in Nat
  BY NoneAssumption DEF Row
<1>1. ASSUME StartsAnew(prev, row)
      PROVE  Chained(B) /\ CountsOnFrom(row, B)
  <2>1. Chained(B)
    <3>1. row.platne /\ ~row.reset /\ (\E e \in all : e.platne) =>
            \E p \in all : p.platne /\ CountsFrom(p, row, all)
      BY <1>1 DEF StartsAnew, CountsOnFrom
    <3> QED BY <3>1, ChainGrows
  <2>2. row.platne /\ CountsOn(row, B)
    BY <1>0, <1>1 DEF StartsAnew, CountsOn
  <2> QED BY <1>0, <2>1, <2>2 DEF CountsOnFrom
<1>2. ASSUME RunsBack(prev, row) \/ SetAside(prev, row)
      PROVE  Chained(B) /\ CountsOnFrom(prev, B)
  <2>1. PICK p \in all : /\ p.platne /\ CountsOn(p, all)
                         /\ p.date = prev.date /\ p.objem = prev.objem
    BY <1>2 DEF RunsBack, SetAside, CountsOnFrom
  <2>2. p \in B /\ p.platne /\ p.date < row.date
    BY <2>1
  <2>3. CASE RunsBack(prev, row)
    <3>1. CountsFrom(p, row, all)
      <4> DEFINE between == {x \in all : x.platne /\ p.date < x.date /\ x.date < row.date}
                 inside == {x \in between : x.synthetic}
      <4>1. \A x \in between : x.delta = None /\ ~x.reset /\ x.objem < p.objem
        BY <2>1 DEF CountsOn
      <4>2. row.objem - p.objem <= 0 /\ row.delta = None
        BY <2>1, <2>3, <1>0 DEF RunsBack
      <4> HIDE DEF between
      <4> QED BY <4>1, <4>2, <2>2 DEF CountsFrom, between
    <3>2. Chained(B)
      BY <2>1, <3>1, ChainGrows
    <3>3. CountsOn(p, B)
      BY <2>1, <2>3 DEF RunsBack, CountsOn
    <3> QED BY <2>1, <2>2, <2>3, <3>2, <3>3 DEF CountsOnFrom, RunsBack
  <2>4. CASE SetAside(prev, row)
    <3>1. Chained(B)
      BY <2>4, ChainGrows DEF SetAside
    <3>2. CountsOn(p, B)
      BY <2>1, <2>4 DEF SetAside, CountsOn
    <3> QED BY <2>1, <2>2, <2>4, <3>1, <3>2 DEF CountsOnFrom, SetAside
  <2> QED BY <1>2, <2>3, <2>4
<1> QED BY <1>1, <1>2

\* A row that counts, with the slots it fills, behind rows that are all earlier.
LEMMA RowCounted ==
  ASSUME NEW all \in SUBSET Row, Chained(all), NEW prev, CountsOnFrom(prev, all),
         NEW row \in Row, ~row.synthetic, \A x \in all : x.date < row.date,
         NEW filled \in Seq(Row), Counts(prev, filled, row),
         \A k \in 1 .. Len(filled) : Filler(filled[k]) /\ filled[k].date < row.date
  PROVE  /\ Chained((all \cup Range(filled)) \cup {row})
         /\ CountsOnFrom(row, (all \cup Range(filled)) \cup {row})
         /\ \A x \in all : x.synthetic /\ x.platne =>
              \A k \in 1 .. Len(filled) : x.date < filled[k].date
<1> DEFINE F == Range(filled)
           A == all \cup F
           B == A \cup {row}
<1>0. row.date \in Nat /\ row.objem \in Nat /\ row # None
  BY NoneAssumption DEF Row
<1>1. PICK p \in all : /\ p.platne /\ CountsOn(p, all)
                       /\ p.date = prev.date /\ p.objem = prev.objem
  BY DEF Counts, CountsOnFrom
<1>2. F \in SUBSET Row /\ \A x \in F : \E k \in 1 .. Len(filled) : x = filled[k]
  <2>1. \A x \in F : \E k \in 1 .. Len(filled) : x = filled[k]
    BY DEF Range
  <2>2. \A k \in 1 .. Len(filled) : filled[k] \in Row
    OBVIOUS
  <2> QED BY <2>1, <2>2
<1>3. \A x \in F : x.synthetic /\ x.date < row.date /\ p.date < x.date
  <2> SUFFICES ASSUME NEW x \in F
               PROVE  x.synthetic /\ x.date < row.date /\ p.date < x.date
    OBVIOUS
  <2>1. PICK k \in 1 .. Len(filled) : x = filled[k]
    BY <1>2
  <2> QED BY <1>1, <2>1 DEF Filler, Counts
<1>4. CountsFrom(p, row, A)
  BY <1>1, RowCounts
<1> HIDE DEF F
<1>5. Chained(A)
  BY <1>1, <1>2, <1>3, ChainFilled
<1>6. A \in SUBSET Row /\ (\A x \in A : x.date < row.date) /\ p \in A
  BY <1>1, <1>2, <1>3
<1> HIDE DEF A
<1>7. Chained(B)
  BY <1>1, <1>4, <1>5, <1>6, ChainGrows
<1>8. CountsOnFrom(row, B)
  <2>1. \A x \in B : x.date <= row.date /\ x.date \in Nat
    BY <1>0, <1>6 DEF Row
  <2>2. CountsOn(row, B)
    BY <1>0, <2>1 DEF CountsOn
  <2>3. row \in B /\ row.platne
    BY DEF Counts
  <2> QED BY <1>0, <2>2, <2>3 DEF CountsOnFrom
<1>9. ASSUME NEW x \in all, x.synthetic, x.platne, NEW k \in 1 .. Len(filled)
      PROVE  x.date < filled[k].date
  <2>1. ~(p.date < x.date)
    BY <1>1, <1>9 DEF CountsOn
  <2>2. p.date < filled[k].date
    BY <1>1 DEF Counts
  <2>3. filled[k] \in Row
    OBVIOUS
  <2>4. p.date \in Nat /\ x.date \in Nat /\ filled[k].date \in Nat
    BY <2>3 DEF Row
  <2> QED BY <2>1, <2>2, <2>4
<1> QED BY <1>7, <1>8, <1>9 DEF A, F

LEMMA AddedParts ==
  ASSUME NEW out \in Seq(Row), NEW filled \in Seq(Row), NEW row \in Row
  PROVE  LET new == out \o Append(filled, row)
             n == Len(out)
             m == Len(filled)
         IN /\ n \in Nat /\ m \in Nat /\ new \in Seq(Row) /\ Len(new) = n + m + 1
            /\ \A k \in 1 .. n : new[k] = out[k]
            /\ \A k \in n + 1 .. n + m : k - n \in 1 .. m /\ new[k] = filled[k - n]
            /\ new[n + m + 1] = row
            /\ Range(new) = (Range(out) \cup Range(filled)) \cup {row}
<1> DEFINE new == out \o Append(filled, row)
           n == Len(out)
           m == Len(filled)
<1>1. n \in Nat /\ m \in Nat /\ new \in Seq(Row) /\ Len(new) = n + m + 1
  OBVIOUS
<1>2. /\ \A k \in 1 .. n : new[k] = out[k]
      /\ \A k \in 1 .. m : new[n + k] = filled[k]
      /\ new[n + m + 1] = row
  OBVIOUS
<1>3. DOMAIN new = 1 .. n + m + 1 /\ DOMAIN out = 1 .. n /\ DOMAIN filled = 1 .. m
  BY <1>1
<1> HIDE DEF new, n, m
<1>4. \A k \in n + 1 .. n + m : k - n \in 1 .. m /\ new[k] = filled[k - n]
  <2> SUFFICES ASSUME NEW k \in n + 1 .. n + m PROVE k - n \in 1 .. m /\ new[k] = filled[k - n]
    OBVIOUS
  <2>1. k - n \in 1 .. m /\ n + (k - n) = k
    BY <1>1
  <2> QED BY <2>1, <1>2
<1>5. ASSUME NEW x \in Range(new) PROVE x \in (Range(out) \cup Range(filled)) \cup {row}
  <2>1. PICK k \in 1 .. n + m + 1 : x = new[k]
    BY <1>3 DEF Range
  <2>2. k \in 1 .. n \/ k \in n + 1 .. n + m \/ k = n + m + 1
    BY <1>1
  <2> QED BY <2>1, <2>2, <1>2, <1>3, <1>4 DEF Range
<1>6. ASSUME NEW x \in (Range(out) \cup Range(filled)) \cup {row} PROVE x \in Range(new)
  <2>1. CASE x \in Range(out)
    <3>1. PICK k \in 1 .. n : x = out[k]
      BY <2>1, <1>3 DEF Range
    <3>2. k \in DOMAIN new /\ new[k] = x
      BY <3>1, <1>1, <1>2, <1>3
    <3> QED BY <3>2 DEF Range
  <2>2. CASE x \in Range(filled)
    <3>1. PICK k \in 1 .. m : x = filled[k]
      BY <2>2, <1>3 DEF Range
    <3>2. n + k \in DOMAIN new /\ new[n + k] = x
      BY <3>1, <1>1, <1>2, <1>3
    <3> QED BY <3>2 DEF Range
  <2>3. CASE x = row
    <3>1. n + m + 1 \in DOMAIN new /\ new[n + m + 1] = x
      BY <2>3, <1>1, <1>2, <1>3
    <3> QED BY <3>1 DEF Range
  <2> QED BY <2>1, <2>2, <2>3
<1>7. Range(new) = (Range(out) \cup Range(filled)) \cup {row}
  BY <1>5, <1>6
<1> QED BY <1>1, <1>2, <1>4, <1>7 DEF new, n, m

LEMMA LoopStepCounts ==
  ASSUME NEW rows \in Seq(KeptReading), InDateOrder(rows), NEW stored \in SUBSET Row,
         NEW i \in 1 .. Len(rows), NEW acc, NEW new,
         LoopCounts(acc, rows, stored, i - 1), Adds(acc, new, rows, stored, i)
  PROVE  LoopCounts(new, rows, stored, i)
<1> DEFINE out == acc.out
           all == stored \cup Range(out)
<1>1. PICK filled \in Seq(Row), row \in Row :
        /\ new.out = out \o Append(filled, row)
        /\ ~row.synthetic /\ Same(row, rows[i])
        /\ \A k \in 1 .. Len(filled) :
             /\ Filler(filled[k]) /\ filled[k].date \notin Occupied(rows, stored)
             /\ filled[k].date < row.date
        /\ \/ StartsAnew(acc.prev, row) /\ filled = <<>> /\ new.prev = rows[i]
           \/ RunsBack(acc.prev, row) /\ filled = <<>> /\ new.prev = acc.prev
           \/ SetAside(acc.prev, row) /\ filled = <<>> /\ new.prev = acc.prev
           \/ Counts(acc.prev, filled, row) /\ new.prev = rows[i]
  BY Zenon DEF Adds
<1> DEFINE n == Len(out)
           m == Len(filled)
           last == n + m + 1
           F == Range(filled)
           whole == stored \cup Range(new.out)
<1>2. out \in Seq(Row) /\ n \in Nat /\ m \in Nat
  BY DEF LoopCounts
<1>3. /\ new.out \in Seq(Row) /\ Len(new.out) = last
      /\ \A k \in 1 .. n : new.out[k] = out[k]
      /\ \A k \in n + 1 .. n + m : k - n \in 1 .. m /\ new.out[k] = filled[k - n]
      /\ new.out[last] = row
      /\ whole = (all \cup F) \cup {row}
  <2> DEFINE made == out \o Append(filled, row)
  <2>1. /\ made \in Seq(Row) /\ Len(made) = last
        /\ \A k \in 1 .. n : made[k] = out[k]
        /\ \A k \in n + 1 .. n + m : k - n \in 1 .. m /\ made[k] = filled[k - n]
        /\ made[last] = row
        /\ Range(made) = (Range(out) \cup F) \cup {row}
    <3> HIDE DEF out
    <3> QED BY <1>2, AddedParts
  <2>2. new.out = made
    BY <1>1
  <2> HIDE DEF made, n, m, last, F, out
  <2> QED BY <2>1, <2>2
<1>4. \A k \in 1 .. last : k \in 1 .. n \/ k \in n + 1 .. n + m \/ k = last
  BY <1>2
<1>5. /\ all \in SUBSET Row /\ Chained(all) /\ CountsOnFrom(acc.prev, all)
      /\ \A x \in all : \A j \in i .. Len(rows) : x.date < rows[j].date
      /\ DatesDiffer(out)
      /\ \A k \in 1 .. n : IF out[k].synthetic THEN out[k].platne
                           ELSE \E j \in 1 .. Len(rows) : out[k].date = rows[j].date
  <2>1. Range(out) \in SUBSET Row
    BY <1>2 DEF Range
  <2>2. (i - 1) + 1 = i
    OBVIOUS
  <2> QED BY <2>1, <2>2 DEF LoopCounts
<1>6. /\ row.date = rows[i].date /\ row.objem = rows[i].objem
      /\ \A j \in 1 .. Len(rows) : rows[j].date \in Nat
      /\ rows[i] # None
  <2>1. \A j \in 1 .. Len(rows) : rows[j] \in KeptReading
    OBVIOUS
  <2>2. rows[i] # None
    BY <2>1, NoneAssumption
  <2>3. \A j \in 1 .. Len(rows) : rows[j].date \in Nat
    BY <2>1, ImportAssumption DEF KeptReading
  <2> QED BY <1>1, <2>2, <2>3 DEF Same
<1>7. \A x \in all : x.date < row.date
  BY <1>5, <1>6
<1>8. \A x \in F : \E k \in 1 .. m : x = filled[k]
  BY DEF Range
<1>9. F \in SUBSET Row /\ \A x \in F : x.date < row.date
  <2>1. \A k \in 1 .. m : filled[k] \in Row /\ filled[k].date < row.date
    BY <1>1
  <2> QED BY <2>1, <1>8
<1> HIDE DEF F, all, out, whole
<1>10. Chained(whole) /\ CountsOnFrom(new.prev, whole)
  <2>1. CASE filled = <<>>
    <3>1. F = {}
      BY <2>1 DEF F, Range
    <3>2. whole = all \cup {row}
      BY <3>1, <1>3
    <3>3. CASE StartsAnew(acc.prev, row) /\ new.prev = rows[i]
      <4>1. Chained(whole) /\ CountsOnFrom(row, whole)
        BY <3>2, <3>3, <1>1, <1>5, <1>7, RowMade
      <4> QED BY <4>1, <3>3, <1>6, NoneAssumption DEF CountsOnFrom, CountsOn
    <3>4. CASE (RunsBack(acc.prev, row) \/ SetAside(acc.prev, row)) /\ new.prev = acc.prev
      BY <3>2, <3>4, <1>1, <1>5, <1>7, RowMade
    <3>5. CASE Counts(acc.prev, filled, row) /\ new.prev = rows[i]
      <4>1. Chained(whole) /\ CountsOnFrom(row, whole)
        BY <3>5, <1>1, <1>3, <1>5, <1>7, RowCounted DEF F
      <4> QED BY <4>1, <3>5, <1>6, NoneAssumption DEF CountsOnFrom, CountsOn
    <3> QED BY <3>3, <3>4, <3>5, <1>1
  <2>2. CASE Counts(acc.prev, filled, row) /\ new.prev = rows[i]
    <3>1. Chained(whole) /\ CountsOnFrom(row, whole)
      BY <2>2, <1>1, <1>3, <1>5, <1>7, RowCounted DEF F
    <3> QED BY <3>1, <2>2, <1>6, NoneAssumption DEF CountsOnFrom, CountsOn
  <2> QED BY <2>1, <2>2, <1>1
<1>11. \A x \in whole : \A j \in i + 1 .. Len(rows) : x.date < rows[j].date
  <2> SUFFICES ASSUME NEW x \in whole, NEW j \in i + 1 .. Len(rows)
               PROVE  x.date < rows[j].date
    OBVIOUS
  <2>1. j \in i .. Len(rows) /\ j \in 1 .. Len(rows) /\ i < j
    OBVIOUS
  <2>2. row.date < rows[j].date
    BY <2>1, <1>6 DEF InDateOrder
  <2>3. CASE x \in all
    BY <2>1, <2>3, <1>5
  <2>4. CASE x \in F
    <3>1. x.date \in Nat /\ row.date \in Nat /\ rows[j].date \in Nat
      BY <2>1, <2>4, <1>6, <1>9 DEF Row
    <3> QED BY <3>1, <2>2, <2>4, <1>9
  <2> QED BY <2>2, <2>3, <2>4, <1>3
<1>12. \A k \in 1 .. last :
         IF new.out[k].synthetic THEN new.out[k].platne
         ELSE \E j \in 1 .. Len(rows) : new.out[k].date = rows[j].date
  <2> SUFFICES ASSUME NEW k \in 1 .. last
               PROVE  IF new.out[k].synthetic THEN new.out[k].platne
                      ELSE \E j \in 1 .. Len(rows) : new.out[k].date = rows[j].date
    OBVIOUS
  <2>1. CASE k \in 1 .. n
    BY <2>1, <1>3, <1>5
  <2>2. CASE k \in n + 1 .. n + m
    BY <2>2, <1>1, <1>3 DEF Filler
  <2>3. CASE k = last
    BY <2>3, <1>1, <1>3, <1>6
  <2> QED BY <2>1, <2>2, <2>3, <1>4
<1>13. DatesDiffer(new.out)
  <2>1. ASSUME NEW k \in 1 .. n PROVE new.out[k].date < row.date /\ out[k] \in all
    <3>1. k \in DOMAIN out
      BY <1>2
    <3>2. out[k] \in all
      BY <3>1 DEF all, out, Range
    <3> QED BY <3>2, <1>3, <1>7
  <2>2. ASSUME NEW k \in n + 1 .. n + m PROVE new.out[k].date < row.date
    BY <1>1, <1>3
  <2>3. ASSUME NEW k \in 1 .. n, NEW l \in n + 1 .. n + m
        PROVE  new.out[k].date # new.out[l].date
    <3>1. new.out[k] = out[k] /\ new.out[l] = filled[l - n] /\ l - n \in 1 .. m
      BY <1>3
    <3>2. filled[l - n].date \notin Occupied(rows, stored)
      BY <3>1, <1>1
    <3>3. CASE out[k].synthetic
      <4>1. out[k].platne /\ out[k] \in all
        BY <3>3, <1>5, <2>1
      <4>2. filled # <<>>
        BY <3>1
      <4>3. Counts(acc.prev, filled, row)
        BY <4>2, <1>1
      <4>4. out[k].date < filled[l - n].date
        BY <3>1, <3>3, <4>1, <4>3, <1>1, <1>5, <1>7, RowCounted
      <4>5. filled[l - n] \in Row /\ out[k] \in Row
        BY <3>1, <4>1, <1>5
      <4>6. out[k].date \in Nat /\ filled[l - n].date \in Nat
        BY <4>5 DEF Row
      <4> QED BY <3>1, <4>4, <4>6
    <3>4. CASE ~out[k].synthetic
      <4>1. PICK j \in 1 .. Len(rows) : out[k].date = rows[j].date
        BY <3>4, <1>5
      <4>2. j \in DOMAIN rows
        OBVIOUS
      <4> QED BY <3>1, <3>2, <4>1, <4>2 DEF Occupied
    <3> QED BY <3>3, <3>4
  <2>4. ASSUME NEW k \in n + 1 .. n + m, NEW l \in n + 1 .. n + m, k # l
        PROVE  new.out[k].date # new.out[l].date
    <3>1. /\ new.out[k] = filled[k - n] /\ k - n \in 1 .. m
          /\ new.out[l] = filled[l - n] /\ l - n \in 1 .. m
      BY <1>3
    <3>2. filled # <<>>
      BY <3>1
    <3>3. \A a, b \in 1 .. m : a < b => filled[a].date < filled[b].date
      BY <3>2, <1>1 DEF Counts
    <3>4. filled[k - n] \in Row /\ filled[l - n] \in Row
      BY <3>1
    <3>5. filled[k - n].date \in Nat /\ filled[l - n].date \in Nat
      BY <3>4 DEF Row
    <3>6. k - n < l - n \/ l - n < k - n
      <4> HIDE DEF n, m
      <4>1. k \in Int /\ l \in Int
        BY <1>2
      <4> QED BY <2>4, <4>1, <1>2
    <3>7. \A a, b \in 1 .. m : filled[a].date \in Nat /\ filled[b].date \in Nat /\ a < b =>
            filled[a].date # filled[b].date
      BY <3>3
    <3>8. filled[k - n].date # filled[l - n].date
      <4> DEFINE a == k - n
                 b == l - n
      <4>1. /\ a \in 1 .. m /\ b \in 1 .. m /\ (a < b \/ b < a)
            /\ filled[a].date \in Nat /\ filled[b].date \in Nat
        BY <3>1, <3>5, <3>6
      <4> HIDE DEF a, b, m
      <4>2. filled[a].date # filled[b].date
        BY <4>1, <3>7
      <4> QED BY <4>2 DEF a, b
    <3> QED BY <3>1, <3>8
  <2>5. ASSUME NEW k \in 1 .. n, NEW l \in 1 .. n, k # l
        PROVE  new.out[k].date # new.out[l].date
    BY <2>5, <1>3, <1>5 DEF DatesDiffer, n
  <2>6. row.date \in Nat /\ \A k \in 1 .. last : new.out[k].date \in Nat
    <3>1. \A k \in 1 .. last : new.out[k] \in Row
      BY <1>3
    <3> QED BY <3>1 DEF Row
  <2>7. ASSUME NEW k \in 1 .. last, k # last PROVE new.out[k].date # new.out[last].date
    BY <2>1, <2>2, <2>6, <2>7, <1>3, <1>4
  <2>8. ASSUME NEW k \in 1 .. last, NEW l \in 1 .. last, k # l
        PROVE  new.out[k].date # new.out[l].date
    <3>1. CASE k = last \/ l = last
      <4>1. last \in 1 .. last
        BY <1>2
      <4> QED BY <3>1, <4>1, <2>7, <2>8
    <3>2. CASE k # last /\ l # last
      <4>1. /\ k \in 1 .. n \/ k \in n + 1 .. n + m
            /\ l \in 1 .. n \/ l \in n + 1 .. n + m
        BY <3>2, <1>4
      <4> HIDE DEF n, m, last
      <4> QED BY <4>1, <2>3, <2>4, <2>5, <2>8
    <3> QED BY <3>1, <3>2
  <2> QED BY <2>8, <1>3 DEF DatesDiffer
<1> QED BY <1>3, <1>10, <1>11, <1>12, <1>13 DEF LoopCounts, whole

\* The state of the loop of prepare_rows behind row 0.
LEMMA LoopStarts ==
  ASSUME NEW rows \in Seq(KeptReading), NEW stored \in SUBSET Row,
         IsFiniteSet(stored), Chained(stored),
         \A x \in stored : \A j \in 1 .. Len(rows) : x.date < rows[j].date
  PROVE  LoopCounts([prev |-> LastValid(stored), out |-> <<>>], rows, stored, 0)
<1> DEFINE acc == [prev |-> LastValid(stored), out |-> <<>>]
<1>1. acc.prev = LastValid(stored) /\ acc.out = <<>> /\ acc.out \in Seq(Row)
      /\ Len(acc.out) = 0 /\ Range(acc.out) = {}
  BY DEF Range
<1>2. \A r \in stored : r.date \in Nat /\ r # None
  BY NoneAssumption DEF Row
<1>3. CountsOnFrom(LastValid(stored), stored)
  <2>1. \/ LastValid(stored) = None /\ \A r \in stored : ~r.platne
        \/ /\ LastValid(stored) \in stored /\ LastValid(stored).platne
           /\ \A r \in stored : r.platne => r.date <= LastValid(stored).date
    BY <1>2, LastValidIs
  <2>2. CASE LastValid(stored) = None /\ \A r \in stored : ~r.platne
    BY <2>2 DEF CountsOnFrom
  <2>3. CASE /\ LastValid(stored) \in stored /\ LastValid(stored).platne
             /\ \A r \in stored : r.platne => r.date <= LastValid(stored).date
    <3>1. CountsOn(LastValid(stored), stored)
      BY <1>2, <2>3 DEF CountsOn
    <3> QED BY <1>2, <2>3, <3>1 DEF CountsOnFrom
  <2> QED BY <2>1, <2>2, <2>3
<1>4. stored \cup Range(acc.out) = stored /\ 1 .. Len(acc.out) = {}
  BY <1>1
<1> HIDE DEF acc
<1>5. DatesDiffer(acc.out)
  BY <1>4 DEF DatesDiffer
<1>6. \A x \in stored : \A j \in 0 + 1 .. Len(rows) : x.date < rows[j].date
  OBVIOUS
<1> QED BY <1>1, <1>3, <1>4, <1>5, <1>6 DEF LoopCounts, acc

\* What the loop of prepare_rows makes of a chain of rows that are all earlier.
LEMMA PrepareCounts ==
  ASSUME NEW rows \in Seq(KeptReading), InDateOrder(rows), NEW stored \in SUBSET Row,
         IsFiniteSet(stored), NEW overrides, Chained(stored),
         \A x \in stored : \A j \in 1 .. Len(rows) : x.date < rows[j].date
  PROVE  LET out == PrepareRows(rows, stored, overrides)
         IN Chained(stored \cup Range(out)) /\ DatesDiffer(out)
<1> DEFINE n == Len(rows)
<1>0. n \in Nat
  OBVIOUS
<1>1. PICK f : /\ f[0] = [prev |-> LastValid(stored), out |-> <<>>]
               /\ \A i \in 1 .. n : Adds(f[i - 1], f[i], rows, stored, i)
               /\ PrepareRows(rows, stored, overrides) = f[n].out
  BY PrepareAdds
<1> DEFINE T == {i \in 0 .. n : LoopCounts(f[i], rows, stored, i)}
<1>2. 0 \in T
  <2>1. LoopCounts(f[0], rows, stored, 0)
    BY <1>1, LoopStarts
  <2> QED BY <1>0, <2>1
<1>3. ASSUME NEW i \in 1 .. n, i - 1 \in T PROVE i \in T
  <2>1. LoopCounts(f[i - 1], rows, stored, i - 1) /\ Adds(f[i - 1], f[i], rows, stored, i)
    BY <1>1, <1>3
  <2>2. LoopCounts(f[i], rows, stored, i)
    BY <2>1, LoopStepCounts
  <2> QED BY <1>0, <2>2
<1> HIDE DEF T
<1>4. n \in T
  BY <1>0, <1>2, <1>3, AllSteps DEF T
<1>5. LoopCounts(f[n], rows, stored, n)
  BY <1>4 DEF T
<1> QED BY <1>1, <1>5 DEF LoopCounts

\* Readings of different dates are kept in the order of their dates.
LEMMA KeptInDateOrder ==
  ASSUME NEW readings \in SUBSET Reading,
         \A x, y \in readings : x.recid = y.recid \/ x.date = y.date => x = y,
         NEW kept, KeptOf(kept, readings)
  PROVE  InDateOrder(kept)
<1> SUFFICES ASSUME NEW k \in 1 .. Len(kept), NEW l \in 1 .. Len(kept), k < l
             PROVE  kept[k].date < kept[l].date
  BY DEF InDateOrder
<1>1. Earlier(kept[k], kept[l])
  BY DEF KeptOf, Sorted
<1>2. PICK x \in readings : Same(kept[k], x)
  BY DEF KeptOf
<1>3. PICK y \in readings : Same(kept[l], y)
  BY DEF KeptOf
<1>4. x.recid \in Nat
  BY DEF Reading
<1> QED BY <1>1, <1>2, <1>3, <1>4 DEF Same, Earlier

\* Readings of different dates, all later than the table, are all inserted, and
\* leave a chain.
LEMMA PreparedCounts ==
  ASSUME NEW readings \in SUBSET Reading, IsFiniteSet(readings),
         \A x, y \in readings : x.recid = y.recid \/ x.date = y.date => x = y,
         NEW stored \in SUBSET Row, IsFiniteSet(stored), NEW overrides, Chained(stored),
         \A r \in stored : \A x \in readings : r.date < x.date
  PROVE  LET out == Prepared(readings, stored, overrides)
         IN Chained(stored \cup Range(out)) /\ DatesDiffer(out)
<1>1. Singled(readings)
  BY DEF Singled
<1>2. PICK kept : /\ KeptOf(kept, readings)
                  /\ Prepared(readings, stored, overrides) = PrepareRows(kept, stored, overrides)
  BY <1>1, KeptIs
<1>3. kept \in Seq(KeptReading)
  BY <1>2 DEF KeptOf
<1>4. InDateOrder(kept)
  BY <1>2, KeptInDateOrder
<1>5. ASSUME NEW r \in stored, NEW j \in 1 .. Len(kept) PROVE r.date < kept[j].date
  <2>1. PICK x \in readings : Same(kept[j], x)
    BY <1>2 DEF KeptOf
  <2> QED BY <2>1 DEF Same
<1>6. LET out == PrepareRows(kept, stored, overrides)
      IN Chained(stored \cup Range(out)) /\ DatesDiffer(out)
  BY <1>3, <1>4, <1>5, PrepareCounts
<1> QED BY <1>2, <1>6

\* Rows of different dates, none of which the table has, are all inserted.
LEMMA AllInserted ==
  ASSUME NEW out \in Seq(Row), DatesDiffer(out), NEW rows,
         \A r \in rows : \A k \in 1 .. Len(out) : r.date # out[k].date
  PROVE  InsertedInto(rows, out) = Range(out)
<1>1. DOMAIN out = 1 .. Len(out) /\ Len(out) \in Nat
  OBVIOUS
<1>2. \A k \in 1 .. Len(out) : \A j \in 1 .. k - 1 : out[j].date # out[k].date
  BY <1>1 DEF DatesDiffer
<1> QED BY <1>1, <1>2 DEF InsertedInto, Range

-----------------------------------------------------------------------------
(***************************************************************************)
(* One row of a date, and a review for each row that was set aside.        *)
(***************************************************************************)
\* The review transaction has its six fields.
ReviewShape ==
  review # None =>
    review = [date |-> review.date, status |-> review.status, phase |-> review.phase,
              rows |-> review.rows, deleted |-> review.deleted,
              withdrawn |-> review.withdrawn]

\* A rebuild withdraws pending reviews only, and an invalid row that it will
\* leave in the table has a review that it will leave as well.
WithdrawnNotNeeded ==
  review # None /\ review.phase = "deleted" =>
    /\ \A v \in review.withdrawn : v.status = "PENDING"
    /\ \A r \in ReviewTable : ~r.platne =>
         \E v \in reviews \ review.withdrawn : v.date = r.date

IInv == OneRowPerDate /\ InvalidHasReview /\ ReviewShape /\ WithdrawnNotNeeded

\* Inserting with on_conflict_do_nothing keeps one row of each date.
LEMMA InsertedOnce ==
  ASSUME NEW rows, NEW out,
         \A r, s \in rows : r.date = s.date => r = s
  PROVE  \A r, s \in rows \cup InsertedInto(rows, out) : r.date = s.date => r = s
<1> SUFFICES ASSUME NEW r \in rows \cup InsertedInto(rows, out),
                    NEW s \in rows \cup InsertedInto(rows, out),
                    r.date = s.date
             PROVE  r = s
  OBVIOUS
<1>1. ASSUME NEW x \in rows, NEW y \in InsertedInto(rows, out)
      PROVE  x.date # y.date
  BY <1>1 DEF InsertedInto
<1>2. ASSUME NEW x \in InsertedInto(rows, out), NEW y \in InsertedInto(rows, out),
             x.date = y.date
      PROVE  x = y
  <2>1. PICK i \in 1 .. Len(out) :
          x = out[i] /\ \A j \in 1 .. i - 1 : out[j].date # out[i].date
    BY DEF InsertedInto
  <2>2. PICK k \in 1 .. Len(out) :
          y = out[k] /\ \A j \in 1 .. k - 1 : out[j].date # out[k].date
    BY DEF InsertedInto
  <2>3. i = k \/ i \in 1 .. k - 1 \/ k \in 1 .. i - 1
    OBVIOUS
  <2> QED BY <1>2, <2>1, <2>2, <2>3
<1> QED BY <1>1, <1>2

\* A known review stays, and each new date has one.
LEMMA UpsertKeeps ==
  ASSUME NEW known, NEW dates
  PROVE  /\ known \subseteq UpsertReviews(known, dates)
         /\ \A d \in dates : \E v \in UpsertReviews(known, dates) : v.date = d
<1> SUFFICES ASSUME NEW d \in dates, \A v \in known : v.date # d
             PROVE  [date |-> d, status |-> "PENDING"] \in UpsertReviews(known, dates)
  BY DEF UpsertReviews
<1> QED BY DEF UpsertReviews

\* An invalid row that is inserted brings a payload for its review, unless the
\* verdict on it is that of an outlier.
LEMMA InvalidHasPayload ==
  ASSUME NEW overrides, NEW out, NEW i \in 1 .. Len(out), ~out[i].platne
  PROVE  \/ out[i].date \in OutlierDates(out, overrides)
         \/ [date |-> out[i].date, status |-> "CONFIRMED_OUTLIER"] \in overrides
BY DEF OutlierDates, Confirmed

LEMMA InsertedIsPrepared ==
  ASSUME NEW rows, NEW out, NEW r \in InsertedInto(rows, out)
  PROVE  \E i \in 1 .. Len(out) : r = out[i]
BY DEF InsertedInto

LEMMA InitIInv == Init => IInv
BY DEF Init, IInv, OneRowPerDate, InvalidHasReview, ReviewShape, WithdrawnNotNeeded

LEMMA ImportCommitIInv == IInv /\ ImportCommit => IInv'
<1> SUFFICES ASSUME IInv, ImportCommit PROVE IInv'
  OBVIOUS
<1> DEFINE new == InsertedInto(table, import)
           dates == OutlierDates(import, {})
<1>1. table' = table \cup new /\ reviews' = UpsertReviews(reviews, dates) /\ review' = review
  BY DEF ImportCommit
<1>2. reviews \subseteq reviews'
  BY <1>1, UpsertKeeps
<1>3. ASSUME NEW r \in new, ~r.platne
      PROVE  /\ \E v \in reviews' : v.date = r.date
             /\ review # None => \A v \in review.withdrawn : v.date # r.date
  <2>1. PICK i \in 1 .. Len(import) : r = import[i]
    BY InsertedIsPrepared
  <2>2. r.date \in dates
    BY <1>3, <2>1, InvalidHasPayload
  <2>3. \E v \in reviews' : v.date = r.date
    BY <1>1, <2>2, UpsertKeeps
  <2>4. review # None => \A v \in review.withdrawn : v.date # r.date
    BY <1>3, <2>1 DEF ImportCommit, ImportMustWait
  <2> QED BY <2>3, <2>4
<1>4. OneRowPerDate'
  <2>1. \A r, s \in table \cup new : r.date = s.date => r = s
    BY InsertedOnce DEF IInv, OneRowPerDate
  <2> QED BY <1>1, <2>1 DEF OneRowPerDate
<1>5. InvalidHasReview'
  BY <1>1, <1>2, <1>3 DEF IInv, InvalidHasReview
<1>6. ReviewShape'
  BY <1>1 DEF IInv, ReviewShape
<1>7. WithdrawnNotNeeded'
  <2> SUFFICES ASSUME review # None, review.phase = "deleted",
                      NEW r \in table' \ review.deleted, ~r.platne
               PROVE  \E v \in reviews' \ review.withdrawn : v.date = r.date
    BY <1>1 DEF IInv, WithdrawnNotNeeded, ReviewTable
  <2>1. CASE r \in new
    BY <1>3, <2>1
  <2>2. CASE r \in table
    <3>1. \E v \in reviews \ review.withdrawn : v.date = r.date
      BY <2>2 DEF IInv, WithdrawnNotNeeded, ReviewTable
    <3> QED BY <1>2, <3>1
  <2> QED BY <1>1, <2>1, <2>2
<1> QED BY <1>4, <1>5, <1>6, <1>7 DEF IInv

LEMMA ReviewDeleteIInv == IInv /\ ReviewDelete => IInv'
<1> SUFFICES ASSUME IInv, ReviewDelete PROVE IInv'
  OBVIOUS
<1> DEFINE deleted == {r \in table : r.date >= review.date}
           withdrawn == {v \in reviews : /\ v.date >= review.date /\ v.date # review.date
                                         /\ v.status = "PENDING"}
<1>1. table' = table /\ reviews' = reviews /\ review # None
  BY DEF ReviewDelete, data
<1>2. review' = [date |-> review.date, status |-> review.status, phase |-> "deleted",
                 rows |-> review.rows, deleted |-> deleted, withdrawn |-> withdrawn]
  BY DEF ReviewDelete, IInv, ReviewShape
<1>3. ReviewShape'
  BY <1>2 DEF ReviewShape
<1>4. WithdrawnNotNeeded'
  <2>1. \A v \in withdrawn : v.status = "PENDING"
    OBVIOUS
  <2>2. ASSUME NEW r \in table \ deleted, ~r.platne
        PROVE  \E v \in reviews \ withdrawn : v.date = r.date
    BY <2>2 DEF IInv, InvalidHasReview
  <2>3. review'.deleted = deleted /\ review'.withdrawn = withdrawn
    BY <1>2
  <2> QED BY <1>1, <2>1, <2>2, <2>3 DEF WithdrawnNotNeeded, ReviewTable
<1> QED BY <1>1, <1>3, <1>4 DEF IInv, OneRowPerDate, InvalidHasReview

LEMMA ReviewCommitIInv == IInv /\ ReviewCommit => IInv'
<1> SUFFICES ASSUME IInv, ReviewCommit PROVE IInv'
  OBVIOUS
<1> DEFINE back == {Rebuilt[i] : i \in Actual(Rebuilt)}
           kept == ReviewTable \cup back
           known == {[date |-> v.date,
                      status |-> IF v.date = review.date THEN review.status ELSE v.status] :
                     v \in reviews \ review.withdrawn}
           dates == OutlierDates(Rebuilt, ReviewOverrides)
<1>1. /\ table' = kept \cup InsertedInto(kept, Rebuilt)
      /\ reviews' = UpsertReviews(known, dates)
      /\ review' = None /\ review # None /\ review.phase = "deleted" /\ ~ReviewConflict(Rebuilt)
  BY DEF ReviewCommit
<1>2. ASSUME NEW v \in reviews \ review.withdrawn
      PROVE  \E w \in reviews' : w.date = v.date
  <2> DEFINE w0 == [date |-> v.date,
                    status |-> IF v.date = review.date THEN review.status ELSE v.status]
  <2>1. w0 \in known /\ w0.date = v.date
    OBVIOUS
  <2> HIDE DEF w0
  <2> QED BY <1>1, <2>1, UpsertKeeps
<1>3. ASSUME NEW i \in 1 .. Len(Rebuilt), ~Rebuilt[i].platne
      PROVE  \E w \in reviews' : w.date = Rebuilt[i].date
  <2> DEFINE verdict == [date |-> Rebuilt[i].date, status |-> "CONFIRMED_OUTLIER"]
  <2>1. CASE Rebuilt[i].date \in dates
    BY <1>1, <2>1, UpsertKeeps
  <2>2. CASE verdict \in ReviewOverrides
    <3>1. verdict \in reviews /\ verdict.status # "PENDING"
      BY <2>2 DEF ReviewOverrides
    <3>2. verdict \notin review.withdrawn
      BY <1>1, <3>1 DEF IInv, WithdrawnNotNeeded
    <3>3. verdict.date = Rebuilt[i].date
      OBVIOUS
    <3> HIDE DEF verdict
    <3> QED BY <1>2, <3>1, <3>2, <3>3
  <2> QED BY <1>3, <2>1, <2>2, InvalidHasPayload
<1>4. OneRowPerDate'
  <2>1. \A r, s \in ReviewTable : r.date = s.date => r = s
    BY DEF IInv, OneRowPerDate, ReviewTable
  <2>2. \A r \in ReviewTable : \A s \in back : r.date # s.date
    BY <1>1 DEF ReviewConflict
  <2>3. \A r, s \in back : r.date = s.date => r = s
    BY <1>1 DEF ReviewConflict
  <2>4. \A r, s \in kept : r.date = s.date => r = s
    BY <2>1, <2>2, <2>3
  <2> HIDE DEF kept
  <2>5. \A r, s \in kept \cup InsertedInto(kept, Rebuilt) : r.date = s.date => r = s
    BY <2>4, InsertedOnce
  <2> QED BY <1>1, <2>5 DEF OneRowPerDate
<1>5. InvalidHasReview'
  <2> SUFFICES ASSUME NEW r \in table', ~r.platne
               PROVE  \E w \in reviews' : w.date = r.date
    BY DEF InvalidHasReview
  <2>1. CASE r \in ReviewTable
    BY <1>1, <1>2, <2>1 DEF IInv, WithdrawnNotNeeded
  <2>2. CASE r \in back
    BY <1>3, <2>2 DEF Actual
  <2>3. CASE r \in InsertedInto(kept, Rebuilt)
    BY <1>3, <2>3, InsertedIsPrepared
  <2> QED BY <1>1, <2>1, <2>2, <2>3
<1>6. ReviewShape' /\ WithdrawnNotNeeded'
  BY <1>1 DEF ReviewShape, WithdrawnNotNeeded
<1> QED BY <1>4, <1>5, <1>6 DEF IInv

LEMMA NextIInv == IInv /\ [Next]_vars => IInv'
<1> SUFFICES ASSUME IInv, [Next]_vars PROVE IInv'
  OBVIOUS
<1> USE DEF data
<1>1. ASSUME UNCHANGED <<table, reviews, review>> PROVE IInv'
  BY <1>1 DEF IInv, OneRowPerDate, InvalidHasReview, ReviewShape, WithdrawnNotNeeded,
              ReviewTable
<1>2. ASSUME UNCHANGED <<table, reviews>>, review' = None PROVE IInv'
  BY <1>2 DEF IInv, OneRowPerDate, InvalidHasReview, ReviewShape, WithdrawnNotNeeded
<1>3. ASSUME NEW date \in Date, NEW objem \in Objem, Arrive(date, objem) PROVE IInv'
  BY <1>1, <1>3 DEF Arrive
<1>4. ASSUME NEW v \in reviews, NEW status \in Status, ReviewLoad(v, status) PROVE IInv'
  <2> DEFINE loaded == {[recid |-> r.recid, date |-> r.date, objem |-> r.objem] :
                        r \in {s \in table : ~s.synthetic /\ s.date >= v.date}}
  <2> HIDE DEF loaded
  <2>1. review' = [date |-> v.date, status |-> status, phase |-> "loaded",
                   rows |-> loaded, deleted |-> {}, withdrawn |-> {}]
    BY <1>4 DEF ReviewLoad, loaded
  <2>2. UNCHANGED <<table, reviews>>
    BY <1>4 DEF ReviewLoad
  <2>3. ReviewShape' /\ WithdrawnNotNeeded'
    BY <2>1 DEF ReviewShape, WithdrawnNotNeeded
  <2> QED BY <2>2, <2>3 DEF IInv, OneRowPerDate, InvalidHasReview
<1>5. CASE ImportRead \/ ImportRollBack \/ ImportAbort
  BY <1>1, <1>5 DEF ImportRead, ImportRollBack, ImportAbort
<1>6. CASE ReviewAbort
  BY <1>2, <1>6 DEF ReviewAbort
<1>7. CASE UNCHANGED vars
  BY <1>1, <1>7 DEF vars
<1> QED BY <1>3, <1>4, <1>5, <1>6, <1>7, ImportCommitIInv, ReviewDeleteIInv, ReviewCommitIInv
        DEF Next

LEMMA SpecIInv == Spec => []IInv
BY InitIInv, NextIInv, PTL DEF Spec

\* The table never holds two rows of one date, for any rows that the
\* preparation returns and any interleaving of imports, rebuilds and failures.
THEOREM SpecOneRowPerDate == Spec => []OneRowPerDate
<1>1. IInv => OneRowPerDate
  BY DEF IInv
<1> QED BY <1>1, SpecIInv, PTL

\* A row that was set aside is never without a review, although rebuilds
\* withdraw reviews while imports add rows beside them.
THEOREM SpecInvalidHasReview == Spec => []InvalidHasReview
<1>1. IInv => InvalidHasReview
  BY DEF IInv
<1> QED BY <1>1, SpecIInv, PTL

-----------------------------------------------------------------------------
(***************************************************************************)
(* Rows and readings: shapes, where the rows come from, what the two       *)
(* transactions hold.                                                      *)
(***************************************************************************)
\* A row, or a reading that was loaded, is the reading of the source that it names.
FromSource(x) == x.recid \in 1 .. Len(source) /\ Same(x, source[x.recid])

\* A row of the table fills a slot or comes from the source, and no reading has two.
Sourced ==
  /\ \A i \in 1 .. Len(source) : source[i].recid = i
  /\ \A r \in table : IF r.synthetic THEN Filler(r) ELSE FromSource(r)
  /\ \A r, s \in table : r.recid = s.recid /\ ~r.synthetic => r = s

Finite == IsFiniteSet(table) /\ (review # None => IsFiniteSet(review.rows))

\* An import inserts readings, once each and none that is a row already.
ImportRows ==
  import # None =>
    /\ \A k \in 1 .. Len(import) : Within(import[k])
    /\ \A k \in (1 .. Len(import)) \ Actual(import) : Filler(import[k])
    /\ \A k, l \in Actual(import) : k < l => Earlier(import[k], import[l])
    /\ \A k \in Actual(import) :
         /\ FromSource(import[k])
         /\ \A r \in table : r.recid # import[k].recid

\* A rebuild loaded readings that are rows, and then deletes those rows.
RebuildRows ==
  review # None =>
    /\ \A x \in review.rows :
         \E t \in table : ~t.synthetic /\ Same(t, x) /\ t.date >= review.date
    /\ review.phase = "deleted" =>
         /\ review.deleted \subseteq table
         /\ \A x \in review.rows : \E t \in review.deleted : ~t.synthetic /\ Same(t, x)

TableInv == IInv /\ TypeOK /\ Sourced /\ Finite /\ ImportRows /\ RebuildRows /\ DeltaBound

\* What a function makes of a finite set is finite.
LEMMA FiniteImage ==
  ASSUME NEW S, IsFiniteSet(S), NEW f, DOMAIN f = S
  PROVE  IsFiniteSet({f[x] : x \in S})
<1> DEFINE T == {f[x] : x \in S}
           g == [x \in S |-> f[x]]
<1>1. g \in Surjection(S, T)
  BY DEF Surjection
<1> QED BY <1>1, FS_Surjection, Zenon

LEMMA InsertedFinite ==
  ASSUME NEW rows, NEW out \in Seq(Row)
  PROVE  IsFiniteSet(InsertedInto(rows, out))
<1> DEFINE K == {k \in 1 .. Len(out) : /\ \A r \in rows : r.date # out[k].date
                                       /\ \A j \in 1 .. k - 1 : out[j].date # out[k].date}
           f == [k \in K |-> out[k]]
<1>1. IsFiniteSet(K)
  <2>1. IsFiniteSet(1 .. Len(out)) /\ K \in SUBSET (1 .. Len(out))
    BY FS_Interval
  <2> HIDE DEF K
  <2> QED BY <2>1, FS_Subset
<1>2. InsertedInto(rows, out) = {f[k] : k \in K}
  BY DEF InsertedInto
<1>3. DOMAIN f = K
  OBVIOUS
<1> HIDE DEF K, f
<1>4. IsFiniteSet({f[k] : k \in K})
  BY <1>1, <1>3, FiniteImage
<1> QED BY <1>2, <1>4

\* A bounded set of numbers has a largest.
LEMMA Largest ==
  ASSUME NEW n \in Nat, NEW S \in SUBSET (0 .. n), S # {}
  PROVE  \E x \in S : \A y \in S : y <= x
<1> DEFINE T == {n - x : x \in S}
<1>0. \A x \in S : x \in 0 .. n
  OBVIOUS
<1>1. T \in SUBSET Nat /\ T # {}
  <2>1. \A x \in S : n - x \in Nat /\ n - x \in T
    BY <1>0
  <2>2. \A m \in T : m \in Nat
    BY <2>1
  <2> QED BY <2>1, <2>2
<1>2. PICK m \in T : \A k \in T : m <= k
  BY <1>1, Smallest
<1>3. PICK x \in S : m = n - x
  OBVIOUS
<1>4. \A y \in S : n - x <= n - y
  BY <1>2, <1>3
<1> HIDE DEF T
<1> QED BY <1>0, <1>4

\* The cursor is the largest recid of the table, and none without rows.
LEMMA CursorIs ==
  ASSUME TypeOK, Sourced
  PROVE  /\ Cursor \in 0 .. Len(source) /\ Len(source) \in Nat
         /\ \A r \in table : ~r.synthetic => r.recid \in 1 .. Cursor
         /\ Cursor # 0 => \E r \in table : ~r.synthetic /\ r.recid = Cursor
<1> DEFINE recids == {r.recid : r \in {s \in table : ~s.synthetic}}
<1>1. Len(source) \in Nat
  BY DEF TypeOK
<1>2. \A r \in table : ~r.synthetic => r.recid \in 1 .. Len(source)
  BY DEF Sourced, FromSource
<1>3. recids \in SUBSET (0 .. Len(source)) /\ recids \in SUBSET Nat
  BY <1>1, <1>2
<1>4. Cursor = IF recids = {} THEN 0 ELSE Max(recids)
  BY DEF Cursor
<1>5. CASE recids = {}
  <2>1. \A r \in table : r.synthetic
    BY <1>5
  <2>2. Cursor = 0
    BY <1>4, <1>5
  <2> QED BY <2>1, <2>2, <1>1
<1>6. CASE recids # {}
  <2> HIDE DEF recids
  <2>1. \E x \in recids : \A y \in recids : y <= x
    BY <1>1, <1>3, <1>6, Largest
  <2>2. \E x \in recids : \A y \in recids : x >= y
    BY <2>1, <1>3
  <2>3. Max(recids) \in recids /\ \A y \in recids : Max(recids) >= y
    BY <2>2 DEF Max
  <2>4. Cursor \in recids /\ \A y \in recids : Cursor >= y
    BY <2>3, <1>4, <1>6
  <2>5. Cursor \in Nat
    BY <2>4, <1>3
  <2>6. \A r \in table : ~r.synthetic => r.recid \in recids
    BY DEF recids
  <2>7. \E r \in table : ~r.synthetic /\ r.recid = Cursor
    BY <2>4 DEF recids
  <2>8. \A r \in table : ~r.synthetic => r.recid \in 1 .. Cursor
    <3> SUFFICES ASSUME NEW r \in table, ~r.synthetic PROVE r.recid \in 1 .. Cursor
      OBVIOUS
    <3>1. Cursor >= r.recid /\ r.recid \in 1 .. Len(source)
      BY <2>4, <2>6, <1>2
    <3> QED BY <3>1, <1>1, <2>5
  <2> QED BY <2>4, <2>5, <2>7, <2>8, <1>1, <1>3
<1> QED BY <1>5, <1>6

\* The readings behind the cursor.
LEMMA NewReadingsAre ==
  ASSUME TypeOK, Sourced
  PROVE  /\ NewReadings \in SUBSET Reading /\ IsFiniteSet(NewReadings)
         /\ Singled(NewReadings)
         /\ \A x \in NewReadings : FromSource(x) /\ \A r \in table : r.recid # x.recid
<1>1. /\ Cursor \in 0 .. Len(source) /\ Len(source) \in Nat
      /\ \A r \in table : ~r.synthetic => r.recid \in 1 .. Cursor
  BY CursorIs
<1> DEFINE I == Cursor + 1 .. Len(source)
           f == [i \in I |-> source[i]]
<1>2. I \in SUBSET (1 .. Len(source)) /\ IsFiniteSet(1 .. Len(source))
  BY <1>1, FS_Interval
<1>3. IsFiniteSet(I) /\ NewReadings = {f[i] : i \in I}
  <2>1. NewReadings = {f[i] : i \in I}
    BY DEF NewReadings
  <2> HIDE DEF I
  <2> QED BY <2>1, <1>2, FS_Subset
<1>4. IsFiniteSet(NewReadings)
  <2> HIDE DEF I
  <2> QED BY <1>3, FiniteImage
<1>5. ASSUME NEW x \in NewReadings
      PROVE  /\ x \in Reading /\ x.recid \in 1 .. Len(source) /\ x.recid > Cursor
             /\ x = source[x.recid]
  <2>1. PICK i \in I : x = source[i]
    BY DEF NewReadings
  <2>2. source[i] \in Reading /\ source[i].recid = i
    BY <1>2 DEF TypeOK, Sourced
  <2> QED BY <2>1, <2>2, <1>1, <1>2
<1>6. ASSUME NEW x \in NewReadings, NEW r \in table
      PROVE  r.recid # x.recid
  <2>1. CASE r.synthetic
    BY <2>1, <1>5, <1>1, ImportAssumption DEF Sourced, Filler
  <2>2. CASE ~r.synthetic
    BY <2>2, <1>5, <1>1
  <2> QED BY <2>1, <2>2
<1>7. Singled(NewReadings)
  BY <1>5 DEF Singled
<1> QED BY <1>4, <1>5, <1>6, <1>7 DEF FromSource, Same

\* What a rebuild loaded are single readings.
LEMMA LoadedAre ==
  ASSUME TableInv, review # None
  PROVE  /\ review.rows \in SUBSET Reading /\ IsFiniteSet(review.rows)
         /\ Singled(review.rows)
<1>1. review.rows \in SUBSET Reading /\ IsFiniteSet(review.rows)
  BY DEF TableInv, TypeOK, Finite
<1>2. ASSUME NEW x \in review.rows, NEW y \in review.rows, x.recid = y.recid
      PROVE  x = y
  <2>1. PICK t \in table : ~t.synthetic /\ Same(t, x)
    BY DEF TableInv, RebuildRows
  <2>2. PICK u \in table : ~u.synthetic /\ Same(u, y)
    BY DEF TableInv, RebuildRows
  <2>3. t = u
    BY <1>2, <2>1, <2>2 DEF TableInv, Sourced, Same
  <2>4. x \in Reading /\ y \in Reading
    BY <1>1
  <2> QED BY <1>2, <2>1, <2>2, <2>3, <2>4 DEF Same, Reading
<1> QED BY <1>1, <1>2 DEF Singled

LEMMA RebuiltIs ==
  ASSUME TableInv, review # None
  PROVE  PreparedTells(Rebuilt, review.rows, ReviewTable)
<1>1. ReviewTable \in SUBSET Row /\ ReviewTable \in SUBSET table /\ IsFiniteSet(table)
  BY DEF TableInv, TypeOK, ReviewTable, Finite
<1>2. IsFiniteSet(ReviewTable)
  BY <1>1, FS_Subset
<1> QED BY <1>1, <1>2, LoadedAre, PreparedIs DEF Rebuilt

\* A rebuilt measurement was a row, and is deleted.
LEMMA RebuiltWasDeleted ==
  ASSUME TableInv, review # None, review.phase = "deleted", NEW i \in Actual(Rebuilt)
  PROVE  \E t \in table \cap review.deleted :
           ~t.synthetic /\ Same(t, Rebuilt[i])
<1>1. PICK x \in review.rows : Same(Rebuilt[i], x)
  BY RebuiltIs DEF PreparedTells
<1>2. PICK t \in review.deleted : ~t.synthetic /\ Same(t, x)
  BY DEF TableInv, RebuildRows
<1>3. t \in table
  BY DEF TableInv, RebuildRows
<1> QED BY <1>1, <1>2, <1>3 DEF Same

\* Two rebuilt measurements are two readings of two dates.
LEMMA RebuiltOnce ==
  ASSUME TableInv, review # None, review.phase = "deleted",
         NEW i \in Actual(Rebuilt), NEW j \in Actual(Rebuilt),
         Rebuilt[i].recid = Rebuilt[j].recid \/ Rebuilt[i].date = Rebuilt[j].date
  PROVE  i = j
<1>1. PICK t \in table : ~t.synthetic /\ Same(t, Rebuilt[i])
  BY RebuiltWasDeleted
<1>2. PICK u \in table : ~u.synthetic /\ Same(u, Rebuilt[j])
  BY RebuiltWasDeleted
<1>3. t = u
  BY <1>1, <1>2 DEF TableInv, IInv, OneRowPerDate, Sourced, Same
<1>4. /\ t.date \in Nat /\ t.recid \in Nat
  BY <1>1, ImportAssumption DEF TableInv, TypeOK, Row, Sourced, FromSource
<1>5. ~Earlier(Rebuilt[i], Rebuilt[j]) /\ ~Earlier(Rebuilt[j], Rebuilt[i])
  BY <1>1, <1>2, <1>3, <1>4 DEF Earlier, Same
<1>6. i \in Nat /\ j \in Nat
  BY DEF Actual
<1>7. \A k, l \in Actual(Rebuilt) : k < l => Earlier(Rebuilt[k], Rebuilt[l])
  BY RebuiltIs DEF PreparedTells
<1> QED BY <1>5, <1>6, <1>7

LEMMA FitsBack ==
  ASSUME TableInv, review # None, review.phase = "deleted"
  PROVE  ~ReviewConflict(Rebuilt)
<1>1. ASSUME NEW i \in Actual(Rebuilt), NEW r \in ReviewTable
      PROVE  r.date # Rebuilt[i].date
  <2>1. PICK t \in table \cap review.deleted : ~t.synthetic /\ Same(t, Rebuilt[i])
    BY RebuiltWasDeleted
  <2>2. t # r /\ r \in table
    BY DEF ReviewTable
  <2> QED BY <2>1, <2>2 DEF TableInv, IInv, OneRowPerDate, Same
<1>2. ASSUME NEW i \in Actual(Rebuilt), NEW j \in Actual(Rebuilt) \ {i}
      PROVE  Rebuilt[j].date # Rebuilt[i].date
  BY RebuiltOnce
<1> QED BY <1>1, <1>2 DEF ReviewConflict

\* The rows that a commit leaves are those that it found and those that it made.
LEMMA CommittedRows ==
  ASSUME ReviewCommit
  PROVE  \A r \in table' : r \in ReviewTable \/ \E i \in 1 .. Len(Rebuilt) : r = Rebuilt[i]
<1> DEFINE back == {Rebuilt[i] : i \in Actual(Rebuilt)}
           kept == ReviewTable \cup back
<1>1. table' = kept \cup InsertedInto(kept, Rebuilt)
  BY DEF ReviewCommit
<1> SUFFICES ASSUME NEW r \in table'
             PROVE  r \in ReviewTable \/ \E i \in 1 .. Len(Rebuilt) : r = Rebuilt[i]
  OBVIOUS
<1>2. CASE r \in back
  BY <1>2 DEF Actual
<1>3. CASE r \in InsertedInto(kept, Rebuilt)
  <2> HIDE DEF kept
  <2> QED BY <1>3, InsertedIsPrepared
<1> QED BY <1>1, <1>2, <1>3

\* One status is one of the three.
LEMMA UpsertTyped ==
  ASSUME NEW known \in SUBSET Review, NEW dates \in SUBSET Date
  PROVE  UpsertReviews(known, dates) \in SUBSET Review
BY DEF UpsertReviews, Review, Status

\* A row that is set aside is a reading, and its date one of the source's.
LEMMA PayloadTyped ==
  ASSUME NEW out, NEW overrides,
         \A k \in Actual(out) : out[k].date \in Date,
         \A k \in (1 .. Len(out)) \ Actual(out) : Filler(out[k])
  PROVE  OutlierDates(out, overrides) \in SUBSET Date
<1> SUFFICES ASSUME NEW k \in 1 .. Len(out), ~out[k].platne PROVE out[k].date \in Date
  BY DEF OutlierDates
<1>1. k \in Actual(out)
  BY DEF Filler
<1> QED BY <1>1

\* What becomes of the table apart from IInv.
RestInv == TypeOK /\ Sourced /\ Finite /\ ImportRows /\ RebuildRows /\ DeltaBound

LEMMA InitRest == Init => RestInv
<1> SUFFICES ASSUME Init PROVE RestInv
  OBVIOUS
<1>1. TypeOK
  <2>1. MaxReviews \in Nat /\ MaxAborts \in Nat
    BY ImportAssumption
  <2>2. source \in Seq(Reading) /\ table \subseteq Row /\ reviews \subseteq Review
    BY DEF Init
  <2>3. import = None /\ review = None
    BY DEF Init
  <2>4. changes \in 0 .. MaxReviews /\ aborts \in 0 .. MaxAborts
    BY <2>1 DEF Init
  <2>5. overlapped \in BOOLEAN /\ torn \in BOOLEAN
    BY DEF Init
  <2> QED BY <2>2, <2>3, <2>4, <2>5 DEF TypeOK
<1>2. Sourced /\ ImportRows /\ RebuildRows /\ DeltaBound
  BY DEF Init, Sourced, ImportRows, RebuildRows, DeltaBound
<1>3. Finite
  BY FS_EmptySet DEF Init, Finite
<1> QED BY <1>1, <1>2, <1>3 DEF RestInv

LEMMA ArriveRest ==
  ASSUME TableInv, NEW date \in Date, NEW objem \in Objem, Arrive(date, objem)
  PROVE  RestInv'
<1> DEFINE r == [recid |-> Len(source) + 1, date |-> date, objem |-> objem]
<1>1. /\ source' = Append(source, r)
      /\ import = None /\ review = None
      /\ UNCHANGED <<table, reviews, import, review, overlapped, torn, changes, aborts>>
  BY DEF Arrive
<1>2. source \in Seq(Reading)
  BY DEF TableInv, TypeOK
<1>3. r \in Reading
  BY <1>2 DEF Reading
<1>4. /\ source' \in Seq(Reading) /\ Len(source') = Len(source) + 1
      /\ source'[Len(source) + 1] = r
      /\ \A i \in 1 .. Len(source) : source'[i] = source[i]
  BY <1>1, <1>2, <1>3
<1>5. TypeOK'
  BY <1>1, <1>4 DEF TableInv, TypeOK
<1>6. Sourced'
  <2>1. ASSUME NEW i \in 1 .. Len(source') PROVE source'[i].recid = i
    <3>1. i \in 1 .. Len(source) \/ i = Len(source) + 1
      BY <1>2, <1>4
    <3> QED BY <3>1, <1>4 DEF TableInv, Sourced
  <2>2. ASSUME NEW t \in table PROVE FromSource(t) => FromSource(t)'
    BY <1>2, <1>4 DEF FromSource, Same
  <2>3. \A t \in table : (IF t.synthetic THEN Filler(t) ELSE FromSource(t))'
    BY <2>2 DEF TableInv, Sourced, Filler
  <2>4. \A t, u \in table : t.recid = u.recid /\ ~t.synthetic => t = u
    BY DEF TableInv, Sourced
  <2> QED BY <1>1, <2>1, <2>3, <2>4 DEF Sourced
<1>7. Finite' /\ DeltaBound'
  BY <1>1 DEF TableInv, Finite, DeltaBound
<1>8. ImportRows' /\ RebuildRows'
  BY <1>1 DEF ImportRows, RebuildRows
<1> QED BY <1>5, <1>6, <1>7, <1>8 DEF RestInv

LEMMA ImportReadRest ==
  ASSUME TableInv, ImportRead
  PROVE  RestInv'
<1> USE DEF data
<1>1. /\ import' = Prepared(NewReadings, table, {})
      /\ UNCHANGED <<source, table, reviews, review, torn, changes, aborts>>
      /\ overlapped' = (overlapped \/ review # None)
  BY DEF ImportRead
<1>2. /\ NewReadings \in SUBSET Reading /\ IsFiniteSet(NewReadings)
      /\ Singled(NewReadings)
      /\ \A x \in NewReadings : FromSource(x) /\ \A r \in table : r.recid # x.recid
  BY NewReadingsAre DEF TableInv
<1>3. PreparedTells(import', NewReadings, table)
  BY <1>1, <1>2, PreparedIs DEF TableInv, TypeOK, Finite
<1>4. TypeOK'
  <2>1. import' \in Seq(Row)
    BY <1>3 DEF PreparedTells
  <2>2. overlapped' \in BOOLEAN /\ torn' \in BOOLEAN
    BY <1>1 DEF TableInv, TypeOK
  <2> QED BY <1>1, <2>1, <2>2 DEF TableInv, TypeOK
<1>5. ImportRows'
  <2>1. ASSUME NEW k \in Actual(import')
        PROVE  /\ FromSource(import'[k])
               /\ \A r \in table : r.recid # import'[k].recid
    <3>1. PICK x \in NewReadings : Same(import'[k], x)
      BY <1>3 DEF PreparedTells
    <3> QED BY <3>1, <1>2 DEF FromSource, Same
  <2>2. /\ \A k \in 1 .. Len(import') : Within(import'[k])
        /\ \A k \in (1 .. Len(import')) \ Actual(import') : Filler(import'[k])
        /\ \A k, l \in Actual(import') : k < l => Earlier(import'[k], import'[l])
    BY <1>3 DEF PreparedTells
  <2> QED BY <1>1, <2>1, <2>2
          DEF ImportRows, Actual, Within, Filler, Earlier, FromSource, Same
<1>6. Sourced' /\ Finite' /\ RebuildRows' /\ DeltaBound'
  BY <1>1 DEF TableInv, Sourced, Finite, RebuildRows, DeltaBound, FromSource, Same, Filler
<1> QED BY <1>4, <1>5, <1>6 DEF RestInv

LEMMA ImportEndRest ==
  ASSUME TableInv, ImportRollBack \/ ImportAbort
  PROVE  RestInv'
<1> USE DEF data
<1>1. /\ import' = None
      /\ UNCHANGED <<source, table, reviews, review, overlapped, torn, changes>>
  BY DEF ImportRollBack, ImportAbort
<1>2. aborts' \in 0 .. MaxAborts
  BY ImportAssumption DEF ImportRollBack, ImportAbort, TableInv, TypeOK
<1>3. TypeOK'
  BY <1>1, <1>2 DEF TableInv, TypeOK
<1>4. Sourced' /\ Finite' /\ RebuildRows' /\ DeltaBound'
  BY <1>1 DEF TableInv, Sourced, Finite, RebuildRows, DeltaBound, FromSource, Same, Filler
<1> QED BY <1>1, <1>3, <1>4 DEF RestInv, ImportRows

LEMMA ReviewAbortRest ==
  ASSUME TableInv, ReviewAbort
  PROVE  RestInv'
<1> USE DEF data
<1>1. /\ review' = None
      /\ UNCHANGED <<source, table, reviews, import, overlapped, torn, changes>>
  BY DEF ReviewAbort
<1>2. aborts' \in 0 .. MaxAborts
  BY ImportAssumption DEF ReviewAbort, TableInv, TypeOK
<1>3. TypeOK'
  BY <1>1, <1>2 DEF TableInv, TypeOK
<1>4. Sourced' /\ Finite' /\ DeltaBound' /\ ImportRows'
  BY <1>1 DEF TableInv, Sourced, Finite, DeltaBound, FromSource, Same, Filler,
              ImportRows, Actual, Within, Earlier
<1> QED BY <1>1, <1>3, <1>4 DEF RestInv, RebuildRows

LEMMA IdleRest ==
  ASSUME TableInv, UNCHANGED vars
  PROVE  RestInv'
<1> USE DEF data, vars
<1>1. TypeOK' /\ Sourced' /\ Finite' /\ DeltaBound'
  BY DEF TableInv, TypeOK, Sourced, Finite, DeltaBound, FromSource, Same, Filler
<1>2. ImportRows' /\ RebuildRows'
  BY DEF TableInv, ImportRows, RebuildRows, Actual, Within, Earlier, FromSource, Same, Filler
<1> QED BY <1>1, <1>2 DEF RestInv

LEMMA ImportCommitRest ==
  ASSUME TableInv, ImportCommit
  PROVE  RestInv'
<1> DEFINE new == InsertedInto(table, import)
           dates == OutlierDates(import, {})
<1>1. /\ table' = table \cup new /\ reviews' = UpsertReviews(reviews, dates)
      /\ import' = None /\ import # None
      /\ UNCHANGED <<source, review, overlapped, torn, changes, aborts>>
  BY DEF ImportCommit
<1>2. import \in Seq(Row) /\ source \in Seq(Reading)
  BY <1>1 DEF TableInv, TypeOK
<1>3. ASSUME NEW r \in new
      PROVE  \E k \in 1 .. Len(import) : r = import[k]
  BY InsertedIsPrepared
<1>4. ASSUME NEW r \in new
      PROVE  /\ r \in Row /\ Within(r)
             /\ IF r.synthetic THEN Filler(r)
                ELSE FromSource(r) /\ \A t \in table : t.recid # r.recid
  <2>1. PICK k \in 1 .. Len(import) : r = import[k]
    BY <1>3
  <2> QED BY <2>1, <1>1, <1>2 DEF TableInv, ImportRows, Actual
<1>5. ASSUME NEW r \in new, NEW s \in new, r.recid = s.recid, ~r.synthetic
      PROVE  r = s
  <2>1. PICK k \in 1 .. Len(import) : r = import[k]
    BY <1>3
  <2>2. PICK l \in 1 .. Len(import) : s = import[l]
    BY <1>3
  <2>3. r.recid # None /\ ~s.synthetic
    BY <1>4, <1>5, <1>2, ImportAssumption DEF FromSource, Filler
  <2>4. r.date = s.date /\ r.date \in Nat /\ r.recid \in Nat
    BY <1>4, <1>5, <2>3, <1>2 DEF FromSource, Same, Row
  <2>5. ~Earlier(r, s) /\ ~Earlier(s, r)
    BY <2>4, <1>5 DEF Earlier
  <2>6. k \in Actual(import) /\ l \in Actual(import)
    BY <2>1, <2>2, <2>3, <1>5 DEF Actual
  <2>7. ~(k < l) /\ ~(l < k)
    BY <2>1, <2>2, <2>5, <2>6, <1>1 DEF TableInv, ImportRows
  <2>8. k \in Nat /\ l \in Nat
    OBVIOUS
  <2> QED BY <2>1, <2>2, <2>7, <2>8
<1>6. TypeOK'
  <2>1. dates \in SUBSET Date
    <3>1. ASSUME NEW k \in Actual(import) PROVE import[k].date \in Date
      <4> DEFINE x == source[import[k].recid]
      <4>1. import[k].recid \in 1 .. Len(source) /\ import[k].date = x.date
        BY <1>1 DEF TableInv, ImportRows, FromSource, Same
      <4>2. x \in Reading
        BY <4>1, <1>2
      <4> QED BY <4>1, <4>2 DEF Reading
    <3>2. \A k \in (1 .. Len(import)) \ Actual(import) : Filler(import[k])
      BY <1>1 DEF TableInv, ImportRows
    <3> QED BY <3>1, <3>2, PayloadTyped
  <2>2. reviews' \in SUBSET Review
    <3>1. reviews \in SUBSET Review
      BY DEF TableInv, TypeOK
    <3> HIDE DEF dates
    <3>2. UpsertReviews(reviews, dates) \in SUBSET Review
      BY <2>1, <3>1, UpsertTyped
    <3> QED BY <1>1, <3>2
  <2>3. table' \in SUBSET Row
    BY <1>1, <1>4 DEF TableInv, TypeOK
  <2> QED BY <1>1, <2>2, <2>3 DEF TableInv, TypeOK
<1> HIDE DEF new
<1>7. Sourced'
  <2>1. \A i \in 1 .. Len(source) : source[i].recid = i
    BY DEF TableInv, Sourced
  <2>2. \A r \in table \cup new : (IF r.synthetic THEN Filler(r) ELSE FromSource(r))'
    BY <1>1, <1>4 DEF TableInv, Sourced, Filler, FromSource, Same
  <2>3. ASSUME NEW r \in table \cup new, NEW s \in table \cup new,
               r.recid = s.recid, ~r.synthetic
        PROVE  r = s
    <3>1. CASE r \in table /\ s \in table
      BY <2>3, <3>1 DEF TableInv, Sourced
    <3>2. CASE r \in new /\ s \in new
      BY <2>3, <3>2, <1>5
    <3>3. CASE r \in new /\ s \in table
      BY <2>3, <3>3, <1>4
    <3>4. CASE r \in table /\ s \in new
      <4>1. r.recid \in Nat
        BY <2>3, <3>4, <1>2 DEF TableInv, Sourced, FromSource
      <4>2. ~s.synthetic
        BY <2>3, <3>4, <4>1, <1>4, ImportAssumption DEF Filler
      <4> QED BY <2>3, <3>4, <4>2, <1>4
    <3> QED BY <3>1, <3>2, <3>3, <3>4
  <2> QED BY <1>1, <2>1, <2>2, <2>3 DEF Sourced
<1>8. Finite'
  <2>1. IsFiniteSet(new)
    BY <1>2, InsertedFinite DEF new
  <2>2. IsFiniteSet(table \cup new)
    BY <2>1, FS_Union DEF TableInv, Finite
  <2> QED BY <1>1, <2>2 DEF TableInv, Finite
<1>9. RebuildRows'
  BY <1>1 DEF TableInv, RebuildRows, Same
<1>10. DeltaBound'
  BY <1>1, <1>4 DEF TableInv, DeltaBound, Within
<1> QED BY <1>1, <1>6, <1>7, <1>8, <1>9, <1>10 DEF RestInv, ImportRows

LEMMA ReviewLoadRest ==
  ASSUME TableInv, NEW v \in reviews, NEW status \in Status, ReviewLoad(v, status)
  PROVE  RestInv'
<1> DEFINE S == {s \in table : ~s.synthetic /\ s.date >= v.date}
           f == [r \in S |-> [recid |-> r.recid, date |-> r.date, objem |-> r.objem]]
           loaded == {f[r] : r \in S}
<1> USE DEF data
<1>1. /\ review' = [date |-> v.date, status |-> status, phase |-> "loaded",
                    rows |-> loaded, deleted |-> {}, withdrawn |-> {}]
      /\ UNCHANGED <<source, table, reviews, import, torn, aborts>>
  <2>1. loaded = {[recid |-> r.recid, date |-> r.date, objem |-> r.objem] : r \in S}
    OBVIOUS
  <2> HIDE DEF loaded, f
  <2> QED BY <2>1 DEF ReviewLoad
<1>2. changes' \in 0 .. MaxReviews
  BY ImportAssumption DEF ReviewLoad, TableInv, TypeOK
<1>3. overlapped' \in BOOLEAN /\ torn' \in BOOLEAN
  BY DEF ReviewLoad, TableInv, TypeOK
<1>4. ASSUME NEW x \in loaded
      PROVE  \E t \in table : ~t.synthetic /\ Same(t, x) /\ t.date >= v.date
  <2>1. PICK t \in S : x = [recid |-> t.recid, date |-> t.date, objem |-> t.objem]
    OBVIOUS
  <2> QED BY <2>1 DEF Same
<1>5. loaded \subseteq Reading
  <2> SUFFICES ASSUME NEW x \in loaded PROVE x \in Reading
    OBVIOUS
  <2>1. PICK t \in S : x = [recid |-> t.recid, date |-> t.date, objem |-> t.objem]
    OBVIOUS
  <2>2. t.recid \in 1 .. Len(source) /\ Same(t, source[t.recid])
    BY DEF TableInv, Sourced, FromSource
  <2>3. source[t.recid] \in Reading
    BY <2>2 DEF TableInv, TypeOK
  <2> QED BY <2>1, <2>2, <2>3 DEF Reading, Same
<1>6. IsFiniteSet(loaded)
  <2>1. S \in SUBSET table /\ DOMAIN f = S
    OBVIOUS
  <2>2. IsFiniteSet(S)
    BY <2>1, FS_Subset DEF TableInv, Finite
  <2> HIDE DEF S, f
  <2> QED BY <2>1, <2>2, FiniteImage
<1> HIDE DEF loaded
<1>7. /\ review'.date = v.date /\ review'.status = status /\ review'.phase = "loaded"
      /\ review'.rows = loaded /\ review'.deleted = {} /\ review'.withdrawn = {}
  BY <1>1
<1>8. TypeOK'
  <2>1. [date |-> v.date, status |-> status] \in Review
    BY DEF TableInv, TypeOK, Review
  <2>2. /\ source \in Seq(Reading) /\ table \subseteq Row /\ reviews \subseteq Review
        /\ import = None \/ import \in Seq(Row)
        /\ aborts \in 0 .. MaxAborts
    BY DEF TableInv, TypeOK
  <2> QED BY <2>1, <2>2, <1>1, <1>2, <1>3, <1>5, <1>7 DEF TypeOK
<1>9. Sourced' /\ DeltaBound' /\ ImportRows'
  BY <1>1 DEF TableInv, Sourced, DeltaBound, FromSource, Same, Filler,
              ImportRows, Actual, Within, Earlier
<1>10. Finite'
  BY <1>1, <1>6, <1>7 DEF TableInv, Finite
<1>11. RebuildRows'
  BY <1>1, <1>4, <1>7 DEF RebuildRows, Same
<1> QED BY <1>8, <1>9, <1>10, <1>11 DEF RestInv

LEMMA ReviewDeleteRest ==
  ASSUME TableInv, ReviewDelete
  PROVE  RestInv'
<1> DEFINE deleted == {r \in table : r.date >= review.date}
           withdrawn == {v \in reviews : /\ v.date >= review.date /\ v.date # review.date
                                         /\ v.status = "PENDING"}
<1> USE DEF data
<1>1. /\ review' = [date |-> review.date, status |-> review.status, phase |-> "deleted",
                    rows |-> review.rows, deleted |-> deleted, withdrawn |-> withdrawn]
      /\ review # None /\ review.phase = "loaded"
      /\ UNCHANGED <<source, table, reviews, import, overlapped, torn, changes, aborts>>
  BY DEF ReviewDelete, TableInv, IInv, ReviewShape
<1>2. /\ review'.date = review.date /\ review'.status = review.status
      /\ review'.phase = "deleted" /\ review'.rows = review.rows
      /\ review'.deleted = deleted /\ review'.withdrawn = withdrawn
  BY <1>1
<1>3. TypeOK'
  <2>1. /\ [date |-> review.date, status |-> review.status] \in Review
        /\ review.rows \subseteq Reading /\ deleted \subseteq Row /\ withdrawn \subseteq Review
    BY <1>1 DEF TableInv, TypeOK
  <2>2. /\ source \in Seq(Reading) /\ table \subseteq Row /\ reviews \subseteq Review
        /\ import = None \/ import \in Seq(Row)
        /\ overlapped \in BOOLEAN /\ torn \in BOOLEAN
        /\ changes \in 0 .. MaxReviews /\ aborts \in 0 .. MaxAborts
    BY DEF TableInv, TypeOK
  <2> HIDE DEF deleted, withdrawn
  <2> QED BY <2>1, <2>2, <1>1, <1>2 DEF TypeOK
<1>4. Sourced' /\ DeltaBound' /\ ImportRows'
  BY <1>1 DEF TableInv, Sourced, DeltaBound, FromSource, Same, Filler,
              ImportRows, Actual, Within, Earlier
<1>5. Finite'
  BY <1>1, <1>2 DEF TableInv, Finite
<1>6. RebuildRows'
  <2>1. ASSUME NEW x \in review.rows
        PROVE  \E t \in table : ~t.synthetic /\ Same(t, x) /\ t.date >= review.date
    BY <1>1 DEF TableInv, RebuildRows
  <2>2. ASSUME NEW x \in review.rows
        PROVE  \E t \in deleted : ~t.synthetic /\ Same(t, x)
    BY <2>1
  <2>3. deleted \subseteq table
    OBVIOUS
  <2> HIDE DEF deleted
  <2> QED BY <1>1, <1>2, <2>1, <2>2, <2>3 DEF RebuildRows, Same
<1> QED BY <1>3, <1>4, <1>5, <1>6 DEF RestInv

LEMMA ReviewCommitRest ==
  ASSUME TableInv, ReviewCommit
  PROVE  RestInv'
<1> DEFINE known == {[date |-> v.date,
                      status |-> IF v.date = review.date THEN review.status ELSE v.status] :
                     v \in reviews \ review.withdrawn}
           dates == OutlierDates(Rebuilt, ReviewOverrides)
<1>1. /\ review # None /\ review.phase = "deleted" /\ review' = None
      /\ UNCHANGED <<source, import, overlapped, changes, aborts>>
      /\ reviews' = UpsertReviews(known, dates)
  BY DEF ReviewCommit
<1>2. PreparedTells(Rebuilt, review.rows, ReviewTable)
  BY <1>1, RebuiltIs
<1>3. \A r \in table' : r \in ReviewTable \/ \E i \in 1 .. Len(Rebuilt) : r = Rebuilt[i]
  BY CommittedRows
<1>4. ReviewTable \subseteq table
  BY DEF ReviewTable
<1>5. ASSUME NEW i \in Actual(Rebuilt)
      PROVE  /\ \E t \in table \cap review.deleted : ~t.synthetic /\ Same(t, Rebuilt[i])
             /\ FromSource(Rebuilt[i]) /\ Rebuilt[i].date \in Date
             /\ Rebuilt[i].recid \in Nat
  <2>1. PICK t \in table \cap review.deleted : ~t.synthetic /\ Same(t, Rebuilt[i])
    BY <1>1, RebuiltWasDeleted
  <2>2. FromSource(t)
    BY <2>1 DEF TableInv, Sourced
  <2>3. source[t.recid] \in Reading
    BY <2>2 DEF FromSource, TableInv, TypeOK
  <2>4. Rebuilt[i].date = source[t.recid].date /\ FromSource(Rebuilt[i])
    BY <2>1, <2>2 DEF FromSource, Same
  <2>5. Rebuilt[i].recid \in Nat
    BY <2>1, <2>2 DEF FromSource, Same
  <2> QED BY <2>1, <2>3, <2>4, <2>5 DEF Reading
<1>6. ASSUME NEW i \in 1 .. Len(Rebuilt)
      PROVE  /\ Rebuilt[i] \in Row /\ Within(Rebuilt[i])
             /\ IF Rebuilt[i].synthetic THEN Filler(Rebuilt[i]) ELSE i \in Actual(Rebuilt)
  BY <1>2 DEF PreparedTells, Actual
<1>7. TypeOK'
  <2>1. dates \in SUBSET Date
    BY <1>5, <1>6, PayloadTyped DEF Actual
  <2>2. known \in SUBSET Review
    <3>1. reviews \subseteq Review /\ review.status \in Status
      BY <1>1 DEF TableInv, TypeOK, Review
    <3> QED BY <3>1 DEF Review
  <2>3. reviews' \in SUBSET Review
    <3> HIDE DEF dates, known
    <3> QED BY <1>1, <2>1, <2>2, UpsertTyped
  <2>4. table' \subseteq Row
    BY <1>3, <1>4, <1>6 DEF TableInv, TypeOK
  <2>5. /\ source \in Seq(Reading)
        /\ import = None \/ import \in Seq(Row)
        /\ overlapped \in BOOLEAN
        /\ changes \in 0 .. MaxReviews /\ aborts \in 0 .. MaxAborts
    BY DEF TableInv, TypeOK
  <2>6. torn' \in BOOLEAN
    BY DEF ReviewCommit, TableInv, TypeOK
  <2> QED BY <1>1, <2>3, <2>4, <2>5, <2>6 DEF TypeOK
<1>8. Sourced'
  <2>1. \A i \in 1 .. Len(source) : source[i].recid = i
    BY DEF TableInv, Sourced
  <2>2. ASSUME NEW r \in table'
        PROVE  IF r.synthetic THEN Filler(r) ELSE FromSource(r)
    <3>1. CASE r \in ReviewTable
      BY <3>1, <1>4 DEF TableInv, Sourced
    <3>2. ASSUME NEW i \in 1 .. Len(Rebuilt), r = Rebuilt[i]
          PROVE  IF r.synthetic THEN Filler(r) ELSE FromSource(r)
      BY <3>2, <1>5, <1>6
    <3> QED BY <3>1, <3>2, <1>3
  <2>3. ASSUME NEW r \in table', NEW s \in table', r.recid = s.recid, ~r.synthetic
        PROVE  r = s
    <3>1. ~s.synthetic
      BY <2>2, <2>3, ImportAssumption DEF Filler, FromSource, TableInv, TypeOK
    <3>2. CASE r \in ReviewTable /\ s \in ReviewTable
      BY <2>3, <3>2, <1>4 DEF TableInv, Sourced
    <3>3. ASSUME NEW x \in ReviewTable, NEW i \in Actual(Rebuilt)
          PROVE  x.recid # Rebuilt[i].recid
      <4>1. PICK t \in table \cap review.deleted : ~t.synthetic /\ Same(t, Rebuilt[i])
        BY <1>5
      <4>2. x \in table /\ x # t
        BY <1>4 DEF ReviewTable
      <4> QED BY <4>1, <4>2 DEF TableInv, Sourced, Same
    <3>4. ASSUME NEW i \in Actual(Rebuilt), NEW j \in Actual(Rebuilt),
                 r = Rebuilt[i], s = Rebuilt[j]
          PROVE  r = s
      BY <2>3, <3>4, <1>1, RebuiltOnce
    <3>5. r \in ReviewTable \/ \E i \in Actual(Rebuilt) : r = Rebuilt[i]
      BY <2>3, <1>3 DEF Actual
    <3>6. s \in ReviewTable \/ \E i \in Actual(Rebuilt) : s = Rebuilt[i]
      BY <3>1, <1>3 DEF Actual
    <3> QED BY <2>3, <3>2, <3>3, <3>4, <3>5, <3>6
  <2> QED BY <1>1, <2>1, <2>2, <2>3 DEF Sourced, FromSource, Same, Filler
<1>9. Finite'
  <2> DEFINE kept == ReviewTable \cup {Rebuilt[i] : i \in Actual(Rebuilt)}
             f == [i \in Actual(Rebuilt) |-> Rebuilt[i]]
  <2>1. table' = kept \cup InsertedInto(kept, Rebuilt)
    BY DEF ReviewCommit
  <2>2. IsFiniteSet(ReviewTable)
    BY <1>4, FS_Subset DEF TableInv, Finite
  <2>3. Rebuilt \in Seq(Row)
    BY <1>2 DEF PreparedTells
  <2>4. IsFiniteSet(Actual(Rebuilt))
    <3>1. IsFiniteSet(1 .. Len(Rebuilt)) /\ Actual(Rebuilt) \in SUBSET (1 .. Len(Rebuilt))
      BY <2>3, FS_Interval DEF Actual
    <3> QED BY <3>1, FS_Subset
  <2>5. IsFiniteSet({f[i] : i \in Actual(Rebuilt)})
    <3>1. DOMAIN f = Actual(Rebuilt)
      OBVIOUS
    <3> HIDE DEF f
    <3> QED BY <2>4, <3>1, FiniteImage
  <2>6. {f[i] : i \in Actual(Rebuilt)} = {Rebuilt[i] : i \in Actual(Rebuilt)}
    OBVIOUS
  <2>7. IsFiniteSet(kept)
    BY <2>2, <2>5, <2>6, FS_Union
  <2> HIDE DEF kept
  <2>8. IsFiniteSet(InsertedInto(kept, Rebuilt))
    BY <2>3, InsertedFinite
  <2>9. IsFiniteSet(table')
    BY <2>1, <2>7, <2>8, FS_Union
  <2> QED BY <1>1, <2>9 DEF Finite
<1>10. ImportRows'
  <2> SUFFICES ASSUME import # None, NEW k \in Actual(import), NEW r \in table'
               PROVE  r.recid # import[k].recid
    BY <1>1 DEF TableInv, ImportRows, Actual, Within, Filler, Earlier, FromSource, Same
  <2>1. \A t \in table : t.recid # import[k].recid
    BY DEF TableInv, ImportRows
  <2>2. CASE r \in ReviewTable
    BY <2>1, <2>2, <1>4
  <2>3. CASE \E i \in 1 .. Len(Rebuilt) : r = Rebuilt[i]
    <3>1. PICK i \in 1 .. Len(Rebuilt) : r = Rebuilt[i]
      BY <2>3
    <3>2. CASE ~r.synthetic
      <4>1. i \in Actual(Rebuilt)
        BY <3>1, <3>2 DEF Actual
      <4> QED BY <4>1, <3>1, <2>1, <1>5 DEF Same
    <3>3. CASE r.synthetic
      <4>1. r.recid = None
        BY <3>1, <3>3, <1>6 DEF Filler
      <4>2. import[k].recid \in 1 .. Len(source)
        BY DEF TableInv, ImportRows, FromSource
      <4> QED BY <4>1, <4>2, ImportAssumption
    <3> QED BY <3>2, <3>3
  <2> QED BY <2>2, <2>3, <1>3
<1>11. DeltaBound'
  BY <1>3, <1>4, <1>6 DEF TableInv, DeltaBound, Within
<1> QED BY <1>1, <1>7, <1>8, <1>9, <1>10, <1>11 DEF RestInv, RebuildRows

LEMMA NextTableInv == TableInv /\ [Next]_vars => TableInv'
<1> SUFFICES ASSUME TableInv, [Next]_vars PROVE TableInv'
  OBVIOUS
<1>1. IInv'
  BY NextIInv DEF TableInv
<1>2. RestInv'
  <2>1. CASE Next
    BY <2>1, ArriveRest, ImportReadRest, ImportCommitRest, ImportEndRest, ReviewLoadRest,
       ReviewDeleteRest, ReviewCommitRest, ReviewAbortRest DEF Next
  <2>2. CASE UNCHANGED vars
    BY <2>2, IdleRest
  <2> QED BY <2>1, <2>2
<1> QED BY <1>1, <1>2 DEF TableInv, RestInv

LEMMA InitTableInv == Init => TableInv
BY InitIInv, InitRest DEF TableInv, RestInv

LEMMA SpecTableInv == Spec => []TableInv
BY InitTableInv, NextTableInv, PTL DEF Spec

\* The tables and the two open transactions have their shapes, whatever the
\* detection, the gaps and the verdicts make of the readings.
THEOREM TypeCorrect == Spec => []TypeOK
<1>1. TableInv => TypeOK
  BY DEF TableInv
<1> QED BY <1>1, SpecTableInv, PTL

\* The plain insert of apply_outlier_review_update never violates uq_ident_date_zdroj:
\* a measurement that goes back was a row, and neither the rows that stayed nor those
\* that an import has added beside the rebuild have its date.
THEOREM SpecRebuildFits == Spec => []RebuildFits
<1>1. TableInv => RebuildFits
  BY FitsBack DEF RebuildFits
<1> QED BY <1>1, SpecTableInv, PTL

\* The delta that closes a gap is what the filled slots left of it, and the mean was
\* rounded: it is below zero by half a unit for each slot at the most.
THEOREM SpecDeltaBound == Spec => []DeltaBound
<1>1. TableInv => DeltaBound
  BY DEF TableInv
<1> QED BY <1>1, SpecTableInv, PTL

\* No reading becomes two rows, of any import or rebuild.
LEMMA SpecRowsAreReadings == Spec => []Sourced
<1>1. TableInv => Sourced
  BY DEF TableInv
<1> QED BY <1>1, SpecTableInv, PTL

-----------------------------------------------------------------------------
(***************************************************************************)
(* Readings in order, and no rebuild beside an import: nothing is lost,    *)
(* and the deltas count.                                                   *)
(***************************************************************************)
Increasing ==
  \A i \in 1 .. Len(source) : \A j \in 1 .. i - 1 : source[j].date < source[i].date

LEMMA SourceTyped ==
  ASSUME TypeOK, NEW i \in 1 .. Len(source)
  PROVE  source[i] \in Reading /\ source[i].date \in Nat
<1>1. source[i] \in Reading
  BY DEF TypeOK
<1> QED BY <1>1, ImportAssumption DEF Reading

LEMMA NextCursor == TypeOK' /\ Sourced' => (Cursor \in 0 .. Len(source))'
<1>1. TypeOK /\ Sourced => Cursor \in 0 .. Len(source)
  BY CursorIs
<1> QED BY <1>1, PTL

LEMMA NextCursorIsRow ==
  TypeOK' /\ Sourced' =>
    (Cursor # 0 => \E r \in table : ~r.synthetic /\ r.recid = Cursor)'
<1>1. TypeOK /\ Sourced => (Cursor # 0 => \E r \in table : ~r.synthetic /\ r.recid = Cursor)
  BY CursorIs
<1> QED BY <1>1, PTL

LEMMA NoneIsLate ==
  ASSUME TypeOK, LateReadings = 0
  PROVE  Increasing
<1> DEFINE L == {i \in DOMAIN source : \E j \in 1 .. i - 1 : source[i].date <= source[j].date}
<1>1. Len(source) \in Nat /\ DOMAIN source = 1 .. Len(source)
  BY DEF TypeOK
<1>2. IsFiniteSet(1 .. Len(source)) /\ L \in SUBSET (1 .. Len(source))
  BY <1>1, FS_Interval
<1>3. L = {}
  <2>1. Cardinality(L) = 0
    BY DEF LateReadings
  <2> HIDE DEF L
  <2> QED BY <1>2, <2>1, FS_Subset, FS_EmptySet
<1>4. \A i \in 1 .. Len(source) : source[i].date \in Nat
  BY SourceTyped
<1>5. ASSUME NEW i \in 1 .. Len(source), NEW j \in 1 .. i - 1
      PROVE  source[j].date < source[i].date
  <2>1. ~(source[i].date <= source[j].date)
    BY <1>1, <1>3
  <2>2. j \in 1 .. Len(source)
    BY <1>1
  <2> QED BY <2>1, <2>2, <1>4
<1> QED BY <1>5 DEF Increasing

LEMMA OnlyTheLastIsLate ==
  ASSUME TypeOK, NEW r, source' = Append(source, r), LateReadings' = 0
  PROVE  LateReadings = 0
<1> DEFINE L == {i \in DOMAIN source : \E j \in 1 .. i - 1 : source[i].date <= source[j].date}
           M == {i \in DOMAIN source' : \E j \in 1 .. i - 1 : source'[i].date <= source'[j].date}
<1>1. /\ Len(source) \in Nat /\ DOMAIN source = 1 .. Len(source)
      /\ DOMAIN source' = 1 .. Len(source) + 1
      /\ \A i \in 1 .. Len(source) : source'[i] = source[i]
  BY DEF TypeOK
<1>2. IsFiniteSet(1 .. Len(source) + 1) /\ M \in SUBSET (1 .. Len(source) + 1)
  BY <1>1, FS_Interval
<1>3. M = {}
  <2>1. Cardinality(M) = 0
    BY DEF LateReadings
  <2> HIDE DEF M
  <2> QED BY <1>2, <2>1, FS_Subset, FS_EmptySet
<1>4. ASSUME NEW i \in L PROVE i \in M
  <2>1. i \in 1 .. Len(source)
    BY <1>1
  <2>2. PICK j \in 1 .. i - 1 : source[i].date <= source[j].date
    OBVIOUS
  <2>3. j \in 1 .. Len(source)
    BY <1>1, <2>1
  <2> QED BY <1>1, <2>1, <2>2, <2>3
<1>5. L = {}
  BY <1>3, <1>4
<1>6. LateReadings = Cardinality(L)
  BY DEF LateReadings
<1> QED BY <1>5, <1>6, FS_EmptySet

\* Every reading up to the cursor is a row, or was zero.
ReadingsAreRows ==
  \A i \in 1 .. Cursor : source[i].objem = 0 \/ \E r \in table : r.recid = i

\* Behind a row that fills a slot comes a reading that is not zero.
FillersArePassed ==
  \A s \in table : s.synthetic =>
    \E t \in table : ~t.synthetic /\ s.date < t.date /\ t.objem # 0

\* An import is alone, and has prepared all that is new.
ImportAlone ==
  import # None => review = None /\ import = Prepared(NewReadings, table, {})

\* A rebuild is alone, and has loaded every reading that it deletes.
RebuildAlone ==
  review # None =>
    /\ import = None
    /\ \A t \in table : ~t.synthetic /\ t.date >= review.date =>
         \E x \in review.rows : Same(t, x)
    /\ review.phase = "deleted" =>
         review.deleted = {r \in table : r.date >= review.date}

CompleteParts ==
  /\ ReadingsAreRows /\ FillersArePassed /\ Chained(table)
  /\ ImportAlone /\ RebuildAlone
Complete == Undisturbed => CompleteParts

LEMMA ImportTells ==
  ASSUME TableInv, ImportAlone, import # None
  PROVE  PreparedTells(import, NewReadings, table)
BY NewReadingsAre, PreparedIs DEF ImportAlone, TableInv, TypeOK, Finite

\* Readings in order are later than all rows of the table, and than each other.
LEMMA NewAreLater ==
  ASSUME TableInv, Increasing, FillersArePassed
  PROVE  /\ \A x, y \in NewReadings : x.recid = y.recid \/ x.date = y.date => x = y
         /\ \A r \in table : \A x \in NewReadings : r.date < x.date
<1>1. /\ Cursor \in 0 .. Len(source) /\ Len(source) \in Nat
      /\ \A r \in table : ~r.synthetic => r.recid \in 1 .. Cursor
  BY CursorIs DEF TableInv
<1>2. ASSUME NEW x \in NewReadings
      PROVE  /\ x.recid \in Cursor + 1 .. Len(source) /\ x.recid \in 1 .. Len(source)
             /\ x = source[x.recid] /\ x.date \in Nat
  <2>1. PICK i \in Cursor + 1 .. Len(source) : x = source[i]
    BY DEF NewReadings
  <2>2. i \in 1 .. Len(source)
    BY <1>1
  <2>3. x.recid = i /\ x.date \in Nat
    BY <2>1, <2>2, SourceTyped DEF TableInv, Sourced
  <2> QED BY <2>1, <2>2, <2>3
<1>3. ASSUME NEW x \in NewReadings, NEW y \in NewReadings, x.recid # y.recid
      PROVE  x.date # y.date
  <2> DEFINE a == x.recid
             b == y.recid
  <2>1. /\ a \in 1 .. Len(source) /\ x.date = source[a].date /\ x.date \in Nat
        /\ b \in 1 .. Len(source) /\ y.date = source[b].date /\ y.date \in Nat
    BY <1>2
  <2>2. a # b
    BY <1>3
  <2> HIDE DEF a, b
  <2>3. b \in 1 .. a - 1 \/ a \in 1 .. b - 1
    BY <2>1, <2>2, <1>1
  <2>4. source[b].date < source[a].date \/ source[a].date < source[b].date
    BY <2>1, <2>3 DEF Increasing
  <2> QED BY <2>1, <2>4
<1>4. \A r \in table : r.date \in Nat
  BY DEF TableInv, TypeOK, Row
<1>5. ASSUME NEW r \in table, ~r.synthetic, NEW x \in NewReadings
      PROVE  r.date < x.date
  <2>1. r.recid \in 1 .. Cursor /\ r.date = source[r.recid].date
    BY <1>1, <1>5 DEF TableInv, Sourced, FromSource, Same
  <2>2. x.recid \in 1 .. Len(source) /\ r.recid \in 1 .. x.recid - 1 /\ x.date = source[x.recid].date
    BY <2>1, <1>1, <1>2
  <2> QED BY <2>1, <2>2 DEF Increasing
<1>6. ASSUME NEW r \in table, r.synthetic, NEW x \in NewReadings
      PROVE  r.date < x.date
  <2>1. PICK t \in table : ~t.synthetic /\ r.date < t.date
    BY <1>6 DEF FillersArePassed
  <2> QED BY <2>1, <1>2, <1>4, <1>5
<1> QED BY <1>2, <1>3, <1>5, <1>6

\* An undisturbed import inserts all that it has prepared, and leaves a chain.
LEMMA AllImported ==
  ASSUME TableInv, Increasing, CompleteParts, import # None
  PROVE  InsertedInto(table, import) = Range(import) /\ Chained(table \cup Range(import))
<1>1. /\ \A x, y \in NewReadings : x.recid = y.recid \/ x.date = y.date => x = y
      /\ \A r \in table : \A x \in NewReadings : r.date < x.date
  BY NewAreLater DEF CompleteParts
<1>2. /\ NewReadings \in SUBSET Reading /\ IsFiniteSet(NewReadings)
      /\ table \in SUBSET Row /\ IsFiniteSet(table) /\ Chained(table)
  BY NewReadingsAre DEF TableInv, TypeOK, Finite, CompleteParts
<1>3. import = Prepared(NewReadings, table, {})
  BY DEF CompleteParts, ImportAlone
<1>4. Chained(table \cup Range(import)) /\ DatesDiffer(import)
  BY <1>1, <1>2, <1>3, PreparedCounts
<1>5. PreparedTells(import, NewReadings, table)
  BY ImportTells DEF CompleteParts
<1>6. ASSUME NEW r \in table, NEW k \in 1 .. Len(import) PROVE r.date # import[k].date
  <2>1. CASE k \in Actual(import)
    <3>1. PICK x \in NewReadings : Same(import[k], x)
      BY <1>5, <2>1 DEF PreparedTells
    <3>2. r.date \in Nat /\ r.date < import[k].date
      BY <1>1, <1>2, <3>1 DEF Same, Row
    <3> QED BY <3>2
  <2>2. CASE k \notin Actual(import)
    BY <1>5, <2>2 DEF PreparedTells
  <2> QED BY <2>1, <2>2
<1>7. InsertedInto(table, import) = Range(import)
  BY <1>4, <1>5, <1>6, AllInserted DEF PreparedTells
<1> QED BY <1>4, <1>7

LEMMA ImportCommitComplete ==
  ASSUME TableInv, Complete, ImportCommit, TableInv'
  PROVE  Complete'
<1> SUFFICES ASSUME Undisturbed' PROVE CompleteParts'
  BY DEF Complete
<1> DEFINE new == InsertedInto(table, import)
<1>1. /\ table' = table \cup new /\ import # None /\ import' = None
      /\ UNCHANGED <<source, review, overlapped>>
  BY DEF ImportCommit
<1>2. Undisturbed /\ LateReadings = 0
  BY <1>1 DEF Undisturbed, LateReadings
<1>3. Increasing
  BY <1>2, NoneIsLate DEF TableInv
<1>4. review = None /\ PreparedTells(import, NewReadings, table)
  BY <1>1, <1>2, ImportTells DEF Complete, CompleteParts, ImportAlone
<1>5. new = Range(import) /\ Chained(table \cup new)
  BY <1>1, <1>2, <1>3, AllImported DEF Complete
<1>6. \A k \in Actual(import) : import[k] \in new
  BY <1>5 DEF Actual, Range
<1>7. Cursor' \in 0 .. Len(source)
  BY <1>1, NextCursor DEF TableInv
<1> HIDE DEF new
<1>8. ASSUME NEW i \in 1 .. Cursor'
      PROVE  source[i].objem = 0 \/ \E r \in table' : r.recid = i
  <2>1. Cursor \in 0 .. Len(source) /\ Len(source) \in Nat
    BY CursorIs DEF TableInv
  <2>2. CASE i \in 1 .. Cursor
    BY <1>1, <1>2, <2>2 DEF Complete, CompleteParts, ReadingsAreRows, FillersArePassed, ImportAlone
  <2>3. CASE i \notin 1 .. Cursor /\ source[i].objem # 0
    <3>1. i \in Cursor + 1 .. Len(source)
      BY <1>7, <2>1, <2>3
    <3>2. source[i] \in NewReadings /\ source[i].recid = i
      BY <3>1, <2>1 DEF NewReadings, TableInv, Sourced
    <3>3. PICK k \in Actual(import) : Same(import[k], source[i])
      BY <1>4, <2>3, <3>2 DEF PreparedTells
    <3> QED BY <1>1, <1>6, <3>2, <3>3 DEF Same
  <2> QED BY <2>2, <2>3
<1>9. ASSUME NEW s \in table', s.synthetic
      PROVE  \E t \in table' : ~t.synthetic /\ s.date < t.date /\ t.objem # 0
  <2>1. CASE s \in table
    BY <1>1, <1>2, <1>9, <2>1 DEF Complete, CompleteParts, ReadingsAreRows, FillersArePassed, ImportAlone
  <2>2. CASE s \in new
    <3>1. PICK k \in 1 .. Len(import) : s = import[k]
      BY <2>2, InsertedIsPrepared DEF new
    <3>2. k \notin Actual(import)
      BY <3>1, <1>9 DEF Actual
    <3>3. PICK l \in Actual(import) : s.date < import[l].date /\ import[l].objem # 0
      BY <1>4, <3>1, <3>2 DEF PreparedTells
    <3> QED BY <1>1, <1>6, <3>3 DEF Actual
  <2> QED BY <1>1, <2>1, <2>2
<1>10. ReadingsAreRows' /\ FillersArePassed' /\ Chained(table')
  BY <1>1, <1>5, <1>8, <1>9 DEF ReadingsAreRows, FillersArePassed
<1>11. ImportAlone' /\ RebuildAlone'
  BY <1>1, <1>4 DEF ImportAlone, RebuildAlone
<1> QED BY <1>10, <1>11 DEF CompleteParts

LEMMA InitComplete == Init => Complete
<1> SUFFICES ASSUME Init PROVE CompleteParts
  BY DEF Complete
<1>1. Cursor = 0
  BY DEF Init, Cursor
<1> QED BY <1>1 DEF Init, CompleteParts, ReadingsAreRows, FillersArePassed, Chained,
                    ImportAlone, RebuildAlone

LEMMA ArriveComplete ==
  ASSUME TableInv, Complete, NEW date \in Date, NEW objem \in Objem, Arrive(date, objem)
  PROVE  Complete'
<1> SUFFICES ASSUME Undisturbed' PROVE CompleteParts'
  BY DEF Complete
<1> DEFINE r == [recid |-> Len(source) + 1, date |-> date, objem |-> objem]
<1>1. /\ source' = Append(source, r)
      /\ import = None /\ review = None
      /\ UNCHANGED <<table, import, review, overlapped>>
  BY DEF Arrive
<1>2. Undisturbed
  <2>1. LateReadings' = 0 /\ ~overlapped
    BY <1>1 DEF Undisturbed
  <2> HIDE DEF r
  <2>2. LateReadings = 0
    BY <1>1, <2>1, OnlyTheLastIsLate DEF TableInv
  <2> QED BY <2>1, <2>2 DEF Undisturbed
<1>3. Cursor \in 0 .. Len(source) /\ Cursor' = Cursor
  BY <1>1, CursorIs DEF TableInv, Cursor
<1>4. ReadingsAreRows'
  <2>1. \A i \in 1 .. Cursor : source'[i] = source[i]
    BY <1>1, <1>3 DEF TableInv, TypeOK
  <2> QED BY <1>1, <1>2, <1>3, <2>1 DEF Complete, CompleteParts, ReadingsAreRows
<1>5. FillersArePassed' /\ Chained(table')
  BY <1>1, <1>2 DEF Complete, CompleteParts, FillersArePassed
<1> QED BY <1>1, <1>4, <1>5 DEF CompleteParts, ImportAlone, RebuildAlone

\* A step that leaves source and table alone.
LEMMA TableStays ==
  ASSUME Complete, UNCHANGED <<source, table>>, Undisturbed
  PROVE  /\ ReadingsAreRows' /\ FillersArePassed' /\ Chained(table')
         /\ NewReadings' = NewReadings
<1>1. Cursor' = Cursor
  BY DEF Cursor
<1>2. ReadingsAreRows'
  BY <1>1 DEF Complete, CompleteParts, ReadingsAreRows
<1>3. FillersArePassed' /\ Chained(table')
  BY DEF Complete, CompleteParts, FillersArePassed
<1> QED BY <1>1, <1>2, <1>3 DEF NewReadings

LEMMA ImportReadComplete ==
  ASSUME TableInv, Complete, ImportRead
  PROVE  Complete'
<1> SUFFICES ASSUME Undisturbed' PROVE CompleteParts'
  BY DEF Complete
<1>1. /\ import' = Prepared(NewReadings, table, {})
      /\ UNCHANGED <<source, table, review>>
      /\ overlapped' = (overlapped \/ review # None)
  BY DEF ImportRead, data
<1>2. Undisturbed /\ review = None
  BY <1>1 DEF Undisturbed, LateReadings
<1>3. /\ ReadingsAreRows' /\ FillersArePassed' /\ Chained(table')
      /\ NewReadings' = NewReadings
  BY <1>1, <1>2, TableStays
<1>4. ImportAlone'
  BY <1>1, <1>2, <1>3 DEF ImportAlone
<1> QED BY <1>1, <1>2, <1>3, <1>4 DEF CompleteParts, RebuildAlone

LEMMA ImportEndComplete ==
  ASSUME TableInv, Complete, ImportRollBack \/ ImportAbort
  PROVE  Complete'
<1> SUFFICES ASSUME Undisturbed' PROVE CompleteParts'
  BY DEF Complete
<1>1. /\ import # None /\ import' = None
      /\ UNCHANGED <<source, table, review, overlapped>>
  BY DEF ImportRollBack, ImportAbort, data
<1>2. Undisturbed
  BY <1>1 DEF Undisturbed, LateReadings
<1>3. ReadingsAreRows' /\ FillersArePassed' /\ Chained(table')
  BY <1>1, <1>2, TableStays
<1>4. review = None
  BY <1>1, <1>2 DEF Complete, CompleteParts, ImportAlone
<1> QED BY <1>1, <1>3, <1>4 DEF CompleteParts, ImportAlone, RebuildAlone

LEMMA ReviewLoadComplete ==
  ASSUME TableInv, Complete, NEW v \in reviews, NEW status \in Status, ReviewLoad(v, status)
  PROVE  Complete'
<1> SUFFICES ASSUME Undisturbed' PROVE CompleteParts'
  BY DEF Complete
<1> DEFINE S == {s \in table : ~s.synthetic /\ s.date >= v.date}
           loaded == {[recid |-> r.recid, date |-> r.date, objem |-> r.objem] : r \in S}
<1>1. \A t \in S : \E x \in loaded : Same(t, x)
  <2> SUFFICES ASSUME NEW t \in S PROVE \E x \in loaded : Same(t, x)
    OBVIOUS
  <2> DEFINE x0 == [recid |-> t.recid, date |-> t.date, objem |-> t.objem]
  <2>1. x0 \in loaded /\ Same(t, x0)
    BY DEF Same
  <2> QED BY <2>1
<1>2. /\ review' = [date |-> v.date, status |-> status, phase |-> "loaded",
                    rows |-> loaded, deleted |-> {}, withdrawn |-> {}]
      /\ UNCHANGED <<source, table, import>>
      /\ overlapped' = (overlapped \/ import # None)
  <2> HIDE DEF loaded
  <2> QED BY DEF ReviewLoad, data, loaded
<1> HIDE DEF loaded
<1>3. Undisturbed /\ import = None
  BY <1>2 DEF Undisturbed, LateReadings
<1>4. ReadingsAreRows' /\ FillersArePassed' /\ Chained(table')
  BY <1>2, <1>3, TableStays
<1>5. review'.rows = loaded /\ review'.phase = "loaded" /\ review'.date = v.date
  BY <1>2
<1>6. RebuildAlone'
  BY <1>1, <1>2, <1>3, <1>5 DEF RebuildAlone, Same
<1> QED BY <1>2, <1>3, <1>4, <1>6 DEF CompleteParts, ImportAlone

LEMMA ReviewDeleteComplete ==
  ASSUME TableInv, Complete, ReviewDelete
  PROVE  Complete'
<1> SUFFICES ASSUME Undisturbed' PROVE CompleteParts'
  BY DEF Complete
<1> DEFINE deleted == {r \in table : r.date >= review.date}
           withdrawn == {v \in reviews : /\ v.date >= review.date /\ v.date # review.date
                                         /\ v.status = "PENDING"}
<1>1. /\ review' = [date |-> review.date, status |-> review.status, phase |-> "deleted",
                    rows |-> review.rows, deleted |-> deleted, withdrawn |-> withdrawn]
      /\ review # None
      /\ UNCHANGED <<source, table, import, overlapped>>
  BY DEF ReviewDelete, TableInv, IInv, ReviewShape, data
<1>2. Undisturbed
  BY <1>1 DEF Undisturbed, LateReadings
<1>3. ReadingsAreRows' /\ FillersArePassed' /\ Chained(table')
  BY <1>1, <1>2, TableStays
<1>4. /\ import = None
      /\ \A t \in table : ~t.synthetic /\ t.date >= review.date =>
           \E x \in review.rows : Same(t, x)
  BY <1>1, <1>2 DEF Complete, CompleteParts, RebuildAlone
<1>5. review'.date = review.date /\ review'.rows = review.rows /\ review'.deleted = deleted
  BY <1>1
<1>6. RebuildAlone'
  BY <1>1, <1>4, <1>5 DEF RebuildAlone, Same
<1> QED BY <1>1, <1>3, <1>4, <1>6 DEF CompleteParts, ImportAlone

LEMMA ReviewAbortComplete ==
  ASSUME TableInv, Complete, ReviewAbort
  PROVE  Complete'
<1> SUFFICES ASSUME Undisturbed' PROVE CompleteParts'
  BY DEF Complete
<1>1. /\ review # None /\ review' = None
      /\ UNCHANGED <<source, table, import, overlapped>>
  BY DEF ReviewAbort, data
<1>2. Undisturbed
  BY <1>1 DEF Undisturbed, LateReadings
<1>3. ReadingsAreRows' /\ FillersArePassed' /\ Chained(table')
  BY <1>1, <1>2, TableStays
<1>4. import = None
  BY <1>1, <1>2 DEF Complete, CompleteParts, RebuildAlone
<1> QED BY <1>1, <1>3, <1>4 DEF CompleteParts, ImportAlone, RebuildAlone

\* An undisturbed rebuild goes on from the rows before its date, with readings that
\* are all later.
LEMMA RebuildFrom ==
  ASSUME TableInv, CompleteParts, ReviewCommit
  PROVE  /\ review.date \in Nat /\ ReviewTable = {r \in table : r.date < review.date}
         /\ ReviewTable \in SUBSET Row /\ IsFiniteSet(ReviewTable) /\ Chained(ReviewTable)
         /\ review.rows \in SUBSET Reading /\ IsFiniteSet(review.rows)
         /\ \A x, y \in review.rows : x.recid = y.recid \/ x.date = y.date => x = y
         /\ \A r \in ReviewTable : \A x \in review.rows : r.date < x.date
<1>1. review # None /\ review.phase = "deleted"
  BY DEF ReviewCommit
<1>2. review.deleted = {r \in table : r.date >= review.date}
  BY <1>1 DEF CompleteParts, RebuildAlone
<1>3. table \in SUBSET Row /\ IsFiniteSet(table) /\ \A r \in table : r.date \in Nat
  BY DEF TableInv, TypeOK, Finite, Row
<1>4. review.date \in Nat
  BY <1>1, ImportAssumption DEF TableInv, TypeOK, Review
<1>5. ReviewTable = {r \in table : r.date < review.date}
  BY <1>2, <1>3, <1>4 DEF ReviewTable
<1>6. ReviewTable \in SUBSET Row /\ IsFiniteSet(ReviewTable) /\ Chained(ReviewTable)
  BY <1>3, <1>4, <1>5, ChainCut, FS_Subset DEF CompleteParts
<1>7. ASSUME NEW x \in review.rows
      PROVE  x.date >= review.date /\ x.date \in Nat
             /\ \E t \in table : ~t.synthetic /\ Same(t, x)
  BY <1>1, <1>3 DEF TableInv, RebuildRows, Same
<1>8. \A r \in ReviewTable : \A x \in review.rows : r.date < x.date
  BY <1>3, <1>4, <1>5, <1>7
<1>9. ASSUME NEW x \in review.rows, NEW y \in review.rows,
             x.recid = y.recid \/ x.date = y.date
      PROVE  x = y
  <2>1. PICK t \in table : ~t.synthetic /\ Same(t, x)
    BY <1>7
  <2>2. PICK u \in table : ~u.synthetic /\ Same(u, y)
    BY <1>7
  <2>3. t = u
    BY <1>9, <2>1, <2>2 DEF TableInv, IInv, OneRowPerDate, Sourced, Same
  <2> QED BY <1>1, <2>1, <2>2, <2>3, LoadedAre DEF Same, Singled
<1> QED BY <1>1, <1>4, <1>5, <1>6, <1>8, <1>9, LoadedAre

\* An undisturbed rebuild leaves the rows before its date and all that it has
\* prepared, and a chain.
LEMMA AllRebuilt ==
  ASSUME TableInv, CompleteParts, ReviewCommit
  PROVE  table' = ReviewTable \cup Range(Rebuilt) /\ Chained(table')
<1> DEFINE back == {Rebuilt[i] : i \in Actual(Rebuilt)}
           kept == ReviewTable \cup back
<1>1. /\ review # None /\ review.phase = "deleted"
      /\ table' = kept \cup InsertedInto(kept, Rebuilt)
  BY DEF ReviewCommit
<1>10. Chained(ReviewTable \cup Range(Rebuilt)) /\ DatesDiffer(Rebuilt)
  BY RebuildFrom, PreparedCounts DEF Rebuilt
<1>11. PreparedTells(Rebuilt, review.rows, ReviewTable)
  BY <1>1, RebuiltIs
<1>12. DOMAIN Rebuilt = 1 .. Len(Rebuilt) /\ Len(Rebuilt) \in Nat
  BY <1>11 DEF PreparedTells
<1>13. ASSUME NEW r \in table' PROVE r \in ReviewTable \cup Range(Rebuilt)
  BY <1>12, CommittedRows DEF Range
<1>14. ASSUME NEW k \in 1 .. Len(Rebuilt) PROVE Rebuilt[k] \in table'
  <2>1. CASE k \in Actual(Rebuilt)
    BY <1>1, <2>1
  <2>2. CASE k \notin Actual(Rebuilt)
    <3>1. \A r \in kept : r.date # Rebuilt[k].date
      BY <1>11, <2>2 DEF PreparedTells
    <3>2. \A j \in 1 .. k - 1 : Rebuilt[j].date # Rebuilt[k].date
      BY <1>10, <1>12 DEF DatesDiffer
    <3> HIDE DEF kept
    <3>3. Rebuilt[k] \in InsertedInto(kept, Rebuilt)
      BY <3>1, <3>2 DEF InsertedInto
    <3> QED BY <1>1, <3>3
  <2> QED BY <2>1, <2>2
<1>15. ReviewTable \subseteq table'
  BY <1>1
<1>16. table' = ReviewTable \cup Range(Rebuilt)
  BY <1>12, <1>13, <1>14, <1>15 DEF Range
<1> QED BY <1>10, <1>16

LEMMA ReviewCommitComplete ==
  ASSUME TableInv, Complete, ReviewCommit, TableInv'
  PROVE  Complete'
<1> SUFFICES ASSUME Undisturbed' PROVE CompleteParts'
  BY DEF Complete
<1> DEFINE back == {Rebuilt[i] : i \in Actual(Rebuilt)}
           kept == ReviewTable \cup back
<1>1. /\ review # None /\ review.phase = "deleted" /\ review' = None
      /\ table' = kept \cup InsertedInto(kept, Rebuilt)
      /\ UNCHANGED <<source, import, overlapped>>
  BY DEF ReviewCommit
<1>2. Undisturbed
  BY <1>1 DEF Undisturbed, LateReadings
<1>3. /\ import = None
      /\ \A t \in table : ~t.synthetic /\ t.date >= review.date =>
           \E x \in review.rows : Same(t, x)
      /\ review.deleted = {r \in table : r.date >= review.date}
  BY <1>1, <1>2 DEF Complete, CompleteParts, RebuildAlone
<1>4. PreparedTells(Rebuilt, review.rows, ReviewTable)
  BY <1>1, RebuiltIs
<1>5. \A i \in Actual(Rebuilt) : Rebuilt[i] \in table' /\ ~Rebuilt[i].synthetic
  BY <1>1 DEF Actual
<1>6. ReviewTable \subseteq table'
  BY <1>1
<1> HIDE DEF kept, back
<1>7. ASSUME NEW t \in table, ~t.synthetic, t.objem # 0
      PROVE  \E r \in table' : Same(r, t) /\ ~r.synthetic
  <2>1. CASE t \notin review.deleted
    BY <1>6, <1>7, <2>1 DEF ReviewTable, Same
  <2>2. CASE t \in review.deleted
    <3>1. PICK x \in review.rows : Same(t, x)
      BY <1>3, <1>7, <2>2
    <3>2. PICK i \in Actual(Rebuilt) : Same(Rebuilt[i], x)
      BY <1>4, <1>7, <3>1 DEF PreparedTells, Same
    <3> QED BY <1>5, <3>1, <3>2 DEF Same
  <2> QED BY <2>1, <2>2
<1>8. Cursor' \in 0 .. Cursor
  <2>1. Cursor' \in 0 .. Len(source)
    BY <1>1, NextCursor DEF TableInv
  <2>2. /\ Cursor \in 0 .. Len(source) /\ Len(source) \in Nat
        /\ \A r \in table : ~r.synthetic => r.recid \in 1 .. Cursor
    BY CursorIs DEF TableInv
  <2>3. CASE Cursor' = 0
    BY <2>2, <2>3
  <2>4. CASE Cursor' # 0
    <3>1. PICK r \in table' : ~r.synthetic /\ r.recid = Cursor'
      BY <2>4, NextCursorIsRow DEF TableInv
    <3>2. CASE r \in ReviewTable
      BY <2>1, <2>2, <3>1, <3>2 DEF ReviewTable
    <3>3. CASE r \notin ReviewTable
      <4>1. PICK i \in 1 .. Len(Rebuilt) : r = Rebuilt[i]
        BY <3>3, CommittedRows
      <4>2. i \in Actual(Rebuilt)
        BY <3>1, <4>1 DEF Actual
      <4>3. PICK t \in table : ~t.synthetic /\ Same(t, Rebuilt[i])
        BY <1>1, <4>2, RebuiltWasDeleted
      <4>4. t.recid = Cursor' /\ t.recid \in 1 .. Cursor
        BY <3>1, <4>1, <4>3, <2>2 DEF Same
      <4> QED BY <4>4, <2>1, <2>2
    <3> QED BY <3>2, <3>3
  <2> QED BY <2>3, <2>4
<1>9. ASSUME NEW i \in 1 .. Cursor', source[i].objem # 0
      PROVE  \E r \in table' : r.recid = i
  <2>1. Cursor \in 0 .. Len(source) /\ Len(source) \in Nat
    BY CursorIs DEF TableInv
  <2>2. i \in 1 .. Cursor /\ i \in Nat
    BY <1>8, <2>1
  <2>3. PICK t \in table : t.recid = i
    BY <1>2, <1>9, <2>2 DEF Complete, CompleteParts, ReadingsAreRows
  <2>4. ~t.synthetic
    BY <2>2, <2>3, ImportAssumption DEF TableInv, Sourced, Filler
  <2>5. t.objem = source[i].objem
    BY <2>3, <2>4 DEF TableInv, Sourced, FromSource, Same
  <2> QED BY <1>7, <1>9, <2>3, <2>4, <2>5 DEF Same
<1>10. ASSUME NEW s \in table', s.synthetic
       PROVE  \E t \in table' : ~t.synthetic /\ s.date < t.date /\ t.objem # 0
  <2>1. CASE s \in ReviewTable
    <3>1. PICK t \in table : ~t.synthetic /\ s.date < t.date /\ t.objem # 0
      BY <1>2, <1>10, <2>1 DEF ReviewTable, Complete, CompleteParts, FillersArePassed
    <3>2. PICK r \in table' : Same(r, t) /\ ~r.synthetic
      BY <1>7, <3>1
    <3> QED BY <3>1, <3>2 DEF Same
  <2>2. CASE s \notin ReviewTable
    <3>1. PICK k \in 1 .. Len(Rebuilt) : s = Rebuilt[k]
      BY <2>2, CommittedRows
    <3>2. k \notin Actual(Rebuilt)
      BY <1>10, <3>1 DEF Actual
    <3>3. PICK l \in Actual(Rebuilt) : s.date < Rebuilt[l].date /\ Rebuilt[l].objem # 0
      BY <1>4, <3>1, <3>2 DEF PreparedTells
    <3> QED BY <1>5, <3>3
  <2> QED BY <2>1, <2>2
<1>11. ReadingsAreRows' /\ FillersArePassed' /\ Chained(table')
  BY <1>1, <1>2, <1>9, <1>10, AllRebuilt DEF ReadingsAreRows, FillersArePassed, Complete
<1> QED BY <1>1, <1>3, <1>11 DEF CompleteParts, ImportAlone, RebuildAlone

LEMMA NextComplete == TableInv /\ Complete /\ [Next]_vars /\ TableInv' => Complete'
<1> SUFFICES ASSUME TableInv, Complete, [Next]_vars, TableInv' PROVE Complete'
  OBVIOUS
<1>1. CASE Next
  BY <1>1, ArriveComplete, ImportReadComplete, ImportCommitComplete, ImportEndComplete,
     ReviewLoadComplete, ReviewDeleteComplete, ReviewCommitComplete, ReviewAbortComplete
     DEF Next
<1>2. CASE UNCHANGED vars
  <2>1. UNCHANGED <<source, table, import, review, overlapped>>
    BY <1>2 DEF vars, data
  <2> SUFFICES ASSUME Undisturbed' PROVE CompleteParts'
    BY DEF Complete
  <2>2. Undisturbed
    BY <2>1 DEF Undisturbed, LateReadings
  <2>3. /\ ReadingsAreRows' /\ FillersArePassed' /\ Chained(table')
        /\ NewReadings' = NewReadings
    BY <2>1, <2>2, TableStays
  <2>4. ImportAlone'
    BY <2>1, <2>2, <2>3 DEF Complete, CompleteParts, ImportAlone
  <2>5. RebuildAlone'
    BY <2>1, <2>2 DEF Complete, CompleteParts, RebuildAlone, Same
  <2> QED BY <2>3, <2>4, <2>5 DEF CompleteParts
<1> QED BY <1>1, <1>2

LEMMA SpecComplete == Spec => [](TableInv /\ Complete)
<1>1. Init => TableInv /\ Complete
  BY InitTableInv, InitComplete
<1>2. (TableInv /\ Complete) /\ [Next]_vars => (TableInv /\ Complete)'
  BY NextTableInv, NextComplete
<1> QED BY <1>1, <1>2, PTL DEF Spec

\* No reading is two rows, and each one up to the cursor of the import is a row
\* unless it was zero, although the import never looks behind its cursor, its
\* inserts skip a date that is taken, and rebuilds delete rows and put them back.
THEOREM SpecNothingLost == Spec => []NothingLost
<1>1. TableInv /\ Complete => NothingLost
  BY DEF TableInv, Sourced, Complete, CompleteParts, ReadingsAreRows, NothingLost
<1> QED BY <1>1, SpecComplete, PTL

\* A delta says how far the counter has advanced since a row that the table has:
\* prepare_rows counts from the last valid row of the table it meets, so whatever was
\* set aside, filled in or rebuilt before is counted once and by the right row.
THEOREM SpecDeltasCount == Spec => []DeltasCount
<1>1. TableInv /\ Complete => DeltasCount
  <2> SUFFICES ASSUME TableInv, Complete, Undisturbed,
                      NEW r \in Valid \ Baselines, ~r.synthetic
               PROVE  \E p \in Valid : CountsFrom(p, r, table)
    BY DEF DeltasCount
  <2>1. \A x \in table : x.date \in Nat
    BY DEF TableInv, TypeOK, Row
  <2>2. r \in table /\ r.platne /\ ~r.reset /\ \E e \in table : e.platne /\ e.date < r.date
    BY <2>1 DEF Valid, Baselines
  <2>3. Chained(table)
    BY DEF Complete, CompleteParts
  <2> QED BY <2>2, <2>3 DEF Chained, Valid
<1> QED BY <1>1, SpecComplete, PTL
=============================================================================
