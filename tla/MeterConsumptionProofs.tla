------------------------ MODULE MeterConsumptionProofs ------------------------
(***************************************************************************)
(* What the deltas of MeterImport add up to.  The first part is about sums *)
(* over finite sets of rows.  The second is about rows that are linked:    *)
(* each follows one of which the table lets the counter advance or run     *)
(* back a little, and by induction over the dates the deltas of a segment  *)
(* account for the counter.  The third shows that the two loops of an      *)
(* import or a rebuild, which remember different rows, keep the rows       *)
(* linked, and the last that the table is linked unless a rebuild has torn *)
(* a gap.                                                                  *)
(***************************************************************************)
EXTENDS MeterImportProofs

-----------------------------------------------------------------------------
(***************************************************************************)
(* Sums over finite sets of rows.                                          *)
(***************************************************************************)
\* Induction over a finite set, as a fact about the subsets that are as claimed.
LEMMA SubsetsGrow ==
  ASSUME NEW S, IsFiniteSet(S), NEW T, {} \in T,
         \A s \in T : \A x \in S \ s : s \cup {x} \in T
  PROVE  S \in T
<1> DEFINE n == Cardinality(S)
<1>1. n \in Nat /\ ExistsBijection(1 .. n, S)
  BY FS_CardinalityType
<1>2. PICK b \in Bijection(1 .. n, S) : TRUE
  BY <1>1 DEF ExistsBijection
<1>3. /\ b \in [1 .. n -> S] /\ \A x \in S : \E i \in 1 .. n : b[i] = x
      /\ \A i, j \in 1 .. n : b[i] = b[j] => i = j
  BY <1>2 DEF Bijection, Injection, Surjection, IsInjective
<1> DEFINE First(k) == {b[i] : i \in 1 .. k}
           U == {k \in 0 .. n : First(k) \in T}
<1> HIDE DEF n
<1>4. 0 \in U
  <2>1. First(0) = {}
    OBVIOUS
  <2> QED BY <2>1, <1>1
<1>5. ASSUME NEW k \in 1 .. n, k - 1 \in U PROVE k \in U
  <2>1. First(k) = First(k - 1) \cup {b[k]}
    <3>1. 1 .. k = (1 .. k - 1) \cup {k}
      OBVIOUS
    <3> QED BY <3>1
  <2>2. b[k] \in S \ First(k - 1)
    <3>1. b[k] \in S
      BY <1>3
    <3>2. \A i \in 1 .. k - 1 : i \in 1 .. n /\ i # k
      BY <1>1
    <3> QED BY <3>1, <3>2, <1>3
  <2>3. First(k - 1) \in T
    BY <1>5
  <2> HIDE DEF First
  <2> QED BY <2>1, <2>2, <2>3
<1> HIDE DEF U
<1>6. n \in U
  BY <1>1, <1>4, <1>5, AllSteps DEF U
<1>7. First(n) = S
  BY <1>3
<1> QED BY <1>6, <1>7 DEF U

\* The function by which MapThenSumSet is defined, and one that adds the delta of
\* each row whatever the order.
IsSum(f, S) ==
  f = [s \in SUBSET S |-> IF s = {} THEN 0
                          ELSE LET x == CHOOSE x \in s : TRUE
                               IN Delta(x) + f[s \ {x}]]

Adding(f, S) ==
  /\ f \in [SUBSET S -> Int]
  /\ f[{}] = 0
  /\ \A s \in SUBSET S : \A x \in S \ s : f[s \cup {x}] = f[s] + Delta(x)

LEMMA ConsumptionIs ==
  ASSUME NEW S
  PROVE  Consumption(S) = (CHOOSE f : IsSum(f, S))[S]
BY DEF Consumption, MapThenSumSet, MapThenFoldSet, IsSum

LEMMA AddingExists ==
  ASSUME NEW S, IsFiniteSet(S), \A x \in S : Delta(x) \in Int
  PROVE  \E f : Adding(f, S)
<1> DEFINE T == {s \in SUBSET S : \E f : Adding(f, s)}
<1>1. {} \in T
  <2> DEFINE f == [s \in SUBSET {} |-> 0]
  <2>1. Adding(f, {})
    BY DEF Adding
  <2> QED BY <2>1
<1>2. ASSUME NEW u \in T, NEW y \in S \ u PROVE u \cup {y} \in T
  <2>1. PICK f : Adding(f, u)
    OBVIOUS
  <2> DEFINE v == u \cup {y}
             g == [s \in SUBSET v |-> IF y \in s THEN f[s \ {y}] + Delta(y) ELSE f[s]]
  <2>2. \A s \in SUBSET v : s \ {y} \in SUBSET u /\ (y \notin s => s \in SUBSET u)
    OBVIOUS
  <2>3. f \in [SUBSET u -> Int] /\ f[{}] = 0
        /\ \A s \in SUBSET u : \A x \in u \ s : f[s \cup {x}] = f[s] + Delta(x)
    BY <2>1 DEF Adding
  <2>4. g \in [SUBSET v -> Int]
    <3>1. \A s \in SUBSET u : f[s] \in Int
      BY <2>3
    <3>2. Delta(y) \in Int
      OBVIOUS
    <3> HIDE DEF v
    <3> QED BY <2>2, <3>1, <3>2
  <2>5. g[{}] = 0
    BY <2>3
  <2>6. ASSUME NEW s \in SUBSET v, NEW x \in v \ s
        PROVE  g[s \cup {x}] = g[s] + Delta(x)
    <3>1. CASE x = y
      <4>1. s \in SUBSET u /\ (s \cup {x}) \ {y} = s /\ y \notin s /\ y \in s \cup {x}
            /\ s \cup {x} \in SUBSET v
        BY <3>1
      <4> QED BY <4>1, <3>1
    <3>2. CASE x # y /\ y \in s
      <4>1. /\ s \ {y} \in SUBSET u /\ x \in u \ (s \ {y}) /\ y \in s \cup {x}
            /\ (s \cup {x}) \ {y} = (s \ {y}) \cup {x} /\ s \cup {x} \in SUBSET v
        BY <3>2
      <4>2. g[s \cup {x}] = f[(s \ {y}) \cup {x}] + Delta(y) /\ g[s] = f[s \ {y}] + Delta(y)
        BY <4>1, <3>2
      <4>3. f[(s \ {y}) \cup {x}] = f[s \ {y}] + Delta(x) /\ f[s \ {y}] \in Int
        BY <4>1, <2>3
      <4>4. Delta(x) \in Int /\ Delta(y) \in Int
        BY <4>1
      <4> HIDE DEF g
      <4> QED BY <4>2, <4>3, <4>4
    <3>3. CASE x # y /\ y \notin s
      <4>1. s \in SUBSET u /\ x \in u \ s /\ y \notin s \cup {x} /\ s \cup {x} \in SUBSET v
        BY <3>3
      <4>2. g[s \cup {x}] = f[s \cup {x}] /\ g[s] = f[s]
        BY <4>1, <3>3
      <4> QED BY <4>1, <4>2, <2>3
    <3> QED BY <3>1, <3>2, <3>3
  <2>7. Adding(g, v)
    <3> HIDE DEF g, v
    <3> QED BY <2>4, <2>5, <2>6 DEF Adding
  <2> QED BY <2>7
<1> HIDE DEF T
<1>3. S \in T
  BY <1>1, <1>2, SubsetsGrow
<1> QED BY <1>3 DEF T

LEMMA AddingIsSum ==
  ASSUME NEW S, \A x \in S : Delta(x) \in Int, NEW f, Adding(f, S)
  PROVE  IsSum(f, S)
<1>1. f = [s \in SUBSET S |-> f[s]]
  BY DEF Adding
<1>2. ASSUME NEW s \in SUBSET S
      PROVE  f[s] = IF s = {} THEN 0 ELSE LET x == CHOOSE x \in s : TRUE
                                          IN Delta(x) + f[s \ {x}]
  <2>1. CASE s = {}
    BY <2>1 DEF Adding
  <2>2. CASE s # {}
    <3> DEFINE x == CHOOSE x \in s : TRUE
    <3>1. x \in s
      BY <2>2
    <3> HIDE DEF x
    <3>2. (s \ {x}) \cup {x} = s /\ s \ {x} \in SUBSET S /\ x \in S \ (s \ {x})
      BY <3>1
    <3>3. f[s] = f[s \ {x}] + Delta(x) /\ f[s \ {x}] \in Int /\ f[s] \in Int
      BY <3>2 DEF Adding
    <3>4. f[s] = Delta(x) + f[s \ {x}]
      BY <3>1, <3>3
    <3> QED BY <3>4, <2>2 DEF x
  <2> QED BY <2>1, <2>2
<1> QED BY <1>1, <1>2 DEF IsSum

\* There is only one such function.
LEMMA SumsAgree ==
  ASSUME NEW S, IsFiniteSet(S), NEW f, NEW g, IsSum(f, S), IsSum(g, S)
  PROVE  f[S] = g[S]
<1> DEFINE n == Cardinality(S)
           T == {k \in 0 .. n : \A s \in SUBSET S : Cardinality(s) = k => f[s] = g[s]}
<1>1. \A s \in SUBSET S : IsFiniteSet(s) /\ Cardinality(s) \in Nat
  BY FS_Subset, FS_CardinalityType
<1>2. \A s \in SUBSET S :
        /\ f[s] = IF s = {} THEN 0 ELSE LET x == CHOOSE x \in s : TRUE IN Delta(x) + f[s \ {x}]
        /\ g[s] = IF s = {} THEN 0 ELSE LET x == CHOOSE x \in s : TRUE IN Delta(x) + g[s \ {x}]
  BY DEF IsSum
<1>3. n \in Nat
  BY <1>1
<1> HIDE DEF n
<1>4. 0 \in T
  <2>1. \A s \in SUBSET S : Cardinality(s) = 0 => s = {}
    BY <1>1, FS_EmptySet
  <2>2. f[{}] = g[{}]
    BY <1>2
  <2> QED BY <2>1, <2>2, <1>3
<1>5. ASSUME NEW k \in 1 .. n, k - 1 \in T PROVE k \in T
  <2> SUFFICES ASSUME NEW s \in SUBSET S, Cardinality(s) = k PROVE f[s] = g[s]
    BY <1>3
  <2> DEFINE x == CHOOSE x \in s : TRUE
  <2>1. s # {}
    BY FS_EmptySet
  <2>2. x \in s
    BY <2>1
  <2>3. f[s] = Delta(x) + f[s \ {x}] /\ g[s] = Delta(x) + g[s \ {x}]
    BY <1>2, <2>1
  <2> HIDE DEF x
  <2>4. Cardinality(s \ {x}) = k - 1 /\ s \ {x} \in SUBSET S
    BY <1>1, <2>2, FS_RemoveElement
  <2>5. f[s \ {x}] = g[s \ {x}]
    BY <1>5, <2>4
  <2> QED BY <2>3, <2>5
<1> HIDE DEF T
<1>6. n \in T
  BY <1>3, <1>4, <1>5, AllSteps DEF T
<1> QED BY <1>6 DEF T, n

LEMMA ConsumptionAddsUp ==
  ASSUME NEW S, IsFiniteSet(S), \A x \in S : Delta(x) \in Int, NEW f, Adding(f, S),
         NEW s \in SUBSET S
  PROVE  Consumption(s) = f[s]
<1> DEFINE g == [u \in SUBSET s |-> f[u]]
<1>1. Adding(g, s)
  <2>1. \A u \in SUBSET s : u \in SUBSET S
    OBVIOUS
  <2>2. g \in [SUBSET s -> Int] /\ g[{}] = 0
    BY <2>1 DEF Adding
  <2>3. ASSUME NEW u \in SUBSET s, NEW x \in s \ u PROVE g[u \cup {x}] = g[u] + Delta(x)
    BY DEF Adding
  <2> HIDE DEF g
  <2> QED BY <2>2, <2>3 DEF Adding
<1>2. g[s] = f[s]
  OBVIOUS
<1> HIDE DEF g
<1>3. IsSum(g, s)
  BY <1>1, AddingIsSum
<1>4. IsSum(CHOOSE h : IsSum(h, s), s)
  BY <1>3
<1>5. IsFiniteSet(s)
  BY FS_Subset
<1>6. (CHOOSE h : IsSum(h, s))[s] = g[s]
  <2> DEFINE h == CHOOSE h : IsSum(h, s)
  <2>1. IsSum(h, s)
    BY <1>4
  <2> HIDE DEF h
  <2>2. h[s] = g[s]
    BY <2>1, <1>3, <1>5, SumsAgree
  <2> QED BY <2>2 DEF h
<1> QED BY <1>2, <1>6, ConsumptionIs

\* The rules of the sum.
LEMMA ConsumptionOfNone == Consumption({}) = 0
<1>1. IsFiniteSet({}) /\ \A x \in {} : Delta(x) \in Int
  BY FS_EmptySet
<1>2. PICK f : Adding(f, {})
  BY <1>1, AddingExists
<1>3. Consumption({}) = f[{}]
  BY <1>1, <1>2, ConsumptionAddsUp
<1> QED BY <1>2, <1>3 DEF Adding

LEMMA ConsumptionGrows ==
  ASSUME NEW S, IsFiniteSet(S), \A x \in S : Delta(x) \in Int,
         NEW y, y \notin S, Delta(y) \in Int
  PROVE  /\ Consumption(S) \in Int
         /\ Consumption(S \cup {y}) = Consumption(S) + Delta(y)
<1> DEFINE U == S \cup {y}
<1>1. IsFiniteSet(U) /\ \A x \in U : Delta(x) \in Int
  BY FS_AddElement
<1>2. PICK f : Adding(f, U)
  BY <1>1, AddingExists
<1>3. S \in SUBSET U /\ y \in U \ S /\ U \in SUBSET U
  OBVIOUS
<1>4. Consumption(S) = f[S] /\ Consumption(U) = f[U]
  BY <1>1, <1>2, <1>3, ConsumptionAddsUp
<1> QED BY <1>2, <1>3, <1>4 DEF Adding

LEMMA ConsumptionTyped ==
  ASSUME NEW S, IsFiniteSet(S), \A x \in S : Delta(x) \in Int
  PROVE  Consumption(S) \in Int
<1>1. PICK f : Adding(f, S)
  BY AddingExists
<1>2. Consumption(S) = f[S]
  BY <1>1, ConsumptionAddsUp
<1> QED BY <1>1, <1>2 DEF Adding

LEMMA ConsumptionOfBoth ==
  ASSUME NEW A, IsFiniteSet(A), \A x \in A : Delta(x) \in Int,
         NEW B, IsFiniteSet(B), \A x \in B : Delta(x) \in Int, A \cap B = {}
  PROVE  Consumption(A \cup B) = Consumption(A) + Consumption(B)
<1> DEFINE T == {s \in SUBSET B : Consumption(A \cup s) = Consumption(A) + Consumption(s)}
<1>0. Consumption(A) \in Int
  BY ConsumptionTyped
<1>1. {} \in T
  <2>1. A \cup {} = A
    OBVIOUS
  <2> QED BY <1>0, <2>1, ConsumptionOfNone
<1>2. ASSUME NEW s \in T, NEW y \in B \ s PROVE s \cup {y} \in T
  <2>1. IsFiniteSet(s) /\ IsFiniteSet(A \cup s)
    BY FS_Subset, FS_Union
  <2>2. /\ \A x \in s : Delta(x) \in Int
        /\ \A x \in A \cup s : Delta(x) \in Int
        /\ y \notin s /\ y \notin A \cup s /\ Delta(y) \in Int
    OBVIOUS
  <2>3. /\ Consumption(s) \in Int
        /\ Consumption(s \cup {y}) = Consumption(s) + Delta(y)
    BY <2>1, <2>2, ConsumptionGrows
  <2>4. Consumption((A \cup s) \cup {y}) = Consumption(A \cup s) + Delta(y)
    BY <2>1, <2>2, ConsumptionGrows
  <2>5. A \cup (s \cup {y}) = (A \cup s) \cup {y}
    OBVIOUS
  <2>6. Consumption(A \cup s) = Consumption(A) + Consumption(s)
    OBVIOUS
  <2> HIDE DEF T
  <2>7. Consumption(A \cup (s \cup {y})) = Consumption(A \cup s) + Delta(y)
    BY <2>4, <2>5
  <2>8. Consumption(A \cup (s \cup {y})) = Consumption(A) + Consumption(s \cup {y})
    <3>1. Delta(y) \in Int
      BY <2>2
    <3> QED BY <3>1, <1>0, <2>3, <2>6, <2>7
  <2> QED BY <2>8 DEF T
<1> HIDE DEF T
<1>3. B \in T
  BY <1>1, <1>2, SubsetsGrow
<1> QED BY <1>3 DEF T

LEMMA ConsumptionOfEqual ==
  ASSUME NEW S, IsFiniteSet(S), NEW m \in Int, \A x \in S : Delta(x) = m
  PROVE  Consumption(S) = m * Cardinality(S)
<1> DEFINE T == {s \in SUBSET S : Consumption(s) = m * Cardinality(s)}
<1>1. {} \in T
  BY ConsumptionOfNone, FS_EmptySet
<1>2. ASSUME NEW s \in T, NEW y \in S \ s PROVE s \cup {y} \in T
  <2>1. IsFiniteSet(s) /\ Cardinality(s) \in Nat
    BY FS_Subset, FS_CardinalityType
  <2>2. Consumption(s \cup {y}) = Consumption(s) + m
    BY <2>1, ConsumptionGrows
  <2>3. Cardinality(s \cup {y}) = Cardinality(s) + 1
    BY <2>1, FS_AddElement
  <2>4. m * (Cardinality(s) + 1) = m * Cardinality(s) + m
    BY <2>1
  <2> QED BY <2>2, <2>3, <2>4
<1> HIDE DEF T
<1>3. S \in T
  BY <1>1, <1>2, SubsetsGrow
<1> QED BY <1>3 DEF T

-----------------------------------------------------------------------------
(***************************************************************************)
(* A chain that is linked: what its deltas add up to.                      *)
(***************************************************************************)
Upto(p, rows) == {x \in rows : x.date <= p.date}
Before(c, rows) == {x \in rows : x.date < c.date}
Between(p, r, rows) == {x \in rows : x.platne /\ p.date < x.date /\ x.date < r.date}
OneOfDate(rows) == \A r, s \in rows : r.date = s.date => r = s

\* r has run back behind p, by less than two resets; by more than one only when
\* another row lies between them that has run back as well.
RanBack(p, r, rows) ==
  /\ r.delta = None /\ ~r.gap /\ r.objem < p.objem
  /\ \/ p.objem - r.objem <= ResetDiff
     \/ /\ p.objem - r.objem <= 2 * ResetDiff
        /\ \E y \in Between(p, r, rows) : ~y.synthetic

\* r has not, and the slots that were filled between them hardly exceed it.
Advanced(p, r, rows) ==
  /\ r.objem >= p.objem
  /\ r.delta = None => \A x \in Between(p, r, rows) : ~x.synthetic
  /\ \A x \in Between(p, r, rows) :
       x.synthetic => r.objem - x.objem >= -(r.date \div (2 * Interval))

\* r counts from p, a measurement behind which no slot was left without its end.
Follows(p, r, rows) ==
  /\ p.platne /\ ~p.synthetic /\ CountsFrom(p, r, rows)
  /\ Whole(Upto(p, rows))
  /\ \A x \in Between(p, r, rows) : ~x.synthetic => ~x.gap
  /\ RanBack(p, r, rows) \/ Advanced(p, r, rows)

\* A chain in which no rebuild has torn a gap.
Linked(rows) ==
  /\ \A s \in rows : s.synthetic =>
       Filler(s) /\ \E e \in rows : e.platne /\ e.date < s.date
  /\ \A c \in rows : c.platne /\ c.reset => Whole(Before(c, rows))
  /\ \A r \in rows :
       r.platne /\ ~r.synthetic /\ ~r.reset /\ (\E e \in rows : e.platne /\ e.date < r.date) =>
         \E p \in rows : Follows(p, r, rows)

\* Baselines and After, of any rows.
Base(b, rows) ==
  /\ b \in rows /\ b.platne
  /\ b.reset \/ \A r \in rows : r.platne => b.date <= r.date
Segment(b, rows) ==
  {r \in rows : /\ r.platne /\ r.date > b.date
                /\ \A c \in rows : Base(c, rows) => c.date <= b.date \/ r.date < c.date}
SoFar(b, r, rows) == {x \in Segment(b, rows) : x.date <= r.date}
Uncounted(S) == {x \in S : x.delta = None}

\* What the rows from b to r say is what the counter has advanced to r, or more by
\* what it ran back, and no row exceeds it but by rounding.
Accounted(b, r, rows) ==
  LET S == SoFar(b, r, rows)
  IN /\ Consumption(S) - (r.objem - b.objem) \in 0 .. ResetDiff * Cardinality(Uncounted(S))
     /\ \A x \in S \cup {b} : \E y \in S \cup {b} :
          x.objem - b.objem <= Consumption(S) + (y.date \div (2 * Interval))

LEMMA RowTyped ==
  ASSUME NEW x \in Row
  PROVE  /\ x.date \in Nat /\ x.objem \in Nat /\ x.delta \in Int \cup {None}
         /\ Delta(x) \in Int /\ x.date \div (2 * Interval) \in Nat
<1>1. x.date \in Nat /\ x.objem \in Nat /\ x.delta \in Int \cup {None}
  BY DEF Row
<1>2. Delta(x) \in Int
  BY <1>1 DEF Delta
<1>3. 2 * Interval \in Nat \ {0}
  BY ImportAssumption
<1> QED BY <1>1, <1>2, <1>3, Div

LEMMA Cancel ==
  ASSUME NEW a \in Int, NEW b \in Int, NEW n \in Nat \ {0}, NEW d \in Int, NEW total \in Int,
         d + a * n = total, d + b * n = total
  PROVE  a = b
<1>1. a * n \in Int /\ b * n \in Int
  OBVIOUS
<1>2. a * n = b * n
  BY <1>1
<1>3. (a - b) * n = 0
  BY <1>2
<1> QED BY <1>3

\* The slots that are filled in front of r, and r, count what r has advanced.
LEMMA FilledAndRow ==
  ASSUME NEW rows \in SUBSET Row, IsFiniteSet(rows), NEW p \in rows, NEW r \in rows,
         CountsFrom(p, r, rows), Advanced(p, r, rows),
         \A s \in rows : s.synthetic => s.delta \in Int
  PROVE  Consumption({x \in Between(p, r, rows) : x.synthetic}) + Delta(r) = r.objem - p.objem
<1> DEFINE F == {x \in Between(p, r, rows) : x.synthetic}
           n == Cardinality(F)
           total == r.objem - p.objem
<1>1. F \in SUBSET rows /\ \A x \in F : x.synthetic /\ x.delta \in Int
  BY DEF Between
<1>2. IsFiniteSet(F) /\ n \in Nat
  BY <1>1, FS_Subset, FS_CardinalityType
<1>3. total \in Nat
  BY RowTyped DEF Advanced
<1>4. /\ r.delta = None => total <= 0
      /\ r.delta # None =>
           /\ F = {} => r.delta = total
           /\ \A x \in F : r.delta + x.delta * n = total
  BY DEF CountsFrom, Between
<1>5. CASE r.delta = None
  <2>1. F = {}
    BY <1>5 DEF Advanced
  <2> HIDE DEF F, n, total
  <2>2. Delta(r) = 0 /\ total = 0
    BY <1>3, <1>4, <1>5 DEF Delta
  <2>3. Consumption(F) + Delta(r) = total
    BY <2>1, <2>2, ConsumptionOfNone
  <2> QED BY <2>3 DEF F, total
<1>6. CASE r.delta # None
  <2>1. Delta(r) = r.delta /\ r.delta \in Int
    BY <1>6, RowTyped DEF Delta
  <2>2. CASE F = {}
    <3> HIDE DEF F, total
    <3>1. Consumption(F) + Delta(r) = total
      BY <2>1, <2>2, <1>3, <1>4, <1>6, ConsumptionOfNone
    <3> QED BY <3>1 DEF F, total
  <2>3. CASE F # {}
    <3>1. PICK x0 \in F : TRUE
      BY <2>3
    <3> DEFINE m == x0.delta
    <3>2. m \in Int
      BY <1>1
    <3>3. n # 0
      BY <2>3, <1>2, FS_EmptySet
    <3>4. ASSUME NEW x \in F PROVE Delta(x) = m
      <4>1. x.delta \in Int /\ x.delta # None
        BY <1>1, ImportAssumption
      <4>2. r.delta + x.delta * n = total /\ r.delta + m * n = total
        BY <1>4, <1>6
      <4> DEFINE d == x.delta
      <4> HIDE DEF m, n, total, d, F
      <4>3. d \in Int /\ n \in Nat \ {0} /\ total \in Int
            /\ r.delta + d * n = total /\ r.delta + m * n = total
        BY <4>1, <4>2, <3>3, <1>2, <1>3 DEF d
      <4>4. d = m
        BY <4>3, <3>2, <2>1, Cancel
      <4> QED BY <4>1, <4>4 DEF Delta, d
    <3>5. r.delta + m * n = total
      BY <1>4, <1>6
    <3> HIDE DEF m, total, F
    <3>6. Consumption(F) = m * n
      BY <3>2, <3>4, <1>2, ConsumptionOfEqual
    <3> HIDE DEF n
    <3>7. Consumption(F) + Delta(r) = total
      <4>1. m * n \in Int
        BY <3>2, <1>2
      <4> QED BY <4>1, <3>5, <3>6, <2>1
    <3> QED BY <3>7 DEF F, total
  <2> QED BY <2>2, <2>3
<1> QED BY <1>5, <1>6

\* The row that r follows is the base of the segment of r or in that segment, which
\* has all valid rows between the two.
LEMMA FollowsInSegment ==
  ASSUME NEW rows \in SUBSET Row, OneOfDate(rows), NEW b, Base(b, rows), ~b.synthetic,
         NEW r \in Segment(b, rows), NEW p \in rows, Follows(p, r, rows)
  PROVE  /\ p = b \/ p \in Segment(b, rows)
         /\ Between(p, r, rows) \subseteq Segment(b, rows)
         /\ p.date < r.date
<1>1. \A x \in rows : x.date \in Nat
  BY RowTyped
<1>2. p.date < r.date
  BY DEF Follows, CountsFrom
<1>3. /\ b \in rows /\ b.platne /\ b.date < r.date
      /\ r \in rows /\ b.date \in Nat /\ r.date \in Nat /\ p.date \in Nat
  BY <1>1 DEF Base, Segment
<1>4. b.date <= p.date
  <2> SUFFICES ASSUME p.date < b.date PROVE FALSE
    BY <1>1, <1>3
  <2>1. ~b.reset
    BY <1>3 DEF Follows, CountsFrom
  <2>2. b.date <= p.date
    BY <2>1 DEF Base, Follows
  <2> QED BY <2>2, <1>1, <1>3
<1>5. ASSUME NEW x \in rows, x.platne, x.date > b.date, x.date <= r.date
      PROVE  x \in Segment(b, rows)
  <2>1. \A c \in rows : Base(c, rows) => c.date <= b.date \/ r.date < c.date
    BY DEF Segment
  <2>2. \A c \in rows : Base(c, rows) => c.date <= b.date \/ x.date < c.date
    <3> HIDE DEF Base
    <3> QED BY <1>1, <1>3, <1>5, <2>1
  <2> QED BY <1>5, <2>2 DEF Segment
<1>6. p = b \/ p \in Segment(b, rows)
  <2>1. CASE p.date = b.date
    BY <2>1, <1>3 DEF OneOfDate
  <2>2. CASE p.date # b.date
    <3>1. p.date > b.date /\ p.date <= r.date /\ p.platne
      BY <2>2, <1>2, <1>3, <1>4 DEF Follows
    <3> QED BY <3>1, <1>5
  <2> QED BY <2>1, <2>2
<1>7. ASSUME NEW x \in Between(p, r, rows) PROVE x \in Segment(b, rows)
  <2>1. /\ x \in rows /\ x.platne /\ x.date \in Nat
        /\ p.date < x.date /\ x.date < r.date
    BY <1>1 DEF Between
  <2>2. x.date > b.date /\ x.date <= r.date
    BY <2>1, <1>3, <1>4
  <2> QED BY <2>1, <2>2, <1>5
<1> QED BY <1>2, <1>6, <1>7

LEMMA Times ==
  ASSUME NEW k \in Nat, NEW u \in Nat, NEW v \in Nat
  PROVE  /\ u <= v => k * u <= k * v
         /\ u + 1 <= v => k * u + k <= k * v
         /\ u + 2 <= v => k * u + 2 * k <= k * v
         /\ k * u \in Nat /\ k * v \in Nat
<1>1. k * u \in Nat /\ k * v \in Nat
  OBVIOUS
<1>2. ASSUME NEW w \in Nat, u + w <= v PROVE k * u + k * w <= k * v
  <2>1. PICK d \in Nat : v = u + w + d
    <3>1. v - (u + w) \in Nat /\ v = u + w + (v - (u + w))
      BY <1>2
    <3> QED BY <3>1
  <2>2. k * v = k * u + k * w + k * d /\ k * d \in Nat
    BY <2>1
  <2>3. k * w \in Nat
    OBVIOUS
  <2> QED BY <2>2, <2>3, <1>1
<1>3. k * 0 = 0 /\ k * 1 = k /\ k * 2 = 2 * k
  OBVIOUS
<1>4. /\ u <= v => u + 0 <= v
      /\ 0 \in Nat /\ 1 \in Nat /\ 2 \in Nat
  OBVIOUS
<1> QED BY <1>1, <1>2, <1>3, <1>4

\* From the row that r follows to r.
LEMMA AccountedOn ==
  ASSUME NEW rows \in SUBSET Row, IsFiniteSet(rows), OneOfDate(rows),
         \A s \in rows : s.synthetic => s.delta \in Int,
         NEW b, Base(b, rows), ~b.synthetic,
         NEW r \in Segment(b, rows), NEW p \in rows, Follows(p, r, rows),
         RanBack(p, r, rows) => \A x \in Between(p, r, rows) : ~x.synthetic,
         Accounted(b, p, rows)
  PROVE  Accounted(b, r, rows)
<1> DEFINE A == SoFar(b, p, rows)
           B == SoFar(b, r, rows)
           F == {x \in Between(p, r, rows) : x.synthetic}
           N == Between(p, r, rows) \ F
           a == Consumption(A)
           c == Consumption(B)
           half(x) == x.date \div (2 * Interval)
<1>1. \A x \in rows : /\ x.date \in Nat /\ x.objem \in Nat /\ x.delta \in Int \cup {None}
                      /\ Delta(x) \in Int /\ half(x) \in Nat
  BY RowTyped
<1>2. /\ p = b \/ p \in Segment(b, rows)
      /\ Between(p, r, rows) \subseteq Segment(b, rows)
      /\ p.date < r.date
  BY FollowsInSegment
<1>3. r \in rows /\ b \in rows /\ Segment(b, rows) \subseteq rows
      /\ Between(p, r, rows) \subseteq rows
  BY DEF Base, Segment, Between
<1>4. B = A \cup (F \cup (N \cup {r}))
  <2>1. \A x \in B : x \in A \cup Between(p, r, rows) \cup {r}
    BY <1>1, <1>3 DEF SoFar, Segment, Between, OneOfDate
  <2>2. \A x \in A \cup Between(p, r, rows) \cup {r} : x \in B
    BY <1>1, <1>2, <1>3 DEF SoFar, Between
  <2> QED BY <2>1, <2>2
<1>5. /\ A \cap (F \cup (N \cup {r})) = {} /\ F \cap (N \cup {r}) = {} /\ r \notin N
      /\ A \subseteq rows /\ B \subseteq rows /\ F \subseteq rows /\ N \subseteq rows
  BY <1>1, <1>2, <1>3 DEF SoFar, Between
<1>6. /\ IsFiniteSet(A) /\ IsFiniteSet(B) /\ IsFiniteSet(F) /\ IsFiniteSet(N)
      /\ IsFiniteSet(N \cup {r}) /\ IsFiniteSet(F \cup (N \cup {r}))
  BY <1>5, FS_Subset, FS_AddElement, FS_Union
<1>7. \A x \in N : x.delta = None /\ ~x.reset /\ x.objem < p.objem /\ ~x.synthetic
  BY DEF Follows, CountsFrom, Between
<1>8. /\ r.objem < p.objem => Consumption(F) + Delta(r) = 0
      /\ r.objem >= p.objem => Consumption(F) + Delta(r) = r.objem - p.objem
  <2>1. CASE RanBack(p, r, rows)
    <3>1. F = {} /\ r.delta = None /\ r.objem < p.objem
      BY <2>1 DEF RanBack
    <3>2. Delta(r) = 0
      BY <3>1 DEF Delta
    <3> HIDE DEF F
    <3> QED BY <3>1, <3>2, <1>1, <1>3, ConsumptionOfNone
  <2>2. CASE Advanced(p, r, rows)
    <3>1. Consumption(F) + Delta(r) = r.objem - p.objem
      BY <2>2, <1>3, FilledAndRow DEF Follows
    <3>2. r.objem >= p.objem
      BY <2>2 DEF Advanced
    <3> HIDE DEF F
    <3> QED BY <3>1, <3>2, <1>1, <1>3
  <2> QED BY <2>1, <2>2 DEF Follows
<1>9. a \in Int /\ Consumption(F) \in Int /\ Delta(r) \in Int
      /\ c = a + (Consumption(F) + Delta(r))
  <2>0. /\ \A x \in A : Delta(x) \in Int
        /\ \A x \in F : Delta(x) \in Int
        /\ \A x \in N : Delta(x) = 0
        /\ \A x \in N \cup {r} : Delta(x) \in Int
        /\ \A x \in F \cup (N \cup {r}) : Delta(x) \in Int
        /\ Delta(r) \in Int
    BY <1>1, <1>3, <1>5, <1>7 DEF Delta
  <2> HIDE DEF A, B, F, N
  <2>1. a \in Int /\ Consumption(F) \in Int
    BY <1>6, <2>0, ConsumptionTyped
  <2>2. Consumption(N) = 0
    <3>1. Consumption(N) = 0 * Cardinality(N)
      BY <1>6, <2>0, ConsumptionOfEqual
    <3>2. Cardinality(N) \in Nat
      BY <1>6, FS_CardinalityType
    <3> QED BY <3>1, <3>2
  <2>3. Consumption(N \cup {r}) = Delta(r)
    <3>1. \A x \in N : Delta(x) \in Int
      BY <2>0
    <3>2. Consumption(N \cup {r}) = Consumption(N) + Delta(r)
      BY <3>1, <1>5, <1>6, <2>0, ConsumptionGrows
    <3> QED BY <3>2, <2>2, <2>0
  <2>4. Consumption(F \cup (N \cup {r})) = Consumption(F) + Consumption(N \cup {r})
    BY <1>5, <1>6, <2>0, ConsumptionOfBoth
  <2>5. Consumption(A \cup (F \cup (N \cup {r}))) = a + Consumption(F \cup (N \cup {r}))
    BY <1>5, <1>6, <2>0, ConsumptionOfBoth
  <2>6. c = a + Consumption(F \cup (N \cup {r}))
    BY <1>4, <2>5
  <2> QED BY <2>0, <2>1, <2>3, <2>4, <2>6
<1> DEFINE uA == Cardinality(Uncounted(A))
           uB == Cardinality(Uncounted(B))
<1>10. /\ uA \in Nat /\ uB \in Nat /\ uA <= uB
       /\ RanBack(p, r, rows) => uA + 1 <= uB
       /\ RanBack(p, r, rows) /\ (\E y \in Between(p, r, rows) : ~y.synthetic) => uA + 2 <= uB
  <2>1. Uncounted(A) \subseteq Uncounted(B) /\ IsFiniteSet(Uncounted(B)) /\ IsFiniteSet(Uncounted(A))
    <3>1. A \subseteq B
      BY <1>4
    <3>2. Uncounted(A) \subseteq Uncounted(B) /\ Uncounted(B) \subseteq B /\ Uncounted(A) \subseteq A
      BY <3>1 DEF Uncounted
    <3> HIDE DEF A, B
    <3> QED BY <3>2, <1>6, FS_Subset
  <2>2. r \in B /\ r \notin A
    BY <1>4, <1>5
  <2>3. \A y \in N : y \in B /\ y \notin A /\ y # r
    BY <1>4, <1>5
  <2> HIDE DEF A, B
  <2>4. uA \in Nat /\ uB \in Nat /\ uA <= uB
    BY <2>1, FS_Subset, FS_CardinalityType
  <2>5. ASSUME RanBack(p, r, rows)
        PROVE  /\ uA + 1 <= uB
               /\ (\E y \in Between(p, r, rows) : ~y.synthetic) => uA + 2 <= uB
    <3> DEFINE U == Uncounted(A)
               V == Uncounted(B)
    <3>1. r \in V /\ r \notin U /\ U \subseteq V /\ IsFiniteSet(U) /\ IsFiniteSet(V)
      BY <2>1, <2>2, <2>5 DEF Uncounted, RanBack
    <3>2. IsFiniteSet(U \cup {r}) /\ Cardinality(U \cup {r}) = uA + 1
      BY <3>1, FS_AddElement
    <3>3. uA + 1 <= uB
      <4>1. U \cup {r} \in SUBSET V
        BY <3>1
      <4> HIDE DEF U, V
      <4>2. Cardinality(U \cup {r}) <= Cardinality(V)
        BY <3>1, <4>1, FS_Subset
      <4> QED BY <3>2, <4>2 DEF U, V
    <3>4. ASSUME NEW y \in Between(p, r, rows), ~y.synthetic
          PROVE  uA + 2 <= uB
      <4>1. y \in N
        BY <3>4
      <4>2. y \in V /\ y \notin U /\ y # r
        BY <4>1, <2>3, <1>7 DEF Uncounted
      <4>3. /\ IsFiniteSet((U \cup {r}) \cup {y})
            /\ Cardinality((U \cup {r}) \cup {y}) = (uA + 1) + 1
        BY <3>2, <4>2, FS_AddElement
      <4>4. (U \cup {r}) \cup {y} \in SUBSET V
        BY <3>1, <4>2
      <4> HIDE DEF U, V
      <4>5. Cardinality((U \cup {r}) \cup {y}) <= Cardinality(V)
        BY <3>1, <4>4, FS_Subset
      <4> QED BY <4>3, <4>5, <2>4 DEF U, V
    <3> QED BY <3>3, <3>4
  <2> QED BY <2>4, <2>5
<1>11. /\ a - (p.objem - b.objem) \in 0 .. ResetDiff * uA
       /\ \A x \in A \cup {b} : \E y \in A \cup {b} : x.objem - b.objem <= a + half(y)
  BY DEF Accounted
<1>12. ResetDiff \in Nat /\ b.objem \in Nat /\ p.objem \in Nat /\ r.objem \in Nat
  BY <1>1, <1>3, ImportAssumption
<1>13. A \subseteq B /\ r \in B /\ (p = b \/ p \in A)
  BY <1>1, <1>2, <1>4 DEF SoFar
<1>14. \A x \in B : x \in A \/ x \in F \/ x \in N \/ x = r
  BY <1>4
<1>15. F = {} \/ /\ r.objem >= p.objem
                 /\ \A x \in F : r.objem - x.objem >= -half(r)
  BY DEF Follows, Advanced
<1>16. \/ r.objem >= p.objem
       \/ /\ r.objem < p.objem /\ RanBack(p, r, rows)
          /\ \/ p.objem - r.objem <= ResetDiff
             \/ /\ p.objem - r.objem <= 2 * ResetDiff
                /\ \E y \in Between(p, r, rows) : ~y.synthetic
  BY DEF Follows, Advanced, RanBack
<1>17. \A x \in A \cup F \cup N \cup {r, b, p} : x.objem \in Nat /\ half(x) \in Nat
  BY <1>1, <1>3, <1>5
<1> DEFINE s == Consumption(F) + Delta(r)
<1>18. /\ s \in Int /\ c = a + s
       /\ r.objem < p.objem => s = 0
       /\ r.objem >= p.objem => s = r.objem - p.objem
  <2> HIDE DEF a, c, F
  <2> QED BY <1>8, <1>9
<1> HIDE DEF A, B, F, N, a, c, half, uA, uB, s
<1>19. c - (r.objem - b.objem) \in 0 .. ResetDiff * uB
  <2>1. /\ ResetDiff * uA <= ResetDiff * uB
        /\ RanBack(p, r, rows) => ResetDiff * uA + ResetDiff <= ResetDiff * uB
        /\ RanBack(p, r, rows) /\ (\E y \in Between(p, r, rows) : ~y.synthetic) =>
             ResetDiff * uA + 2 * ResetDiff <= ResetDiff * uB
        /\ ResetDiff * uA \in Nat /\ ResetDiff * uB \in Nat
    BY <1>10, <1>12, Times
  <2> DEFINE mA == ResetDiff * uA
             mB == ResetDiff * uB
  <2>2. /\ mA \in Nat /\ mB \in Nat /\ mA <= mB
        /\ a - (p.objem - b.objem) \in 0 .. mA
    BY <2>1, <1>11
  <2>3. CASE r.objem >= p.objem
    <3>1. c = a + (r.objem - p.objem)
      BY <2>3, <1>18
    <3> HIDE DEF mA, mB
    <3>2. c - (r.objem - b.objem) \in 0 .. mB
      BY <3>1, <2>2, <1>9, <1>12
    <3> QED BY <3>2 DEF mB
  <2>4. CASE r.objem < p.objem
    <3>1. c = a
      BY <2>4, <1>9, <1>18
    <3>2. mA + (p.objem - r.objem) <= mB
      <4>1. \/ p.objem - r.objem <= ResetDiff /\ mA + ResetDiff <= mB
            \/ p.objem - r.objem <= 2 * ResetDiff /\ mA + 2 * ResetDiff <= mB
        BY <2>1, <2>4, <1>12, <1>16
      <4> HIDE DEF mA, mB
      <4> QED BY <4>1, <2>2, <1>12
    <3> HIDE DEF mA, mB
    <3>3. c - (r.objem - b.objem) \in 0 .. mB
      BY <3>1, <3>2, <2>2, <2>4, <1>9, <1>12
    <3> QED BY <3>3 DEF mB
  <2> QED BY <2>3, <2>4, <1>12
<1>20. a <= c /\ p.objem - b.objem <= a /\ r.objem - b.objem <= c /\ c \in Int
  <2>1. ResetDiff * uA \in Nat /\ ResetDiff * uB \in Nat
    BY <1>10, <1>12, Times
  <2> QED BY <2>1, <1>9, <1>11, <1>12, <1>18, <1>19
<1>21. ASSUME NEW x \in B \cup {b}
       PROVE  \E y \in B \cup {b} : x.objem - b.objem <= c + half(y)
  <2>1. CASE x \in A \cup {b}
    <3>1. PICK y \in A \cup {b} : x.objem - b.objem <= a + half(y)
      BY <2>1, <1>11
    <3>2. x.objem - b.objem <= c + half(y)
      BY <3>1, <2>1, <1>9, <1>12, <1>17, <1>20
    <3> QED BY <3>1, <3>2, <1>13
  <2>2. CASE x \in N
    <3>1. x.objem - b.objem <= c + half(b)
      BY <2>2, <1>7, <1>9, <1>12, <1>17, <1>20
    <3> QED BY <3>1
  <2>3. CASE x \in F
    <3>1. x.objem - b.objem <= c + half(r)
      BY <2>3, <1>12, <1>15, <1>17, <1>20
    <3> QED BY <3>1, <1>13
  <2>4. CASE x = r
    <3>1. x.objem - b.objem <= c + half(b)
      BY <2>4, <1>12, <1>17, <1>20
    <3> QED BY <3>1
  <2> QED BY <2>1, <2>2, <2>3, <2>4, <1>14
<1> QED BY <1>19, <1>21 DEF Accounted, B, c, uB, half

\* The measurements of a segment behind which no slot was left without its end.
Settled(b, rows) ==
  {r \in Segment(b, rows) \cup {b} : ~r.synthetic /\ Whole(Upto(r, rows))}

\* No slot lies between a row that has run back and the one that it follows.
LEMMA NoSlotBehind ==
  ASSUME NEW rows \in SUBSET Row, OneOfDate(rows), \A s \in rows : s.synthetic => Filler(s),
         NEW r \in rows, NEW p \in rows, Follows(p, r, rows), RanBack(p, r, rows),
         Whole(Upto(r, rows)), NEW s \in Between(p, r, rows)
  PROVE  ~s.synthetic
<1> SUFFICES ASSUME s.synthetic PROVE FALSE
  OBVIOUS
<1>1. \A x \in rows : x.date \in Nat
  BY RowTyped
<1>2. s \in rows /\ p.date < s.date /\ s.date < r.date
  BY DEF Between
<1>3. s \in Upto(r, rows)
  BY <1>1, <1>2 DEF Upto
<1>4. PICK g \in Upto(r, rows) : g.platne /\ g.gap /\ s.date < g.date
  BY <1>3 DEF Whole
<1>5. g \in rows /\ g.date <= r.date
  BY <1>4 DEF Upto
<1>6. g # r
  BY <1>4 DEF RanBack
<1>7. g.date # r.date
  BY <1>5, <1>6 DEF OneOfDate
<1>8. g \in Between(p, r, rows)
  BY <1>1, <1>2, <1>4, <1>5, <1>7 DEF Between
<1>9. g.synthetic
  BY <1>4, <1>8 DEF Follows
<1> QED BY <1>4, <1>5, <1>9 DEF Filler

\* The first row of a segment is a measurement.
LEMMA BaseIsMeasured ==
  ASSUME NEW rows \in SUBSET Row, Linked(rows), NEW b, Base(b, rows)
  PROVE  ~b.synthetic
<1>1. b \in rows /\ \A x \in rows : x.date \in Nat
  BY RowTyped DEF Base
<1> SUFFICES ASSUME b.synthetic PROVE FALSE
  OBVIOUS
<1>2. Filler(b) /\ \E e \in rows : e.platne /\ e.date < b.date
  BY <1>1 DEF Linked
<1>3. ~b.reset
  BY <1>2 DEF Filler
<1> QED BY <1>1, <1>2, <1>3 DEF Base

\* One row further, when all before it are accounted.
LEMMA AccountedNext ==
  ASSUME NEW rows \in SUBSET Row, IsFiniteSet(rows), OneOfDate(rows), Linked(rows),
         NEW b, Base(b, rows), NEW r \in Settled(b, rows),
         \A q \in Settled(b, rows) : q.date < r.date => Accounted(b, q, rows)
  PROVE  Accounted(b, r, rows)
<1>1. \A x \in rows : x.date \in Nat /\ x.objem \in Nat /\ x.date \div (2 * Interval) \in Nat
  BY RowTyped
<1>2. b \in rows /\ b.platne /\ ~b.synthetic
  BY BaseIsMeasured DEF Base
<1>3. CASE r = b
  <2>1. SoFar(b, r, rows) = {}
    BY <1>1, <1>2, <1>3 DEF SoFar, Segment
  <2>2. Uncounted({}) = {} /\ Cardinality({}) = 0 /\ Consumption({}) = 0
    BY FS_EmptySet, ConsumptionOfNone DEF Uncounted
  <2>3. ResetDiff * 0 = 0 /\ 0 - (r.objem - b.objem) = 0
    BY <1>1, <1>2, <1>3, ImportAssumption
  <2>4. b.objem - b.objem <= 0 + (b.date \div (2 * Interval))
    BY <1>1, <1>2
  <2> DEFINE half == b.date \div (2 * Interval)
  <2> HIDE DEF half
  <2>5. \A x \in {} \cup {b} : \E y \in {} \cup {b} :
          x.objem - b.objem <= 0 + (y.date \div (2 * Interval))
    BY <2>4
  <2>6. 0 - (r.objem - b.objem) \in 0 .. ResetDiff * Cardinality(Uncounted({}))
    BY <2>2, <2>3
  <2>7. LET S == {} IN
        /\ Consumption(S) - (r.objem - b.objem) \in 0 .. ResetDiff * Cardinality(Uncounted(S))
        /\ \A x \in S \cup {b} : \E y \in S \cup {b} :
             x.objem - b.objem <= Consumption(S) + (y.date \div (2 * Interval))
    BY <2>2, <2>5, <2>6
  <2> QED BY <2>1, <2>7 DEF Accounted
<1>4. CASE r # b
  <2>1. r \in Segment(b, rows) /\ ~r.synthetic /\ Whole(Upto(r, rows))
    BY <1>4 DEF Settled
  <2>2. r \in rows /\ r.platne /\ r.date > b.date
    BY <2>1 DEF Segment
  <2>3. ~r.reset
    <3>1. ~Base(r, rows)
      BY <1>1, <1>2, <2>1, <2>2 DEF Segment
    <3> QED BY <3>1, <2>2 DEF Base
  <2>4. \E e \in rows : e.platne /\ e.date < r.date
    BY <1>1, <1>2, <2>2
  <2>5. PICK p \in rows : Follows(p, r, rows)
    BY <2>1, <2>2, <2>3, <2>4 DEF Linked
  <2>6. (p = b \/ p \in Segment(b, rows)) /\ p.date < r.date
    BY <1>2, <2>1, <2>5, FollowsInSegment
  <2>7. p \in Settled(b, rows)
    BY <2>5, <2>6 DEF Settled, Follows
  <2>8. Accounted(b, p, rows)
    BY <2>6, <2>7
  <2>9. RanBack(p, r, rows) => \A x \in Between(p, r, rows) : ~x.synthetic
    BY <2>1, <2>2, <2>5, NoSlotBehind DEF Linked
  <2>10. \A s \in rows : s.synthetic => s.delta \in Int
    BY DEF Linked, Filler
  <2> QED BY <1>2, <2>1, <2>5, <2>8, <2>9, <2>10, AccountedOn
<1> QED BY <1>3, <1>4

\* All measurements of a segment behind which no slot was left without its end.
LEMMA AllAccounted ==
  ASSUME NEW rows \in SUBSET Row, IsFiniteSet(rows), OneOfDate(rows), Linked(rows),
         NEW b, Base(b, rows), NEW r \in Settled(b, rows)
  PROVE  Accounted(b, r, rows)
<1>1. \A x \in Settled(b, rows) : x \in rows /\ x.date \in Nat
  BY RowTyped DEF Settled, Segment, Base
<1> DEFINE n == r.date + 1
           T == {i \in 0 .. n : \A q \in Settled(b, rows) : q.date < i => Accounted(b, q, rows)}
<1>2. n \in Nat
  BY <1>1
<1>3. 0 \in T
  BY <1>1, <1>2
<1>4. ASSUME NEW i \in 1 .. n, i - 1 \in T PROVE i \in T
  <2> SUFFICES ASSUME NEW q \in Settled(b, rows), q.date < i PROVE Accounted(b, q, rows)
    BY <1>2
  <2>1. \A x \in Settled(b, rows) : x.date < q.date => x.date < i - 1
    BY <1>1
  <2>2. \A x \in Settled(b, rows) : x.date < q.date => Accounted(b, x, rows)
    BY <1>4, <2>1
  <2> QED BY <2>2, AccountedNext
<1> HIDE DEF T
<1>5. n \in T
  BY <1>2, <1>3, <1>4, AllSteps DEF T
<1>6. r.date < n
  BY <1>1
<1> QED BY <1>5, <1>6 DEF T

\* The last measurement of a segment has all of it behind it.
LEMMA EndOfSegment ==
  ASSUME NEW rows \in SUBSET Row, IsFiniteSet(rows), OneOfDate(rows), Linked(rows),
         Whole(rows), NEW b, Base(b, rows)
  PROVE  \E r \in Settled(b, rows) : SoFar(b, r, rows) = Segment(b, rows)
<1> DEFINE S == Segment(b, rows) \cup {b}
           r == LastValid(S)
<1>1. \A x \in rows : x.date \in Nat /\ x # None
  BY NoneAssumption, RowTyped
<1>2. b \in rows /\ b.platne
  BY DEF Base
<1>3. S \in SUBSET rows /\ b \in S /\ \A x \in S : x.platne /\ x.date >= b.date
  BY <1>1, <1>2 DEF Segment
<1>4. IsFiniteSet(S)
  BY <1>3, FS_Subset
<1> HIDE DEF S
<1>5. r \in S /\ \A x \in S : x.date <= r.date
  BY <1>1, <1>3, <1>4, LastValidIs
<1> HIDE DEF r
<1>6. SoFar(b, r, rows) = Segment(b, rows)
  BY <1>5 DEF SoFar, S
<1>7. \E W \in SUBSET rows : /\ Whole(W) /\ Upto(r, rows) \subseteq W
                             /\ \A x \in W : x.platne => x.date <= r.date
  <2> DEFINE later == {c \in rows : Base(c, rows) /\ c.date > b.date}
  <2>0. r \in rows /\ r.date \in Nat /\ b.date \in Nat /\ b.date <= r.date
    BY <1>1, <1>3, <1>5
  <2>1. CASE later = {}
    <3>1. ASSUME NEW x \in rows, x.platne PROVE x.date <= r.date
      <4> SUFFICES ASSUME ~(x.date <= r.date) PROVE FALSE
        OBVIOUS
      <4>1. x.date > b.date
        BY <1>1, <2>0
      <4>2. \A c \in rows : Base(c, rows) => c.date <= b.date
        BY <1>1, <2>0, <2>1
      <4>3. x \in S
        BY <3>1, <4>1, <4>2 DEF Segment, S
      <4> QED BY <4>3, <1>5
    <3>2. Upto(r, rows) \subseteq rows
      BY DEF Upto
    <3> QED BY <3>1, <3>2
  <2>2. CASE later # {}
    <3> DEFINE dates == {c.date : c \in later}
    <3>1. dates \in SUBSET Nat /\ dates # {}
      BY <1>1, <2>2
    <3>2. PICK n \in dates : \A m \in dates : n <= m
      BY <3>1, Smallest
    <3>3. PICK c \in later : n = c.date
      OBVIOUS
    <3>4. \A d \in rows : Base(d, rows) /\ d.date > b.date => c.date <= d.date
      <4>1. \A d \in later : d.date \in dates
        OBVIOUS
      <4> HIDE DEF dates
      <4> QED BY <3>2, <3>3, <4>1
    <3>5. c \in rows /\ Base(c, rows) /\ c.date > b.date
      OBVIOUS
    <3> HIDE DEF later, dates
    <3>6. c.platne /\ c.reset
      BY <1>1, <1>2, <2>0, <3>5 DEF Base
    <3>7. Whole(Before(c, rows))
      BY <3>5, <3>6 DEF Linked
    <3>8. r.date < c.date
      <4>1. CASE r = b
        BY <4>1, <1>1, <3>5
      <4>2. CASE r \in Segment(b, rows)
        BY <4>2, <1>1, <2>0, <3>5 DEF Segment
      <4> QED BY <4>1, <4>2, <1>5 DEF S
    <3>9. Upto(r, rows) \subseteq Before(c, rows)
      BY <1>1, <2>0, <3>5, <3>8 DEF Upto, Before
    <3>10. ASSUME NEW x \in Before(c, rows), x.platne PROVE x.date <= r.date
      <4> SUFFICES ASSUME ~(x.date <= r.date) PROVE FALSE
        OBVIOUS
      <4>1. x \in rows /\ x.date < c.date /\ x.date > b.date
        BY <1>1, <2>0 DEF Before
      <4>2. \A d \in rows : Base(d, rows) => d.date <= b.date \/ x.date < d.date
        <5> SUFFICES ASSUME NEW d \in rows, Base(d, rows), d.date > b.date
                     PROVE  x.date < d.date
          BY <1>1, <2>0
        <5>1. c.date <= d.date
          BY <3>4
        <5> QED BY <5>1, <4>1, <1>1, <3>5
      <4>3. x \in S
        BY <3>10, <4>1, <4>2 DEF Segment, S
      <4> QED BY <4>3, <1>5
    <3>11. Before(c, rows) \in SUBSET rows
      BY DEF Before
    <3> QED BY <3>7, <3>9, <3>10, <3>11
  <2> QED BY <2>1, <2>2
<1>8. PICK W \in SUBSET rows : /\ Whole(W) /\ Upto(r, rows) \subseteq W
                               /\ \A x \in W : x.platne => x.date <= r.date
  BY <1>7
<1>9. r \in rows /\ r.date \in Nat /\ r \in Upto(r, rows)
  BY <1>1, <1>3, <1>5 DEF Upto
<1>10. ~r.synthetic
  <2> SUFFICES ASSUME r.synthetic PROVE FALSE
    OBVIOUS
  <2>1. PICK e \in W : e.platne /\ r.date < e.date
    BY <1>8, <1>9 DEF Whole
  <2> QED BY <2>1, <1>1, <1>8, <1>9
<1>11. Whole(Upto(r, rows))
  <2> SUFFICES ASSUME NEW s \in Upto(r, rows), s.synthetic
               PROVE  \E e \in Upto(r, rows) : e.platne /\ e.gap /\ s.date < e.date
    BY DEF Whole
  <2>1. PICK e \in W : e.platne /\ e.gap /\ s.date < e.date
    BY <1>8 DEF Whole
  <2>2. e \in Upto(r, rows)
    BY <2>1, <1>8 DEF Upto
  <2> QED BY <2>1, <2>2
<1>12. r \in Settled(b, rows)
  BY <1>5, <1>10, <1>11 DEF Settled, S
<1> QED BY <1>6, <1>12

\* The largest of finitely many numbers.
LEMMA MaxOf ==
  ASSUME NEW T, IsFiniteSet(T), T # {}, NEW f \in [T -> Nat]
  PROVE  LET m == Max({f[x] : x \in T})
         IN  (\E x \in T : m = f[x]) /\ m \in Nat /\ \A x \in T : f[x] <= m
<1> DEFINE V == {f[x] : x \in T}
<1>1. PICK n \in Nat : ExistsBijection(1 .. n, T)
  BY FS_NatBijection
<1>2. PICK g \in Bijection(1 .. n, T) : TRUE
  BY <1>1 DEF ExistsBijection
<1>3. g \in [1 .. n -> T] /\ \A x \in T : \E i \in 1 .. n : g[i] = x
  BY <1>2 DEF Bijection, Injection, Surjection
<1>4. n # 0
  BY <1>3
<1> DEFINE h == [i \in 1 .. n |-> f[g[i]]]
<1>5. h \in [1 .. n -> Nat]
  BY <1>3
<1>6. PICK i \in 1 .. n : \A j \in 1 .. n : h[j] <= h[i]
  BY <1>4, <1>5, LargestValue
<1>7. \A x \in T : f[x] <= f[g[i]]
  BY <1>3, <1>6
<1>8. g[i] \in T
  BY <1>3
<1>9. \E m \in V : \A y \in V : m >= y
  <2>1. f[g[i]] \in V /\ \A y \in V : f[g[i]] >= y
    BY <1>7, <1>8
  <2> QED BY <2>1
<1>10. Max(V) \in V /\ \A y \in V : Max(V) >= y
  BY <1>9 DEF Max
<1> DEFINE m == Max(V)
<1>11. m \in V /\ \A y \in V : m >= y
  BY <1>10
<1> HIDE DEF m
<1>12. (\E x \in T : m = f[x]) /\ m \in Nat /\ \A x \in T : f[x] <= m
  BY <1>11
<1> QED BY <1>12 DEF m

LEMMA HalfGrows ==
  ASSUME NEW u \in Nat, NEW v \in Nat, u <= v
  PROVE  u \div (2 * Interval) <= v \div (2 * Interval)
<1> DEFINE w == 2 * Interval
           p == u \div w
           q == v \div w
<1>1. w \in Nat \ {0}
  BY ImportAssumption
<1> HIDE DEF w
<1>2. p \in Nat /\ w * p <= u /\ q \in Nat /\ v < w * q + w
  BY <1>1, Div
<1> HIDE DEF p, q
<1>3. w * p < w * q + w
  <2>1. w * p \in Nat /\ w * q \in Nat
    BY <1>1, <1>2
  <2> QED BY <2>1, <1>1, <1>2
<1>4. ~(q + 1 <= p)
  <2> SUFFICES ASSUME q + 1 <= p PROVE FALSE
    OBVIOUS
  <2>1. w * q + w <= w * p
    BY <1>1, <1>2, Times
  <2>2. w * p \in Nat /\ w * q \in Nat
    BY <1>1, <1>2
  <2> QED BY <2>1, <2>2, <1>1, <1>3
<1> QED BY <1>2, <1>4 DEF p, q, w

\* What a chain that is linked and whole says of the rows between two resets.
LEMMA SegmentsAccounted ==
  ASSUME table \in SUBSET Row, IsFiniteSet(table), OneRowPerDate,
         Whole(table), Linked(table), NEW b \in Baselines
  PROVE  Consumption(After(b)) - (Peak(b) - b.objem)
           \in -Rounding(b) .. ResetDiff * Cardinality({r \in After(b) : r.delta = None})
<1> DEFINE S == Segment(b, table)
           T == S \cup {b}
           total == Consumption(S)
           most == ResetDiff * Cardinality(Uncounted(S))
           objem == [x \in T |-> x.objem]
           date == [x \in T |-> x.date]
<1>1. \A x \in table : Base(x, table) <=> x \in Baselines
  BY DEF Base, Baselines, Valid
<1>2. b \in table /\ Base(b, table)
  BY <1>1 DEF Baselines, Valid
<1>3. After(b) = S
  <2>1. \A c \in Baselines : c \in table
    BY DEF Baselines, Valid
  <2>2. \A r : (\A c \in Baselines : c.date <= b.date \/ r.date < c.date)
            <=> (\A c \in table : Base(c, table) => c.date <= b.date \/ r.date < c.date)
    BY <1>1, <2>1
  <2> QED BY <2>2 DEF After, Segment, Valid
<1>4. OneOfDate(table)
  BY DEF OneRowPerDate, OneOfDate
<1>5. PICK r \in Settled(b, table) : SoFar(b, r, table) = S
  BY <1>2, <1>4, EndOfSegment
<1>6. Accounted(b, r, table)
  BY <1>2, <1>4, AllAccounted
<1>7. /\ total - (r.objem - b.objem) \in 0 .. most
      /\ \A x \in T : \E y \in T : x.objem - b.objem <= total + (y.date \div (2 * Interval))
  BY <1>5, <1>6 DEF Accounted
<1>8. T \in SUBSET table /\ r \in T /\ b \in T
  BY <1>2 DEF Segment, Settled
<1> HIDE DEF S
<1>9. IsFiniteSet(T) /\ T # {} /\ IsFiniteSet(S) /\ S \subseteq T
  BY <1>8, FS_Subset
<1>10. \A x \in T : /\ x.date \in Nat /\ x.objem \in Nat /\ Delta(x) \in Int
                    /\ x.date \div (2 * Interval) \in Nat
  BY <1>8, RowTyped
<1>11. objem \in [T -> Nat] /\ date \in [T -> Nat]
  BY <1>10
<1>12. total \in Int
  BY <1>9, <1>10, ConsumptionTyped
<1>13. Peak(b) = Max({objem[x] : x \in T}) /\ Rounding(b) = Max({date[x] : x \in T}) \div (2 * Interval)
  <2>1. {objem[x] : x \in T} = {x.objem : x \in T} /\ {date[x] : x \in T} = {x.date : x \in T}
    OBVIOUS
  <2> QED BY <2>1, <1>3 DEF Peak, Rounding
<1>14. Cardinality({x \in After(b) : x.delta = None}) = Cardinality(Uncounted(S))
  BY <1>3 DEF Uncounted
<1> HIDE DEF T, total, objem, date
<1>15. (\E x \in T : Peak(b) = objem[x]) /\ Peak(b) \in Nat /\ \A x \in T : objem[x] <= Peak(b)
  <2> DEFINE m == Max({objem[x] : x \in T})
  <2>1. (\E x \in T : m = objem[x]) /\ m \in Nat /\ \A x \in T : objem[x] <= m
    BY <1>9, <1>11, MaxOf
  <2>2. Peak(b) = m
    BY <1>13
  <2> HIDE DEF m
  <2> QED BY <2>1, <2>2
<1> DEFINE d == Max({date[x] : x \in T})
<1>16. d \in Nat /\ \A x \in T : date[x] <= d
  BY <1>9, <1>11, MaxOf
<1> HIDE DEF d
<1>17. PICK x \in T : Peak(b) = x.objem
  BY <1>15 DEF objem
<1>18. PICK y \in T : x.objem - b.objem <= total + (y.date \div (2 * Interval))
  BY <1>7
<1>19. y.date <= d
  BY <1>16 DEF date
<1>20. y.date \div (2 * Interval) <= d \div (2 * Interval)
  BY <1>10, <1>16, <1>19, HalfGrows
<1>21. r.objem <= Peak(b)
  BY <1>8, <1>15 DEF objem
<1> DEFINE half == y.date \div (2 * Interval)
           bound == d \div (2 * Interval)
<1>22. /\ bound \in Nat /\ half \in Nat /\ half <= bound /\ Rounding(b) = bound
       /\ Peak(b) - b.objem <= total + half
  <2>1. d \div (2 * Interval) \in Nat
    <3>1. 2 * Interval \in Nat \ {0}
      BY ImportAssumption
    <3> QED BY <3>1, <1>16, Div
  <2> QED BY <2>1, <1>10, <1>13, <1>17, <1>18, <1>20 DEF d
<1>23. most \in Nat
  <2>1. Cardinality(Uncounted(S)) \in Nat
    <3>1. IsFiniteSet(Uncounted(S))
      BY <1>9, FS_Subset DEF Uncounted
    <3> QED BY <3>1, FS_CardinalityType
  <2> QED BY <2>1, ImportAssumption
<1> HIDE DEF half, bound, most
<1>24. total - (Peak(b) - b.objem) \in -bound .. most
  BY <1>7, <1>8, <1>10, <1>12, <1>15, <1>21, <1>22, <1>23
<1> QED BY <1>3, <1>14, <1>22, <1>24 DEF total, most

-----------------------------------------------------------------------------
(***************************************************************************)
(* The loop of prepare_rows leaves a linked chain.                         *)
(***************************************************************************)
\* What p has behind and in front of it decides whether r follows.
LEMMA FollowsSame ==
  ASSUME NEW p, NEW r, NEW A, NEW B, Follows(p, r, A),
         Between(p, r, A) = Between(p, r, B), Upto(p, A) = Upto(p, B)
  PROVE  Follows(p, r, B)
<1>1. CountsFrom(p, r, B)
  <2>1. /\ \A x \in A : x.platne /\ p.date < x.date /\ x.date < r.date => x \in B
        /\ \A x \in B : x.platne /\ p.date < x.date /\ x.date < r.date => x \in A
    BY DEF Between
  <2> QED BY <2>1, SameBetween DEF Follows
<1> QED BY <1>1 DEF Follows, RanBack, Advanced

\* A linked chain stays one when its end is cut off.
LEMMA LinkedCut ==
  ASSUME NEW rows \in SUBSET Row, Linked(rows), NEW date \in Nat
  PROVE  Linked({r \in rows : r.date < date})
<1> DEFINE A == {r \in rows : r.date < date}
<1>1. \A x \in rows : x.date \in Nat
  BY RowTyped
<1>2. A \subseteq rows /\ \A x \in rows : \A r \in A : x.date <= r.date => x \in A
  BY <1>1
<1>3. ASSUME NEW s \in A, s.synthetic
      PROVE  Filler(s) /\ \E e \in A : e.platne /\ e.date < s.date
  <2>1. Filler(s) /\ \E e \in rows : e.platne /\ e.date < s.date
    BY <1>2, <1>3 DEF Linked
  <2> QED BY <2>1, <1>1
<1>4. ASSUME NEW c \in A, c.platne, c.reset PROVE Whole(Before(c, A))
  <2>1. Before(c, A) = Before(c, rows)
    BY <1>1 DEF Before
  <2> QED BY <2>1, <1>2, <1>4 DEF Linked
<1>5. ASSUME NEW r \in A, r.platne, ~r.synthetic, ~r.reset,
             \E e \in A : e.platne /\ e.date < r.date
      PROVE  \E p \in A : Follows(p, r, A)
  <2>1. PICK p \in rows : Follows(p, r, rows)
    BY <1>2, <1>5 DEF Linked
  <2>2. p.date < r.date
    BY <2>1 DEF Follows, CountsFrom
  <2>3. p \in A
    BY <2>2, <1>1
  <2>4. Between(p, r, rows) = Between(p, r, A) /\ Upto(p, rows) = Upto(p, A)
    BY <2>2, <1>1 DEF Between, Upto
  <2> HIDE DEF A
  <2>5. Follows(p, r, A)
    BY <2>1, <2>4, FollowsSame
  <2> QED BY <2>3, <2>5
<1> HIDE DEF A
<1>6. Linked(A)
  BY <1>3, <1>4, <1>5 DEF Linked
<1> QED BY <1>6 DEF A

\* It grows by a measurement that is later than all.
LEMMA LinkedGrows ==
  ASSUME NEW rows \in SUBSET Row, Linked(rows), NEW row \in Row, ~row.synthetic,
         \A x \in rows : x.date < row.date,
         row.platne /\ row.reset => Whole(rows),
         row.platne /\ ~row.reset /\ (\E e \in rows : e.platne) =>
           \E p \in rows : Follows(p, row, rows)
  PROVE  Linked(rows \cup {row})
<1> DEFINE B == rows \cup {row}
<1>1. (\A x \in B : x.date \in Nat) /\ row.date \in Nat
  BY RowTyped
<1>2. rows \subseteq B
  OBVIOUS
<1>3. ASSUME NEW s \in B, s.synthetic
      PROVE  Filler(s) /\ \E e \in B : e.platne /\ e.date < s.date
  BY <1>3 DEF Linked
<1>4. ASSUME NEW c \in B, c.platne, c.reset PROVE Whole(Before(c, B))
  <2>1. CASE c \in rows
    <3>1. Before(c, B) = Before(c, rows)
      BY <1>1, <2>1 DEF Before
    <3> QED BY <2>1, <3>1, <1>4 DEF Linked
  <2>2. CASE c = row
    <3>1. Before(c, B) = rows
      BY <1>1, <2>2 DEF Before
    <3> QED BY <2>2, <3>1, <1>4
  <2> QED BY <2>1, <2>2
<1>5. ASSUME NEW r \in B, r.platne, ~r.synthetic, ~r.reset,
             NEW e \in B, e.platne, e.date < r.date
      PROVE  \E p \in B : Follows(p, r, B)
  <2>1. e \in rows
    BY <1>1, <1>5
  <2>2. \E p \in rows : Follows(p, r, rows)
    <3>1. CASE r \in rows
      BY <3>1, <2>1, <1>5 DEF Linked
    <3>2. CASE r = row
      BY <3>2, <2>1, <1>5
    <3> QED BY <3>1, <3>2
  <2>3. PICK p \in rows : Follows(p, r, rows)
    BY <2>2
  <2>4. Between(p, r, rows) = Between(p, r, B) /\ Upto(p, rows) = Upto(p, B)
    <3>1. r.date <= row.date
      BY <1>1
    <3> QED BY <3>1, <1>1 DEF Between, Upto
  <2> HIDE DEF B
  <2>5. Follows(p, r, B)
    BY <2>3, <2>4, FollowsSame
  <2> QED BY <2>5, <1>2
<1> HIDE DEF B
<1>6. Linked(B)
  BY <1>3, <1>4, <1>5 DEF Linked
<1> QED BY <1>6 DEF B

\* The measurement that the deltas count on from: the valid rows later than it have
\* run back from it, and no slot behind it was left without its end.
Anchor(p, rows) ==
  /\ p \in rows /\ p.platne /\ ~p.synthetic
  /\ CountsOn(p, rows) /\ Whole(Upto(p, rows))
  /\ \A x \in rows : x.platne /\ p.date < x.date => RanBack(p, x, rows)

LEMMA AnchorFollowed ==
  ASSUME NEW rows \in SUBSET Row, NEW p \in Row, p.platne, ~p.synthetic, Whole(Upto(p, rows)),
         \A x \in rows : x.platne /\ p.date < x.date /\ ~x.synthetic =>
           ~x.reset /\ x.delta = None /\ x.objem < p.objem /\ ~x.gap,
         NEW r \in Row, p.date < r.date, RanBack(p, r, rows)
  PROVE  Follows(p, r, rows)
<1> DEFINE between == {x \in rows : x.platne /\ p.date < x.date /\ x.date < r.date}
           inside == {x \in between : x.synthetic}
<1>1. \A x \in between \ inside : ~x.reset /\ x.delta = None /\ x.objem < p.objem /\ ~x.gap
  OBVIOUS
<1>2. r.delta = None /\ r.objem - p.objem <= 0
  BY RowTyped DEF RanBack
<1>3. CountsFrom(p, r, rows)
  <2>1. LET total == r.objem - p.objem
        IN /\ p.date < r.date
           /\ \A x \in between \ inside : x.delta = None /\ ~x.reset /\ x.objem < p.objem
           /\ r.delta = None => total <= 0
           /\ r.delta # None =>
                /\ inside = {} => r.delta = total
                /\ \A x \in inside : r.delta + x.delta * Cardinality(inside) = total
    BY <1>1, <1>2
  <2> QED BY <2>1 DEF CountsFrom
<1>4. \A x \in Between(p, r, rows) : ~x.synthetic => ~x.gap
  BY <1>1 DEF Between
<1> QED BY <1>3, <1>4 DEF Follows

\* Filling slots behind the anchor leaves a linked chain.
LEMMA LinkedFilled ==
  ASSUME NEW rows \in SUBSET Row, Linked(rows), NEW p, Anchor(p, rows),
         NEW filled \in SUBSET Row, \A x \in filled : Filler(x) /\ p.date < x.date
  PROVE  /\ Linked(rows \cup filled)
         /\ Upto(p, rows \cup filled) = Upto(p, rows)
<1> DEFINE B == rows \cup filled
<1>1. /\ \A x \in B : x.date \in Nat
      /\ p \in rows /\ p.platne /\ ~p.synthetic /\ p.date \in Nat
  BY RowTyped DEF Anchor
<1>2. rows \subseteq B
  OBVIOUS
<1>3. ASSUME NEW d \in B, d.date <= p.date
      PROVE  /\ d \in rows
             /\ \A q \in rows : Between(q, d, rows) = Between(q, d, B)
             /\ \A q \in rows : q.date < d.date => Upto(q, rows) = Upto(q, B)
             /\ Upto(d, rows) = Upto(d, B) /\ Before(d, rows) = Before(d, B)
  <2>1. \A x \in B : x.date <= d.date => x \in rows
    BY <1>1, <1>3
  <2>2. d \in rows
    BY <1>1, <2>1
  <2>3. \A x \in B : x.date < d.date => x \in rows
    BY <1>1, <2>1
  <2>4. ASSUME NEW q \in rows, q.date < d.date PROVE Upto(q, rows) = Upto(q, B)
    <3>1. \A x \in B : x.date <= q.date => x \in rows
      <4> SUFFICES ASSUME NEW x \in filled, x.date <= q.date PROVE FALSE
        OBVIOUS
      <4>1. p.date < x.date /\ x.date \in Nat /\ d.date \in Nat /\ q.date \in Nat
        BY <1>1
      <4> QED BY <4>1, <2>4, <1>1, <1>3
    <3> HIDE DEF B
    <3> QED BY <3>1, <1>2 DEF Upto
  <2> HIDE DEF B
  <2> QED BY <1>2, <2>1, <2>2, <2>3, <2>4 DEF Between, Upto, Before
<1>4. Upto(p, rows) = Upto(p, B)
  <2>1. p \in B /\ p.date <= p.date
    BY <1>1
  <2> QED BY <2>1, <1>3
<1>5. \A x \in filled : x.synthetic /\ x.platne /\ ~x.reset /\ p.date < x.date
  BY DEF Filler
<1>6. ASSUME NEW s \in B, s.synthetic
      PROVE  Filler(s) /\ \E e \in B : e.platne /\ e.date < s.date
  <2>1. CASE s \in rows
    BY <1>6, <2>1 DEF Linked
  <2>2. CASE s \in filled
    BY <1>1, <2>2
  <2> QED BY <2>1, <2>2
<1>7. ASSUME NEW c \in B, c.platne, c.reset PROVE Whole(Before(c, B))
  <2>1. c \in rows
    BY <1>5, <1>7
  <2>2. ~(p.date < c.date)
    BY <1>7, <2>1 DEF Anchor, CountsOn
  <2>3. Before(c, rows) = Before(c, B)
    <3>1. c.date <= p.date
      BY <1>1, <2>2
    <3> HIDE DEF B
    <3> QED BY <3>1, <1>3
  <2> QED BY <1>7, <2>1, <2>3 DEF Linked
<1>8. ASSUME NEW r \in B, r.platne, ~r.synthetic, ~r.reset,
             NEW e \in B, e.platne, e.date < r.date
      PROVE  \E q \in B : Follows(q, r, B)
  <2>1. r \in rows
    BY <1>5, <1>8
  <2>2. CASE p.date < r.date
    <3>1. RanBack(p, r, rows)
      BY <1>8, <2>1, <2>2 DEF Anchor
    <3>2. RanBack(p, r, B)
      <4>1. Between(p, r, rows) \subseteq Between(p, r, B)
        BY <1>2 DEF Between
      <4> HIDE DEF B
      <4> QED BY <3>1, <4>1 DEF RanBack
    <3>3. \A x \in B : x.platne /\ p.date < x.date /\ ~x.synthetic =>
            ~x.reset /\ x.delta = None /\ x.objem < p.objem /\ ~x.gap
      BY <1>5 DEF Anchor, CountsOn, RanBack
    <3>4. Whole(Upto(p, B))
      BY <1>4 DEF Anchor
    <3>5. B \in SUBSET Row /\ p \in Row /\ r \in Row /\ p \in B
      BY <1>1, <2>1
    <3> HIDE DEF B
    <3>6. Follows(p, r, B)
      BY <2>2, <3>2, <3>3, <3>4, <3>5, <1>1, AnchorFollowed
    <3> QED BY <3>5, <3>6
  <2>3. CASE ~(p.date < r.date)
    <3>1. r.date <= p.date
      BY <2>3, <1>1
    <3>2. e \in rows
      <4>1. e.date <= p.date
        BY <1>1, <1>8, <3>1
      <4> QED BY <4>1, <1>3
    <3>3. PICK q \in rows : Follows(q, r, rows)
      BY <2>1, <3>2, <1>8 DEF Linked
    <3>4. q.date < r.date
      BY <3>3 DEF Follows, CountsFrom
    <3>5. Between(q, r, rows) = Between(q, r, B) /\ Upto(q, rows) = Upto(q, B)
      BY <3>1, <3>4, <1>3
    <3> HIDE DEF B
    <3>6. Follows(q, r, B)
      BY <3>3, <3>5, FollowsSame
    <3> QED BY <3>3, <3>6, <1>2
  <2> QED BY <2>2, <2>3
<1> HIDE DEF B
<1>9. Linked(B)
  BY <1>6, <1>7, <1>8 DEF Linked
<1> QED BY <1>4, <1>9 DEF B

\* Behind row i: prev is the anchor that prepare_rows counts on from, and last, what
\* filter_valid_rows counts on from, lies below it by no more than a reset, and only
\* if a row has run back.
LinkFrom(prev, last, rows) ==
  /\ prev = None => last = None /\ \A x \in rows : ~x.platne
  /\ prev # None =>
       /\ last # None /\ last.objem \in Nat
       /\ \E p : /\ Anchor(p, rows) /\ p.date = prev.date /\ p.objem = prev.objem
                 /\ last.objem >= p.objem - ResetDiff
                 /\ last.objem < p.objem => \E y \in rows : y.platne /\ p.date < y.date

\* The row that kept reading k has become resets as prepare_rows decides.
Decided(row, k, prev) ==
  /\ row.objem = k.objem
  /\ row.reset <=> k.reset /\ (prev = None \/ HasResetDiff(row.objem, prev.objem))

\* What is anchored stays so when only rows that ran back or are invalid follow.
LEMMA AnchorStays ==
  ASSUME NEW rows \in SUBSET Row, NEW p, Anchor(p, rows), NEW row \in Row, ~row.synthetic,
         \A x \in rows : x.date < row.date,
         row.platne => ~row.reset /\ RanBack(p, row, rows)
  PROVE  Anchor(p, rows \cup {row})
<1> DEFINE B == rows \cup {row}
<1>1. \A x \in B : x.date \in Nat
  BY RowTyped
<1>2. p \in rows /\ p.date < row.date
  BY DEF Anchor
<1>3. Upto(p, B) = Upto(p, rows)
  BY <1>1, <1>2 DEF Upto
<1>4. CountsOn(p, B)
  BY DEF Anchor, CountsOn, RanBack
<1>5. ASSUME NEW x \in B, x.platne, p.date < x.date PROVE RanBack(p, x, B)
  <2>1. RanBack(p, x, rows)
    BY <1>5 DEF Anchor
  <2>2. Between(p, x, rows) \subseteq Between(p, x, B)
    BY DEF Between
  <2> HIDE DEF B
  <2> QED BY <2>1, <2>2 DEF RanBack
<1> HIDE DEF B
<1>6. p \in B
  BY <1>2 DEF B
<1>7. Anchor(p, B)
  BY <1>3, <1>4, <1>5, <1>6 DEF Anchor
<1> QED BY <1>7 DEF B

\* The latest row of a chain that is whole is an anchor.
LEMMA AnchorAtEnd ==
  ASSUME NEW rows \in SUBSET Row, Whole(rows), NEW p \in rows, p.platne, ~p.synthetic,
         \A x \in rows : x.platne => x.date <= p.date
  PROVE  Anchor(p, rows)
<1>1. (\A x \in rows : x.date \in Nat) /\ p.date \in Nat
  BY RowTyped
<1>2. \A x \in rows : x.platne => ~(p.date < x.date)
  BY <1>1
<1>3. Whole(Upto(p, rows))
  <2> SUFFICES ASSUME NEW s \in Upto(p, rows), s.synthetic
               PROVE  \E e \in Upto(p, rows) : e.platne /\ e.gap /\ s.date < e.date
    BY DEF Whole
  <2>1. PICK e \in rows : e.platne /\ e.gap /\ s.date < e.date
    BY DEF Upto, Whole
  <2> QED BY <2>1 DEF Upto
<1> QED BY <1>2, <1>3 DEF Anchor, CountsOn

LEMMA WholeGrows ==
  ASSUME NEW rows, Whole(rows), NEW row, ~row.synthetic
  PROVE  Whole(rows \cup {row})
BY DEF Whole

LEMMA LinkAnew ==
  ASSUME NEW all \in SUBSET Row, Linked(all), Whole(all), NEW prev, NEW last, NEW now,
         LinkFrom(prev, last, all), NEW row \in Row, ~row.synthetic,
         \A x \in all : x.date < row.date,
         NEW k, WatchStep(last, k, now), Decided(row, k, prev), StartsAnew(prev, row)
  PROVE  Linked(all \cup {row}) /\ Whole(all \cup {row}) /\ LinkFrom(row, now, all \cup {row})
<1> DEFINE B == all \cup {row}
<1>1. row.date \in Nat /\ row.objem \in Nat /\ row # None /\ \A x \in all : x.date \in Nat
  BY NoneAssumption, RowTyped
<1>2. Linked(B)
  <2>1. row.platne /\ ~row.reset /\ (\E e \in all : e.platne) => FALSE
    BY DEF StartsAnew, LinkFrom
  <2> QED BY <2>1, LinkedGrows
<1>3. Whole(B)
  BY WholeGrows
<1>4. Anchor(row, B)
  <2>1. \A x \in B : x.platne => x.date <= row.date
    BY <1>1
  <2>2. row \in B /\ B \in SUBSET Row /\ row.platne
    BY DEF StartsAnew
  <2> HIDE DEF B
  <2> QED BY <1>3, <2>1, <2>2, AnchorAtEnd
<1>5. now # None /\ now.objem = row.objem
  <2>1. k.reset \/ last = None
    BY DEF StartsAnew, Decided, LinkFrom
  <2> QED BY <2>1 DEF WatchStep, Advances, Decided
<1> HIDE DEF B
<1>6. LinkFrom(row, now, B)
  <2>1. now.objem >= row.objem - ResetDiff /\ ~(now.objem < row.objem) /\ now.objem \in Nat
    BY <1>1, <1>5, ImportAssumption
  <2> QED BY <1>1, <1>4, <1>5, <2>1 DEF LinkFrom
<1> QED BY <1>2, <1>3, <1>6 DEF B

LEMMA LinkBack ==
  ASSUME NEW all \in SUBSET Row, Linked(all), Whole(all), NEW prev, NEW last, NEW now,
         LinkFrom(prev, last, all), NEW row \in Row, ~row.synthetic,
         \A x \in all : x.date < row.date,
         NEW k, WatchStep(last, k, now), Decided(row, k, prev), RunsBack(prev, row)
  PROVE  Linked(all \cup {row}) /\ Whole(all \cup {row}) /\ LinkFrom(prev, now, all \cup {row})
<1> DEFINE B == all \cup {row}
<1>0. prev # None
  BY DEF RunsBack
<1>1. PICK p : /\ Anchor(p, all) /\ p.date = prev.date /\ p.objem = prev.objem
               /\ last.objem >= p.objem - ResetDiff
               /\ last.objem < p.objem => \E y \in all : y.platne /\ p.date < y.date
  BY <1>0 DEF LinkFrom
<1>2. last # None /\ last.objem \in Nat
  BY <1>0 DEF LinkFrom
<1>3. p \in all /\ p \in Row /\ p.objem \in Nat /\ row.objem \in Nat /\ ResetDiff \in Nat
  BY <1>1, RowTyped, ImportAssumption DEF Anchor
<1>4. /\ row.platne /\ ~row.reset /\ ~row.gap /\ row.delta = None
      /\ row.objem < p.objem /\ p.date < row.date
  BY <1>1, <1>3 DEF RunsBack
<1>5. /\ k.reset => p.objem - row.objem <= ResetDiff
      /\ ~k.reset => last.objem - row.objem <= ResetDiff
  <2>1. k.reset => ~HasResetDiff(row.objem, p.objem)
    BY <1>0, <1>1, <1>4 DEF Decided
  <2>2. ~k.reset => ~HasResetDiff(row.objem, last.objem)
    BY <1>2 DEF WatchStep, Decided
  <2> QED BY <2>1, <2>2, <1>2, <1>3 DEF HasResetDiff
<1>6. RanBack(p, row, all)
  <2>1. CASE p.objem - row.objem <= ResetDiff
    BY <2>1, <1>4 DEF RanBack
  <2>2. CASE ~(p.objem - row.objem <= ResetDiff)
    <3>1. last.objem - row.objem <= ResetDiff /\ last.objem < p.objem
      BY <2>2, <1>2, <1>3, <1>5
    <3>2. p.objem - row.objem <= 2 * ResetDiff
      BY <3>1, <1>1, <1>2, <1>3
    <3>3. PICK y \in all : y.platne /\ p.date < y.date
      BY <3>1, <1>1
    <3>4. y \in Between(p, row, all) /\ ~y.synthetic
      BY <3>3, <1>1 DEF Between, Anchor, CountsOn
    <3> QED BY <3>2, <3>4, <1>4 DEF RanBack
  <2> QED BY <2>1, <2>2
<1>7. Follows(p, row, all)
  <2>1. /\ p.platne /\ ~p.synthetic /\ Whole(Upto(p, all))
        /\ \A x \in all : x.platne /\ p.date < x.date /\ ~x.synthetic =>
             ~x.reset /\ x.delta = None /\ x.objem < p.objem /\ ~x.gap
    BY <1>1 DEF Anchor, CountsOn, RanBack
  <2> QED BY <2>1, <1>3, <1>4, <1>6, AnchorFollowed
<1>8. Linked(B)
  BY <1>3, <1>4, <1>7, LinkedGrows
<1>9. Whole(B) /\ Anchor(p, B)
  BY <1>1, <1>4, <1>6, WholeGrows, AnchorStays
<1>10. now # None /\ now.objem \in Nat /\ now.objem >= p.objem - ResetDiff
  <2>1. CASE k.reset
    <3>1. now # None /\ now.objem = row.objem
      BY <2>1 DEF WatchStep, Advances, Decided
    <3> QED BY <3>1, <2>1, <1>3, <1>5
  <2>2. CASE ~k.reset /\ row.objem >= last.objem
    <3>1. now # None /\ now.objem = row.objem
      BY <2>2 DEF WatchStep, Advances, Decided
    <3> QED BY <3>1, <2>2, <1>1, <1>2, <1>3
  <2>3. CASE ~k.reset /\ ~(row.objem >= last.objem)
    <3>1. now = last
      BY <2>3, <1>2 DEF WatchStep, Advances, Decided
    <3> QED BY <3>1, <1>1, <1>2
  <2> QED BY <2>1, <2>2, <2>3
<1>11. \E y \in B : y.platne /\ p.date < y.date
  BY <1>4
<1> HIDE DEF B
<1>12. LinkFrom(prev, now, B)
  BY <1>0, <1>1, <1>9, <1>10, <1>11 DEF LinkFrom
<1> QED BY <1>8, <1>9, <1>12 DEF B

LEMMA LinkAside ==
  ASSUME NEW all \in SUBSET Row, Linked(all), Whole(all), NEW prev, NEW last, NEW now,
         LinkFrom(prev, last, all), NEW row \in Row, ~row.synthetic,
         \A x \in all : x.date < row.date,
         NEW k, WatchStep(last, k, now), Decided(row, k, prev), SetAside(prev, row)
  PROVE  Linked(all \cup {row}) /\ Whole(all \cup {row}) /\ LinkFrom(prev, now, all \cup {row})
<1> DEFINE B == all \cup {row}
<1>0. prev # None /\ ~row.platne /\ row.objem >= prev.objem
  BY DEF SetAside
<1>1. PICK p : /\ Anchor(p, all) /\ p.date = prev.date /\ p.objem = prev.objem
               /\ last.objem >= p.objem - ResetDiff
               /\ last.objem < p.objem => \E y \in all : y.platne /\ p.date < y.date
  BY <1>0 DEF LinkFrom
<1>2. last # None /\ last.objem \in Nat
  BY <1>0 DEF LinkFrom
<1>3. p \in all /\ p.objem \in Nat /\ row.objem \in Nat /\ ResetDiff \in Nat
  BY <1>1, RowTyped, ImportAssumption DEF Anchor
<1>4. Linked(B) /\ Whole(B) /\ Anchor(p, B)
  BY <1>0, <1>1, LinkedGrows, WholeGrows, AnchorStays
<1>5. /\ now # None /\ now.objem \in Nat /\ now.objem >= p.objem - ResetDiff
      /\ now.objem < p.objem => \E y \in all : y.platne /\ p.date < y.date
  <2>1. CASE k.reset \/ row.objem >= last.objem
    <3>1. now # None /\ now.objem = row.objem
      BY <2>1 DEF WatchStep, Advances, Decided
    <3> QED BY <3>1, <1>0, <1>1, <1>3
  <2>2. CASE ~k.reset /\ ~(row.objem >= last.objem)
    <3>1. now = last
      BY <2>2, <1>2 DEF WatchStep, Advances, Decided
    <3> QED BY <3>1, <1>1, <1>2
  <2> QED BY <2>1, <2>2
<1>6. now.objem < p.objem => \E y \in B : y.platne /\ p.date < y.date
  BY <1>5
<1> HIDE DEF B
<1>7. LinkFrom(prev, now, B)
  BY <1>0, <1>1, <1>4, <1>5, <1>6 DEF LinkFrom
<1> QED BY <1>4, <1>7 DEF B

LEMMA LinkCounts ==
  ASSUME NEW all \in SUBSET Row, Linked(all), Whole(all), NEW prev, NEW last, NEW now,
         LinkFrom(prev, last, all), NEW row \in Row, ~row.synthetic,
         \A x \in all : x.date < row.date,
         NEW k, WatchStep(last, k, now), Decided(row, k, prev),
         NEW filled \in Seq(Row), Counts(prev, filled, row),
         \A j \in 1 .. Len(filled) : Filler(filled[j]) /\ filled[j].date < row.date
  PROVE  LET B == (all \cup Range(filled)) \cup {row}
         IN  Linked(B) /\ Whole(B) /\ LinkFrom(row, now, B)
<1> DEFINE F == Range(filled)
           A == all \cup F
           B == A \cup {row}
<1>0. prev # None /\ row.platne /\ ~row.reset /\ row.objem >= prev.objem
  BY DEF Counts
<1>1. PICK p : /\ Anchor(p, all) /\ p.date = prev.date /\ p.objem = prev.objem
  BY <1>0 DEF LinkFrom
<1>2. last # None /\ last.objem \in Nat
  BY <1>0 DEF LinkFrom
<1>3. /\ p \in all /\ p \in Row /\ p.platne /\ ~p.synthetic /\ p.date < row.date
      /\ p.objem \in Nat /\ row.objem \in Nat /\ ResetDiff \in Nat /\ row # None
      /\ row.date \in Nat
  BY <1>1, RowTyped, ImportAssumption, NoneAssumption DEF Anchor
<1>4. \A x \in F : \E j \in 1 .. Len(filled) : x = filled[j]
  BY DEF Range
<1>5. ASSUME NEW x \in F
      PROVE  /\ x \in Row /\ Filler(x) /\ x.synthetic /\ x.date < row.date
             /\ p.date < x.date /\ row.gap
             /\ row.objem - x.objem >= -(row.date \div (2 * Interval))
  <2>1. PICK j \in 1 .. Len(filled) : x = filled[j]
    BY <1>4
  <2>2. filled[j] \in Row /\ filled # <<>>
    OBVIOUS
  <2> QED BY <2>1, <2>2, <1>1 DEF Counts, Filler
<1>6. CountsFrom(p, row, A)
  BY <1>1, <1>3, RowCounts DEF Anchor
<1>7. row.delta = None => F = {}
  BY <1>4 DEF Counts
<1> HIDE DEF F
<1>8. Linked(A) /\ Upto(p, A) = Upto(p, all)
  <2>1. F \in SUBSET Row /\ \A x \in F : Filler(x) /\ p.date < x.date
    BY <1>5
  <2> QED BY <1>1, <2>1, LinkedFilled
<1>9. \A x \in Between(p, row, A) : \/ x \in F
                                    \/ ~x.synthetic /\ ~x.gap
  BY <1>1 DEF Between, Anchor, CountsOn, RanBack
<1>10. Follows(p, row, A)
  <2>1. Advanced(p, row, A)
    BY <1>0, <1>1, <1>5, <1>7, <1>9 DEF Advanced
  <2>2. Whole(Upto(p, A))
    BY <1>1, <1>8 DEF Anchor
  <2>3. \A x \in Between(p, row, A) : ~x.synthetic => ~x.gap
    BY <1>5, <1>9
  <2> HIDE DEF A
  <2> QED BY <1>3, <1>6, <2>1, <2>2, <2>3 DEF Follows
<1>11. A \in SUBSET Row /\ p \in A /\ \A x \in A : x.date < row.date
  BY <1>3, <1>5
<1>12. Whole(B)
  <2> SUFFICES ASSUME NEW s \in B, s.synthetic
               PROVE  \E e \in B : e.platne /\ e.gap /\ s.date < e.date
    BY DEF Whole
  <2>1. CASE s \in all
    BY <2>1 DEF Whole
  <2>2. CASE s \in F
    <3>1. row \in B /\ row.gap /\ s.date < row.date
      BY <2>2, <1>5
    <3> QED BY <3>1, <1>0
  <2> QED BY <2>1, <2>2
<1> HIDE DEF A
<1>13. Linked(B)
  BY <1>0, <1>8, <1>10, <1>11, LinkedGrows
<1>14. Anchor(row, B)
  <2>1. \A x \in B : x.platne => x.date <= row.date
    <3>1. \A x \in A : x.date \in Nat
      BY <1>11, RowTyped
    <3> QED BY <3>1, <1>3, <1>11
  <2>2. row \in B /\ B \in SUBSET Row
    BY <1>11
  <2> HIDE DEF B
  <2> QED BY <1>0, <1>12, <2>1, <2>2, AnchorAtEnd
<1>15. now # None /\ now.objem \in Nat /\ now.objem >= row.objem
  <2>1. CASE k.reset \/ row.objem >= last.objem
    <3>1. now # None /\ now.objem = row.objem
      BY <2>1 DEF WatchStep, Advances, Decided
    <3> QED BY <3>1, <1>3
  <2>2. CASE ~k.reset /\ ~(row.objem >= last.objem)
    <3>1. now = last
      BY <2>2, <1>2 DEF WatchStep, Advances, Decided
    <3> QED BY <3>1, <2>2, <1>2, <1>3
  <2> QED BY <2>1, <2>2
<1>16. now.objem >= row.objem - ResetDiff /\ ~(now.objem < row.objem)
  BY <1>3, <1>15
<1> HIDE DEF B
<1>17. LinkFrom(row, now, B)
  BY <1>3, <1>14, <1>15, <1>16 DEF LinkFrom
<1> QED BY <1>12, <1>13, <1>17 DEF B, A, F

\* The rows of the table and those that the loop has made are a linked chain.
LoopLinks(acc, last, stored) ==
  LET all == stored \cup Range(acc.out)
  IN  Linked(all) /\ Whole(all) /\ LinkFrom(acc.prev, last, all)

LEMMA LoopStepLinks ==
  ASSUME NEW rows \in Seq(KeptReading), NEW stored \in SUBSET Row,
         NEW i \in 1 .. Len(rows), NEW acc, NEW new, NEW last, NEW now,
         LoopCounts(acc, rows, stored, i - 1), Adds(acc, new, rows, stored, i),
         LoopLinks(acc, last, stored), WatchStep(last, rows[i], now)
  PROVE  LoopLinks(new, now, stored)
<1> DEFINE out == acc.out
           all == stored \cup Range(out)
           whole == stored \cup Range(new.out)
           k == rows[i]
<1>1. PICK filled \in Seq(Row), row \in Row :
        /\ new.out = out \o Append(filled, row)
        /\ ~row.synthetic /\ Same(row, rows[i])
        /\ row.reset <=> /\ rows[i].reset
                         /\ acc.prev = None \/ HasResetDiff(row.objem, acc.prev.objem)
        /\ \A j \in 1 .. Len(filled) : Filler(filled[j]) /\ filled[j].date < row.date
        /\ \/ StartsAnew(acc.prev, row) /\ filled = <<>> /\ new.prev = rows[i]
           \/ RunsBack(acc.prev, row) /\ filled = <<>> /\ new.prev = acc.prev
           \/ SetAside(acc.prev, row) /\ filled = <<>> /\ new.prev = acc.prev
           \/ Counts(acc.prev, filled, row) /\ new.prev = rows[i]
  BY Zenon DEF Adds
<1> DEFINE F == Range(filled)
<1>2. out \in Seq(Row)
  BY DEF LoopCounts
<1>3. whole = (all \cup F) \cup {row}
  <2> DEFINE made == out \o Append(filled, row)
  <2>1. Range(made) = (Range(out) \cup F) \cup {row}
    <3> HIDE DEF out
    <3> QED BY <1>2, AddedParts
  <2>2. new.out = made
    BY <1>1
  <2> HIDE DEF made, F, out
  <2> QED BY <2>1, <2>2
<1>4. /\ all \in SUBSET Row /\ Linked(all) /\ Whole(all) /\ LinkFrom(acc.prev, last, all)
      /\ \A x \in all : x.date < rows[i].date
  <2>1. Range(out) \in SUBSET Row
    BY <1>2 DEF Range
  <2>2. (i - 1) + 1 = i /\ i \in i .. Len(rows)
    OBVIOUS
  <2> QED BY <2>1, <2>2 DEF LoopCounts, LoopLinks
<1>5. /\ k.date = row.date /\ k.objem = row.objem /\ k # None
      /\ Decided(row, k, acc.prev) /\ WatchStep(last, k, now) /\ row # None
  <2>1. k \in KeptReading
    OBVIOUS
  <2> QED BY <2>1, <1>1, NoneAssumption DEF Same, Decided
<1>6. \A x \in all : x.date < row.date
  BY <1>4, <1>5
<1> HIDE DEF F, all, out, whole, k
<1>7. LinkFrom(row, now, whole) => LinkFrom(k, now, whole)
  BY <1>5 DEF LinkFrom
<1>8. CASE filled = <<>>
  <2>1. F = {}
    BY <1>8 DEF F, Range
  <2>2. whole = all \cup {row}
    BY <2>1, <1>3
  <2>3. CASE StartsAnew(acc.prev, row) /\ new.prev = k
    <3>1. Linked(whole) /\ Whole(whole) /\ LinkFrom(row, now, whole)
      BY <2>2, <2>3, <1>1, <1>4, <1>5, <1>6, LinkAnew
    <3> QED BY <3>1, <2>3, <1>7 DEF LoopLinks, whole
  <2>4. CASE RunsBack(acc.prev, row) /\ new.prev = acc.prev
    <3>1. Linked(whole) /\ Whole(whole) /\ LinkFrom(acc.prev, now, whole)
      BY <2>2, <2>4, <1>1, <1>4, <1>5, <1>6, LinkBack
    <3> QED BY <3>1, <2>4 DEF LoopLinks, whole
  <2>5. CASE SetAside(acc.prev, row) /\ new.prev = acc.prev
    <3>1. Linked(whole) /\ Whole(whole) /\ LinkFrom(acc.prev, now, whole)
      BY <2>2, <2>5, <1>1, <1>4, <1>5, <1>6, LinkAside
    <3> QED BY <3>1, <2>5 DEF LoopLinks, whole
  <2>6. CASE Counts(acc.prev, filled, row) /\ new.prev = k
    <3>1. Linked(whole) /\ Whole(whole) /\ LinkFrom(row, now, whole)
      BY <2>6, <1>1, <1>3, <1>4, <1>5, <1>6, LinkCounts DEF F
    <3> QED BY <3>1, <2>6, <1>7 DEF LoopLinks, whole
  <2> QED BY <2>3, <2>4, <2>5, <2>6, <1>1 DEF k
<1>9. CASE Counts(acc.prev, filled, row) /\ new.prev = k
  <2>1. Linked(whole) /\ Whole(whole) /\ LinkFrom(row, now, whole)
    BY <1>9, <1>1, <1>3, <1>4, <1>5, <1>6, LinkCounts DEF F
  <2> QED BY <2>1, <1>9, <1>7 DEF LoopLinks, whole
<1> QED BY <1>8, <1>9, <1>1 DEF k

\* Both loops start at the latest valid row of the table, which no slot can be.
LEMMA LinkStart ==
  ASSUME NEW stored \in SUBSET Row, IsFiniteSet(stored), Whole(stored)
  PROVE  LinkFrom(LastValid(stored), LastValid(stored), stored)
<1> DEFINE p == LastValid(stored)
<1>1. \A r \in stored : r.date \in Nat /\ r.objem \in Nat /\ r # None
  BY NoneAssumption, RowTyped
<1>2. \/ p = None /\ \A r \in stored : ~r.platne
      \/ /\ p \in stored /\ p.platne
         /\ \A r \in stored : r.platne => r.date <= p.date
  BY <1>1, LastValidIs
<1> HIDE DEF p
<1>3. CASE p = None /\ \A r \in stored : ~r.platne
  BY <1>3 DEF LinkFrom, p
<1>4. CASE /\ p \in stored /\ p.platne
           /\ \A r \in stored : r.platne => r.date <= p.date
  <2>1. ~p.synthetic
    <3> SUFFICES ASSUME p.synthetic PROVE FALSE
      OBVIOUS
    <3>1. PICK e \in stored : e.platne /\ p.date < e.date
      BY <1>4 DEF Whole
    <3> QED BY <3>1, <1>1, <1>4
  <2>2. Anchor(p, stored)
    BY <2>1, <1>4, AnchorAtEnd
  <2>3. p.objem >= p.objem - ResetDiff /\ ~(p.objem < p.objem) /\ p.objem \in Nat /\ p # None
    BY <1>1, <1>4, ImportAssumption
  <2> QED BY <2>2, <2>3 DEF LinkFrom, p
<1> QED BY <1>2, <1>3, <1>4

LEMMA PrepareLinks ==
  ASSUME NEW rows \in Seq(KeptReading), InDateOrder(rows), NEW stored \in SUBSET Row,
         IsFiniteSet(stored), NEW overrides, Chained(stored), Linked(stored), Whole(stored),
         \A x \in stored : \A j \in 1 .. Len(rows) : x.date < rows[j].date,
         Watched(rows, LastValid(stored))
  PROVE  LET all == stored \cup Range(PrepareRows(rows, stored, overrides))
         IN  Linked(all) /\ Whole(all)
<1> DEFINE n == Len(rows)
<1>0. n \in Nat
  OBVIOUS
<1>1. PICK f : /\ f[0] = [prev |-> LastValid(stored), out |-> <<>>]
               /\ \A i \in 1 .. n : Adds(f[i - 1], f[i], rows, stored, i)
               /\ PrepareRows(rows, stored, overrides) = f[n].out
  BY PrepareAdds
<1>2. PICK lasts : /\ lasts[0] = LastValid(stored)
                   /\ \A i \in 1 .. n : WatchStep(lasts[i - 1], rows[i], lasts[i])
  BY DEF Watched
<1> DEFINE T == {i \in 0 .. n : /\ LoopCounts(f[i], rows, stored, i)
                                /\ LoopLinks(f[i], lasts[i], stored)}
<1>3. 0 \in T
  <2>1. LoopCounts(f[0], rows, stored, 0)
    BY <1>1, LoopStarts
  <2>2. f[0].prev = LastValid(stored) /\ stored \cup Range(f[0].out) = stored
    BY <1>1 DEF Range
  <2>3. LoopLinks(f[0], lasts[0], stored)
    BY <1>2, <2>2, LinkStart DEF LoopLinks
  <2> QED BY <1>0, <2>1, <2>3
<1>4. ASSUME NEW i \in 1 .. n, i - 1 \in T PROVE i \in T
  <2>1. /\ LoopCounts(f[i - 1], rows, stored, i - 1) /\ Adds(f[i - 1], f[i], rows, stored, i)
        /\ LoopLinks(f[i - 1], lasts[i - 1], stored) /\ WatchStep(lasts[i - 1], rows[i], lasts[i])
    BY <1>1, <1>2, <1>4
  <2>2. LoopCounts(f[i], rows, stored, i)
    BY <2>1, LoopStepCounts
  <2>3. LoopLinks(f[i], lasts[i], stored)
    BY <2>1, LoopStepLinks
  <2> QED BY <1>0, <2>2, <2>3
<1> HIDE DEF T
<1>5. n \in T
  BY <1>0, <1>3, <1>4, AllSteps DEF T
<1>6. LoopLinks(f[n], lasts[n], stored)
  BY <1>5 DEF T
<1> QED BY <1>1, <1>6 DEF LoopLinks

\* Readings of different dates, all later than the table, leave a linked chain.
LEMMA PreparedLinks ==
  ASSUME NEW readings \in SUBSET Reading, IsFiniteSet(readings),
         \A x, y \in readings : x.recid = y.recid \/ x.date = y.date => x = y,
         NEW stored \in SUBSET Row, IsFiniteSet(stored), NEW overrides,
         Chained(stored), Linked(stored), Whole(stored),
         \A r \in stored : \A x \in readings : r.date < x.date
  PROVE  LET all == stored \cup Range(Prepared(readings, stored, overrides))
         IN  Linked(all) /\ Whole(all)
<1>1. Singled(readings)
  BY DEF Singled
<1>2. PICK kept : /\ KeptOf(kept, readings) /\ Watched(kept, LastValid(stored))
                  /\ Prepared(readings, stored, overrides) = PrepareRows(kept, stored, overrides)
  BY <1>1, KeptIs
<1>3. kept \in Seq(KeptReading)
  BY <1>2 DEF KeptOf
<1>4. InDateOrder(kept)
  BY <1>2, KeptInDateOrder
<1>5. ASSUME NEW r \in stored, NEW j \in 1 .. Len(kept) PROVE r.date < kept[j].date
  <2>1. PICK x \in readings : Same(kept[j], x)
    BY <1>2 DEF KeptOf
  <2> QED BY <2>1 DEF Same
<1>6. LET all == stored \cup Range(PrepareRows(kept, stored, overrides))
      IN  Linked(all) /\ Whole(all)
  BY <1>2, <1>3, <1>4, <1>5, PrepareLinks
<1> QED BY <1>2, <1>6

-----------------------------------------------------------------------------
(***************************************************************************)
(* The table is linked, and its deltas add up.                             *)
(***************************************************************************)
\* The table is a linked chain unless a rebuild has torn it.
LinkInv == Undisturbed /\ ~torn => Whole(table) /\ Linked(table)

LEMMA NextLinkInv ==
  ASSUME TableInv, Complete, LinkInv, [Next]_vars, TableInv'
  PROVE  LinkInv'
<1> SUFFICES ASSUME Undisturbed', ~torn' PROVE Whole(table') /\ Linked(table')
  BY DEF LinkInv
<1>1. torn \in BOOLEAN /\ overlapped \in BOOLEAN
  BY DEF TableInv, TypeOK
<1>2. ASSUME UNCHANGED <<source, table>>, torn' = torn, overlapped => overlapped'
      PROVE  Whole(table') /\ Linked(table')
  <2>1. Undisturbed /\ ~torn
    BY <1>2 DEF Undisturbed, LateReadings
  <2> QED BY <2>1, <1>2 DEF LinkInv
<1>3. CASE ImportCommit
  <2>1. /\ table' = table \cup InsertedInto(table, import) /\ import # None
        /\ UNCHANGED <<source, overlapped, torn>>
    BY <1>3 DEF ImportCommit
  <2>2. Undisturbed /\ LateReadings = 0 /\ ~torn
    BY <2>1 DEF Undisturbed, LateReadings
  <2>3. Increasing
    BY <2>2, NoneIsLate DEF TableInv
  <2>4. CompleteParts /\ Whole(table) /\ Linked(table)
    BY <2>2 DEF Complete, LinkInv
  <2>5. table' = table \cup Range(import)
    BY <2>1, <2>3, <2>4, AllImported
  <2>6. /\ \A x, y \in NewReadings : x.recid = y.recid \/ x.date = y.date => x = y
        /\ \A r \in table : \A x \in NewReadings : r.date < x.date
    BY <2>3, <2>4, NewAreLater DEF CompleteParts
  <2>7. /\ NewReadings \in SUBSET Reading /\ IsFiniteSet(NewReadings)
        /\ table \in SUBSET Row /\ IsFiniteSet(table) /\ Chained(table)
    BY <2>4, NewReadingsAre DEF TableInv, TypeOK, Finite, CompleteParts
  <2>8. import = Prepared(NewReadings, table, {})
    BY <2>1, <2>4 DEF CompleteParts, ImportAlone
  <2> QED BY <2>4, <2>5, <2>6, <2>7, <2>8, PreparedLinks
<1>4. CASE ReviewCommit
  <2>1. /\ torn' = (torn \/ ~Whole(ReviewTable))
        /\ UNCHANGED <<source, overlapped>>
    BY <1>4 DEF ReviewCommit
  <2>2. Undisturbed /\ ~torn /\ Whole(ReviewTable)
    BY <2>1, <1>1 DEF Undisturbed, LateReadings
  <2>3. CompleteParts /\ Linked(table)
    BY <2>2 DEF Complete, LinkInv
  <2>4. table' = ReviewTable \cup Range(Rebuilt)
    BY <1>4, <2>3, AllRebuilt
  <2>5. /\ review.date \in Nat /\ ReviewTable = {r \in table : r.date < review.date}
        /\ ReviewTable \in SUBSET Row /\ IsFiniteSet(ReviewTable) /\ Chained(ReviewTable)
        /\ review.rows \in SUBSET Reading /\ IsFiniteSet(review.rows)
        /\ \A x, y \in review.rows : x.recid = y.recid \/ x.date = y.date => x = y
        /\ \A r \in ReviewTable : \A x \in review.rows : r.date < x.date
    BY <1>4, <2>3, RebuildFrom
  <2>6. Linked(ReviewTable)
    BY <2>3, <2>5, LinkedCut DEF TableInv, TypeOK
  <2>7. Rebuilt = Prepared(review.rows, ReviewTable, ReviewOverrides)
    BY DEF Rebuilt
  <2> HIDE DEF ReviewTable, Rebuilt, ReviewOverrides
  <2> QED BY <2>2, <2>4, <2>5, <2>6, <2>7, PreparedLinks
<1>5. CASE \E date \in Date, objem \in Objem : Arrive(date, objem)
  <2>1. PICK date \in Date, objem \in Objem : Arrive(date, objem)
    BY <1>5
  <2> DEFINE r == [recid |-> Len(source) + 1, date |-> date, objem |-> objem]
  <2>2. source' = Append(source, r) /\ UNCHANGED <<table, overlapped, torn>>
    BY <2>1 DEF Arrive
  <2>3. LateReadings' = 0 /\ ~overlapped
    BY <2>2 DEF Undisturbed
  <2> HIDE DEF r
  <2>4. LateReadings = 0
    BY <2>2, <2>3, OnlyTheLastIsLate DEF TableInv
  <2> QED BY <2>2, <2>3, <2>4 DEF LinkInv, Undisturbed
<1>6. CASE ImportRead \/ ImportRollBack \/ ImportAbort
  BY <1>2, <1>6 DEF ImportRead, ImportRollBack, ImportAbort, data
<1>7. CASE (\E v \in reviews, status \in Status : ReviewLoad(v, status))
           \/ ReviewDelete \/ ReviewAbort
  BY <1>2, <1>7 DEF ReviewLoad, ReviewDelete, ReviewAbort, data
<1>8. CASE UNCHANGED vars
  BY <1>2, <1>8 DEF vars, data
<1> QED BY <1>3, <1>4, <1>5, <1>6, <1>7, <1>8 DEF Next

\* The deltas of the table add up: whatever was set aside, filled in or rebuilt, the
\* rows between two resets say together what the counter has advanced, but for the
\* rounding of the means and for rows that ran back, by less than a reset each.  It
\* rests on the two loops agreeing where the next delta counts from, and fails only
\* where a rebuild began among the slots of a gap.
THEOREM SpecConsumptionAccounted == Spec => []ConsumptionAccounted
<1> DEFINE AllInv == TableInv /\ Complete /\ LinkInv
<1>1. Init => AllInv
  <2>1. Init => LinkInv
    BY DEF Init, LinkInv, Whole, Linked
  <2> QED BY <2>1, InitTableInv, InitComplete
<1>2. AllInv /\ [Next]_vars => AllInv'
  BY NextTableInv, NextComplete, NextLinkInv
<1>3. AllInv => ConsumptionAccounted
  <2> SUFFICES ASSUME TableInv, LinkInv, Undisturbed, ~torn, NEW b \in Baselines
               PROVE  Consumption(After(b)) - (Peak(b) - b.objem)
                        \in -Rounding(b) .. ResetDiff * Cardinality({r \in After(b) : r.delta = None})
    BY DEF ConsumptionAccounted
  <2>1. Whole(table) /\ Linked(table)
    BY DEF LinkInv
  <2>2. table \in SUBSET Row /\ IsFiniteSet(table) /\ OneRowPerDate
    BY DEF TableInv, TypeOK, Finite, IInv
  <2> QED BY <2>1, <2>2, SegmentsAccounted
<1> HIDE DEF AllInv
<1> QED BY <1>1, <1>2, <1>3, PTL DEF Spec
=============================================================================
