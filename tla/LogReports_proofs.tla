--------------------------- MODULE LogReports_proofs ---------------------------
(* What the reports draw from the rows they are given: the rows at some places, *)
(* listed in an order; the state of an object after its rows; its incidents.    *)
EXTENDS LogReports, SequenceTheorems, FiniteSetTheorems, WellFoundedInduction, TLAPS

(* Induction. *)

\* The order of the naturals, as the library knows it.
LEMMA NatOrder ==
    \E R : IsWellFoundedOn(R, Nat) /\ \A x, y \in Nat : x < y => <<x, y>> \in R
<1>1. \A x, y \in Nat : x < y => <<x, y>> \in OpToRel(<, Nat)
  BY DEF OpToRel
<1> QED BY <1>1, NatLessThanWellFounded, Zenon

\* A set of naturals has a least one.
LEMMA LeastNat ==
    ASSUME NEW T \in SUBSET Nat, T # {}
    PROVE  \E n \in T : \A m \in T : n <= m
<1>1. PICK R : IsWellFoundedOn(R, Nat) /\ \A x, y \in Nat : x < y => <<x, y>> \in R
  BY NatOrder
<1>2. PICK n \in T : \A m \in T : ~ (<<m, n>> \in R)
  <2>1. T \subseteq Nat /\ IsWellFoundedOn(R, Nat)
    BY <1>1
  <2> QED BY <2>1, WFMin, Zenon
<1>3. \A m \in T : n <= m
  <2>1. n \in Nat /\ \A m \in T : m \in Nat /\ ~(m < n)
    BY <1>1, <1>2
  <2> QED BY <2>1
<1> QED BY <1>3

\* A set with 0 and with the successors of its members has all numbers.
LEMMA UpTo ==
    ASSUME NEW N \in Nat, NEW T, 0 \in T, \A n \in 0..(N - 1) : n \in T => n + 1 \in T
    PROVE  0..N \subseteq T
<1> DEFINE missing == {n \in 0..N : n \notin T}
<1>1. SUFFICES ASSUME missing # {} PROVE FALSE
  BY DEF missing
<1>2. PICK n \in missing : \A m \in missing : n <= m
  <2>1. missing \in SUBSET Nat
    BY DEF missing
  <2> HIDE DEF missing
  <2> QED BY <1>1, <2>1, LeastNat
<1>3. n - 1 \in 0..(N - 1) /\ n - 1 \notin missing /\ n = (n - 1) + 1
  BY <1>2
<1>4. n - 1 \in T
  BY <1>3
<1> QED BY <1>2, <1>3, <1>4
\* A walk of so many steps through some values exists.
Walk(g, V, N, base, step) ==
    /\ g \in [0..N -> V] /\ g[0] = base
    /\ \A n \in 1..N : g[n] = step[n][g[n - 1]]
LEMMA WalkExists ==
    ASSUME NEW V, NEW N \in Nat, NEW base \in V, NEW step \in [1..N -> [V -> V]]
    PROVE  \E g : Walk(g, V, N, base, step)
<1> DEFINE T == {n \in 0..N : \E g : Walk(g, V, n, base, step)}
<1>1. 0 \in T
  <2> DEFINE g == [i \in 0..0 |-> base]
  <2>1. Walk(g, V, 0, base, step)
    BY DEF Walk
  <2> HIDE DEF g
  <2> QED BY <2>1
<1>2. ASSUME NEW n \in 0..(N - 1), n \in T
      PROVE  n + 1 \in T
  <2>1. PICK g : Walk(g, V, n, base, step)
    BY <1>2
  <2> DEFINE value == step[n + 1][g[n]]
             h == [i \in 0..(n + 1) |-> IF i = n + 1 THEN value ELSE g[i]]
  <2>2. g \in [0..n -> V] /\ g[0] = base /\ \A i \in 1..n : g[i] = step[i][g[i - 1]]
    BY <2>1 DEF Walk
  <2>3. value \in V
    <3>1. n + 1 \in 1..N /\ g[n] \in V
      BY <1>2, <2>2
    <3> QED BY <3>1
  <2> HIDE DEF value
  <2>4. h \in [0..(n + 1) -> V] /\ h[n + 1] = value /\ \A i \in 0..n : h[i] = g[i]
    BY <1>2, <2>2, <2>3
  <2> HIDE DEF h
  <2>5. h[0] = base
    BY <1>2, <2>2, <2>4
  <2>6. \A i \in 1..(n + 1) : h[i] = step[i][h[i - 1]]
    <3> TAKE i \in 1..(n + 1)
    <3>1. i - 1 \in 0..n /\ (i = n + 1 => i - 1 = n)
      BY <1>2
    <3>2. h[i - 1] = g[i - 1]
      BY <2>4, <3>1
    <3>3. CASE i = n + 1
      <4>1. h[i] = value /\ value = step[i][g[i - 1]]
        BY <2>4, <3>1, <3>3 DEF value
      <4> QED BY <3>2, <4>1
    <3>4. CASE i # n + 1
      <4>1. i \in 1..n /\ i \in 0..n
        BY <1>2, <3>4
      <4>2. h[i] = g[i] /\ g[i] = step[i][g[i - 1]]
        BY <2>2, <2>4, <4>1
      <4> QED BY <3>2, <4>2
    <3> QED BY <3>3, <3>4
  <2>7. Walk(h, V, n + 1, base, step)
    BY <2>4, <2>5, <2>6 DEF Walk
  <2> QED BY <1>2, <2>7
<1>3. 0..N \subseteq T
  <2> HIDE DEF T
  <2> QED BY <1>1, <1>2, UpTo
<1> QED BY <1>3
----------------------------------------------------------------------------
(* Listing. *)

\* The members of a sequence, by its positions.
LEMMA Members ==
    ASSUME NEW S, NEW s \in Seq(S)
    PROVE  /\ Len(s) \in Nat /\ DOMAIN s = 1..Len(s)
           /\ ToSet(s) = {s[i] : i \in 1..Len(s)}
           /\ ToSet(s) \subseteq S /\ s \in Seq(ToSet(s))
<1>1. Len(s) \in Nat /\ DOMAIN s = 1..Len(s) /\ \A i \in 1..Len(s) : s[i] \in S
  BY LenProperties, ElementOfSeq
<1>2. ToSet(s) = {s[i] : i \in 1..Len(s)}
  BY <1>1 DEF ToSet
<1>3. s \in Seq(Range(s)) /\ Range(s) = {s[i] : i \in 1..Len(s)}
  BY SeqOfRange, RangeEquality
<1> QED BY <1>1, <1>2, <1>3

\* The members of a concatenation.
LEMMA MembersOfBoth ==
    ASSUME NEW S, NEW s \in Seq(S), NEW t \in Seq(S)
    PROVE  s \o t \in Seq(S) /\ ToSet(s \o t) = ToSet(s) \cup ToSet(t)
<1>1. s \o t \in Seq(S) /\ Range(s \o t) = Range(s) \cup Range(t)
  BY ConcatProperties, RangeConcatenation
<1>2. \A u \in Seq(S) : ToSet(u) = Range(u)
  BY Members, RangeEquality
<1> QED BY <1>1, <1>2

\* A strict total order of some places.
Orders(before, places) ==
    /\ \A i \in places : <<i, i>> \notin before
    /\ \A i, j \in places : i # j => <<i, j>> \in before \/ <<j, i>> \in before
    /\ \A i, j, k \in places : <<i, j>> \in before /\ <<j, k>> \in before => <<i, k>> \in before
\* How the rows at some places are listed: by f, which goes through the places.
Through(f, s, rows, places, before) ==
    /\ f \in [1..Cardinality(places) -> places]
    /\ s = [n \in 1..Cardinality(places) |-> rows[f[n]]]
    /\ \A i \in places : \E n \in 1..Cardinality(places) : f[n] = i
    /\ \A m, n \in 1..Cardinality(places) : m < n => <<f[m], f[n]>> \in before

\* A place has a rank of its own, and each rank is taken.
LEMMA Ranks ==
    ASSUME NEW places, IsFiniteSet(places), NEW before, Orders(before, places),
           NEW rank, rank = [i \in places |-> Cardinality({j \in places : <<j, i>> \in before})]
    PROVE  /\ Cardinality(places) \in Nat
           /\ rank \in [places -> 0..(Cardinality(places) - 1)]
           /\ \A i, j \in places : <<i, j>> \in before => rank[i] < rank[j]
           /\ \A r \in 0..(Cardinality(places) - 1) : \E i \in places : rank[i] = r
<1> DEFINE N == Cardinality(places)
           Below(i) == {j \in places : <<j, i>> \in before}
<1>1. N \in Nat
  BY FS_CardinalityType
<1>2. ASSUME NEW i \in places
      PROVE  /\ IsFiniteSet(Below(i)) /\ Cardinality(Below(i)) \in Nat
             /\ Cardinality(Below(i)) < N
  <2>1. Below(i) \in SUBSET places /\ i \notin Below(i)
    BY DEF Orders
  <2>2. IsFiniteSet(Below(i)) /\ Cardinality(Below(i)) <= N /\ (N = Cardinality(Below(i)) => places = Below(i))
    BY <2>1, FS_Subset
  <2>3. Cardinality(Below(i)) \in Nat
    BY <2>2, FS_CardinalityType
  <2> QED BY <1>1, <2>1, <2>2, <2>3
<1>3. rank \in [places -> 0..(N - 1)]
  BY <1>1, <1>2
<1>0. \A i \in places : rank[i] = Cardinality(Below(i))
  OBVIOUS
<1>4. ASSUME NEW i \in places, NEW j \in places, <<i, j>> \in before
      PROVE  rank[i] < rank[j]
  <2>1. Below(i) \subseteq Below(j) /\ i \in Below(j) /\ i \notin Below(i)
    BY <1>4 DEF Orders
  <2>2. Cardinality(Below(i)) <= Cardinality(Below(j)) /\ Cardinality(Below(i)) # Cardinality(Below(j))
    <3> HIDE DEF Below
    <3> QED BY <1>2, <2>1, FS_Subset
  <2>3. rank[i] = Cardinality(Below(i)) /\ rank[j] = Cardinality(Below(j))
    BY <1>0
  <2>4. Cardinality(Below(i)) \in Nat /\ Cardinality(Below(j)) \in Nat
    BY <1>2
  <2> DEFINE a == Cardinality(Below(i))
             b == Cardinality(Below(j))
  <2>5. a < b
    <3> HIDE DEF Below
    <3> QED BY <2>2, <2>4
  <2> HIDE DEF a, b
  <2>6. rank[i] = a /\ rank[j] = b
    BY <2>3 DEF a, b
  <2> QED BY <2>5, <2>6
<1> DEFINE taken == {rank[i] : i \in places}
<1>5. rank \in Surjection(places, taken)
  BY <1>3 DEF Surjection
<1>6. rank \in Injection(places, taken)
  <2>1. \A i, j \in places : rank[i] = rank[j] => i = j
    <3> TAKE i \in places, j \in places
    <3>1. rank[i] \in Int /\ rank[j] \in Int
      BY <1>1, <1>3
    <3>2. i # j => rank[i] < rank[j] \/ rank[j] < rank[i]
      BY <1>4 DEF Orders
    <3> QED BY <3>1, <3>2
  <2>2. rank \in [places -> taken]
    BY <1>5 DEF Surjection
  <2> QED BY <2>1, <2>2 DEF Injection, IsInjective
<1>7. IsFiniteSet(taken) /\ Cardinality(taken) = N
  BY <1>5, <1>6, FS_Surjection
<1>8. taken = 0..(N - 1)
  <2>1. taken \in SUBSET (0..(N - 1))
    BY <1>3
  <2>2. IsFiniteSet(0..(N - 1)) /\ Cardinality(0..(N - 1)) = N
    BY <1>1, FS_Interval
  <2> HIDE DEF taken
  <2> QED BY <1>7, <2>1, <2>2, FS_Subset
<1> QED BY <1>1, <1>3, <1>4, <1>8

\* Rows are listed in the order they are asked in, each once.
LEMMA ListedProperties ==
    ASSUME NEW rows, NEW places, IsFiniteSet(places), NEW before, Orders(before, places)
    PROVE  /\ Cardinality(places) \in Nat
           /\ \E f : Through(f, Listed(rows, places, before), rows, places, before)
<1> DEFINE N == Cardinality(places)
           rank == [i \in places |-> Cardinality({j \in places : <<j, i>> \in before})]
           g == [n \in 1..N |-> CHOOSE i \in places : rank[i] = n - 1]
<1>2. Listed(rows, places, before) = [n \in 1..N |-> rows[g[n]]]
  BY DEF Listed
<1>3. rank = [i \in places |-> Cardinality({j \in places : <<j, i>> \in before})]
  OBVIOUS
<1> HIDE DEF rank
<1>1. /\ N \in Nat /\ rank \in [places -> 0..(N - 1)]
      /\ \A i, j \in places : <<i, j>> \in before => rank[i] < rank[j]
      /\ \A r \in 0..(N - 1) : \E i \in places : rank[i] = r
  BY <1>3, Ranks
<1>4. \A n \in 1..N : g[n] \in places /\ rank[g[n]] = n - 1
  BY <1>1
<1> HIDE DEF g
<1>5. g \in [1..N -> places]
  BY <1>4 DEF g
<1>6. \A i, j \in places : rank[i] < rank[j] => <<i, j>> \in before
  <2> TAKE i \in places, j \in places
  <2> HAVE rank[i] < rank[j]
  <2>1. rank[i] \in Int /\ rank[j] \in Int /\ i # j /\ ~(rank[j] < rank[i])
    BY <1>1
  <2> QED BY <1>1, <2>1 DEF Orders
<1>7. \A m, n \in 1..N : m < n => <<g[m], g[n]>> \in before
  BY <1>1, <1>4, <1>6
<1>8. \A i \in places : \E n \in 1..N : g[n] = i
  <2> TAKE i \in places
  <2>1. rank[i] \in 0..(N - 1) /\ rank[i] + 1 \in 1..N /\ rank[i] + 1 - 1 = rank[i]
    BY <1>1
  <2>2. \A j \in places : rank[j] = rank[i] => j = i
    <3> TAKE j \in places
    <3>1. rank[j] \in Int /\ (<<i, j>> \in before => rank[i] < rank[j])
          /\ (<<j, i>> \in before => rank[j] < rank[i])
      BY <1>1
    <3> QED BY <2>1, <3>1 DEF Orders
  <2>3. g[rank[i] + 1] = i
    BY <1>4, <2>1, <2>2
  <2> QED BY <2>1, <2>3
<1> QED BY <1>1, <1>5, <1>7, <1>8, <1>2 DEF Through

\* s lists the rows at some places, f tells where each of them was.
Lists(s, f, rows, places) ==
    /\ f \in [1..Len(s) -> places] /\ Len(s) = Cardinality(places)
    /\ \A n \in 1..Len(s) : s[n] = rows[f[n]]
    /\ \A i \in places : \E n \in 1..Len(s) : f[n] = i

\* A listing is a sequence of the rows asked for and of no other.
LEMMA Listing ==
    ASSUME NEW S, NEW rows \in Seq(S), NEW places \in SUBSET DOMAIN rows,
           NEW before, Orders(before, places), NEW s, s = Listed(rows, places, before)
    PROVE  /\ IsFiniteSet(places) /\ Cardinality(places) \in Nat
           /\ s \in Seq(S) /\ ToSet(s) = {rows[i] : i \in places}
           /\ \E f : /\ Lists(s, f, rows, places)
                    /\ \A m, n \in 1..Len(s) : m < n => <<f[m], f[n]>> \in before
<1>1. Len(rows) \in Nat /\ DOMAIN rows = 1..Len(rows) /\ \A i \in 1..Len(rows) : rows[i] \in S
  BY LenProperties, ElementOfSeq
<1>2. IsFiniteSet(places)
  <2>1. IsFiniteSet(1..Len(rows)) /\ places \in SUBSET (1..Len(rows))
    BY <1>1, FS_Interval
  <2> QED BY <2>1, FS_Subset
<1> DEFINE N == Cardinality(places)
<1>3. N \in Nat /\ \E f : Through(f, s, rows, places, before)
  BY <1>2, ListedProperties
<1>4. PICK f : Through(f, s, rows, places, before)
  BY <1>3
<1> HIDE DEF N
<1>5. /\ f \in [1..N -> places] /\ s = [n \in 1..N |-> rows[f[n]]]
      /\ \A i \in places : \E n \in 1..N : f[n] = i
      /\ \A m, n \in 1..N : m < n => <<f[m], f[n]>> \in before
  BY <1>4 DEF Through, N
<1>6. s \in [1..N -> S]
  BY <1>1, <1>5
<1>7. s \in Seq(S) /\ Len(s) = N /\ DOMAIN s = 1..N
  BY <1>3, <1>6, SeqDef, IsASeq, LenProperties
<1>8. ToSet(s) = {s[n] : n \in 1..N}
  BY <1>7, Members
<1>9. ToSet(s) = {rows[i] : i \in places}
  BY <1>5, <1>8
<1>10. Lists(s, f, rows, places)
  BY <1>5, <1>7 DEF Lists, N
<1> QED BY <1>2, <1>3, <1>5, <1>7, <1>9, <1>10 DEF N

\* Rows are chosen in the order in which they were received.
LEMMA ChosenProperties ==
    ASSUME NEW S, NEW rows \in Seq(S), NEW places \in SUBSET DOMAIN rows,
           NEW s, s = Chosen(rows, places)
    PROVE  /\ IsFiniteSet(places) /\ Cardinality(places) \in Nat
           /\ s \in Seq(S) /\ ToSet(s) = {rows[i] : i \in places}
           /\ \E f : /\ Lists(s, f, rows, places)
                    /\ \A m, n \in 1..Len(s) : m < n => f[m] < f[n]
<1> DEFINE before == {p \in places \X places : p[1] < p[2]}
<1>1. \A i, j : <<i, j>> \in before <=> i \in places /\ j \in places /\ i < j
  OBVIOUS
<1>2. s = Listed(rows, places, before)
  BY DEF Chosen
<1> HIDE DEF before
<1>3. places \subseteq Int
  BY LenProperties
<1>4. Orders(before, places)
  BY <1>1, <1>3 DEF Orders
<1>5. /\ IsFiniteSet(places) /\ Cardinality(places) \in Nat
      /\ s \in Seq(S) /\ ToSet(s) = {rows[i] : i \in places}
      /\ \E f : /\ Lists(s, f, rows, places)
               /\ \A m, n \in 1..Len(s) : m < n => <<f[m], f[n]>> \in before
  BY <1>2, <1>4, Listing
<1>6. PICK f : /\ Lists(s, f, rows, places)
               /\ \A m, n \in 1..Len(s) : m < n => <<f[m], f[n]>> \in before
  BY <1>5
<1>7. \A m, n \in 1..Len(s) : m < n => f[m] < f[n]
  BY <1>1, <1>6
<1> QED BY <1>5, <1>6, <1>7

\* Rows are sorted by their times, those of one time as they were received.
LEMMA ByTimeProperties ==
    ASSUME NEW S, NEW rows \in Seq(S), NEW places \in SUBSET DOMAIN rows,
           \A i \in places : rows[i].time \in Int,
           NEW s, s = ByTime(rows, places)
    PROVE  /\ IsFiniteSet(places) /\ Cardinality(places) \in Nat
           /\ s \in Seq(S) /\ ToSet(s) = {rows[i] : i \in places}
           /\ \E f : /\ Lists(s, f, rows, places)
                    /\ \A m, n \in 1..Len(s) : m < n => Precedes(rows, f[m], f[n])
<1> DEFINE before == {p \in places \X places : Precedes(rows, p[1], p[2])}
<1>1. \A i, j : <<i, j>> \in before <=> i \in places /\ j \in places /\ Precedes(rows, i, j)
  OBVIOUS
<1>2. s = Listed(rows, places, before)
  BY DEF ByTime
<1> HIDE DEF before
<1>3. places \subseteq Int
  BY LenProperties
<1>4. Orders(before, places)
  <2>1. \A i, j \in places : Precedes(rows, i, j) <=>
          rows[i].time < rows[j].time \/ (rows[i].time = rows[j].time /\ i < j)
    BY DEF Precedes
  <2> DEFINE t == [i \in places |-> rows[i].time]
  <2>2. t \in [places -> Int] /\ \A i \in places : t[i] = rows[i].time
    OBVIOUS
  <2> HIDE DEF t
  <2>3. \A i, j \in places : <<i, j>> \in before <=> t[i] < t[j] \/ (t[i] = t[j] /\ i < j)
    BY <1>1, <2>1, <2>2
  <2>4. \A i \in places : t[i] \in Int /\ i \in Int
    BY <1>3, <2>2
  <2> QED BY <2>3, <2>4 DEF Orders
<1>5. /\ IsFiniteSet(places) /\ Cardinality(places) \in Nat
      /\ s \in Seq(S) /\ ToSet(s) = {rows[i] : i \in places}
      /\ \E f : /\ Lists(s, f, rows, places)
               /\ \A m, n \in 1..Len(s) : m < n => <<f[m], f[n]>> \in before
  BY <1>2, <1>4, Listing
<1>6. PICK f : /\ Lists(s, f, rows, places)
               /\ \A m, n \in 1..Len(s) : m < n => <<f[m], f[n]>> \in before
  BY <1>5
<1>7. \A m, n \in 1..Len(s) : m < n => Precedes(rows, f[m], f[n])
  BY <1>1, <1>6
<1> QED BY <1>5, <1>6, <1>7
----------------------------------------------------------------------------
(* Replaying the rows of an object. *)

\* What the reports rely on in a row.
IsRow(r) == r.n \in Nat /\ r.time \in Int /\ r.state \in Int
Records == [state : Int, since : Int, in_downtime : BOOLEAN, acknowledged : BOOLEAN]
\* A row leaves a record.
LEMMA ReplayedIsRecord ==
    ASSUME NEW r, IsRow(r), NEW rec \in Records
    PROVE  Replayed(rec, r) \in Records
<1>1. CASE r.type = "ALERT"
  BY <1>1 DEF IsRow, Replayed, Records, Entered
<1>2. CASE r.type = "DOWNTIME"
  BY <1>2 DEF Replayed, Records
<1>3. CASE r.type = "ACKNOWLEDGE"
  BY <1>3 DEF Replayed, Records
<1>4. CASE r.type \notin {"ALERT", "DOWNTIME", "ACKNOWLEDGE"}
  BY <1>4 DEF Replayed
<1> QED BY <1>1, <1>2, <1>3, <1>4

\* The replay is a walk over the rows.
ReplaySteps(rec, ordered) ==
    /\ rec[0] = Unseen
    /\ \A n \in 1..Len(ordered) : rec[n] = Replayed(rec[n - 1], ordered[n])
    /\ Replay(ordered) = rec[Len(ordered)]
LEMMA ReplayWalks ==
    ASSUME NEW S, \A r \in S : IsRow(r), NEW ordered \in Seq(S)
    PROVE  \E rec : ReplaySteps(rec, ordered)
<1> DEFINE N == Len(ordered)
           step == [n \in 1..N |-> [rec \in Records |-> Replayed(rec, ordered[n])]]
<1>1. N \in Nat /\ \A n \in 1..N : ordered[n] \in S
  BY LenProperties, ElementOfSeq
<1>2. \A n \in 1..N, rec \in Records : Replayed(rec, ordered[n]) \in Records
  BY <1>1, ReplayedIsRecord
<1>3. step \in [1..N -> [Records -> Records]]
  BY <1>2
<1>4. \A n \in 1..N, rec \in Records : step[n][rec] = Replayed(rec, ordered[n])
  OBVIOUS
<1> HIDE DEF step
<1>5. Unseen \in Records
  BY DEF Unseen, Records, None
<1>6. PICK g : Walk(g, Records, N, Unseen, step)
  BY <1>1, <1>3, <1>5, WalkExists
<1>7. /\ g \in [0..N -> Records] /\ g[0] = Unseen
      /\ \A n \in 1..N : g[n] = step[n][g[n - 1]]
  BY <1>6 DEF Walk
<1> DEFINE Recursion(h) == h = [n \in 0..N |-> IF n = 0 THEN Unseen ELSE Replayed(h[n - 1], ordered[n])]
<1>8. Recursion(g)
  <2>1. ASSUME NEW n \in 0..N
        PROVE  g[n] = IF n = 0 THEN Unseen ELSE Replayed(g[n - 1], ordered[n])
    <3>1. n # 0 => n \in 1..N /\ n - 1 \in 0..N
      BY <1>1
    <3> QED BY <1>4, <1>7, <3>1
  <2> QED BY <1>7, <2>1
<1> DEFINE rec == CHOOSE h : Recursion(h)
<1>9. Recursion(rec)
  <2> HIDE DEF Recursion
  <2> QED BY <1>8
<1>10. Replay(ordered) = rec[N]
  BY DEF Replay
<1> HIDE DEF rec
<1>11. \A n \in 0..N : rec[n] = IF n = 0 THEN Unseen ELSE Replayed(rec[n - 1], ordered[n])
  BY <1>9
<1>12. rec[0] = Unseen /\ \A n \in 1..N : rec[n] = Replayed(rec[n - 1], ordered[n])
  BY <1>1, <1>11
<1> QED BY <1>10, <1>12 DEF ReplaySteps

\* The number of a row tells it from the others.
Distinct(R) == \A q, r \in R : q.n = r.n => q = r

\* The newest of some alerts shows a state, if there are any.
Shows(alerts, state, unknown) ==
    \/ alerts = {} /\ state = unknown
    \/ \E r \in alerts : r.state = state /\ \A q \in alerts : q.n <= r.n
\* Something was begun by a row, and no later row has ended it.
Standing(begun, ended) == \E r \in begun : \A q \in ended : q.n < r.n

Alerts(R) == {r \in R : r.type = "ALERT"}
Begun(R) == {r \in R : r.type = "DOWNTIME" /\ r.detail = "STARTED"}
Ended(R) == {r \in R : r.type = "DOWNTIME" /\ r.detail \in Over}
Taken(R) == {r \in R : r.type = "ACKNOWLEDGE" /\ r.detail \notin Over}
Dropped(R) == {r \in R : \/ r.type = "ACKNOWLEDGE" /\ r.detail \in Over
                         \/ r.type = "ALERT" /\ r.state = 0}

\* A record says of an object what its rows say.
Tells(rec, R) ==
    /\ Shows(Alerts(R), rec.state, None)
    /\ rec.in_downtime <=> Standing(Begun(R), Ended(R))
    /\ rec.acknowledged <=> Standing(Taken(R), Dropped(R))

\* r is not before any of the rows of R.
Newest(r, R) == \A q \in R : q.n <= r.n /\ (q.n = r.n => q = r)

\* What a row begins stands, whatever was ended before it, ...
LEMMA BeginsStanding ==
    ASSUME NEW begun, NEW ended, NEW r, r \notin ended, Newest(r, begun \cup ended),
           \A q \in begun \cup ended \cup {r} : q.n \in Nat
    PROVE  Standing(begun \cup {r}, ended)
<1>1. \A q \in ended : q.n < r.n
  BY DEF Newest
<1> QED BY <1>1 DEF Standing

\* ... and nothing stands that it ends.
LEMMA EndsStanding ==
    ASSUME NEW begun, NEW ended, NEW r, Newest(r, begun \cup ended),
           \A q \in begun \cup ended \cup {r} : q.n \in Nat
    PROVE  ~Standing(begun, ended \cup {r})
<1>1. SUFFICES ASSUME NEW q \in begun, r.n < q.n PROVE FALSE
  BY DEF Standing
<1> QED BY <1>1 DEF Newest

\* The newest alert shows the state.
LEMMA ShowsNewest ==
    ASSUME NEW alerts, NEW r, Newest(r, alerts), NEW unknown,
           \A q \in alerts \cup {r} : q.n \in Nat
    PROVE  Shows(alerts \cup {r}, r.state, unknown)
<1>1. \A q \in alerts \cup {r} : q.n <= r.n
  BY DEF Newest
<1> QED BY <1>1 DEF Shows

\* A replay of one more row takes in what the row says.
LEMMA ReplayedTells ==
    ASSUME NEW R, NEW r, \A q \in R \cup {r} : IsRow(q), Newest(r, R),
           NEW rec \in Records, Tells(rec, R)
    PROVE  Replayed(rec, r) \in Records /\ Tells(Replayed(rec, r), R \cup {r})
<1> DEFINE Q == R \cup {r}
           next == Replayed(rec, r)
<1>0. \A q \in Q : q.n \in Nat /\ q.state \in Int /\ q.time \in Int
  BY DEF IsRow
<1>1. CASE r.type = "ALERT"
  <2>1. /\ next \in Records /\ next.state = r.state /\ next.in_downtime = rec.in_downtime
        /\ next.acknowledged = (rec.acknowledged /\ r.state # 0)
    BY <1>0, <1>1 DEF Replayed, Records, Entered
  <2>2. Alerts(Q) = Alerts(R) \cup {r} /\ Begun(Q) = Begun(R) /\ Ended(Q) = Ended(R) /\ Taken(Q) = Taken(R)
    BY <1>1 DEF Alerts, Begun, Ended, Taken
  <2>3. Shows(Alerts(Q), next.state, None)
    <3>1. Newest(r, Alerts(R)) /\ \A q \in Alerts(R) \cup {r} : q.n \in Nat
      BY <1>0 DEF Newest, Alerts
    <3>2. Shows(Alerts(R) \cup {r}, r.state, None)
      BY <3>1, ShowsNewest
    <3> QED BY <2>1, <2>2, <3>2
  <2>4. CASE r.state = 0
    <3>1. Dropped(Q) = Dropped(R) \cup {r}
      BY <1>1, <2>4 DEF Dropped
    <3>2. Newest(r, Taken(R) \cup Dropped(R)) /\ \A q \in Taken(R) \cup Dropped(R) \cup {r} : q.n \in Nat
      BY <1>0 DEF Newest, Taken, Dropped
    <3>3. ~Standing(Taken(R), Dropped(R) \cup {r})
      BY <3>2, EndsStanding
    <3> QED BY <2>1, <2>2, <2>3, <2>4, <3>1, <3>3 DEF Tells
  <2>5. CASE r.state # 0
    <3>1. Dropped(Q) = Dropped(R)
      BY <1>1, <2>5 DEF Dropped
    <3> QED BY <2>1, <2>2, <2>3, <2>5, <3>1 DEF Tells
  <2> QED BY <2>4, <2>5
<1>2. CASE r.type = "DOWNTIME"
  <2>1. /\ next \in Records /\ next.state = rec.state /\ next.acknowledged = rec.acknowledged
        /\ next.in_downtime = (r.detail = "STARTED" \/ (rec.in_downtime /\ r.detail \notin Over))
    BY <1>0, <1>2 DEF Replayed, Records
  <2>2. Alerts(Q) = Alerts(R) /\ Taken(Q) = Taken(R) /\ Dropped(Q) = Dropped(R)
    BY <1>2 DEF Alerts, Taken, Dropped
  <2>3. Newest(r, Begun(R) \cup Ended(R)) /\ \A q \in Begun(R) \cup Ended(R) \cup {r} : q.n \in Nat
    BY <1>0 DEF Newest, Begun, Ended
  <2>4. next.in_downtime <=> Standing(Begun(Q), Ended(Q))
    <3>1. CASE r.detail = "STARTED"
      <4>1. Begun(Q) = Begun(R) \cup {r} /\ Ended(Q) = Ended(R) /\ r \notin Ended(R)
        BY <1>2, <3>1 DEF Begun, Ended, Over
      <4> QED BY <2>1, <2>3, <3>1, <4>1, BeginsStanding
    <3>2. CASE r.detail \in Over
      <4>1. Begun(Q) = Begun(R) /\ Ended(Q) = Ended(R) \cup {r} /\ r.detail # "STARTED"
        BY <1>2, <3>2 DEF Begun, Ended, Over
      <4>2. ~Standing(Begun(R), Ended(R) \cup {r})
        BY <2>3, EndsStanding
      <4>3. next.in_downtime = FALSE
        BY <2>1, <3>2, <4>1
      <4> QED BY <4>1, <4>2, <4>3
    <3>3. CASE r.detail # "STARTED" /\ r.detail \notin Over
      <4>1. Begun(Q) = Begun(R) /\ Ended(Q) = Ended(R)
        BY <1>2, <3>3 DEF Begun, Ended
      <4> QED BY <2>1, <3>3, <4>1 DEF Tells
    <3> QED BY <3>1, <3>2, <3>3
  <2> QED BY <2>1, <2>2, <2>4 DEF Tells
<1>3. CASE r.type = "ACKNOWLEDGE"
  <2>1. /\ next \in Records /\ next.state = rec.state /\ next.in_downtime = rec.in_downtime
        /\ next.acknowledged = (r.detail \notin Over)
    BY <1>0, <1>3 DEF Replayed, Records
  <2>2. Alerts(Q) = Alerts(R) /\ Begun(Q) = Begun(R) /\ Ended(Q) = Ended(R)
    BY <1>3 DEF Alerts, Begun, Ended
  <2>3. Newest(r, Taken(R) \cup Dropped(R)) /\ \A q \in Taken(R) \cup Dropped(R) \cup {r} : q.n \in Nat
    BY <1>0 DEF Newest, Taken, Dropped
  <2>4. next.acknowledged <=> Standing(Taken(Q), Dropped(Q))
    <3>1. CASE r.detail \notin Over
      <4>1. Taken(Q) = Taken(R) \cup {r} /\ Dropped(Q) = Dropped(R) /\ r \notin Dropped(R)
        BY <1>3, <3>1 DEF Taken, Dropped
      <4> QED BY <2>1, <2>3, <3>1, <4>1, BeginsStanding
    <3>2. CASE r.detail \in Over
      <4>1. Taken(Q) = Taken(R) /\ Dropped(Q) = Dropped(R) \cup {r}
        BY <1>3, <3>2 DEF Taken, Dropped
      <4>2. ~Standing(Taken(R), Dropped(R) \cup {r})
        BY <2>3, EndsStanding
      <4>3. next.acknowledged = FALSE
        BY <2>1, <3>2
      <4> QED BY <4>1, <4>2, <4>3
    <3> QED BY <3>1, <3>2
  <2> QED BY <2>1, <2>2, <2>4 DEF Tells
<1>4. CASE r.type \notin {"ALERT", "DOWNTIME", "ACKNOWLEDGE"}
  <2>1. next = rec
    BY <1>4 DEF Replayed
  <2>2. /\ Alerts(Q) = Alerts(R) /\ Begun(Q) = Begun(R) /\ Ended(Q) = Ended(R)
        /\ Taken(Q) = Taken(R) /\ Dropped(Q) = Dropped(R)
    BY <1>4 DEF Alerts, Begun, Ended, Taken, Dropped
  <2> QED BY <2>1, <2>2 DEF Tells
<1> QED BY <1>1, <1>2, <1>3, <1>4

\* A replay in the order of the log says what the rows say.
LEMMA ReplayTells ==
    ASSUME NEW S, \A r \in S : IsRow(r), Distinct(S), NEW ordered \in Seq(S),
           \A m, n \in 1..Len(ordered) : m < n => ordered[m].n <= ordered[n].n
    PROVE  Replay(ordered) \in Records /\ Tells(Replay(ordered), ToSet(ordered))
<1> DEFINE N == Len(ordered)
           Upto(n) == {ordered[m] : m \in 1..n}
<1>1. N \in Nat /\ DOMAIN ordered = 1..N /\ \A m \in 1..N : ordered[m] \in S
  BY LenProperties, ElementOfSeq
<1>2. PICK rec : /\ rec[0] = Unseen
                 /\ \A n \in 1..N : rec[n] = Replayed(rec[n - 1], ordered[n])
                 /\ Replay(ordered) = rec[N]
  <2>1. \E rec : ReplaySteps(rec, ordered)
    BY ReplayWalks
  <2> QED BY <2>1 DEF ReplaySteps
<1> DEFINE T == {n \in 0..N : rec[n] \in Records /\ Tells(rec[n], Upto(n))}
<1>3. 0 \in T
  <2>1. Upto(0) = {} /\ 0 \in 0..N
    BY <1>1
  <2> HIDE DEF Upto
  <2>2. Unseen \in Records
    BY DEF Unseen, Records, None
  <2>3. Tells(Unseen, {})
    BY DEF Tells, Unseen, Shows, Standing, Alerts, Begun, Taken
  <2>4. rec[0] \in Records /\ Tells(rec[0], Upto(0))
    BY <1>2, <2>1, <2>2, <2>3
  <2> QED BY <2>1, <2>4
<1>4. ASSUME NEW n \in 0..(N - 1), n \in T
      PROVE  n + 1 \in T
  <2>1. n + 1 \in 1..N /\ n + 1 \in 0..N /\ (n + 1) - 1 = n /\ n \in 0..N
    BY <1>1
  <2>2. Upto(n + 1) = Upto(n) \cup {ordered[n + 1]}
    BY <2>1
  <2>3. \A m \in 1..n : m \in 1..N /\ m < n + 1
    BY <1>1, <2>1
  <2>4. Newest(ordered[n + 1], Upto(n))
    <3>1. \A m \in 1..n : ordered[m].n <= ordered[n + 1].n
      BY <2>1, <2>3
    <3> QED BY <1>1, <2>1, <2>3, <3>1 DEF Newest, Distinct
  <2>5. \A q \in Upto(n) \cup {ordered[n + 1]} : IsRow(q)
    BY <1>1, <2>1, <2>3
  <2>6. rec[n] \in Records /\ Tells(rec[n], Upto(n)) /\ rec[n + 1] = Replayed(rec[n], ordered[n + 1])
    BY <1>2, <1>4, <2>1
  <2> HIDE DEF Upto
  <2>7. rec[n + 1] \in Records /\ Tells(rec[n + 1], Upto(n + 1))
    BY <2>2, <2>4, <2>5, <2>6, ReplayedTells
  <2> QED BY <2>1, <2>7
<1>5. N \in T
  <2> HIDE DEF T
  <2>1. 0..N \subseteq T
    BY <1>1, <1>3, <1>4, UpTo
  <2> QED BY <1>1, <2>1
<1>6. ToSet(ordered) = Upto(N)
  BY Members
<1> QED BY <1>2, <1>5, <1>6

\* The rows of an object up to a second.
UpToSecond(R, key, at) == {r \in R : Key(r) = key /\ r.time <= at}
\* Later rows have later times.
InOrder(R) == \A q, r \in R : (q.time < r.time => q.n < r.n) /\ (q.time = r.time => q = r)

\* What state_at reconstructs of an object is what its rows say, in whatever order
\* they were received, if no two of them are of one second.
LEMMA ReconstructTells ==
    ASSUME NEW S, \A r \in S : IsRow(r), Distinct(S), NEW rows \in Seq(S), NEW at \in Int
    PROVE  /\ DOMAIN ReconstructStateAt(rows, at) = {Key(r) : r \in {r \in ToSet(rows) : r.time <= at}}
           /\ \A k \in DOMAIN ReconstructStateAt(rows, at) :
                InOrder(UpToSecond(ToSet(rows), k, at)) =>
                  /\ ReconstructStateAt(rows, at)[k] \in Records
                  /\ Tells(ReconstructStateAt(rows, at)[k], UpToSecond(ToSet(rows), k, at))
<1> DEFINE seen == {i \in DOMAIN rows : rows[i].time <= at}
           places(k) == {i \in seen : Key(rows[i]) = k}
           states == ReconstructStateAt(rows, at)
<1>1. /\ DOMAIN rows = 1..Len(rows) /\ \A i \in DOMAIN rows : rows[i] \in S
      /\ ToSet(rows) = {rows[i] : i \in DOMAIN rows} /\ ToSet(rows) \subseteq S
  BY LenProperties, ElementOfSeq, Members
<1>2. /\ DOMAIN states = {Key(rows[i]) : i \in seen}
      /\ \A k \in DOMAIN states : states[k] = Replay(ByTime(rows, places(k)))
  BY DEF ReconstructStateAt
<1>3. DOMAIN states = {Key(r) : r \in {r \in ToSet(rows) : r.time <= at}}
  BY <1>1, <1>2
<1>4. ASSUME NEW k \in DOMAIN states, InOrder(UpToSecond(ToSet(rows), k, at))
      PROVE  states[k] \in Records /\ Tells(states[k], UpToSecond(ToSet(rows), k, at))
  <2> DEFINE P == places(k)
             s == ByTime(rows, P)
  <2>1. P \in SUBSET DOMAIN rows /\ \A i \in P : rows[i].time \in Int
    BY <1>1 DEF IsRow
  <2>2. {rows[i] : i \in P} = UpToSecond(ToSet(rows), k, at)
    BY <1>1 DEF UpToSecond
  <2> HIDE DEF P
  <2>3. s = ByTime(rows, P)
    OBVIOUS
  <2> HIDE DEF s
  <2>4. /\ s \in Seq(S) /\ ToSet(s) = {rows[i] : i \in P}
        /\ \E f : /\ Lists(s, f, rows, P)
                 /\ \A m, n \in 1..Len(s) : m < n => Precedes(rows, f[m], f[n])
    BY <2>1, <2>3, ByTimeProperties
  <2>5. PICK f : /\ Lists(s, f, rows, P)
                 /\ \A m, n \in 1..Len(s) : m < n => Precedes(rows, f[m], f[n])
    BY <2>4
  <2>6. ASSUME NEW m \in 1..Len(s), NEW n \in 1..Len(s), m < n
        PROVE  s[m].n <= s[n].n
    <3>1. /\ s[m] = rows[f[m]] /\ s[n] = rows[f[n]] /\ f[m] \in P /\ f[n] \in P
          /\ Precedes(rows, f[m], f[n])
      BY <2>5, <2>6 DEF Lists
    <3>2. s[m] \in UpToSecond(ToSet(rows), k, at) /\ s[n] \in UpToSecond(ToSet(rows), k, at)
      BY <2>2, <3>1
    <3>3. s[m].n \in Nat /\ s[n].n \in Nat /\ (s[m].time < s[n].time \/ s[m].time = s[n].time)
      BY <1>1, <3>1, <3>2 DEF Precedes, UpToSecond, IsRow
    <3>4. /\ s[m].time < s[n].time => s[m].n < s[n].n
          /\ s[m].time = s[n].time => s[m] = s[n]
      BY <1>4, <3>2 DEF InOrder
    <3> QED BY <3>3, <3>4
  <2>7. Replay(s) \in Records /\ Tells(Replay(s), ToSet(s))
    BY <2>4, <2>6, ReplayTells
  <2>8. states[k] = Replay(s)
    BY <1>2 DEF s, P
  <2> QED BY <2>2, <2>4, <2>7, <2>8
<1> QED BY <1>3, <1>4
----------------------------------------------------------------------------
(* Concatenation. *)

\* What is concatenated has the members of all parts and no other.
LEMMA Flattened ==
    ASSUME NEW S, NEW seqs \in Seq(Seq(S))
    PROVE  /\ FlattenSeq(seqs) \in Seq(S)
           /\ ToSet(FlattenSeq(seqs)) = UNION {ToSet(seqs[i]) : i \in DOMAIN seqs}
<1> DEFINE N == Len(seqs)
<1>1. N \in Nat /\ DOMAIN seqs = 1..N /\ \A n \in 1..N : seqs[n] \in Seq(S)
  BY LenProperties, ElementOfSeq
<1>2. CASE N = 0
  <2>1. seqs = <<>> /\ FlattenSeq(seqs) = seqs /\ DOMAIN seqs = {}
    BY <1>1, <1>2, EmptySeq DEF FlattenSeq
  <2>2. <<>> \in Seq(S) /\ ToSet(<<>>) = {}
    BY DEF ToSet
  <2> QED BY <2>1, <2>2
<1>3. CASE N # 0
  <2> DEFINE step == [n \in 1..N |-> [s \in Seq(S) |-> s \o seqs[n]]]
  <2>1. \A n \in 1..N, s \in Seq(S) : s \o seqs[n] \in Seq(S)
    BY <1>1, ConcatProperties
  <2>2. step \in [1..N -> [Seq(S) -> Seq(S)]]
    BY <2>1
  <2>3. \A n \in 1..N, s \in Seq(S) : step[n][s] = s \o seqs[n]
    OBVIOUS
  <2> HIDE DEF step
  <2>4. PICK w : Walk(w, Seq(S), N, <<>>, step)
    BY <1>1, <2>2, EmptySeq, WalkExists
  <2>5. /\ w \in [0..N -> Seq(S)] /\ w[0] = <<>>
        /\ \A n \in 1..N : w[n] = step[n][w[n - 1]]
    BY <2>4 DEF Walk
  <2>6. ASSUME NEW n \in 1..N
        PROVE  n - 1 \in 0..N /\ w[n - 1] \in Seq(S) /\ w[n] = w[n - 1] \o seqs[n]
    <3>1. n - 1 \in 0..N
      BY <1>1
    <3>2. w[n - 1] \in Seq(S) /\ w[n] = step[n][w[n - 1]]
      BY <2>5, <3>1
    <3> QED BY <2>3, <3>1, <3>2
  <2> DEFINE Recursion(h) == h = [n \in 1..N |-> IF n = 1 THEN seqs[n] ELSE h[n - 1] \o seqs[n]]
             g == [n \in 1..N |-> w[n]]
  <2>7. Recursion(g)
    <3>1. ASSUME NEW n \in 1..N
          PROVE  g[n] = IF n = 1 THEN seqs[n] ELSE g[n - 1] \o seqs[n]
      <4>1. CASE n = 1
        <5>1. w[n - 1] = <<>>
          BY <2>5, <4>1
        <5>2. <<>> \o seqs[n] = seqs[n]
          BY <1>1, ConcatEmptySeq
        <5> QED BY <2>6, <4>1, <5>1, <5>2
      <4>2. CASE n # 1
        <5>1. n - 1 \in 1..N
          BY <1>1, <4>2
        <5> QED BY <2>6, <4>2, <5>1
      <4> QED BY <4>1, <4>2
    <3> HIDE DEF g
    <3>2. g = [n \in 1..N |-> g[n]]
      BY DEF g
    <3> QED BY <3>1, <3>2
  <2> HIDE DEF g
  <2> DEFINE flatten == CHOOSE h : Recursion(h)
  <2>8. Recursion(flatten)
    <3> HIDE DEF Recursion
    <3> QED BY <2>7
  <2>9. FlattenSeq(seqs) = flatten[N]
    BY <1>3 DEF FlattenSeq
  <2> HIDE DEF flatten
  <2>10. \A n \in 1..N : flatten[n] = IF n = 1 THEN seqs[n] ELSE flatten[n - 1] \o seqs[n]
    BY <2>8
  <2> DEFINE Upto(n) == UNION {ToSet(seqs[i]) : i \in 1..n}
             T == {n \in 0..N : n = 0 \/ (flatten[n] \in Seq(S) /\ ToSet(flatten[n]) = Upto(n))}
  <2>11. 0 \in T
    BY <1>1
  <2>12. ASSUME NEW n \in 0..(N - 1), n \in T
         PROVE  n + 1 \in T
    <3>1. n + 1 \in 1..N /\ n + 1 \in 0..N /\ (n + 1) - 1 = n
      BY <1>1
    <3>2. seqs[n + 1] \in Seq(S)
      BY <1>1, <3>1
    <3>3. Upto(n + 1) = Upto(n) \cup ToSet(seqs[n + 1])
      <4>1. 1..(n + 1) = (1..n) \cup {n + 1}
        BY <1>1
      <4> QED BY <4>1
    <3>4. CASE n = 0
      <4>1. Upto(n) = {} /\ flatten[n + 1] = seqs[n + 1]
        BY <2>10, <3>1, <3>4
      <4> QED BY <3>1, <3>2, <3>3, <4>1
    <3>5. CASE n # 0
      <4>1. /\ flatten[n + 1] = flatten[n] \o seqs[n + 1]
            /\ flatten[n] \in Seq(S) /\ ToSet(flatten[n]) = Upto(n)
        <5>1. n + 1 # 1 /\ n \in T
          BY <1>1, <2>12, <3>5
        <5> QED BY <2>10, <3>1, <3>5, <5>1
      <4> HIDE DEF Upto
      <4>2. flatten[n + 1] \in Seq(S) /\ ToSet(flatten[n + 1]) = Upto(n) \cup ToSet(seqs[n + 1])
        BY <3>2, <4>1, MembersOfBoth
      <4> QED BY <3>1, <3>3, <4>2
    <3> QED BY <3>4, <3>5
  <2>13. N \in T
    <3> HIDE DEF T
    <3>1. 0..N \subseteq T
      BY <1>1, <2>11, <2>12, UpTo
    <3> QED BY <1>1, <3>1
  <2> QED BY <1>1, <1>3, <2>9, <2>13
<1> QED BY <1>2, <1>3
----------------------------------------------------------------------------
(* Reducing the hard alerts of an object to its incidents. *)

Spans == [start : Int, end : Int]
Reductions == [start : Int, found : Seq(Spans)]
NothingYet == [start |-> None, found |-> <<>>]

\* A row leaves a reduction.
LEMMA ReducedIsReduction ==
    ASSUME NEW r, r.time \in Int, NEW first, NEW since \in Int, NEW sofar \in Reductions
    PROVE  Reduced(sofar, r, first, since) \in Reductions
<1>1. sofar.start \in Int /\ sofar.found \in Seq(Spans) /\ None \in Int
  BY DEF Reductions, None
<1>2. \A a, b \in Int : Append(sofar.found, Incident(a, b)) \in Seq(Spans)
  <2>1. \A a, b \in Int : Incident(a, b) \in Spans
    BY DEF Incident, Spans
  <2> QED BY <1>1, <2>1, AppendProperties
<1> QED BY <1>1, <1>2 DEF Reduced, Reductions

\* The reduction is a walk over the alerts.
ReductionSteps(sofar, hard, since) ==
    /\ sofar[0] = NothingYet
    /\ \A n \in 1..Len(hard) : sofar[n] = Reduced(sofar[n - 1], hard[n], n = 1, since)
    /\ Reduction(hard, since) = sofar[Len(hard)]
LEMMA ReductionWalks ==
    ASSUME NEW S, \A r \in S : r.time \in Int, NEW hard \in Seq(S), NEW since \in Int
    PROVE  \E sofar : ReductionSteps(sofar, hard, since)
<1> DEFINE N == Len(hard)
           step == [n \in 1..N |-> [v \in Reductions |-> Reduced(v, hard[n], n = 1, since)]]
<1>1. N \in Nat /\ \A n \in 1..N : hard[n] \in S
  BY LenProperties, ElementOfSeq
<1>2. \A n \in 1..N, v \in Reductions : Reduced(v, hard[n], n = 1, since) \in Reductions
  BY <1>1, ReducedIsReduction
<1>3. step \in [1..N -> [Reductions -> Reductions]]
  BY <1>2
<1>4. \A n \in 1..N, v \in Reductions : step[n][v] = Reduced(v, hard[n], n = 1, since)
  OBVIOUS
<1> HIDE DEF step
<1>5. NothingYet \in Reductions
  BY EmptySeq DEF NothingYet, Reductions, None
<1>6. PICK g : Walk(g, Reductions, N, NothingYet, step)
  BY <1>1, <1>3, <1>5, WalkExists
<1>7. /\ g \in [0..N -> Reductions] /\ g[0] = NothingYet
      /\ \A n \in 1..N : g[n] = step[n][g[n - 1]]
  BY <1>6 DEF Walk
<1> DEFINE Recursion(h) == h = [n \in 0..N |->
             IF n = 0 THEN NothingYet ELSE Reduced(h[n - 1], hard[n], n = 1, since)]
<1>8. Recursion(g)
  <2>1. ASSUME NEW n \in 0..N
        PROVE  g[n] = IF n = 0 THEN NothingYet ELSE Reduced(g[n - 1], hard[n], n = 1, since)
    <3>1. n # 0 => n \in 1..N /\ n - 1 \in 0..N
      BY <1>1
    <3> QED BY <1>4, <1>7, <3>1
  <2> QED BY <1>7, <2>1
<1> DEFINE sofar == CHOOSE h : Recursion(h)
<1>9. Recursion(sofar)
  <2> HIDE DEF Recursion
  <2> QED BY <1>8
<1>10. Reduction(hard, since) = sofar[N]
  BY DEF Reduction, NothingYet
<1> HIDE DEF sofar
<1>11. \A n \in 0..N : sofar[n] = IF n = 0 THEN NothingYet ELSE Reduced(sofar[n - 1], hard[n], n = 1, since)
  BY <1>9
<1>12. sofar[0] = NothingYet /\ \A n \in 1..N : sofar[n] = Reduced(sofar[n - 1], hard[n], n = 1, since)
  BY <1>1, <1>11
<1> QED BY <1>10, <1>12 DEF ReductionSteps

\* After some of the hard alerts an object is out at a second: its last alert by
\* then was a problem, or the first one is a recovery that is still to come.
Out(hard, n, s) ==
    \/ \E j \in 1..n : hard[j].time <= s /\ hard[j].state # 0 /\ \A k \in (j + 1)..n : hard[k].time > s
    \/ n >= 1 /\ hard[1].state = 0 /\ hard[1].time > s
\* The incidents found so far follow one another in time and are, with the one that
\* has begun, the seconds the object was out.
Ordered(found, since, until) ==
    /\ \A i \in 1..Len(found) : since <= found[i].start /\ found[i].start <= found[i].end /\ found[i].end <= until
    /\ \A i, j \in 1..Len(found) : i < j => found[i].end <= found[j].start
Within(found, s) == \E i \in 1..Len(found) : found[i].start <= s /\ s < found[i].end
Faithful(sofar, hard, n, since) ==
    /\ sofar \in Reductions
    /\ Ordered(sofar.found, since, IF n = 0 THEN since ELSE hard[n].time)
    /\ sofar.start # None <=> n >= 1 /\ hard[n].state # 0
    /\ sofar.start # None => /\ Ordered(sofar.found, since, sofar.start)
                             /\ since <= sofar.start /\ sofar.start <= hard[n].time
    /\ \A s \in Int : since <= s =>
         (Out(hard, n, s) <=> Within(sofar.found, s) \/ (sofar.start # None /\ sofar.start <= s))
    /\ n = 0 => sofar = NothingYet

\* A span that begins no sooner than the others end comes after them.
LEMMA OneMoreSpan ==
    ASSUME NEW found \in Seq(Spans), NEW since \in Int, NEW start \in Int, NEW end \in Int,
           Ordered(found, since, start), since <= start, start <= end
    PROVE  LET more == Append(found, Incident(start, end)) IN
           /\ more \in Seq(Spans) /\ Len(more) = Len(found) + 1 /\ Ordered(more, since, end)
           /\ \A s \in Int : Within(more, s) <=> Within(found, s) \/ (start <= s /\ s < end)
<1> DEFINE L == Len(found)
           new == Incident(start, end)
           more == Append(found, new)
<1>1. L \in Nat /\ \A i \in 1..L : found[i].start \in Int /\ found[i].end \in Int
  <2>1. L \in Nat /\ \A i \in 1..L : found[i] \in Spans
    BY LenProperties, ElementOfSeq
  <2> QED BY <2>1 DEF Spans
<1>2. new \in Spans /\ new.start = start /\ new.end = end
  BY DEF Incident, Spans
<1> HIDE DEF new
<1>3. /\ more \in Seq(Spans) /\ Len(more) = L + 1
      /\ \A i \in 1..L : more[i] = found[i]
      /\ more[L + 1] = new
  BY <1>2, AppendProperties
<1> HIDE DEF more, L
<1>4. \A i \in 1..(L + 1) : i \in 1..L \/ i = L + 1
  BY <1>1
<1>5. /\ \A i \in 1..L : since <= found[i].start /\ found[i].start <= found[i].end /\ found[i].end <= start
      /\ \A i, j \in 1..L : i < j => found[i].end <= found[j].start
  BY DEF Ordered, L
<1>6. Ordered(more, since, end)
  <2>1. ASSUME NEW i \in 1..(L + 1)
        PROVE  since <= more[i].start /\ more[i].start <= more[i].end /\ more[i].end <= end
    <3>1. CASE i \in 1..L
      BY <1>1, <1>3, <1>5, <3>1
    <3>2. CASE i = L + 1
      BY <1>2, <1>3, <3>2
    <3> QED BY <1>4, <3>1, <3>2
  <2>2. ASSUME NEW i \in 1..(L + 1), NEW j \in 1..(L + 1), i < j
        PROVE  more[i].end <= more[j].start
    <3>1. i \in 1..L
      BY <1>1, <2>2
    <3>2. CASE j \in 1..L
      BY <1>3, <1>5, <2>2, <3>1, <3>2
    <3>3. CASE j = L + 1
      BY <1>2, <1>3, <1>5, <3>1, <3>3
    <3> QED BY <1>4, <3>2, <3>3
  <2> QED BY <1>3, <2>1, <2>2 DEF Ordered
<1>7. ASSUME NEW s \in Int
      PROVE  Within(more, s) <=> Within(found, s) \/ (start <= s /\ s < end)
  <2>1. Within(more, s) <=> \E i \in 1..(L + 1) : more[i].start <= s /\ s < more[i].end
    BY <1>3 DEF Within
  <2>2. Within(found, s) <=> \E i \in 1..L : found[i].start <= s /\ s < found[i].end
    BY DEF Within, L
  <2>3. L + 1 \in 1..(L + 1) /\ 1..L \subseteq 1..(L + 1)
    BY <1>1
  <2>4. ASSUME NEW i \in 1..(L + 1)
        PROVE  \/ i \in 1..L /\ more[i] = found[i]
               \/ i = L + 1 /\ more[i].start = start /\ more[i].end = end
    BY <1>2, <1>3, <1>4
  <2>5. more[L + 1].start = start /\ more[L + 1].end = end
    BY <1>2, <1>3
  <2> QED BY <1>3, <2>1, <2>2, <2>3, <2>4, <2>5
<1> QED BY <1>3, <1>6, <1>7 DEF more, new, L

\* What a later alert changes.
LEMMA OutLater ==
    ASSUME NEW hard, NEW n \in Nat, NEW s \in Int,
           \A i \in 1..(n + 1) : hard[i].time \in Int,
           \A i, j \in 1..(n + 1) : i < j => hard[i].time <= hard[j].time
    PROVE  /\ hard[n + 1].time <= s => (Out(hard, n + 1, s) <=> hard[n + 1].state # 0)
           /\ s < hard[n + 1].time /\ n # 0 => (Out(hard, n + 1, s) <=> Out(hard, n, s))
           /\ s < hard[n + 1].time /\ n = 0 => (Out(hard, n + 1, s) <=> hard[n + 1].state = 0)
<1> DEFINE r == hard[n + 1]
           Latest(m, j) == hard[j].time <= s /\ hard[j].state # 0 /\ \A k \in (j + 1)..m : hard[k].time > s
<1>1. /\ Out(hard, n + 1, s) <=> (\E j \in 1..(n + 1) : Latest(n + 1, j)) \/ (hard[1].state = 0 /\ hard[1].time > s)
      /\ Out(hard, n, s) <=> (\E j \in 1..n : Latest(n, j)) \/ (n >= 1 /\ hard[1].state = 0 /\ hard[1].time > s)
  <2>1. n + 1 >= 1
    OBVIOUS
  <2> QED BY <2>1, Zenon DEF Out
<1>2. 1 \in 1..(n + 1) /\ n + 1 \in 1..(n + 1) /\ r.time \in Int /\ hard[1].time \in Int /\ hard[1].time <= r.time
  BY <1>1
<1>3. Latest(n + 1, n + 1) <=> r.time <= s /\ r.state # 0
  OBVIOUS
<1>4. \A j \in 1..n : Latest(n + 1, j) <=> Latest(n, j) /\ r.time > s
  <2> TAKE j \in 1..n
  <2>1. (j + 1)..(n + 1) = ((j + 1)..n) \cup {n + 1}
    OBVIOUS
  <2> QED BY <2>1
<1> HIDE DEF Latest
<1>5. ASSUME r.time <= s PROVE Out(hard, n + 1, s) <=> r.state # 0
  <2>1. ~(hard[1].time > s) /\ ~(r.time > s)
    BY <1>2, <1>5
  <2>2. \A j \in 1..(n + 1) : j \in 1..n \/ j = n + 1
    OBVIOUS
  <2> QED BY <1>1, <1>2, <1>3, <1>4, <1>5, <2>1, <2>2
<1>6. ASSUME s < r.time, n # 0 PROVE Out(hard, n + 1, s) <=> Out(hard, n, s)
  <2>1. r.time > s /\ ~(r.time <= s) /\ n >= 1
    BY <1>2, <1>6
  <2>2. \A j \in 1..(n + 1) : j \in 1..n \/ j = n + 1
    OBVIOUS
  <2>3. 1..n \subseteq 1..(n + 1)
    OBVIOUS
  <2> QED BY <1>1, <1>3, <1>4, <2>1, <2>2, <2>3
<1>7. ASSUME s < r.time, n = 0 PROVE Out(hard, n + 1, s) <=> r.state = 0
  <2>1. r.time > s /\ ~(r.time <= s) /\ n + 1 = 1 /\ \A j \in 1..(n + 1) : j = n + 1
    BY <1>2, <1>7
  <2> QED BY <1>1, <1>3, <2>1
<1> QED BY <1>5, <1>6, <1>7

\* One more alert is reduced faithfully.
LEMMA StaysFaithful ==
    ASSUME NEW hard, NEW n \in Nat, NEW since \in Nat, NEW sofar,
           \A i \in 1..(n + 1) : hard[i].time \in Int /\ since <= hard[i].time,
           \A i, j \in 1..(n + 1) : i < j => hard[i].time <= hard[j].time,
           Faithful(sofar, hard, n, since)
    PROVE  Faithful(Reduced(sofar, hard[n + 1], n + 1 = 1, since), hard, n + 1, since)
<1> DEFINE r == hard[n + 1]
           next == Reduced(sofar, r, n + 1 = 1, since)
           until == IF n = 0 THEN since ELSE hard[n].time
           Begun1(sf, s) == sf.start # None /\ sf.start <= s
<1>1. /\ sofar \in Reductions /\ Ordered(sofar.found, since, until)
      /\ sofar.start # None <=> n >= 1 /\ hard[n].state # 0
      /\ sofar.start # None => /\ Ordered(sofar.found, since, sofar.start)
                               /\ since <= sofar.start /\ sofar.start <= hard[n].time
      /\ \A s \in Int : since <= s =>
           (Out(hard, n, s) <=> Within(sofar.found, s) \/ Begun1(sofar, s))
      /\ n = 0 => sofar = NothingYet
  BY DEF Faithful
<1>2. sofar.start \in Int /\ sofar.found \in Seq(Spans) /\ since # None /\ None \in Int
  BY <1>1 DEF Reductions, None
<1>3. r.time \in Int /\ since <= r.time /\ until \in Int /\ until <= r.time
  <2>1. n + 1 \in 1..(n + 1) /\ (n # 0 => n \in 1..(n + 1) /\ n < n + 1)
    OBVIOUS
  <2> QED BY <2>1
<1>4. sofar.start # None => sofar.start <= r.time
  <2>1. n # 0 => n \in 1..(n + 1) /\ n + 1 \in 1..(n + 1) /\ n < n + 1
    OBVIOUS
  <2> QED BY <1>1, <1>2, <2>1
<1>5. next \in Reductions
  BY <1>1, <1>3, ReducedIsReduction
<1> HIDE DEF next
<1>6. \A found \in Seq(Spans), a, b \in Int : Ordered(found, since, a) /\ a <= b => Ordered(found, since, b)
  <2> TAKE found \in Seq(Spans), a \in Int, b \in Int
  <2> HAVE Ordered(found, since, a) /\ a <= b
  <2>1. \A i \in 1..Len(found) : found[i].end \in Int
    <3>1. \A i \in 1..Len(found) : found[i] \in Spans
      BY ElementOfSeq
    <3> QED BY <3>1 DEF Spans
  <2> QED BY <2>1 DEF Ordered
<1>7. \A found \in Seq(Spans), a, s \in Int : Ordered(found, since, a) /\ a <= s => ~Within(found, s)
  <2> TAKE found \in Seq(Spans), a \in Int, s \in Int
  <2> HAVE Ordered(found, since, a) /\ a <= s
  <2>1. \A i \in 1..Len(found) : found[i].end \in Int
    <3>1. \A i \in 1..Len(found) : found[i] \in Spans
      BY ElementOfSeq
    <3> QED BY <3>1 DEF Spans
  <2> QED BY <2>1 DEF Ordered, Within
<1>8. Ordered(sofar.found, since, r.time)
  BY <1>1, <1>2, <1>3, <1>6
<1>9. ASSUME NEW s \in Int, since <= s
      PROVE  /\ r.time <= s => (Out(hard, n + 1, s) <=> r.state # 0) /\ ~Within(sofar.found, s)
             /\ s < r.time /\ n # 0 => (Out(hard, n + 1, s) <=> Within(sofar.found, s) \/ Begun1(sofar, s))
             /\ s < r.time /\ n = 0 => (Out(hard, n + 1, s) <=> r.state = 0)
  <2>1. r.time <= s => ~Within(sofar.found, s)
    BY <1>2, <1>3, <1>7, <1>8
  <2>2. /\ r.time <= s => (Out(hard, n + 1, s) <=> r.state # 0)
        /\ s < r.time /\ n # 0 => (Out(hard, n + 1, s) <=> Out(hard, n, s))
        /\ s < r.time /\ n = 0 => (Out(hard, n + 1, s) <=> r.state = 0)
    <3>1. \A i \in 1..(n + 1) : hard[i].time \in Int
      OBVIOUS
    <3> QED BY <3>1, OutLater
  <2> QED BY <1>1, <1>9, <2>1, <2>2
<1>10. n = 0 => sofar.start = None /\ \A s : ~Within(sofar.found, s)
  <2> HAVE n = 0
  <2>1. sofar.start = None /\ Len(sofar.found) = 0
    BY <1>1 DEF NothingYet
  <2> QED BY <2>1 DEF Within
<1>11. n + 1 # 0 /\ n + 1 >= 1
  OBVIOUS
<1> DEFINE Right == /\ Ordered(next.found, since, r.time)
                    /\ next.start # None <=> r.state # 0
                    /\ next.start # None => /\ Ordered(next.found, since, next.start)
                                            /\ since <= next.start /\ next.start <= r.time
                    /\ \A s \in Int : since <= s =>
                         (Out(hard, n + 1, s) <=> Within(next.found, s) \/ Begun1(next, s))
<1>12. ASSUME r.state = 0, sofar.start # None PROVE Right
  <2>1. next.start = None /\ next.found = Append(sofar.found, Incident(sofar.start, r.time))
    BY <1>12 DEF next, Reduced
  <2>2. /\ Ordered(next.found, since, r.time)
        /\ \A s \in Int : Within(next.found, s) <=> Within(sofar.found, s) \/ (sofar.start <= s /\ s < r.time)
    BY <1>1, <1>2, <1>3, <1>4, <1>12, <2>1, OneMoreSpan
  <2>3. ASSUME NEW s \in Int, since <= s
        PROVE  Out(hard, n + 1, s) <=> Within(next.found, s) \/ Begun1(next, s)
    <3>1. n # 0
      BY <1>10, <1>12
    <3>2. s < r.time \/ r.time <= s
      BY <1>3
    <3>3. r.time <= s => ~(s < r.time)
      BY <1>3
    <3> QED BY <1>9, <1>12, <2>1, <2>2, <2>3, <3>1, <3>2, <3>3
  <2>4. Right
    BY <1>12, <2>1, <2>2, <2>3
  <2> QED BY <2>4
<1>13. ASSUME r.state = 0, sofar.start = None, n = 0 PROVE Right
  <2>1. next.start = None /\ next.found = Append(sofar.found, Incident(since, r.time))
    BY <1>2, <1>13 DEF next, Reduced
  <2>2. /\ Ordered(next.found, since, r.time)
        /\ \A s \in Int : Within(next.found, s) <=> Within(sofar.found, s) \/ (since <= s /\ s < r.time)
    <3>1. Ordered(sofar.found, since, since) /\ since \in Int /\ since <= since
      BY <1>1, <1>13
    <3> QED BY <1>2, <1>3, <2>1, <3>1, OneMoreSpan
  <2>3. ASSUME NEW s \in Int, since <= s
        PROVE  Out(hard, n + 1, s) <=> Within(next.found, s) \/ Begun1(next, s)
    <3>1. s < r.time \/ r.time <= s
      BY <1>3
    <3>2. r.time <= s => ~(s < r.time)
      BY <1>3
    <3> QED BY <1>9, <1>10, <1>13, <2>1, <2>2, <2>3, <3>1, <3>2
  <2>4. Right
    BY <1>13, <2>1, <2>2, <2>3
  <2> QED BY <2>4
<1>14. ASSUME r.state = 0, sofar.start = None, n # 0 PROVE Right
  <2>1. next.start = None /\ next.found = sofar.found
    BY <1>14 DEF next, Reduced
  <2>2. ASSUME NEW s \in Int, since <= s
        PROVE  Out(hard, n + 1, s) <=> Within(next.found, s) \/ Begun1(next, s)
    <3>1. s < r.time \/ r.time <= s
      BY <1>3
    <3> QED BY <1>9, <1>14, <2>1, <2>2, <3>1
  <2>3. Right
    BY <1>8, <1>14, <2>1, <2>2
  <2> QED BY <2>3
<1>15. ASSUME r.state # 0, sofar.start = None PROVE Right
  <2>1. next.start = r.time /\ next.found = sofar.found
    BY <1>15 DEF next, Reduced
  <2>2. next.start # None
    BY <1>3, <2>1 DEF None
  <2>3. ASSUME NEW s \in Int, since <= s
        PROVE  Out(hard, n + 1, s) <=> Within(next.found, s) \/ Begun1(next, s)
    <3>1. s < r.time \/ r.time <= s
      BY <1>3
    <3>2. s < r.time => ~(r.time <= s)
      BY <1>3
    <3> QED BY <1>9, <1>10, <1>15, <2>1, <2>2, <2>3, <3>1, <3>2
  <2>4. Right
    BY <1>3, <1>8, <1>15, <2>1, <2>2, <2>3
  <2> QED BY <2>4
<1>16. ASSUME r.state # 0, sofar.start # None PROVE Right
  <2>1. next.start = sofar.start /\ next.found = sofar.found
    BY <1>16 DEF next, Reduced
  <2>2. ASSUME NEW s \in Int, since <= s
        PROVE  Out(hard, n + 1, s) <=> Within(next.found, s) \/ Begun1(next, s)
    <3>1. s < r.time \/ r.time <= s
      BY <1>3
    <3>2. r.time <= s => sofar.start <= s
      BY <1>2, <1>3, <1>4, <1>16
    <3> QED BY <1>9, <1>10, <1>16, <2>1, <2>2, <3>1, <3>2
  <2>3. Right
    BY <1>1, <1>4, <1>8, <1>16, <2>1, <2>2
  <2> QED BY <2>3
<1>17. Right
  <2> HIDE DEF Right
  <2>1. \/ r.state = 0 /\ sofar.start # None
        \/ r.state = 0 /\ sofar.start = None /\ n = 0
        \/ r.state = 0 /\ sofar.start = None /\ n # 0
        \/ r.state # 0 /\ sofar.start = None
        \/ r.state # 0 /\ sofar.start # None
    OBVIOUS
  <2> QED BY <2>1, <1>12, <1>13, <1>14, <1>15, <1>16
<1>18. Faithful(next, hard, n + 1, since)
  BY <1>5, <1>11, <1>17 DEF Faithful
<1> QED BY <1>18 DEF next

\* The whole reduction is faithful.
InTime(hard, since) ==
    /\ \A i \in 1..Len(hard) : hard[i].time \in Int /\ since <= hard[i].time
    /\ \A i, j \in 1..Len(hard) : i < j => hard[i].time <= hard[j].time
LEMMA ReductionFaithful ==
    ASSUME NEW S, \A r \in S : r.time \in Int, NEW hard \in Seq(S), NEW since \in Nat,
           InTime(hard, since)
    PROVE  Faithful(Reduction(hard, since), hard, Len(hard), since)
<1> DEFINE N == Len(hard)
<1>1. N \in Nat
  BY LenProperties
<1>2. PICK sofar : ReductionSteps(sofar, hard, since)
  BY ReductionWalks
<1>3. /\ sofar[0] = NothingYet
      /\ \A n \in 1..N : sofar[n] = Reduced(sofar[n - 1], hard[n], n = 1, since)
      /\ Reduction(hard, since) = sofar[N]
  BY <1>2 DEF ReductionSteps
<1> DEFINE T == {n \in 0..N : Faithful(sofar[n], hard, n, since)}
<1>4. 0 \in T
  <2>1. NothingYet \in Reductions /\ NothingYet.start = None /\ NothingYet.found = <<>>
    BY EmptySeq DEF NothingYet, Reductions, None
  <2>2. Ordered(<<>>, since, since)
    BY DEF Ordered
  <2>3. \A s \in Int : ~Within(<<>>, s)
    BY DEF Within
  <2>4. \A s \in Int : ~Out(hard, 0, s)
    BY DEF Out
  <2>5. Faithful(NothingYet, hard, 0, since)
    BY <2>1, <2>2, <2>3, <2>4 DEF Faithful
  <2> QED BY <1>1, <1>3, <2>5
<1>5. ASSUME NEW n \in 0..(N - 1), n \in T PROVE n + 1 \in T
  <2>1. n \in Nat /\ n + 1 \in 1..N /\ n + 1 \in 0..N /\ (n + 1) - 1 = n /\ 1..(n + 1) \subseteq 1..N
    BY <1>1
  <2>2. /\ \A i \in 1..(n + 1) : hard[i].time \in Int /\ since <= hard[i].time
        /\ \A i, j \in 1..(n + 1) : i < j => hard[i].time <= hard[j].time
    BY <2>1 DEF InTime
  <2>3. Faithful(Reduced(sofar[n], hard[n + 1], n + 1 = 1, since), hard, n + 1, since)
    BY <1>5, <2>1, <2>2, StaysFaithful
  <2>4. sofar[n + 1] = Reduced(sofar[n], hard[n + 1], n + 1 = 1, since)
    BY <1>3, <2>1
  <2> QED BY <2>1, <2>3, <2>4
<1>6. N \in T
  <2> HIDE DEF T
  <2>1. 0..N \subseteq T
    BY <1>1, <1>4, <1>5, UpTo
  <2> QED BY <1>1, <2>1
<1> QED BY <1>3, <1>6

\* The seconds of an incident; incidents that follow one another in time.
Covering(i, s) == i.start <= s /\ (i.end = None \/ s < i.end)
EndBy(i, until) == IF i.end = None THEN until ELSE i.end
Arranged(list, since, until) ==
    /\ list \in Seq(Spans)
    /\ \A i \in 1..Len(list) : /\ since <= list[i].start /\ list[i].start <= EndBy(list[i], until)
                               /\ EndBy(list[i], until) <= until
    /\ \A i, j \in 1..Len(list) : i < j => EndBy(list[i], until) <= list[j].start

\* The incidents are the seconds the object was out, and one is going on if the
\* last hard alert was a problem.
LEMMA IncidentsFaithful ==
    ASSUME NEW S, NEW since \in Nat, NEW until \in Int, since <= until,
           \A r \in S : r.time \in Int /\ r.time <= until,
           NEW rows, NEW hard \in Seq(S), hard = HardAlerts(rows), InTime(hard, since)
    PROVE  LET list == Incidents(rows, since) IN
           /\ Arranged(list, since, until)
           /\ \A s \in Int : since <= s =>
                (Out(hard, Len(hard), s) <=> \E i \in 1..Len(list) : Covering(list[i], s))
           /\ (\E i \in 1..Len(list) : list[i].end = None) <=> Len(hard) >= 1 /\ hard[Len(hard)].state # 0
<1> DEFINE N == Len(hard)
           last == Reduction(hard, since)
           found == last.found
           list == Incidents(rows, since)
           until1 == IF N = 0 THEN since ELSE hard[N].time
<1>1. Faithful(last, hard, N, since)
  BY ReductionFaithful
<1>2. list = IF last.start = None THEN found ELSE Append(found, Incident(last.start, None))
  BY DEF Incidents
<1> HIDE DEF last, list
<1>3. /\ last \in Reductions /\ Ordered(found, since, until1)
      /\ last.start # None <=> N >= 1 /\ hard[N].state # 0
      /\ last.start # None => /\ Ordered(found, since, last.start)
                              /\ since <= last.start /\ last.start <= hard[N].time
      /\ \A s \in Int : since <= s =>
           (Out(hard, N, s) <=> Within(found, s) \/ (last.start # None /\ last.start <= s))
  BY <1>1 DEF Faithful
<1>4. N \in Nat /\ (N # 0 => hard[N].time \in Int /\ hard[N].time <= until)
  <2>1. N \in Nat /\ (N # 0 => N \in 1..N)
    BY LenProperties
  <2> QED BY <2>1, ElementOfSeq
<1> HIDE DEF N, until1
<1>5. last.start \in Int /\ found \in Seq(Spans) /\ until1 \in Int /\ until1 <= until
  BY <1>3, <1>4 DEF Reductions, until1
<1> DEFINE L == Len(found)
<1>6. L \in Nat /\ \A i \in 1..L : found[i] \in Spans /\ found[i].start \in Int /\ found[i].end \in Int
  <2>1. L \in Nat /\ \A i \in 1..L : found[i] \in Spans
    BY <1>5, LenProperties, ElementOfSeq
  <2> QED BY <2>1 DEF Spans
<1>7. /\ \A i \in 1..L : since <= found[i].start /\ found[i].start <= found[i].end /\ found[i].end <= until1
      /\ \A i, j \in 1..L : i < j => found[i].end <= found[j].start
  BY <1>3 DEF Ordered
<1>8. \A i \in 1..L : found[i].end # None /\ found[i].end <= until /\ EndBy(found[i], until) = found[i].end
  BY <1>5, <1>6, <1>7 DEF None, EndBy
<1>9. \A s : Within(found, s) <=> \E i \in 1..L : Covering(found[i], s)
  BY <1>8 DEF Within, Covering
<1> HIDE DEF found
<1>10. CASE last.start = None
  <2>1. list = found
    BY <1>2, <1>10
  <2>2. Arranged(found, since, until)
    BY <1>5, <1>7, <1>8 DEF Arranged
  <2> QED BY <1>3, <1>8, <1>9, <1>10, <2>1, <2>2 DEF list, N
<1>11. CASE last.start # None
  <2> DEFINE new == Incident(last.start, None)
  <2>1. new \in Spans /\ new.start = last.start /\ new.end = None
    BY <1>5 DEF Incident, Spans, None
  <2>2. list = Append(found, new)
    BY <1>2, <1>11
  <2> HIDE DEF new
  <2>3. /\ list \in Seq(Spans) /\ Len(list) = L + 1
        /\ (\A i \in 1..L : list[i] = found[i]) /\ list[L + 1] = new
    BY <1>5, <2>1, <2>2, AppendProperties
  <2> HIDE DEF L
  <2>4. L + 1 \in 1..(L + 1) /\ 1..L \subseteq 1..(L + 1) /\ \A i \in 1..(L + 1) : i \in 1..L \/ i = L + 1
    BY <1>6
  <2>5. EndBy(new, until) = until
    BY <2>1 DEF EndBy
  <2>6. last.start <= until /\ since <= last.start
    BY <1>3, <1>4, <1>5, <1>11
  <2>7. \A i \in 1..L : found[i].end <= last.start
    BY <1>3, <1>11 DEF Ordered, L
  <2>8. Arranged(list, since, until)
    <3>1. ASSUME NEW i \in 1..(L + 1)
          PROVE  /\ since <= list[i].start /\ list[i].start <= EndBy(list[i], until)
                 /\ EndBy(list[i], until) <= until
      <4>1. CASE i \in 1..L
        BY <1>7, <1>8, <2>3, <4>1
      <4>2. CASE i = L + 1
        BY <2>1, <2>3, <2>5, <2>6, <4>2
      <4> QED BY <2>4, <4>1, <4>2
    <3>2. ASSUME NEW i \in 1..(L + 1), NEW j \in 1..(L + 1), i < j
          PROVE  EndBy(list[i], until) <= list[j].start
      <4>1. i \in 1..L
        BY <1>6, <3>2
      <4>2. CASE j \in 1..L
        BY <1>7, <1>8, <2>3, <3>2, <4>1, <4>2
      <4>3. CASE j = L + 1
        BY <1>8, <2>1, <2>3, <2>7, <4>1, <4>3
      <4> QED BY <2>4, <4>2, <4>3
    <3> QED BY <2>3, <3>1, <3>2 DEF Arranged
  <2>9. ASSUME NEW s \in Int, since <= s
        PROVE  Out(hard, N, s) <=> \E i \in 1..(L + 1) : Covering(list[i], s)
    <3>1. Covering(list[L + 1], s) <=> last.start <= s
      BY <2>1, <2>3 DEF Covering
    <3>2. (\E i \in 1..(L + 1) : Covering(list[i], s)) <=> Within(found, s) \/ last.start <= s
      BY <1>9, <2>3, <2>4, <3>1
    <3> QED BY <1>3, <1>11, <2>9, <3>2
  <2>10. (\E i \in 1..(L + 1) : list[i].end = None) /\ N >= 1 /\ hard[N].state # 0
    BY <1>3, <1>11, <2>1, <2>3, <2>4
  <2> QED BY <2>3, <2>8, <2>9, <2>10 DEF list, N
<1> QED BY <1>10, <1>11

\* The sum of the durations is a walk over the incidents.
SumSteps(sum, list, until) ==
    /\ sum[0] = 0
    /\ \A n \in 1..Len(list) : sum[n] = sum[n - 1] + Duration(list[n], until)
    /\ Seconds(list, until) = sum[Len(list)]
LEMMA SecondsWalk ==
    ASSUME NEW list, Len(list) \in Nat, NEW until,
           \A n \in 1..Len(list) : Duration(list[n], until) \in Nat
    PROVE  \E sum : SumSteps(sum, list, until)
<1> DEFINE N == Len(list)
           step == [n \in 1..N |-> [v \in Nat |-> v + Duration(list[n], until)]]
<1>1. N \in Nat
  OBVIOUS
<1>2. \A n \in 1..N, v \in Nat : v + Duration(list[n], until) \in Nat
  OBVIOUS
<1>3. step \in [1..N -> [Nat -> Nat]]
  BY <1>2
<1>4. \A n \in 1..N, v \in Nat : step[n][v] = v + Duration(list[n], until)
  OBVIOUS
<1> HIDE DEF step
<1>5. PICK g : Walk(g, Nat, N, 0, step)
  <2>1. 0 \in Nat
    OBVIOUS
  <2> QED BY <1>1, <1>3, <2>1, WalkExists
<1>6. /\ g \in [0..N -> Nat] /\ g[0] = 0
      /\ \A n \in 1..N : g[n] = step[n][g[n - 1]]
  BY <1>5 DEF Walk
<1> DEFINE Recursion(h) == h = [n \in 0..N |-> IF n = 0 THEN 0 ELSE h[n - 1] + Duration(list[n], until)]
<1>7. Recursion(g)
  <2>1. ASSUME NEW n \in 0..N
        PROVE  g[n] = IF n = 0 THEN 0 ELSE g[n - 1] + Duration(list[n], until)
    <3>1. n # 0 => n \in 1..N /\ n - 1 \in 0..N
      BY <1>1
    <3> QED BY <1>4, <1>6, <3>1
  <2> QED BY <1>6, <2>1
<1> DEFINE sum == CHOOSE h : Recursion(h)
<1>8. Recursion(sum)
  <2> HIDE DEF Recursion
  <2> QED BY <1>7
<1>9. Seconds(list, until) = sum[N]
  BY DEF Seconds
<1> HIDE DEF sum
<1>10. \A n \in 0..N : sum[n] = IF n = 0 THEN 0 ELSE sum[n - 1] + Duration(list[n], until)
  BY <1>8
<1>11. sum[0] = 0 /\ \A n \in 1..N : sum[n] = sum[n - 1] + Duration(list[n], until)
  BY <1>1, <1>10
<1> QED BY <1>9, <1>11 DEF SumSteps

\* No second is counted twice: the durations add up to the seconds covered.
LEMMA SecondsCovered ==
    ASSUME NEW since \in Int, NEW until \in Int, NEW list, Arranged(list, since, until)
    PROVE  Seconds(list, until) =
             Cardinality({s \in since..(until - 1) : \E i \in 1..Len(list) : Covering(list[i], s)})
<1> DEFINE N == Len(list)
           End(i) == EndBy(list[i], until)
           Covered(n) == {s \in since..(until - 1) : \E i \in 1..n : Covering(list[i], s)}
<1>1. N \in Nat /\ \A i \in 1..N : list[i].start \in Int /\ list[i].end \in Int
  <2>1. N \in Nat /\ \A i \in 1..N : list[i] \in Spans
    BY LenProperties, ElementOfSeq DEF Arranged
  <2> QED BY <2>1 DEF Spans
<1>2. \A i \in 1..N : /\ End(i) \in Int /\ since <= list[i].start /\ list[i].start <= End(i) /\ End(i) <= until
  <2>1. \A i \in 1..N : End(i) \in Int
    BY <1>1 DEF EndBy
  <2> QED BY <2>1 DEF Arranged
<1>3. \A i, j \in 1..N : i < j => End(i) <= list[j].start
  BY DEF Arranged
<1>4. \A i \in 1..N : Duration(list[i], until) = End(i) - list[i].start /\ Duration(list[i], until) \in Nat
  <2> TAKE i \in 1..N
  <2> DEFINE d == End(i) - list[i].start
  <2>1. d \in Nat
    BY <1>1, <1>2
  <2>2. Duration(list[i], until) = Max({0, d})
    BY DEF Duration, EndBy
  <2> HIDE DEF d
  <2>3. \A x \in {0, d} : (\A y \in {0, d} : x >= y) <=> x = d
    BY <2>1
  <2>4. Max({0, d}) = d
    BY <2>3 DEF Max
  <2> QED BY <2>1, <2>2, <2>4 DEF d
<1>5. \A i \in 1..N, s \in since..(until - 1) : Covering(list[i], s) <=> s \in (list[i].start)..(End(i) - 1)
  BY <1>1, <1>2 DEF Covering, EndBy
<1> HIDE DEF End
<1>6. PICK sum : SumSteps(sum, list, until)
  BY <1>1, <1>4, SecondsWalk
<1>7. /\ sum[0] = 0 /\ Seconds(list, until) = sum[N]
      /\ \A n \in 1..N : sum[n] = sum[n - 1] + Duration(list[n], until)
  BY <1>6 DEF SumSteps
<1> HIDE DEF N
<1>8. \A n : IsFiniteSet(Covered(n))
  <2>1. IsFiniteSet(since..(until - 1))
    BY FS_Interval
  <2> QED BY <2>1, FS_Subset
<1> DEFINE T == {n \in 0..N : sum[n] = Cardinality(Covered(n))}
<1>9. 0 \in T
  <2>1. Covered(0) = {}
    OBVIOUS
  <2>2. Cardinality({}) = 0
    BY FS_EmptySet
  <2> HIDE DEF Covered
  <2> QED BY <1>1, <1>7, <2>1, <2>2
<1>10. ASSUME NEW n \in 0..(N - 1), n \in T PROVE n + 1 \in T
  <2> DEFINE more == (list[n + 1].start)..(End(n + 1) - 1)
  <2>1. n + 1 \in 1..N /\ n + 1 \in 0..N /\ (n + 1) - 1 = n
    BY <1>1
  <2>2. more \subseteq since..(until - 1)
    BY <1>1, <1>2, <2>1
  <2>3. Covered(n + 1) = Covered(n) \cup more
    <3>1. \A i \in 1..(n + 1) : i \in 1..n \/ i = n + 1
      BY <1>1
    <3>2. n + 1 \in 1..(n + 1) /\ 1..n \subseteq 1..(n + 1)
      BY <1>1
    <3>3. \A s \in since..(until - 1) : Covering(list[n + 1], s) <=> s \in more
      BY <1>5, <2>1
    <3> HIDE DEF more
    <3> QED BY <2>2, <3>1, <3>2, <3>3
  <2>4. Covered(n) \cap more = {}
    <3> SUFFICES ASSUME NEW s \in Covered(n), s \in more PROVE FALSE
      OBVIOUS
    <3>1. PICK i \in 1..n : s \in since..(until - 1) /\ Covering(list[i], s)
      OBVIOUS
    <3>2. i \in 1..N /\ i < n + 1
      BY <1>1, <2>1
    <3>3. s \in (list[i].start)..(End(i) - 1)
      BY <1>5, <3>1, <3>2
    <3>4. End(i) <= list[n + 1].start
      BY <1>3, <2>1, <3>2 DEF End
    <3> QED BY <1>1, <1>2, <2>1, <3>2, <3>3, <3>4
  <2>5. IsFiniteSet(more) /\ Cardinality(more) = Duration(list[n + 1], until)
    <3> DEFINE a == list[n + 1].start
               b == End(n + 1) - 1
    <3>1. a \in Int /\ b \in Int /\ a <= b + 1 /\ Duration(list[n + 1], until) = b + 1 - a
      BY <1>1, <1>2, <1>4, <2>1
    <3>2. more = a..b
      OBVIOUS
    <3> HIDE DEF a, b, more
    <3>3. IsFiniteSet(a..b) /\ Cardinality(a..b) = IF a > b THEN 0 ELSE b - a + 1
      BY <3>1, FS_Interval
    <3> QED BY <3>1, <3>2, <3>3
  <2> HIDE DEF more
  <2>6. IsFiniteSet(Covered(n)) /\ sum[n] = Cardinality(Covered(n)) /\ Cardinality(Covered(n)) \in Nat
    BY <1>8, <1>10, FS_CardinalityType
  <2>7. sum[n + 1] = sum[n] + Duration(list[n + 1], until)
    BY <1>7, <2>1
  <2> DEFINE A == Covered(n)
             B == Covered(n + 1)
  <2>8. B = A \cup more /\ A \cap more = {} /\ IsFiniteSet(A) /\ sum[n] = Cardinality(A)
    BY <2>3, <2>4, <2>6
  <2> HIDE DEF A, B, Covered
  <2>9. Cardinality(A \cup more) = Cardinality(A) + Cardinality(more) - Cardinality(A \cap more)
    BY <2>5, <2>8, FS_Union
  <2>10. Cardinality(A \cap more) = 0 /\ Cardinality(A) \in Nat /\ Cardinality(more) \in Nat
    BY <2>5, <2>8, FS_EmptySet, FS_CardinalityType
  <2>11. sum[n + 1] = Cardinality(B)
    BY <2>5, <2>7, <2>8, <2>9, <2>10
  <2> QED BY <2>1, <2>11 DEF B
<1>11. N \in T
  <2> HIDE DEF T
  <2>1. 0..N \subseteq T
    BY <1>1, <1>9, <1>10, UpTo
  <2> QED BY <1>1, <2>1
<1> QED BY <1>7, <1>11 DEF N

\* The figures of some incidents.
LEMMA FiguresSay ==
    ASSUME NEW since \in Int, NEW until \in Int, NEW list, Arranged(list, since, until)
    PROVE  /\ Figures(list, until).downtime =
                Cardinality({s \in since..(until - 1) : \E i \in 1..Len(list) : Covering(list[i], s)})
           /\ Figures(list, until).ongoing <=> \E i \in 1..Len(list) : list[i].end = None
<1> DEFINE places == {n \in DOMAIN list : list[n].end # None}
           recovered == Chosen(list, places)
<1>1. /\ Figures(list, until).downtime = Seconds(list, until)
      /\ Figures(list, until).ongoing <=> Len(recovered) < Len(list)
  BY DEF Figures
<1>2. list \in Seq(Spans) /\ Len(list) \in Nat /\ DOMAIN list = 1..Len(list)
  BY LenProperties DEF Arranged
<1>3. recovered = Chosen(list, places) /\ places \in SUBSET DOMAIN list
  OBVIOUS
<1>4. places = 1..Len(list) <=> ~ \E i \in 1..Len(list) : list[i].end = None
  BY <1>2
<1> HIDE DEF recovered, places
<1>5. /\ Cardinality(places) \in Nat
      /\ \E f : /\ Lists(recovered, f, list, places)
               /\ \A m, n \in 1..Len(recovered) : m < n => f[m] < f[n]
  BY <1>2, <1>3, ChosenProperties
<1>6. Len(recovered) = Cardinality(places)
  BY <1>5, Zenon DEF Lists
<1>7. /\ Cardinality(places) <= Len(list)
      /\ Cardinality(places) = Len(list) <=> places = 1..Len(list)
  <2>1. IsFiniteSet(1..Len(list)) /\ Cardinality(1..Len(list)) = Len(list)
    <3>1. \A n \in Nat : IsFiniteSet(1..n) /\ Cardinality(1..n) = n
      BY FS_Interval
    <3> QED BY <1>2, <3>1
  <2> QED BY <1>2, <1>3, <2>1, FS_Subset
<1>8. Figures(list, until).ongoing <=> \E i \in 1..Len(list) : list[i].end = None
  BY <1>1, <1>2, <1>4, <1>5, <1>6, <1>7
<1> QED BY <1>1, <1>8, SecondsCovered
----------------------------------------------------------------------------
(* Rows in the order of the log. *)

\* The rows of a sequence have rising numbers, and their times do not fall.
AsLogged(s) ==
    \A i, j \in 1..Len(s) : i < j => s[i].n < s[j].n /\ s[i].time <= s[j].time

\* What is chosen of such rows is in the order of the log.
LEMMA ChosenAsLogged ==
    ASSUME NEW S, NEW rows \in Seq(S), AsLogged(rows), NEW places \in SUBSET DOMAIN rows,
           NEW s, s = Chosen(rows, places)
    PROVE  s \in Seq(S) /\ AsLogged(s) /\ ToSet(s) = {rows[i] : i \in places}
<1>1. /\ s \in Seq(S) /\ ToSet(s) = {rows[i] : i \in places}
      /\ \E f : /\ Lists(s, f, rows, places)
               /\ \A m, n \in 1..Len(s) : m < n => f[m] < f[n]
  BY ChosenProperties
<1>2. PICK f : /\ Lists(s, f, rows, places)
               /\ \A m, n \in 1..Len(s) : m < n => f[m] < f[n]
  BY <1>1
<1>3. \A n \in 1..Len(s) : f[n] \in 1..Len(rows) /\ s[n] = rows[f[n]]
  BY <1>2, Members DEF Lists
<1>4. ASSUME NEW m \in 1..Len(s), NEW n \in 1..Len(s), m < n
      PROVE  s[m].n < s[n].n /\ s[m].time <= s[n].time
  <2>1. f[m] < f[n]
    BY <1>2, <1>4
  <2> QED BY <1>3, <2>1 DEF AsLogged
<1> QED BY <1>1, <1>4 DEF AsLogged

\* To sort them by their times leaves them as they are.
LEMMA HardAsLogged ==
    ASSUME NEW S, \A r \in S : r.time \in Int, NEW rows \in Seq(S), AsLogged(rows)
    PROVE  HardAlerts(rows) = Chosen(rows, {i \in DOMAIN rows : rows[i].type = "ALERT" /\ rows[i].hard})
<1> DEFINE places == {i \in DOMAIN rows : rows[i].type = "ALERT" /\ rows[i].hard}
<1>1. DOMAIN rows = 1..Len(rows) /\ Len(rows) \in Nat /\ \A i \in 1..Len(rows) : rows[i].time \in Int
  BY LenProperties, ElementOfSeq
<1>2. places \subseteq 1..Len(rows) /\ HardAlerts(rows) = ByTime(rows, places)
  BY <1>1 DEF HardAlerts
<1> HIDE DEF places
<1>3. ASSUME NEW i \in places, NEW j \in places
      PROVE  Precedes(rows, i, j) <=> i < j
  <2>1. i \in 1..Len(rows) /\ j \in 1..Len(rows) /\ rows[i].time \in Int /\ rows[j].time \in Int
    BY <1>1, <1>2
  <2>2. i < j => rows[i].time <= rows[j].time
    BY <2>1 DEF AsLogged
  <2>3. j < i => rows[j].time <= rows[i].time
    BY <2>1 DEF AsLogged
  <2> DEFINE a == rows[i].time
             b == rows[j].time
  <2>4. (Precedes(rows, i, j) <=> a < b \/ (a = b /\ i < j)) /\ a \in Int /\ b \in Int
        /\ (i < j => a <= b) /\ (j < i => b <= a) /\ (i = j => a = b)
    BY <2>1, <2>2, <2>3 DEF Precedes
  <2> HIDE DEF a, b
  <2> QED BY <2>1, <2>4
<1>4. {p \in places \X places : Precedes(rows, p[1], p[2])} = {p \in places \X places : p[1] < p[2]}
  BY <1>3
<1>5. ByTime(rows, places) = Chosen(rows, places)
  BY <1>4 DEF ByTime, Chosen
<1> QED BY <1>2, <1>5 DEF places
================================================================================
