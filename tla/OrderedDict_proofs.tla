-------------------------- MODULE OrderedDict_proofs ---------------------------
(* What removing an item does to a sequence and to an OrderedDict.         *)
EXTENDS OrderedDict, SequenceTheorems, TLAPS

\* RemoveAt shifts what follows the removed position by one.
LEMMA RemoveAtProperties ==
    ASSUME NEW S, NEW s \in Seq(S), NEW i \in DOMAIN s
    PROVE  /\ RemoveAt(s, i) \in Seq(S)
           /\ Len(RemoveAt(s, i)) = Len(s) - 1
           /\ \A j \in 1..(Len(s) - 1) :
                  RemoveAt(s, i)[j] = IF j < i THEN s[j] ELSE s[j + 1]
<1> DEFINE a == SubSeq(s, 1, i - 1)
           b == SubSeq(s, i + 1, Len(s))
<1>1. Len(s) \in Nat /\ DOMAIN s = 1..Len(s) /\ \A j \in 1..Len(s) : s[j] \in S
  BY ElementOfSeq, LenProperties
<1>2. /\ a \in Seq(S) /\ Len(a) = i - 1
      /\ \A j \in 1..(i - 1) : a[j] = s[j]
  <2>1. \A j \in 1..(i - 1) : s[j] \in S
    BY <1>1
  <2>2. 1 \in Int /\ i - 1 \in Int
    BY <1>1
  <2>3. /\ SubSeq(s, 1, i - 1) \in Seq(S)
        /\ Len(SubSeq(s, 1, i - 1)) = IF 1 <= i - 1 THEN (i - 1) - 1 + 1 ELSE 0
        /\ \A j \in 1..((i - 1) - 1 + 1) : SubSeq(s, 1, i - 1)[j] = s[1 + j - 1]
    BY <2>1, <2>2, SubSeqProperties
  <2> QED BY <2>3, <1>1
<1>3. /\ b \in Seq(S) /\ Len(b) = Len(s) - i
      /\ \A j \in 1..(Len(s) - i) : b[j] = s[i + j]
  <2>1. \A j \in (i + 1)..Len(s) : s[j] \in S
    BY <1>1
  <2>2. i + 1 \in Int /\ Len(s) \in Int
    BY <1>1
  <2>3. /\ SubSeq(s, i + 1, Len(s)) \in Seq(S)
        /\ Len(SubSeq(s, i + 1, Len(s))) =
              IF i + 1 <= Len(s) THEN Len(s) - (i + 1) + 1 ELSE 0
        /\ \A j \in 1..(Len(s) - (i + 1) + 1) :
              SubSeq(s, i + 1, Len(s))[j] = s[i + 1 + j - 1]
    BY <2>1, <2>2, SubSeqProperties
  <2> QED BY <2>3, <1>1
<1>4. /\ a \o b \in Seq(S)
      /\ Len(a \o b) = Len(a) + Len(b)
      /\ \A j \in 1..(Len(a) + Len(b)) :
             (a \o b)[j] = IF j <= Len(a) THEN a[j] ELSE b[j - Len(a)]
  BY <1>2, <1>3, ConcatProperties
<1> HIDE DEF a, b
<1>5. ASSUME NEW j \in 1..(Len(s) - 1)
      PROVE  (a \o b)[j] = IF j < i THEN s[j] ELSE s[j + 1]
  <2>1. CASE j < i
    BY <2>1, <1>1, <1>2, <1>3, <1>4
  <2>2. CASE ~(j < i)
    <3>1. j - Len(a) \in 1..(Len(s) - i) /\ i + (j - Len(a)) = j + 1
      BY <2>2, <1>1, <1>2
    <3>2. (a \o b)[j] = b[j - Len(a)]
      BY <2>2, <1>1, <1>2, <1>3, <1>4
    <3> QED BY <2>2, <3>1, <3>2, <1>3
  <2> QED BY <2>1, <2>2
<1>6. RemoveAt(s, i) = a \o b
  BY DEF RemoveAt, a, b
<1>7. Len(a \o b) = Len(s) - 1
  BY <1>1, <1>2, <1>3, <1>4
<1> QED BY <1>4, <1>5, <1>6, <1>7

\* A present key is found at exactly one position.
LEMMA IndexOfProperties ==
    ASSUME NEW d, NEW k \in KeysOf(d)
    PROVE  /\ IndexOf(d, k) \in DOMAIN d
           /\ d[IndexOf(d, k)].key = k
  BY DEF IndexOf, KeysOf

\* pop(k) keeps every other item and leaves no item for k.
LEMMA PopProperties ==
    ASSUME NEW S, NEW d \in Seq(S), DistinctKeys(d), NEW k \in KeysOf(d)
    PROVE  /\ Pop(d, k) \in Seq(S)
           /\ Len(Pop(d, k)) = Len(d) - 1
           /\ \A i \in DOMAIN Pop(d, k) : /\ \E j \in DOMAIN d : Pop(d, k)[i] = d[j]
                                          /\ Pop(d, k)[i].key # k
           /\ DistinctKeys(Pop(d, k))
<1> DEFINE n == IndexOf(d, k)
           r == RemoveAt(d, n)
<1>1. n \in DOMAIN d /\ d[n].key = k
  BY IndexOfProperties
<1>2. Len(d) \in Nat /\ DOMAIN d = 1..Len(d)
  BY LenProperties
<1>3. /\ r \in Seq(S)
      /\ Len(r) = Len(d) - 1
      /\ \A j \in 1..(Len(d) - 1) : r[j] = IF j < n THEN d[j] ELSE d[j + 1]
  BY <1>1, RemoveAtProperties
<1>4. DOMAIN r = 1..(Len(d) - 1)
  BY <1>3, LenProperties
<1> DEFINE from(j) == IF j < n THEN j ELSE j + 1
<1>5. ASSUME NEW j \in DOMAIN r
      PROVE  from(j) \in DOMAIN d /\ from(j) # n /\ r[j] = d[from(j)]
  BY <1>1, <1>2, <1>3, <1>4
<1>6. \A i, j \in DOMAIN r : from(i) = from(j) => i = j
  BY <1>1, <1>2, <1>4
<1> HIDE DEF n, r, from
<1>7. \A i \in DOMAIN r : r[i].key # k
  BY <1>1, <1>5 DEF DistinctKeys
<1>8. DistinctKeys(r)
  BY <1>5, <1>6 DEF DistinctKeys
<1>9. Pop(d, k) = r
  BY DEF Pop, r, n
<1> QED BY <1>3, <1>5, <1>7, <1>8, <1>9

\* Appending an item under a key that is absent keeps the keys distinct.
LEMMA AppendNewKey ==
    ASSUME NEW S, NEW d \in Seq(S), DistinctKeys(d), NEW e \in S,
           \A i \in DOMAIN d : d[i].key # e.key
    PROVE  /\ Append(d, e) \in Seq(S)
           /\ Len(Append(d, e)) = Len(d) + 1
           /\ DistinctKeys(Append(d, e))
           /\ \A i \in DOMAIN Append(d, e) :
                  Append(d, e)[i] = e \/ \E j \in DOMAIN d : Append(d, e)[i] = d[j]
<1> DEFINE a == Append(d, e)
<1>1. /\ a \in Seq(S) /\ Len(a) = Len(d) + 1
      /\ \A i \in 1..Len(d) : a[i] = d[i]
      /\ a[Len(d) + 1] = e
  BY AppendProperties
<1>2. Len(d) \in Nat /\ DOMAIN d = 1..Len(d) /\ DOMAIN a = 1..(Len(d) + 1)
  BY <1>1, LenProperties
<1> HIDE DEF a
<1>3. DistinctKeys(a)
  <2> SUFFICES ASSUME NEW i \in DOMAIN a, NEW j \in DOMAIN a, a[i].key = a[j].key
               PROVE  i = j
    BY DEF DistinctKeys
  <2>1. CASE i \in DOMAIN d /\ j \in DOMAIN d
    BY <2>1, <1>1, <1>2 DEF DistinctKeys
  <2>2. CASE i \in DOMAIN d /\ j = Len(d) + 1
    BY <2>2, <1>1, <1>2
  <2>3. CASE i = Len(d) + 1 /\ j \in DOMAIN d
    BY <2>3, <1>1, <1>2
  <2>4. CASE i = Len(d) + 1 /\ j = Len(d) + 1
    BY <2>4
  <2> QED BY <2>1, <2>2, <2>3, <2>4, <1>2
<1>4. \A i \in DOMAIN a : a[i] = e \/ \E j \in DOMAIN d : a[i] = d[j]
  BY <1>1, <1>2
<1> QED BY <1>1, <1>3, <1>4 DEF a

\* move_to_end(k) only reorders.
LEMMA MoveToEndProperties ==
    ASSUME NEW S, NEW d \in Seq(S), DistinctKeys(d), NEW k \in KeysOf(d)
    PROVE  /\ MoveToEnd(d, k) \in Seq(S)
           /\ Len(MoveToEnd(d, k)) = Len(d)
           /\ DistinctKeys(MoveToEnd(d, k))
           /\ \A i \in DOMAIN MoveToEnd(d, k) :
                  \E j \in DOMAIN d : MoveToEnd(d, k)[i] = d[j]
<1> DEFINE p == Pop(d, k)
           e == Lookup(d, k)
<1>1. IndexOf(d, k) \in DOMAIN d /\ e = d[IndexOf(d, k)] /\ e.key = k
  BY IndexOfProperties DEF Lookup
<1>2. e \in S
  BY <1>1, ElementOfSeq, LenProperties
<1>3. /\ p \in Seq(S) /\ Len(p) = Len(d) - 1 /\ DistinctKeys(p)
      /\ \A i \in DOMAIN p : (\E j \in DOMAIN d : p[i] = d[j]) /\ p[i].key # k
  BY PopProperties
<1> HIDE DEF p, e
<1>4. /\ Append(p, e) \in Seq(S)
      /\ Len(Append(p, e)) = Len(p) + 1
      /\ DistinctKeys(Append(p, e))
      /\ \A i \in DOMAIN Append(p, e) :
             Append(p, e)[i] = e \/ \E j \in DOMAIN p : Append(p, e)[i] = p[j]
  BY <1>1, <1>2, <1>3, AppendNewKey
<1>5. Len(d) \in Nat
  BY LenProperties
<1>6. MoveToEnd(d, k) = Append(p, e)
  BY DEF MoveToEnd, p, e
<1>7. \A i \in DOMAIN Append(p, e) : \E j \in DOMAIN d : Append(p, e)[i] = d[j]
  BY <1>1, <1>3, <1>4
<1> QED BY <1>3, <1>4, <1>5, <1>6, <1>7

\* popitem(last=False) drops one item and keeps the others.
LEMMA PopFirstProperties ==
    ASSUME NEW S, NEW d \in Seq(S), DistinctKeys(d), d # <<>>
    PROVE  /\ PopFirst(d) \in Seq(S)
           /\ Len(PopFirst(d)) = Len(d) - 1
           /\ DistinctKeys(PopFirst(d))
           /\ \A i \in DOMAIN PopFirst(d) : \E j \in DOMAIN d : PopFirst(d)[i] = d[j]
<1>1. /\ Tail(d) \in Seq(S) /\ Len(Tail(d)) = Len(d) - 1
      /\ \A i \in 1..Len(Tail(d)) : Tail(d)[i] = d[i + 1]
  BY HeadTailProperties
<1>2. Len(d) \in Nat /\ DOMAIN d = 1..Len(d) /\ DOMAIN Tail(d) = 1..(Len(d) - 1)
  BY <1>1, LenProperties
<1>3. \A i \in DOMAIN Tail(d) : i + 1 \in DOMAIN d /\ Tail(d)[i] = d[i + 1]
  BY <1>1, <1>2
<1> QED BY <1>1, <1>2, <1>3 DEF PopFirst, DistinctKeys

\* move_to_end(k) loses no item.
LEMMA MoveToEndKeeps ==
    ASSUME NEW S, NEW d \in Seq(S), NEW k \in KeysOf(d)
    PROVE  \A j \in DOMAIN d : \E i \in DOMAIN MoveToEnd(d, k) : MoveToEnd(d, k)[i] = d[j]
<1> DEFINE n == IndexOf(d, k)
           p == RemoveAt(d, n)
<1>1. n \in DOMAIN d
  BY IndexOfProperties
<1>2. /\ p \in Seq(S) /\ Len(p) = Len(d) - 1
      /\ \A j \in 1..(Len(d) - 1) : p[j] = IF j < n THEN d[j] ELSE d[j + 1]
  BY <1>1, RemoveAtProperties
<1>3. d[n] \in S
  BY <1>1, ElementOfSeq
<1>4. MoveToEnd(d, k) = Append(p, d[n])
  BY DEF MoveToEnd, Pop, Lookup
<1> DEFINE a == Append(p, d[n])
<1>5. /\ Len(a) = Len(d) /\ a[Len(d)] = d[n] /\ DOMAIN a = 1..Len(d)
      /\ \A j \in 1..(Len(d) - 1) : a[j] = p[j]
  BY <1>2, <1>3, AppendProperties, LenProperties
<1>6. Len(d) \in Nat /\ DOMAIN d = 1..Len(d) /\ n \in 1..Len(d)
  BY <1>1, LenProperties
<1> HIDE DEF a, p, n
<1>7. ASSUME NEW j \in DOMAIN d
      PROVE  \E i \in DOMAIN a : a[i] = d[j]
  <2>1. CASE j = n
    BY <2>1, <1>5, <1>6
  <2>2. CASE j < n
    <3>1. j \in 1..(Len(d) - 1)
      BY <2>2, <1>6
    <3>2. a[j] = d[j]
      BY <3>1, <2>2, <1>2, <1>5
    <3> QED BY <3>1, <3>2, <1>5, <1>6
  <2>3. CASE j > n
    <3>1. j - 1 \in 1..(Len(d) - 1) /\ ~(j - 1 < n) /\ (j - 1) + 1 = j
      BY <2>3, <1>6
    <3>2. a[j - 1] = d[j]
      BY <3>1, <1>2, <1>5
    <3> QED BY <3>1, <3>2, <1>5, <1>6
  <2> QED BY <2>1, <2>2, <2>3, <1>6
<1> QED BY <1>4, <1>7 DEF a

\* move_to_end(k) brings behind an item at most the item of k, and puts nothing
\* behind that one.
LEMMA MoveToEndOrder ==
    ASSUME NEW S, NEW d \in Seq(S), NEW k \in KeysOf(d), NEW i \in DOMAIN d
    PROVE  \E n \in DOMAIN MoveToEnd(d, k) :
               /\ MoveToEnd(d, k)[n] = d[i]
               /\ \A m \in DOMAIN MoveToEnd(d, k) : m > n =>
                      \/ MoveToEnd(d, k)[m].key = k /\ i # IndexOf(d, k)
                      \/ \E j \in DOMAIN d : j > i /\ MoveToEnd(d, k)[m] = d[j]
<1> DEFINE x == IndexOf(d, k)
           p == RemoveAt(d, x)
<1>1. x \in DOMAIN d /\ d[x].key = k
  BY IndexOfProperties
<1>2. /\ p \in Seq(S) /\ Len(p) = Len(d) - 1
      /\ \A j \in 1..(Len(d) - 1) : p[j] = IF j < x THEN d[j] ELSE d[j + 1]
  BY <1>1, RemoveAtProperties
<1>3. d[x] \in S
  BY <1>1, ElementOfSeq
<1>4. MoveToEnd(d, k) = Append(p, d[x])
  BY DEF MoveToEnd, Pop, Lookup
<1> DEFINE a == Append(p, d[x])
<1>5. /\ Len(a) = Len(d) /\ a[Len(d)] = d[x] /\ DOMAIN a = 1..Len(d)
      /\ \A j \in 1..(Len(d) - 1) : a[j] = p[j]
  BY <1>2, <1>3, AppendProperties, LenProperties
<1>6. Len(d) \in Nat /\ DOMAIN d = 1..Len(d) /\ x \in 1..Len(d)
  BY <1>1, LenProperties
<1> HIDE DEF a, p, x
<1>7. ASSUME NEW n \in DOMAIN a, a[n] = d[i],
             i # x,
             n = i \/ (i > x /\ n = i - 1),
             i < x => n = i,
             i > x => n = i - 1,
             NEW m \in DOMAIN a, m > n
      PROVE  a[m].key = k \/ \E j \in DOMAIN d : j > i /\ a[m] = d[j]
  <2>1. CASE m = Len(d)
    BY <2>1, <1>1, <1>5
  <2>2. CASE m # Len(d) /\ m < x
    <3>1. m \in 1..(Len(d) - 1) /\ a[m] = d[m] /\ m > i
      BY <2>2, <1>2, <1>5, <1>6, <1>7
    <3> QED BY <3>1, <1>6
  <2>3. CASE m # Len(d) /\ ~(m < x)
    <3>1. m \in 1..(Len(d) - 1) /\ a[m] = d[m + 1] /\ m + 1 > i /\ m + 1 \in DOMAIN d
      BY <2>3, <1>2, <1>5, <1>6, <1>7
    <3> QED BY <3>1
  <2> QED BY <2>1, <2>2, <2>3
<1>8. CASE i = x
  <2>1. Len(d) \in DOMAIN a /\ a[Len(d)] = d[i] /\ \A m \in DOMAIN a : ~(m > Len(d))
    BY <1>5, <1>6, <1>8
  <2> QED BY <2>1, <1>4 DEF a
<1>9. CASE i < x
  <2>1. i \in DOMAIN a /\ a[i] = d[i]
    <3>1. i \in 1..(Len(d) - 1)
      BY <1>6, <1>9
    <3> QED BY <3>1, <1>2, <1>5, <1>6, <1>9
  <2>2. \A m \in DOMAIN a : m > i => a[m].key = k \/ \E j \in DOMAIN d : j > i /\ a[m] = d[j]
    BY <2>1, <1>7, <1>9, <1>6
  <2>3. i # x
    BY <1>6, <1>9
  <2> QED BY <2>1, <2>2, <2>3, <1>4 DEF a, x
<1>10. CASE i > x
  <2>1. i - 1 \in DOMAIN a /\ a[i - 1] = d[i]
    <3>1. i - 1 \in 1..(Len(d) - 1) /\ ~(i - 1 < x) /\ (i - 1) + 1 = i
      BY <1>6, <1>10
    <3> QED BY <3>1, <1>2, <1>5, <1>6
  <2>2. i # x /\ ~(i < x)
    BY <1>6, <1>10
  <2>3. \A m \in DOMAIN a : m > i - 1 => a[m].key = k \/ \E j \in DOMAIN d : j > i /\ a[m] = d[j]
    BY <2>1, <2>2, <1>7, <1>10, <1>6
  <2> QED BY <2>1, <2>2, <2>3, <1>4 DEF a, x
<1> QED BY <1>6, <1>8, <1>9, <1>10

\* popitem(last=False) loses the head only.
LEMMA PopFirstKeeps ==
    ASSUME NEW S, NEW d \in Seq(S), d # <<>>
    PROVE  \A j \in DOMAIN d :
               d[j] = Head(d) \/ \E i \in DOMAIN PopFirst(d) : PopFirst(d)[i] = d[j]
<1>1. /\ Tail(d) \in Seq(S) /\ Len(Tail(d)) = Len(d) - 1
      /\ \A i \in 1..Len(Tail(d)) : Tail(d)[i] = d[i + 1]
  BY HeadTailProperties
<1>2. /\ Len(d) \in Nat /\ DOMAIN d = 1..Len(d)
      /\ DOMAIN Tail(d) = 1..(Len(d) - 1) /\ d[1] = Head(d)
  BY <1>1, LenProperties
<1>3. ASSUME NEW j \in DOMAIN d, j # 1
      PROVE  \E i \in DOMAIN Tail(d) : Tail(d)[i] = d[j]
  <2>1. j - 1 \in 1..(Len(d) - 1) /\ (j - 1) + 1 = j
    BY <1>2, <1>3
  <2>2. Tail(d)[j - 1] = d[j]
    BY <2>1, <1>1
  <2> QED BY <2>1, <2>2, <1>2
<1> QED BY <1>2, <1>3 DEF PopFirst
================================================================================
