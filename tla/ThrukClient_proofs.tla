-------------------------- MODULE ThrukClient_proofs ---------------------------
(***************************************************************************)
(* Invariants of ThrukClient, for any number of tasks, calls, permits,     *)
(* retries and cache sizes.                                                *)
(***************************************************************************)
EXTENDS ThrukClient, OrderedDict_proofs, FiniteSetTheorems

-------------------------------------------------------------------------------
(* The cache stays well formed, for every capacity and lifetime.           *)

\* The cache starts empty.
LEMMA EmptyCacheOK == CacheInit => CacheOK
<1> SUFFICES ASSUME store = <<>> PROVE CacheOK
  BY DEF CacheInit
<1>1. <<>> \in Seq(Entry) /\ Len(<<>>) = 0 /\ DOMAIN <<>> = {}
  BY EmptySeq, LenProperties
<1> QED BY <1>1, CacheAssumption DEF CacheOK, DistinctKeys

\* get(k) keeps the cache well formed and adds nothing to it.
LEMMA CacheGetOK ==
    ASSUME CacheOK, NEW k, CacheGet(k)
    PROVE  /\ CacheOK'
           /\ \A i \in DOMAIN store' : \E j \in DOMAIN store : store'[i] = store[j]
<1>1. Len(store) \in Nat /\ MaxSize \in Nat
  BY LenProperties, CacheAssumption DEF CacheOK
<1>2. CASE Fresh(k)
  <2>1. k \in KeysOf(store) /\ store' = MoveToEnd(store, k)
    BY <1>2 DEF CacheGet, Fresh
  <2> QED BY <2>1, MoveToEndProperties DEF CacheOK
<1>3. CASE ~Fresh(k) /\ k \in KeysOf(store)
  <2>1. store' = Pop(store, k)
    BY <1>3 DEF CacheGet
  <2> QED BY <2>1, <1>1, <1>3, PopProperties DEF CacheOK
<1>4. CASE ~Fresh(k) /\ k \notin KeysOf(store)
  BY <1>4 DEF CacheGet, CacheOK
<1> QED BY <1>2, <1>3, <1>4

\* set(k, v) keeps the cache well formed and adds one entry, with a full life.
LEMMA CacheSetOK ==
    ASSUME CacheOK, NEW k \in CacheKeys, NEW v \in Payloads, CacheSet(k, v)
    PROVE  /\ CacheOK'
           /\ \A i \in DOMAIN store' :
                 \/ store'[i] = [key |-> k, value |-> v, life |-> TTL]
                 \/ \E j \in DOMAIN store : store'[i] = store[j]
<1> DEFINE new == [key |-> k, value |-> v, life |-> TTL]
           room == IF k \in KeysOf(store) THEN Pop(store, k)
                   ELSE IF Len(store) >= MaxSize THEN PopFirst(store)
                   ELSE store
<1>1. Len(store) \in Nat /\ MaxSize \in Nat \ {0} /\ TTL \in Nat
  BY LenProperties, CacheAssumption DEF CacheOK
<1>2. new \in Entry
  BY <1>1 DEF Entry
<1>3. /\ room \in Seq(Entry) /\ DistinctKeys(room) /\ Len(room) < MaxSize
      /\ \A i \in DOMAIN room : \E j \in DOMAIN store : room[i] = store[j]
      /\ \A i \in DOMAIN room : room[i].key # k
  <2>1. CASE k \in KeysOf(store)
    <3>1. room = Pop(store, k)
      BY <2>1
    <3> QED BY <3>1, <1>1, <2>1, PopProperties DEF CacheOK
  <2>2. CASE k \notin KeysOf(store) /\ Len(store) >= MaxSize
    <3>1. room = PopFirst(store)
      BY <2>2
    <3>2. store # <<>>
      BY <1>1, <2>2, EmptySeq
    <3>3. /\ room \in Seq(Entry) /\ Len(room) = Len(store) - 1 /\ DistinctKeys(room)
          /\ \A i \in DOMAIN room : \E j \in DOMAIN store : room[i] = store[j]
      BY <3>1, <3>2, PopFirstProperties DEF CacheOK
    <3> HIDE DEF room
    <3> QED BY <3>3, <1>1, <2>2 DEF CacheOK, KeysOf
  <2>3. CASE k \notin KeysOf(store) /\ ~(Len(store) >= MaxSize)
    <3>1. room = store
      BY <2>3
    <3> HIDE DEF room
    <3> QED BY <3>1, <1>1, <2>3 DEF CacheOK, KeysOf
  <2> QED BY <2>1, <2>2, <2>3
<1>4. store' = Append(room, new)
  BY DEF CacheSet
<1>5. new.key = k
  OBVIOUS
<1> HIDE DEF room, new
<1>6. /\ Append(room, new) \in Seq(Entry)
      /\ Len(Append(room, new)) = Len(room) + 1
      /\ DistinctKeys(Append(room, new))
      /\ \A i \in DOMAIN Append(room, new) :
             Append(room, new)[i] = new \/ \E j \in DOMAIN room : Append(room, new)[i] = room[j]
  BY <1>2, <1>3, <1>5, AppendNewKey
<1>7. Len(room) \in Nat
  BY <1>3, LenProperties
<1>8. \A i \in DOMAIN store' : store'[i] = new \/ \E j \in DOMAIN store : store'[i] = store[j]
  BY <1>3, <1>4, <1>6
<1>9. CacheOK'
  BY <1>1, <1>3, <1>4, <1>6, <1>7 DEF CacheOK
<1> QED BY <1>8, <1>9 DEF new

\* A tick shortens the life of every entry and does nothing else.
LEMMA CacheTickOK ==
    ASSUME CacheOK, CacheTick
    PROVE  /\ CacheOK'
           /\ DOMAIN store' = DOMAIN store
           /\ \A i \in DOMAIN store :
                 /\ store'[i].key = store[i].key
                 /\ store'[i].value = store[i].value
                 /\ store'[i].life = IF store[i].life > 0 THEN store[i].life - 1 ELSE 0
<1>1. /\ Len(store) \in Nat /\ DOMAIN store = 1..Len(store)
      /\ \A i \in DOMAIN store : store[i] \in Entry
  BY LenProperties, ElementOfSeq DEF CacheOK
<1> DEFINE aged(i) == [store[i] EXCEPT !.life = IF @ > 0 THEN @ - 1 ELSE 0]
<1>2. store' = [i \in DOMAIN store |-> aged(i)]
  BY DEF CacheTick
<1>3. ASSUME NEW i \in DOMAIN store
      PROVE  /\ aged(i) \in Entry
             /\ aged(i).key = store[i].key
             /\ aged(i).value = store[i].value
             /\ aged(i).life = IF store[i].life > 0 THEN store[i].life - 1 ELSE 0
  BY <1>1, CacheAssumption DEF Entry
<1> HIDE DEF aged
<1>4. store' \in Seq(Entry) /\ Len(store') = Len(store)
  <2>1. store' \in [1..Len(store) -> Entry]
    BY <1>1, <1>2, <1>3
  <2> QED BY <1>1, <2>1, LenProperties
<1>5. DOMAIN store' = DOMAIN store /\ \A i \in DOMAIN store : store'[i] = aged(i)
  BY <1>2
<1>6. DistinctKeys(store')
  BY <1>3, <1>5 DEF CacheOK, DistinctKeys
<1> QED BY <1>3, <1>4, <1>5, <1>6 DEF CacheOK

\* Whatever sequence of gets, sets, clears and expiries, the cache holds at most
\* maxsize entries and no key twice (cache.py:43-69).
THEOREM CacheAlwaysOK == CacheSpec => []CacheOK
<1>1. CacheInit => CacheOK
  BY EmptyCacheOK
<1>2. CacheOK /\ [CacheNext]_store => CacheOK'
  <2> SUFFICES ASSUME CacheOK, [CacheNext]_store PROVE CacheOK'
    OBVIOUS
  <2>1. ASSUME NEW k \in CacheKeys, CacheGet(k) PROVE CacheOK'
    BY <2>1, CacheGetOK
  <2>2. ASSUME NEW k \in CacheKeys, NEW v \in Payloads, CacheSet(k, v) PROVE CacheOK'
    BY <2>2, CacheSetOK
  <2>3. CASE CacheClear
    <3>1. <<>> \in Seq(Entry) /\ Len(<<>>) = 0 /\ DOMAIN <<>> = {}
      BY EmptySeq, LenProperties
    <3> QED BY <2>3, <3>1, CacheAssumption DEF CacheClear, CacheOK, DistinctKeys
  <2>4. CASE CacheTick
    BY <2>4, CacheTickOK
  <2>5. CASE UNCHANGED store
    BY <2>5 DEF CacheOK
  <2> QED BY <2>1, <2>2, <2>3, <2>4, <2>5 DEF CacheNext
<1> QED BY <1>1, <1>2, PTL DEF CacheSpec

-------------------------------------------------------------------------------
(* The semaphore: what waking tasks does to the permits and to the queue.  *)

\* No task waits twice.
NoRepeats(q) == \A i, j \in DOMAIN q : q[i] = q[j] => i = j

\* The first n tasks of a queue without repeats are n tasks.
LEMMA FirstTasks ==
    ASSUME NEW q \in Seq(Tasks), NoRepeats(q), NEW n \in 0..Len(q)
    PROVE  /\ IsFiniteSet({q[i] : i \in 1..n})
           /\ Cardinality({q[i] : i \in 1..n}) = n
<1> DEFINE T == {q[i] : i \in 1..n}
           f == [i \in 1..n |-> q[i]]
<1>1. n \in Nat /\ Len(q) \in Nat /\ DOMAIN q = 1..Len(q) /\ 1..n \subseteq DOMAIN q
  BY LenProperties
<1>2. f \in Bijection(1..n, T)
  BY <1>1 DEF NoRepeats, Bijection, Injection, Surjection, IsInjective
<1>3. IsFiniteSet(1..n) /\ Cardinality(1..n) = n
  <2>1. 1 \in Int /\ n \in Int
    BY <1>1
  <2>2. /\ IsFiniteSet(1..n)
        /\ Cardinality(1..n) = IF 1 > n THEN 0 ELSE n - 1 + 1
    BY <2>1, FS_Interval
  <2> QED BY <1>1, <2>2
<1>4. IsFiniteSet(T) /\ Cardinality(T) = Cardinality(1..n)
  BY <1>2, <1>3, FS_Bijection DEF ExistsBijection
<1> QED BY <1>3, <1>4

\* Waking tasks moves permits to them one for one, forgets nobody, and leaves a
\* permit free only if nobody is left in the queue.  S stands for the tasks that
\* hold a permit already.
LEMMA WakeUpProperties ==
    ASSUME NEW permits \in Nat, NEW q \in Seq(Tasks), NEW w \in SUBSET Tasks,
           NEW S \in SUBSET Tasks, IsFiniteSet(Tasks), NoRepeats(q),
           \A i \in DOMAIN q : q[i] \notin w /\ q[i] \notin S,
           WakeUp(permits, q, w)
    PROVE  /\ free' \in Nat /\ waiters' \in Seq(Tasks) /\ woken' \in SUBSET Tasks
           /\ NoRepeats(waiters')
           /\ \A i \in DOMAIN waiters' : waiters'[i] \notin woken'
           /\ ToSet(waiters') \cup woken' = ToSet(q) \cup w
           /\ free' + Cardinality(woken' \cup S) = permits + Cardinality(w \cup S)
           /\ free' > 0 => waiters' = <<>>
<1> DEFINE n == IF permits < Len(q) THEN permits ELSE Len(q)
           T == {q[i] : i \in 1..n}
           rest == SubSeq(q, n + 1, Len(q))
<1>1. /\ Len(q) \in Nat /\ DOMAIN q = 1..Len(q) /\ \A i \in 1..Len(q) : q[i] \in Tasks
      /\ n \in 0..Len(q) /\ n \in Nat /\ n <= permits
  BY LenProperties, ElementOfSeq
<1>2. free' = permits - n /\ waiters' = rest /\ woken' = w \cup T
  BY DEF WakeUp
<1>3. /\ rest \in Seq(Tasks) /\ Len(rest) = Len(q) - n
      /\ \A i \in 1..(Len(q) - n) : rest[i] = q[n + i]
  <2>1. \A i \in (n + 1)..Len(q) : q[i] \in Tasks
    BY <1>1
  <2>2. n + 1 \in Int /\ Len(q) \in Int
    BY <1>1
  <2> HIDE DEF n
  <2>3. /\ SubSeq(q, n + 1, Len(q)) \in Seq(Tasks)
        /\ Len(SubSeq(q, n + 1, Len(q))) =
              IF n + 1 <= Len(q) THEN Len(q) - (n + 1) + 1 ELSE 0
        /\ \A i \in 1..(Len(q) - (n + 1) + 1) :
              SubSeq(q, n + 1, Len(q))[i] = q[n + 1 + i - 1]
    BY <2>1, <2>2, SubSeqProperties
  <2>4. \A i \in 1..(Len(q) - n) : n + 1 + i - 1 = n + i
    BY <1>1
  <2>5. Len(q) - (n + 1) + 1 = Len(q) - n
    BY <1>1
  <2>6. Len(SubSeq(q, n + 1, Len(q))) = Len(q) - n
    <3>1. n \in Nat /\ Len(q) \in Nat /\ n <= Len(q)
      BY <1>1
    <3>2. CASE n + 1 <= Len(q)
      <4>1. Len(SubSeq(q, n + 1, Len(q))) = Len(q) - (n + 1) + 1
        BY <2>3, <3>2
      <4> QED BY <4>1, <2>5
    <3>3. CASE ~(n + 1 <= Len(q))
      <4>1. Len(SubSeq(q, n + 1, Len(q))) = 0
        BY <2>3, <3>3
      <4>2. Len(q) - n = 0
        BY <3>1, <3>3
      <4> QED BY <4>1, <4>2
    <3> QED BY <3>2, <3>3
  <2>7. ASSUME NEW i \in 1..(Len(q) - n) PROVE SubSeq(q, n + 1, Len(q))[i] = q[n + i]
    BY <2>3, <2>4, <2>5
  <2> QED BY <2>3, <2>6, <2>7
<1>4. DOMAIN rest = 1..(Len(q) - n)
  BY <1>3, LenProperties
<1>5. IsFiniteSet(T) /\ Cardinality(T) = n
  BY <1>1, FirstTasks
<1>6. permits - n > 0 => n = Len(q)
  <2>1. Len(q) \in Nat
    BY <1>1
  <2> QED BY <2>1
<1> HIDE DEF n, rest
<1>7. T \subseteq Tasks /\ T \cap (w \cup S) = {}
  BY <1>1
<1>8. Cardinality((w \cup S) \cup T) = Cardinality(w \cup S) + n /\ Cardinality(w \cup S) \in Nat
  <2>1. IsFiniteSet(w \cup S)
    BY FS_Subset
  <2>2. Cardinality((w \cup S) \cup T) =
            Cardinality(w \cup S) + Cardinality(T) - Cardinality((w \cup S) \cap T)
    BY <2>1, <1>5, FS_Union
  <2>3. Cardinality((w \cup S) \cap T) = 0
    <3>1. (w \cup S) \cap T = {}
      BY <1>7
    <3> QED BY <3>1, FS_EmptySet
  <2>4. Cardinality(w \cup S) \in Nat
    BY <2>1, FS_CardinalityType
  <2> QED BY <1>1, <1>5, <2>2, <2>3, <2>4
<1>9. free' + Cardinality(woken' \cup S) = permits + Cardinality(w \cup S)
  <2>1. woken' \cup S = (w \cup S) \cup T
    BY <1>2
  <2>2. free' = permits - n /\ n \in Nat
    BY <1>1, <1>2
  <2>3. Cardinality(woken' \cup S) = Cardinality((w \cup S) \cup T)
    BY <2>1, Zenon
  <2> HIDE DEF T
  <2> QED BY <1>8, <2>2, <2>3
<1>10. NoRepeats(rest) /\ \A i \in DOMAIN rest : rest[i] \notin w /\ rest[i] \notin T
  <2>1. \A i \in DOMAIN rest : rest[i] = q[n + i] /\ n + i \in DOMAIN q
    BY <1>1, <1>3, <1>4
  <2>2. NoRepeats(rest)
    BY <1>1, <1>4, <2>1 DEF NoRepeats
  <2>3. ASSUME NEW i \in DOMAIN rest, rest[i] \in T PROVE FALSE
    <3>1. PICK j \in 1..n : q[j] = q[n + i]
      BY <2>1, <2>3
    <3>2. j = n + i
      BY <1>1, <2>1, <3>1 DEF NoRepeats
    <3> QED BY <1>1, <1>4, <3>1, <3>2
  <2>4. \A i \in DOMAIN rest : rest[i] \notin w
    BY <2>1
  <2> QED BY <2>2, <2>3, <2>4
<1>11. ToSet(rest) \cup (w \cup T) = ToSet(q) \cup w
  <2>1. ASSUME NEW i \in DOMAIN q PROVE q[i] \in ToSet(rest) \cup T
    <3>1. CASE i <= n
      BY <3>1, <1>1
    <3>2. CASE i > n
      <4>1. i - n \in DOMAIN rest /\ rest[i - n] = q[i]
        BY <3>2, <1>1, <1>3, <1>4
      <4> QED BY <4>1 DEF ToSet
    <3> QED BY <3>1, <3>2, <1>1
  <2>2. \A i \in DOMAIN rest : \E j \in DOMAIN q : rest[i] = q[j]
    BY <1>1, <1>3, <1>4
  <2>3. \A i \in 1..n : i \in DOMAIN q
    BY <1>1
  <2> QED BY <2>1, <2>2, <2>3 DEF ToSet
<1>12. permits - n > 0 => rest = <<>>
  BY <1>1, <1>3, <1>6, EmptySeq
<1>13. permits - n \in Nat
  BY <1>1
<1> HIDE DEF T
<1> QED BY <1>2, <1>3, <1>7, <1>9, <1>10, <1>11, <1>12, <1>13

\* What holds of the permits and the queue between any two steps.
SemOK ==
    /\ free \in Nat /\ waiters \in Seq(Tasks) /\ woken \in SUBSET Tasks
    /\ NoRepeats(waiters)
    /\ \A i \in DOMAIN waiters : waiters[i] \notin woken
    /\ ToSet(waiters) \cup woken = Waiting
    /\ Unlimited => waiters = <<>> /\ woken = {}
    /\ ~Unlimited => free + Cardinality(woken \cup Sending) = MaxConcurrent
    /\ ~Unlimited /\ free > 0 /\ waiters # <<>> => woken # {}

PhaseOK == phase \in [Tasks -> Phases]

\* The tasks that hold a permit can be counted.
LEMMA HoldersFinite ==
    ASSUME SemOK
    PROVE  /\ IsFiniteSet(woken \cup Sending)
           /\ Cardinality(woken \cup Sending) \in Nat
<1>1. woken \cup Sending \in SUBSET Tasks
  BY DEF SemOK, Sending
<1> QED BY <1>1, ClientAssumption, FS_Subset, FS_CardinalityType

\* A step that moves no task into or out of the semaphore.
LEMMA SemUntouched ==
    ASSUME SemOK, UNCHANGED semVars,
           \A q \in Tasks : /\ phase'[q] = "waiting" <=> phase[q] = "waiting"
                            /\ phase'[q] = "sending" <=> phase[q] = "sending"
    PROVE  SemOK'
<1>1. free' = free /\ waiters' = waiters /\ woken' = woken
  BY DEF semVars
<1>2. Waiting' = Waiting /\ Sending' = Sending
  BY DEF Waiting, Sending
<1> QED BY <1>1, <1>2 DEF SemOK, Unlimited

\* An attempt that starts takes a free permit or queues.
LEMMA SemStart ==
    ASSUME SemOK, PhaseOK, NEW p \in Tasks, NEW n,
           phase[p] \notin {"waiting", "sending"}, StartAttempt(p, n)
    PROVE  SemOK'
<1>1. p \notin Waiting /\ p \notin Sending /\ p \notin woken /\ p \notin ToSet(waiters)
  BY DEF Waiting, Sending, SemOK
<1>2. woken' = woken
  BY DEF StartAttempt, Acquire
<1>3. CASE NoWait
  <2>1. /\ phase' = [phase EXCEPT ![p] = "sending"] /\ waiters' = waiters
        /\ free' = IF Unlimited THEN free ELSE free - 1
    BY <1>3 DEF StartAttempt, Acquire
  <2>2. Waiting' = Waiting /\ Sending' = Sending \cup {p}
    BY <1>1, <2>1 DEF Waiting, Sending, PhaseOK
  <2>3. Cardinality(woken' \cup Sending') = Cardinality(woken \cup Sending) + 1
    <3>1. Cardinality((woken \cup Sending) \cup {p}) = Cardinality(woken \cup Sending) + 1
      BY <1>1, HoldersFinite, FS_AddElement
    <3>2. woken' \cup Sending' = (woken \cup Sending) \cup {p}
      BY <1>2, <2>2
    <3> QED BY <3>1, <3>2, Zenon
  <2>4. Unlimited \/ (free > 0 /\ waiters = <<>>)
    BY <1>3 DEF NoWait
  <2>5. ~Unlimited => free' \in Nat /\ free' + Cardinality(woken' \cup Sending') = MaxConcurrent
    BY <2>1, <2>3, <2>4, HoldersFinite, MaxConcurrentAssumption DEF SemOK
  <2>6. free' \in Nat
    BY <2>1, <2>5 DEF SemOK
  <2> QED BY <1>2, <2>1, <2>2, <2>4, <2>5, <2>6 DEF SemOK, Unlimited
<1>4. CASE ~NoWait
  <2>1. /\ phase' = [phase EXCEPT ![p] = "waiting"] /\ waiters' = Append(waiters, p)
        /\ free' = free /\ ~Unlimited
    BY <1>4 DEF StartAttempt, Acquire, NoWait
  <2>2. Waiting' = Waiting \cup {p} /\ Sending' = Sending
    BY <1>1, <2>1 DEF Waiting, Sending, PhaseOK
  <2>3. /\ waiters' \in Seq(Tasks) /\ Len(waiters') = Len(waiters) + 1
        /\ \A i \in 1..Len(waiters) : waiters'[i] = waiters[i]
        /\ waiters'[Len(waiters) + 1] = p
    BY <2>1, AppendProperties DEF SemOK
  <2>4. /\ Len(waiters) \in Nat /\ DOMAIN waiters = 1..Len(waiters)
        /\ DOMAIN waiters' = 1..(Len(waiters) + 1)
    BY <2>3, LenProperties DEF SemOK
  <2>5. \A i \in DOMAIN waiters : waiters[i] # p
    BY <1>1 DEF ToSet
  <2>6. \A i \in DOMAIN waiters' : i \in DOMAIN waiters \/ i = Len(waiters) + 1
    BY <2>4
  <2>7. \A i \in DOMAIN waiters : i \in DOMAIN waiters' /\ waiters'[i] = waiters[i]
    BY <2>3, <2>4
  <2>8. NoRepeats(waiters')
    BY <2>3, <2>5, <2>6, <2>7 DEF NoRepeats, SemOK
  <2>9. \A i \in DOMAIN waiters' : waiters'[i] \notin woken'
    BY <1>1, <1>2, <2>3, <2>6, <2>7 DEF SemOK
  <2>10. ToSet(waiters') = ToSet(waiters) \cup {p}
    <3>1. Len(waiters) + 1 \in DOMAIN waiters'
      BY <2>4
    <3> QED BY <2>3, <2>6, <2>7, <3>1 DEF ToSet
  <2>11. ~(free > 0 /\ waiters = <<>> /\ woken = {})
    BY <1>4 DEF NoWait
  <2> QED BY <1>2, <2>1, <2>2, <2>3, <2>8, <2>9, <2>10, <2>11 DEF SemOK, Unlimited
<1> QED BY <1>3, <1>4

\* An attempt that ends hands its permit to the first waiter or frees it.
LEMMA SemEnd ==
    ASSUME SemOK, PhaseOK, NEW p \in Tasks, phase[p] = "sending",
           NEW next, next \notin {"waiting", "sending"},
           phase' = [phase EXCEPT ![p] = next], Release
    PROVE  SemOK'
<1>1. p \in Sending /\ p \notin Waiting /\ p \notin woken
  BY DEF Waiting, Sending, SemOK
<1>2. Waiting' = Waiting /\ Sending' = Sending \ {p}
  BY DEF Waiting, Sending, PhaseOK
<1>3. /\ IsFiniteSet((woken \cup Sending) \ {p})
      /\ Cardinality((woken \cup Sending) \ {p}) = Cardinality(woken \cup Sending) - 1
  BY <1>1, HoldersFinite, FS_RemoveElement
<1>4. CASE waiters # <<>>
  <2> DEFINE h == Head(waiters)
  <2>1. woken' = woken \cup {h} /\ waiters' = Tail(waiters) /\ free' = free
    BY <1>4 DEF Release
  <2>2. /\ h \in Tasks /\ waiters' \in Seq(Tasks) /\ Len(waiters') = Len(waiters) - 1
        /\ \A i \in 1..Len(waiters') : waiters'[i] = waiters[i + 1]
    BY <1>4, <2>1, HeadTailProperties DEF SemOK
  <2>3. /\ Len(waiters) \in Nat \ {0} /\ DOMAIN waiters = 1..Len(waiters)
        /\ DOMAIN waiters' = 1..(Len(waiters) - 1) /\ h = waiters[1]
    BY <1>4, <2>2, LenProperties, EmptySeq DEF SemOK
  <2>4. 1 \in DOMAIN waiters /\ h \in Waiting /\ h \notin Sending /\ h \notin woken
    BY <2>3 DEF SemOK, ToSet, Waiting, Sending
  <2> HIDE DEF h
  <2>5. \A i \in DOMAIN waiters' :
            i + 1 \in DOMAIN waiters /\ i + 1 # 1 /\ waiters'[i] = waiters[i + 1]
    BY <2>2, <2>3
  <2>6. NoRepeats(waiters')
    BY <2>3, <2>5 DEF NoRepeats, SemOK
  <2>7. \A i \in DOMAIN waiters' : waiters'[i] \notin woken'
    BY <2>1, <2>3, <2>4, <2>5 DEF NoRepeats, SemOK
  <2>8. ToSet(waiters) = ToSet(waiters') \cup {h}
    <3>1. ASSUME NEW i \in DOMAIN waiters, i # 1
          PROVE  i - 1 \in DOMAIN waiters' /\ waiters'[i - 1] = waiters[i]
      BY <2>2, <2>3, <3>1
    <3> QED BY <2>3, <2>4, <2>5, <3>1 DEF ToSet
  <2>9. Cardinality(woken' \cup Sending') = Cardinality(woken \cup Sending)
    <3>1. woken' \cup Sending' = ((woken \cup Sending) \ {p}) \cup {h}
      BY <1>1, <1>2, <2>1
    <3>2. Cardinality(((woken \cup Sending) \ {p}) \cup {h})
             = Cardinality((woken \cup Sending) \ {p}) + 1
      BY <1>3, <2>4, FS_AddElement
    <3>3. Cardinality(woken' \cup Sending')
             = Cardinality(((woken \cup Sending) \ {p}) \cup {h})
      BY <3>1, Zenon
    <3> QED BY <1>3, <3>2, <3>3, HoldersFinite
  <2>10. ~Unlimited
    BY <1>4 DEF SemOK
  <2>11. h \in woken'
    BY <2>1
  <2> QED BY <1>2, <2>1, <2>2, <2>6, <2>7, <2>8, <2>9, <2>10, <2>11 DEF SemOK, Unlimited
<1>5. CASE waiters = <<>>
  <2>1. /\ free' = IF Unlimited THEN free ELSE free + 1
        /\ waiters' = waiters /\ woken' = woken
    BY <1>5 DEF Release
  <2>2. Cardinality(woken' \cup Sending') = Cardinality(woken \cup Sending) - 1
    <3>1. woken' \cup Sending' = (woken \cup Sending) \ {p}
      BY <1>1, <1>2, <2>1
    <3> QED BY <1>3, <3>1, Zenon
  <2>3. free' \in Nat
    BY <2>1 DEF SemOK
  <2>4. ~Unlimited => free' + Cardinality(woken' \cup Sending') = MaxConcurrent
    BY <2>1, <2>2, HoldersFinite, MaxConcurrentAssumption DEF SemOK
  <2> QED BY <1>2, <1>5, <2>1, <2>3, <2>4 DEF SemOK, Unlimited
<1> QED BY <1>4, <1>5

\* A woken task that runs keeps the permit it was given and wakes those it held up.
LEMMA SemEnter ==
    ASSUME SemOK, PhaseOK, NEW p \in Tasks, p \in woken, Enter(p),
           phase' = [phase EXCEPT ![p] = "sending"]
    PROVE  SemOK'
<1> DEFINE w == woken \ {p}
           S == Sending \cup {p}
<1>1. p \in Waiting /\ p \notin Sending /\ ~Unlimited
  BY DEF SemOK, Waiting, Sending
<1>2. Waiting' = Waiting \ {p} /\ Sending' = S
  BY <1>1 DEF Waiting, Sending, PhaseOK
<1>3. \A i \in DOMAIN waiters : waiters[i] \in Waiting /\ waiters[i] # p
  BY DEF SemOK, ToSet
<1>4. \A i \in DOMAIN waiters : waiters[i] \notin w /\ waiters[i] \notin S
  BY <1>3 DEF SemOK, Waiting, Sending
<1>5. w \in SUBSET Tasks /\ S \in SUBSET Tasks
  BY DEF SemOK, Sending
<1> HIDE DEF w, S
<1>6. /\ free' \in Nat /\ waiters' \in Seq(Tasks) /\ woken' \in SUBSET Tasks
      /\ NoRepeats(waiters')
      /\ \A i \in DOMAIN waiters' : waiters'[i] \notin woken'
      /\ ToSet(waiters') \cup woken' = ToSet(waiters) \cup w
      /\ free' + Cardinality(woken' \cup S) = free + Cardinality(w \cup S)
      /\ free' > 0 => waiters' = <<>>
  <2>1. WakeUp(free, waiters, w)
    BY DEF Enter, w
  <2> QED BY <2>1, <1>4, <1>5, ClientAssumption, WakeUpProperties DEF SemOK
<1>7. Cardinality(w \cup S) = Cardinality(woken \cup Sending)
  <2>1. w \cup S = woken \cup Sending
    BY <1>1 DEF w, S
  <2> QED BY <2>1, Zenon
<1>8. ToSet(waiters) \cup w = Waiting'
  BY <1>2, <1>3 DEF SemOK, w, ToSet
<1>9. free' + Cardinality(woken' \cup Sending') = MaxConcurrent
  <2>1. Cardinality(woken' \cup S) = Cardinality(woken' \cup Sending')
    BY <1>2
  <2> QED BY <1>1, <1>6, <1>7, <2>1 DEF SemOK
<1> QED BY <1>1, <1>6, <1>8, <1>9 DEF SemOK, Unlimited

\* A waiting task is cancelled.
LEMMA SemAbandon ==
    ASSUME SemOK, PhaseOK, NEW p \in Tasks, phase[p] = "waiting", Abandon(p),
           NEW next, next \notin {"waiting", "sending"},
           phase' = [phase EXCEPT ![p] = next]
    PROVE  SemOK'
<1>1. p \in Waiting /\ p \notin Sending /\ ~Unlimited
  BY DEF SemOK, Waiting, Sending, ToSet
<1>2. Waiting' = Waiting \ {p} /\ Sending' = Sending
  BY <1>1 DEF Waiting, Sending, PhaseOK
<1>3. Sending \in SUBSET Tasks
  BY DEF Sending
<1>4. \A i \in DOMAIN waiters : waiters[i] \in Waiting /\ waiters[i] \notin Sending
  BY DEF SemOK, ToSet, Waiting, Sending
<1>5. CASE p \in woken
  <2> DEFINE w == woken \ {p}
  <2>1. WakeUp(free + 1, waiters, w)
    BY <1>5 DEF Abandon
  <2>2. w \in SUBSET Tasks /\ \A i \in DOMAIN waiters : waiters[i] \notin w /\ waiters[i] # p
    BY <1>5 DEF SemOK
  <2>3. free + 1 \in Nat
    BY DEF SemOK
  <2> HIDE DEF w
  <2>4. /\ free' \in Nat /\ waiters' \in Seq(Tasks) /\ woken' \in SUBSET Tasks
        /\ NoRepeats(waiters')
        /\ \A i \in DOMAIN waiters' : waiters'[i] \notin woken'
        /\ ToSet(waiters') \cup woken' = ToSet(waiters) \cup w
        /\ free' + Cardinality(woken' \cup Sending) = (free + 1) + Cardinality(w \cup Sending)
        /\ free' > 0 => waiters' = <<>>
    BY <1>3, <1>4, <2>1, <2>2, <2>3, ClientAssumption, WakeUpProperties DEF SemOK
  <2>5. Cardinality(w \cup Sending) = Cardinality(woken \cup Sending) - 1
    <3>1. w \cup Sending = (woken \cup Sending) \ {p}
      BY <1>1 DEF w
    <3>2. Cardinality((woken \cup Sending) \ {p}) = Cardinality(woken \cup Sending) - 1
      BY <1>5, HoldersFinite, FS_RemoveElement
    <3> QED BY <3>1, <3>2, Zenon
  <2>6. free' + Cardinality(woken' \cup Sending') = MaxConcurrent
    <3>1. Cardinality(woken' \cup Sending) = Cardinality(woken' \cup Sending')
      BY <1>2
    <3>2. free + Cardinality(woken \cup Sending) = MaxConcurrent /\ free \in Nat
      BY <1>1 DEF SemOK
    <3> QED BY <2>4, <2>5, <3>1, <3>2, HoldersFinite
  <2>7. ToSet(waiters) \cup w = Waiting'
    BY <1>2, <2>2 DEF SemOK, w, ToSet
  <2> QED BY <1>1, <2>4, <2>6, <2>7 DEF SemOK, Unlimited
<1>6. CASE p \notin woken
  <2> DEFINE n == CHOOSE i \in DOMAIN waiters : waiters[i] = p
             q == RemoveAt(waiters, n)
  <2>1. n \in DOMAIN waiters /\ waiters[n] = p
    BY <1>1, <1>6 DEF SemOK, ToSet
  <2>2. WakeUp(free, q, woken)
    BY <1>6 DEF Abandon
  <2>3. Len(waiters) \in Nat /\ DOMAIN waiters = 1..Len(waiters)
    BY LenProperties DEF SemOK
  <2> HIDE DEF n
  <2>4. /\ q \in Seq(Tasks) /\ Len(q) = Len(waiters) - 1
        /\ \A j \in 1..(Len(waiters) - 1) :
               q[j] = IF j < n THEN waiters[j] ELSE waiters[j + 1]
    BY <2>1, RemoveAtProperties DEF SemOK
  <2>5. DOMAIN q = 1..(Len(waiters) - 1)
    BY <2>4, LenProperties
  <2> DEFINE from(j) == IF j < n THEN j ELSE j + 1
  <2>6. ASSUME NEW j \in DOMAIN q
        PROVE  from(j) \in DOMAIN waiters /\ from(j) # n /\ q[j] = waiters[from(j)]
    BY <2>1, <2>3, <2>4, <2>5
  <2>7. \A i, j \in DOMAIN q : from(i) = from(j) => i = j
    BY <2>1, <2>3, <2>5
  <2>8. ASSUME NEW i \in DOMAIN waiters, i # n
        PROVE  \E j \in DOMAIN q : from(j) = i
    <3>1. CASE i < n
      BY <2>1, <2>3, <2>5, <3>1
    <3>2. CASE i > n
      <4>1. i - 1 \in DOMAIN q /\ from(i - 1) = i
        BY <2>1, <2>3, <2>5, <3>2
      <4> HIDE DEF from
      <4> QED BY <4>1
    <3> QED BY <2>1, <2>3, <2>8, <3>1, <3>2
  <2> HIDE DEF q, from
  <2>9. NoRepeats(q)
    BY <2>6, <2>7 DEF NoRepeats, SemOK
  <2>10. \A j \in DOMAIN q : q[j] \notin woken /\ q[j] \notin Sending /\ q[j] # p
    BY <1>4, <2>1, <2>6 DEF SemOK, NoRepeats
  <2>11. ToSet(q) \cup woken = Waiting \ {p}
    <3>1. ToSet(q) = ToSet(waiters) \ {p}
      BY <2>1, <2>6, <2>8, <2>10 DEF ToSet
    <3> QED BY <1>6, <3>1 DEF SemOK
  <2>12. /\ free' \in Nat /\ waiters' \in Seq(Tasks) /\ woken' \in SUBSET Tasks
         /\ NoRepeats(waiters')
         /\ \A i \in DOMAIN waiters' : waiters'[i] \notin woken'
         /\ ToSet(waiters') \cup woken' = ToSet(q) \cup woken
         /\ free' + Cardinality(woken' \cup Sending) = free + Cardinality(woken \cup Sending)
         /\ free' > 0 => waiters' = <<>>
    BY <1>3, <2>2, <2>4, <2>9, <2>10, ClientAssumption, WakeUpProperties DEF SemOK
  <2>13. free' + Cardinality(woken' \cup Sending') = MaxConcurrent
    <3>1. Cardinality(woken' \cup Sending) = Cardinality(woken' \cup Sending')
      BY <1>2
    <3> QED BY <1>1, <2>12, <3>1 DEF SemOK
  <2> QED BY <1>1, <1>2, <2>11, <2>12, <2>13 DEF SemOK, Unlimited
<1> QED BY <1>5, <1>6

-------------------------------------------------------------------------------
(* The inductive invariant of request() and run_background()               *)

\* How many attempts a call has made and how often its command was performed,
\* by the place it has reached in the loop.
LoopOK ==
    \A p \in Tasks :
        /\ sent[p] <= attempt[p] + 1
        /\ phase[p] = "waiting" => sent[p] = attempt[p]
        /\ phase[p] \in {"sending", "backoff"} => sent[p] = attempt[p] + 1
        /\ phase[p] = "backoff" => attempt[p] < MaxRetries
        /\ applied[p] <= sent[p]
        /\ phase[p] = "sending" /\ reply[p] = NoReply => applied[p] < sent[p]
        /\ phase[p] # "sending" => reply[p] = NoReply

IInv == ClientTypeOK /\ SemOK /\ LoopOK

\* What the cache returns is a payload or None.
LEMMA CachedIsPayload == CacheOK => \A k : Cached(k) \in Payloads
<1> SUFFICES ASSUME CacheOK, NEW k PROVE Cached(k) \in Payloads
  OBVIOUS
<1>1. CASE Fresh(k)
  <2>1. IndexOf(store, k) \in DOMAIN store
    BY <1>1, IndexOfProperties DEF Fresh
  <2>2. Lookup(store, k) \in Entry
    BY <2>1, ElementOfSeq, LenProperties DEF Lookup, CacheOK
  <2> QED BY <1>1, <2>2 DEF Cached, Entry
<1>2. CASE ~Fresh(k)
  BY <1>2, CacheAssumption DEF Cached
<1> QED BY <1>1, <1>2

\* The client starts with every permit free and no call made.
LEMMA InitIInv == Init => IInv
<1> SUFFICES ASSUME Init PROVE IInv
  OBVIOUS
<1> USE DEF Init, SemInit
<1>1. (CHOOSE c \in Calls : TRUE) \in Calls
  BY ClientAssumption
<1>2. ClientTypeOK
  <2>1. waiters \in Seq(Tasks)
    BY EmptySeq
  <2> QED BY <1>1, <2>1, MaxConcurrentAssumption, ClientAssumption, CacheAssumption
          DEF ClientTypeOK, Phases, NoOutcome
<1>3. SemOK
  <2>1. waiters \in Seq(Tasks) /\ DOMAIN waiters = {}
    BY EmptySeq, LenProperties
  <2>2. Waiting = {} /\ Sending = {}
    BY DEF Waiting, Sending
  <2>3. Cardinality(woken \cup Sending) = 0
    <3>1. woken \cup Sending = {}
      BY <2>2
    <3> QED BY <3>1, FS_EmptySet, Zenon
  <2> QED BY <2>1, <2>2, <2>3, MaxConcurrentAssumption DEF SemOK, NoRepeats, ToSet, Unlimited
<1>4. LoopOK
  BY DEF LoopOK
<1> QED BY <1>2, <1>3, <1>4 DEF IInv

\* What ends an attempt: the task leaves the block for the phase `next'.
LEMMA EndAttemptKeeps ==
    ASSUME IInv, NEW p \in Tasks, phase[p] = "sending",
           NEW next \in {"done", "polling", "backoff"}, EndAttempt(p, next)
    PROVE  SemOK' /\ phase' = [phase EXCEPT ![p] = next] /\ phase' \in [Tasks -> Phases]
<1>1. PhaseOK /\ phase' = [phase EXCEPT ![p] = next] /\ Release
  BY DEF IInv, ClientTypeOK, PhaseOK, EndAttempt
<1>2. SemOK'
  BY <1>1, SemEnd DEF IInv
<1> QED BY <1>1, <1>2 DEF PhaseOK, Phases

\* What starts an attempt, for the first time or again.
LEMMA StartAttemptKeeps ==
    ASSUME IInv, NEW p \in Tasks, phase[p] \notin {"waiting", "sending"},
           NEW n \in Nat, StartAttempt(p, n)
    PROVE  /\ SemOK'
           /\ phase' \in [Tasks -> Phases] /\ sent' \in [Tasks -> Nat]
           /\ \/ phase' = [phase EXCEPT ![p] = "sending"] /\ sent' = [sent EXCEPT ![p] = n + 1]
              \/ phase' = [phase EXCEPT ![p] = "waiting"] /\ sent' = [sent EXCEPT ![p] = n]
<1>1. PhaseOK /\ sent \in [Tasks -> Nat] /\ SemOK
  BY DEF IInv, ClientTypeOK, PhaseOK
<1>2. SemOK'
  BY <1>1, SemStart
<1>3. CASE NoWait
  <2>1. phase' = [phase EXCEPT ![p] = "sending"] /\ sent' = [sent EXCEPT ![p] = n + 1]
    BY <1>3 DEF StartAttempt
  <2> QED BY <1>1, <1>2, <2>1 DEF PhaseOK, Phases
<1>4. CASE ~NoWait
  <2>1. phase' = [phase EXCEPT ![p] = "waiting"] /\ sent' = [sent EXCEPT ![p] = n]
    BY <1>4 DEF StartAttempt
  <2> QED BY <1>1, <1>2, <2>1 DEF PhaseOK, Phases
<1> QED BY <1>3, <1>4

\* A hit sends nothing and takes no permit.
LEMMA BeginHitIInv ==
    ASSUME IInv, CacheOK, NEW p \in Tasks, NEW c \in Calls, BeginHit(p, c)
    PROVE  IInv'
<1>1. Cached(KeyOf(c)) \in Payloads
  BY CachedIsPayload
<1>2. phase[p] \in {"idle", "done"} /\ Delivered(c, Cached(KeyOf(c))) \in {"polling", "done"}
  BY DEF BeginHit, Accept, Busy, Delivered
<1>3. SemOK'
  BY <1>2, SemUntouched DEF IInv, ClientTypeOK, BeginHit, semVars
<1>4. ClientTypeOK'
  BY <1>1, <1>2, <1>3, ClientAssumption, CacheAssumption
     DEF IInv, ClientTypeOK, SemOK, BeginHit, Accept, Settle, Phases, Ok, NoOutcome
<1>5. LoopOK'
  BY <1>2 DEF IInv, ClientTypeOK, LoopOK, BeginHit, Accept
<1> QED BY <1>3, <1>4, <1>5 DEF IInv

\* A miss counts as the first attempt once it is on the wire.
LEMMA BeginMissIInv ==
    ASSUME IInv, NEW p \in Tasks, NEW c \in Calls, BeginMiss(p, c)
    PROVE  IInv'
<1>1. phase[p] \in {"idle", "done"}
  BY DEF BeginMiss, Accept, Busy
<1>2. /\ SemOK'
      /\ phase' \in [Tasks -> Phases] /\ sent' \in [Tasks -> Nat]
      /\ \/ phase' = [phase EXCEPT ![p] = "sending"] /\ sent' = [sent EXCEPT ![p] = 0 + 1]
         \/ phase' = [phase EXCEPT ![p] = "waiting"] /\ sent' = [sent EXCEPT ![p] = 0]
  BY <1>1, StartAttemptKeeps DEF BeginMiss
<1>3. ClientTypeOK'
  BY <1>1, <1>2, ClientAssumption, CacheAssumption
     DEF IInv, ClientTypeOK, SemOK, BeginMiss, Accept, NoOutcome
<1>4. LoopOK'
  BY <1>1, <1>2 DEF IInv, ClientTypeOK, LoopOK, BeginMiss, Accept
<1> QED BY <1>2, <1>3, <1>4 DEF IInv

\* A queued attempt is counted when it goes out.
LEMMA ResumeIInv ==
    ASSUME IInv, NEW p \in Tasks, Resume(p)
    PROVE  IInv'
<1>1. SemOK'
  BY SemEnter DEF IInv, ClientTypeOK, Resume, PhaseOK
<1>2. ClientTypeOK'
  <2>1. phase' \in [Tasks -> Phases]
    BY DEF IInv, ClientTypeOK, Resume, Phases
  <2>2. sent' \in [Tasks -> Nat]
    BY DEF IInv, ClientTypeOK, Resume
  <2> QED BY <1>1, <2>1, <2>2 DEF IInv, ClientTypeOK, SemOK, Resume
<1>3. LoopOK'
  BY DEF IInv, ClientTypeOK, LoopOK, Resume
<1> QED BY <1>1, <1>2, <1>3 DEF IInv

\* The server performs an attempt at most once.
LEMMA ServeIInv ==
    ASSUME IInv, NEW p \in Tasks, Serve(p)
    PROVE  IInv'
<1>1. SemOK'
  BY SemUntouched DEF IInv, Serve, semVars
<1>2. PICK r \in RepliesTo(call[p]), n \in {0, 1} :
          reply' = [reply EXCEPT ![p] = r] /\ applied' = [applied EXCEPT ![p] = @ + n]
  BY DEF Serve
<1>3. r \in Payloads \cup Faults /\ r # NoReply
  BY <1>2, RepliesAreDistinct DEF RepliesTo, Faults, NoReply
<1>4. ClientTypeOK'
  BY <1>1, <1>2, <1>3 DEF IInv, ClientTypeOK, SemOK, Serve
<1>5. LoopOK'
  BY <1>2, <1>3 DEF IInv, ClientTypeOK, LoopOK, Serve
<1> QED BY <1>1, <1>4, <1>5 DEF IInv

\* A payload ends the loop.
LEMMA ReceivePayloadIInv ==
    ASSUME IInv, NEW p \in Tasks, ReceivePayload(p)
    PROVE  IInv'
<1> DEFINE next == Delivered(call[p], reply[p])
<1>1. phase[p] = "sending" /\ reply[p] \in Payloads /\ EndAttempt(p, next)
  BY DEF ReceivePayload
<1>2. next \in {"polling", "done"} /\ next \in {"done", "polling", "backoff"}
  BY DEF Delivered
<1> HIDE DEF next
<1>3. SemOK' /\ phase' = [phase EXCEPT ![p] = next] /\ phase' \in [Tasks -> Phases]
  BY <1>1, <1>2, EndAttemptKeeps
<1>4. call[p] \in Calls /\ (Cacheable(call[p]) => KeyOf(call[p]) \in CacheKeys)
  BY ClientAssumption DEF IInv, ClientTypeOK
<1>5. /\ outcome' \in [Tasks -> [kind : {"none", "ok", "error", "crashed", "cancelled"},
                                  value : Payloads]]
      /\ patience' \in [Tasks -> 0..PollTimeout]
  BY <1>1, ClientAssumption, CacheAssumption
     DEF IInv, ClientTypeOK, ReceivePayload, Settle, Ok, NoOutcome
<1>6. heard' \in [CacheKeys \X Payloads -> 0..TTL]
  <2>1. heard' = heard \/ \E kv : heard' = [heard EXCEPT ![kv] = 0]
    BY DEF ReceivePayload
  <2> DEFINE D == CacheKeys \X Payloads
  <2>2. heard \in [D -> 0..TTL] /\ 0 \in 0..TTL
    BY CacheAssumption DEF IInv, ClientTypeOK
  <2> HIDE DEF D
  <2>3. heard' \in [D -> 0..TTL]
    BY <2>1, <2>2
  <2> QED BY <2>3 DEF D
<1>7. ClientTypeOK'
  BY <1>3, <1>5, <1>6 DEF IInv, ClientTypeOK, SemOK, ReceivePayload
<1>8. LoopOK'
  BY <1>1, <1>2, <1>3 DEF IInv, ClientTypeOK, LoopOK, ReceivePayload
<1> QED BY <1>3, <1>7, <1>8 DEF IInv

\* An empty body ends the loop.
LEMMA ReceiveEmptyIInv ==
    ASSUME IInv, NEW p \in Tasks, ReceiveEmpty(p)
    PROVE  IInv'
<1>1. SemOK' /\ phase' = [phase EXCEPT ![p] = "done"] /\ phase' \in [Tasks -> Phases]
  BY EndAttemptKeeps DEF ReceiveEmpty
<1>2. ClientTypeOK'
  BY <1>1, CacheAssumption DEF IInv, ClientTypeOK, SemOK, ReceiveEmpty, Ok
<1>3. LoopOK'
  BY <1>1 DEF IInv, ClientTypeOK, LoopOK, ReceiveEmpty
<1> QED BY <1>1, <1>2, <1>3 DEF IInv

\* An error that is not retried ends the loop.
LEMMA ReceiveErrorIInv ==
    ASSUME IInv, NEW p \in Tasks, ReceiveError(p)
    PROVE  IInv'
<1>1. SemOK' /\ phase' = [phase EXCEPT ![p] = "done"] /\ phase' \in [Tasks -> Phases]
  BY EndAttemptKeeps DEF ReceiveError
<1>2. ClientTypeOK'
  BY <1>1, CacheAssumption DEF IInv, ClientTypeOK, SemOK, ReceiveError, Ended
<1>3. LoopOK'
  BY <1>1 DEF IInv, ClientTypeOK, LoopOK, ReceiveError
<1> QED BY <1>1, <1>2, <1>3 DEF IInv

\* A retryable status goes round again only below max_retries.
LEMMA ReceiveRetryableIInv ==
    ASSUME IInv, NEW p \in Tasks, ReceiveRetryable(p)
    PROVE  IInv'
<1>1. SemOK' /\ phase' = [phase EXCEPT ![p] = "backoff"] /\ phase' \in [Tasks -> Phases]
  BY EndAttemptKeeps DEF ReceiveRetryable
<1>2. ClientTypeOK'
  BY <1>1 DEF IInv, ClientTypeOK, SemOK, ReceiveRetryable
<1>3. LoopOK'
  BY <1>1 DEF IInv, ClientTypeOK, LoopOK, ReceiveRetryable
<1> QED BY <1>1, <1>2, <1>3 DEF IInv

\* So does a network error.
LEMMA NetworkErrorIInv ==
    ASSUME IInv, NEW p \in Tasks, NetworkError(p)
    PROVE  IInv'
<1> DEFINE next == IF attempt[p] < MaxRetries THEN "backoff" ELSE "done"
<1>1. /\ next \in {"done", "polling", "backoff"}
      /\ next \in {"done", "backoff"} /\ (next = "backoff" => attempt[p] < MaxRetries)
  OBVIOUS
<1>2. phase[p] = "sending" /\ EndAttempt(p, next)
  BY DEF NetworkError
<1> HIDE DEF next
<1>3. SemOK' /\ phase' = [phase EXCEPT ![p] = next] /\ phase' \in [Tasks -> Phases]
  BY <1>1, <1>2, EndAttemptKeeps
<1>4. ClientTypeOK'
  BY <1>3, CacheAssumption DEF IInv, ClientTypeOK, SemOK, NetworkError, NoOutcome, Ended
<1>5. LoopOK'
  BY <1>1, <1>2, <1>3 DEF IInv, ClientTypeOK, LoopOK, NetworkError
<1> QED BY <1>3, <1>4, <1>5 DEF IInv

\* After its backoff the loop has one more attempt to its name.
LEMMA WakeIInv ==
    ASSUME IInv, NEW p \in Tasks, Wake(p)
    PROVE  IInv'
<1>1. phase[p] = "backoff" /\ sent[p] \in Nat /\ sent[p] = attempt[p] + 1
      /\ attempt[p] < MaxRetries
  BY DEF Wake, IInv, ClientTypeOK, LoopOK
<1>2. /\ SemOK'
      /\ phase' \in [Tasks -> Phases] /\ sent' \in [Tasks -> Nat]
      /\ \/ phase' = [phase EXCEPT ![p] = "sending"] /\ sent' = [sent EXCEPT ![p] = sent[p] + 1]
         \/ phase' = [phase EXCEPT ![p] = "waiting"] /\ sent' = [sent EXCEPT ![p] = sent[p]]
  BY <1>1, StartAttemptKeeps DEF Wake
<1>3. attempt' \in [Tasks -> 0..MaxRetries]
  BY <1>1, ClientAssumption DEF IInv, ClientTypeOK, Wake
<1>4. ClientTypeOK'
  BY <1>2, <1>3 DEF IInv, ClientTypeOK, SemOK, Wake
<1>5. LoopOK'
  BY <1>1, <1>2 DEF IInv, ClientTypeOK, LoopOK, Wake
<1> QED BY <1>2, <1>4, <1>5 DEF IInv

\* Polling is outside the retry loop and the semaphore.
LEMMA PollEndsIInv ==
    ASSUME IInv, NEW p \in Tasks, PollEnds(p)
    PROVE  IInv'
<1>1. phase[p] = "polling" /\ UNCHANGED semVars
  BY DEF PollEnds, PollPending, PollExpired, PollAnswered, semVars
<1>2. phase' = [phase EXCEPT ![p] = "napping"] \/ phase' = [phase EXCEPT ![p] = "done"]
  BY DEF PollEnds, PollPending, PollExpired, PollAnswered
<1>3. SemOK'
  BY <1>1, <1>2, SemUntouched DEF IInv, ClientTypeOK
<1>4. /\ outcome' \in [Tasks -> [kind : {"none", "ok", "error", "crashed", "cancelled"},
                                  value : Payloads]]
      /\ patience' \in [Tasks -> 0..PollTimeout]
  <2>1. CASE PollPending(p)
    BY <2>1 DEF IInv, ClientTypeOK, PollPending
  <2>2. CASE PollExpired(p)
    BY <2>2, CacheAssumption DEF IInv, ClientTypeOK, PollExpired, Ended
  <2>3. CASE PollAnswered(p)
    <3>1. PICK o \in {Ok(v) : v \in Payloads \ {Ticket}}
                       \cup {Ended("error"), Ended("crashed")} :
              outcome' = [outcome EXCEPT ![p] = o]
      BY <2>3 DEF PollAnswered
    <3>2. o \in [kind : {"none", "ok", "error", "crashed", "cancelled"}, value : Payloads]
      BY <3>1, CacheAssumption DEF Ok, Ended
    <3> QED BY <2>3, <3>1, <3>2, ClientAssumption DEF IInv, ClientTypeOK, PollAnswered
  <2> QED BY <2>1, <2>2, <2>3 DEF PollEnds
<1>5. UNCHANGED <<call, attempt, reply, sent, applied, heard>>
  BY DEF PollEnds, PollPending, PollExpired, PollAnswered
<1>6. phase' \in [Tasks -> Phases]
  BY <1>2 DEF IInv, ClientTypeOK, Phases
<1>7. ClientTypeOK'
  BY <1>3, <1>4, <1>5, <1>6 DEF IInv, ClientTypeOK, SemOK
<1>8. LoopOK'
  BY <1>1, <1>2, <1>5 DEF IInv, ClientTypeOK, LoopOK
<1> QED BY <1>3, <1>7, <1>8 DEF IInv

\* A cancelled task leaves its permit behind, wherever it was.
LEMMA CancelIInv ==
    ASSUME IInv, NEW p \in Tasks, Cancel(p)
    PROVE  IInv'
<1>1. phase' = [phase EXCEPT ![p] = "done"] /\ PhaseOK /\ SemOK
  BY DEF Cancel, IInv, ClientTypeOK, PhaseOK
<1>2. SemOK'
  <2>1. CASE phase[p] = "sending" /\ Release
    BY <1>1, <2>1, SemEnd
  <2>2. CASE phase[p] = "waiting" /\ Abandon(p)
    BY <1>1, <2>2, SemAbandon
  <2>3. CASE phase[p] \in {"backoff", "polling", "napping"} /\ UNCHANGED semVars
    BY <1>1, <2>3, SemUntouched DEF PhaseOK
  <2> QED BY <2>1, <2>2, <2>3 DEF Cancel
<1>3. ClientTypeOK'
  BY <1>1, <1>2, CacheAssumption, ClientAssumption
     DEF IInv, ClientTypeOK, SemOK, Cancel, Ended, Phases
<1>4. LoopOK'
  BY <1>1 DEF IInv, ClientTypeOK, LoopOK, Cancel
<1> QED BY <1>2, <1>3, <1>4 DEF IInv

\* Time moves no call but those that nap between two polls.
LEMMA TickIInv ==
    ASSUME IInv, Tick
    PROVE  IInv'
<1>1. /\ \A p \in Tasks : phase'[p] = IF phase[p] = "napping" THEN "polling" ELSE phase[p]
      /\ UNCHANGED semVars
  BY DEF Tick, semVars
<1>2. SemOK'
  BY <1>1, SemUntouched DEF IInv
<1>3. phase' \in [Tasks -> Phases] /\ patience' \in [Tasks -> 0..PollTimeout]
  BY ClientAssumption DEF IInv, ClientTypeOK, Tick, Phases
<1>4. heard' \in [CacheKeys \X Payloads -> 0..TTL]
  BY CacheAssumption DEF IInv, ClientTypeOK, Tick
<1>5. ClientTypeOK'
  BY <1>2, <1>3, <1>4 DEF IInv, ClientTypeOK, SemOK, Tick
<1>6. LoopOK'
  BY <1>1 DEF IInv, ClientTypeOK, LoopOK, Tick
<1> QED BY <1>2, <1>5, <1>6 DEF IInv

\* A step that changes nothing keeps the invariant.
LEMMA StutterIInv ==
    ASSUME IInv, UNCHANGED vars
    PROVE  IInv'
<1>1. SemOK'
  BY SemUntouched DEF IInv, vars, semVars
<1> QED BY <1>1 DEF IInv, ClientTypeOK, LoopOK, vars

-------------------------------------------------------------------------------
(* What a call ends with                                                   *)

\* A result under way: a call that has not ended has no outcome; a write the
\* server has accepted, whose job is polled or which is reported as successful
\* has been performed; and a ticket is known to background calls only.
ResultOK ==
    \A p \in Tasks :
        /\ Busy(p) => outcome[p] = NoOutcome
        /\ \/ phase[p] = "sending" /\ Accepts(reply[p])
           \/ phase[p] \in {"polling", "napping"}
           \/ phase[p] = "done" /\ outcome[p].kind = "ok"
           => (IsWrite(call[p]) => applied[p] >= 1)
        /\ reply[p] = Ticket => call[p].background
        /\ outcome[p].value # Ticket

\* A ticket is cached only under the key of a background call.
TicketsFiled == \A i \in DOMAIN store : store[i].value = Ticket => store[i].key[2]

\* What a step of one task needs to know of the types.
Fields ==
    /\ phase \in [Tasks -> Phases] /\ call \in [Tasks -> Calls]
    /\ reply \in [Tasks -> Payloads \cup Faults \cup {NoReply}]
    /\ outcome \in [Tasks -> [kind : {"none", "ok", "error", "crashed", "cancelled"},
                              value : Payloads]]
    /\ applied \in [Tasks -> Nat]

\* A hit gives a ticket to nobody but a background call, which polls the job.
LEMMA TicketsHit ==
    ASSUME TicketsFiled, NEW c \in Calls, Cached(KeyOf(c)) = Ticket
    PROVE  c.background
<1>1. Fresh(KeyOf(c)) /\ Lookup(store, KeyOf(c)).value = Ticket
  BY ClientAssumption DEF Cached
<1>2. IndexOf(store, KeyOf(c)) \in DOMAIN store /\ store[IndexOf(store, KeyOf(c))].key = KeyOf(c)
  BY <1>1, IndexOfProperties DEF Fresh
<1>3. KeyOf(c)[2]
  BY <1>1, <1>2 DEF TicketsFiled, Lookup
<1> QED BY <1>3 DEF KeyOf

\* No step turns a failure into a result or hands a ticket on as one.
LEMMA ResultOKStep ==
    ASSUME IInv, CacheOK, TicketsFiled, ResultOK, [Next]_vars
    PROVE  ResultOK'
<1>0. Fields
  BY DEF IInv, ClientTypeOK, Fields
<1> USE ClientAssumption, CacheAssumption, RepliesAreDistinct
<1>1. ASSUME NEW p \in Tasks, NEW c \in Calls, BeginHit(p, c) PROVE ResultOK'
  <2>1. phase[p] \in {"idle", "done"} /\ c.method = "GET"
    BY <1>1 DEF BeginHit, Accept, Busy, Cacheable
  <2>2. Cached(KeyOf(c)) = Ticket => c.background
    BY TicketsHit
  <2>3. /\ phase' = [phase EXCEPT ![p] = phase'[p]] /\ outcome' = [outcome EXCEPT ![p] = outcome'[p]]
        /\ \/ phase'[p] = "polling" /\ outcome'[p] = NoOutcome
           \/ phase'[p] = "done" /\ outcome'[p].value # Ticket
    BY <1>0, <1>1, <2>2 DEF BeginHit, Settle, Delivered, Ok, Fields
  <2>4. /\ call' = [call EXCEPT ![p] = c] /\ applied' = [applied EXCEPT ![p] = 0]
        /\ UNCHANGED reply /\ reply[p] = NoReply
    BY <1>1, <2>1 DEF BeginHit, Accept, IInv, LoopOK
  <2> QED BY <1>0, <2>1, <2>3, <2>4 DEF ResultOK, Fields, Busy, IsWrite, NoOutcome, Accepts, NoReply
<1>2. ASSUME NEW p \in Tasks, NEW c \in Calls, BeginMiss(p, c) PROVE ResultOK'
  <2>1. phase[p] \in {"idle", "done"} /\ reply[p] = NoReply
    BY <1>2 DEF BeginMiss, Accept, Busy, IInv, LoopOK
  <2>2. /\ phase' = [phase EXCEPT ![p] = phase'[p]] /\ phase'[p] \in {"sending", "waiting"}
    BY <1>0, <1>2 DEF BeginMiss, StartAttempt, Fields
  <2> QED BY <1>0, <1>2, <2>1, <2>2
          DEF ResultOK, Fields, BeginMiss, Accept, Busy, NoOutcome, Accepts, NoReply
<1>3. ASSUME NEW p \in Tasks, Resume(p) \/ Wake(p) PROVE ResultOK'
  <2>1. phase[p] \in {"waiting", "backoff"} /\ reply[p] = NoReply
    BY <1>3 DEF Resume, Wake, IInv, LoopOK
  <2>2. /\ phase' = [phase EXCEPT ![p] = phase'[p]] /\ phase'[p] \in {"sending", "waiting"}
        /\ UNCHANGED <<call, reply, outcome, applied>>
    BY <1>0, <1>3 DEF Resume, Wake, StartAttempt, Fields
  <2> QED BY <1>0, <2>1, <2>2 DEF ResultOK, Fields, Busy, Accepts, NoReply
<1>4. ASSUME NEW p \in Tasks, Serve(p) PROVE ResultOK'
  <2>1. PICK r \in RepliesTo(call[p]), n \in {0, 1} :
          /\ reply' = [reply EXCEPT ![p] = r] /\ applied' = [applied EXCEPT ![p] = @ + n]
          /\ Accepts(r) /\ IsWrite(call[p]) => n = 1
    BY <1>4 DEF Serve
  <2>2. r = Ticket => call[p].background
    BY <1>0, <2>1 DEF RepliesTo, Faults, Fields
  <2> QED BY <1>0, <1>4, <2>1, <2>2 DEF ResultOK, Fields, Serve, Busy
<1>5. ASSUME NEW p \in Tasks, ReceivePayload(p) PROVE ResultOK'
  <2>1. /\ phase[p] = "sending" /\ reply[p] \in Payloads /\ reply[p] # NoReply /\ NoReply # Ticket
        /\ phase' = [phase EXCEPT ![p] = Delivered(call[p], reply[p])]
    BY <1>5 DEF ReceivePayload, EndAttempt
  <2>2. (reply[p] = Ticket => call[p].background) /\ (IsWrite(call[p]) => applied[p] >= 1)
    BY <2>1 DEF ResultOK, Accepts
  <2> QED BY <1>0, <1>5, <2>1, <2>2
          DEF ResultOK, Fields, ReceivePayload, Settle, Delivered, Busy, Ok, NoOutcome,
              Accepts, NoReply
<1>6. ASSUME NEW p \in Tasks, ReceiveEmpty(p) PROVE ResultOK'
  <2>1. /\ phase[p] = "sending" /\ NoReply # Ticket /\ (IsWrite(call[p]) => applied[p] >= 1)
        /\ phase' = [phase EXCEPT ![p] = "done"]
    BY <1>6 DEF ReceiveEmpty, EndAttempt, ResultOK, Accepts
  <2> QED BY <1>0, <1>6, <2>1 DEF ResultOK, Fields, ReceiveEmpty, Busy, Ok, Accepts, NoReply
<1>7. ASSUME NEW p \in Tasks, ReceiveError(p) \/ ReceiveRetryable(p) \/ NetworkError(p) PROVE ResultOK'
  <2>1. /\ phase[p] = "sending" /\ NoReply # Ticket
        /\ phase' = [phase EXCEPT ![p] = phase'[p]] /\ phase'[p] \in {"backoff", "done"}
        /\ UNCHANGED <<call, applied>> /\ reply' = [reply EXCEPT ![p] = NoReply]
    BY <1>0, <1>7 DEF ReceiveError, ReceiveRetryable, NetworkError, EndAttempt, Fields
  <2>2. /\ outcome' = [outcome EXCEPT ![p] = outcome'[p]]
        /\ \/ phase'[p] = "backoff" /\ outcome'[p] = NoOutcome
           \/ phase'[p] = "done" /\ outcome'[p] = Ended("error")
    BY <1>0, <1>7, <2>1 DEF ReceiveError, ReceiveRetryable, NetworkError, EndAttempt, Fields,
       ResultOK, Busy
  <2> QED BY <1>0, <2>1, <2>2 DEF ResultOK, Fields, Busy, Ended, NoOutcome, Accepts, NoReply
<1>8. ASSUME NEW p \in Tasks, PollEnds(p) PROVE ResultOK'
  <2>1. /\ phase[p] = "polling" /\ UNCHANGED <<call, reply, applied>>
        /\ phase' = [phase EXCEPT ![p] = phase'[p]] /\ outcome' = [outcome EXCEPT ![p] = outcome'[p]]
        /\ \/ phase'[p] = "napping" /\ outcome'[p] = outcome[p]
           \/ phase'[p] = "done" /\ outcome'[p].value # Ticket
    BY <1>0, <1>8 DEF PollEnds, PollPending, PollExpired, PollAnswered, Ended, Ok, Fields
  <2> QED BY <1>0, <2>1 DEF ResultOK, Fields, Busy
<1>9. ASSUME NEW p \in Tasks, Cancel(p) PROVE ResultOK'
  BY <1>0, <1>9 DEF ResultOK, Fields, Cancel, Busy, Ended, NoReply, Accepts
<1>10. CASE Tick
  BY <1>0, <1>10 DEF ResultOK, Fields, Tick, Busy
<1>11. CASE UNCHANGED vars
  BY <1>11 DEF ResultOK, vars, Busy
<1> QED BY <1>1, <1>2, <1>3, <1>4, <1>5, <1>6, <1>7, <1>8, <1>9, <1>10, <1>11
        DEF Next, TaskStep, AttemptEnds

-------------------------------------------------------------------------------
(* The cache inside the client                                             *)

\* A step of the client, as its cache sees it.
CacheStep ==
    \/ \E k \in CacheKeys : CacheGet(k) /\ UNCHANGED heard
    \/ \E k \in CacheKeys, v \in Payloads :
           CacheSet(k, v) /\ heard' = [heard EXCEPT ![<<k, v>>] = 0] /\ (v = Ticket => k[2])
    \/ CacheTick /\ Tick
    \/ UNCHANGED <<store, heard>>

\* What a step of the client does to its cache is an operation of TTLCache.
LEMMA StepOfCache ==
    ASSUME IInv, ResultOK, [Next]_vars
    PROVE  CacheStep
<1> USE DEF CacheStep
<1>0. \A c \in Calls : Cacheable(c) => KeyOf(c) \in CacheKeys
  BY ClientAssumption
<1>1. ASSUME NEW p \in Tasks, NEW c \in Calls, BeginHit(p, c) PROVE CacheStep
  BY <1>0, <1>1 DEF BeginHit
<1>2. ASSUME NEW p \in Tasks, NEW c \in Calls, BeginMiss(p, c) PROVE CacheStep
  BY <1>0, <1>2 DEF BeginMiss
<1>3. ASSUME NEW p \in Tasks, ReceivePayload(p) PROVE CacheStep
  <2>1. call[p] \in Calls /\ reply[p] \in Payloads
    BY <1>3 DEF ReceivePayload, IInv, ClientTypeOK
  <2>2. reply[p] = Ticket => KeyOf(call[p])[2]
    BY DEF ResultOK, KeyOf
  <2> QED BY <1>0, <1>3, <2>1, <2>2 DEF ReceivePayload
<1>4. ASSUME NEW p \in Tasks,
             \/ Resume(p) \/ Serve(p) \/ ReceiveEmpty(p) \/ ReceiveError(p)
             \/ ReceiveRetryable(p) \/ NetworkError(p) \/ Wake(p) \/ Cancel(p)
      PROVE  CacheStep
  BY <1>4 DEF Resume, Serve, ReceiveEmpty, ReceiveError, ReceiveRetryable,
              NetworkError, Wake, Cancel
<1>5. ASSUME NEW p \in Tasks, PollEnds(p) PROVE CacheStep
  BY <1>5 DEF PollEnds, PollPending, PollExpired, PollAnswered
<1>6. CASE Tick
  BY <1>6 DEF Tick
<1>7. CASE UNCHANGED vars
  BY <1>7 DEF vars
<1> HIDE DEF CacheStep
<1>8. ASSUME NEW p \in Tasks, TaskStep(p) PROVE CacheStep
  <2>1. CASE \E c \in Calls : BeginHit(p, c) \/ BeginMiss(p, c)
    BY <2>1, <1>1, <1>2
  <2>2. CASE Resume(p) \/ Serve(p) \/ Wake(p) \/ Cancel(p)
    BY <2>2, <1>4
  <2>3. CASE AttemptEnds(p)
    BY <2>3, <1>3, <1>4 DEF AttemptEnds
  <2>4. CASE PollEnds(p)
    BY <2>4, <1>5
  <2> QED BY <1>8, <2>1, <2>2, <2>3, <2>4 DEF TaskStep
<1> QED BY <1>6, <1>7, <1>8 DEF Next

\* Every step of the client is a step of its cache or leaves it alone.
LEMMA CacheOKStep ==
    ASSUME IInv, ResultOK, CacheOK, [Next]_vars
    PROVE  CacheOK'
<1>1. CASE UNCHANGED <<store, heard>>
  BY <1>1 DEF CacheOK
<1> QED BY <1>1, StepOfCache, CacheGetOK, CacheSetOK, CacheTickOK DEF CacheStep

\* Every entry expires within default_ttl of the moment the payload it holds was
\* received for that very key.
EntriesAreYoung ==
    \A i \in DOMAIN store :
        store[i].life + heard[<<store[i].key, store[i].value>>] <= TTL

\* An entry's remaining life never exceeds what its age leaves of the TTL.
LEMMA EntriesAreYoungStep ==
    ASSUME IInv, ResultOK, CacheOK, EntriesAreYoung, [Next]_vars
    PROVE  EntriesAreYoung'
<1> DEFINE D == CacheKeys \X Payloads
<1>1. heard \in [D -> 0..TTL] /\ TTL \in Nat
  BY CacheAssumption DEF IInv, ClientTypeOK
<1>2. \A i \in DOMAIN store : /\ store[i] \in Entry
                             /\ <<store[i].key, store[i].value>> \in D
                             /\ store[i].life \in 0..TTL
  <2>1. \A i \in DOMAIN store : store[i] \in Entry
    BY ElementOfSeq, LenProperties DEF CacheOK
  <2> QED BY <2>1 DEF Entry
<1> HIDE DEF D
<1>3. ASSUME NEW k \in CacheKeys, CacheGet(k), UNCHANGED heard
      PROVE  EntriesAreYoung'
  BY <1>3, CacheGetOK DEF EntriesAreYoung
<1>4. ASSUME NEW k \in CacheKeys, NEW v \in Payloads, CacheSet(k, v),
             heard' = [heard EXCEPT ![<<k, v>>] = 0]
      PROVE  EntriesAreYoung'
  <2>1. <<k, v>> \in D
    BY DEF D
  <2>2. \A kv \in D : heard'[kv] <= heard[kv] /\ heard'[kv] \in 0..TTL
    BY <1>1, <1>4
  <2>3. heard'[<<k, v>>] = 0
    BY <1>1, <1>4, <2>1
  <2> SUFFICES ASSUME NEW i \in DOMAIN store'
               PROVE  store'[i].life + heard'[<<store'[i].key, store'[i].value>>] <= TTL
    BY DEF EntriesAreYoung
  <2>4. CASE store'[i] = [key |-> k, value |-> v, life |-> TTL]
    BY <1>1, <2>3, <2>4
  <2>5. ASSUME NEW j \in DOMAIN store, store'[i] = store[j]
        PROVE  store'[i].life + heard'[<<store'[i].key, store'[i].value>>] <= TTL
    <3> DEFINE kv == <<store[j].key, store[j].value>>
    <3>1. kv \in D /\ store[j].life \in 0..TTL /\ store[j].life + heard[kv] <= TTL
      BY <1>2 DEF EntriesAreYoung
    <3>2. kv = <<store'[i].key, store'[i].value>> /\ store[j].life = store'[i].life
      BY <2>5
    <3> HIDE DEF kv
    <3>3. store[j].life + heard'[kv] <= TTL
      BY <1>1, <2>2, <3>1
    <3> QED BY <3>2, <3>3, Zenon
  <2> QED BY <1>4, <2>4, <2>5, CacheSetOK
<1>5. CASE CacheTick /\ Tick
  <2>1. \A kv \in D : heard'[kv] = IF heard[kv] < TTL THEN heard[kv] + 1 ELSE TTL
    BY <1>1, <1>5 DEF Tick
  <2> SUFFICES ASSUME NEW i \in DOMAIN store
               PROVE  store'[i].life + heard'[<<store'[i].key, store'[i].value>>] <= TTL
    BY <1>5, CacheTickOK DEF EntriesAreYoung
  <2> DEFINE kv == <<store[i].key, store[i].value>>
             l == store[i].life
  <2>2. kv \in D /\ l \in 0..TTL /\ l + heard[kv] <= TTL
    BY <1>2 DEF EntriesAreYoung
  <2>3. /\ kv = <<store'[i].key, store'[i].value>>
        /\ store'[i].life = IF l > 0 THEN l - 1 ELSE 0
    BY <1>5, CacheTickOK
  <2> HIDE DEF kv, l
  <2>4. heard[kv] \in 0..TTL /\ heard'[kv] = IF heard[kv] < TTL THEN heard[kv] + 1 ELSE TTL
    BY <1>1, <2>1, <2>2
  <2>5. store'[i].life + heard'[kv] <= TTL
    BY <1>1, <2>2, <2>3, <2>4
  <2> QED BY <2>3, <2>5, Zenon
<1>6. CASE UNCHANGED <<store, heard>>
  BY <1>6 DEF EntriesAreYoung
<1> QED BY <1>3, <1>4, <1>5, <1>6, StepOfCache DEF CacheStep

\* A ticket enters the cache under the key of the call it was received for.
LEMMA TicketsFiledStep ==
    ASSUME IInv, ResultOK, CacheOK, TicketsFiled, [Next]_vars
    PROVE  TicketsFiled'
<1>1. ASSUME NEW k \in CacheKeys, CacheGet(k) PROVE TicketsFiled'
  BY <1>1, CacheGetOK DEF TicketsFiled
<1>2. ASSUME NEW k \in CacheKeys, NEW v \in Payloads, CacheSet(k, v), v = Ticket => k[2]
      PROVE  TicketsFiled'
  <2> SUFFICES ASSUME NEW i \in DOMAIN store', store'[i].value = Ticket
               PROVE  store'[i].key[2]
    BY DEF TicketsFiled
  <2>1. CASE store'[i] = [key |-> k, value |-> v, life |-> TTL]
    BY <1>2, <2>1
  <2>2. ASSUME NEW j \in DOMAIN store, store'[i] = store[j] PROVE store'[i].key[2]
    BY <2>2 DEF TicketsFiled
  <2> QED BY <1>2, <2>1, <2>2, CacheSetOK
<1>3. CASE CacheTick
  BY <1>3, CacheTickOK DEF TicketsFiled
<1>4. CASE UNCHANGED <<store, heard>>
  BY <1>4 DEF TicketsFiled
<1> QED BY <1>1, <1>2, <1>3, <1>4, StepOfCache DEF CacheStep

\* What a hit finds was received for its key less than TTL ago.
LEMMA HitIsFresh ==
    ASSUME IInv, CacheOK, EntriesAreYoung, NEW p \in Tasks, NEW c \in Calls, BeginHit(p, c)
    PROVE  heard[<<KeyOf(c), Cached(KeyOf(c))>>] < TTL
<1> DEFINE k == KeyOf(c)
           i == IndexOf(store, k)
<1>1. Fresh(k)
  BY DEF BeginHit, Cached
<1>2. i \in DOMAIN store /\ store[i].key = k
  BY <1>1, IndexOfProperties DEF Fresh
<1>3. store[i] = Lookup(store, k) /\ Lookup(store, k).life > 0
      /\ Lookup(store, k).value = Cached(k)
  BY <1>1 DEF Lookup, Fresh, Cached
<1>4. store[i] \in Entry
  BY <1>2, ElementOfSeq, LenProperties DEF CacheOK
<1>5. store[i].life \in 0..TTL /\ store[i].life > 0 /\ TTL \in Nat
      /\ <<store[i].key, store[i].value>> \in CacheKeys \X Payloads
  BY <1>3, <1>4, CacheAssumption DEF Entry
<1>6. heard[<<store[i].key, store[i].value>>] \in 0..TTL
  <2> DEFINE D == CacheKeys \X Payloads
             kv == <<store[i].key, store[i].value>>
  <2>1. heard \in [D -> 0..TTL] /\ kv \in D
    BY <1>5 DEF IInv, ClientTypeOK
  <2> HIDE DEF D, kv
  <2>2. heard[kv] \in 0..TTL
    BY <2>1
  <2> QED BY <2>2 DEF kv
<1>7. store[i].life + heard[<<store[i].key, store[i].value>>] <= TTL
  BY <1>2 DEF EntriesAreYoung
<1>8. heard[<<store[i].key, store[i].value>>] < TTL
  BY <1>5, <1>6, <1>7
<1>9. <<store[i].key, store[i].value>> = <<k, Cached(k)>>
  BY <1>2, <1>3
<1> QED BY <1>8, <1>9, Zenon

-------------------------------------------------------------------------------
(* Theorems                                                                *)

\* Every step of the client keeps the invariant.
LEMMA IInvStep ==
    ASSUME IInv, CacheOK, [Next]_vars
    PROVE  IInv'
<1>1. ASSUME NEW p \in Tasks, TaskStep(p) PROVE IInv'
  <2>1. ASSUME NEW c \in Calls, BeginHit(p, c) PROVE IInv'
    BY <2>1, BeginHitIInv
  <2>2. ASSUME NEW c \in Calls, BeginMiss(p, c) PROVE IInv'
    BY <2>2, BeginMissIInv
  <2>3. CASE AttemptEnds(p)
    BY <2>3, ReceivePayloadIInv, ReceiveEmptyIInv, ReceiveErrorIInv,
       ReceiveRetryableIInv, NetworkErrorIInv DEF AttemptEnds
  <2>4. CASE Resume(p) \/ Serve(p) \/ Wake(p)
    BY <2>4, ResumeIInv, ServeIInv, WakeIInv
  <2>5. CASE PollEnds(p) \/ Cancel(p)
    BY <2>5, PollEndsIInv, CancelIInv
  <2> QED BY <1>1, <2>1, <2>2, <2>3, <2>4, <2>5 DEF TaskStep
<1> QED BY <1>1, TickIInv, StutterIInv DEF Next

\* Init starts with an empty cache.
LEMMA InitCache == Init => CacheOK /\ EntriesAreYoung /\ TicketsFiled
<1> SUFFICES ASSUME Init PROVE CacheOK /\ EntriesAreYoung /\ TicketsFiled
  OBVIOUS
<1>1. CacheInit
  BY DEF Init
<1>2. DOMAIN store = {}
  BY <1>1, EmptySeq, LenProperties DEF CacheInit
<1> QED BY <1>1, <1>2, EmptyCacheOK DEF EntriesAreYoung, TicketsFiled

\* No call has been made yet.
LEMMA InitResults == Init => ResultOK
  BY ClientAssumption, RepliesAreDistinct DEF Init, ResultOK, Busy, Accepts, NoOutcome, NoReply

\* The invariant every theorem below rests on: types, permits, the place of each
\* call in the retry loop, what calls end with, and the cache.
ClientInv == IInv /\ ResultOK /\ CacheOK /\ EntriesAreYoung /\ TicketsFiled

THEOREM ClientInvariant == Spec => []ClientInv
<1>1. Init => ClientInv
  BY InitIInv, InitCache, InitResults DEF ClientInv
<1>2. ClientInv /\ [Next]_vars => ClientInv'
  BY IInvStep, ResultOKStep, CacheOKStep, EntriesAreYoungStep, TicketsFiledStep DEF ClientInv
<1> QED BY <1>1, <1>2, PTL DEF Spec

\* Every variable of the client keeps its type, the loop counter of request()
\* included, which never passes max_retries (client.py:170).
THEOREM ClientTypes == Spec => []ClientTypeOK
<1>1. ClientInv => ClientTypeOK
  BY DEF ClientInv, IInv
<1> QED BY <1>1, ClientInvariant, PTL

\* However calls, hand-overs, retries, faults and cancellations interleave, no
\* permit of the semaphore is lost or duplicated and no waiter is forgotten
\* (client.py:173-177).
THEOREM PermitsConserved == Spec => []NoPermitLost
<1>1. ClientInv => NoPermitLost
  BY DEF ClientInv, IInv, SemOK, NoPermitLost
<1> QED BY <1>1, ClientInvariant, PTL

\* request() never has more than max_concurrent attempts on the wire.
THEOREM ConcurrencyCap == Spec => []SlotsRespected
<1>1. ASSUME IInv PROVE SlotsRespected
  <2>1. SemOK
    BY <1>1 DEF IInv
  <2>2. woken \cup Sending \in SUBSET Tasks /\ Sending \in SUBSET (woken \cup Sending)
    BY <2>1 DEF SemOK, Sending
  <2>3. /\ Cardinality(Sending) <= Cardinality(woken \cup Sending)
        /\ Cardinality(Sending) \in Nat
    BY <2>1, <2>2, HoldersFinite, FS_Subset, FS_CardinalityType
  <2> QED BY <2>1, <2>3, HoldersFinite, MaxConcurrentAssumption DEF SemOK, SlotsRespected
<1>2. ClientInv => SlotsRespected
  BY <1>1 DEF ClientInv
<1> QED BY <1>2, ClientInvariant, PTL

\* One call puts at most max_retries + 1 attempts on the wire and has its command
\* performed at most that often (client.py:59-65).
THEOREM BoundedAttempts == Spec => []AttemptBudget
<1>1. ASSUME IInv PROVE AttemptBudget
  <2> SUFFICES ASSUME NEW p \in Tasks
               PROVE  applied[p] <= sent[p] /\ sent[p] <= MaxRetries + 1
    BY DEF AttemptBudget
  <2>1. attempt[p] \in 0..MaxRetries /\ sent[p] \in Nat /\ applied[p] \in Nat
    BY <1>1 DEF IInv, ClientTypeOK
  <2>2. sent[p] <= attempt[p] + 1 /\ applied[p] <= sent[p]
    BY <1>1 DEF IInv, LoopOK
  <2> QED BY <2>1, <2>2, ClientAssumption
<1>2. ClientInv => AttemptBudget
  BY <1>1 DEF ClientInv
<1> QED BY <1>2, ClientInvariant, PTL

\* The client's cache never outgrows maxsize and never holds a key twice.
THEOREM ClientCacheOK == Spec => []CacheOK
<1>1. ClientInv => CacheOK
  BY DEF ClientInv
<1> QED BY <1>1, ClientInvariant, PTL

\* A write that is reported as successful has been performed, whatever replies
\* were lost, retried or given up on before (client.py:164-214).
THEOREM SuccessIsReal == Spec => []OkWriteTookEffect
<1>1. ClientInv => OkWriteTookEffect
  BY DEF ClientInv, ResultOK, OkWriteTookEffect
<1> QED BY <1>1, ClientInvariant, PTL

\* No caller is given a job ticket for a result, for background and plain
\* requests of one path never share a cache entry (client.py:162-167, 328-377).
THEOREM TicketsStayInside == Spec => []NoTicketReturned
<1>1. ClientInv => NoTicketReturned
  BY DEF ClientInv, ResultOK, NoTicketReturned
<1> QED BY <1>1, ClientInvariant, PTL

\* A call answered without a request gets a payload that was received for the
\* same key less than default_ttl ago (client.py:162-167).
THEOREM FreshHits == Spec => HitsAreFresh
<1>1. ClientInv
          => [\A p \in Tasks, c \in Calls :
                 BeginHit(p, c) => heard[<<KeyOf(c), Cached(KeyOf(c))>>] < TTL]_vars
  BY HitIsFresh DEF ClientInv
<1> QED BY <1>1, ClientInvariant, PTL DEF HitsAreFresh

-------------------------------------------------------------------------------
(* The refinement of FetchPromise                                          *)

\* What the promise sees of the client's state.
Unfinished == {p \in Tasks : Busy(p)}
Answers == [p \in Tasks |-> outcome[p].value]
Window == {kv \in CacheKeys \X Payloads : heard[kv] < TTL}
Promised == <<call, Answers, Unfinished, sent, Sending, Window>>

\* A step that moves one task, as the promise sees it.
LEMMA MoveSeen ==
    ASSUME NEW p \in Tasks, phase \in [Tasks -> Phases], phase' = [phase EXCEPT ![p] = phase'[p]]
    PROVE  /\ ~Busy(p)' => Unfinished' = Unfinished \ {p}
           /\ Busy(p)' => Unfinished' = Unfinished \cup {p}
           /\ phase'[p] = "sending" => Sending' = Sending \cup {p}
           /\ phase'[p] # "sending" => Sending' = Sending \ {p}
  BY DEF Unfinished, Sending, Busy

\* An outcome, as the promise sees it.
LEMMA OutcomeSeen ==
    ASSUME NEW p \in Tasks, DOMAIN outcome = Tasks,
           outcome' = [outcome EXCEPT ![p] = outcome'[p]]
    PROVE  Answers' = [Answers EXCEPT ![p] = outcome'[p].value]
  BY DEF Answers

\* A step of the promise that is taken by the client's state.
PromisedStep == Promise!PromiseNext \/ UNCHANGED Promised

\* A task that is woken or finds a free permit may open a try.
LEMMA PermitMayOpen ==
    ASSUME IInv, NEW p \in Tasks, p \notin Sending, NoWait \/ p \in woken
    PROVE  MaxConcurrent = 0 \/ Cardinality(Sending) < MaxConcurrent
<1> SUFFICES ASSUME ~Unlimited PROVE Cardinality(Sending) < MaxConcurrent
  BY DEF Unlimited
<1>1. /\ SemOK /\ free \in Nat /\ free + Cardinality(woken \cup Sending) = MaxConcurrent
      /\ woken \in SUBSET Tasks /\ Sending \in SUBSET Tasks
  BY DEF IInv, SemOK, Sending
<1>2. /\ IsFiniteSet(woken \cup Sending) /\ IsFiniteSet(Sending)
      /\ Cardinality(woken \cup Sending) \in Nat /\ Cardinality(Sending) \in Nat
      /\ Cardinality(Sending) <= Cardinality(woken \cup Sending)
  BY <1>1, ClientAssumption, HoldersFinite, FS_Subset, FS_CardinalityType
<1>3. CASE NoWait
  BY <1>1, <1>2, <1>3, MaxConcurrentAssumption DEF NoWait
<1>4. CASE p \in woken
  <2>1. Cardinality(Sending \cup {p}) = Cardinality(Sending) + 1
    BY <1>2, FS_AddElement
  <2>2. Cardinality(Sending \cup {p}) <= Cardinality(woken \cup Sending)
    BY <1>2, <1>4, FS_Subset
  <2> QED BY <1>1, <1>2, <2>1, <2>2, MaxConcurrentAssumption
<1> QED BY <1>3, <1>4

\* The instance counts with the same Cardinality.
LEMMA SameCardinality == \A S : Promise!Cardinality(S) = Cardinality(S)
  BY DEF Promise!Cardinality, Cardinality

\* At the start nothing has been asked, and the window is empty.
LEMMA InitPromised == Init => Promise!PromiseInit
<1> SUFFICES ASSUME Init PROVE Promise!PromiseInit
  OBVIOUS
<1>1. (CHOOSE c \in Calls : TRUE) \in Calls
  BY ClientAssumption
<1>2. \A kv \in CacheKeys \X Payloads : ~(heard[kv] < TTL)
  BY CacheAssumption DEF Init
<1> QED BY <1>1, <1>2 DEF Init, Promise!PromiseInit, Busy, NoOutcome

\* A call answered from the cache is answered from the window.
LEMMA BeginHitPromised ==
    ASSUME ClientInv, NEW p \in Tasks, NEW c \in Calls, BeginHit(p, c)
    PROVE  PromisedStep
<1> DEFINE v == Cached(KeyOf(c))
<1>1. v \in Payloads /\ KeyOf(c) \in CacheKeys /\ Cacheable(c)
  BY CachedIsPayload, ClientAssumption DEF BeginHit, ClientInv
<1>2. <<KeyOf(c), v>> \in Window
  BY <1>1, HitIsFresh DEF Window, ClientInv
<1>3. /\ ~Busy(p) /\ phase' = [phase EXCEPT ![p] = Delivered(c, v)]
      /\ outcome' = [outcome EXCEPT ![p] = IF Delivered(c, v) = "done" THEN Ok(v) ELSE NoOutcome]
      /\ call' = [call EXCEPT ![p] = c] /\ sent' = [sent EXCEPT ![p] = 0] /\ heard' = heard
  BY DEF BeginHit, Accept, Settle
<1>4. p \notin Unfinished /\ p \notin Sending
  BY <1>3 DEF Unfinished, Sending, Busy
<1> HIDE DEF v
<1>5. /\ \/ Answers' = [Answers EXCEPT ![p] = v] /\ Unfinished' = Unfinished
         \/ Answers' = [Answers EXCEPT ![p] = Null] /\ Unfinished' = Unfinished \cup {p}
      /\ Sending' = Sending /\ Window' = Window
  <2>1. phase \in [Tasks -> Phases] /\ DOMAIN outcome = Tasks
    BY DEF ClientInv, IInv, ClientTypeOK
  <2>2. Window' = Window
    BY <1>3 DEF Window
  <2>3. CASE Delivered(c, v) = "done"
    <3>1. phase' = [phase EXCEPT ![p] = phase'[p]] /\ phase'[p] = "done" /\ outcome' = [outcome EXCEPT ![p] = Ok(v)]
      BY <1>3, <2>1, <2>3
    <3>2. Unfinished' = Unfinished /\ Sending' = Sending
      BY <1>4, <2>1, <3>1, MoveSeen DEF Busy
    <3>3. Answers' = [Answers EXCEPT ![p] = v]
      <4>1. outcome' = [outcome EXCEPT ![p] = outcome'[p]] /\ outcome'[p].value = v
        BY <2>1, <3>1 DEF Ok
      <4> QED BY <2>1, <4>1, OutcomeSeen
    <3> QED BY <2>2, <3>2, <3>3
  <2>4. CASE Delivered(c, v) = "polling"
    <3>1. phase' = [phase EXCEPT ![p] = phase'[p]] /\ phase'[p] = "polling" /\ outcome' = [outcome EXCEPT ![p] = NoOutcome]
      BY <1>3, <2>1, <2>4
    <3>2. Unfinished' = Unfinished \cup {p} /\ Sending' = Sending
      BY <1>4, <2>1, <3>1, MoveSeen DEF Busy
    <3>3. Answers' = [Answers EXCEPT ![p] = Null]
      <4>1. outcome' = [outcome EXCEPT ![p] = outcome'[p]] /\ outcome'[p].value = Null
        BY <2>1, <3>1 DEF NoOutcome
      <4> QED BY <2>1, <4>1, OutcomeSeen
    <3> QED BY <2>2, <3>2, <3>3
  <2> QED BY <2>3, <2>4 DEF Delivered
<1>6. Promise!Recall(p, c)
  BY <1>1, <1>2, <1>3, <1>4, <1>5 DEF Promise!Recall, Unfinished, Answers, Sending, Window
<1> QED BY <1>6 DEF PromisedStep, Promise!PromiseNext

\* Any other call asks, and tries at once if it need not queue.
LEMMA BeginMissPromised ==
    ASSUME ClientInv, NEW p \in Tasks, NEW c \in Calls, BeginMiss(p, c)
    PROVE  PromisedStep
<1>1. /\ phase \in [Tasks -> Phases] /\ DOMAIN outcome = Tasks /\ DOMAIN sent = Tasks
      /\ p \notin Unfinished /\ p \notin Sending /\ ~Busy(p) /\ IInv
  BY DEF ClientInv, IInv, ClientTypeOK, BeginMiss, Accept, Unfinished, Sending, Busy
<1>2. /\ call' = [call EXCEPT ![p] = c] /\ heard' = heard
      /\ outcome' = [outcome EXCEPT ![p] = outcome'[p]] /\ outcome'[p].value = Null
      /\ StartAttempt(p, 0)
  BY <1>1 DEF BeginMiss, Accept, NoOutcome
<1>3. Answers' = [Answers EXCEPT ![p] = Null] /\ Window' = Window
  BY <1>1, <1>2, OutcomeSeen DEF Window
<1>4. CASE NoWait
  <2>1. /\ phase' = [phase EXCEPT ![p] = phase'[p]] /\ phase'[p] = "sending"
        /\ sent' = [sent EXCEPT ![p] = 1]
    BY <1>1, <1>2, <1>4 DEF StartAttempt
  <2>2. Unfinished' = Unfinished \cup {p} /\ Sending' = Sending \cup {p}
    BY <1>1, <2>1, MoveSeen DEF Busy
  <2>3. MaxConcurrent = 0 \/ Cardinality(Sending) < MaxConcurrent
    BY <1>1, <1>4, PermitMayOpen
  <2>4. Promise!AskAndTry(p, c)
    BY <1>1, <1>2, <1>3, <2>1, <2>2, <2>3, SameCardinality
       DEF Promise!AskAndTry, Promise!MayOpen, Unfinished, Answers, Sending, Window
  <2> QED BY <2>4 DEF PromisedStep, Promise!PromiseNext
<1>5. CASE ~NoWait
  <2>1. /\ phase' = [phase EXCEPT ![p] = phase'[p]] /\ phase'[p] = "waiting"
        /\ sent' = [sent EXCEPT ![p] = 0]
    BY <1>1, <1>2, <1>5 DEF StartAttempt
  <2>2. Unfinished' = Unfinished \cup {p} /\ Sending' = Sending
    BY <1>1, <2>1, MoveSeen DEF Busy
  <2>3. Promise!Ask(p, c)
    BY <1>1, <1>2, <1>3, <2>1, <2>2
       DEF Promise!Ask, Unfinished, Answers, Sending, Window
  <2> QED BY <2>3 DEF PromisedStep, Promise!PromiseNext
<1> QED BY <1>4, <1>5

\* An attempt of a call that has begun goes out.
LEMMA TryPromised ==
    ASSUME ClientInv, NEW p \in Tasks, phase[p] \in {"waiting", "backoff"},
           NoWait \/ p \in woken,
           phase' = [phase EXCEPT ![p] = phase'[p]], phase'[p] = "sending",
           sent' = [sent EXCEPT ![p] = sent[p] + 1],
           UNCHANGED <<call, outcome, heard>>
    PROVE  PromisedStep
<1>1. /\ phase \in [Tasks -> Phases] /\ IInv
      /\ p \in Unfinished /\ p \notin Sending
  BY DEF ClientInv, IInv, ClientTypeOK, Unfinished, Sending, Busy
<1>2. Unfinished' = Unfinished /\ Sending' = Sending \cup {p}
  BY <1>1, MoveSeen DEF Busy
<1>3. MaxConcurrent = 0 \/ Cardinality(Sending) < MaxConcurrent
  BY <1>1, PermitMayOpen
<1>4. sent[p] < MaxRetries + 1
  <2>1. attempt[p] \in 0..MaxRetries /\ sent[p] \in Nat
    BY <1>1 DEF IInv, ClientTypeOK
  <2> QED BY <1>1, <2>1, ClientAssumption DEF IInv, LoopOK
<1>5. Answers' = Answers /\ Window' = Window
  BY DEF Answers, Window
<1>6. Promise!Try(p)
  BY <1>1, <1>2, <1>3, <1>4, <1>5, SameCardinality
     DEF Promise!Try, Promise!MayOpen, Unfinished, Answers, Sending, Window
<1> QED BY <1>6 DEF PromisedStep, Promise!PromiseNext

\* An attempt ends: the call goes on without an outcome or is over, and only a
\* cacheable call has added to what was received.
LEMMA ClosePromised ==
    ASSUME ClientInv, NEW p \in Tasks, phase[p] = "sending",
           phase' = [phase EXCEPT ![p] = phase'[p]],
           outcome' = [outcome EXCEPT ![p] = outcome'[p]],
           UNCHANGED <<call, sent>>,
           \/ phase'[p] \in {"backoff", "polling"} /\ outcome'[p].value = Null
           \/ phase'[p] = "done" /\ outcome'[p].value \in Payloads,
           \/ heard' = heard
           \/ /\ Cacheable(call[p])
              /\ \E v \in Payloads : heard' = [heard EXCEPT ![<<KeyOf(call[p]), v>>] = 0]
    PROVE  PromisedStep
<1>1. /\ phase \in [Tasks -> Phases] /\ DOMAIN outcome = Tasks /\ call[p] \in Calls
      /\ p \in Sending /\ p \in Unfinished /\ outcome[p].value = Null
  <2>1. /\ phase \in [Tasks -> Phases] /\ call[p] \in Calls
        /\ outcome \in [Tasks -> [kind : {"none", "ok", "error", "crashed", "cancelled"},
                                  value : Payloads]]
    BY DEF ClientInv, IInv, ClientTypeOK
  <2>2. Busy(p)
    BY DEF Busy
  <2>3. outcome[p] = NoOutcome
    BY <2>2 DEF ClientInv, ResultOK
  <2> QED BY <2>1, <2>2, <2>3 DEF Unfinished, Sending, NoOutcome
<1>2. Sending' = Sending \ {p} /\ Answers' = [Answers EXCEPT ![p] = outcome'[p].value]
  BY <1>1, MoveSeen, OutcomeSeen
<1>3. \/ Answers' = Answers /\ Unfinished' = Unfinished
      \/ /\ Unfinished' = Unfinished \ {p}
         /\ \E v \in Payloads : Answers' = [Answers EXCEPT ![p] = v]
  <2>1. CASE phase'[p] \in {"backoff", "polling"} /\ outcome'[p].value = Null
    <3>1. Unfinished' = Unfinished
      BY <1>1, <2>1, MoveSeen DEF Busy
    <3>2. Answers' = Answers
      BY <1>1, <1>2, <2>1 DEF Answers
    <3> QED BY <3>1, <3>2
  <2>2. CASE phase'[p] = "done" /\ outcome'[p].value \in Payloads
    <3>1. Unfinished' = Unfinished \ {p}
      BY <1>1, <2>2, MoveSeen DEF Busy
    <3> QED BY <1>2, <2>2, <3>1
  <2> QED BY <2>1, <2>2
<1>4. \/ Window' = Window
      \/ /\ Cacheable(call[p])
         /\ \E v \in Payloads : Window' = Window \cup {<<KeyOf(call[p]), v>>}
  <2>1. CASE heard' = heard
    BY <2>1 DEF Window
  <2>2. ASSUME Cacheable(call[p]), NEW v \in Payloads,
               heard' = [heard EXCEPT ![<<KeyOf(call[p]), v>>] = 0]
        PROVE  Window' = Window \cup {<<KeyOf(call[p]), v>>}
    <3> DEFINE D == CacheKeys \X Payloads
               kv == <<KeyOf(call[p]), v>>
    <3>1. kv \in D /\ heard \in [D -> 0..TTL]
      BY <1>1, <2>2, ClientAssumption DEF ClientInv, IInv, ClientTypeOK
    <3>2. Window = {x \in D : heard[x] < TTL} /\ Window' = {x \in D : heard'[x] < TTL}
      BY DEF Window
    <3>3. heard' = [heard EXCEPT ![kv] = 0]
      BY <2>2
    <3> HIDE DEF D, kv
    <3>4. Window' = Window \cup {kv}
      BY <3>1, <3>2, <3>3, CacheAssumption
    <3> QED BY <3>4 DEF kv
  <2> QED BY <2>1, <2>2
<1>5. Promise!Close(p)
  BY <1>1, <1>2, <1>3, <1>4
     DEF Promise!Close, Promise!End, Unfinished, Answers, Sending, Window
<1> QED BY <1>5 DEF PromisedStep, Promise!PromiseNext

\* A call ends between two attempts, or at a poll.
LEMMA FinishPromised ==
    ASSUME ClientInv, NEW p \in Tasks, Busy(p), phase[p] # "sending",
           phase' = [phase EXCEPT ![p] = "done"],
           outcome' = [outcome EXCEPT ![p] = outcome'[p]], outcome'[p].value \in Payloads,
           UNCHANGED <<call, sent, heard>>
    PROVE  PromisedStep
<1>1. /\ phase \in [Tasks -> Phases] /\ DOMAIN outcome = Tasks
      /\ p \notin Sending /\ p \in Unfinished /\ phase'[p] = "done"
      /\ phase' = [phase EXCEPT ![p] = phase'[p]]
  BY DEF ClientInv, IInv, ClientTypeOK, Unfinished, Sending
<1>2. Sending' = Sending /\ Unfinished' = Unfinished \ {p} /\ Window' = Window
  <2>1. ~Busy(p)' /\ phase'[p] # "sending"
    BY <1>1 DEF Busy
  <2>2. Unfinished' = Unfinished \ {p} /\ Sending' = Sending \ {p}
    BY <1>1, <2>1, MoveSeen
  <2>3. Window' = Window
    BY DEF Window
  <2> QED BY <1>1, <2>2, <2>3
<1>3. Answers' = [Answers EXCEPT ![p] = outcome'[p].value]
  BY <1>1, OutcomeSeen
<1>4. Promise!Finish(p)
  BY <1>1, <1>2, <1>3
     DEF Promise!Finish, Promise!End, Unfinished, Answers, Sending, Window
<1> QED BY <1>4 DEF PromisedStep, Promise!PromiseNext

\* A step that the promise does not see.
LEMMA UnseenPromised ==
    ASSUME ClientInv, UNCHANGED <<call, outcome, sent, heard>>,
           \A q \in Tasks : /\ Busy(q)' <=> Busy(q)
                            /\ phase'[q] = "sending" <=> phase[q] = "sending"
    PROVE  PromisedStep
<1>1. Unfinished' = Unfinished /\ Sending' = Sending /\ Answers' = Answers /\ Window' = Window
  BY DEF Unfinished, Sending, Answers, Window
<1> QED BY <1>1 DEF PromisedStep, Promised

\* As entries age, payloads leave the window.
LEMMA TickPromised ==
    ASSUME ClientInv, Tick
    PROVE  PromisedStep
<1>1. /\ Unfinished' = Unfinished /\ Sending' = Sending /\ Answers' = Answers
      /\ UNCHANGED <<call, sent>>
  BY DEF Tick, Unfinished, Sending, Answers, Busy
<1>2. Window' \in SUBSET Window
  <2> DEFINE D == CacheKeys \X Payloads
  <2>1. heard \in [D -> 0..TTL] /\ TTL \in Nat
    BY CacheAssumption DEF ClientInv, IInv, ClientTypeOK
  <2>2. heard' = [kv \in D |-> IF heard[kv] < TTL THEN heard[kv] + 1 ELSE TTL]
    BY <2>1 DEF Tick
  <2>3. Window = {kv \in D : heard[kv] < TTL} /\ Window' = {kv \in D : heard'[kv] < TTL}
    BY DEF Window
  <2> HIDE DEF D
  <2> QED BY <2>1, <2>2, <2>3
<1>3. Promise!Fade
  BY <1>1, <1>2 DEF Promise!Fade, Unfinished, Answers, Sending, Window
<1> QED BY <1>3 DEF PromisedStep, Promise!PromiseNext

\* Every step of the client is one the promise allows, or none it sees.
LEMMA StepPromised ==
    ASSUME ClientInv, [Next]_vars
    PROVE  PromisedStep
<1>0. /\ phase \in [Tasks -> Phases] /\ call \in [Tasks -> Calls] /\ sent \in [Tasks -> Nat]
      /\ outcome \in [Tasks -> [kind : {"none", "ok", "error", "crashed", "cancelled"},
                                value : Payloads]]
      /\ \A p \in Tasks : Busy(p) => outcome[p] = NoOutcome
  BY DEF ClientInv, IInv, ClientTypeOK, ResultOK
<1>1. ASSUME NEW p \in Tasks, NEW c \in Calls, BeginHit(p, c) \/ BeginMiss(p, c)
      PROVE  PromisedStep
  BY <1>1, BeginHitPromised, BeginMissPromised
<1>2. ASSUME NEW p \in Tasks, Resume(p) PROVE PromisedStep
  <2>1. /\ phase' = [phase EXCEPT ![p] = phase'[p]] /\ phase'[p] = "sending"
        /\ sent' = [sent EXCEPT ![p] = sent[p] + 1]
        /\ phase[p] = "waiting" /\ p \in woken /\ UNCHANGED <<call, outcome, heard>>
    BY <1>0, <1>2 DEF Resume
  <2> QED BY <2>1, TryPromised
<1>3. ASSUME NEW p \in Tasks, Serve(p) PROVE PromisedStep
  BY <1>3, UnseenPromised DEF Serve, Busy
<1>4. ASSUME NEW p \in Tasks, ReceivePayload(p) PROVE PromisedStep
  <2>1. /\ phase[p] = "sending" /\ reply[p] \in Payloads
        /\ phase' = [phase EXCEPT ![p] = Delivered(call[p], reply[p])]
        /\ UNCHANGED <<call, sent>>
    BY <1>4 DEF ReceivePayload, EndAttempt
  <2>2. /\ phase' = [phase EXCEPT ![p] = phase'[p]]
        /\ outcome' = [outcome EXCEPT ![p] = outcome'[p]]
        /\ \/ phase'[p] = "polling" /\ outcome'[p].value = Null
           \/ phase'[p] = "done" /\ outcome'[p].value \in Payloads
    BY <1>0, <1>4, <2>1 DEF ReceivePayload, Settle, Delivered, Ok, NoOutcome
  <2>3. \/ heard' = heard
        \/ /\ Cacheable(call[p])
           /\ \E v \in Payloads : heard' = [heard EXCEPT ![<<KeyOf(call[p]), v>>] = 0]
    BY <1>4, <2>1 DEF ReceivePayload
  <2> QED BY <2>1, <2>2, <2>3, ClosePromised
<1>5. ASSUME NEW p \in Tasks,
             ReceiveEmpty(p) \/ ReceiveError(p) \/ ReceiveRetryable(p) \/ NetworkError(p)
      PROVE  PromisedStep
  <2>1. phase[p] = "sending" /\ UNCHANGED <<call, sent, heard>> /\ outcome[p] = NoOutcome
    BY <1>0, <1>5 DEF ReceiveEmpty, ReceiveError, ReceiveRetryable, NetworkError, Busy
  <2>2. /\ phase' = [phase EXCEPT ![p] = phase'[p]]
        /\ outcome' = [outcome EXCEPT ![p] = outcome'[p]]
        /\ \/ phase'[p] = "backoff" /\ outcome'[p].value = Null
           \/ phase'[p] = "done" /\ outcome'[p].value \in Payloads
    BY <1>0, <1>5, <2>1, CacheAssumption
       DEF ReceiveEmpty, ReceiveError, ReceiveRetryable, NetworkError, EndAttempt,
           Ok, Ended, NoOutcome
  <2> QED BY <2>1, <2>2, ClosePromised
<1>6. ASSUME NEW p \in Tasks, Wake(p) PROVE PromisedStep
  <2>1. phase[p] = "backoff" /\ UNCHANGED <<call, outcome, heard>> /\ StartAttempt(p, sent[p])
    BY <1>6 DEF Wake
  <2>2. CASE NoWait
    <3>1. /\ phase' = [phase EXCEPT ![p] = phase'[p]] /\ phase'[p] = "sending"
          /\ sent' = [sent EXCEPT ![p] = sent[p] + 1]
      BY <1>0, <2>1, <2>2 DEF StartAttempt
    <3> QED BY <2>1, <2>2, <3>1, TryPromised
  <2>3. CASE ~NoWait
    <3>1. phase' = [phase EXCEPT ![p] = "waiting"] /\ sent' = sent
      BY <1>0, <2>1, <2>3 DEF StartAttempt
    <3> QED BY <1>0, <2>1, <3>1, UnseenPromised DEF Busy
  <2> QED BY <2>2, <2>3
<1>7. ASSUME NEW p \in Tasks, PollPending(p) PROVE PromisedStep
  BY <1>0, <1>7, UnseenPromised DEF PollPending, Busy
<1>8. ASSUME NEW p \in Tasks, PollExpired(p) \/ PollAnswered(p) PROVE PromisedStep
  <2>1. /\ Busy(p) /\ phase[p] # "sending" /\ phase' = [phase EXCEPT ![p] = "done"]
        /\ UNCHANGED <<call, sent, heard>>
    BY <1>8 DEF PollExpired, PollAnswered, Busy
  <2>2. outcome' = [outcome EXCEPT ![p] = outcome'[p]] /\ outcome'[p].value \in Payloads
    BY <1>0, <1>8, CacheAssumption DEF PollExpired, PollAnswered, Ok, Ended
  <2> QED BY <2>1, <2>2, FinishPromised
<1>9. ASSUME NEW p \in Tasks, Cancel(p) PROVE PromisedStep
  <2>1. /\ phase[p] \in {"sending", "waiting", "backoff", "polling", "napping"}
        /\ phase' = [phase EXCEPT ![p] = "done"] /\ UNCHANGED <<call, sent, heard>>
        /\ outcome' = [outcome EXCEPT ![p] = outcome'[p]] /\ outcome'[p].value \in Payloads
        /\ phase' = [phase EXCEPT ![p] = phase'[p]] /\ phase'[p] = "done"
    BY <1>0, <1>9, CacheAssumption DEF Cancel, Ended
  <2>2. CASE phase[p] = "sending"
    BY <2>1, <2>2, ClosePromised
  <2>3. CASE phase[p] # "sending"
    BY <2>1, <2>3, FinishPromised DEF Busy
  <2> QED BY <2>2, <2>3
<1>10. CASE UNCHANGED vars
  BY <1>10, UnseenPromised DEF vars, Busy
<1> QED BY <1>1, <1>2, <1>3, <1>4, <1>5, <1>6, <1>7, <1>8, <1>9, <1>10, TickPromised
        DEF Next, TaskStep, AttemptEnds, PollEnds

\* The client implements the promise: every behaviour of its queue, retry loop,
\* cache and polls is one of FetchPromise, for any number of tasks, permits,
\* attempts and payloads (client.py:151-214, 328-377).
THEOREM ClientKeepsPromise == Spec => KeepsPromise
<1>1. PromisedStep <=> [Promise!PromiseNext]_(Promise!promiseVars)
  BY DEF PromisedStep, Promised, Promise!promiseVars, Unfinished, Answers, Sending, Window
<1>2. ClientInv /\ [Next]_vars => [Promise!PromiseNext]_(Promise!promiseVars)
  BY <1>1, StepPromised
<1> QED BY <1>2, InitPromised, ClientInvariant, PTL DEF Spec, KeepsPromise, Promise!PromiseSpec
================================================================================
