---------------------------- MODULE Gateway_proofs -----------------------------
(***************************************************************************)
(* Invariants of Gateway, for any number of requests, tenants, clients and *)
(* any size of the pool.                                                   *)
(***************************************************************************)
EXTENDS Gateway, OrderedDict_proofs, FiniteSetTheorems

Items == [key : Keys, client : Clients]

\* The pool and the clients requests have to close.
PoolOK ==
    /\ cache \in Seq(Items) /\ DistinctKeys(cache) /\ Len(cache) <= MaxClients
    /\ \A i \in DOMAIN cache : cache[i].key = ClientKey(cache[i].client.config)
    /\ open \in SUBSET Clients /\ retired \in SUBSET Clients /\ up \in BOOLEAN
    /\ CachedClients \subseteq open
    /\ open \subseteq CachedClients \cup retired \cup {evicted[r] : r \in Requests}
    /\ retired # {} => ~up /\ cache = <<>>
    /\ phase \in [Requests -> Phases]
    /\ evicted \in [Requests -> Clients \cup {NoClient}]
    /\ \A r \in Requests : /\ phase[r] = "evicting" <=> evicted[r] # NoClient
                           /\ evicted[r] \notin CachedClients

\* What a request acts with.
BindingOK ==
    /\ phase \in [Requests -> Phases]
    /\ cfg \in [Requests -> Configs]
    /\ bound \in [Requests -> Clients \cup {NoClient}]
    /\ \A r \in Requests : Active(r) => bound[r] \in Clients /\ bound[r].config = cfg[r]

-------------------------------------------------------------------------------
(* Keys and clients                                                        *)

\* The key of a client tells the configurations that headers can make apart.
LEMMA ClientKeyInjective ==
    ASSUME NEW c \in HeaderConfigs, NEW d \in HeaderConfigs, ClientKey(c) = ClientKey(d)
    PROVE  c = d
<1>1. PICK g \in Headers : c = FromHeaders(g)
  BY DEF HeaderConfigs
<1>2. PICK h \in Headers : d = FromHeaders(h)
  BY DEF HeaderConfigs
<1>3. /\ c.api_key = d.api_key /\ c.base_url = d.base_url
      /\ c.auth_user = d.auth_user /\ c.backends = d.backends
  BY DEF ClientKey
<1> QED BY <1>1, <1>2, <1>3 DEF FromHeaders

\* A new client has a fresh identity, so it is none that can be reached.
LEMMA NewClientIsNew ==
    ASSUME PoolOK, FreeIds # {}, NEW c \in HeaderConfigs
    PROVE  LET new == [id |-> CHOOSE i \in FreeIds : TRUE, config |-> c]
           IN  new \in Clients /\ new \notin Reachable
<1> DEFINE i == CHOOSE j \in FreeIds : TRUE
           new == [id |-> i, config |-> c]
<1>1. i \in FreeIds
  OBVIOUS
<1>2. i \in Ids /\ new \in Clients /\ new # NoClient
  BY <1>1, NoClientIsNone DEF FreeIds, Clients
<1>3. ASSUME new \in Reachable PROVE FALSE
  BY <1>1, <1>2, <1>3 DEF FreeIds
<1> QED BY <1>2, <1>3

\* Clients in the cache are determined by their keys, so no client is in it twice.
LEMMA CachedOnce ==
    ASSUME PoolOK, NEW i \in DOMAIN cache, NEW j \in DOMAIN cache,
           cache[i].client = cache[j].client
    PROVE  i = j
BY DEF PoolOK, DistinctKeys

\* The end of an attempt ends the call, or the tool goes on to its next request.
LEMMA AttemptOver ==
    ASSUME NEW r, SendOnClosed(r) \/ Reply(r) \/ Fail(r) \/ PollCrash(r)
    PROVE  /\ phase[r] \in {"calling", "sent"}
           /\ UNCHANGED <<server, poolVars, cfg, evicted, tool, changed>>
           /\ (\E how : Ends(r, how)) \/ (\E n : GoesOn(r, n))
<1>1. CASE SendOnClosed(r)
  BY <1>1 DEF SendOnClosed, CommandOver, Returns
<1>2. CASE Reply(r)
  BY <1>2 DEF Reply, CommandOver, Returns
<1>3. CASE Fail(r)
  BY <1>3 DEF Fail, CommandOver, Returns
<1>4. CASE PollCrash(r)
  BY <1>4 DEF PollCrash
<1> QED BY <1>1, <1>2, <1>3, <1>4

-------------------------------------------------------------------------------
(* Steps of the pool                                                       *)

\* A hit reorders the cache and opens nothing.
LEMMA HitKeepsPool ==
    ASSUME PoolOK, NEW r \in Requests, NEW h \in Headers, ArriveHit(r, h)
    PROVE  PoolOK'
<1> DEFINE k == ClientKey(FromHeaders(h))
<1>1. /\ cache' = MoveToEnd(cache, k) /\ k \in KeysOf(cache)
      /\ UNCHANGED <<open, evicted, retired, up>>
      /\ phase' = [phase EXCEPT ![r] = "bound"] /\ ~Active(r)
  BY DEF ArriveHit, Arrive, Used
<1>2. /\ cache' \in Seq(Items) /\ Len(cache') = Len(cache) /\ DistinctKeys(cache')
      /\ \A i \in DOMAIN cache' : \E j \in DOMAIN cache : cache'[i] = cache[j]
  BY <1>1, MoveToEndProperties DEF PoolOK
<1>3. \A j \in DOMAIN cache : \E i \in DOMAIN cache' : cache'[i] = cache[j]
  BY <1>1, MoveToEndKeeps DEF PoolOK
<1>4. CachedClients' = CachedClients
  BY <1>2, <1>3 DEF CachedClients
<1>5. \A i \in DOMAIN cache' : cache'[i].key = ClientKey(cache'[i].client.config)
  BY <1>2 DEF PoolOK
<1>6. cache # <<>>
  BY <1>1 DEF KeysOf
<1>7. phase' \in [Requests -> Phases]
  BY <1>1 DEF PoolOK, Phases
<1>8. \A q \in Requests : phase'[q] = "evicting" <=> evicted[q] # NoClient
  BY <1>1 DEF PoolOK, Active
<1> QED BY <1>1, <1>2, <1>4, <1>5, <1>6, <1>7, <1>8 DEF PoolOK

\* What is in the cache after a new client has been added.
LEMMA MissKeepsCache ==
    ASSUME PoolOK, NEW k \in Keys, k \notin KeysOf(cache),
           NEW new \in Clients, k = ClientKey(new.config),
           cache' = Append(IF Overflows THEN PopFirst(cache) ELSE cache,
                            [key |-> k, client |-> new])
    PROVE  /\ cache' \in Seq(Items) /\ DistinctKeys(cache') /\ Len(cache') <= MaxClients
           /\ \A i \in DOMAIN cache' : cache'[i].key = ClientKey(cache'[i].client.config)
           /\ CachedClients' =
                 (IF Overflows THEN CachedClients \ {Head(cache).client} ELSE CachedClients)
                     \cup {new}
<1> DEFINE e == [key |-> k, client |-> new]
           b == IF Overflows THEN PopFirst(cache) ELSE cache
<1>1. e \in Items /\ e.key = k /\ e.client = new
  BY DEF Items
<1>2. Len(cache) \in Nat /\ MaxClients \in Nat \ {0} /\ DOMAIN cache = 1..Len(cache)
  BY GatewayAssumption, LenProperties DEF PoolOK
<1>3. Overflows => cache # <<>>
  BY <1>2 DEF Overflows
<1>4. Overflows => /\ PopFirst(cache) \in Seq(Items) /\ Len(PopFirst(cache)) = Len(cache) - 1
                   /\ DistinctKeys(PopFirst(cache))
                   /\ \A i \in DOMAIN PopFirst(cache) :
                          \E j \in DOMAIN cache : PopFirst(cache)[i] = cache[j]
  BY <1>3, PopFirstProperties DEF PoolOK
<1>5. /\ b \in Seq(Items) /\ DistinctKeys(b) /\ Len(b) < MaxClients
      /\ \A i \in DOMAIN b : \E j \in DOMAIN cache : b[i] = cache[j]
  <2>1. CASE Overflows
    BY <2>1, <1>2, <1>4 DEF PoolOK
  <2>2. CASE ~Overflows
    BY <2>2, <1>2 DEF PoolOK, Overflows
  <2> QED BY <2>1, <2>2
<1>6. \A i \in DOMAIN b : b[i].key # e.key
  BY <1>1, <1>5 DEF KeysOf
<1>7. /\ Append(b, e) \in Seq(Items) /\ Len(Append(b, e)) = Len(b) + 1
      /\ DistinctKeys(Append(b, e))
      /\ \A i \in DOMAIN Append(b, e) :
             Append(b, e)[i] = e \/ \E j \in DOMAIN b : Append(b, e)[i] = b[j]
  <2> HIDE DEF b, e
  <2> QED BY <1>1, <1>5, <1>6, AppendNewKey
<1>8. /\ DOMAIN Append(b, e) = 1..(Len(b) + 1) /\ DOMAIN b = 1..Len(b) /\ Len(b) \in Nat
      /\ Append(b, e)[Len(b) + 1] = e /\ \A i \in 1..Len(b) : Append(b, e)[i] = b[i]
  BY <1>1, <1>5, AppendProperties, LenProperties
<1>9. {Append(b, e)[i].client : i \in DOMAIN Append(b, e)} = {b[i].client : i \in DOMAIN b} \cup {new}
  <2>1. Len(b) + 1 \in DOMAIN Append(b, e) /\ DOMAIN b \subseteq DOMAIN Append(b, e)
    BY <1>8
  <2>2. \A i \in DOMAIN b : Append(b, e)[i] = b[i]
    BY <1>8
  <2> HIDE DEF b, e
  <2> QED BY <1>1, <1>7, <1>8, <2>1, <2>2
<1>10. {b[i].client : i \in DOMAIN b} =
          IF Overflows THEN CachedClients \ {Head(cache).client} ELSE CachedClients
  <2>1. CASE ~Overflows
    BY <2>1 DEF CachedClients
  <2>2. CASE Overflows
    <3>1. b = PopFirst(cache)
      BY <2>2
    <3>2. \A j \in DOMAIN cache :
              cache[j] = Head(cache) \/ \E i \in DOMAIN b : b[i] = cache[j]
      BY <2>2, <3>1, <1>3, PopFirstKeeps DEF PoolOK
    <3>3. \A i \in DOMAIN b : i + 1 \in DOMAIN cache /\ b[i] = cache[i + 1] /\ i + 1 # 1
      BY <2>2, <3>1, <1>2, <1>3, <1>4, <1>8, HeadTailProperties DEF PoolOK, PopFirst
    <3>4. 1 \in DOMAIN cache /\ Head(cache) = cache[1]
      BY <1>2, <1>3, <2>2, HeadTailProperties DEF PoolOK, Overflows
    <3>5. \A i \in DOMAIN b : b[i].client # Head(cache).client
      BY <3>3, <3>4, CachedOnce
    <3> HIDE DEF b
    <3>6. {b[i].client : i \in DOMAIN b} = CachedClients \ {Head(cache).client}
      BY <3>2, <3>5, <1>5 DEF CachedClients
    <3> QED BY <3>6, <2>2
  <2> QED BY <2>1, <2>2
<1>11. \A i \in DOMAIN Append(b, e) :
           Append(b, e)[i].key = ClientKey(Append(b, e)[i].client.config)
  BY <1>1, <1>5, <1>7 DEF PoolOK
<1>12. cache' = Append(b, e)
  OBVIOUS
<1>13. Len(cache') <= MaxClients
  BY <1>2, <1>5, <1>7, <1>8, <1>12
<1>14. CachedClients' =
          (IF Overflows THEN CachedClients \ {Head(cache).client} ELSE CachedClients) \cup {new}
  <2>1. {cache'[i].client : i \in DOMAIN cache'} = {b[i].client : i \in DOMAIN b} \cup {new}
    BY <1>9, <1>12, Zenon
  <2>2. CachedClients' = {cache'[i].client : i \in DOMAIN cache'}
    BY DEF CachedClients
  <2> HIDE DEF b, e
  <2> QED BY <2>1, <2>2, <1>10
<1>15. \A i \in DOMAIN cache' : cache'[i].key = ClientKey(cache'[i].client.config)
  BY <1>11, <1>12, Zenon
<1>16. cache' \in Seq(Items) /\ DistinctKeys(cache')
  BY <1>7, <1>12, Zenon
<1> HIDE DEF b, e
<1> QED BY <1>13, <1>14, <1>15, <1>16

\* A miss opens one client, and the one it takes out of the cache is remembered
\* until the request has closed it.
LEMMA MissKeepsPool ==
    ASSUME PoolOK, NEW r \in Requests, NEW h \in Headers, ArriveMiss(r, h)
    PROVE  PoolOK'
<1> DEFINE c == FromHeaders(h)
           k == ClientKey(c)
           new == [id |-> CHOOSE i \in FreeIds : TRUE, config |-> c]
           old == Head(cache).client
<1>1. /\ k \notin KeysOf(cache) /\ FreeIds # {} /\ up /\ ~Active(r)
      /\ cache' = Append(IF Overflows THEN PopFirst(cache) ELSE cache,
                         [key |-> k, client |-> new])
      /\ open' = open \cup {new} /\ UNCHANGED <<retired, up>>
      /\ evicted' = [evicted EXCEPT ![r] = IF Overflows THEN old ELSE NoClient]
      /\ phase' = [phase EXCEPT ![r] = IF Overflows THEN "evicting" ELSE "bound"]
  BY DEF ArriveMiss, Arrive
<1>2. c \in HeaderConfigs /\ k \in Keys
  BY DEF HeaderConfigs, Configs, Keys
<1>3. new \in Clients /\ new \notin Reachable
  BY <1>1, <1>2, NewClientIsNew
<1>4. new.config = c
  OBVIOUS
<1> HIDE DEF new, k, c
<1>5. /\ cache' \in Seq(Items) /\ DistinctKeys(cache') /\ Len(cache') <= MaxClients
      /\ \A i \in DOMAIN cache' : cache'[i].key = ClientKey(cache'[i].client.config)
      /\ CachedClients' =
            (IF Overflows THEN CachedClients \ {old} ELSE CachedClients) \cup {new}
  <2>1. k = ClientKey(new.config)
    BY <1>4 DEF k
  <2> QED BY <1>1, <1>2, <1>3, <2>1, MissKeepsCache
<1>6. Overflows => old \in CachedClients /\ old \in Clients
  <2>1. Overflows => cache # <<>>
    BY GatewayAssumption DEF Overflows, PoolOK
  <2>2. Overflows => 1 \in DOMAIN cache /\ Head(cache) = cache[1]
    BY <2>1, HeadTailProperties, LenProperties DEF PoolOK
  <2> QED BY <2>2, ElementOfSeq DEF PoolOK, CachedClients, Items
<1>7. new \notin CachedClients /\ \A q \in Requests : evicted[q] # new
  BY <1>3 DEF Reachable
<1>8. Overflows => old # NoClient
  BY <1>1, <1>6, NoClientIsNone DEF PoolOK, Active
<1>9. evicted[r] = NoClient
  BY <1>1 DEF PoolOK, Active
<1>10. retired = {}
  BY <1>1 DEF PoolOK
<1>11. phase' \in [Requests -> Phases] /\ evicted' \in [Requests -> Clients \cup {NoClient}]
  BY <1>1, <1>6 DEF PoolOK, Phases
<1>12. NoClient \notin CachedClients /\ NoClient # new
  <2>1. CachedClients \subseteq Clients
    BY DEF PoolOK
  <2> QED BY <2>1, <1>3, NoClientIsNone
<1>13. ASSUME NEW q \in Requests
       PROVE  /\ phase'[q] = "evicting" <=> evicted'[q] # NoClient
              /\ evicted'[q] \notin CachedClients'
  <2>1. CASE q # r
    BY <2>1, <1>1, <1>5, <1>7, <1>11 DEF PoolOK
  <2>2. CASE q = r /\ Overflows
    <3>1. evicted'[q] = old /\ phase'[q] = "evicting" /\ old # NoClient /\ old # new
      BY <2>2, <1>1, <1>6, <1>7, <1>8 DEF PoolOK
    <3> QED BY <3>1, <2>2, <1>5
  <2>3. CASE q = r /\ ~Overflows
    BY <2>3, <1>1, <1>5, <1>12 DEF PoolOK
  <2> QED BY <2>1, <2>2, <2>3
<1>14. CachedClients' \subseteq open'
  BY <1>1, <1>5, <1>10 DEF PoolOK
<1>15. open' \subseteq CachedClients' \cup retired' \cup {evicted'[q] : q \in Requests}
  <2>1. ASSUME NEW x \in open' PROVE x \in CachedClients' \/ \E q \in Requests : x = evicted'[q]
    <3>1. CASE x = new
      BY <3>1, <1>5
    <3>2. CASE x \in CachedClients
      <4>1. CASE Overflows /\ x = old
        BY <4>1, <1>1 DEF PoolOK
      <4>2. CASE ~(Overflows /\ x = old)
        BY <3>2, <4>2, <1>5
      <4> QED BY <4>1, <4>2
    <3>3. CASE x # new /\ x \notin CachedClients
      <4>1. PICK q \in Requests : x = evicted[q]
        BY <3>3, <1>1, <1>10 DEF PoolOK
      <4>2. x # NoClient
        BY <3>3, <1>1, NoClientIsNone DEF PoolOK
      <4>3. evicted'[q] = x
        BY <4>1, <4>2, <1>1, <1>9 DEF PoolOK
      <4> QED BY <4>3
    <3> QED BY <3>1, <3>2, <3>3
  <2> QED BY <2>1
<1>16. open' \in SUBSET Clients /\ retired' = {} /\ up' \in BOOLEAN
  BY <1>1, <1>3, <1>10 DEF PoolOK
<1> QED BY <1>5, <1>11, <1>13, <1>14, <1>15, <1>16 DEF PoolOK

\* The client that is closed is no longer in the cache.
LEMMA CloseEvictedKeepsPool ==
    ASSUME PoolOK, NEW r \in Requests, CloseEvicted(r)
    PROVE  PoolOK'
<1>1. /\ phase[r] = "evicting" /\ UNCHANGED <<cache, retired, up>>
      /\ open' = open \ {evicted[r]}
      /\ evicted' = [evicted EXCEPT ![r] = NoClient]
      /\ phase' = [phase EXCEPT ![r] = "bound"]
  BY DEF CloseEvicted
<1>2. CachedClients' = CachedClients /\ CachedClients \subseteq Clients
  BY <1>1 DEF CachedClients, PoolOK
<1>3. NoClient \notin CachedClients
  BY <1>2, NoClientIsNone
<1>4. open' \subseteq CachedClients' \cup retired' \cup {evicted'[q] : q \in Requests}
  BY <1>1, <1>2 DEF PoolOK
<1>5. phase' \in [Requests -> Phases] /\ evicted' \in [Requests -> Clients \cup {NoClient}]
  BY <1>1 DEF PoolOK, Phases
<1>6. \A q \in Requests : /\ phase'[q] = "evicting" <=> evicted'[q] # NoClient
                          /\ evicted'[q] \notin CachedClients'
  BY <1>1, <1>2, <1>3 DEF PoolOK
<1> QED BY <1>1, <1>2, <1>4, <1>5, <1>6 DEF PoolOK

\* Refusing new requests touches no client.
LEMMA StopKeepsPool ==
    ASSUME PoolOK, StopAccepting
    PROVE  PoolOK'
BY DEF PoolOK, StopAccepting, CachedClients

\* What aclose_all() takes out of the cache it remembers until it is closed.
LEMMA RetireAllKeepsPool ==
    ASSUME PoolOK, RetireAll
    PROVE  PoolOK'
<1>1. /\ ~up /\ cache' = <<>> /\ retired' = CachedClients
      /\ UNCHANGED <<open, up, phase, evicted>>
  BY DEF RetireAll
<1>2. CachedClients' = {} /\ CachedClients \subseteq Clients
  BY <1>1 DEF CachedClients, PoolOK
<1>3. cache' \in Seq(Items) /\ Len(cache') = 0 /\ DistinctKeys(cache') /\ DOMAIN cache' = {}
  BY <1>1, EmptySeq DEF DistinctKeys
<1>4. retired = {}
  BY DEF RetireAll, PoolOK
<1>5. Len(cache') <= MaxClients
  BY <1>3, GatewayAssumption
<1> QED BY <1>1, <1>2, <1>3, <1>4, <1>5 DEF PoolOK

\* The cache is empty while retired clients are closed.
LEMMA CloseRetiredKeepsPool ==
    ASSUME PoolOK, NEW c \in Clients, CloseRetired(c)
    PROVE  PoolOK'
<1>1. /\ c \in retired /\ retired' = retired \ {c} /\ open' = open \ {c}
      /\ UNCHANGED <<cache, up, phase, evicted>>
  BY DEF CloseRetired
<1>2. cache = <<>> /\ ~up
  BY <1>1 DEF PoolOK
<1>3. CachedClients = {} /\ CachedClients' = {}
  BY <1>1, <1>2 DEF CachedClients
<1> QED BY <1>1, <1>2, <1>3 DEF PoolOK

\* A step of a request that leaves the pool alone.
LEMMA PoolUntouched ==
    ASSUME PoolOK, UNCHANGED <<poolVars, evicted>>, phase' \in [Requests -> Phases],
           \A q \in Requests : phase'[q] = "evicting" <=> phase[q] = "evicting"
    PROVE  PoolOK'
BY DEF PoolOK, poolVars, CachedClients

\* Every step of the system keeps the pool's invariant.
LEMMA StepKeepsPool ==
    ASSUME PoolOK, [Next]_vars
    PROVE  PoolOK'
<1>1. CASE UNCHANGED vars
  BY <1>1 DEF vars, poolVars, PoolOK, CachedClients
<1>2. ASSUME NEW r \in Requests, RequestStep(r) PROVE PoolOK'
  <2>1. CASE Reject(r)
    <3>1. phase' \in [Requests -> Phases]
      BY <2>1 DEF Reject, PoolOK, Phases
    <3> QED BY <2>1, <3>1, PoolUntouched DEF Reject, PoolOK, Active
  <2>2. ASSUME NEW h \in Headers, ArriveHit(r, h) PROVE PoolOK'
    BY <2>2, HitKeepsPool
  <2>3. ASSUME NEW h \in Headers, ArriveMiss(r, h) PROVE PoolOK'
    BY <2>3, MissKeepsPool
  <2>4. CASE CloseEvicted(r)
    BY <2>4, CloseEvictedKeepsPool
  <2>5. ASSUME NEW c \in ToolCalls,
               CallDisabled(r, c) \/ CallMismatched(r, c) \/ CallBlocked(r, c) \/ CallRuns(r, c)
        PROVE  PoolOK'
    <3>1. /\ UNCHANGED <<poolVars, evicted>> /\ phase[r] = "bound"
          /\ phase' = [phase EXCEPT ![r] = "done"] \/ phase' = [phase EXCEPT ![r] = "calling"]
      BY <2>5 DEF CallDisabled, CallMismatched, CallBlocked, CallRuns, Calls, Ends
    <3>2. phase' \in [Requests -> Phases]
      BY <3>1 DEF PoolOK, Phases
    <3> QED BY <3>1, <3>2, PoolUntouched DEF PoolOK
  <2>6. ASSUME Send(r) \/ SendOnClosed(r) \/ Perform(r) \/ AttemptEnds(r)
        PROVE  PoolOK'
    <3>1. /\ UNCHANGED <<poolVars, evicted>> /\ phase[r] \in {"calling", "sent"}
          /\ \/ phase' = phase
             \/ phase' = [phase EXCEPT ![r] = "sent"]
             \/ phase' = [phase EXCEPT ![r] = "done"]
             \/ phase' = [phase EXCEPT ![r] = "calling"]
      <4>1. CASE Send(r) \/ Perform(r) \/ Retry(r)
        BY <4>1 DEF Send, Perform, Retry
      <4>2. CASE SendOnClosed(r) \/ Reply(r) \/ Fail(r) \/ PollCrash(r)
        BY <4>2, AttemptOver DEF Ends, GoesOn
      <4> QED BY <2>6, <4>1, <4>2 DEF AttemptEnds
    <3>2. phase' \in [Requests -> Phases]
      BY <3>1 DEF PoolOK, Phases
    <3> QED BY <3>1, <3>2, PoolUntouched DEF PoolOK
  <2> QED BY <1>2, <2>1, <2>2, <2>3, <2>4, <2>5, <2>6 DEF RequestStep, Advance, Dispatch
<1> QED
  BY <1>1, <1>2, StopKeepsPool, RetireAllKeepsPool, CloseRetiredKeepsPool DEF Next

-------------------------------------------------------------------------------
(* Steps of the requests                                                   *)

\* A step that changes no binding of a request that stays active.
LEMMA BindingUntouched ==
    ASSUME BindingOK, cfg' = cfg, phase' \in [Requests -> Phases],
           bound' \in [Requests -> Clients \cup {NoClient}],
           \A q \in Requests : Active(q)' => Active(q) /\ bound'[q] = bound[q]
    PROVE  BindingOK'
BY DEF BindingOK

\* A request that arrives is bound to a client of its own headers.
LEMMA ArrivalIsBound ==
    ASSUME PoolOK, BindingOK, NEW r \in Requests, NEW h \in Headers,
           ArriveHit(r, h) \/ ArriveMiss(r, h)
    PROVE  BindingOK'
<1> DEFINE c == FromHeaders(h)
           k == ClientKey(c)
           new == [id |-> CHOOSE i \in FreeIds : TRUE, config |-> c]
<1>1. cfg' = [cfg EXCEPT ![r] = c] /\ c \in HeaderConfigs /\ c \in Configs
  BY DEF ArriveHit, ArriveMiss, Arrive, HeaderConfigs, Configs
<1>2. phase' \in [Requests -> Phases] /\ \A q \in Requests \ {r} : phase'[q] = phase[q]
  <2>1. PICK x \in {"evicting", "bound"} : phase' = [phase EXCEPT ![r] = x]
    BY DEF ArriveHit, ArriveMiss
  <2> QED BY <2>1 DEF BindingOK, Phases
<1>3. PICK x \in Clients : bound' = [bound EXCEPT ![r] = x] /\ x.config = c
  <2>1. CASE ArriveHit(r, h)
    <3>1. bound' = [bound EXCEPT ![r] = Lookup(cache, k).client] /\ k \in KeysOf(cache)
      BY <2>1 DEF ArriveHit
    <3>2. PICK i \in DOMAIN cache : Lookup(cache, k) = cache[i] /\ cache[i].key = k
      BY <3>1, IndexOfProperties DEF Lookup
    <3>3. cache[i] \in Items
      BY ElementOfSeq DEF PoolOK
    <3>4. cache[i].client \in Clients /\ cache[i].client.config \in HeaderConfigs
      BY <3>3 DEF Items, Clients
    <3>5. ClientKey(cache[i].client.config) = ClientKey(c)
      BY <3>2 DEF PoolOK
    <3>6. cache[i].client.config = c
      BY <3>4, <3>5, <1>1, ClientKeyInjective
    <3> QED BY <3>1, <3>2, <3>4, <3>6
  <2>2. CASE ArriveMiss(r, h)
    <3>1. bound' = [bound EXCEPT ![r] = new] /\ FreeIds # {}
      BY <2>2 DEF ArriveMiss
    <3>2. new \in Clients
      BY <3>1, <1>1, NewClientIsNew
    <3>3. new.config = c
      OBVIOUS
    <3> QED BY <3>1, <3>2, <3>3
  <2> QED BY <2>1, <2>2
<1> HIDE DEF c, k, new
<1>4. cfg' \in [Requests -> Configs] /\ bound' \in [Requests -> Clients \cup {NoClient}]
  BY <1>1, <1>3 DEF BindingOK
<1>5. ASSUME NEW q \in Requests, Active(q)'
      PROVE  bound'[q] \in Clients /\ bound'[q].config = cfg'[q]
  <2>1. CASE q = r
    BY <2>1, <1>1, <1>3 DEF BindingOK
  <2>2. CASE q # r
    <3>1. Active(q) /\ bound'[q] = bound[q] /\ cfg'[q] = cfg[q]
      BY <2>2, <1>1, <1>2, <1>3, <1>5 DEF Active, BindingOK
    <3> QED BY <3>1 DEF BindingOK
  <2> QED BY <2>1, <2>2
<1> QED BY <1>2, <1>4, <1>5 DEF BindingOK

\* Every step keeps each active request bound to a client of its own headers.
LEMMA StepKeepsBinding ==
    ASSUME PoolOK, BindingOK, [Next]_vars
    PROVE  BindingOK'
<1>1. ASSUME UNCHANGED <<phase, cfg, bound>> PROVE BindingOK'
  BY <1>1 DEF BindingOK, Active
<1>2. ASSUME NEW r \in Requests, NEW x \in Phases, phase' = [phase EXCEPT ![r] = x],
             Active(r), cfg' = cfg, bound' = bound
      PROVE  BindingOK'
  <2>1. phase' \in [Requests -> Phases] /\ bound' \in [Requests -> Clients \cup {NoClient}]
    BY <1>2 DEF BindingOK
  <2>2. \A q \in Requests : Active(q)' => Active(q) /\ bound'[q] = bound[q]
    BY <1>2, <2>1 DEF BindingOK, Active
  <2> QED BY <1>2, <2>1, <2>2, BindingUntouched
<1>3. ASSUME NEW r \in Requests, phase' = [phase EXCEPT ![r] = "done"], cfg' = cfg,
             bound' = bound \/ bound' = [bound EXCEPT ![r] = NoClient]
      PROVE  BindingOK'
  <2>1. phase' \in [Requests -> Phases] /\ bound' \in [Requests -> Clients \cup {NoClient}]
    BY <1>3 DEF BindingOK, Phases
  <2>2. \A q \in Requests : Active(q)' => Active(q) /\ bound'[q] = bound[q]
    BY <1>3, <2>1 DEF BindingOK, Active
  <2> QED BY <1>3, <2>1, <2>2, BindingUntouched
<1>4. ASSUME NEW r \in Requests, RequestStep(r) PROVE BindingOK'
  <2>1. CASE Reject(r)
    <3>1. phase' = [phase EXCEPT ![r] = "done"] /\ cfg' = cfg /\ bound' = bound
      BY <2>1 DEF Reject
    <3> QED BY <3>1, <1>3
  <2>2. CASE \E h \in Headers : ArriveHit(r, h) \/ ArriveMiss(r, h)
    BY <2>2, ArrivalIsBound
  <2>3. CASE CloseEvicted(r)
    <3>1. phase' = [phase EXCEPT ![r] = "bound"] /\ cfg' = cfg /\ bound' = bound /\ Active(r)
      BY <2>3 DEF CloseEvicted, Active
    <3>2. "bound" \in Phases /\ "calling" \in Phases
      BY DEF Phases
    <3> QED BY <3>1, <3>2, <1>2
  <2>4. ASSUME NEW c \in ToolCalls,
               CallDisabled(r, c) \/ CallMismatched(r, c) \/ CallBlocked(r, c)
        PROVE  BindingOK'
    <3>1. /\ phase' = [phase EXCEPT ![r] = "done"] /\ cfg' = cfg
          /\ bound' = [bound EXCEPT ![r] = NoClient]
      BY <2>4 DEF CallDisabled, CallMismatched, CallBlocked, Calls, Ends
    <3> QED BY <3>1, <1>3
  <2>5. ASSUME NEW c \in ToolCalls, CallRuns(r, c) PROVE BindingOK'
    <3>1. phase' = [phase EXCEPT ![r] = "calling"] /\ cfg' = cfg /\ bound' = bound /\ Active(r)
      BY <2>5 DEF CallRuns, Calls, Active
    <3>2. "bound" \in Phases /\ "calling" \in Phases
      BY DEF Phases
    <3> QED BY <3>1, <3>2, <1>2
  <2>6. CASE Send(r) \/ Retry(r)
    <3>1. PICK x \in {"sent", "calling"} : phase' = [phase EXCEPT ![r] = x]
      BY <2>6 DEF Send, Retry
    <3>2. x \in Phases
      BY DEF Phases
    <3>3. cfg' = cfg /\ bound' = bound /\ Active(r)
      BY <2>6 DEF Send, Retry, Active
    <3> QED BY <3>1, <3>2, <3>3, <1>2
  <2>7. CASE SendOnClosed(r) \/ Reply(r) \/ Fail(r) \/ PollCrash(r)
    <3>1. cfg' = cfg /\ Active(r)
      BY <2>7, AttemptOver DEF Active
    <3>2. ASSUME NEW how, Ends(r, how) PROVE BindingOK'
      BY <3>1, <3>2, <1>3 DEF Ends
    <3>3. ASSUME NEW n, GoesOn(r, n) PROVE BindingOK'
      <4>1. phase' = [phase EXCEPT ![r] = "calling"] /\ bound' = bound /\ "calling" \in Phases
        BY <3>3 DEF GoesOn, Phases
      <4> QED BY <3>1, <4>1, <1>2
    <3> QED BY <2>7, <3>2, <3>3, AttemptOver
  <2>8. CASE Perform(r)
    BY <2>8, <1>1 DEF Perform
  <2> QED
    BY <1>4, <2>1, <2>2, <2>3, <2>4, <2>5, <2>6, <2>7, <2>8
       DEF RequestStep, Advance, Dispatch, AttemptEnds
<1> QED
  BY <1>1, <1>4 DEF Next, vars, StopAccepting, RetireAll, CloseRetired

-------------------------------------------------------------------------------
(* Steps of the tool calls                                                 *)

Outcomes == {"none", "rejected", "raised", "returned", "crashed"}
AuditLines == [user : {c.auth_user : c \in Configs}, status : {"ok", "error"}]

CallTypes ==
    /\ server \in Knobs
    /\ phase \in [Requests -> Phases]
    /\ tool \in [Requests -> ToolCalls]
    /\ left \in [Requests -> Opening..MaxTargets]
    /\ attempt \in [Requests -> 0..MaxRetries]
    /\ performed \in [Requests -> BOOLEAN]
    /\ changed \in [Requests -> BOOLEAN]
    /\ outcome \in [Requests -> Outcomes]

\* A request has changed nothing before its call runs, and in read-only mode it
\* goes on to the client only with a call that changes nothing.
RequestOK(r) ==
    /\ phase[r] \notin {"calling", "sent"} => attempt[r] = 0 /\ performed[r] = FALSE
    /\ phase[r] \in {"calling", "sent"} => left[r] # 0
    /\ phase[r] \in {"evicting", "bound"} => changed[r] = FALSE
    /\ phase[r] = "calling" => performed[r] = FALSE
    /\ server.read_only =>
           changed[r] = FALSE /\ (phase[r] \in {"calling", "sent"} => ~IsChange(tool[r]))

CallOK == CallTypes /\ \A r \in Requests : RequestOK(r)

\* Where a call can stand.
LEMMA Stages ==
    /\ Opening \in Opening..MaxTargets /\ Collecting \in Opening..MaxTargets
    /\ 0 \in Opening..MaxTargets /\ Opening # 0 /\ Collecting # 0
    /\ \A n \in 1..MaxTargets : n \in Opening..MaxTargets /\ n # 0
    /\ \A n \in Opening..MaxTargets : n > 1 => n - 1 \in 1..MaxTargets
    /\ \A c \in ToolCalls : FirstLeft(c) \in Opening..MaxTargets /\ FirstLeft(c) # 0
BY GatewayAssumption DEF Opening, Collecting, FirstLeft

\* Of a request that does not move nothing changes.
LEMMA OthersKeepCall ==
    ASSUME CallOK, NEW r \in Requests, server' = server, CallTypes', RequestOK(r)',
           \A q \in Requests \ {r} :
               /\ phase'[q] = phase[q] /\ tool'[q] = tool[q] /\ attempt'[q] = attempt[q]
               /\ left'[q] = left[q]
               /\ performed'[q] = performed[q] /\ changed'[q] = changed[q]
    PROVE  CallOK'
<1>1. ASSUME NEW q \in Requests, q # r PROVE RequestOK(q)'
  BY <1>1 DEF CallOK, RequestOK, IsChange
<1> QED BY <1>1 DEF CallOK

\* A request that ends keeps what it has done.
LEMMA EndingKeepsCall ==
    ASSUME CallOK, NEW r \in Requests, NEW how \in Outcomes, Active(r), Ends(r, how),
           server' = server, changed' = changed, tool' \in [Requests -> ToolCalls],
           \A q \in Requests \ {r} : tool'[q] = tool[q]
    PROVE  CallOK'
<1>1. /\ phase' = [phase EXCEPT ![r] = "done"] /\ outcome' = [outcome EXCEPT ![r] = how]
      /\ attempt' = [attempt EXCEPT ![r] = 0] /\ performed' = [performed EXCEPT ![r] = FALSE]
      /\ left' = [left EXCEPT ![r] = 0]
  BY DEF Ends
<1>2. CallTypes'
  BY <1>1, Stages, GatewayAssumption DEF CallOK, CallTypes, Phases
<1>3. RequestOK(r)'
  BY <1>1, <1>2 DEF CallOK, CallTypes, RequestOK
<1> QED BY <1>1, <1>2, <1>3, OthersKeepCall DEF CallOK, CallTypes

\* A request that goes on to the next request of its call keeps what it has done.
LEMMA GoingOnKeepsCall ==
    ASSUME CallOK, NEW r \in Requests, NEW n \in Opening..MaxTargets, n # 0,
           phase[r] \in {"calling", "sent"}, GoesOn(r, n),
           UNCHANGED <<server, tool, changed>>
    PROVE  CallOK'
<1>1. /\ phase' = [phase EXCEPT ![r] = "calling"] /\ outcome' = outcome
      /\ attempt' = [attempt EXCEPT ![r] = 0] /\ performed' = [performed EXCEPT ![r] = FALSE]
      /\ left' = [left EXCEPT ![r] = n]
  BY DEF GoesOn
<1>2. CallTypes'
  BY <1>1, GatewayAssumption DEF CallOK, CallTypes, Phases
<1>3. RequestOK(r)'
  BY <1>1, <1>2 DEF CallOK, CallTypes, RequestOK, IsChange
<1> QED BY <1>1, <1>2, <1>3, OthersKeepCall DEF CallOK, CallTypes

\* How a call goes on when an attempt is over.
LEMMA NextRequest ==
    ASSUME CallOK, NEW r \in Requests,
           SendOnClosed(r) \/ Reply(r) \/ Fail(r) \/ PollCrash(r)
    PROVE  \/ \E how \in Outcomes : Ends(r, how)
           \/ \E n \in Opening..MaxTargets : n # 0 /\ GoesOn(r, n)
<1>1. left[r] \in Opening..MaxTargets
  BY DEF CallOK, CallTypes
<1>2. ASSUME CommandOver(r)
      PROVE  \/ Ends(r, "returned")
             \/ \E n \in Opening..MaxTargets : n # 0 /\ GoesOn(r, n)
  <2>1. CASE left[r] = 1 /\ Returns(r, "ok")
    BY <2>1 DEF Returns
  <2>2. CASE left[r] > 1 /\ GoesOn(r, left[r] - 1)
    <3>1. left[r] - 1 \in 1..MaxTargets
      BY <1>1, <2>2, Stages
    <3> QED BY <2>2, <3>1, Stages
  <2> QED BY <1>2, <2>1, <2>2 DEF CommandOver
<1>3. CASE SendOnClosed(r)
  BY <1>2, <1>3 DEF SendOnClosed, Outcomes
<1>4. CASE Reply(r)
  BY <1>2, <1>4, Stages DEF Reply, Returns, Outcomes
<1>5. CASE Fail(r)
  BY <1>2, <1>5 DEF Fail, Returns, Outcomes
<1>6. CASE PollCrash(r)
  BY <1>6 DEF PollCrash, Outcomes
<1> QED BY <1>3, <1>4, <1>5, <1>6

\* The call that goes on to the client changes nothing in read-only mode.
LEMMA ReadOnlyCallsRead ==
    ASSUME NEW c \in ToolCalls, server.read_only, Enabled(c), ~Blocked(c)
    PROVE  ~IsChange(c)
BY ReadToolsRead DEF Enabled, Blocked, RegisteredTools, WriteTools

\* Every step of a request keeps the state of its call.
LEMMA StepKeepsCall ==
    ASSUME CallOK, [Next]_vars
    PROVE  CallOK'
<1>1. ASSUME UNCHANGED <<server, phase, tool, left, attempt, performed, changed, outcome>>
      PROVE  CallOK'
  BY <1>1 DEF CallOK, CallTypes, RequestOK, IsChange
<1>2. ASSUME NEW r \in Requests, RequestStep(r) PROVE CallOK'
  <2>1. CASE Reject(r)
    <3>1. /\ UNCHANGED <<server, left, attempt, performed>>
          /\ phase' = [phase EXCEPT ![r] = "done"] /\ phase[r] \notin {"calling", "sent"}
          /\ outcome' = [outcome EXCEPT ![r] = "rejected"]
          /\ tool' = [tool EXCEPT ![r] = AnyCall] /\ changed' = [changed EXCEPT ![r] = FALSE]
      BY <2>1 DEF Reject, NewRequest, Active, CallOK, CallTypes, Phases
    <3>2. AnyCall \in ToolCalls
      BY GatewayAssumption DEF AnyCall
    <3>3. CallTypes'
      BY <3>1, <3>2 DEF CallOK, CallTypes, Phases, Outcomes
    <3>4. RequestOK(r)'
      BY <3>1 DEF CallOK, CallTypes, RequestOK
    <3> QED BY <3>1, <3>3, <3>4, OthersKeepCall DEF CallOK, CallTypes
  <2>2. ASSUME NEW h \in Headers, ArriveHit(r, h) \/ ArriveMiss(r, h) PROVE CallOK'
    <3>1. /\ phase[r] \notin {"calling", "sent"} /\ UNCHANGED <<server, left, attempt, performed>>
          /\ tool' = [tool EXCEPT ![r] = AnyCall]
          /\ changed' = [changed EXCEPT ![r] = FALSE]
          /\ outcome' = [outcome EXCEPT ![r] = "none"]
      BY <2>2 DEF ArriveHit, ArriveMiss, Arrive, NewRequest, Active
    <3>2. PICK x \in {"evicting", "bound"} : phase' = [phase EXCEPT ![r] = x]
      BY <2>2 DEF ArriveHit, ArriveMiss
    <3>3. AnyCall \in ToolCalls
      BY GatewayAssumption DEF AnyCall
    <3>4. CallTypes'
      BY <3>1, <3>2, <3>3 DEF CallOK, CallTypes, Phases, Outcomes
    <3>5. RequestOK(r)'
      BY <3>1, <3>2, <3>4 DEF CallOK, CallTypes, RequestOK
    <3> QED BY <3>1, <3>2, <3>4, <3>5, OthersKeepCall DEF CallOK, CallTypes
  <2>3. CASE CloseEvicted(r)
    <3>1. /\ phase[r] = "evicting" /\ phase' = [phase EXCEPT ![r] = "bound"]
          /\ UNCHANGED <<server, tool, left, attempt, performed, changed, outcome>>
      BY <2>3 DEF CloseEvicted, callVars
    <3>2. CallTypes'
      BY <3>1 DEF CallOK, CallTypes, Phases
    <3>3. RequestOK(r)'
      BY <3>1 DEF CallOK, CallTypes, RequestOK
    <3> QED BY <3>1, <3>2, <3>3, OthersKeepCall DEF CallOK, CallTypes
  <2>4. ASSUME NEW c \in ToolCalls,
               CallDisabled(r, c) \/ CallMismatched(r, c) \/ CallBlocked(r, c)
        PROVE  CallOK'
    <3>1. PICK how \in Outcomes : Ends(r, how)
      BY <2>4 DEF CallDisabled, CallMismatched, CallBlocked, Outcomes
    <3>2. /\ Active(r) /\ server' = server /\ changed' = changed
          /\ tool' = [tool EXCEPT ![r] = c]
      BY <2>4 DEF CallDisabled, CallMismatched, CallBlocked, Calls, Active
    <3> QED BY <3>1, <3>2, EndingKeepsCall DEF CallOK, CallTypes
  <2>5. ASSUME NEW c \in ToolCalls, CallRuns(r, c) PROVE CallOK'
    <3>1. /\ phase[r] = "bound" /\ phase' = [phase EXCEPT ![r] = "calling"]
          /\ tool' = [tool EXCEPT ![r] = c] /\ left' = [left EXCEPT ![r] = FirstLeft(c)]
          /\ UNCHANGED <<server, attempt, performed, changed, outcome>>
          /\ Enabled(c) /\ ~Blocked(c)
      BY <2>5 DEF CallRuns, Calls
    <3>2. CallTypes'
      BY <3>1, Stages DEF CallOK, CallTypes, Phases
    <3>3. /\ tool'[r] = c /\ (server.read_only => ~IsChange(c))
          /\ left'[r] # 0
      BY <3>1, Stages, ReadOnlyCallsRead DEF CallOK, CallTypes
    <3>4. RequestOK(r)'
      BY <3>1, <3>3 DEF CallOK, CallTypes, RequestOK, IsChange
    <3> QED BY <3>1, <3>2, <3>4, OthersKeepCall DEF CallOK, CallTypes
  <2>6. CASE Send(r)
    <3>1. /\ phase[r] = "calling" /\ phase' = [phase EXCEPT ![r] = "sent"]
          /\ UNCHANGED <<server, tool, left, attempt, performed, changed, outcome>>
      BY <2>6 DEF Send, callVars
    <3>2. CallTypes'
      BY <3>1 DEF CallOK, CallTypes, Phases
    <3>3. RequestOK(r)'
      BY <3>1 DEF CallOK, CallTypes, RequestOK, IsChange
    <3> QED BY <3>1, <3>2, <3>3, OthersKeepCall DEF CallOK, CallTypes
  <2>7. CASE Perform(r)
    <3>1. /\ phase[r] = "sent" /\ performed' = [performed EXCEPT ![r] = TRUE]
          /\ changed' = [changed EXCEPT ![r] =
                             @ \/ (IsChange(tool[r]) /\ left[r] # Collecting)]
          /\ UNCHANGED <<server, phase, tool, left, attempt, outcome>>
      BY <2>7 DEF Perform
    <3>2. /\ changed' \in [Requests -> BOOLEAN]
          /\ \A q \in Requests \ {r} : changed'[q] = changed[q]
          /\ changed'[r] = (changed[r] \/ (IsChange(tool[r]) /\ left[r] # Collecting))
      <4>1. changed \in [Requests -> BOOLEAN]
        BY DEF CallOK, CallTypes
      <4>2. changed[r] \/ (IsChange(tool[r]) /\ left[r] # Collecting) \in BOOLEAN
        OBVIOUS
      <4> QED BY <3>1, <4>1, <4>2, Zenon
    <3>3. CallTypes'
      BY <3>1, <3>2 DEF CallOK, CallTypes
    <3>4. server.read_only => ~IsChange(tool[r]) /\ changed[r] = FALSE
      BY <3>1 DEF CallOK, RequestOK
    <3>5. server.read_only => changed'[r] = FALSE
      BY <3>2, <3>4, Zenon
    <3>6. RequestOK(r)'
      BY <3>1, <3>4, <3>5 DEF CallOK, CallTypes, RequestOK, IsChange
    <3> QED BY <3>1, <3>2, <3>3, <3>6, OthersKeepCall DEF CallOK, CallTypes
  <2>8. CASE Retry(r)
    <3>1. /\ phase[r] = "sent" /\ attempt[r] < MaxRetries
          /\ phase' = [phase EXCEPT ![r] = "calling"]
          /\ attempt' = [attempt EXCEPT ![r] = @ + 1]
          /\ performed' = [performed EXCEPT ![r] = FALSE]
          /\ UNCHANGED <<server, tool, left, changed, outcome>>
      BY <2>8 DEF Retry
    <3>2. CallTypes'
      BY <3>1, GatewayAssumption DEF CallOK, CallTypes, Phases
    <3>3. RequestOK(r)'
      BY <3>1, GatewayAssumption DEF CallOK, CallTypes, RequestOK, IsChange
    <3> QED BY <3>1, <3>2, <3>3, OthersKeepCall DEF CallOK, CallTypes
  <2>9. CASE SendOnClosed(r) \/ Reply(r) \/ Fail(r) \/ PollCrash(r)
    <3>1. phase[r] \in {"calling", "sent"} /\ UNCHANGED <<server, changed, tool>>
      BY <2>9, AttemptOver
    <3>2. ASSUME NEW how \in Outcomes, Ends(r, how) PROVE CallOK'
      BY <3>1, <3>2, EndingKeepsCall DEF CallOK, CallTypes, Active
    <3>3. ASSUME NEW n \in Opening..MaxTargets, n # 0, GoesOn(r, n) PROVE CallOK'
      BY <3>1, <3>3, GoingOnKeepsCall
    <3> QED BY <2>9, <3>2, <3>3, NextRequest
  <2> QED
    BY <1>2, <2>1, <2>2, <2>3, <2>4, <2>5, <2>6, <2>7, <2>8, <2>9
       DEF RequestStep, Advance, Dispatch, AttemptEnds
<1> QED
  BY <1>1, <1>2 DEF Next, vars, callVars, StopAccepting, RetireAll, CloseRetired

-------------------------------------------------------------------------------
(* History of look-ups and audit lines                                     *)

HistoryTypes ==
    /\ lines \in [Requests -> Seq(AuditLines)]
    /\ since \in [Requests -> SUBSET Keys]

\* The name in a line is that of a configuration the gateway made.
LEMMA LinesTyped ==
    ASSUME HistoryTypes, BindingOK, NEW r \in Requests, NEW c,
           NEW status \in {"ok", "error"}, AuditLine(r, c, status)
    PROVE  lines' \in [Requests -> Seq(AuditLines)]
<1>1. [user |-> cfg[r].auth_user, status |-> status] \in AuditLines
  BY DEF AuditLines, BindingOK
<1>2. lines[r] \in Seq(AuditLines)
  BY DEF HistoryTypes
<1>3. Append(lines[r], [user |-> cfg[r].auth_user, status |-> status]) \in Seq(AuditLines)
  BY <1>1, <1>2, AppendProperties
<1> QED BY <1>2, <1>3 DEF AuditLine, HistoryTypes

\* Every step keeps the types of the history.
LEMMA StepKeepsHistory ==
    ASSUME HistoryTypes, BindingOK, [Next]_vars
    PROVE  HistoryTypes'
<1>1. ASSUME UNCHANGED <<lines, since>> PROVE HistoryTypes'
  BY <1>1 DEF HistoryTypes
<1>2. ASSUME NEW r \in Requests, since' = since \/ since' = [since EXCEPT ![r] = {}]
      PROVE  since' \in [Requests -> SUBSET Keys]
  BY <1>2 DEF HistoryTypes
<1>3. ASSUME NEW r \in Requests, lines' = [lines EXCEPT ![r] = <<>>]
      PROVE  lines' \in [Requests -> Seq(AuditLines)]
  BY <1>3, EmptySeq DEF HistoryTypes
<1>4. ASSUME NEW r \in Requests, RequestStep(r) PROVE HistoryTypes'
  <2>1. CASE Reject(r)
    BY <2>1, <1>2, <1>3 DEF Reject, NewRequest, HistoryTypes
  <2>2. ASSUME NEW h \in Headers, ArriveHit(r, h) \/ ArriveMiss(r, h) PROVE HistoryTypes'
    <3>1. lines' = [lines EXCEPT ![r] = <<>>] /\ LookedUp(r, ClientKey(FromHeaders(h)))
      BY <2>2 DEF ArriveHit, ArriveMiss, Arrive, NewRequest
    <3>2. ClientKey(FromHeaders(h)) \in Keys
      BY DEF Keys, Configs, HeaderConfigs
    <3>3. since' \in [Requests -> SUBSET Keys]
      BY <3>1, <3>2 DEF LookedUp, HistoryTypes
    <3> QED BY <3>1, <3>3, <1>3 DEF HistoryTypes
  <2>3. CASE CloseEvicted(r)
    BY <2>3, <1>1 DEF CloseEvicted, callVars
  <2>4. ASSUME NEW c \in ToolCalls,
               CallDisabled(r, c) \/ CallMismatched(r, c) \/ CallBlocked(r, c) \/ CallRuns(r, c)
        PROVE  HistoryTypes'
    <3>1. since' = since \/ since' = [since EXCEPT ![r] = {}]
      BY <2>4 DEF CallDisabled, CallMismatched, CallBlocked, CallRuns, Ends
    <3>2. lines' = lines \/ \E status \in {"ok", "error"} : AuditLine(r, c, status)
      BY <2>4 DEF CallDisabled, CallMismatched, CallBlocked, CallRuns
    <3>3. lines' \in [Requests -> Seq(AuditLines)]
      BY <3>2, LinesTyped DEF HistoryTypes
    <3> QED BY <3>1, <3>3, <1>2 DEF HistoryTypes
  <2>5. ASSUME Send(r) \/ Perform(r) \/ Retry(r)
        PROVE  HistoryTypes'
    BY <2>5, <1>1 DEF Send, Perform, Retry, callVars
  <2>6. ASSUME SendOnClosed(r) \/ Reply(r) \/ Fail(r) \/ PollCrash(r)
        PROVE  HistoryTypes'
    <3>1. since' = since \/ since' = [since EXCEPT ![r] = {}]
      BY <2>6, AttemptOver DEF Ends, GoesOn
    <3>2. lines' = lines \/ \E status \in {"ok", "error"} : AuditLine(r, tool[r], status)
      <4>1. ASSUME CommandOver(r)
            PROVE  lines' = lines \/ \E status \in {"ok", "error"} : AuditLine(r, tool[r], status)
        BY <4>1 DEF CommandOver, Returns, GoesOn
      <4>2. CASE SendOnClosed(r)
        BY <4>1, <4>2 DEF SendOnClosed
      <4>3. CASE Reply(r)
        BY <4>1, <4>3 DEF Reply, Returns, GoesOn
      <4>4. CASE Fail(r)
        BY <4>1, <4>4 DEF Fail, Returns
      <4>5. CASE PollCrash(r)
        BY <4>5 DEF PollCrash
      <4> QED BY <2>6, <4>2, <4>3, <4>4, <4>5
    <3>3. lines' \in [Requests -> Seq(AuditLines)]
      BY <3>2, LinesTyped DEF HistoryTypes
    <3> QED BY <3>1, <3>3, <1>2 DEF HistoryTypes
  <2> QED
    BY <1>4, <2>1, <2>2, <2>3, <2>4, <2>5, <2>6 DEF RequestStep, Advance, Dispatch, AttemptEnds
<1> QED
  BY <1>1, <1>4 DEF Next, vars, callVars, StopAccepting, RetireAll, CloseRetired

-------------------------------------------------------------------------------
(* Theorems                                                                *)

GatewayInv == PoolOK /\ BindingOK /\ CallOK /\ HistoryTypes

\* The server starts with an empty pool and no request.
LEMMA InitGateway == Init => GatewayInv
<1> SUFFICES ASSUME Init PROVE GatewayInv
  OBVIOUS
<1>1. PoolOK
  <2>1. cache = <<>> /\ Len(cache) = 0 /\ DOMAIN cache = {} /\ cache \in Seq(Items)
    BY EmptySeq DEF Init
  <2>2. CachedClients = {} /\ DistinctKeys(cache) /\ Len(cache) <= MaxClients
    BY <2>1, GatewayAssumption DEF CachedClients, DistinctKeys
  <2> QED BY <2>1, <2>2 DEF Init, PoolOK, Phases
<1>2. BindingOK
  BY DEF Init, BindingOK, Phases, Configs, Active
<1>3. CallOK
  <2>1. AnyCall \in ToolCalls
    BY GatewayAssumption DEF AnyCall
  <2>2. CallTypes
    BY <2>1, Stages, GatewayAssumption DEF Init, CallTypes, Phases, Outcomes
  <2>3. ASSUME NEW r \in Requests PROVE RequestOK(r)
    BY <2>3 DEF Init, RequestOK, Active
  <2> QED BY <2>2, <2>3 DEF CallOK
<1>4. HistoryTypes
  BY EmptySeq DEF Init, HistoryTypes
<1> QED BY <1>1, <1>2, <1>3, <1>4 DEF GatewayInv

\* The inductive invariant of the gateway.
THEOREM GatewayInvariant == Spec => []GatewayInv
<1>1. GatewayInv /\ [Next]_vars => GatewayInv'
  BY StepKeepsPool, StepKeepsBinding, StepKeepsCall, StepKeepsHistory DEF GatewayInv
<1> QED BY <1>1, InitGateway, PTL DEF Spec

\* The pool never holds more than maxsize clients, nor two of one tenant, nor a
\* closed one, and loses no open one (multitenant.py:66-89).
THEOREM PoolInvariant == Spec => []PoolSound
<1>1. GatewayInv => PoolSound
  BY CachedOnce DEF GatewayInv, PoolOK, PoolSound
<1> QED BY <1>1, GatewayInvariant, PTL

\* A request acts with its own headers' credentials, however many tenants share
\* the pool and whatever has been evicted (multitenant.py:44-82).
THEOREM TenantsIsolated == Spec => []TenantIsolation
<1>1. GatewayInv => TenantIsolation
  BY DEF GatewayInv, BindingOK, TenantIsolation
<1> QED BY <1>1, GatewayInvariant, PTL

\* Every variable keeps its type; no request of a call is attempted more often than
\* max_retries allows (server.py:696-723, client.py:176-214).
THEOREM GatewayTypes == Spec => []GatewayTypeOK
<1>1. GatewayInv => GatewayTypeOK
  BY DEF GatewayInv, PoolOK, BindingOK, CallOK, CallTypes, HistoryTypes, GatewayTypeOK,
         Items, Outcomes, AuditLines
<1> QED BY <1>1, GatewayInvariant, PTL

\* With read_only set no call of any tool changes Thruk, for any set of tool
\* calls in which the read tools only read (server.py:976-983, escape.py:109-117).
THEOREM ReadOnlyMode == Spec => []ReadOnlyHolds
<1>1. GatewayInv => ReadOnlyHolds
  BY DEF GatewayInv, CallOK, CallTypes, RequestOK, ReadOnlyHolds
<1> QED BY <1>1, GatewayInvariant, PTL

-------------------------------------------------------------------------------
(* The audit log                                                           *)

\* What the log of a request owes to its call.
Accounted(r) ==
    /\ changed[r] = TRUE => Len(lines[r]) = 1 /\ lines[r][1].user = cfg[r].auth_user
    /\ \A i \in DOMAIN lines[r] :
           /\ lines[r][i].status = "ok" /\ IsChange(tool[r]) /\ changed[r] = FALSE
                  => Blocked(tool[r]) \/ tool[r].tool \in BulkTools
           /\ lines[r][i].status = "error" /\ tool[r].tool \in BulkTools
                  => changed[r] = FALSE

\* A call in progress has passed the guards; n being what it has left, it has
\* changed something once a command of its own has been performed.
Due(c, n, done, ch) ==
    /\ Enabled(c)
    /\ ch = TRUE => IsChange(c)
    /\ done = TRUE /\ IsChange(c) /\ n # Collecting => ch = TRUE
    /\ c.tool \in Opens /\ IsChange(c) /\ n # Opening => ch = TRUE
    /\ c.tool \in BulkTools => n # Opening /\ (n = Collecting => ch = FALSE)
    /\ c.tool \notin Opens \cup BulkTools => n = 1

\* A request in progress has no line yet; one that has ended normally is
\* accounted for.
LogOK(r) ==
    /\ Active(r) => lines[r] = <<>>
    /\ phase[r] \in {"calling", "sent"} => Due(tool[r], left[r], performed[r], changed[r])
    /\ phase[r] = "done" /\ outcome[r] \in {"returned", "raised"} /\ server.audit_log
           => Accounted(r)

AllLogged == \A r \in Requests : LogOK(r)

\* A tool that can change Thruk is one the audit log knows.
LEMMA ChangesAreAuditable ==
    ASSUME NEW c \in ToolCalls, Enabled(c), IsChange(c)
    PROVE  Auditable(c)
BY ReadToolsRead DEF Enabled, Auditable, RegisteredTools, WriteTools

\* The line of a request that had none.
LEMMA TheLine ==
    ASSUME HistoryTypes, NEW r \in Requests, NEW c, NEW status, lines[r] = <<>>,
           AuditLine(r, c, status), server.audit_log
    PROVE  /\ Auditable(c) => Len(lines'[r]) = 1 /\ lines'[r][1].user = cfg[r].auth_user
           /\ \A i \in DOMAIN lines'[r] : lines'[r][i].status = status
<1>1. CASE Auditable(c)
  <2>1. lines'[r] = <<[user |-> cfg[r].auth_user, status |-> status]>>
    BY <1>1 DEF AuditLine, HistoryTypes
  <2> QED BY <2>1
<1>2. CASE ~Auditable(c)
  BY <1>2 DEF AuditLine, HistoryTypes
<1> QED BY <1>1, <1>2

\* Of a request that does not move the log stays accounted for.
LEMMA OthersStayLogged ==
    ASSUME AllLogged, NEW r \in Requests, server' = server, LogOK(r)',
           \A q \in Requests \ {r} :
               /\ phase'[q] = phase[q] /\ tool'[q] = tool[q] /\ left'[q] = left[q]
               /\ performed'[q] = performed[q] /\ changed'[q] = changed[q]
               /\ outcome'[q] = outcome[q] /\ lines'[q] = lines[q] /\ cfg'[q] = cfg[q]
    PROVE  AllLogged'
<1>1. ASSUME NEW q \in Requests, q # r PROVE LogOK(q)'
  BY <1>1 DEF AllLogged, LogOK, Accounted, Due, Active, IsChange, Enabled, Blocked
<1> QED BY <1>1 DEF AllLogged

\* A request that ends with a line, or without one when it has changed nothing.
LEMMA EndingIsLogged ==
    ASSUME GatewayInv, AllLogged, NEW r \in Requests, NEW c \in ToolCalls,
           NEW how, Ends(r, how), Active(r), tool' = [tool EXCEPT ![r] = c],
           UNCHANGED <<server, changed, cfg>>,
           NEW status \in {"ok", "error"}, AuditLine(r, c, status),
           changed[r] = TRUE => Auditable(c),
           status = "ok" /\ IsChange(c) /\ changed[r] = FALSE
               => Blocked(c) \/ c.tool \in BulkTools,
           status = "error" /\ c.tool \in BulkTools => changed[r] = FALSE
    PROVE  AllLogged'
<1>1. /\ phase' = [phase EXCEPT ![r] = "done"] /\ outcome' = [outcome EXCEPT ![r] = how]
      /\ performed' = [performed EXCEPT ![r] = FALSE] /\ left' = [left EXCEPT ![r] = 0]
  BY DEF Ends
<1>2. phase'[r] = "done" /\ tool'[r] = c
  BY <1>1 DEF GatewayInv, CallOK, CallTypes
<1>3. lines[r] = <<>>
  BY DEF AllLogged, LogOK
<1>4. server.audit_log => Accounted(r)'
  <2>1. SUFFICES ASSUME server.audit_log PROVE Accounted(r)'
    OBVIOUS
  <2>2. /\ Auditable(c) => Len(lines'[r]) = 1 /\ lines'[r][1].user = cfg[r].auth_user
        /\ \A i \in DOMAIN lines'[r] : lines'[r][i].status = status
    BY <1>3, <2>1, TheLine DEF GatewayInv
  <2> QED BY <1>2, <2>2 DEF Accounted, IsChange, Blocked
<1>5. LogOK(r)'
  BY <1>2, <1>4 DEF LogOK, Active
<1>6. \A q \in Requests \ {r} :
          /\ phase'[q] = phase[q] /\ tool'[q] = tool[q] /\ left'[q] = left[q]
          /\ performed'[q] = performed[q] /\ changed'[q] = changed[q]
          /\ outcome'[q] = outcome[q] /\ lines'[q] = lines[q] /\ cfg'[q] = cfg[q]
  BY <1>1 DEF AuditLine, GatewayInv, CallOK, CallTypes, HistoryTypes
<1> QED BY <1>5, <1>6, OthersStayLogged

\* A request that moves and stays active owes the log nothing yet.
LEMMA MovingIsLogged ==
    ASSUME GatewayInv, AllLogged, NEW r \in Requests, NEW x \in Phases \ {"idle", "done"},
           phase' = [phase EXCEPT ![r] = x], lines'[r] = <<>>, server' = server,
           x \in {"calling", "sent"} => Due(tool'[r], left'[r], performed'[r], changed'[r]),
           \A q \in Requests \ {r} :
               /\ tool'[q] = tool[q] /\ left'[q] = left[q]
               /\ performed'[q] = performed[q] /\ changed'[q] = changed[q]
               /\ outcome'[q] = outcome[q] /\ lines'[q] = lines[q] /\ cfg'[q] = cfg[q]
    PROVE  AllLogged'
<1>1. phase'[r] = x /\ \A q \in Requests \ {r} : phase'[q] = phase[q]
  BY DEF GatewayInv, CallOK, CallTypes
<1>2. LogOK(r)'
  BY <1>1 DEF LogOK, Due, Enabled, IsChange
<1> QED BY <1>1, <1>2, OthersStayLogged

\* A call that goes on to its next request: the one before it was its first
\* command, its look-up, or the command of an object.
LEMMA GoingOnIsLogged ==
    ASSUME GatewayInv, AllLogged, NEW r \in Requests, NEW n \in Opening..MaxTargets,
           phase[r] \in {"calling", "sent"}, GoesOn(r, n),
           UNCHANGED <<server, tool, changed, cfg>>,
           n # Opening, tool[r].tool \in Opens \cup BulkTools,
           \/ left[r] = Opening /\ performed[r] = TRUE
           \/ left[r] # Opening /\ n # Collecting
    PROVE  AllLogged'
<1>1. /\ phase' = [phase EXCEPT ![r] = "calling"] /\ left' = [left EXCEPT ![r] = n]
      /\ performed' = [performed EXCEPT ![r] = FALSE] /\ UNCHANGED <<outcome, lines>>
  BY DEF GoesOn
<1>2. lines[r] = <<>> /\ Due(tool[r], left[r], performed[r], changed[r])
  BY DEF AllLogged, LogOK, Active
<1>3. left'[r] = n /\ performed'[r] = FALSE
  BY <1>1 DEF GatewayInv, CallOK, CallTypes
<1>4. /\ tool[r].tool \in Opens => left[r] # Opening \/ performed[r] = TRUE
      /\ Opening # Collecting
  BY DEF Opening, Collecting
<1>5. Due(tool[r], n, FALSE, changed[r])
  BY <1>2, <1>4 DEF Due, Opens, BulkTools
<1>6. "calling" \in Phases \ {"idle", "done"}
  BY DEF Phases
<1> QED
  BY <1>1, <1>2, <1>3, <1>5, <1>6, MovingIsLogged DEF GatewayInv, CallOK, CallTypes

\* A call that returns its result, or the text of a ThrukError.
LEMMA ReturningIsLogged ==
    ASSUME GatewayInv, AllLogged, NEW r \in Requests, NEW status \in {"ok", "error"},
           phase[r] \in {"calling", "sent"}, Returns(r, status),
           UNCHANGED <<server, tool, changed, cfg>>,
           status = "ok" /\ IsChange(tool[r]) /\ changed[r] = FALSE
               => tool[r].tool \in BulkTools,
           status = "error" /\ tool[r].tool \in BulkTools => left[r] = Collecting
    PROVE  AllLogged'
<1>1. /\ Ends(r, "returned") /\ AuditLine(r, tool[r], status) /\ Active(r)
      /\ tool[r] \in ToolCalls /\ tool' = [tool EXCEPT ![r] = tool[r]]
  BY DEF Returns, Active, GatewayInv, CallOK, CallTypes
<1>2. Due(tool[r], left[r], performed[r], changed[r])
  BY DEF AllLogged, LogOK
<1>3. changed[r] = TRUE => Auditable(tool[r])
  BY <1>1, <1>2, ChangesAreAuditable DEF Due
<1>4. status = "error" /\ tool[r].tool \in BulkTools => changed[r] = FALSE
  BY <1>2 DEF Due
<1> QED BY <1>1, <1>3, <1>4, EndingIsLogged

\* The end of an attempt keeps the log in agreement with what has been done.
LEMMA AttemptIsLogged ==
    ASSUME GatewayInv, AllLogged, NEW r \in Requests,
           SendOnClosed(r) \/ Reply(r) \/ Fail(r) \/ PollCrash(r)
    PROVE  AllLogged'
<1>1. /\ phase[r] \in {"calling", "sent"} /\ UNCHANGED <<server, tool, changed, cfg>>
  BY AttemptOver
<1>2. /\ Due(tool[r], left[r], performed[r], changed[r]) /\ left[r] # 0
      /\ left[r] \in Opening..MaxTargets /\ performed[r] \in BOOLEAN
      /\ changed[r] \in BOOLEAN
  BY <1>1 DEF AllLogged, LogOK, GatewayInv, CallOK, CallTypes, RequestOK
<1>3. Opening = -2 /\ Collecting = -1 /\ MaxTargets \in Nat
  BY GatewayAssumption DEF Opening, Collecting
<1>4. ASSUME CommandOver(r),
             \/ tool[r].tool \in BulkTools \cup Opens /\ left[r] > 0
             \/ performed[r] = TRUE
      PROVE  AllLogged'
  <2>1. CASE left[r] = 1 /\ Returns(r, "ok")
    <3>1. IsChange(tool[r]) /\ changed[r] = FALSE => tool[r].tool \in BulkTools
      BY <1>2, <1>3, <1>4, <2>1 DEF Due
    <3> QED BY <1>1, <2>1, <3>1, ReturningIsLogged
  <2>2. CASE left[r] > 1 /\ GoesOn(r, left[r] - 1)
    <3>1. tool[r].tool \in Opens \cup BulkTools
      BY <1>2, <2>2 DEF Due
    <3>2. /\ left[r] - 1 \in Opening..MaxTargets /\ left[r] # Opening
          /\ left[r] - 1 # Opening /\ left[r] - 1 # Collecting
      BY <1>2, <1>3, <2>2
    <3> QED BY <1>1, <2>2, <3>1, <3>2, GoingOnIsLogged
  <2> QED BY <1>4, <2>1, <2>2 DEF CommandOver
<1>5. ASSUME Ends(r, "crashed"), lines' = lines PROVE AllLogged'
  <2>1. phase'[r] = "done" /\ outcome'[r] = "crashed"
    BY <1>5 DEF Ends, GatewayInv, CallOK, CallTypes
  <2>2. LogOK(r)'
    BY <2>1 DEF LogOK, Active
  <2> QED BY <1>1, <1>5, <2>2, OthersStayLogged DEF Ends, GatewayInv, CallOK, CallTypes
<1>6. CASE SendOnClosed(r)
  <2>1. CASE tool[r].tool = "acknowledge_all" /\ left[r] > 0
    BY <1>4, <1>6, <2>1 DEF SendOnClosed, BulkTools
  <2>2. CASE ~(tool[r].tool = "acknowledge_all" /\ left[r] > 0)
    BY <1>5, <1>6, <2>2 DEF SendOnClosed
  <2> QED BY <2>1, <2>2
<1>7. CASE Reply(r)
  <2>1. performed[r] = TRUE
    BY <1>2, <1>7 DEF Reply
  <2>2. CASE left[r] = Opening /\ GoesOn(r, Collecting)
    <3>1. tool[r].tool \in Opens \cup BulkTools /\ Collecting \in Opening..MaxTargets
          /\ Collecting # Opening
      BY <1>2, <1>3, <2>2 DEF Due
    <3> QED BY <1>1, <2>1, <2>2, <3>1, GoingOnIsLogged
  <2>3. ASSUME left[r] = Collecting, NEW n \in 1..MaxTargets, GoesOn(r, n) PROVE AllLogged'
    <3>1. /\ tool[r].tool \in Opens \cup BulkTools /\ left[r] # Opening
          /\ n \in Opening..MaxTargets /\ n # Opening /\ n # Collecting
      BY <1>2, <1>3, <2>3 DEF Due
    <3> QED BY <1>1, <2>3, <3>1, GoingOnIsLogged
  <2>4. CASE left[r] = Collecting /\ Returns(r, "ok")
    <3>1. IsChange(tool[r]) /\ changed[r] = FALSE => tool[r].tool \in BulkTools
      BY <1>2, <1>3, <2>4 DEF Due
    <3> QED BY <1>1, <2>4, <3>1, ReturningIsLogged
  <2>5. CASE CommandOver(r)
    BY <1>4, <2>1, <2>5
  <2> QED BY <1>7, <2>2, <2>3, <2>4, <2>5 DEF Reply
<1>8. CASE Fail(r)
  <2>1. CASE KeepsErrors(r)
    <3>1. CommandOver(r) /\ tool[r].tool \in BulkTools \cup Opens /\ left[r] > 0
      BY <1>8, <2>1 DEF Fail, KeepsErrors, Opens
    <3> QED BY <1>4, <3>1
  <2>2. CASE ~KeepsErrors(r)
    <3>1. Returns(r, "error")
      BY <1>8, <2>2 DEF Fail
    <3>2. tool[r].tool \in BulkTools => left[r] = Collecting
      <4>1. tool[r].tool \in BulkTools => ~(left[r] > 0) /\ left[r] # Opening
        BY <1>2, <2>2 DEF KeepsErrors, Due
      <4> QED BY <1>2, <1>3, <4>1
    <3> QED BY <1>1, <3>1, <3>2, ReturningIsLogged
  <2> QED BY <2>1, <2>2
<1>9. CASE PollCrash(r)
  BY <1>5, <1>9 DEF PollCrash
<1> QED BY <1>6, <1>7, <1>8, <1>9

\* Every step keeps the log in agreement with what has been done.
LEMMA StepKeepsLog ==
    ASSUME GatewayInv, AllLogged, [Next]_vars
    PROVE  AllLogged'
<1>1. ASSUME UNCHANGED <<server, phase, tool, left, performed, changed, outcome, lines, cfg>>
      PROVE  AllLogged'
  BY <1>1 DEF AllLogged, LogOK, Accounted, Due, Active, IsChange, Enabled, Blocked
<1>2. ASSUME NEW r \in Requests, RequestStep(r) PROVE AllLogged'
  <2>1. CASE Reject(r)
    <3>1. phase'[r] = "done" /\ outcome'[r] = "rejected"
      BY <2>1 DEF Reject, GatewayInv, CallOK, CallTypes
    <3>2. LogOK(r)'
      BY <3>1 DEF LogOK, Active
    <3> QED
      BY <2>1, <3>2, OthersStayLogged
         DEF Reject, NewRequest, GatewayInv, CallOK, CallTypes, HistoryTypes
  <2>2. ASSUME NEW h \in Headers, ArriveHit(r, h) \/ ArriveMiss(r, h) PROVE AllLogged'
    <3>1. PICK x \in {"evicting", "bound"} : phase' = [phase EXCEPT ![r] = x]
      BY <2>2 DEF ArriveHit, ArriveMiss
    <3>2. /\ UNCHANGED <<server, left, performed>> /\ tool' = [tool EXCEPT ![r] = AnyCall]
          /\ lines' = [lines EXCEPT ![r] = <<>>] /\ changed' = [changed EXCEPT ![r] = FALSE]
          /\ outcome' = [outcome EXCEPT ![r] = "none"]
          /\ cfg' = [cfg EXCEPT ![r] = FromHeaders(h)]
      BY <2>2 DEF ArriveHit, ArriveMiss, Arrive, NewRequest
    <3>3. lines'[r] = <<>> /\ x \in Phases \ {"idle", "done"} /\ x \notin {"calling", "sent"}
      BY <3>2 DEF Phases, GatewayInv, HistoryTypes
    <3> QED
      BY <3>1, <3>2, <3>3, MovingIsLogged
         DEF GatewayInv, BindingOK, CallOK, CallTypes, HistoryTypes
  <2>3. CASE CloseEvicted(r)
    <3>1. /\ phase[r] = "evicting" /\ phase' = [phase EXCEPT ![r] = "bound"]
          /\ UNCHANGED <<server, tool, left, performed, changed, outcome, lines, cfg>>
      BY <2>3 DEF CloseEvicted, callVars
    <3>2. "bound" \in Phases \ {"idle", "done"} /\ lines[r] = <<>>
      BY <3>1 DEF Phases, AllLogged, LogOK, Active
    <3> QED BY <3>1, <3>2, MovingIsLogged
  <2>4. ASSUME NEW c \in ToolCalls, CallDisabled(r, c) PROVE AllLogged'
    <3>1. /\ phase[r] = "bound" /\ Ends(r, "raised") /\ tool' = [tool EXCEPT ![r] = c]
          /\ UNCHANGED <<server, changed, cfg, lines>>
      BY <2>4 DEF CallDisabled, Calls
    <3>2. phase'[r] = "done" /\ lines'[r] = <<>> /\ changed'[r] = FALSE
      BY <3>1 DEF Ends, AllLogged, LogOK, Active, GatewayInv, CallOK, CallTypes, RequestOK
    <3>3. LogOK(r)'
      BY <3>2 DEF LogOK, Active, Accounted
    <3> QED
      BY <3>1, <3>3, OthersStayLogged DEF Ends, GatewayInv, CallOK, CallTypes
  <2>5. ASSUME NEW c \in ToolCalls, CallMismatched(r, c) \/ CallBlocked(r, c) PROVE AllLogged'
    <3>1. /\ phase[r] = "bound" /\ tool' = [tool EXCEPT ![r] = c]
          /\ UNCHANGED <<server, changed, cfg>>
      BY <2>5 DEF CallMismatched, CallBlocked, Calls
    <3>2. Active(r) /\ changed[r] = FALSE
      BY <3>1 DEF Active, GatewayInv, CallOK, RequestOK
    <3>3. CASE CallMismatched(r, c)
      <4>1. Ends(r, "raised") /\ AuditLine(r, c, "error")
        BY <3>3 DEF CallMismatched
      <4> QED BY <3>1, <3>2, <4>1, EndingIsLogged
    <3>4. CASE CallBlocked(r, c)
      <4>1. Ends(r, "returned") /\ AuditLine(r, c, "ok") /\ Blocked(c)
        BY <3>4 DEF CallBlocked
      <4> QED BY <3>1, <3>2, <4>1, EndingIsLogged
    <3> QED BY <2>5, <3>3, <3>4
  <2>6. ASSUME NEW c \in ToolCalls, CallRuns(r, c) PROVE AllLogged'
    <3>1. /\ phase[r] = "bound" /\ tool' = [tool EXCEPT ![r] = c] /\ Enabled(c)
          /\ phase' = [phase EXCEPT ![r] = "calling"]
          /\ left' = [left EXCEPT ![r] = FirstLeft(c)]
          /\ UNCHANGED <<server, performed, changed, outcome, lines, cfg>>
      BY <2>6 DEF CallRuns, Calls
    <3>2. /\ performed'[r] = FALSE /\ changed'[r] = FALSE /\ tool'[r] = c
          /\ lines[r] = <<>> /\ left'[r] = FirstLeft(c)
      BY <3>1 DEF GatewayInv, CallOK, CallTypes, RequestOK, AllLogged, LogOK, Active
    <3>3. "calling" \in Phases \ {"idle", "done"}
      BY DEF Phases
    <3>4. Due(c, FirstLeft(c), FALSE, FALSE)
      BY <3>1 DEF Due, FirstLeft, Opens, BulkTools, Opening, Collecting
    <3> QED BY <3>1, <3>2, <3>3, <3>4, MovingIsLogged DEF GatewayInv, CallOK, CallTypes
  <2>7. CASE Send(r) \/ Retry(r)
    <3>1. PICK x \in {"sent", "calling"} : phase' = [phase EXCEPT ![r] = x]
      BY <2>7 DEF Send, Retry
    <3>2. /\ phase[r] \in {"calling", "sent"}
          /\ performed' = performed \/ performed' = [performed EXCEPT ![r] = FALSE]
          /\ UNCHANGED <<server, tool, left, changed, outcome, lines, cfg>>
      BY <2>7 DEF Send, Retry, callVars
    <3>3. x \in Phases \ {"idle", "done"} /\ lines[r] = <<>> /\ LogOK(r)
      BY <3>2 DEF Phases, AllLogged, LogOK, Active
    <3>4. performed'[r] = TRUE => performed[r] = TRUE
      BY <3>2 DEF GatewayInv, CallOK, CallTypes
    <3>5. Due(tool[r], left[r], performed'[r], changed[r])
      BY <3>2, <3>3, <3>4 DEF LogOK, Due
    <3> QED
      BY <3>1, <3>2, <3>3, <3>5, MovingIsLogged DEF GatewayInv, CallOK, CallTypes
  <2>8. CASE Perform(r)
    <3>1. /\ phase[r] = "sent" /\ performed' = [performed EXCEPT ![r] = TRUE]
          /\ changed' = [changed EXCEPT ![r] =
                             @ \/ (IsChange(tool[r]) /\ left[r] # Collecting)]
          /\ UNCHANGED <<server, phase, tool, left, outcome, lines, cfg>>
      BY <2>8 DEF Perform
    <3>2. changed[r] \in BOOLEAN /\ LogOK(r) /\ phase' = [phase EXCEPT ![r] = "sent"]
      BY <3>1 DEF GatewayInv, CallOK, CallTypes, AllLogged
    <3>3. "sent" \in Phases \ {"idle", "done"} /\ lines[r] = <<>>
          /\ Due(tool[r], left[r], performed[r], changed[r])
      BY <3>1, <3>2 DEF Phases, LogOK, Active
    <3>4. changed'[r] = (changed[r] \/ (IsChange(tool[r]) /\ left[r] # Collecting))
      <4>1. changed \in [Requests -> BOOLEAN]
        BY DEF GatewayInv, CallOK, CallTypes
      <4> QED BY <3>1, <4>1, Zenon
    <3>5. /\ changed'[r] = TRUE <=> changed[r] = TRUE \/ (IsChange(tool[r]) /\ left[r] # Collecting)
          /\ changed'[r] = FALSE <=> changed[r] = FALSE /\ ~(IsChange(tool[r]) /\ left[r] # Collecting)
      BY <3>2, <3>4
    <3>6. Due(tool[r], left[r], TRUE, changed'[r])
      BY <3>3, <3>5 DEF Due
    <3>7. /\ performed'[r] = TRUE
          /\ \A q \in Requests \ {r} : changed'[q] = changed[q] /\ performed'[q] = performed[q]
      BY <3>1 DEF GatewayInv, CallOK, CallTypes
    <3> QED BY <3>1, <3>2, <3>3, <3>6, <3>7, MovingIsLogged
  <2>9. CASE SendOnClosed(r) \/ Reply(r) \/ Fail(r) \/ PollCrash(r)
    BY <2>9, AttemptIsLogged
  <2> QED
    BY <1>2, <2>1, <2>2, <2>3, <2>4, <2>5, <2>6, <2>7, <2>8, <2>9
       DEF RequestStep, Advance, Dispatch, AttemptEnds
<1> QED
  BY <1>1, <1>2 DEF Next, vars, callVars, StopAccepting, RetireAll, CloseRetired

\* With the audit log on, a call that ends normally has left exactly one line for
\* its changes, in the caller's name.  A line that says ok stands for a change,
\* save for refused calls and bulk tools; a bulk call that is logged as an error
\* has changed nothing (server.py:696-723, commands.py:307-322, 808-851).
THEOREM ChangesLogged == Spec => []ChangesAreLogged
<1>1. Init => AllLogged
  BY DEF Init, AllLogged, LogOK, Active
<1>2. GatewayInv /\ AllLogged /\ [Next]_vars => AllLogged'
  BY StepKeepsLog
<1>3. GatewayInv /\ AllLogged => ChangesAreLogged
  <2>1. ASSUME GatewayInv, NEW r \in Requests
        PROVE  (changed[r] <=> changed[r] = TRUE) /\ (~changed[r] <=> changed[r] = FALSE)
    BY <2>1 DEF GatewayInv, CallOK, CallTypes
  <2> QED BY <2>1 DEF AllLogged, LogOK, Accounted, ChangesAreLogged
<1> QED BY <1>1, <1>2, <1>3, GatewayInvariant, PTL DEF Spec

-------------------------------------------------------------------------------
(* Which clients are spared                                                *)

\* The client of request r is in the pool, and every item more recent than it has
\* been looked up since r arrived.
Recent(r) ==
    \E i \in DOMAIN cache :
        /\ cache[i].client = bound[r]
        /\ \A j \in DOMAIN cache : j > i => cache[j].key \in since[r]

\* While r is active its client is in the pool or maxsize other tenants have come.
Spared(r) ==
    /\ IsFiniteSet(since[r])
    /\ Active(r) => /\ ClientKey(cfg[r]) \notin since[r]
                    /\ Recent(r) \/ Cardinality(since[r]) >= MaxClients

AllSpared == \A r \in Requests : Spared(r)

\* There are as many keys in the pool as items.
LEMMA KeysCounted ==
    ASSUME NEW S, NEW d \in Seq(S), DistinctKeys(d)
    PROVE  IsFiniteSet(KeysOf(d)) /\ Cardinality(KeysOf(d)) = Len(d)
<1> DEFINE f == [i \in 1..Len(d) |-> d[i].key]
<1>1. Len(d) \in Nat /\ DOMAIN d = 1..Len(d)
  BY LenProperties
<1>2. f \in Bijection(1..Len(d), KeysOf(d))
  BY <1>1 DEF Bijection, Injection, Surjection, IsInjective, KeysOf, DistinctKeys
<1>3. IsFiniteSet(1..Len(d)) /\ Cardinality(1..Len(d)) = Len(d)
  BY <1>1, FS_Interval
<1> QED BY <1>2, <1>3, FS_Bijection DEF ExistsBijection

\* A finite set stays finite, and as large at least, when an element is added.
LEMMA OneMore ==
    ASSUME NEW S, IsFiniteSet(S), NEW x, NEW y
    PROVE  /\ IsFiniteSet(S \cup ({x} \ {y}))
           /\ Cardinality(S) \in Nat /\ Cardinality(S \cup ({x} \ {y})) \in Nat
           /\ Cardinality(S) <= Cardinality(S \cup ({x} \ {y}))
<1> DEFINE T == S \cup ({x} \ {y})
<1>1. Cardinality(S) \in Nat
  BY FS_CardinalityType
<1>2. T = S \/ T = S \cup {x}
  OBVIOUS
<1> HIDE DEF T
<1>3. IsFiniteSet(S \cup {x}) /\ Cardinality(S \cup {x}) \in {Cardinality(S), Cardinality(S) + 1}
  BY FS_AddElement
<1> QED BY <1>1, <1>2, <1>3 DEF T

\* A finite set keeps its size when one element takes the place of another.
LEMMA OneForAnother ==
    ASSUME NEW S, IsFiniteSet(S), NEW x \in S, NEW y, y \notin S
    PROVE  /\ IsFiniteSet((S \ {x}) \cup {y})
           /\ Cardinality((S \ {x}) \cup {y}) = Cardinality(S)
<1> DEFINE T == S \ {x}
<1>1. IsFiniteSet(T) /\ Cardinality(T) = Cardinality(S) - 1 /\ y \notin T
  BY FS_RemoveElement
<1>2. Cardinality(S) \in Nat
  BY FS_CardinalityType
<1> HIDE DEF T
<1>3. IsFiniteSet(T \cup {y}) /\ Cardinality(T \cup {y}) = Cardinality(T) + 1
  BY <1>1, FS_AddElement
<1> QED BY <1>1, <1>2, <1>3 DEF T

\* What a look-up of key k adds to the history of another request q, which gets no
\* smaller by it.
LEMMA SinceGrows ==
    ASSUME AllSpared, HistoryTypes, NEW r \in Requests, NEW k \in Keys, LookedUp(r, k),
           NEW q \in Requests, q # r, Active(q)
    PROVE  /\ IsFiniteSet(since'[q])
           /\ since'[q] = since[q] \cup ({k} \ {ClientKey(cfg[q])})
           /\ ClientKey(cfg[q]) \notin since'[q]
           /\ Cardinality(since[q]) >= MaxClients => Cardinality(since'[q]) >= MaxClients
<1>1. /\ IsFiniteSet(since[q]) /\ ClientKey(cfg[q]) \notin since[q]
      /\ since'[q] = since[q] \cup ({k} \ {ClientKey(cfg[q])})
  BY DEF AllSpared, Spared, LookedUp
<1>2. /\ IsFiniteSet(since'[q]) /\ Cardinality(since[q]) <= Cardinality(since'[q])
      /\ Cardinality(since[q]) \in Nat /\ Cardinality(since'[q]) \in Nat
  <2> DEFINE T == since[q] \cup ({k} \ {ClientKey(cfg[q])})
  <2>1. IsFiniteSet(T) /\ Cardinality(since[q]) <= Cardinality(T)
        /\ Cardinality(since[q]) \in Nat /\ Cardinality(T) \in Nat
    BY <1>1, OneMore
  <2>2. since'[q] = T
    BY <1>1
  <2> HIDE DEF T
  <2> QED BY <2>1, <2>2
<1> QED BY <1>1, <1>2, GatewayAssumption

\* A request that has just arrived is bound to the last item of the pool.
LEMMA ArrivalSpared ==
    ASSUME NEW r \in Requests, NEW n \in DOMAIN cache', cache'[n].client = bound'[r],
           \A m \in DOMAIN cache' : ~(m > n), since'[r] = {}
    PROVE  Spared(r)'
BY FS_EmptySet DEF Spared, Recent

\* The item of an active request is that of its own key.
LEMMA OwnItem ==
    ASSUME PoolOK, BindingOK, NEW q \in Requests, Active(q),
           NEW i \in DOMAIN cache, cache[i].client = bound[q]
    PROVE  cache[i].key = ClientKey(cfg[q])
BY DEF PoolOK, BindingOK

\* A hit moves the item it finds behind the others, and every other active request
\* has it in its history.
LEMMA HitSpares ==
    ASSUME PoolOK, BindingOK, HistoryTypes, AllSpared,
           NEW r \in Requests, NEW h \in Headers, ArriveHit(r, h)
    PROVE  AllSpared'
<1> DEFINE k == ClientKey(FromHeaders(h))
<1>1. /\ k \in KeysOf(cache) /\ cache' = MoveToEnd(cache, k) /\ ~Active(r)
      /\ bound' = [bound EXCEPT ![r] = Lookup(cache, k).client]
      /\ phase' = [phase EXCEPT ![r] = "bound"] /\ LookedUp(r, k)
      /\ cfg' = [cfg EXCEPT ![r] = FromHeaders(h)]
  BY DEF ArriveHit, Arrive, Used
<1>2. cache \in Seq(Items) /\ k \in Keys
  BY DEF PoolOK, Keys, Configs, HeaderConfigs
<1> HIDE DEF k
<1>3. Spared(r)'
  <2>1. /\ IndexOf(cache, k) \in DOMAIN cache /\ Lookup(cache, k) = cache[IndexOf(cache, k)]
    BY <1>1, IndexOfProperties DEF Lookup
  <2>2. /\ Len(cache') = Len(cache) /\ cache'[Len(cache)] = Lookup(cache, k)
        /\ DOMAIN cache' = 1..Len(cache) /\ Len(cache) \in Nat \ {0}
    <3>1. Pop(cache, k) \in Seq(Items) /\ Len(Pop(cache, k)) = Len(cache) - 1
      BY <1>1, <1>2, PopProperties DEF PoolOK
    <3>2. Lookup(cache, k) \in Items /\ Len(cache) \in Nat \ {0}
      BY <1>2, <2>1, ElementOfSeq, LenProperties
    <3> QED BY <1>1, <3>1, <3>2, AppendProperties, LenProperties DEF MoveToEnd
  <2>3. since'[r] = {} /\ bound'[r] = Lookup(cache, k).client
    BY <1>1 DEF LookedUp, BindingOK
  <2>4. Len(cache) \in DOMAIN cache' /\ \A m \in DOMAIN cache' : ~(m > Len(cache))
    BY <2>2
  <2> QED BY <2>2, <2>3, <2>4, ArrivalSpared
<1>4. ASSUME NEW q \in Requests, q # r PROVE Spared(q)'
  <2>1. phase'[q] = phase[q] /\ bound'[q] = bound[q] /\ cfg'[q] = cfg[q]
    BY <1>1, <1>4 DEF BindingOK
  <2>2. CASE ~Active(q)
    <3>1. since'[q] = {} /\ ~Active(q)'
      BY <1>1, <2>1, <2>2 DEF LookedUp, Active
    <3> QED BY <3>1, FS_EmptySet DEF Spared
  <2>3. CASE Active(q)
    <3>1. /\ IsFiniteSet(since'[q])
          /\ since'[q] = since[q] \cup ({k} \ {ClientKey(cfg[q])})
          /\ ClientKey(cfg[q]) \notin since'[q]
          /\ Cardinality(since[q]) >= MaxClients => Cardinality(since'[q]) >= MaxClients
      BY <1>1, <1>2, <1>4, <2>3, SinceGrows
    <3>2. ASSUME Recent(q) PROVE Recent(q)'
      <4>1. PICK i \in DOMAIN cache :
                /\ cache[i].client = bound[q]
                /\ \A j \in DOMAIN cache : j > i => cache[j].key \in since[q]
        BY <3>2 DEF Recent
      <4>2. PICK n \in DOMAIN cache' :
                /\ cache'[n] = cache[i]
                /\ \A m \in DOMAIN cache' : m > n =>
                       \/ cache'[m].key = k /\ i # IndexOf(cache, k)
                       \/ \E j \in DOMAIN cache : j > i /\ cache'[m] = cache[j]
        BY <1>1, <1>2, MoveToEndOrder
      <4>3. i # IndexOf(cache, k) => k # ClientKey(cfg[q])
        BY <1>1, <2>3, <4>1, OwnItem, IndexOfProperties DEF PoolOK, DistinctKeys
      <4>4. \A m \in DOMAIN cache' : m > n => cache'[m].key \in since'[q]
        BY <3>1, <4>1, <4>2, <4>3
      <4> QED BY <2>1, <4>1, <4>2, <4>4 DEF Recent
    <3> QED BY <2>1, <2>3, <3>1, <3>2 DEF AllSpared, Spared
  <2> QED BY <2>2, <2>3
<1> QED BY <1>3, <1>4 DEF AllSpared

\* A miss takes the first item out.  The request it belongs to, if still active,
\* has the keys of all the others in its history, and now the new one.
LEMMA MissSpares ==
    ASSUME PoolOK, BindingOK, HistoryTypes, AllSpared,
           NEW r \in Requests, NEW h \in Headers, ArriveMiss(r, h)
    PROVE  AllSpared'
<1> DEFINE k == ClientKey(FromHeaders(h))
           new == [id |-> CHOOSE i \in FreeIds : TRUE, config |-> FromHeaders(h)]
           e == [key |-> k, client |-> new]
           b == IF Overflows THEN PopFirst(cache) ELSE cache
<1>1. /\ k \notin KeysOf(cache) /\ cache' = Append(b, e) /\ ~Active(r) /\ FreeIds # {}
      /\ bound' = [bound EXCEPT ![r] = new] /\ LookedUp(r, k)
      /\ cfg' = [cfg EXCEPT ![r] = FromHeaders(h)]
      /\ \A q \in Requests \ {r} : phase'[q] = phase[q]
  BY DEF ArriveMiss, Arrive, PoolOK
<1>2. cache \in Seq(Items) /\ k \in Keys /\ FromHeaders(h) \in HeaderConfigs
  BY DEF PoolOK, Keys, Configs, HeaderConfigs
<1>3. new \in Clients /\ e \in Items /\ e.key = k /\ e.client = new
  BY <1>1, <1>2, NewClientIsNew DEF Items
<1>4. /\ Len(cache) \in Nat /\ DOMAIN cache = 1..Len(cache) /\ MaxClients \in Nat \ {0}
      /\ Overflows => Len(cache) = MaxClients
  BY <1>2, GatewayAssumption, LenProperties DEF Overflows, PoolOK
<1> HIDE DEF k, new, e
<1>5. /\ Overflows => /\ b \in Seq(Items) /\ Len(b) = Len(cache) - 1
                      /\ \A i \in 1..(Len(cache) - 1) : b[i] = cache[i + 1]
      /\ ~Overflows => b = cache
  <2>1. CASE Overflows
    <3>1. cache # <<>> /\ b = Tail(cache)
      BY <1>4, <2>1 DEF PopFirst
    <3> HIDE DEF b
    <3>2. /\ Tail(cache) \in Seq(Items) /\ Len(Tail(cache)) = Len(cache) - 1
          /\ \A i \in 1..Len(Tail(cache)) : Tail(cache)[i] = cache[i + 1]
      BY <1>2, <3>1, HeadTailProperties
    <3> QED BY <2>1, <3>1, <3>2
  <2> QED BY <2>1
<1>6. /\ b \in Seq(Items) /\ Len(b) \in Nat /\ DOMAIN cache' = 1..(Len(b) + 1)
      /\ cache'[Len(b) + 1] = e /\ \A i \in 1..Len(b) : cache'[i] = b[i]
  BY <1>1, <1>2, <1>3, <1>5, AppendProperties, LenProperties
<1> HIDE DEF b
<1>9. /\ \A j \in DOMAIN cache : j \in Nat /\ 1 <= j /\ j <= Len(cache)
      /\ \A j \in DOMAIN cache' : j \in Nat /\ 1 <= j /\ j <= Len(b) + 1
      /\ \A j \in Nat : 1 <= j /\ j <= Len(cache) => j \in DOMAIN cache
      /\ \A j \in Nat : 1 <= j /\ j <= Len(b) + 1 => j \in DOMAIN cache'
  <2>1. DOMAIN cache = 1..Len(cache) /\ Len(cache) \in Nat
    BY <1>4
  <2>2. DOMAIN cache' = 1..(Len(b) + 1) /\ Len(b) \in Nat
    BY <1>6
  <2> QED BY <2>1, <2>2
<1>7. Spared(r)'
  <2>1. since'[r] = {} /\ bound'[r] = new
    BY <1>1 DEF LookedUp, BindingOK
  <2>2. /\ Len(b) + 1 \in DOMAIN cache' /\ \A m \in DOMAIN cache' : ~(m > Len(b) + 1)
        /\ cache'[Len(b) + 1].client = new
    BY <1>3, <1>6
  <2> QED BY <2>1, <2>2, ArrivalSpared
<1>8. ASSUME NEW q \in Requests, q # r PROVE Spared(q)'
  <2>1. phase'[q] = phase[q] /\ bound'[q] = bound[q] /\ cfg'[q] = cfg[q]
    BY <1>1, <1>8 DEF BindingOK
  <2>2. CASE ~Active(q)
    <3>1. since'[q] = {} /\ ~Active(q)'
      BY <1>1, <2>1, <2>2 DEF LookedUp, Active
    <3> QED BY <3>1, FS_EmptySet DEF Spared
  <2>3. CASE Active(q)
    <3>1. /\ IsFiniteSet(since'[q])
          /\ since'[q] = since[q] \cup ({k} \ {ClientKey(cfg[q])})
          /\ ClientKey(cfg[q]) \notin since'[q]
          /\ Cardinality(since[q]) >= MaxClients => Cardinality(since'[q]) >= MaxClients
      BY <1>1, <1>2, <1>8, <2>3, SinceGrows
    <3>2. ASSUME Recent(q) PROVE Recent(q)' \/ Cardinality(since'[q]) >= MaxClients
      <4>1. PICK i \in DOMAIN cache :
                /\ cache[i].client = bound[q]
                /\ \A j \in DOMAIN cache : j > i => cache[j].key \in since[q]
        BY <3>2 DEF Recent
      <4>2. cache[i].key = ClientKey(cfg[q])
        BY <2>3, <4>1, OwnItem
      <4>3. k \in since'[q]
        BY <1>1, <3>1, <4>2 DEF KeysOf
      <4>4. CASE ~Overflows
        <5>1. b = cache /\ i \in 1..Len(b) /\ i \in DOMAIN cache' /\ cache'[i] = cache[i]
          BY <1>5, <1>6, <1>9, <4>4
        <5>2. ASSUME NEW j \in DOMAIN cache', j > i PROVE cache'[j].key \in since'[q]
          <6>1. CASE j = Len(b) + 1
            BY <1>3, <1>6, <4>3, <6>1
          <6>2. CASE j # Len(b) + 1
            <7>1. j \in 1..Len(b) /\ j \in DOMAIN cache
              BY <1>6, <1>9, <5>1, <6>2
            <7>2. cache'[j] = cache[j]
              BY <1>6, <5>1, <7>1
            <7> QED BY <3>1, <4>1, <5>2, <7>1, <7>2
          <6> QED BY <6>1, <6>2
        <5> QED BY <2>1, <4>1, <5>1, <5>2 DEF Recent
      <4>5. CASE Overflows /\ i # 1
        <5>1. i \in Nat /\ i - 1 \in 1..Len(b) /\ (i - 1) + 1 = i /\ Len(b) = Len(cache) - 1
          BY <1>4, <1>5, <1>9, <4>5
        <5>2. i - 1 \in DOMAIN cache' /\ cache'[i - 1] = cache[i]
          BY <1>5, <1>6, <4>5, <5>1
        <5>3. ASSUME NEW j \in DOMAIN cache', j > i - 1 PROVE cache'[j].key \in since'[q]
          <6>1. CASE j = Len(b) + 1
            BY <1>3, <1>6, <4>3, <6>1
          <6>2. CASE j # Len(b) + 1
            <7>1. j \in 1..Len(b) /\ j + 1 \in DOMAIN cache /\ j + 1 > i
              <8>1. j \in Nat /\ 1 <= j /\ j <= Len(b) + 1 /\ Len(b) \in Nat
                BY <1>6, <1>9
              <8>2. Len(cache) \in Nat /\ Len(b) = Len(cache) - 1 /\ i \in Nat
                BY <1>4, <5>1
              <8>3. j <= Len(b)
                BY <6>2, <8>1
              <8>4. j \in 1..Len(b) /\ j + 1 \in Nat /\ 1 <= j + 1 /\ j + 1 <= Len(cache)
                BY <8>1, <8>2, <8>3
              <8>5. j + 1 > i
                BY <5>3, <8>1, <8>2
              <8> QED BY <1>9, <8>4, <8>5
            <7>2. cache'[j] = cache[j + 1]
              BY <1>5, <1>6, <4>5, <5>1, <7>1
            <7> QED BY <3>1, <4>1, <7>1, <7>2
          <6> QED BY <6>1, <6>2
        <5> QED BY <2>1, <4>1, <5>2, <5>3 DEF Recent
      <4>6. CASE Overflows /\ i = 1
        <5> DEFINE K == (KeysOf(cache) \ {ClientKey(cfg[q])}) \cup {k}
        <5>1. \A j \in DOMAIN cache : j # 1 => j > 1
          BY <1>9
        <5>2. \A j \in DOMAIN cache : cache[j].key = ClientKey(cfg[q]) \/ cache[j].key \in since'[q]
          BY <3>1, <4>1, <4>2, <4>6, <5>1
        <5>3. K \subseteq since'[q]
          BY <4>3, <5>2 DEF KeysOf
        <5>4. /\ IsFiniteSet(KeysOf(cache)) /\ Cardinality(KeysOf(cache)) = MaxClients
          BY <1>2, <1>4, <4>6, KeysCounted DEF PoolOK
        <5>5. ClientKey(cfg[q]) \in KeysOf(cache) /\ k \notin KeysOf(cache)
          BY <1>1, <4>2 DEF KeysOf
        <5>6. IsFiniteSet(K) /\ Cardinality(K) = MaxClients
          BY <5>4, <5>5, OneForAnother
        <5>7. Cardinality(K) <= Cardinality(since'[q]) /\ Cardinality(since'[q]) \in Nat
          BY <3>1, <5>3, FS_Subset, FS_CardinalityType
        <5> QED BY <1>4, <5>6, <5>7
      <4> QED BY <4>4, <4>5, <4>6
    <3> QED BY <2>1, <2>3, <3>1, <3>2 DEF AllSpared, Spared
  <2> QED BY <2>2, <2>3
<1> QED BY <1>7, <1>8 DEF AllSpared

\* A step that leaves the pool alone spares the same clients.
LEMMA SparesTheSame ==
    ASSUME AllSpared, HistoryTypes, UNCHANGED <<cache, cfg>>,
           \A q \in Requests : \/ since'[q] = {} /\ ~Active(q)'
                               \/ /\ since'[q] = since[q]
                                  /\ Active(q)' => Active(q) /\ bound'[q] = bound[q]
    PROVE  AllSpared'
<1>1. ASSUME NEW q \in Requests PROVE Spared(q)'
  <2>1. CASE since'[q] = {} /\ ~Active(q)'
    BY <2>1, FS_EmptySet DEF Spared
  <2>2. CASE since'[q] = since[q] /\ (Active(q)' => Active(q) /\ bound'[q] = bound[q])
    BY <2>2 DEF AllSpared, Spared, Recent
  <2> QED BY <2>1, <2>2
<1> QED BY <1>1 DEF AllSpared

\* Every step spares the clients of active requests until maxsize tenants have come.
LEMMA StepSpares ==
    ASSUME PoolOK, BindingOK, HistoryTypes, AllSpared, [Next]_vars
    PROVE  AllSpared'
<1>1. ASSUME UNCHANGED <<cache, cfg, phase, bound, since>> PROVE AllSpared'
  BY <1>1, SparesTheSame DEF Active
<1>2. ASSUME NEW r \in Requests, RequestStep(r) PROVE AllSpared'
  <2>1. ASSUME NEW x \in Phases, phase' = [phase EXCEPT ![r] = x],
               UNCHANGED <<cache, cfg, bound, since>>, x = "done" \/ Active(r)
        PROVE  AllSpared'
    BY <2>1, SparesTheSame DEF Active, BindingOK
  <2>2. ASSUME NEW how, Ends(r, how), UNCHANGED <<cache, cfg>> PROVE AllSpared'
    <3>1. \A q \in Requests : \/ since'[q] = {} /\ ~Active(q)'
                              \/ /\ since'[q] = since[q]
                                 /\ Active(q)' => Active(q) /\ bound'[q] = bound[q]
      BY <2>2 DEF Ends, Active, BindingOK, HistoryTypes
    <3> QED BY <2>2, <3>1, SparesTheSame
  <2>3. {"bound", "calling", "sent", "done"} \subseteq Phases
    BY DEF Phases
  <2>4. CASE Reject(r)
    BY <2>1, <2>3, <2>4 DEF Reject, poolVars
  <2>5. ASSUME NEW h \in Headers, ArriveHit(r, h) \/ ArriveMiss(r, h) PROVE AllSpared'
    BY <2>5, HitSpares, MissSpares
  <2>6. CASE CloseEvicted(r)
    BY <2>1, <2>3, <2>6 DEF CloseEvicted, Active
  <2>7. ASSUME NEW c \in ToolCalls,
               CallDisabled(r, c) \/ CallMismatched(r, c) \/ CallBlocked(r, c)
        PROVE  AllSpared'
    BY <2>2, <2>7 DEF CallDisabled, CallMismatched, CallBlocked, Calls, poolVars
  <2>8. ASSUME NEW c \in ToolCalls, CallRuns(r, c) PROVE AllSpared'
    BY <2>1, <2>3, <2>8 DEF CallRuns, Calls, poolVars, Active
  <2>9. CASE Send(r)
    BY <2>1, <2>3, <2>9 DEF Send, poolVars, Active
  <2>10. CASE Retry(r)
    BY <2>1, <2>3, <2>10 DEF Retry, poolVars, Active
  <2>11. CASE SendOnClosed(r) \/ Reply(r) \/ Fail(r) \/ PollCrash(r)
    <3>1. UNCHANGED <<cache, cfg>> /\ Active(r)
      BY <2>11, AttemptOver DEF poolVars, Active
    <3>2. ASSUME NEW n, GoesOn(r, n) PROVE AllSpared'
      BY <2>1, <2>3, <3>1, <3>2 DEF GoesOn
    <3> QED BY <2>2, <2>11, <3>1, <3>2, AttemptOver
  <2>12. CASE Perform(r)
    BY <1>1, <2>12 DEF Perform, poolVars
  <2> QED
    BY <1>2, <2>4, <2>5, <2>6, <2>7, <2>8, <2>9, <2>10, <2>11, <2>12
       DEF RequestStep, Advance, Dispatch, AttemptEnds
<1>3. CASE RetireAll
  <2>1. \A q \in Requests : ~Active(q) /\ ~Active(q)' /\ since'[q] = since[q]
    BY <1>3 DEF RetireAll, Active
  <2> QED BY <2>1 DEF AllSpared, Spared
<1> QED
  BY <1>1, <1>2, <1>3 DEF Next, vars, StopAccepting, CloseRetired

\* The pool evicts by use: while fewer than maxsize other tenants have come since a
\* request arrived, its client stays open under it (multitenant.py:69-81).
THEOREM ActiveSpared == Spec => []LRUSparesActive
<1>1. Init => AllSpared
  BY FS_EmptySet DEF Init, AllSpared, Spared, Active
<1>2. GatewayInv /\ AllSpared /\ [Next]_vars => AllSpared'
  BY StepSpares DEF GatewayInv
<1>3. GatewayInv /\ AllSpared => LRUSparesActive
  <2>1. ASSUME GatewayInv, NEW r \in Requests, Recent(r) PROVE bound[r] \in open
    BY <2>1 DEF Recent, CachedClients, GatewayInv, PoolOK
  <2> QED BY <2>1 DEF AllSpared, Spared, LRUSparesActive
<1> QED BY <1>1, <1>2, <1>3, GatewayInvariant, PTL DEF Spec
================================================================================
