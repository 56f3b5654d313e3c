-------------------------------- MODULE TTLCache --------------------------------
(***************************************************************************)
(* The in-memory response cache of one ThrukClient (cache.py).             *)
(*                                                                         *)
(* Time is counted in ticks.  An entry holds `life', the ticks that remain *)
(* until its expires_at, so that a state does not depend on how long the   *)
(* program has run: expires_at - clock() is what the code compares.  The   *)
(* body of get, set and clear runs under the cache's lock and never awaits *)
(* inside it, so each is one step.                                         *)
(***************************************************************************)
EXTENDS OrderedDict

CONSTANTS
    CacheKeys,        \* (url, sorted params) of the cacheable requests
    Payloads,         \* decoded JSON bodies
    Null,             \* the JSON value null, None in Python
    TTL,              \* default_ttl, in ticks
    MaxSize           \* maxsize

ASSUME CacheAssumption ==
    /\ Null \in Payloads
    /\ TTL \in Nat \ {0}
    /\ MaxSize \in Nat \ {0}

VARIABLE store        \* self._store

Entry == [key : CacheKeys, value : Payloads, life : 0..TTL]

CacheInit == store = <<>>

\* The entry for k exists and its deadline has not passed.
Fresh(k) == k \in KeysOf(store) /\ Lookup(store, k).life > 0

\* What get(k) returns: None for an absent or expired key, and also for a
\* cached null, which the caller cannot tell from a miss.
Cached(k) == IF Fresh(k) THEN Lookup(store, k).value ELSE Null

\* get(k): a live entry becomes the most recently used, an expired one is popped.
CacheGet_Slides(k) ==
    store' = IF Fresh(k) THEN Append(Pop(store, k), [Lookup(store, k) EXCEPT !.life = TTL])
             ELSE IF k \in KeysOf(store) THEN Pop(store, k)
             ELSE store
CacheGet(k) ==
    store' = IF Fresh(k) THEN MoveToEnd(store, k)
             ELSE IF k \in KeysOf(store) THEN Pop(store, k)
             ELSE store

\* set(k, v): room is made only for a new key, by dropping the head.
CacheSet_LateEviction(k, v) ==
    LET new  == [key |-> k, value |-> v, life |-> TTL]
        room == IF k \in KeysOf(store) THEN Pop(store, k)
                ELSE IF Len(store) > MaxSize THEN PopFirst(store)
                ELSE store
    IN  store' = Append(room, new)
CacheSet(k, v) ==
    LET new  == [key |-> k, value |-> v, life |-> TTL]
        room == IF k \in KeysOf(store) THEN Pop(store, k)
                ELSE IF Len(store) >= MaxSize THEN PopFirst(store)
                ELSE store
    IN  store' = Append(room, new)

\* clear(); the program itself never calls it.
CacheClear == store' = <<>>

\* The clock advances by one tick.
CacheTick ==
    store' = [i \in DOMAIN store |->
                 [store[i] EXCEPT !.life = IF @ > 0 THEN @ - 1 ELSE 0]]

CacheNext ==
    \/ \E k \in CacheKeys : CacheGet(k)
    \/ \E k \in CacheKeys, v \in Payloads : CacheSet(k, v)
    \/ CacheClear
    \/ CacheTick

CacheSpec == CacheInit /\ [][CacheNext]_store

\* The cache never holds more than maxsize entries nor one key twice: an update
\* of a present key replaces its entry and every other insert first makes room
\* (cache.py:59-65).
CacheOK ==
    /\ store \in Seq(Entry)
    /\ DistinctKeys(store)
    /\ Len(store) <= MaxSize
================================================================================
