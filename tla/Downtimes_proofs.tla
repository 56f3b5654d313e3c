---------------------------- MODULE Downtimes_proofs ----------------------------
(* DowntimesTypeOK, OnlyMeantDeleted and NothingOverlooked for every set of     *)
(* calls, requests and downtimes.                                               *)
EXTENDS Downtimes, TLAPS

----------------------------------------------------------------------------
(* The inductive invariant. *)

Before == {"idle", "routing", "resolving", "commanding", "listing", "napping"}
CoveredBy(k, d) ==
    \/ d \in k.told \cup k.failed
    \/ k.ordered /\ (ByHost(k.req) => ~OwnOfHost(d))

\* Which tools get where, and with which bulk command already given.
RouteOK(k) ==
    /\ k.phase \in {"resolving", "commanding"} => k.req.tool = "by_filter"
    /\ k.phase = "commanding" => ~ByComment(k.req)
    /\ k.phase = "routing" => k.req.tool = "by_id"
    /\ k.phase = "listing" =>
         \/ k.req.tool = "active"
         \/ k.req.tool = "by_filter" /\ ByHost(k.req) /\ (ByComment(k.req) \/ k.ordered)
    /\ k.phase = "napping" => k.req.tool = "active"

\* What is left to delete.
TodoOK(k) ==
    /\ k.phase \in Before => /\ k.todo = {} /\ k.later = {}
                             /\ k.told = {} /\ k.failed = {}
    /\ k.phase = "deleting" => k.todo # {}
    /\ k.phase = "done" => k.todo = {} /\ k.later = {}
    /\ k.todo \cap (k.later \cup k.told \cup k.failed) = {}
    /\ k.later \cap (k.told \cup k.failed) = {}

\* No downtime the call should see drops out between the listing and its end.
SeenOK(k, visible) ==
    /\ k.phase # "idle" /\ k.req.tool = "active" => visible \subseteq started
    /\ k.phase \in {"deleting", "done"} =>
         \A d \in visible : Meant(k.req, d) => CoveredBy(k, d) \/ d \in k.todo \cup k.later

RecordOK(c, k) ==
    /\ k \in CallRecords
    /\ k.phase # "idle" => k.req \in Requests[c]
    /\ \A d \in k.todo \cup k.later : Meant(k.req, d)
    /\ RouteOK(k) /\ TodoOK(k)

\* A command was given by a call that means all it can hit.
Backs(k, cmd) ==
    /\ k.phase # "idle"
    /\ cmd.by = "filter" => k.req = cmd.of /\ k.req.tool = "by_filter"
    /\ cmd.by = "id" => Meant(k.req, cmd.id)

CoreOK ==
    /\ fresh \in SUBSET Downtimes /\ booked \in SUBSET (Downtimes \ fresh)
    /\ started \in SUBSET booked
    /\ deleted \in SUBSET (Downtimes \ (fresh \cup booked))
    /\ pipe \in SUBSET Commands
    /\ seen \in [Calls -> SUBSET booked]
CallsOK == /\ call \in [Calls -> CallRecords]
           /\ \A c \in Calls : RecordOK(c, call[c]) /\ SeenOK(call[c], seen[c])
PipeOK == \A cmd \in pipe : \E c \in Calls : Backs(call[c], cmd)
DInv == CoreOK /\ CallsOK /\ PipeOK /\ OnlyMeantDeleted
----------------------------------------------------------------------------
(* The look-ups find what is meant. *)

\* Listed finds nothing that is not meant (commands.py:791-798, 945-948, 1001-1012).
LEMMA ListedIsMeant ==
    ASSUME NEW r, NEW d \in Listed(r),
           \/ r.tool = "active" /\ r.host # None
           \/ r.tool = "by_filter" /\ ByHost(r)
    PROVE  Meant(r, d)
<1>1. CASE r.tool = "active"
  <2>1. Listed(r) = ActiveMatches(r)
    BY <1>1, Zenon DEF Listed
  <2>2. Of[d].host = r.host /\ Of[d].service = r.service
    BY <1>1, <2>1 DEF ActiveMatches, OfHost, Narrow
  <2> QED
    BY <1>1, <2>2 DEF Meant
<1>2. CASE r.tool = "by_filter" /\ ByComment(r)
  BY <1>2 DEF Listed, CommentMatches, OfHost, Narrow, Meant, ByHost, ByComment
<1>3. CASE r.tool = "by_filter" /\ ByHost(r) /\ ~ByComment(r)
  BY <1>3 DEF Listed, OwnMatches, OfHost, Narrow, Meant, ByHost, ByComment, OwnOfHost
<1> QED
  BY <1>1, <1>2, <1>3

\* Listed finds all that is meant, but what the bulk command covers.
LEMMA MeantIsListed ==
    ASSUME NEW r, NEW d, Meant(r, d),
           \/ r.tool = "active" /\ r.group = None /\ d \in started
           \/ r.tool = "by_filter" /\ ByHost(r) /\ d \in booked /\ (ByComment(r) \/ OwnOfHost(d))
    PROVE  d \in Listed(r)
<1>1. CASE r.tool = "active" /\ r.group = None /\ d \in started
  <2>1. Listed(r) = ActiveMatches(r)
    BY <1>1, Zenon DEF Listed
  <2>2. Of[d].host = r.host /\ Of[d].service = r.service
    BY <1>1 DEF Meant
  <2> QED
    BY <1>1, <2>1, <2>2 DEF ActiveMatches, OfHost, Narrow
<1>2. CASE r.tool = "by_filter" /\ ByComment(r) /\ d \in booked
  BY <1>2 DEF Listed, CommentMatches, OfHost, Narrow, Meant, ByHost, ByComment
<1>3. CASE r.tool = "by_filter" /\ ByHost(r) /\ ~ByComment(r) /\ d \in booked /\ OwnOfHost(d)
  BY <1>3 DEF Listed, OwnMatches, OfHost, Narrow, Meant, ByHost, ByComment
<1> QED
  BY <1>1, <1>2, <1>3

LEMMA ListedIsBooked ==
    ASSUME NEW r, CoreOK
    PROVE  Listed(r) \subseteq booked /\ Listed(r) \subseteq Downtimes
  BY DEF Listed, ActiveMatches, CommentMatches, OwnMatches, CoreOK

\* A bulk command hits nothing that is not meant (commands.py:912-938).
LEMMA BulkIsMeant ==
    ASSUME NEW r, r.tool = "by_filter", NEW d \in BulkHits(r)
    PROVE  Meant(r, d)
  BY DEF BulkHits, OfHost, Narrow, Meant, ByHost
----------------------------------------------------------------------------
(* A call moves on: its new record is sound, and what it adds to the pipe it    *)
(* means.                                                                       *)

LEMMA Moves ==
    ASSUME DInv, NEW c \in Calls, NEW new, Become(c, new),
           RecordOK(c, new), SeenOK(new, seen'[c]), new.phase # "idle",
           UNCHANGED <<fresh, booked, started, deleted>>,
           \A cmd \in pipe' : cmd \in pipe \/ (cmd \in Commands /\ Backs(new, cmd)),
           call[c].phase = "idle" \/ new.req = call[c].req,
           seen' \in [Calls -> SUBSET booked],
           \A x \in Calls \ {c} : seen'[x] = seen[x]
    PROVE  DInv'
<1>1. /\ call' \in [Calls -> CallRecords]
      /\ call'[c] = new
      /\ \A x \in Calls \ {c} : call'[x] = call[x]
  BY DEF DInv, CallsOK, RecordOK, Become
<1>2. CoreOK'
  BY DEF DInv, CoreOK
<1>3. \A x \in Calls : (RecordOK(x, call[x]) /\ SeenOK(call[x], seen[x]))'
  <2> TAKE x \in Calls
  <2>1. CASE x = c
    BY <2>1, <1>1 DEF RecordOK, SeenOK
  <2>2. CASE x # c
    BY <2>2, <1>1 DEF DInv, CallsOK, RecordOK, SeenOK
  <2> QED
    BY <2>1, <2>2
<1>4. \A x \in Calls, cmd \in pipe : Backs(call[x], cmd) => Backs(call'[x], cmd)
  BY <1>1 DEF Backs
<1>5. PipeOK'
  <2> SUFFICES ASSUME NEW cmd \in pipe' PROVE \E x \in Calls : Backs(call'[x], cmd)
    BY DEF PipeOK, Backs
  <2>1. CASE cmd \in pipe
    BY <2>1, <1>4 DEF DInv, PipeOK
  <2>2. CASE Backs(new, cmd)
    BY <2>2, <1>1
  <2> QED
    BY <2>1, <2>2
<1>6. OnlyMeantDeleted'
  <2> SUFFICES ASSUME NEW d \in deleted
               PROVE  \E x \in Calls : call'[x].phase # "idle" /\ Meant(call'[x].req, d)
    BY DEF OnlyMeantDeleted
  <2>1. PICK x \in Calls : call[x].phase # "idle" /\ Meant(call[x].req, d)
    BY DEF DInv, OnlyMeantDeleted
  <2>2. call'[x].phase # "idle" /\ call'[x].req = call[x].req
    BY <2>1, <1>1
  <2> QED
    BY <2>1, <2>2
<1> QED
  BY <1>1, <1>2, <1>3, <1>5, <1>6 DEF DInv, CallsOK

\* The same for a call under way that adds nothing to the pipe.
LEMMA MovesOn ==
    ASSUME DInv, NEW c \in Calls, NEW new, Become(c, new),
           RecordOK(c, new), SeenOK(new, seen[c]), new.phase # "idle",
           UNCHANGED <<fresh, booked, started, deleted, pipe, seen>>,
           new.req = call[c].req
    PROVE  DInv'
  BY Moves DEF DInv, CoreOK
----------------------------------------------------------------------------
(* The steps of a call. *)

LEMMA BeginOK ==
    ASSUME DInv, NEW c \in Calls, Begin(c)
    PROVE  DInv'
<1>1. PICK r \in Requests[c] :
        /\ call[c].phase = "idle"
        /\ Become(c, [Idle EXCEPT !.req = r, !.phase = Entry(r),
                                  !.todo = IF Entry(r) = "deleting" THEN {r.id} ELSE {}])
        /\ seen' = [seen EXCEPT ![c] = Visible(r)]
        /\ UNCHANGED core
  BY DEF Begin
<1> DEFINE new == [Idle EXCEPT !.req = r, !.phase = Entry(r),
                               !.todo = IF Entry(r) = "deleting" THEN {r.id} ELSE {}]
<1>2. /\ r \in Given
      /\ r.tool \in {"by_id", "active", "by_filter"}
      /\ r.tool = "by_id" => r.id \in Downtimes
  BY DowntimesAssumption DEF Given
<1>3. /\ Entry(r) \in {"routing", "deleting", "listing", "raised", "resolving", "commanding"}
      /\ Entry(r) = "deleting" => r.tool = "by_id"
      /\ Entry(r) = "routing" => r.tool = "by_id"
      /\ Entry(r) \in {"resolving", "commanding"} => r.tool = "by_filter"
      /\ Entry(r) = "commanding" => ~ByComment(r)
      /\ Entry(r) = "listing" => r.tool = "active" \/ (r.tool = "by_filter" /\ ByComment(r))
  BY <1>2 DEF Entry, FilterEntry, AfterResolving
<1>4. /\ new.req = r /\ new.phase = Entry(r) /\ new.later = {}
      /\ new.told = {} /\ new.failed = {}
      /\ new.todo = (IF Entry(r) = "deleting" THEN {r.id} ELSE {})
  BY DEF Idle
<1>5. new \in CallRecords
  BY <1>2, <1>3 DEF CallRecords, Idle, Phases
<1>6. \A d \in new.todo \cup new.later : Meant(r, d)
  BY <1>3, <1>4 DEF Meant
<1>7. RouteOK(new)
  BY <1>3, <1>4 DEF RouteOK, ByComment
<1>8. TodoOK(new)
  BY <1>3, <1>4 DEF TodoOK, Before
<1>9. Visible(r) \subseteq booked /\ (r.tool = "active" => Visible(r) \subseteq started)
  BY DEF Visible, DInv, CoreOK
<1>10. SeenOK(new, Visible(r))
  <2>1. Entry(r) = "deleting" => \A d : Meant(r, d) => d \in new.todo
    BY <1>3, <1>4 DEF Meant
  <2> QED
    BY <2>1, <1>3, <1>4, <1>9 DEF SeenOK
<1>11. /\ seen' \in [Calls -> SUBSET booked] /\ seen'[c] = Visible(r)
       /\ \A x \in Calls \ {c} : seen'[x] = seen[x]
  BY <1>1, <1>9 DEF DInv, CoreOK
<1>12. RecordOK(c, new)
  BY <1>4, <1>5, <1>6, <1>7, <1>8 DEF RecordOK
<1>13. new.phase # "idle"
  BY <1>3, <1>4
<1>14. Become(c, new) /\ UNCHANGED <<fresh, booked, started, deleted, pipe>>
  BY <1>1 DEF core
<1> HIDE DEF new
<1> QED
  BY <1>1, <1>10, <1>11, <1>12, <1>13, <1>14, Moves

LEMMA RouteStepOK ==
    ASSUME DInv, NEW c \in Calls, Route(c)
    PROVE  DInv'
<1> DEFINE k == call[c]
           new == [call[c] EXCEPT !.phase = "deleting", !.todo = {call[c].req.id}]
<1>1. k.phase = "routing" /\ RecordOK(c, k) /\ SeenOK(k, seen[c])
  BY DEF Route, DInv, CallsOK
<1>2. /\ k \in CallRecords /\ k.req \in Given /\ k.req.tool = "by_id"
      /\ k.req.id \in Downtimes
      /\ k.later = {} /\ k.told = {} /\ k.failed = {}
  BY <1>1, DowntimesAssumption DEF RecordOK, RouteOK, TodoOK, Before, Given
<1>3. /\ new.phase = "deleting" /\ new.todo = {k.req.id} /\ new.req = k.req
      /\ new.later = {} /\ new.told = {} /\ new.failed = {}
      /\ new \in CallRecords
  BY <1>2 DEF CallRecords, Phases
<1>4. \A d : Meant(k.req, d) <=> d = k.req.id
  BY <1>2 DEF Meant
<1>5. RecordOK(c, new)
  BY <1>1, <1>3, <1>4 DEF RecordOK, RouteOK, TodoOK, Before
<1>6. SeenOK(new, seen[c])
  BY <1>2, <1>3, <1>4 DEF SeenOK
<1>7. Become(c, new) /\ UNCHANGED <<fresh, booked, started, deleted, pipe, seen>>
  BY DEF Route, core
<1> HIDE DEF new
<1> QED
  BY <1>3, <1>5, <1>6, <1>7, MovesOn

LEMMA ResolveOK ==
    ASSUME DInv, NEW c \in Calls, Resolve(c)
    PROVE  DInv'
<1> DEFINE k == call[c]
           new == [call[c] EXCEPT !.phase = AfterResolving(call[c].req)]
<1>1. k.phase = "resolving" /\ RecordOK(c, k) /\ SeenOK(k, seen[c])
  BY DEF Resolve, DInv, CallsOK
<1>2. /\ k \in CallRecords /\ k.req.tool = "by_filter"
      /\ k.todo = {} /\ k.later = {} /\ k.told = {} /\ k.failed = {}
  BY <1>1 DEF RecordOK, RouteOK, TodoOK, Before
<1>3. /\ AfterResolving(k.req) \in {"listing", "commanding"}
      /\ AfterResolving(k.req) = "listing" <=> ByComment(k.req)
  BY DEF AfterResolving
<1>4. /\ new.phase = AfterResolving(k.req) /\ new.req = k.req
      /\ new.todo = {} /\ new.later = {} /\ new.told = {} /\ new.failed = {}
      /\ new \in CallRecords
  BY <1>2, <1>3 DEF CallRecords, Phases
<1>5. RecordOK(c, new)
  BY <1>1, <1>2, <1>3, <1>4 DEF RecordOK, RouteOK, TodoOK, Before, ByComment
<1>6. SeenOK(new, seen[c])
  BY <1>1, <1>2, <1>3, <1>4 DEF SeenOK
<1>7. Become(c, new) /\ UNCHANGED <<fresh, booked, started, deleted, pipe, seen>>
  BY DEF Resolve, core
<1>8. new.phase # "idle"
  BY <1>3, <1>4
<1> HIDE DEF new
<1> QED
  BY <1>4, <1>5, <1>6, <1>7, <1>8, MovesOn

LEMMA CommandOK ==
    ASSUME DInv, NEW c \in Calls, Command(c)
    PROVE  DInv'
<1> DEFINE k == call[c]
           new == [call[c] EXCEPT !.ordered = TRUE,
                                  !.phase = IF ByHost(call[c].req) THEN "listing" ELSE "done"]
           cmd == [by |-> "filter", of |-> call[c].req]
<1>1. k.phase = "commanding" /\ RecordOK(c, k) /\ SeenOK(k, seen[c])
  BY DEF Command, DInv, CallsOK
<1>2. /\ k \in CallRecords /\ k.req.tool = "by_filter" /\ k.req \in Given
      /\ k.todo = {} /\ k.later = {} /\ k.told = {} /\ k.failed = {}
  BY <1>1 DEF RecordOK, RouteOK, TodoOK, Before, Given
<1>3. /\ new.phase = (IF ByHost(k.req) THEN "listing" ELSE "done")
      /\ new.req = k.req /\ new.ordered = TRUE
      /\ new.todo = {} /\ new.later = {} /\ new.told = {} /\ new.failed = {}
      /\ new \in CallRecords
  BY <1>2 DEF CallRecords, Phases
<1>4. new.phase \in {"listing", "done"} /\ (new.phase = "listing" <=> ByHost(k.req))
  BY <1>3
<1>5. RecordOK(c, new)
  BY <1>1, <1>2, <1>3, <1>4 DEF RecordOK, RouteOK, TodoOK, Before
<1>6. SeenOK(new, seen[c])
  BY <1>2, <1>3, <1>4 DEF SeenOK, CoveredBy
<1>7. /\ Become(c, new) /\ UNCHANGED <<fresh, booked, started, deleted, seen>>
      /\ pipe' = pipe \cup {cmd}
  BY DEF Command
<1>8. cmd \in Commands /\ Backs(new, cmd)
  BY <1>2, <1>3, <1>4 DEF Commands, Backs
<1>9. seen' \in [Calls -> SUBSET booked] /\ seen'[c] = seen[c]
  BY <1>7 DEF DInv, CoreOK
<1> HIDE DEF new, cmd
<1> QED
  BY <1>3, <1>4, <1>5, <1>6, <1>7, <1>8, <1>9, Moves

LEMMA FailOK ==
    ASSUME DInv, NEW c \in Calls, Fail(c)
    PROVE  DInv'
<1> DEFINE k == call[c]
           new == [call[c] EXCEPT !.phase = "raised"]
           cmd == [by |-> "filter", of |-> call[c].req]
<1>1. /\ k.phase \in {"routing", "resolving", "commanding", "listing"}
      /\ RecordOK(c, k) /\ SeenOK(k, seen[c])
  BY DEF Fail, DInv, CallsOK
<1>2. /\ k \in CallRecords /\ k.req \in Given
      /\ k.todo = {} /\ k.later = {} /\ k.told = {} /\ k.failed = {}
  BY <1>1 DEF RecordOK, TodoOK, Before, Given
<1>3. /\ new.phase = "raised" /\ new.req = k.req
      /\ new.todo = {} /\ new.later = {} /\ new.told = {} /\ new.failed = {}
      /\ new \in CallRecords
  BY <1>2 DEF CallRecords, Phases
<1>4. RecordOK(c, new)
  BY <1>1, <1>3 DEF RecordOK, RouteOK, TodoOK, Before
<1>5. SeenOK(new, seen[c])
  BY <1>1, <1>3 DEF SeenOK
<1>6. Become(c, new) /\ UNCHANGED <<fresh, booked, started, deleted, seen>>
  BY DEF Fail
<1>7. pipe' = pipe \/ (k.phase = "commanding" /\ pipe' = pipe \cup {cmd})
  BY DEF Fail
<1>8. k.phase = "commanding" => cmd \in Commands /\ Backs(new, cmd)
  BY <1>1, <1>2, <1>3 DEF Commands, Backs, RecordOK, RouteOK
<1>9. seen' \in [Calls -> SUBSET booked] /\ seen'[c] = seen[c]
  BY <1>6 DEF DInv, CoreOK
<1> HIDE DEF new, cmd
<1> QED
  BY <1>3, <1>4, <1>5, <1>6, <1>7, <1>8, <1>9, Moves

\* A look at the list: what it finds is meant, and finds all that has to be.
LEMMA ListOK ==
    ASSUME DInv, NEW c \in Calls, List(c)
    PROVE  DInv'
<1> DEFINE k == call[c]
           rows == Listed(call[c].req)
<1>1. k.phase = "listing" /\ RecordOK(c, k) /\ SeenOK(k, seen[c])
  BY DEF List, DInv, CallsOK
<1>2. /\ k \in CallRecords /\ k.req \in Given /\ k.req \in Requests[c]
      /\ k.todo = {} /\ k.later = {} /\ k.told = {} /\ k.failed = {}
  BY <1>1 DEF RecordOK, TodoOK, Before, Given
<1>3. \/ k.req.tool = "active" /\ k.req.host # None /\ k.req.group = None
      \/ k.req.tool = "by_filter" /\ ByHost(k.req) /\ (ByComment(k.req) \/ k.ordered)
  BY <1>1, <1>2, DowntimesAssumption DEF RecordOK, RouteOK
<1>4. \A d \in rows : Meant(k.req, d)
  BY <1>3, ListedIsMeant
<1>5. rows \subseteq Downtimes
  BY ListedIsBooked DEF DInv
<1>6. \A d \in seen[c] : Meant(k.req, d) => d \in rows \/ CoveredBy(k, d)
  <2> TAKE d \in seen[c]
  <2> HAVE Meant(k.req, d)
  <2>1. d \in booked
    BY DEF DInv, CoreOK
  <2>2. CASE k.req.tool = "active"
    <3>1. d \in started
      BY <2>2, <1>1 DEF SeenOK
    <3> QED
      BY <2>2, <3>1, <1>3, MeantIsListed
  <2>3. CASE k.req.tool = "by_filter" /\ (ByComment(k.req) \/ OwnOfHost(d))
    BY <2>1, <2>3, <1>3, MeantIsListed
  <2>4. CASE k.req.tool = "by_filter" /\ ~ByComment(k.req) /\ ~OwnOfHost(d)
    BY <2>4, <1>3 DEF CoveredBy
  <2> QED
    BY <2>2, <2>3, <2>4, <1>3
<1>7. UNCHANGED <<fresh, booked, started, deleted, pipe, seen>>
  BY DEF List, core
<1>8. CASE rows = {}
  <2> DEFINE new == [call[c] EXCEPT !.phase = IF MayRetry(c) THEN "napping" ELSE "done"]
  <2>1. Become(c, new)
    BY <1>8 DEF List, FoundNothing
  <2>2. /\ new.phase \in {"napping", "done"} /\ new.req = k.req /\ new.ordered = k.ordered
        /\ new.todo = {} /\ new.later = {} /\ new.told = {} /\ new.failed = {}
        /\ new \in CallRecords
    BY <1>2 DEF CallRecords, Phases
  <2>3. new.phase = "napping" => k.req.tool = "active"
    BY <1>2 DEF MayRetry, CallRecords
  <2>4. RecordOK(c, new)
    BY <1>2, <2>2, <2>3 DEF RecordOK, RouteOK, TodoOK, Before
  <2>5. SeenOK(new, seen[c])
    BY <1>1, <1>2, <1>6, <1>8, <2>2 DEF SeenOK, CoveredBy
  <2> HIDE DEF new
  <2> QED
    BY <1>7, <2>1, <2>2, <2>4, <2>5, MovesOn
<1>9. CASE rows # {}
  <2> DEFINE own == {d \in rows : OwnOfHost(d)}
             first == IF call[c].req.tool = "active" \/ own = {} THEN rows ELSE own
             new == [call[c] EXCEPT !.phase = "deleting", !.todo = first, !.later = rows \ first]
  <2>1. Become(c, new)
    BY <1>9 DEF List, FoundSome
  <2>2. first # {} /\ first \subseteq rows
    BY <1>9
  <2>3. /\ new.phase = "deleting" /\ new.req = k.req /\ new.ordered = k.ordered
        /\ new.todo = first /\ new.later = rows \ first /\ new.told = {} /\ new.failed = {}
        /\ new \in CallRecords
    <3> HIDE DEF first, rows
    <3> QED
      BY <1>2, <1>5, <2>2 DEF CallRecords, Phases
  <2>4. RecordOK(c, new)
    <3> HIDE DEF first, rows, new
    <3> QED
      BY <1>2, <1>4, <2>2, <2>3 DEF RecordOK, RouteOK, TodoOK, Before
  <2>5. SeenOK(new, seen[c])
    <3> HIDE DEF first, rows, new
    <3> QED
      BY <1>1, <1>2, <1>6, <2>2, <2>3 DEF SeenOK, CoveredBy
  <2> HIDE DEF new
  <2> QED
    BY <1>7, <2>1, <2>3, <2>4, <2>5, MovesOn
<1> QED
  BY <1>8, <1>9

LEMMA NapOK ==
    ASSUME DInv, NEW c \in Calls, Nap(c)
    PROVE  DInv'
<1> DEFINE k == call[c]
           new == [call[c] EXCEPT !.phase = "listing", !.napped = TRUE]
<1>1. k.phase = "napping" /\ RecordOK(c, k) /\ SeenOK(k, seen[c])
  BY DEF Nap, DInv, CallsOK
<1>2. /\ k \in CallRecords /\ k.req.tool = "active"
      /\ k.todo = {} /\ k.later = {} /\ k.told = {} /\ k.failed = {}
  BY <1>1 DEF RecordOK, RouteOK, TodoOK, Before
<1>3. /\ new.phase = "listing" /\ new.req = k.req
      /\ new.todo = {} /\ new.later = {} /\ new.told = {} /\ new.failed = {}
      /\ new \in CallRecords
  BY <1>2 DEF CallRecords, Phases
<1>4. RecordOK(c, new)
  BY <1>1, <1>2, <1>3 DEF RecordOK, RouteOK, TodoOK, Before
<1>5. SeenOK(new, seen[c])
  BY <1>1, <1>3 DEF SeenOK
<1>6. Become(c, new) /\ UNCHANGED <<fresh, booked, started, deleted, pipe, seen>>
  BY DEF Nap, core
<1> HIDE DEF new
<1> QED
  BY <1>3, <1>4, <1>5, <1>6, MovesOn

\* One deletion of the gather is over, reported as done or as failed.
Ended(k, d, told, failed, phase) ==
    [Settled(k, d) EXCEPT !.told = told, !.failed = failed, !.phase = phase]
LEMMA SettledOK ==
    ASSUME DInv, NEW c \in Calls, call[c].phase = "deleting", NEW d \in call[c].todo,
           NEW told \in SUBSET Downtimes, NEW failed \in SUBSET Downtimes,
           told \cup failed = call[c].told \cup call[c].failed \cup {d},
           NEW phase, phase = Settled(call[c], d).phase \/ phase = "raised"
    PROVE  /\ RecordOK(c, Ended(call[c], d, told, failed, phase))
           /\ SeenOK(Ended(call[c], d, told, failed, phase), seen[c])
           /\ Ended(call[c], d, told, failed, phase).phase # "idle"
           /\ Ended(call[c], d, told, failed, phase).req = call[c].req
<1> DEFINE k == call[c]
           last == k.todo = {d}
           new == Ended(k, d, told, failed, phase)
<1>1. RecordOK(c, k) /\ SeenOK(k, seen[c]) /\ k \in CallRecords
  BY DEF DInv, CallsOK
<1>2. /\ Settled(k, d).req = k.req /\ Settled(k, d).ordered = k.ordered
      /\ Settled(k, d) \in CallRecords
      /\ Settled(k, d).todo = (IF last THEN k.later ELSE k.todo \ {d})
      /\ Settled(k, d).later = (IF last THEN {} ELSE k.later)
      /\ Settled(k, d).phase = (IF last /\ k.later = {} THEN "done" ELSE "deleting")
  BY <1>1 DEF Settled, CallRecords, Phases
<1>3. /\ new.req = k.req /\ new.ordered = k.ordered
      /\ new.told = told /\ new.failed = failed /\ new.phase = phase
      /\ new.todo = (IF last THEN k.later ELSE k.todo \ {d})
      /\ new.later = (IF last THEN {} ELSE k.later)
      /\ phase \in {"deleting", "done", "raised"}
      /\ phase = "deleting" => ~(last /\ k.later = {})
      /\ phase = "done" => last /\ k.later = {}
  BY <1>2 DEF CallRecords, Ended
<1>4. new \in CallRecords
  BY <1>2, <1>3 DEF CallRecords, Phases, Ended
<1>5. new.todo \cup new.later = (k.todo \cup k.later) \ {d}
  BY <1>1, <1>3 DEF RecordOK, TodoOK
<1>6. TodoOK(new)
  <2>1. /\ k.todo \cap (k.later \cup k.told \cup k.failed) = {}
        /\ k.later \cap (k.told \cup k.failed) = {}
    BY <1>1 DEF RecordOK, TodoOK
  <2>2. CASE last
    BY <2>1, <2>2, <1>3 DEF TodoOK, Before
  <2>3. CASE ~last
    BY <2>1, <2>3, <1>3 DEF TodoOK, Before
  <2> QED
    BY <2>2, <2>3
<1> HIDE DEF last, new
<1>7. RecordOK(c, new)
  BY <1>1, <1>3, <1>4, <1>5, <1>6 DEF RecordOK, RouteOK
<1>8. SeenOK(new, seen[c])
  <2>1. new.req.tool = "active" => seen[c] \subseteq started
    BY <1>1, <1>3 DEF SeenOK
  <2>2. ASSUME NEW e \in seen[c], Meant(k.req, e)
        PROVE  CoveredBy(new, e) \/ e \in new.todo \cup new.later
    <3>1. CoveredBy(k, e) \/ e \in k.todo \cup k.later
      BY <1>1, <2>2 DEF SeenOK
    <3>2. CASE CoveredBy(k, e)
      BY <3>2, <1>3 DEF CoveredBy
    <3>3. CASE e = d
      BY <3>3, <1>3 DEF CoveredBy
    <3>4. CASE e \in (k.todo \cup k.later) \ {d}
      BY <3>4, <1>5
    <3> QED
      BY <3>1, <3>2, <3>3, <3>4
  <2> QED
    BY <2>1, <2>2, <1>3 DEF SeenOK
<1> QED
  BY <1>3, <1>7, <1>8 DEF new

LEMMA ByIdIsBacked ==
    ASSUME DInv, NEW c \in Calls, call[c].phase = "deleting", NEW d \in call[c].todo,
           NEW new, new.phase # "idle", new.req = call[c].req
    PROVE  ById(c, d) \in Commands /\ Backs(new, ById(c, d))
<1>1. /\ call[c].req \in Given /\ d \in Downtimes
      /\ Meant(call[c].req, d)
  BY DEF DInv, CallsOK, RecordOK, CallRecords, Given
<1>2. Endpoint(call[c].req, d) \in OfServices
  BY <1>1 DEF Endpoint, OfServices
<1> QED
  BY <1>1, <1>2 DEF ById, Commands, Backs

LEMMA DeleteAnsweredOK ==
    ASSUME DInv, NEW c \in Calls, DeleteAnswered(c)
    PROVE  DInv'
<1>1. PICK d \in call[c].todo :
        /\ call[c].phase = "deleting"
        /\ pipe' = pipe \cup {ById(c, d)}
        /\ Become(c, [Settled(call[c], d) EXCEPT !.told = @ \cup {d}])
        /\ UNCHANGED <<fresh, booked, started, deleted, seen>>
  BY DEF DeleteAnswered
<1> DEFINE new == [Settled(call[c], d) EXCEPT !.told = @ \cup {d}]
<1>2. call[c] \in CallRecords /\ d \in Downtimes
  BY DEF DInv, CallsOK, CallRecords
<1>3. new = Ended(call[c], d, call[c].told \cup {d}, call[c].failed, Settled(call[c], d).phase)
  BY <1>2 DEF Ended, Settled, CallRecords
<1>4. /\ call[c].told \cup {d} \in SUBSET Downtimes /\ call[c].failed \in SUBSET Downtimes
      /\ (call[c].told \cup {d}) \cup call[c].failed = call[c].told \cup call[c].failed \cup {d}
  BY <1>2 DEF CallRecords
<1> HIDE DEF new
<1>5. /\ RecordOK(c, new) /\ SeenOK(new, seen[c])
      /\ new.phase # "idle" /\ new.req = call[c].req
  BY <1>1, <1>3, <1>4, SettledOK
<1>6. ById(c, d) \in Commands /\ Backs(new, ById(c, d))
  BY <1>1, <1>5, ByIdIsBacked
<1>7. seen' \in [Calls -> SUBSET booked] /\ seen'[c] = seen[c] /\ Become(c, new)
  BY <1>1 DEF DInv, CoreOK, new
<1> QED
  BY <1>1, <1>5, <1>6, <1>7, Moves

LEMMA DeleteFailedOK ==
    ASSUME DInv, NEW c \in Calls, DeleteFailed(c)
    PROVE  DInv'
<1>1. PICK d \in call[c].todo :
        /\ call[c].phase = "deleting"
        /\ pipe' \in {pipe, pipe \cup {ById(c, d)}}
        /\ Become(c, [Settled(call[c], d) EXCEPT
                        !.failed = @ \cup {d},
                        !.phase = IF call[c].req.tool = "by_id" THEN "raised" ELSE @])
        /\ UNCHANGED <<fresh, booked, started, deleted, seen>>
  BY DEF DeleteFailed
<1> DEFINE phase == IF call[c].req.tool = "by_id" THEN "raised" ELSE Settled(call[c], d).phase
           new == [Settled(call[c], d) EXCEPT
                        !.failed = @ \cup {d},
                        !.phase = IF call[c].req.tool = "by_id" THEN "raised" ELSE @]
<1>2. call[c] \in CallRecords /\ d \in Downtimes
  BY DEF DInv, CallsOK, CallRecords
<1>3. new = Ended(call[c], d, call[c].told, call[c].failed \cup {d}, phase)
  BY <1>2 DEF Ended, Settled, CallRecords
<1>4. /\ call[c].told \in SUBSET Downtimes /\ call[c].failed \cup {d} \in SUBSET Downtimes
      /\ call[c].told \cup (call[c].failed \cup {d}) = call[c].told \cup call[c].failed \cup {d}
      /\ phase = Settled(call[c], d).phase \/ phase = "raised"
  BY <1>2 DEF CallRecords
<1> HIDE DEF phase, new
<1>5. /\ RecordOK(c, new) /\ SeenOK(new, seen[c])
      /\ new.phase # "idle" /\ new.req = call[c].req
  BY <1>1, <1>3, <1>4, SettledOK
<1>6. ById(c, d) \in Commands /\ Backs(new, ById(c, d))
  BY <1>1, <1>5, ByIdIsBacked
<1>7. seen' \in [Calls -> SUBSET booked] /\ seen'[c] = seen[c] /\ Become(c, new)
  BY <1>1 DEF DInv, CoreOK, new
<1> QED
  BY <1>1, <1>5, <1>6, <1>7, Moves
----------------------------------------------------------------------------
(* The steps of the core. *)

LEMMA BookOK ==
    ASSUME DInv, NEW d \in Downtimes, Book(d)
    PROVE  DInv'
<1>1. CoreOK'
  BY DEF DInv, CoreOK, Book
<1> QED
  BY <1>1 DEF DInv, CallsOK, PipeOK, OnlyMeantDeleted, RecordOK, SeenOK, Book

LEMMA StartWindowOK ==
    ASSUME DInv, NEW d \in Downtimes, StartWindow(d)
    PROVE  DInv'
<1>1. CoreOK'
  BY DEF DInv, CoreOK, StartWindow
<1> QED
  BY <1>1 DEF DInv, CallsOK, PipeOK, OnlyMeantDeleted, RecordOK, SeenOK, StartWindow

LEMMA RemoveOK ==
    ASSUME DInv, NEW gone \in SUBSET booked, Remove(gone)
    PROVE  CallsOK' /\ seen' \in [Calls -> SUBSET booked']
<1>1. /\ seen' \in [Calls -> SUBSET booked']
      /\ \A c \in Calls : seen'[c] = seen[c] \ gone
  BY DEF Remove, DInv, CoreOK
<1>2. \A c \in Calls : (RecordOK(c, call[c]) /\ SeenOK(call[c], seen[c]))'
  BY <1>1 DEF Remove, DInv, CallsOK, RecordOK, SeenOK
<1> QED
  BY <1>1, <1>2 DEF Remove, DInv, CallsOK

LEMMA ExpireOK ==
    ASSUME DInv, NEW d \in Downtimes, Expire(d)
    PROVE  DInv'
<1>1. Remove({d}) /\ {d} \subseteq booked /\ UNCHANGED <<pipe, deleted>>
  BY DEF Expire, DInv, CoreOK
<1>2. CallsOK' /\ seen' \in [Calls -> SUBSET booked']
  BY <1>1, RemoveOK
<1>3. CoreOK'
  BY <1>1, <1>2 DEF DInv, CoreOK, Remove
<1> QED
  BY <1>1, <1>2, <1>3 DEF DInv, PipeOK, OnlyMeantDeleted, Remove

\* What a command hits is booked and meant by a call.
LEMMA HitsAreMeant ==
    ASSUME DInv, NEW cmd \in pipe
    PROVE  /\ Hits(cmd) \subseteq booked
           /\ \A d \in Hits(cmd) : \E c \in Calls :
                call[c].phase # "idle" /\ Meant(call[c].req, d)
<1>1. Hits(cmd) \subseteq booked
  BY DEF Hits, BulkHits
<1>2. PICK c \in Calls : Backs(call[c], cmd)
  BY DEF DInv, PipeOK
<1>3. cmd.by \in {"filter", "id"}
  BY DEF DInv, CoreOK, Commands
<1>4. CASE cmd.by = "filter"
  <2>1. call[c].req.tool = "by_filter" /\ Hits(cmd) = BulkHits(call[c].req)
    BY <1>2, <1>4 DEF Backs, Hits
  <2>2. \A d \in Hits(cmd) : Meant(call[c].req, d)
    BY <2>1, BulkIsMeant
  <2> QED
    BY <1>1, <1>2, <2>2 DEF Backs
<1>5. CASE cmd.by = "id"
  <2>1. \A d \in Hits(cmd) : d = cmd.id
    BY <1>5 DEF Hits
  <2> QED
    BY <1>1, <1>2, <1>5, <2>1 DEF Backs
<1> QED
  BY <1>3, <1>4, <1>5

LEMMA ExecuteOK ==
    ASSUME DInv, Execute
    PROVE  DInv'
<1>1. PICK cmd \in pipe : /\ pipe' = pipe \ {cmd} /\ Remove(Hits(cmd))
                          /\ deleted' = deleted \cup Hits(cmd)
  BY DEF Execute
<1>2. /\ Hits(cmd) \subseteq booked
      /\ \A d \in Hits(cmd) : \E c \in Calls :
           call[c].phase # "idle" /\ Meant(call[c].req, d)
  BY HitsAreMeant
<1>3. CallsOK' /\ seen' \in [Calls -> SUBSET booked']
  BY <1>1, <1>2, RemoveOK
<1>4. CoreOK'
  BY <1>1, <1>2, <1>3 DEF DInv, CoreOK, Remove
<1>5. PipeOK'
  BY <1>1 DEF DInv, PipeOK, Remove
<1>6. OnlyMeantDeleted'
  BY <1>1, <1>2 DEF DInv, OnlyMeantDeleted, Remove
<1> QED
  BY <1>3, <1>4, <1>5, <1>6 DEF DInv
----------------------------------------------------------------------------
(* The theorems. *)

LEMMA InitOK == Init => DInv
<1> SUFFICES ASSUME Init PROVE DInv
  OBVIOUS
<1>1. CoreOK
  BY DowntimesAssumption DEF Init, CoreOK
<1>2. Idle \in CallRecords
  BY DEF Idle, CallRecords, Phases
<1>3. \A c \in Calls : RecordOK(c, call[c]) /\ SeenOK(call[c], seen[c])
  BY <1>2 DEF Init, Idle, RecordOK, SeenOK, RouteOK, TodoOK, Before
<1> QED
  BY <1>1, <1>2, <1>3 DEF Init, DInv, CallsOK, PipeOK, OnlyMeantDeleted

LEMMA NextOK == DInv /\ [Next]_vars => DInv'
<1> SUFFICES ASSUME DInv, [Next]_vars PROVE DInv'
  OBVIOUS
<1>1. ASSUME NEW c \in Calls, Step(c) PROVE DInv'
  BY <1>1, BeginOK, RouteStepOK, ResolveOK, CommandOK, FailOK, ListOK, NapOK,
     DeleteAnsweredOK, DeleteFailedOK DEF Step
<1>2. ASSUME Core PROVE DInv'
  BY <1>2, BookOK, StartWindowOK, ExpireOK, ExecuteOK DEF Core
<1>3. CASE UNCHANGED vars
  BY <1>3 DEF vars, DInv, CoreOK, CallsOK, PipeOK, OnlyMeantDeleted, RecordOK, SeenOK
<1> QED
  BY <1>1, <1>2, <1>3 DEF Next

\* The invariant that relates each call's list, what it has seen and what the
\* pipe still holds (commands.py:577-606, 755-1055).
THEOREM DowntimesInvariant == Spec => []DInv
  BY InitOK, NextOK, PTL DEF Spec

\* No command removes a downtime that no call asked to remove.
THEOREM OnlyMeantGo == Spec => []OnlyMeantDeleted
<1>1. DInv => OnlyMeantDeleted
  BY DEF DInv
<1> QED
  BY <1>1, DowntimesInvariant, PTL

\* A call that ends normally has dealt with every downtime it means and could
\* have seen during all of its run.
THEOREM NoneOverlooked == Spec => []NothingOverlooked
<1>1. DInv => NothingOverlooked
  <2> SUFFICES ASSUME DInv, NEW c \in Calls, call[c].phase = "done",
                      NEW d \in seen[c], Meant(call[c].req, d)
               PROVE  Covered(c, d)
    BY DEF NothingOverlooked
  <2>1. CoveredBy(call[c], d) \/ d \in call[c].todo \cup call[c].later
    BY DEF DInv, CallsOK, SeenOK
  <2>2. call[c].todo = {} /\ call[c].later = {}
    BY DEF DInv, CallsOK, RecordOK, TodoOK
  <2> QED
    BY <2>1, <2>2 DEF CoveredBy, Covered
<1> QED
  BY <1>1, DowntimesInvariant, PTL

\* The types, and that each deletion of a call is listed once.
THEOREM DowntimesTypes == Spec => []DowntimesTypeOK
<1>1. DInv => DowntimesTypeOK
  BY DEF DInv, CoreOK, CallsOK, RecordOK, TodoOK, DowntimesTypeOK
<1> QED
  BY <1>1, DowntimesInvariant, PTL
============================================================================
