------------------------------- MODULE Downtimes -------------------------------
(* The tools that delete downtimes: thruk_delete_downtime,                    *)
(* thruk_delete_active_downtimes and thruk_delete_downtimes_by_filter of      *)
(* tools/commands.py, with the core they talk to.                             *)
(*                                                                            *)
(* The core (external) accepts a command into its pipe and executes it later; *)
(* meanwhile downtimes are booked, start, and expire.  A command by id that   *)
(* is sent to the endpoint of a host does nothing to a downtime of a service  *)
(* and the reverse, which is what the comments of the code say of it.         *)
EXTENDS Naturals, FiniteSets

CONSTANTS
    Calls,      \* concurrent tool calls
    Downtimes,  \* the ids of the downtimes that may ever be booked
    Late,       \* those that may be booked only during the run
    Of,         \* [Downtimes -> [host, service, start, words]]: what they are
    Requests,   \* [Calls -> sets of the arguments that call may have]
    None        \* an argument not given, the service of a host's own downtime

Given == UNION {Requests[c] : c \in Calls}
ASSUME DowntimesAssumption ==
    /\ Late \subseteq Downtimes
    /\ \A r \in Given :
        /\ r.tool \in {"by_id", "active", "by_filter"}
        /\ r.tool = "by_id" => r.id \in Downtimes
        /\ r.tool = "active" => r.host # None /\ r.group = None

VARIABLES
    fresh,      \* downtimes not booked yet
    booked,     \* downtimes the list endpoint shows
    started,    \* those of them whose window has begun
    pipe,       \* commands the core has accepted and not executed
    call,       \* each tool call: its request, its progress, what it reports
    deleted,    \* history: downtimes a command has removed
    seen        \* history: the downtimes each call could have seen throughout

core == <<fresh, booked, started, pipe, deleted>>
vars == <<fresh, booked, started, pipe, call, deleted, seen>>

Phases == {"idle", "routing", "resolving", "commanding", "listing", "napping",
           "deleting", "done", "raised"}
Active(c) == call[c].phase \notin {"idle", "done", "raised"}
----------------------------------------------------------------------------
(* What the requests ask for.                                              *)

Narrow(value, wanted) == wanted = None \/ value = wanted
OfHost(r, d) == /\ Narrow(Of[d].host, r.host)
                /\ r.group = None \/ Of[d].host \in r.group
OwnOfHost(d) == Of[d].service = None

\* The server's own match of a bulk command (external): by host name it covers
\* services only, and a comment must be the whole comment.
BulkHits(r) == {d \in booked :
    /\ OfHost(r, d)
    /\ r.host # None /\ r.group = None => ~OwnOfHost(d)
    /\ Narrow(Of[d].service, r.service)
    /\ Narrow(Of[d].start, r.start)
    /\ r.comment # None => Of[d].words = {r.comment}}

\* The rows of /downtimes that thruk_delete_active_downtimes keeps.
ActiveMatches(r) == {d \in started : OfHost(r, d) /\ Of[d].service = r.service}

\* host + comment: any substring of the comment, narrowed by the rest.
CommentMatches_AnyComment(r) == {d \in booked :
    /\ OfHost(r, d)
    /\ Narrow(Of[d].service, r.service)
    /\ Narrow(Of[d].start, r.start)}
CommentMatches(r) == {d \in booked :
    /\ OfHost(r, d)
    /\ Narrow(Of[d].service, r.service)
    /\ Narrow(Of[d].start, r.start)
    /\ r.comment \in Of[d].words}

\* host without comment: the host's own downtimes, whatever service was asked.
OwnMatches(r) == {d \in booked :
    /\ OfHost(r, d)
    /\ Narrow(Of[d].start, r.start)
    /\ OwnOfHost(d)}

ByHost(r) == r.host # None /\ r.group = None
ByComment(r) == ByHost(r) /\ r.comment # None
Listed(r) == CASE r.tool = "active" -> ActiveMatches(r)
               [] r.tool # "active" /\ ByComment(r) -> CommentMatches(r)
               [] OTHER -> OwnMatches(r)

AfterResolving(r) == IF ByComment(r) THEN "listing" ELSE "commanding"
FilterEntry(r) ==
    IF \A f \in {"host", "group", "service", "start", "comment"} : r[f] = None THEN "raised"
    ELSE IF ByHost(r) /\ ~r.pinned THEN "resolving" ELSE AfterResolving(r)
Entry(r) ==
    CASE r.tool = "by_id" -> IF r.service = None THEN "routing" ELSE "deleting"
      [] r.tool = "active" -> "listing"
      [] OTHER -> FilterEntry(r)

\* The endpoint a deletion by id is sent to: a host's own or a service's.
Endpoint_AlwaysHost(r, d) == None
Endpoint(r, d) == IF r.tool = "by_filter" THEN Of[d].service ELSE r.service
----------------------------------------------------------------------------
(* A call. *)

Idle == [req |-> None, phase |-> "idle", napped |-> FALSE, ordered |-> FALSE,
         todo |-> {}, later |-> {}, told |-> {}, failed |-> {}]

Init ==
    /\ fresh \in SUBSET Late
    /\ booked = Downtimes \ fresh
    /\ started \in SUBSET booked
    /\ pipe = {} /\ deleted = {}
    /\ call = [c \in Calls |-> Idle]
    /\ seen = [c \in Calls |-> {}]

Become(c, new) == call' = [call EXCEPT ![c] = new]

Visible(r) == IF r.tool = "active" THEN started ELSE booked
\* An id comes from an earlier listing, so that its downtime has been booked.
Begin(c) == \E r \in Requests[c] :
    /\ call[c].phase = "idle"
    /\ r.id \notin fresh
    /\ Become(c, [Idle EXCEPT !.req = r, !.phase = Entry(r),
                              !.todo = IF Entry(r) = "deleting" THEN {r.id} ELSE {}])
    /\ seen' = [seen EXCEPT ![c] = Visible(r)]
    /\ UNCHANGED core

\* GET /downtimes/{id} answers with a list, in which the code finds no service.
Route(c) ==
    /\ call[c].phase = "routing"
    /\ Become(c, [call[c] EXCEPT !.phase = "deleting", !.todo = {call[c].req.id}])
    /\ UNCHANGED <<core, seen>>

Resolve(c) ==
    /\ call[c].phase = "resolving"
    /\ Become(c, [call[c] EXCEPT !.phase = AfterResolving(call[c].req)])
    /\ UNCHANGED <<core, seen>>

\* The bulk command is accepted, and the call goes on to the host's own
\* downtimes if the request names a host.
Command(c) == LET r == call[c].req IN
    /\ call[c].phase = "commanding"
    /\ pipe' = pipe \cup {[by |-> "filter", of |-> r]}
    /\ Become(c, [call[c] EXCEPT !.ordered = TRUE,
                                 !.phase = IF ByHost(r) THEN "listing" ELSE "done"])
    /\ UNCHANGED <<fresh, booked, started, deleted, seen>>

\* A request fails after the client's own retries, and the tool with it; a
\* command may have been accepted all the same.
Fail(c) ==
    /\ call[c].phase \in {"routing", "resolving", "commanding", "listing"}
    /\ \/ UNCHANGED pipe
       \/ /\ call[c].phase = "commanding"
          /\ pipe' = pipe \cup {[by |-> "filter", of |-> call[c].req]}
    /\ Become(c, [call[c] EXCEPT !.phase = "raised"])
    /\ UNCHANGED <<fresh, booked, started, deleted, seen>>

\* One look at /downtimes.  The deletions of the host's own downtimes go first
\* and those of services after them; an empty list is looked at once more.
FoundNothing(c, again) ==
    Become(c, [call[c] EXCEPT !.phase = IF again THEN "napping" ELSE "done"])
FoundSome(c, rows) ==
    LET own == {d \in rows : OwnOfHost(d)}
        first == IF call[c].req.tool = "active" \/ own = {} THEN rows ELSE own
    IN  Become(c, [call[c] EXCEPT !.phase = "deleting", !.todo = first,
                                  !.later = rows \ first])
MayRetry_Always(c) == call[c].req.tool = "active" /\ call[c].req.retry
MayRetry(c) == call[c].req.tool = "active" /\ call[c].req.retry /\ ~call[c].napped
List(c) == LET rows == Listed(call[c].req) IN
    /\ call[c].phase = "listing"
    /\ IF rows = {} THEN FoundNothing(c, MayRetry(c)) ELSE FoundSome(c, rows)
    /\ UNCHANGED <<core, seen>>

Nap(c) ==
    /\ call[c].phase = "napping"
    /\ Become(c, [call[c] EXCEPT !.phase = "listing", !.napped = TRUE])
    /\ UNCHANGED <<core, seen>>

\* Deletions of one gather are answered in any order.  Each is a success or a
\* ThrukError of its own; thruk_delete_downtime has a single one, and raises.
Settled_ForgetsLater(k, d) ==
    [k EXCEPT !.todo = @ \ {d}, !.phase = IF k.todo = {d} THEN "done" ELSE @]
Settled_KeepsLater(k, d) == LET last == k.todo = {d} IN
    [k EXCEPT !.todo = IF last THEN k.later ELSE @ \ {d},
              !.phase = IF last /\ k.later = {} THEN "done" ELSE @]
Settled(k, d) == LET last == k.todo = {d} IN
    [k EXCEPT !.todo = IF last THEN k.later ELSE @ \ {d},
              !.later = IF last THEN {} ELSE @,
              !.phase = IF last /\ k.later = {} THEN "done" ELSE @]

ById(c, d) == [by |-> "id", id |-> d, service |-> Endpoint(call[c].req, d)]
DeleteAnswered(c) == \E d \in call[c].todo :
    /\ call[c].phase = "deleting"
    /\ pipe' = pipe \cup {ById(c, d)}
    /\ Become(c, [Settled(call[c], d) EXCEPT !.told = @ \cup {d}])
    /\ UNCHANGED <<fresh, booked, started, deleted, seen>>
DeleteFailed(c) == \E d \in call[c].todo :
    /\ call[c].phase = "deleting"
    /\ pipe' \in {pipe, pipe \cup {ById(c, d)}}
    /\ Become(c, [Settled(call[c], d) EXCEPT
                    !.failed = @ \cup {d},
                    !.phase = IF call[c].req.tool = "by_id" THEN "raised" ELSE @])
    /\ UNCHANGED <<fresh, booked, started, deleted, seen>>
----------------------------------------------------------------------------
(* The core. *)

Book(d) ==
    /\ d \in fresh
    /\ fresh' = fresh \ {d} /\ booked' = booked \cup {d}
    /\ UNCHANGED <<started, pipe, call, deleted, seen>>
StartWindow(d) ==
    /\ d \in booked \ started
    /\ started' = started \cup {d}
    /\ UNCHANGED <<fresh, booked, pipe, call, deleted, seen>>

Remove(gone) ==
    /\ booked' = booked \ gone /\ started' = started \ gone
    /\ seen' = [c \in Calls |-> seen[c] \ gone]
    /\ UNCHANGED <<fresh, call>>
Expire(d) ==
    /\ d \in started
    /\ Remove({d})
    /\ UNCHANGED <<pipe, deleted>>
Hits(cmd) == IF cmd.by = "filter" THEN BulkHits(cmd.of)
             ELSE {d \in booked \cap {cmd.id} : OwnOfHost(d) <=> cmd.service = None}
Execute == \E cmd \in pipe :
    /\ pipe' = pipe \ {cmd}
    /\ Remove(Hits(cmd))
    /\ deleted' = deleted \cup Hits(cmd)

Step(c) == \/ Begin(c) \/ Route(c) \/ Resolve(c) \/ Command(c) \/ Fail(c)
           \/ List(c) \/ Nap(c) \/ DeleteAnswered(c) \/ DeleteFailed(c)
Core == \/ \E d \in Downtimes : Book(d) \/ StartWindow(d) \/ Expire(d)
        \/ Execute
Next == Core \/ \E c \in Calls : Step(c)

\* Every await of a tool returns, with an answer or with an error, and the core
\* works through its pipe.
Fairness == WF_vars(Execute) /\ \A c \in Calls : WF_vars(Active(c) /\ Step(c))
Spec == Init /\ [][Next]_vars /\ Fairness
----------------------------------------------------------------------------
(* Properties. *)

OfServices == {Of[d].service : d \in Downtimes} \cup {r.service : r \in Given}
Commands == [by : {"filter"}, of : Given]
            \cup [by : {"id"}, id : Downtimes, service : OfServices]
CallRecords ==
    [req : Given \cup {None}, phase : Phases, napped : BOOLEAN, ordered : BOOLEAN,
     todo : SUBSET Downtimes, later : SUBSET Downtimes,
     told : SUBSET Downtimes, failed : SUBSET Downtimes]

\* Types; what has started is booked, and a call has deletions left exactly while
\* it is deleting, each of which is listed once.
DowntimesTypeOK ==
    /\ fresh \in SUBSET Downtimes /\ booked \in SUBSET (Downtimes \ fresh)
    /\ started \in SUBSET booked
    /\ deleted \in SUBSET (Downtimes \ (fresh \cup booked))
    /\ pipe \in SUBSET Commands
    /\ call \in [Calls -> CallRecords]
    /\ seen \in [Calls -> SUBSET booked]
    /\ \A c \in Calls :
        /\ call[c].phase = "deleting" => call[c].todo # {}
        /\ call[c].todo \cap (call[c].later \cup call[c].told \cup call[c].failed) = {}
        /\ call[c].later \cap (call[c].told \cup call[c].failed) = {}

\* What a request means, from the documentation of the tools, independent of the
\* look-ups above: the downtimes it may touch.  A request by host and service
\* also covers the host's own downtimes (see OwnMatches).
Meant(r, d) ==
    CASE r.tool = "by_id" -> d = r.id
      [] r.tool = "active" -> Of[d].host = r.host /\ Of[d].service = r.service
      [] OTHER -> /\ r.host # None => Of[d].host = r.host
                  /\ r.group # None => Of[d].host \in r.group
                  /\ r.start # None => Of[d].start = r.start
                  /\ r.comment # None => IF ByHost(r) THEN r.comment \in Of[d].words
                                         ELSE Of[d].words = {r.comment}
                  /\ r.service # None =>
                        \/ Of[d].service = r.service
                        \/ ByHost(r) /\ r.comment = None /\ OwnOfHost(d)

\* No command removes a downtime that no call asked to remove, however the
\* listing, the booking of other downtimes and the pipe interleave
\* (commands.py:793-798, 942-949, 1011-1014).
OnlyMeantDeleted == \A d \in deleted : \E c \in Calls :
    call[c].phase # "idle" /\ Meant(call[c].req, d)

\* A call that ends normally has dealt with every downtime it means and could
\* have seen during all of its run: it reports the deletion or its failure, or
\* has given the bulk command that covers it (commands.py:755-851, 854-1055).
Covered(c, d) == LET r == call[c].req IN
    \/ d \in call[c].told \cup call[c].failed
    \/ call[c].ordered /\ (ByHost(r) => ~OwnOfHost(d))
NothingOverlooked == \A c \in Calls : call[c].phase = "done" =>
    \A d \in seen[c] : Meant(call[c].req, d) => Covered(c, d)

\* A deletion reported as done takes effect: the downtime goes away, since the
\* command was sent to the endpoint that acts on it (commands.py:590-592, 817-824).
ReportedGoesAway == \A c \in Calls, d \in Downtimes :
    d \in call[c].told ~> d \notin booked

\* Every call ends: one failed deletion or an empty list does not hold it, and
\* the second look is the last (commands.py:803-805, 835-848).
EveryDeletionEnds == \A c \in Calls : Active(c) ~> call[c].phase \in {"done", "raised"}
================================================================================
