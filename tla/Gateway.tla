-------------------------------- MODULE Gateway --------------------------------
(***************************************************************************)
(* The header-auth server: HeaderAuthMiddleware and ClientCache            *)
(* (multitenant.py) bind a Thruk client to each HTTP request, then         *)
(* ThrukMCPServer.call_tool (server.py) runs one tool with it and writes   *)
(* the audit log.                                                          *)
(*                                                                         *)
(* The client itself is abstracted to what the gateway can tell: it is     *)
(* open or closed, an attempt may be retried, and it ends in a result or   *)
(* an exception (ThrukClient has the detail).                              *)
(***************************************************************************)
EXTENDS OrderedDict, FiniteSets

CONSTANTS
    Requests,     \* HTTP requests, each carrying one tool call
    Headers,      \* X-Thruk-* header sets: records [api_key, base_url, auth_user, backends]
    Absent,       \* the value of a header that is missing or blank
    Base,         \* the server's own configuration, a record like a header set
    Knobs,        \* the server's own switches: records [read_only, audit_log, enabled]
    ToolCalls,    \* what a request calls: records [tool, method, flaw]
    Ids,          \* identities of ThrukClient objects
    NoClient,
    MaxClients,   \* ClientCache maxsize
    MaxRetries,   \* max_retries of a client
    MaxTargets    \* bound: objects one call finds to command

VARIABLES
    server,       \* the switches in force; no header can change them
    cache,        \* ClientCache._clients: items [key, client]
    open,         \* client objects [id, config] that are not closed
    retired,      \* clients aclose_all() has taken and not closed yet
    up,           \* the server accepts requests
    phase,        \* where the request is
    cfg,          \* _cfg_var of the request
    bound,        \* _client_var of the request
    evicted,      \* the client the request must close before it goes on
    tool,         \* its tool call
    left,         \* commands the tool has still to send, Opening or Collecting
    attempt,      \* the retry counter of request()'s loop
    performed,    \* Thruk has performed the attempt in flight
    changed,      \* history: the call has made a change in Thruk
    outcome,      \* how the request ended
    lines,        \* audit lines of the request: records [user, status]
    since         \* history: other tenants' keys looked up since the request's own

poolVars == <<cache, open, retired, up>>
callVars == <<tool, left, attempt, performed, changed, outcome, lines>>
vars == <<server, cache, open, retired, up, phase, cfg, bound, evicted,
          tool, left, attempt, performed, changed, outcome, lines, since>>

ASSUME GatewayAssumption ==
    /\ IsFiniteSet(Requests)
    /\ MaxClients \in Nat \ {0}
    /\ MaxRetries \in Nat
    /\ MaxTargets \in Nat \ {0}
    /\ ToolCalls # {}

-------------------------------------------------------------------------------
(* Configurations and tools                                                *)

OrBase(h, field) == IF h[field] = Absent THEN Base[field] ELSE h[field]

\* from_headers(): credentials and endpoint come from the request.
FromHeaders(h) ==
    [api_key |-> h.api_key, base_url |-> OrBase(h, "base_url"),
     auth_user |-> OrBase(h, "auth_user"), backends |-> OrBase(h, "backends")]

HeaderConfigs == {FromHeaders(h) : h \in Headers}
Configs == HeaderConfigs \cup {Base}

\* _client_key(); the fields left out are the server's and the same for all.
ClientKey_NoUser(c) == <<c.base_url, c.api_key, c.backends>>
ClientKey(c) == <<c.base_url, c.api_key, c.auth_user, c.backends>>

Keys == {ClientKey(c) : c \in Configs}
Clients == [id : Ids, config : HeaderConfigs]

ASSUME NoClientIsNone == NoClient \notin Clients

CachedClients == {cache[i].client : i \in DOMAIN cache}

\* What the write tools send.  A command is one request.  A cascade and the
\* deletion by host send a command, look the other objects up and command each;
\* the bulk tools look their objects up first.
Opens == {"cascade", "delete_by_host"}
BulkTools == {"acknowledge_all", "delete_all"}
WriteTools == {"command", "background"} \cup Opens \cup BulkTools
IsChange(c) == c.method \notin {"GET", "HEAD"}

\* A tool that is not marked is_write asks Thruk for data only.
ASSUME ReadToolsRead == \A c \in ToolCalls : c.tool = "read" => ~IsChange(c)

\* _is_auditable_write()
Auditable_NoQuery(c) == c.tool \in WriteTools
Auditable(c) == c.tool \in WriteTools \/ (c.tool = "query" /\ IsChange(c))

\* The registry build_server() leaves: read_only strips the write tools, and
\* enabled_tools keeps the tools it names.
RegisteredTools == {"read", "query"} \cup WriteTools
Enabled(c) ==
    /\ c.tool \in RegisteredTools \cap server.enabled
    /\ ~(server.read_only /\ c.tool \in WriteTools)

\* Refusals a tool returns as its result: the guards in the bodies of thruk_query
\* and thruk_run_background_query, and the arguments of thruk_bulk_acknowledge.
Blocked_ByRegistryOnly(c) ==
    c.tool \in {"query", "background", "acknowledge_all"} /\ c.flaw = "refused"
Blocked(c) ==
    \/ c.tool \in {"query", "background"} /\ server.read_only /\ IsChange(c)
    \/ c.tool \in {"query", "background", "acknowledge_all"} /\ c.flaw = "refused"

\* audit.log_call() under the conditions of call_tool.
AuditLine(r, c, status) ==
    lines' = [lines EXCEPT ![r] =
                 IF server.audit_log /\ Auditable(c)
                 THEN Append(@, [user |-> cfg[r].auth_user, status |-> status]) ELSE @]

Phases == {"idle", "evicting", "bound", "calling", "sent", "done"}
Active(r) == phase[r] \notin {"idle", "done"}

\* Values of left before there are objects to count.
Opening == -2
Collecting == -1
FirstLeft(c) ==
    CASE c.tool \in Opens -> Opening
      [] c.tool \in BulkTools -> Collecting
      [] OTHER -> 1

\* A ThrukError of one object is kept as a row of the tool's result.
KeepsErrors_NotBulk(r) == tool[r].tool = "delete_by_host" /\ left[r] > 0
KeepsErrors(r) == tool[r].tool \in BulkTools \cup {"delete_by_host"} /\ left[r] > 0

\* The value of tool before the call is known.
AnyCall == CHOOSE c \in ToolCalls : TRUE

Init ==
    /\ server \in Knobs
    /\ cache = <<>> /\ open = {} /\ retired = {} /\ up = TRUE
    /\ phase = [r \in Requests |-> "idle"]
    /\ cfg = [r \in Requests |-> Base]
    /\ bound = [r \in Requests |-> NoClient]
    /\ evicted = [r \in Requests |-> NoClient]
    /\ tool = [r \in Requests |-> AnyCall]
    /\ left = [r \in Requests |-> 0]
    /\ attempt = [r \in Requests |-> 0]
    /\ performed = [r \in Requests |-> FALSE]
    /\ changed = [r \in Requests |-> FALSE]
    /\ outcome = [r \in Requests |-> "none"]
    /\ lines = [r \in Requests |-> <<>>]
    /\ since = [r \in Requests |-> {}]

-------------------------------------------------------------------------------
(* HeaderAuthMiddleware and ClientCache                                    *)

\* A request has a context of its own, without anything of an earlier one.
NewRequest(r) ==
    /\ tool' = [tool EXCEPT ![r] = AnyCall]
    /\ lines' = [lines EXCEPT ![r] = <<>>]
    /\ changed' = [changed EXCEPT ![r] = FALSE]

\* A request without a key is answered 401.
Reject(r) ==
    /\ up /\ ~Active(r)
    /\ \E h \in Headers : h.api_key = Absent
    /\ phase' = [phase EXCEPT ![r] = "done"]
    /\ outcome' = [outcome EXCEPT ![r] = "rejected"]
    /\ NewRequest(r)
    /\ UNCHANGED <<server, poolVars, cfg, bound, evicted, left, attempt, performed, since>>

\* What the look-up of key k by request r does to the history.
LookedUp(r, k) ==
    since' = [q \in Requests |->
                 IF q = r \/ ~Active(q) THEN {} ELSE since[q] \cup ({k} \ {ClientKey(cfg[q])})]

Arrive(r, h) ==
    /\ up /\ ~Active(r)
    /\ h.api_key # Absent
    /\ cfg' = [cfg EXCEPT ![r] = FromHeaders(h)]
    /\ LookedUp(r, ClientKey(FromHeaders(h)))
    /\ outcome' = [outcome EXCEPT ![r] = "none"]
    /\ NewRequest(r)
    /\ UNCHANGED <<server, retired, up, left, attempt, performed>>

\* get() finds the tenant's client and makes it the most recently used.
Used_KeepsPlace(k) == cache
Used(k) == MoveToEnd(cache, k)
ArriveHit(r, h) ==
    LET k == ClientKey(FromHeaders(h))
    IN  /\ Arrive(r, h)
        /\ k \in KeysOf(cache)
        /\ cache' = Used(k)
        /\ bound' = [bound EXCEPT ![r] = Lookup(cache, k).client]
        /\ phase' = [phase EXCEPT ![r] = "bound"]
        /\ UNCHANGED <<open, evicted>>

\* Clients the program can still reach; a new one has another identity.
Reachable == CachedClients \cup open \cup retired
                 \cup {bound[q] : q \in Requests} \cup {evicted[q] : q \in Requests}
FreeIds == Ids \ {c.id : c \in Reachable \ {NoClient}}

\* get() makes a client and, beyond maxsize, takes the least recently used one out.
Overflows_Late == Len(cache) > MaxClients
Overflows == Len(cache) >= MaxClients
ArriveMiss(r, h) ==
    LET k == ClientKey(FromHeaders(h))
        new == [id |-> CHOOSE i \in FreeIds : TRUE, config |-> FromHeaders(h)]
    IN  /\ Arrive(r, h)
        /\ k \notin KeysOf(cache) /\ FreeIds # {}
        /\ cache' = Append(IF Overflows THEN PopFirst(cache) ELSE cache,
                           [key |-> k, client |-> new])
        /\ open' = open \cup {new}
        /\ bound' = [bound EXCEPT ![r] = new]
        /\ evicted' = [evicted EXCEPT ![r] = IF Overflows THEN Head(cache).client ELSE NoClient]
        /\ phase' = [phase EXCEPT ![r] = IF Overflows THEN "evicting" ELSE "bound"]

\* The client taken out is closed after the lock is released; then the request
\* goes on to the server with its own client bound to its context.
CloseEvicted(r) ==
    /\ phase[r] = "evicting"
    /\ open' = open \ {evicted[r]}
    /\ evicted' = [evicted EXCEPT ![r] = NoClient]
    /\ phase' = [phase EXCEPT ![r] = "bound"]
    /\ UNCHANGED <<server, cache, retired, up, cfg, bound, callVars, since>>

-------------------------------------------------------------------------------
(* ThrukMCPServer.call_tool                                                *)

\* The request is answered; its task and context end.
Ends(r, how) ==
    /\ phase' = [phase EXCEPT ![r] = "done"]
    /\ outcome' = [outcome EXCEPT ![r] = how]
    /\ bound' = [bound EXCEPT ![r] = NoClient]
    /\ left' = [left EXCEPT ![r] = 0]
    /\ attempt' = [attempt EXCEPT ![r] = 0]
    /\ performed' = [performed EXCEPT ![r] = FALSE]
    /\ since' = [since EXCEPT ![r] = {}]

Calls(r, c) ==
    /\ phase[r] = "bound"
    /\ tool' = [tool EXCEPT ![r] = c]
    /\ UNCHANGED <<server, poolVars, cfg, evicted, changed>>

\* ValueError before the try: no audit line.
CallDisabled(r, c) ==
    /\ Calls(r, c) /\ ~Enabled(c)
    /\ Ends(r, "raised")
    /\ UNCHANGED lines

\* TypeError: the arguments do not fit the tool's parameters.
CallMismatched(r, c) ==
    /\ Calls(r, c) /\ Enabled(c) /\ c.flaw = "args"
    /\ Ends(r, "raised")
    /\ AuditLine(r, c, "error")

\* The tool refuses by itself and returns the error as its result.
CallBlocked(r, c) ==
    /\ Calls(r, c) /\ Enabled(c) /\ c.flaw # "args" /\ Blocked(c)
    /\ Ends(r, "returned")
    /\ AuditLine(r, c, "ok")

\* The tool goes on to its first request(); the client's retry loop starts.
CallRuns(r, c) ==
    /\ Calls(r, c) /\ Enabled(c) /\ c.flaw # "args" /\ ~Blocked(c)
    /\ left' = [left EXCEPT ![r] = FirstLeft(c)]
    /\ phase' = [phase EXCEPT ![r] = "calling"]
    /\ UNCHANGED <<bound, attempt, performed, outcome, lines, since>>

\* An attempt goes out with the credentials of the bound client.
Send(r) ==
    /\ phase[r] = "calling" /\ bound[r] \in open
    /\ phase' = [phase EXCEPT ![r] = "sent"]
    /\ UNCHANGED <<server, poolVars, cfg, bound, evicted, callVars, since>>

\* The tool goes on to its next request, with a retry loop of its own.
GoesOn(r, n) ==
    /\ phase' = [phase EXCEPT ![r] = "calling"]
    /\ left' = [left EXCEPT ![r] = n]
    /\ attempt' = [attempt EXCEPT ![r] = 0]
    /\ performed' = [performed EXCEPT ![r] = FALSE]
    /\ UNCHANGED <<bound, outcome, lines, since>>

\* The tool returns its result, or call_tool the text of a ThrukError.
Returns(r, status) ==
    /\ Ends(r, "returned")
    /\ AuditLine(r, tool[r], status)

\* One command is over; the tool returns after its last.
CommandOver(r) ==
    \/ left[r] = 1 /\ Returns(r, "ok")
    \/ left[r] > 1 /\ GoesOn(r, left[r] - 1)

\* httpx raises RuntimeError on a closed client, which neither request() nor
\* call_tool catches; only gather(return_exceptions=True) keeps it.
SendOnClosed(r) ==
    /\ phase[r] = "calling" /\ bound[r] \notin open
    /\ IF tool[r].tool = "acknowledge_all" /\ left[r] > 0
       THEN CommandOver(r)
       ELSE Ends(r, "crashed") /\ UNCHANGED lines
    /\ UNCHANGED <<server, poolVars, cfg, evicted, tool, changed>>

\* Thruk performs the attempt.
Perform(r) ==
    /\ phase[r] = "sent" /\ ~performed[r]
    /\ performed' = [performed EXCEPT ![r] = TRUE]
    /\ changed' = [changed EXCEPT ![r] =
                       @ \/ (IsChange(tool[r]) /\ left[r] # Collecting)]
    /\ UNCHANGED <<server, poolVars, phase, cfg, bound, evicted, tool, left, attempt,
                   outcome, lines, since>>

\* The result reaches the tool: it looks up, commands what it found, or returns.
Reply(r) ==
    /\ phase[r] = "sent" /\ performed[r]
    /\ \/ left[r] = Opening /\ GoesOn(r, Collecting)
       \/ left[r] = Collecting /\ \E n \in 1..MaxTargets : GoesOn(r, n)
       \/ left[r] = Collecting /\ Returns(r, "ok")
       \/ CommandOver(r)
    /\ UNCHANGED <<server, poolVars, cfg, evicted, tool, changed>>

\* ThrukError: refused, not JSON, the last attempt failed, or the job failed.
Fail(r) ==
    /\ phase[r] = "sent"
    /\ IF KeepsErrors(r) THEN CommandOver(r) ELSE Returns(r, "error")
    /\ UNCHANGED <<server, poolVars, cfg, evicted, tool, changed>>

\* A retryable status or a network error, whether or not Thruk performed it.
Retry_Unbounded(r) ==
    /\ phase[r] = "sent"
    /\ performed' = [performed EXCEPT ![r] = FALSE]
    /\ phase' = [phase EXCEPT ![r] = "calling"]
    /\ UNCHANGED <<server, poolVars, cfg, bound, evicted, tool, left, attempt, changed,
                   outcome, lines, since>>
Retry_OffByOne(r) ==
    /\ phase[r] = "sent" /\ attempt[r] <= MaxRetries
    /\ attempt' = [attempt EXCEPT ![r] = @ + 1]
    /\ performed' = [performed EXCEPT ![r] = FALSE]
    /\ phase' = [phase EXCEPT ![r] = "calling"]
    /\ UNCHANGED <<server, poolVars, cfg, bound, evicted, tool, left, changed,
                   outcome, lines, since>>
Retry(r) ==
    /\ phase[r] = "sent" /\ attempt[r] < MaxRetries
    /\ attempt' = [attempt EXCEPT ![r] = @ + 1]
    /\ performed' = [performed EXCEPT ![r] = FALSE]
    /\ phase' = [phase EXCEPT ![r] = "calling"]
    /\ UNCHANGED <<server, poolVars, cfg, bound, evicted, tool, left, changed,
                   outcome, lines, since>>

\* The job runs, but polling it raises httpx.RequestError, which is not caught.
PollCrash(r) ==
    /\ phase[r] = "sent" /\ performed[r] /\ tool[r].tool = "background"
    /\ Ends(r, "crashed")
    /\ UNCHANGED <<server, poolVars, cfg, evicted, tool, changed, lines>>

-------------------------------------------------------------------------------
(* Shutdown                                                                *)

\* uvicorn accepts no more requests and waits for those it has.
StopAccepting ==
    /\ up /\ up' = FALSE
    /\ UNCHANGED <<server, cache, open, retired, phase, cfg, bound, evicted,
                   callVars, since>>

\* The lifespan ends: aclose_all() empties the cache, then closes the clients.
RetireAll_Forgets ==
    /\ ~up /\ cache # <<>> /\ \A r \in Requests : ~Active(r)
    /\ retired' = {Head(cache).client}
    /\ cache' = <<>>
    /\ UNCHANGED <<server, open, up, phase, cfg, bound, evicted, callVars, since>>
RetireAll ==
    /\ ~up /\ cache # <<>> /\ \A r \in Requests : ~Active(r)
    /\ retired' = CachedClients
    /\ cache' = <<>>
    /\ UNCHANGED <<server, open, up, phase, cfg, bound, evicted, callVars, since>>

CloseRetired(c) ==
    /\ c \in retired
    /\ retired' = retired \ {c}
    /\ open' = open \ {c}
    /\ UNCHANGED <<server, cache, up, phase, cfg, bound, evicted, callVars, since>>

-------------------------------------------------------------------------------

Dispatch(r) ==
    \E c \in ToolCalls :
        CallDisabled(r, c) \/ CallMismatched(r, c) \/ CallBlocked(r, c) \/ CallRuns(r, c)

AttemptEnds(r) == Reply(r) \/ Fail(r) \/ Retry(r) \/ PollCrash(r)

\* What the event loop does for a request by itself.
Advance(r) ==
    \/ CloseEvicted(r)
    \/ Dispatch(r)
    \/ Send(r)
    \/ SendOnClosed(r)
    \/ AttemptEnds(r)

RequestStep(r) ==
    \/ Reject(r)
    \/ \E h \in Headers : ArriveHit(r, h) \/ ArriveMiss(r, h)
    \/ Advance(r)
    \/ Perform(r)

Next ==
    \/ \E r \in Requests : RequestStep(r)
    \/ StopAccepting
    \/ RetireAll
    \/ \E c \in Clients : CloseRetired(c)

\* The event loop runs every ready task, _safe_aclose returns, and the timeouts
\* of the client end every attempt.  Nothing is assumed of callers, of Thruk or
\* of the operator.
Fairness ==
    /\ \A r \in Requests : WF_vars(Advance(r))
    /\ WF_vars(RetireAll)
    /\ WF_vars(\E c \in Clients : CloseRetired(c))

Spec == Init /\ [][Next]_vars
FairSpec == Spec /\ Fairness

-------------------------------------------------------------------------------
(* Properties                                                              *)

GatewayTypeOK ==
    /\ server \in Knobs
    /\ cache \in Seq([key : Keys, client : Clients])
    /\ open \in SUBSET Clients
    /\ retired \in SUBSET Clients
    /\ up \in BOOLEAN
    /\ phase \in [Requests -> Phases]
    /\ cfg \in [Requests -> Configs]
    /\ bound \in [Requests -> Clients \cup {NoClient}]
    /\ evicted \in [Requests -> Clients \cup {NoClient}]
    /\ tool \in [Requests -> ToolCalls]
    /\ left \in [Requests -> Opening..MaxTargets]
    /\ attempt \in [Requests -> 0..MaxRetries]
    /\ performed \in [Requests -> BOOLEAN]
    /\ changed \in [Requests -> BOOLEAN]
    /\ outcome \in [Requests -> {"none", "rejected", "raised", "returned", "crashed"}]
    /\ lines \in [Requests -> Seq([user : {c.auth_user : c \in Configs}, status : {"ok", "error"}])]
    /\ since \in [Requests -> SUBSET Keys]

\* However requests of several tenants interleave and clients are evicted and
\* rebuilt, a request acts on Thruk with the credentials, the endpoint and the
\* identity of its own headers (multitenant.py:44-82).
TenantIsolation ==
    \A r \in Requests : Active(r) => bound[r] \in Clients /\ bound[r].config = cfg[r]

\* The pool keeps at most maxsize clients, one per tenant, never hands out a
\* closed one, and every open client is cached or about to be closed: none is
\* forgotten with its connections (multitenant.py:66-89).
PoolSound ==
    /\ Len(cache) <= MaxClients
    /\ DistinctKeys(cache)
    /\ \A i, j \in DOMAIN cache : cache[i].client = cache[j].client => i = j
    /\ CachedClients \subseteq open
    /\ open \subseteq CachedClients \cup retired \cup {evicted[r] : r \in Requests}

\* A client is closed under a request that still uses it only when maxsize other
\* tenants have come since that request arrived: least recently used, not oldest
\* (multitenant.py:69-81).
LRUSparesActive ==
    \A r \in Requests :
        (Active(r) /\ bound[r] \notin open)
            => Cardinality(since[r]) >= MaxClients

\* With the audit log on, a call that ends normally and changed Thruk has left
\* exactly one line, in the name of the calling tenant.  A line that says ok
\* stands for a change, save for a call the tool itself refused and for the bulk
\* tools, which return normally when they find nothing or each command fails; a
\* bulk call whose line says error has changed nothing (server.py:696-723,
\* commands.py:307-322, 808-851).
ChangesAreLogged ==
    \A r \in Requests :
        (phase[r] = "done" /\ outcome[r] \in {"returned", "raised"} /\ server.audit_log) =>
            /\ changed[r] =>
                 Len(lines[r]) = 1 /\ lines[r][1].user = cfg[r].auth_user
            /\ \A i \in DOMAIN lines[r] :
                 /\ lines[r][i].status = "ok" /\ IsChange(tool[r]) /\ ~changed[r]
                      => Blocked(tool[r]) \/ tool[r].tool \in BulkTools
                 /\ lines[r][i].status = "error" /\ tool[r].tool \in BulkTools
                      => ~changed[r]

\* In read-only mode nothing is changed in Thruk, by whichever tool, method and
\* path it is tried (server.py:976-983, escape.py:109-117, issue #138).
ReadOnlyHolds == server.read_only => \A r \in Requests : ~changed[r]

\* Every request ends, although its client may be closed under it.
EveryRequestEnds == \A r \in Requests : Active(r) ~> ~Active(r)

\* Once the server stops, every client it has opened is closed, those evicted by
\* the last requests included (multitenant.py:84-89, __main__.py:84-91).
ShutdownClosesAll == ~up ~> open = {}

\* config.py:93 and README.md:289 promise a JSON line for every invocation of a
\* write tool; a call that ends in an exception other than TypeError, ValueError
\* and ThrukError leaves none, even after Thruk has performed it.
EveryChangeLogged ==
    \A r \in Requests :
        (phase[r] = "done" /\ changed[r] /\ server.audit_log) => lines[r] # <<>>
================================================================================
