# A verification model of thruk-mcp

thruk-mcp is an MCP server that gives assistants access to a Thruk monitoring
front end. It runs on one asyncio event loop; its tasks share an HTTP client (or,
with header authentication, a pool of clients, one per tenant), a response cache
and a semaphore, and its tools turn a call into one or many HTTP requests.

This directory models that program in TLA+, checks the models on small instances
with TLC and proves their main invariants for every instance with TLAPS. Source
paths below are relative to `src/thruk_mcp/` unless they begin with `README`.

## 1. The system

### 1.1 Components, their state and operations

| Component | State | Operations | Makes it correct |
|---|---|---|---|
| Response cache, `cache.py` | ordered dictionary of (value, deadline), a lock | `get`, `set`, `clear` | at most `maxsize` entries, no key twice, nothing served after its TTL |
| HTTP client, `client.py` | cache, semaphore, httpx client, per-call retry counter | `request`, `get_with_fallback`, `get_all`, `run_background`, `aclose` | permits conserved, attempts bounded, results never mistaken for failures, every call ends |
| Tenant pool, `multitenant.py` | ordered dictionary of clients, a lock, two context variables per request | `HeaderAuthMiddleware.__call__`, `ClientCache.get`, `aclose_all` | a request acts only for its own tenant; no client is lost, handed out closed, or closed under too young a request |
| Dispatch, `server.py` | the registry fixed at start | `build_server`, `call_tool`, `_is_auditable_write` | disabled tools never run; a call that ends normally and has changed Thruk is logged once, in the right name |
| Raw queries, `tools/escape.py` | none | `thruk_query`, `thruk_run_background_query` | read-only mode and path rules hold for any method |
| Audit log, `audit.py` | none | `log_call` | see dispatch |
| Configuration, `config.py` | immutable record | `from_env`, `from_headers` | no tenant inherits another's credentials |
| Entry point, `__main__.py` | the pool, for the life of the app | transport choice, lifespan | clients are closed at shutdown; insecure combinations refused |
| Bearer authentication, `httpauth.py` | none | one comparison per request | - |
| Write commands, `tools/commands.py` | none of its own; changes Thruk | acknowledge, downtimes, comments, notifications, checks, bulk and cascade variants | what is reported done was done; deletes hit the intended objects; partial failures are reported |
| Filter compiler, `filters.py` | none | validation, `compile_filter`, `compile_filter_problems`, log-filter extraction | the compiled query selects what the tree means |
| Reliability, `reliability.py` | none | `extract_incidents`, `summarize_reliability` | incidents partition the window's downtime |
| History, `tools/history.py` | none | timelines, `state_at`, `state_diff`, heat maps, noise rankings | a fold of the log gives the state it recorded |
| Triage, `tools/triage.py` | none | root cause, stale checks, backend health, concurrent failures | each symptom is attributed to one cause; classes are exclusive |
| Inventory, `tools/inventory.py` | none | lists, availability, problems, totals | partial answers are marked as such |
| Performance data, `perfdata.py`, `tools/perfdata.py` | none | range parsing, breach and proximity | breach and proximity agree |
| Helpers, `helpers.py` | two context variables, a default client | client look-up, peer look-up, time parsing | the tool uses the client of its own request |
| Tables, prompts, resources: `constants.py`, `tools/base.py`, `tools/__init__.py`, `prompts.py`, `resources.py` | none | - | - |

### 1.2 Interactions

* A transport delivers a tool call. In header-auth mode `HeaderAuthMiddleware`
  builds a configuration from the headers, gets the tenant's client from the pool
  (creating, and possibly evicting, one) and binds both to context variables;
  otherwise one client serves everything.
* `call_tool` checks the registry, runs the tool and writes the audit line.
* The tool finds its client through `helpers._get_client` and calls `request`
  (once, in a gather, or in a loop over pages or backends).
* `request` consults the cache, takes a permit, sends, classifies the reply, backs
  off and goes round again.
* Shared between tasks: the cache, the semaphore, the pool, and Thruk itself.

### 1.3 What is hard

* **Interleaving.** Everything happens at awaits: between a cache miss and the fill;
  between a permit handed to a waiter and that waiter running; between an eviction
  (under the pool's lock) and the close (after it); between listing objects and
  acting on them.
* **Unknown outcomes.** A timeout or a 502 says nothing about whether Thruk has
  performed a command; the loop repeats writes as it repeats reads.
* **Cancellation and crashes of a call.** Cancelled waiters must pass on permits;
  exceptions outside three caught classes bypass the audit log.
* **Limits.** The cache and the pool at their sizes, the last attempt, the deadline
  of a job.
* **Silent data loss.** A filter that loses a condition, a cascade that reports the
  first failure only, a log replay that depends on row order.

`PROJECT.json` lists every hazard at its line with the property that covers it, or
the reason why none does.

## 2. Modules

| Module | Models | Notes |
|---|---|---|
| `OrderedDict` | `collections.OrderedDict` as both caches use it | a sequence of records with a `key`; the head is the oldest |
| `TTLCache` | `cache.py` | one action per method (each runs under the lock without awaiting), plus the clock |
| `Semaphore` | `asyncio.Semaphore` of CPython 3.11+ | free permits, FIFO waiters, and waiters that own a permit but have not run |
| `ThrukClient` | `ThrukClient.request`, `run_background` | extends `TTLCache` and `Semaphore`; adds Thruk's side of an attempt |
| `FetchPromise` | what `ThrukClient` promises | abstract: no cache layout, queue, backoff or polling |
| `Gateway` | `multitenant.py`, `call_tool`, the guards of `escape.py`, the audit log, the lifespan | the client is abstracted to open/closed and its retry loop, a tool to how many requests it makes and which failures it keeps |
| `Downtimes` | the four ways of deleting downtimes (`commands.py` 577-606, 755-1055), `_resolve_peer_for_host` | composed with a core that books, starts and expires downtimes and executes commands late |
| `Writes` | every other tool of `commands.py` that changes Thruk, `ThrukClient.get_all` | composed with objects that change state meanwhile |
| `Filters` | `filters.py` but its schemas, `_resolve_log_filter` | operators on trees, a parameter map and `q=` trees; recursion is by functions on the trees of a bounded nesting |
| `Problems` | `thruk_problems`, `compile_filter_problems`, `ThrukClient.get_with_fallback` | extends `Filters` |
| `LogReports` | `reliability.py`, the folds of `tools/history.py`, `_regroup_records_by_group` | operators on sequences of rows |
| `Triage` | concurrent failures, root cause, unreachable versus down (`tools/triage.py` 401-906) | extends `LogReports` |
| `History` | the fetches of the log (`_fetch_logs`, `_fetch_state_logs`) | extends `Triage`; composed with cores that go on writing the log |
| `MC*` | - | constants for TLC |
| `*_proofs` | - | theorems and lemmas about the module of the same name; the lemmas about `TTLCache` and `Semaphore` are in `ThrukClient_proofs`, those about `Filters` in `Problems_proofs`, those about the reports in `LogReports_proofs`, on which `History_proofs` rests |

### 2.1 ThrukClient

An action is what a task does between two awaits.

| Action | Code (`client.py`) |
|---|---|
| `BeginHit`, `BeginMiss` | 161-177: look up the cache; on a miss ask for a permit |
| `Resume` | 173-175: a queued task gets its permit and sends |
| `Serve` | Thruk answers, and may have performed the command |
| `ReceivePayload`, `ReceiveEmpty`, `ReceiveError`, `ReceiveRetryable`, `NetworkError` | 178-205: classify the reply, release the permit, cache, return, raise or back off |
| `Wake` | 142-177: the backoff is over, `attempt` grows, a new permit is asked for |
| `PollPending`, `PollExpired`, `PollAnswered` | 365-381: one round of the polling loop |
| `Cancel` | the task is cancelled at whichever await it is in |
| `Tick` | one poll interval of the monotonic clock |

Abstracted: a payload is a model value (`null`, a job ticket; more add nothing the
properties tell apart), a path is a model value, the length of a backoff is
arbitrary. Time is relative: an entry stores the ticks it has left, which is what
`expires_at - clock()` tells the code. `sent`, `applied` and `heard` are history
variables; no guard reads them.

`Serve` separates what Thruk does from what the client hears. A `NetworkError` may
come before or after it, so an attempt whose reply is lost may or may not have been
performed; a retryable status may come with or without the command being performed.

The semaphore is that of CPython 3.11 and later: `release` gives the permit to the
first waiter (`woken`), which owns it before it runs; until then newcomers queue
even if a permit is free. A cancelled waiter that already owns a permit hands it on
(`Abandon`).

### 2.2 Gateway

| Action | Code |
|---|---|
| `Reject` | `multitenant.py` 130-136: no key, 401 |
| `ArriveHit`, `ArriveMiss` | 66-78 and 124-143: configuration from headers, look-up or creation under the lock, binding to the context |
| `CloseEvicted` | 80-82: the evicted client is closed after the lock is released |
| `CallDisabled`, `CallMismatched`, `CallBlocked`, `CallRuns` | `server.py` 696-710, `escape.py` 109-120: the ways a call can begin |
| `Send`, `SendOnClosed`, `Perform`, `Reply`, `Fail`, `Retry`, `PollCrash` | the client's retry loop as the gateway sees it, and the three handlers of `call_tool` |
| `StopAccepting`, `RetireAll`, `CloseRetired` | shutdown of uvicorn, then `aclose_all` (84-89) at the end of the lifespan |

A client is a record of an identity and the configuration it was built from. `Ids`
bounds how many clients the program can reach at one time, not how many it makes: an identity is
free again when nothing refers to it, as in Python. The runs give enough identities
that an arrival is never blocked for want of one (the pool, plus one held by each
request, plus one being closed by each).

A request carries one tool call: a record of the tool's class, the HTTP method and a
flaw (`args`: arguments that raise `TypeError`; `refused`: a path or a state the tool
refuses by itself and returns as its result). The classes of write tools differ in what
a failure does:

| Class | Tools (`commands.py`, `escape.py`) | Requests, and what a `ThrukError` does |
|---|---|---|
| `command`, `query`, `background` | one command; `thruk_query`; a job | one, and raises |
| `cascade` | the host-and-services switches (442-574) | a command, a look-up, a command for each; each raises |
| `delete_by_host` | `thruk_delete_downtimes_by_filter` of a host without a comment (899-975) | as a cascade, but a failed deletion is a row of the result |
| `acknowledge_all` | `thruk_bulk_acknowledge` (139-322) | a look-up, which raises, and a command for each, which does not: its gather keeps any exception, a closed client's `RuntimeError` too |
| `delete_all` | `thruk_delete_active_downtimes` (755-851), `thruk_delete_downtimes_by_filter` of a host and a comment (977-1055) | as `acknowledge_all`, but only `ThrukError` is kept |

`left` says where a call is: `Opening` (the first command of a cascade), `Collecting`
(the look-up), then the number of commands still to send (at most `MaxTargets`). The
commands are sent one after the other here; that those of a gather overlap, and that a cascade which raises leaves
siblings behind, is in `Writes`. `thruk_delete_active_downtimes` looks twice, and bulk acknowledgement reads pages: here
that is one look-up. The `ThrukError` that `thruk_delete_downtimes_by_filter` raises without any filter is left out.
`changed` says whether Thruk has performed a change for the call; `since` collects the
other tenants' keys looked up since the request's own. Both are history.

### 2.3 Downtimes

| Action | Code (`commands.py`) |
|---|---|
| `Begin` | the arguments are checked and decide the first await (577-594, 755-777, 854-897) |
| `Route` | `GET /downtimes/{id}` to find the endpoint (594-606); the answer is a list, so no service is ever found |
| `Resolve` | `_resolve_peer_for_host` (`helpers.py` 144-179), which never fails the call |
| `Command` | the bulk system command is accepted (912-938) |
| `List`, `Nap` | one look at `/downtimes`, the wait before the second (791-806, 945-948, 997-1014) |
| `DeleteAnswered`, `DeleteFailed` | one deletion of a gather is answered (833-851, 950-960, 1016-1055) |
| `Fail` | any other request fails, after the client's own retries |
| `Book`, `StartWindow`, `Expire`, `Execute` | external: the core |

A command lies in `pipe` until the core executes it, so a listing may show downtimes
that are already doomed, and new ones may be booked under a bulk command on its way.
What a bulk command matches (`BulkHits`) and that an endpoint of hosts leaves
downtimes of services alone is external and taken from how the code and its
comments use it. `deleted` and `seen` are history variables. `Meant` says from the docstrings what a request
asks for; it shares no operator with the look-ups.

### 2.4 Writes

| Action | Code |
|---|---|
| `Begin` | the arguments are checked; a single command, the leading command of a cascade or two collectors start (`commands.py` 73-752) |
| `Page`, `PageFails` | a page of `get_all` (`client.py` 294-326) for one of the collectors, which run concurrently |
| `Collected` | both are over: one acknowledgement for each row (254-311) |
| `Answer`, `Failure` | one command is answered, or fails performed or not |
| `ListServices` | a cascade lists the services of its host and posts to each (475-500, 545-568) |
| `Change` | external: an object changes state |

Here a command takes effect when it is accepted, because the lag of the pipe is
`Downtimes`' subject. Objects are numbered in the order in which Thruk lists them, so a page is a
slice of the problems in that order (`Place`, `InOrder`), and a problem that joins or
leaves between two pages shifts the rows behind it. `Below` is a host and everything below it, as
the least set closed under children. A failed cascade raises while the rest of its gather goes on:
such a call is in phase `raised` with commands left in `todo`.

### 2.5 Filters and Problems

A tree is a leaf or a group with a sequence of conditions. `Means` is its meaning,
`CompileFilter`, `LogQueries`, `TotalsQueries` and `ProblemParams` are the compilers; a compiled query is a map from
parameters `<<column, operator>>` to values and a set of trees for `q=`, all of which must hold
(`and` between them, `filters.py` 768-771), and `Selects` is what
Thruk does with it (external). A `Compilation` says which endpoint a filter was compiled for, the filter,
the query, and whether the tool warns that it may miss something (`flagged`). There are two for the totals: the services side, with
custom variables rewritten, and the hosts side, from which `_strip_filter_field` removes the conditions on service groups
(`Stripped`). A log filter has one for each set of hosts its look-up can have found: it stops at
`HardLimit` hosts (`_RESOLVE_HOSTS_HARD_LIMIT`), and is flagged when it has that many (`Truncated`).
A pattern on a state is a `FilterError` as a parameter and no compilation exists (`Compiles`).

Thruk does not evaluate every `q=` expression. The comments of `_compile_hybrid` (740-743) record that alternatives
on lists (groups, custom variables) joined with a condition on a single value are answered with nothing at
all; `Readable` says when that is so, and `Selects` is false of everything then. It is why the compiler keeps plain conditions
out of `q=`, and what the mutant `Hybrid_StatesInQ` undoes. Trees are nested by at most `MaxHeight` (`TreesOf`), so that
what the code does by recursion is a recursive function on them: what a tree is made of
(`LeavesOf`), whether it holds if certain conditions do (`Satisfied`), the same tree with something
else for each condition (`Rewritten`, for `_expand_group_in` and the rewriting of custom variables),
its parameters (`Merged`). A name is a model value; which names contain which
(`Within`) is data, and enough for patterns. `Grow` and `Wrap` make trees; the properties about
the compilers are checked of every tree reached.

`Ask` starts `thruk_problems` with a tree. Each of its two queries (hosts,
services) is a machine of `get_with_fallback`: `WholeAnswers`, `WholeFails`
(`client.py` 244-258), `SitesAnswer`, `SitesFail` (260-279), `BackendAnswers`,
`BackendFails` (278-291). A leaky backend ignores the parameter on
groups, which is what the second check of the rows is there for. The two queries
are one after the other, as the code awaits them. Each answer is a page: the worst rows by state, as many as
`Limit`, after those that `offset` skips, rows of one state in any order (`Worst`). Whole, the page is cut from
the rows of all backends together; on the fallback each backend cuts its own. `skipped` remembers what
an offset has left out.

### 2.6 LogReports, Triage and History

`LogReports` has one operator for each report (`Reliability`, `TopNoisyHosts`,
`TopNoisyServices`, `RecurringProblems`, `Flaps`, `AlertHeatmap`,
`NotificationHeatmap`, `IncidentTimeline`, `ReconstructStateAt`, `StateDiff`) and one for each helper
it is built from; `Triage` has `ConcurrentFailures`, `RootCause` and
`UnreachableVsDown`. They are folds of the community modules or, where something is proved of them
(`Reduction`, `Seconds`, `Replay`), recursive functions. A filter of the rows and a sort by time are one
thing, the places wanted in the order wanted (`Listed`: `Chosen`, `ByTime`); a walk
up the parents (`Upwards`) is the least closed set, which is what a search with a set of nodes seen
finds whatever the order of its stack.

`History` makes the logs. Cores (external) write a row for an alert, a
downtime, an acknowledgement or a notification of what they monitor, under the rules of
Naemon: a problem is SOFT before it is HARD, or HARD at once on an object with a single check
attempt (no "soft" in its `Kinds`), only the first of overlapping downtimes is logged, an
acknowledgement ends with its problem. `Count`, `FetchWhole` and `FetchEach` are the two requests of `_fetch_state_logs` (1806-1837) and the fallback of the
second. `FirstPage` and `NextPage` are two pages of `thruk_list_logs` (`_fetch_logs`, 162-222), each whole or by the
fallback (`Paged`): whole, the offset counts the rows of all backends; on the fallback each connected backend is sent the same
limit and offset and counts its own (`Slice`), and their rows are concatenated. Rows of one second are paged newest
first. `pages` remembers of each page which backends' rows were counted together. On the fallback only a connected
backend that fails is warned of (`Fallbacks`). `live` and `past` are what
the cores know, the truth the reports are compared with.

## 3. Runs

| Run | Instance | Checks | Shows |
|---|---|---|---|
| `client_safety` | 3 tasks, 2 permits, 2 retries, reads and commands, TTL 1, symmetry; 718 384 states | `ClientTypeOK`, `SlotsRespected`, `NoPermitLost`, `AttemptBudget`, `OkWriteTookEffect` | permits survive every interleaving of arrival, hand-over, retry and cancellation; writes are bounded and never falsely reported |
| `client_promise` | 2 tasks, 1 permit, reads and background jobs, TTL 2, deadline 2; 123 574 states | `CacheOK`, `NoTicketReturned`, `HitsAreFresh`, `EveryCallEnds`, `KeepsPromise` | the client implements `FetchPromise`; every call ends |
| `client_cap` | as above, deadline 1 | `AllRequestsCapped` (violated) | see 6 |
| `gateway_pool` | 2 requests, 3 tenants, pool of 2, no retries; 271 736 states | `PoolSound`, `LRUSparesActive`, `TenantIsolation`, `EveryRequestEnds`, `ShutdownClosesAll` | eviction under requests in flight, and shutdown, lose no client and mix no tenants |
| `gateway_calls` | 2 requests, 2 users of one key, pool of 1, 1 retry, up to 2 commands after a look-up, every kind of call, every switch; 1 357 981 states | `GatewayTypeOK`, `ChangesAreLogged`, `ReadOnlyHolds` | read-only mode holds, and the log agrees with what was done in Thruk as far as the way a tool treats failures lets it |
| `gateway_audit` | as above | `EveryChangeLogged` (violated) | see 6 |
| `downtimes` | 3 downtimes on 2 hosts, one booked late; a call of any kind beside one that deletes a host's active downtimes; 138 357 states | `DowntimesTypeOK`, `OnlyMeantDeleted`, `NothingOverlooked`, `ReportedGoesAway`, `EveryDeletionEnds` | no deletion hits what no call asked for, misses what was there all along, or is reported and does not happen |
| `downtimes_by_id` | one call by id without a service | `ReportedGoesAway` (violated) | see 6 |
| `writes` | 2 hosts, one below the other, 4 services, pages of 2, limit 4, one change of state; a call of any kind beside an acknowledgement; 352 090 states | `OnlyIntendedTouched`, `DoneMeansDone`, `NothingSkipped`, `HostBeforeServices`, `EveryWriteEnds` | a normal return answers for all the objects of the request, and nothing else is touched |
| `problems` | all trees of up to 3 conditions over 13 host, 9 service, 10 log and 3 total conditions, nested by at most 5, look-ups cut at 3 hosts; `thruk_problems` asked with up to 2 of 11 conditions, limit 1, offset 0 or 1, 2 backends, one leaky; 347 964 states | `NothingMissed`, `ExactWhenDistinct`, `NarrowingKeepsAlerts`, `OnlyMembersReported`, `NoProblemUnreported` | the compiled query selects what the tree means, with the exceptions the property names; a problem that is not reported is skipped, outranked, or on a backend that is named in a warning or was not connected |
| `filter_conditions` | trees of two conditions on a host group | `AppliesAllConditions` (violated) | see 6 |
| `history` | 2 backends, 3 hosts (one known to both) and a service, SOFT states of a host and of the service, 3 rows and one more, 3 seconds, limit 2, pages of 1 in the first second; 979 856 states | `IncidentsAreOutages`, `SettledPast`, `PagesLeaveNoGap`, `CountsAreExact`, `TimelineMatchesReplay`, `BurstsAreExact`, `RootsExplain` | each report says of the log what the cores knew, or warns, with the exceptions the property names |

**Why these bounds.** Three tasks on two permits are the least at which an arrival, a
woken waiter and a queued one compete at one time; two retries let a loop go round, and
round again. A cache of one entry evicts at the second key; a TTL of two ticks has
an age between fresh and expired, which a sliding expiry needs to show. Three
tenants on a pool of two make recency matter (with two, oldest and least recently
used agree). Two requests suffice for a client to be evicted under one by the other.
A pool of one with two users makes every second arrival an eviction, so every kind of
call also meets a closed client.

Three downtimes are the least that give each way of matching a hit and a miss
(a host's own, one of a service, one of another host); one of them is booked late, under listings and
bulk commands. Pages of two with three targets of a kind need a second page, and a limit of
four is reached by both kinds together but not by one, so that reading stops by the page. Trees
of three conditions hold an `or` beside a conjunct and inside a conjunction, which
is where the hybrid of parameters and `q=` decides; two conjuncts on one
parameter need two. What `thruk_problems` sends does not depend on how conditions are grouped, so
it is asked with up to two of them (`AskedSize`), which can overwrite one another; a page of one row out of
up to four, with and without an offset, is cut whole and by backend. Four hosts with a look-up of
three are a look-up that is cut, and one that just is not but is flagged. Two commands after a look-up
(`MaxTargets`) are one that fails and one that does not. Three rows with a limit of two drop a row; two of one second
and a third of another meet the ties of the replay; an outage with a beginning
in the window and one without need two and one. Pages are told apart by places and not by
times, so they are read in the first second (`PageTime`); a row of each of two backends and a third are enough for
a fallback to mix them up.

`CHECK_DEADLOCK FALSE` is set where the system stops: a server that is shut down,
calls that have all ended (`downtimes`, `writes`), a report that is given
(`problems`, `history`).

Every property of a passing run has a mutant in `PROJECT.json`: a plausible slip in one
definition (a dropped guard, an off-by-one, a field left out of a key) under which
TLC finds that property violated. Their definitions, named `<Definition>_<Slip>`, stand before
the ones they vary and are used nowhere else.

## 4. Fairness

Safety is checked of `Spec`, which assumes nothing. Liveness assumes:

* a task that is ready runs (`Resume`, `Wake`, `Dispatch`, ...): asyncio's ready
  queue is FIFO;
* an attempt and a poll end (`AttemptEnds`, `PollEnds`): httpx is built with
  connect, read, write and pool timeouts (`client.py` 46-87), so each ends at least in a
  network error;
* time passes (`Tick`);
* closing a client ends (`CloseRetired`, `CloseEvicted`): `_safe_aclose` catches
  what `aclose` raises.

* every await of a tool returns with an answer or an error (`Step` in `Downtimes`
  and `Writes`): each is a request of the client, which ends (`EveryCallEnds`), or a
  sleep; a command that a failed cascade has left behind is a task of its own and
  returns likewise;
* in `Downtimes`, the core works through its pipe (`Execute`), as Naemon does at
  every turn of its event loop: without it nothing that is accepted ever happens.

Nothing is assumed of Thruk's answers (`Serve` and `Perform` are not fair, a reply may
never come), of callers, of cancellation, of objects that change, or of whoever
stops the server. The fairness is weak throughout: an enabled action stays
enabled until its own task moves, and waiting for a permit is
fair because the queue is FIFO.

## 5. Proofs

All theorems are checked by `tlapm` with no step left out. They hold for every
number of tasks, requests, tenants, permits and retries, every cache and pool size and every set
of tool calls, under the named assumptions of the modules:
`MaxConcurrentAssumption`, `CacheAssumption` (capacity and TTL positive),
`ClientAssumption` (finitely many tasks; cacheable calls have keys in `CacheKeys`),
`RepliesAreDistinct`, `GatewayAssumption`, `NoClientIsNone`, `ReadToolsRead` (a tool
that is not marked as a write only reads), `DowntimesAssumption` (an id names a downtime, and
the active downtimes asked for are those of a host and of no group: both are required arguments),
`WritesAssumption` (finitely many objects, a service on one of the hosts, groups of such
objects, calls with the arguments the tools have, a page and a limit of at least 1),
`FiltersAssumption` (conditions on fields the tool allows, with operators there are and a single value
unless the operator is `in` or `regex`; states and times that the compiler knows; a name matches itself as
a pattern; finitely many values, a look-up that stops at one host at least; every row of the log is of a monitored
host, whose groups and variables it carries; in the totals a
custom variable is the host's), `ProblemsAssumption` (finitely many hosts and services with a natural number for a
state, a limit of at least 1, as `_list_params` sees to), `NamesAssumption` and `HistoryAssumption` (the monitored hosts and the parents of hosts are
among the names, states are naturals, every backend that monitors something is one of those asked, and a page
has at least one row, as `_list_params` sees to).

| Theorem | Statement |
|---|---|
| `CacheAlwaysOK` | `CacheSpec => []CacheOK` |
| `ClientInvariant` | `Spec => []ClientInv` |
| `ClientTypes`, `PermitsConserved`, `ConcurrencyCap`, `BoundedAttempts`, `ClientCacheOK`, `FreshHits` | the properties `ClientTypeOK`, `NoPermitLost`, `SlotsRespected`, `AttemptBudget`, `CacheOK`, `HitsAreFresh` of `ThrukClient` |
| `SuccessIsReal`, `TicketsStayInside` | the properties `OkWriteTookEffect`, `NoTicketReturned` of `ThrukClient` |
| `ClientKeepsPromise` | `Spec => KeepsPromise`: `ThrukClient` implements `FetchPromise` |
| `GatewayInvariant` | `Spec => []GatewayInv` |
| `DowntimesInvariant` | `Spec => []DInv` |
| `OnlyMeantGo`, `NoneOverlooked`, `DowntimesTypes` | the properties `OnlyMeantDeleted`, `NothingOverlooked`, `DowntimesTypeOK` of `Downtimes` |
| `PoolInvariant`, `TenantsIsolated`, `GatewayTypes`, `ReadOnlyMode`, `ChangesLogged` | the properties `PoolSound`, `TenantIsolation`, `GatewayTypeOK`, `ReadOnlyHolds`, `ChangesAreLogged` of `Gateway` |
| `ActiveSpared` | the property `LRUSparesActive` of `Gateway` |
| `WritesInvariant` | `Spec => []WritesInv` |
| `IntendedTouched`, `ReportedIsDone`, `HostFirst`, `PagingIsComplete` | the properties `OnlyIntendedTouched`, `DoneMeansDone`, `HostBeforeServices`, `NothingSkipped` of `Writes` |
| `PagesInvariant` | `Spec => []PagesInv` |
| `NoGapBetweenPages`, `RootsAlwaysExplain` | the properties `PagesLeaveNoGap`, `RootsExplain` of `History` |
| `PastInvariant` | `Spec => []PastInv` |
| `TreesAreBuilt` | `Spec => []TreeOK` |
| `ToolInvariant` | `Spec => []ToolOK` |
| `CompilationMissesNothing`, `CompilationIsExact`, `NarrowingIsSafe` | the properties `NothingMissed`, `ExactWhenDistinct`, `NarrowingKeepsAlerts` of `Problems` |
| `MembersOnly`, `ProblemsReported` | the properties `OnlyMembersReported`, `NoProblemUnreported` of `Problems` |
| `PastIsSettled`, `OutagesAreCounted`, `BurstsAreFound` | the properties `SettledPast`, `IncidentsAreOutages`, `BurstsAreExact` of `History` |

**The client.** `NoPermitLost` is not inductive. `SemOK` adds that the queue has no
duplicates and is disjoint from the woken tasks, without which a release could hand
two permits to one task; `LoopOK` ties `sent` to `attempt` in each phase (one more
attempt is on the wire, or was, than the counter says), which bounds both. `SemOK` has a
lemma for each operation of the semaphore (`SemStart`, `SemEnd`, `SemEnter`,
`SemAbandon`), cited by the lemmas for the actions. `FreshHits` needs
`EntriesAreYoung`: what an entry has left to live and the time since its payload was last heard
add up to at most the TTL. `OkWriteTookEffect` speaks of calls that have ended, so `ResultOK` says it of a
reply on its way and of a job that is polled; `NoTicketReturned` needs that a ticket is cached
only under the key of a background call (`TicketsFiled`).

**The refinement.** Under the mapping of `KeepsPromise` each action of the client is shown to be one
step of `FetchPromise` or none: an attempt that is sent (`TryPromised`, where the semaphore's invariant
gives the free permit the promise asks for), one that ends without ending the call (`ClosePromised`), a
call that ends (`FinishPromised`), time; queueing, waking and polling are not seen. The safety of
`FetchPromise` is thereby proved of the client; it states no fairness.

**The gateway.** `PoolOK` says what `PoolSound` leaves out: the key of a cached item is the key
of its client's configuration, evicted clients are not in the cache, and the cache is
empty while clients are retired. From `ClientKeyInjective` (the key tells apart all
the configurations that headers can make) a hit is bound to a client of its own
configuration, and with `NewClientIsNew` a miss opens a client nobody else holds.
`CallOK` carries read-only mode into the retry loop. `AllLogged` says what the log owes to a call in each phase, and
`Due` what a call that is under way has changed by then: a cascade that has its first
command behind it has changed Thruk, a bulk tool before its commands has not, so an error can only be logged of one that
has done nothing. `LRUSparesActive` needs `AllSpared`:
either a request's client is in the cache and the keys nearer to its recent end are among those
looked up since (`Recent`), or `maxsize` others have come. A look-up moves its key to that end
and leaves the order of the rest (`MoveToEndOrder` of `OrderedDict_proofs`), so when the client is at the
head and evicted, the rest of the cache and the newcomer are `maxsize` others.

**The deletions.** `OnlyMeantDeleted` speaks of commands that took effect, so `PipeOK` says it of
those that have not: each is backed by a call that means all it can hit
(`HitsAreMeant`, from `BulkIsMeant`). `NothingOverlooked` speaks of calls that have ended, so
`SeenOK` says it of those under way: what a call has seen all along is left to delete,
dealt with, or covered by the bulk command it has given. `RouteOK` remembers how a call got to its
listing, without which `ListedIsMeant` and `MeantIsListed` (the look-up finds what is
meant, and nothing else) would not apply. `Moves` shows once that a call's step keeps
the invariant if its new record is sound; the lemmas for the actions establish that.

**The writes.** The invariant has a part for each property. `WhereInv` says in which phase a call may
be with which arguments. `AimInv` says of commands still to be sent what `OnlyIntendedTouched` says of
those performed: they reach what the docstring of the tool promises, or rows that were
problems at some time (`AskedAreProblems`: where a state is not refused, the filter of the
code and the docstring agree). `DoneInv` accounts for every command (`Accounts`: one that is
answered has reached its objects, the others are in `todo` or have failed) and remembers that a cascade has
reached its host (`Led`). `PagedInv` carries the argument about offset paging: a target
that has been one all along is among the rows read, or its place in the list lies beyond the
offset (`Found`). A place can only grow when problems join (`JoiningMovesBack`), so no page
passes over it; it shrinks when one vanishes, which is the exception that
`NothingSkipped` makes. `PlaceIsRank` and `ListingIsComplete` are what is needed of the order of a listing.

**The log.** `Numbered` says that rows keep their places, `Given` that of the backends whose rows were counted
together the pages hold the rows at the page's offset in the log as it
was at two moments. A second page begins at an offset from the newest of these rows, and the log only
grows (`FewerNewer`: an older row never has fewer newer ones), so it begins at the end of the first or overlaps it. Nothing can be
said of rows that were counted with those of other backends once only. `RootsExplain` holds of any log of known hosts: what
lies strictly above a host is the least set closed under parents, so it shrinks strictly from a host to one above it
where there is no loop, and of the hosts that are down one with the fewest above it is topmost
(`SomeTop`). That a set of numbers has a least one (`LeastNat`) comes from the
well-founded order of the library.

**The past that is over.** Neither report can be trusted for what a reduction of the rows alone says: the rows must say what
the core knew. `PastInv` states that of every object and every second up to now (`Recorded`). Its last alert by
then shows the state, its last hard one the hard state, a downtime stands that begins after all that ended, and
an acknowledgement likewise (`Knows`). `KnownAfter` carries it over one more row; a tick
closes a second, which later rows leave alone because times only grow (`Written`). `Complete` is about the two
requests: where all backends were counted and asked and nothing warns, the limit has cut nothing off, so the answer
has all the rows of the past, in whatever order. `SettledPast` then follows from `ReconstructTells`: the replay sorts what it
was given, and a replay of rows in the order of the log says what the rows say.

**The incidents.** `Relieved` is the strengthening that `IncidentsAreOutages` needs: a hard recovery follows a hard
problem directly, so one at the head of the window means that the object was out from the
window's start. `ReductionFaithful` says of the loop of `extract_incidents`, after each row, that the
incidents found are in order, do not overlap, and cover the very seconds the object was out
(`Faithful`); `SecondsCovered` that their durations then add up to the number of those
seconds.

**The bursts.** `Scanned` says what the sliding window has found after each failure: the window holds the
failures within reach of the newest (`Reach`), and there is a hit for each place with hosts enough within its reach,
in the order of their starts and of their ends. That order is what lets the merging look at the last burst only:
`Joined` says that each hit lies in a burst, that each host came with a hit of its burst, and that bursts do
not overlap. `BurstsSay` draws the conclusion for every width and every number of hosts: the last failure of
a crowd reaches all of it (`LastOfCrowd`), and a hit's reach is a crowd from its oldest failure on.

**Loops over rows.** The provers have no rule of induction that takes a predicate, so each loop is proved in two
steps. `WalkExists` says, for any step given as a function, that the steps can be
walked from the first row to the last: were there a row that cannot be reached, there would be a least one
(`LeastNat`). From that the loop's own lemma (`ReplayWalks`, `ReductionWalks`, `SecondsWalk`, `ScanWalks`, `JoinWalks`) gives the
values after each row, and a set of row numbers that has 0 and the successor of each member has them all (`UpTo`),
which is how `ReplayTells`, `ReductionFaithful`, `SecondsCovered`, `HitsSay` and `JoinedAll` go from row to row. `Ranks` and `Listing`
do the same for a sort or a filter: each place wanted has a rank, and the rows are listed by rank.

**Trees.** What the code computes by recursion on a filter is a recursive function on the trees of a
bounded nesting, and the bound is a constant like any other. That such a function exists and obeys its
equation is proved as for loops: `FoldExists` builds it nesting by nesting, and `FoldOfTrees` and the lemmas named
`...Unfold` give the equation of each operator. `TreeInduction` carries a property from the children of a tree to the
tree: a set that has the conditions, and each group whose children it has, has all trees.

**The compiler.** A tree holds if the conditions that hold satisfy it (`MeansIs`), and so does each rewritten
tree (`RewrittenIs`), so the whole compiler comes down to single conditions. `ParamMeans` and `QLeafMeans` say what a
parameter and a `q=` leaf select of a condition, `AlternativesMean` what `in` becomes. `CompiledIs` says that
the query has the trees with alternatives in `q=`, and parameters each of which comes from a plain condition;
merging keeps every key but not every value (`MergedIs`, `FromLeaves`). Hence nothing is lost
(`SelectsAll`), as long as Thruk can read what is left in `q=`: each parameter that is left is implied by its condition. It is exact only if no key is shared
(`SelectsOnly`). `Simply`, `OfTheLog`, `OfTotals` and `OfTotalHosts` draw the conclusion in each context, and
`CompiledFaithfully` puts them together. The parts in `q=` are the filter's own alternatives, so it
cannot be read only if they join; a log filter has no lists in `q=` and always can (`LogIsReadable`). For the log, the
conjuncts that are looked up hold of the host of a row if they hold of the row (`HostsAgree`), and a look-up that is not
flagged has all the hosts (`FoundAre`); for the
totals, renaming and expansion commute (`RenamedWhenExpanded`), and the hosts side is the compilation of what is
left of the filter (`StrippedIs`). `AlertKinds` is safe because one conjunct with
states of one kind only is enough, and every alert that the filter names satisfies that conjunct (`Narrowed`).

**The problems.** `NoProblemUnreported` speaks of the end, so `ToolOK` says of any moment that each
row that matches a query has been collected if its backend has been heard without a
warning, or the offset has skipped it, or as many collected rows as the limit admits are at least as bad
(`Outranked`); and that rows are filtered only at the end, with those dropped still counted. `Collects` shows it for
the page of any backends, whole or one by one (`Answered`). That a problem the filter means passes both the backend and the client's check is
`ProblemsAccepted`: the base parameter is either overridden by one that the row satisfies or is what makes the
row a problem.

**Only model-checked:** `CountsAreExact` and `TimelineMatchesReplay`,
which relate several folds of the community modules to each other (sums over
functions, sequences made of sets), each of which would need the two steps above; and
`EveryCallEnds`, `EveryRequestEnds`, `ShutdownClosesAll`, `ReportedGoesAway`,
`EveryDeletionEnds` and `EveryWriteEnds`, because liveness under
fairness (and `ENABLED`) is out of the prover's reach. No module with a theorem
declares a `RECURSIVE` operator.

## 6. Where the code and its documentation differ

* **`client_cap`.** README.md:272 and `config.py`:97 describe `max_concurrent` as a cap on
  in-flight HTTP requests. `run_background` polls with `self._client.get`
  (`client.py`:366), outside the semaphore. TLC shows a job being polled beside a full
  set of attempts.
* **`gateway_audit`.** README.md:289 and `config.py`:93 promise a line for every
  write invocation. `call_tool` logs after a result, `TypeError`, `ThrukError` or
  `ValueError`. A job whose poll raises `httpx.RequestError`, or a command whose retry
  meets a client closed by an eviction (`RuntimeError`), has changed Thruk and leaves none.

* **`downtimes_by_id`.** The docstring of `thruk_delete_downtime` (`commands.py`:582-585) says that
  without `service` it fetches the downtime "to determine whether it belongs to a
  host or a service", so as not to hit the host's endpoint on a downtime of a service
  (:591-593). The endpoint answers a list (:612), the code looks for an object
  (:595), and the command always goes to the host. TLC shows a downtime reported
  as deleted that stays.
* **`filter_conditions`.** The schema of a group (`filters.py`:957) says that the operator is
  applied to all conditions, and `_compile_hybrid` (:746-748) speaks of "exactly the
  AND semantics we need". Conjuncts are merged with `dict.update` (:404), so of two on one
  field and operator only the last is sent. `thruk_problems` repairs this for host groups by its
  second check of the rows (`OnlyMembersReported`); the list tools do not.

What the models represent as the code has it, with no run of its own (each is in a
definition that the properties above pass, or in an exception they name):

* `thruk_delete_downtimes_by_filter` with a host and a service but no comment also
  deletes the host's own downtimes of that start time (`commands.py`:935-948; `OwnMatches`, `Meant`).
* The operator of a custom variable is ignored: `neq` compiles as `eq`
  (`filters.py`:312-320; `Expressible`).
* `regex` on a state passes validation. As a parameter it raises `FilterError`
  (`filters.py`:338-342; `Compiles`), in `q=` it compiles to `=` (`Expressible`), and `thruk_problems` sends it as a
  pattern with the state's number (:699-712; `ProblemParam`).
* Alternatives on lists that a filter joins with a condition on a single value stay in `q=` with it, where the condition has
  alternatives too or both are under an `or`: `_compile_hybrid` moves out only conditions without alternatives (`filters.py`:760-771), so
  `hostgroup in (A, B) and state in (down, unreachable)` still builds the form that the comment at :740-743 and
  `tests/test_filters.py`:534-544 say Thruk answers with nothing (`OwnAlternatives`).
* The second check of `thruk_problems` passes over `gte` on a group (`inventory.py`:709), although validation takes it for
  membership (`filters.py`:347) and the docstring (:743-746) promises to check any condition on groups: rows that a backend leaks are then
  reported (`OnlyMembersReported`).
* `thruk_problems` cuts each query at its limit and says nothing of the rows beyond it
  (`inventory.py`:748-752; `Outranking`). On the fallback the caller's offset is taken off each backend's answer (`skipped`).
* The bulk tools keep failures as rows of their result, so a call none of whose commands succeeded is logged with status
  ok (`commands.py`:307-322, 808-851, 1018-1055; `ChangesAreLogged`).
* On the fallback each backend is sent the offset of the whole (`client.py`:240-242, 278-291), so a page that came whole
  and one that came by backend can leave rows out between them, with nothing said when every backend answers (`PagesLeaveNoGap`).
* Outside of services, `q=` knows no state of a service (`filters.py`:437): the example
  "Critical/Unknown services on web-01" (:994-999) compiles to
  `(state = critical) or (state = unknown)` (`Expressible`).
* `in` on a name is an unanchored alternation and selects longer names too
  (`filters.py`:394; `Widens`).
* In a log filter a pattern on `host` is replaced by the one of the look-up
  (`helpers.py`:523; `Widens`).
* `thruk_problems` asks for hosts of state 1 only (`inventory.py`:749), so unreachable hosts
  appear only if the filter names their state (`IsProblem`).
* In `thruk_bulk_acknowledge` "1" and "2" are always states of hosts, and "0" is refused
  (`commands.py`:186-204; `Named`).
* On the fallback, backends that are not connected are left out without a warning
  (`client.py`:262-276; `NoProblemUnreported` and `SettledPast` speak of those that were asked).
* Rows of one second are replayed against the order of the log, since the log is
  fetched newest first and sorted stably by second (`history.py`:1643-1646; `Told`).
* The warnings of the count are dropped (`history.py`:1817), so a backend that only
  the count misses lets the limit drop rows without a warning (`total.complete`).

Seen while reading, not modelled: `__main__.py`:81 builds the pool with its default
size, although `multitenant.py`:38-41 calls it tunable through
`THRUK_CLIENT_CACHE_SIZE`; README.md:298-299 reads as if `max_concurrent` were
per server, while each client of the pool has its own semaphore; an object
of several groups counts once in each, although the comment of the regrouping (`helpers.py`:564-566) says that totals
reconcile; the comment in `_fetch_logs` that no matching host gives an
empty result (`history.py`:207) is not what an absent parameter does, but no
caller takes that path; on the fallback the transitions of a flap summary are counted over rows
concatenated by backend.

## 7. Not modelled

* Cancellation in the gateway: the header-auth transport is stateless, and uvicorn
  waits for requests in flight at shutdown, so it does not arise there. It is modelled in `ThrukClient`.
* The text of requests, replies, logs and prompts; redaction in the audit log.
* `httpauth.py`: one stateless comparison. `from_env` and the checks of
  `__main__.py`: read once, before anything runs.
* `perfdata.py`, `tools/perfdata.py`: parsing of text and arithmetic on one metric at a
  time; nothing is shared, ordered or kept.
* Tools that send one request and reformat its answer: most of `inventory.py`,
  `thruk_recent_events`, `thruk_notification_summary`, and of `triage.py` the oldest
  problems, unacknowledged problems, stale checks and acknowledgements, problem counts and the
  health of workers and backends.
* Prompts, resources, tables of names and schemas (`prompts.py`, `resources.py`, `constants.py`,
  `tools/base.py`, `tools/__init__.py`).

## 8. What is left

1. The composition of a pool with the retry loop of its clients, for what the cap on
   requests means for a server.
2. The classifications of `triage.py` that are left out, as operators.
