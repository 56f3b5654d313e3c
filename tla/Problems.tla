-------------------------------- MODULE Problems --------------------------------
(* thruk_problems of tools/inventory.py: a filter is compiled for two queries, *)
(* each goes through ThrukClient.get_with_fallback, and the rows are checked   *)
(* again by the client.  The rows of a backend are external; a leaky backend   *)
(* ignores the parameter on groups.  An answer holds the worst rows, as many   *)
(* as the limit admits, after those the offset skips; on the fallback each     *)
(* backend is given the same limit and offset.                                 *)
EXTENDS Filters

CONSTANTS
    Backends,   \* the backends of the federation
    Leaky,      \* those that ignore the conditions on groups
    Limit,      \* the limit of a call, once _list_params has clamped it
    Offsets,    \* the offsets of calls
    AskedSize   \* bound: leaves of a tree that is asked

VARIABLES
    stage,      \* "building", "hosts", "services", "done", "refused", "raised"
    mode,       \* of get_with_fallback: "whole", "sites", "each"
    pinned,     \* whether the caller has chosen the backends
    offset,     \* of the call
    pending,    \* backends asked one by one that have not answered
    rows,       \* what has been collected, in the end what is reported
    warned,     \* backends named in the warnings
    dropped,    \* rows counted in the warning of a leak
    heard,      \* history: <<query, backend>> answered, alone or with the others
    skipped     \* history: rows that an answer left out for the offset

fetch == <<stage, mode, pinned, offset, pending, rows, warned, dropped, heard, skipped>>
vars == <<tree, context, fetch>>

ASSUME ProblemsAssumption ==
    /\ IsFiniteSet(Objects["problems"]) /\ Limit \in Nat \ {0} /\ Offsets \subseteq Nat
    /\ \A row \in Objects["problems"] : row.state \in Nat
----------------------------------------------------------------------------
(* compile_filter_problems *)

\* Conditions on groups keep their value as a list; Thruk takes any of it.  A pattern on
\* a state is sent with the state's number, a digit that matches itself only (external).
ProblemParam(l) ==
    CASE l.field \in CVFields -> Param("host_cv", "", Scalar(l))
      [] l.field = "hostgroup" -> Param("groups", IF l.op = "neq" THEN "notin" ELSE "any", l.value)
      [] OTHER -> Param("state", IF l.op = "regex" THEN "digit" ELSE StateOp[l.op],
                        StateIn(DOMAIN StateNumber, l))
ProblemParams(n) == Merged(n, [l \in Conditions |-> ProblemParam(l)])
Refused(n) == \/ ~Valid(n) \/ HasOr(n)
              \/ \E l \in LeavesOf(n) : l.field = "state" /\ l.op = "in"

\* Base conditions, which the filter's parameters of the same key replace.
Base(query) == Param("state", IF query = "hosts" THEN "" ELSE "gte", 1)
Params(query) == Updates(<<Base(query), ProblemParams(tree)>>)

Accepts(params, row) == \A k \in DOMAIN params : LET v == params[k] IN
    CASE k[2] = "any" -> v \cap row.groups # {} \/ row.backend \in Leaky
      [] k[2] = "notin" -> v \cap row.groups = {} \/ row.backend \in Leaky
      [] OTHER -> Holds(k[1], k[2], v, row)
Accepted(query, backends) ==
    {row \in Objects["problems"] : /\ row.query = query /\ row.backend \in backends
                                   /\ Accepts(Params(query), row)}
\* Sorted by "-state": any so many of the worst rows.
Worst(count, from) ==
    {page \in SUBSET from : /\ Cardinality(page) <= count
                            /\ page = from \/ Cardinality(page) = count
                            /\ \A a \in page, b \in from \ page : a.state >= b.state}

\* The check of the client: each condition on a group, not the compiled ones.
Satisfies(l, groups) ==
    l.field = "hostgroup" =>
        /\ l.op \in {"eq", "in"} => l.value \cap groups # {}
        /\ l.op = "neq" => l.value \cap groups = {}
RowMatches_AnyCondition(row) == \E l \in LeavesOf(tree) : Satisfies(l, row.groups)
RowMatches(row) == \A l \in LeavesOf(tree) : Satisfies(l, row.groups)
----------------------------------------------------------------------------
Init == /\ TreeInit
        /\ stage = "building" /\ mode = "whole" /\ pinned = FALSE /\ offset = 0
        /\ pending = {} /\ rows = {} /\ warned = {} /\ dropped = {}
        /\ heard = {} /\ skipped = {}

Ask == /\ stage = "building" /\ context = "problems" /\ Size(tree) <= AskedSize
       /\ stage' = IF Refused(tree) THEN "refused" ELSE "hosts"
       /\ pinned' \in BOOLEAN
       /\ offset' \in Offsets
       /\ UNCHANGED <<tree, context, mode, pending, rows, warned, dropped, heard, skipped>>

\* A query is answered as a whole, or its last backend has answered: the next
\* query begins, and after the second one the rows are checked.
Asking == stage \in {"hosts", "services"}
Collect(found, done) ==
    /\ stage' = IF ~done THEN stage ELSE IF stage = "hosts" THEN "services" ELSE "done"
    /\ mode' = IF done THEN "whole" ELSE mode
    /\ LET all == rows \cup found
           checked == done /\ stage = "services"
       IN  /\ rows' = IF checked THEN {r \in all : RowMatches(r)} ELSE all
           /\ dropped' = IF checked THEN {r \in all : ~RowMatches(r)} ELSE dropped
\* The answer of backends that are asked together.
Answer(backends, done) ==
    LET all == Accepted(stage, backends) IN
    \E past \in Worst(offset, all) : \E page \in Worst(Limit, all \ past) :
        /\ Collect(page, done)
        /\ heard' = heard \cup {stage} \X backends
        /\ skipped' = skipped \cup past
WholeAnswers ==
    /\ Asking /\ mode = "whole"
    /\ Answer(Backends, TRUE)
    /\ UNCHANGED <<tree, context, pinned, offset, pending, warned>>
WholeFails ==
    /\ Asking /\ mode = "whole"
    /\ IF pinned THEN stage' = "raised" /\ UNCHANGED mode
       ELSE mode' = "sites" /\ UNCHANGED stage
    /\ UNCHANGED <<tree, context, pinned, offset, pending, rows, warned, dropped, heard, skipped>>
SitesAnswer == \E connected \in SUBSET Backends :
    /\ Asking /\ mode = "sites"
    /\ IF connected = {} THEN stage' = "raised" /\ UNCHANGED mode
       ELSE mode' = "each" /\ UNCHANGED stage
    /\ pending' = connected
    /\ UNCHANGED <<tree, context, pinned, offset, rows, warned, dropped, heard, skipped>>
SitesFail ==
    /\ Asking /\ mode = "sites"
    /\ stage' = "raised"
    /\ UNCHANGED <<tree, context, mode, pinned, offset, pending, rows, warned, dropped, heard, skipped>>
BackendAnswers == \E b \in pending :
    /\ Asking /\ mode = "each"
    /\ pending' = pending \ {b}
    /\ Answer({b}, pending' = {})
    /\ UNCHANGED <<tree, context, pinned, offset, warned>>
BackendFails_Silently == \E b \in pending :
    /\ Asking /\ mode = "each"
    /\ pending' = {}
    /\ Collect({}, TRUE)
    /\ heard' = heard \cup {stage} \X pending
    /\ UNCHANGED <<tree, context, pinned, offset, warned, skipped>>
BackendFails == \E b \in pending :
    /\ Asking /\ mode = "each"
    /\ pending' = pending \ {b}
    /\ Collect({}, pending' = {})
    /\ warned' = warned \cup {b}
    /\ heard' = heard \cup {<<stage, b>>}
    /\ UNCHANGED <<tree, context, pinned, offset, skipped>>

Next == \/ /\ stage = "building" /\ (context = "problems" => Size(tree) < AskedSize)
           /\ Grow /\ UNCHANGED fetch
        \/ stage = "building" /\ Wrap /\ UNCHANGED fetch
        \/ Ask \/ WholeAnswers \/ WholeFails \/ SitesAnswer \/ SitesFail
        \/ BackendAnswers \/ BackendFails
Spec == Init /\ [][Next]_vars
----------------------------------------------------------------------------
(* Properties of the compilation. *)

\* What the compiler does not express: it ignores the operator of a custom
\* variable and takes a pattern on a state for no condition; and a q= expression
\* outside of services knows no state of a service and no "not in group".
Expressible(n, ctx) ==
    /\ \A l \in LeavesOf(n) : /\ l.field \in CVFields => l.op = "eq"
                              /\ l.field = "state" => l.op # "regex"
    /\ \A l \in Alternative(n, ctx) :
        /\ l.field \in GroupFields => l.op # "neq"
        /\ l.field = "state" /\ ctx # "services" => Scalar(l) \notin ServiceStates
Compilations == IF context # "problems" /\ Valid(tree) /\ Compiles(tree, context)
                THEN {c \in Compiled(tree, context) : Expressible(c.filter, c.target)}
                ELSE {}
\* The rows of the totals' services query are counted with the variables of their hosts.
Candidates(target) == Objects[IF context = "totals" /\ target = "services" THEN "totals" ELSE target]
Meant(c) == {o \in Candidates(c.target) : Means(c.filter, c.target, o)}
Selected(c) == {o \in Candidates(c.target) : Selects(c.query, c.target, o)}

\* No object that satisfies a filter is lost by its compilation, whatever the mix
\* of parameters, q= expression, secondary look-up of hosts and removal of service
\* groups, unless the tool warns that the look-up was cut, or the alternatives of the
\* filter themselves, joined, are what Thruk answers with nothing
\* (filters.py:306-492, 737-892, helpers.py:488-554, inventory.py:818-848, 893-901).
OwnAlternatives(c) == {n \in Parts(c.filter, c.target) : HasOr(n)}
NothingMissed == \A c \in Compilations :
    /\ ~c.flagged
    /\ c.target = "logs" \/ Readable(OwnAlternatives(c))
    => Meant(c) \subseteq Selected(c)

\* The compiled query selects nothing else either, as long as no two conditions
\* outside of alternatives share a parameter and no list of names does
\* (filters.py:398-405, helpers.py:519).
SharesParam(n, ctx) == \E l, m \in Plain(n, ctx) : l # m /\
    DOMAIN LeafParams(l, ctx) \cap DOMAIN LeafParams(m, ctx) # {}
Widens(n, ctx) ==
    \/ SharesParam(n, ctx)
    \/ \E l \in Plain(n, ctx) : l.op = "in" /\ l.field \in NameFields
    \/ ctx = "logs" /\ LeavesOf(LookedUp(n)) # {}
       /\ \E l \in Plain(n, ctx) : l.field = "host" /\ l.op = "regex"
ExactWhenDistinct == \A c \in Compilations :
    ~Widens(c.filter, c.target) => Selected(c) \subseteq Meant(c)

\* The schema of a group says "Logical operator applied to all conditions."
AppliesAllConditions == \A c \in Compilations : Selected(c) \subseteq Meant(c)

\* The kinds of alerts a filter is narrowed to lose no alert it asks for: a named
\* state is a state of hosts or of services (filters.py:561-637).
Names(o) == IF o.type = "host" THEN HostStates ELSE ServiceStates
NamedLeaf(l, o) ==
    /\ MeansLeaf(l, "logs", o)
    /\ l.field = "state" /\ l.op \in {"eq", "in"} =>
         \E v \in l.value : StateNumber[v] = o.state /\ v \in Names(o) \cup Numerals
MeansNamed(n, o) == Satisfied(n, {l \in LeavesOf(n) : NamedLeaf(l, o)})
NarrowingKeepsAlerts == context = "logs" /\ Valid(tree) /\ Expressible(tree, "logs") =>
    \A o \in Objects["logs"] : MeansNamed(tree, o) => o.type \in AlertKinds(tree)
----------------------------------------------------------------------------
(* Properties of the tool. *)

\* No row that a backend leaks out of the groups asked for is reported, nor one
\* that only the last of two conditions on groups lets through.  What the client does
\* not check again is the operator "gte" (inventory.py:681-711, where
\* inventory.py:743-746 promises it for any condition on groups): such a condition
\* holds of the rows of backends that do not leak, unless another one has taken its
\* parameter (filters.py:693-697).
OnGroup(l) == l.field = "hostgroup"
Overwritten(l) == \E m \in LeavesOf(tree) : m # l /\ OnGroup(m) /\ m.op # "neq"
OnlyMembersReported == stage = "done" => \A r \in rows, l \in LeavesOf(tree) :
    OnGroup(l) /\ (l.op = "gte" => r.backend \notin Leaky /\ ~Overwritten(l))
    => MeansLeaf(l, "problems", r)

\* Every problem a backend has is reported, or the backend is named in a warning,
\* or it was not connected when the fallback asked which are, or the caller's offset
\* skips it, or as many rows of its query as the limit admits are at least as bad and
\* are reported, or counted in the warning of a leak
\* (client.py:216-287, inventory.py:748-795).
IsProblem(r) ==
    IF r.query = "services" \/ \E l \in LeavesOf(tree) : l.field = "state" /\ l.op = "eq"
    THEN r.state >= 1 ELSE r.state = 1
Outranking(r) == {s \in rows \cup dropped : s.query = r.query /\ s.state >= r.state}
HasMeaning == \A l \in LeavesOf(tree) : /\ l.field \in CVFields => l.op = "eq"
                                        /\ l.field = "state" => l.op # "regex"
NoProblemUnreported == stage = "done" /\ HasMeaning =>
    \A r \in Objects["problems"] :
        /\ <<r.query, r.backend>> \in heard /\ r.backend \notin warned
        /\ IsProblem(r) /\ Means(tree, "problems", r)
        => r \in rows \cup skipped \/ Cardinality(Outranking(r)) >= Limit
================================================================================
