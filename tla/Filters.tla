-------------------------------- MODULE Filters --------------------------------
(* The filter trees of filters.py: their validation, their meaning, and their *)
(* compilation into query parameters and a q= expression.  A tree grows one   *)
(* group at a time, so that a run goes through all trees of a bounded size.   *)
(*                                                                            *)
(* All values are strings, those of a condition a set of them, with one       *)
(* element unless the operator is "in" or "regex".  A pattern is a set of     *)
(* literal names and matches anywhere in a name: Within says which name       *)
(* occurs within which.  Parameters are a function of <<column, operator>>,   *)
(* as a dictionary is of its keys.  What they select (Holds) is external.     *)
EXTENDS Integers, FiniteSets, SequencesExt

CONSTANTS
    Leaves,     \* [contexts -> the leaves a tree of that context is made of]
    Values,     \* the values of conditions
    Objects,    \* [contexts -> records: the columns of the objects there are]
    Within,     \* the pairs <<n, m>> of names such that n occurs within m
    MaxDepth,   \* MAX_DEPTH
    HardLimit,  \* _RESOLVE_HOSTS_HARD_LIMIT
    MaxLeaves,  \* bound: leaves of a tree
    MaxHeight   \* bound: nesting of a tree

VARIABLES
    tree,       \* the filter
    context     \* what it is compiled for

\* One value, or the set of them.
Leaf(field, op, value) == [kind |-> "leaf", field |-> field, op |-> op, value |-> value]
Group(operator, conditions) ==
    [kind |-> "group", operator |-> operator, conditions |-> conditions]
Scalar(l) == CHOOSE v \in l.value : TRUE
IsLeaf(n) == n.kind = "leaf"
Children(n) == {n.conditions[i] : i \in DOMAIN n.conditions}

CVFields == {"custom_var", "host_custom_var"}
GroupFields == {"hostgroup", "servicegroup"}
LookupFields == {"hostgroup", "custom_var"}
NameFields == {"name", "address", "host", "service", "description", "message", "contact"}
\* What a filter of each context may speak of.
Fields ==
    [hosts |-> {"name", "address", "state", "hostgroup", "custom_var"},
     services |-> {"host", "description", "state", "hostgroup", "servicegroup",
                   "custom_var", "host_custom_var"},
     logs |-> {"host", "service", "state", "message", "contact", "since", "until",
               "hostgroup", "custom_var"},
     totals |-> {"hostgroup", "servicegroup", "custom_var"},
     problems |-> {"state", "hostgroup", "custom_var", "host_custom_var"}]
Operators == {"eq", "neq", "regex", "in", "gte", "lte"}

\* Conditions, and trees by their nesting; what is compiled is nested by up to two
\* more than what is given.
Conditions == [kind : {"leaf"}, field : UNION {Fields[c] : c \in DOMAIN Fields}, op : Operators,
               value : SUBSET Values]
TreesOf[height \in Nat] ==
    IF height = 0 THEN Conditions
    ELSE LET lower == TreesOf[height - 1] IN
         lower \cup [kind : {"group"}, operator : {"and", "or"}, conditions : Seq(lower)]
Trees == TreesOf[MaxHeight + 2]

LeavesOf(n) ==
    LET leaves[c \in Trees] == IF IsLeaf(c) THEN {c} ELSE UNION {leaves[d] : d \in Children(c)}
    IN  leaves[n]
Size(n) ==
    LET size[c \in Trees] == IF IsLeaf(c) THEN 1
                             ELSE FoldLeft(LAMBDA sum, d : sum + size[d], 0, c.conditions)
    IN  size[n]
Depth(n) ==
    LET depth[c \in Trees] == IF IsLeaf(c) THEN 0 ELSE 1 + Max({depth[d] : d \in Children(c)})
    IN  depth[n]
HasOr(n) ==
    LET has[c \in Trees] == ~IsLeaf(c) /\ (c.operator = "or" \/ \E d \in Children(c) : has[d])
    IN  has[n]
\* Whether a tree holds if the conditions that do are these.
Satisfied(n, true) ==
    LET holds[c \in Trees] == IF IsLeaf(c) THEN c \in true
                              ELSE IF c.operator = "or" THEN \E d \in Children(c) : holds[d]
                              ELSE \A d \in Children(c) : holds[d]
    IN  holds[n]
\* A tree with something else for each of its conditions.
Rewritten(n, by) ==
    LET new[c \in Trees] == IF IsLeaf(c) THEN by[c]
                            ELSE Group(c.operator, [i \in DOMAIN c.conditions |-> new[c.conditions[i]]])
    IN  new[n]
----------------------------------------------------------------------------
(* validate_filter: names of fields are right by the choice of Leaves.     *)

ValidLeaf(l) ==
    /\ l.field \in GroupFields => l.op \in {"eq", "neq", "gte", "in"}
    /\ l.op = "in" => l.value # {}
    /\ l.field \in CVFields => l.op \notin {"in", "regex"}
Valid(n) == Depth(n) <= MaxDepth /\ \A l \in LeavesOf(n) : ValidLeaf(l)
----------------------------------------------------------------------------
(* What a tree means: no code, but the schema (filters.py:919-962).        *)

Numerals == {"0", "1", "2", "3"}
HostStates == {"up", "down", "unreachable"}
ServiceStates == {"ok", "warning", "critical", "unknown"}
StateNumber == [v \in Numerals \cup HostStates \cup ServiceStates |->
    CASE v \in {"0", "up", "ok"} -> 0 [] v \in {"1", "down", "warning"} -> 1
      [] v \in {"2", "unreachable", "critical"} -> 2 [] v \in {"3", "unknown"} -> 3]
Numeral == [v \in Numerals |-> StateNumber[v]]

\* The column of an object that a field is about.
Column(field, ctx) ==
    CASE field = "hostgroup" -> IF ctx = "services" THEN "host_groups" ELSE "groups"
      [] field = "servicegroup" -> "groups"
      [] field = "custom_var" -> IF ctx = "problems" THEN "host_cv" ELSE "cv"
      [] field = "host_custom_var" -> "host_cv"
      [] field \in {"since", "until"} -> "time"
      [] OTHER -> field
Compare(op, a, b) == CASE op = "eq" -> a = b [] op = "neq" -> a # b
                       [] op = "gte" -> a >= b [] op = "lte" -> a <= b
MeansLeaf(l, ctx, o) == LET at == o[Column(l.field, ctx)] IN
    CASE l.field \in GroupFields ->
           (at \cap l.value # {}) = (l.op # "neq")
      [] l.field = "since" -> at >= Numeral[Scalar(l)]
      [] l.field = "until" -> at <= Numeral[Scalar(l)]
      [] l.field = "state" ->
           IF l.op = "in" THEN at \in {StateNumber[v] : v \in l.value}
           ELSE Compare(l.op, at, StateNumber[Scalar(l)])
      [] OTHER -> IF l.op = "in" THEN at \in l.value
                  ELSE IF l.op = "regex" THEN \E n \in l.value : <<n, at>> \in Within
                  ELSE Compare(l.op, at, Scalar(l))
Means(n, ctx, o) == Satisfied(n, {l \in LeavesOf(n) : MeansLeaf(l, ctx, o)})
\* Conditions on the fields of their context, with names of states and numbers that
\* it knows; a name occurs within itself.
WellFormed(l, ctx) ==
    /\ l = Leaf(l.field, l.op, l.value) /\ l.field \in Fields[ctx] /\ l.op \in Operators
    /\ l.op \notin {"in", "regex"} => \E v \in l.value : l.value = {v}
    /\ l.field = "state" =>
         l.value \subseteq Numerals \cup
             IF ctx = "services" THEN ServiceStates ELSE DOMAIN StateNumber
    /\ l.field \in {"since", "until"} => l.value \subseteq Numerals
    /\ l.op = "in" /\ l.field \in NameFields => \A v \in l.value : <<v, v>> \in Within
\* A row of the log is of one host or a service of it; in the totals a custom variable is
\* its host's.
ASSUME FiltersAssumption ==
    /\ MaxHeight \in Nat \ {0} /\ HardLimit \in Nat \ {0} /\ IsFiniteSet(Values)
    /\ DOMAIN Leaves \subseteq DOMAIN Fields
    /\ \A ctx \in DOMAIN Leaves : \A l \in Leaves[ctx] :
         WellFormed(l, ctx) /\ l.value \subseteq Values
    /\ \A o \in Objects["logs"] :
         /\ \E h \in Objects["hosts"] : h.name = o.host
         /\ \A h \in Objects["hosts"] : h.name = o.host => h.groups = o.groups /\ h.cv = o.cv
         /\ o.type \in {"host", "service"}
    /\ \A o \in Objects["totals"] : o.cv = o.host_cv
----------------------------------------------------------------------------
(* Compilation to parameters. *)

Param(column, op, value) == [k \in {<<column, op>>} |-> value]
Pattern(exact, of) == [exact |-> exact, of |-> of]
StateOp == [eq |-> "", neq |-> "ne", gte |-> "gte", lte |-> "lte"]

\* The state maps: a services filter knows the states of services only, a q=
\* expression for anything else those of hosts only.
NotAState == -1
StateIn(names, l) == LET v == Scalar(l) IN
    IF v \in names \cup Numerals THEN StateNumber[v] ELSE NotAState
LeafParams(l, ctx) ==
    CASE l.field \in CVFields ->
           Param(IF l.field = "host_custom_var" THEN "host_cv" ELSE "cv", "", Scalar(l))
      [] l.field = "state" ->
           Param("state", StateOp[l.op],
                 StateIn(IF ctx = "services" THEN ServiceStates ELSE DOMAIN StateNumber, l))
      [] l.field \in GroupFields ->
           Param(IF l.field = "hostgroup" /\ ctx = "services" THEN "host_groups" ELSE "groups",
                 IF l.op = "neq" THEN "notin" ELSE "gte", Scalar(l))
      [] l.field = "since" -> Param("time", "gte", Numeral[Scalar(l)])
      [] l.field = "until" -> Param("time", "lte", Numeral[Scalar(l)])
      [] OTHER -> IF l.op \in {"regex", "in"} THEN Param(l.field, "regex", Pattern(FALSE, l.value))
                  ELSE Param(l.field, StateOp[l.op], Scalar(l))

\* A dictionary updated with one after another: the last value of a key stays.
Updates(dictionaries) ==
    [k \in UNION {DOMAIN dictionaries[i] : i \in DOMAIN dictionaries} |->
        dictionaries[Max({i \in DOMAIN dictionaries : k \in DOMAIN dictionaries[i]})][k]]
NoParams == Updates(<<>>)
\* The parameters of a tree, from those of its conditions.
Merged(n, of) ==
    LET merged[c \in Trees] == IF IsLeaf(c) THEN of[c]
                               ELSE Updates([i \in DOMAIN c.conditions |-> merged[c.conditions[i]]])
    IN  merged[n]
AndParams(n, ctx) == Merged(n, [l \in Conditions |-> LeafParams(l, ctx)])

\* A leaf of a q= expression: a column, an operator and a value.
QLeaf(l, ctx) ==
    CASE l.field \in CVFields ->
           <<IF l.field = "host_custom_var" THEN "host_cv" ELSE "cv", "", Scalar(l)>>
      [] l.field = "state" ->
           <<"state", IF l.op \in DOMAIN StateOp THEN StateOp[l.op] ELSE "",
             StateIn(IF ctx = "services" THEN ServiceStates ELSE HostStates, l)>>
      [] l.field \in GroupFields ->
           <<IF l.field = "hostgroup" /\ ctx = "services" THEN "host_groups" ELSE "groups",
             IF l.op = "neq" THEN "ne" ELSE "gte", Scalar(l)>>
      [] l.field = "since" -> <<"time", "gte", Numeral[Scalar(l)]>>
      [] l.field = "until" -> <<"time", "lte", Numeral[Scalar(l)]>>
      [] OTHER -> IF l.op \in {"regex", "in"} THEN <<l.field, "regex", Pattern(l.op = "in", l.value)>>
                  ELSE <<l.field, StateOp[l.op], Scalar(l)>>

\* The leaves `in' on a group or a state become alternatives first.
Expanded(l) ==
    IF l.op = "in" /\ l.field \in GroupFields \cup {"state"}
    THEN LET values == SetToSeq(l.value) IN
         Group("or", [i \in DOMAIN values |-> Leaf(l.field, "eq", {values[i]})])
    ELSE l
Expand(n) == Rewritten(n, [l \in Conditions |-> Expanded(l)])

\* A query: parameters, and the trees of its q= expression, all of which must hold.
Query(params, q) == [params |-> params, q |-> q]
\* compile_filter: parameters for the conditions without alternatives, q= for the rest.
Hybrid_OnlyAlternatives(n, ctx) == Query(NoParams, {c \in Children(n) : HasOr(c)})
Hybrid_StatesInQ(n, ctx) ==
    LET inQ(c) == HasOr(c) \/ \E l \in LeavesOf(c) : l.field = "state"
    IN  Query(Updates([i \in DOMAIN n.conditions |->
                  IF inQ(n.conditions[i]) THEN NoParams ELSE AndParams(n.conditions[i], ctx)]),
              {c \in Children(n) : inQ(c)})
Hybrid(n, ctx) ==
    Query(Updates([i \in DOMAIN n.conditions |->
              IF HasOr(n.conditions[i]) THEN NoParams ELSE AndParams(n.conditions[i], ctx)]),
          {c \in Children(n) : HasOr(c)})
CompileFilter(tr, ctx) == LET n == Expand(tr) IN
    IF ~HasOr(n) THEN Query(AndParams(n, ctx), {})
    ELSE IF n.operator = "or" THEN Query(NoParams, {n})
    ELSE Hybrid(n, ctx)

\* _resolve_log_filter: the log has no groups and no custom variables, so that
\* conditions on these become a pattern of the hosts that satisfy them.  An empty
\* group adds nothing; it stands for a conjunct that is left out.
Conjuncts(n) ==
    LET flat[c \in Trees] ==
          IF IsLeaf(c) \/ c.operator = "or" THEN <<c>>
          ELSE FlattenSeq([i \in DOMAIN c.conditions |-> flat[c.conditions[i]]])
    IN  flat[n]
Lookup(c) == IsLeaf(c) /\ c.field \in LookupFields
HidesLookup(c) == ~IsLeaf(c) /\ \E l \in LeavesOf(c) : l.field \in LookupFields
Splits(n) == ~\E c \in ToSet(Conjuncts(n)) : HidesLookup(c)
Joined(parts) == Group("and", parts)
Nothing == Joined(<<>>)
Direct(n) == LET parts == Conjuncts(n) IN
    Joined([i \in DOMAIN parts |-> IF Lookup(parts[i]) THEN Nothing ELSE parts[i]])
LookedUp(n) == LET parts == Conjuncts(n) IN
    Joined([i \in DOMAIN parts |-> IF Lookup(parts[i]) THEN parts[i] ELSE Nothing])

\* What a parameter selects (external).
Holds(column, op, v, o) == LET at == o[column] IN
    CASE op = "regex" -> IF v.exact THEN at \in v.of ELSE \E n \in v.of : <<n, at>> \in Within
      [] op = "notin" -> v \notin at
      [] op = "gte" -> IF column \in {"groups", "host_groups"} THEN v \in at ELSE at >= v
      [] op = "lte" -> at <= v
      [] op = "ne" -> at # v
      [] OTHER -> at = v
QLeafHolds(l, ctx, o) == LET t == QLeaf(l, ctx) IN Holds(t[1], t[2], t[3], o)
QHolds(n, ctx, o) == Satisfied(n, {l \in LeavesOf(n) : QLeafHolds(l, ctx, o)})
Matches(query, ctx, o) ==
    /\ \A k \in DOMAIN query.params : Holds(k[1], k[2], query.params[k], o)
    /\ \A n \in query.q : QHolds(n, ctx, o)

\* Thruk answers a q= expression with nothing when it joins alternatives on lists
\* (groups, custom variables) with a condition on a single value (external;
\* filters.py:740-743).  A set of trees is joined, and so is what an "and" groups.
ListFields == GroupFields \cup CVFields
Joins(trees) == \E c, d \in trees :
    /\ c # d /\ HasOr(c) /\ \E l \in LeavesOf(c) : l.field \in ListFields
    /\ \E l \in LeavesOf(d) : l.field \notin ListFields
JoinsWithin(n) ==
    LET joins[c \in Trees] == ~IsLeaf(c) /\ \/ c.operator = "and" /\ Joins(Children(c))
                                            \/ \E d \in Children(c) : joins[d]
    IN  joins[n]
Readable(q) == ~Joins(q) /\ \A n \in q : ~JoinsWithin(n)
Selects(query, ctx, o) == Readable(query.q) /\ Matches(query, ctx, o)

\* What a filter comes to for one endpoint; flagged when the tool warns that it may
\* miss something.
Compilation(target, filter, query, flagged) ==
    [target |-> target, filter |-> filter, query |-> query, flagged |-> flagged]

\* The look-up goes through the pages of its answer until it has HardLimit rows, whichever
\* these are.  Without any host the tool answers an error, which selects nothing.
Found(n) ==
    LET lookup == CompileFilter(LookedUp(n), "hosts")
        hosts == {h \in Objects["hosts"] : Selects(lookup, "hosts", h)}
    IN  {found \in SUBSET hosts : /\ Cardinality(found) <= HardLimit
                                  /\ found = hosts \/ Cardinality(found) = HardLimit}
Truncated_Beyond(found) == Cardinality(found) > HardLimit
Truncated(found) == Cardinality(found) >= HardLimit
LogQuery(n, found) ==
    LET direct == CompileFilter(Direct(n), "logs")
        host == Param("host", "regex", Pattern(TRUE, {h.name : h \in found}))
    IN  Query(Updates(<<direct.params, host>>), direct.q)
LogQueries(n) ==
    IF LeavesOf(LookedUp(n)) = {}
    THEN {Compilation("logs", n, CompileFilter(Direct(n), "logs"), FALSE)}
    ELSE {Compilation("logs", n, LogQuery(n, found), Truncated(found)) : found \in Found(n)}

\* A custom_var of a tool about hosts is a host_custom_var in its services query.
OnServicesLeaf(l) ==
    IF l.field = "custom_var" THEN Leaf("host_custom_var", l.op, l.value) ELSE l
OnServices(n) == Rewritten(n, [l \in Conditions |-> OnServicesLeaf(l)])

\* _strip_filter_field: the tree without the leaves on a field, or nothing if it has no
\* others; a group of one is that one.
Stripped(n, field) ==
    LET strip[c \in Trees] ==
          IF IsLeaf(c) THEN IF c.field = field THEN <<>> ELSE <<c>>
          ELSE LET kept == FlattenSeq([i \in DOMAIN c.conditions |-> strip[c.conditions[i]]])
               IN  IF Len(kept) <= 1 THEN kept ELSE <<Group(c.operator, kept)>>
    IN  strip[n]
\* Both sides of the totals; a side without a filter is counted whole.
TotalsQueries(n) ==
    {Compilation("services", n, CompileFilter(OnServices(n), "services"), FALSE)}
    \cup {Compilation("hosts", m, CompileFilter(m, "hosts"), FALSE) :
             m \in ToSet(Stripped(n, "servicegroup"))}

Compiled(n, ctx) == CASE ctx = "logs" -> LogQueries(n)
                      [] ctx = "totals" -> TotalsQueries(n)
                      [] OTHER -> {Compilation(ctx, n, CompileFilter(n, ctx), FALSE)}

\* The conditions that go to parameters, and those that go to the q= expression.
Top(n) == IF IsLeaf(n) \/ n.operator = "or" THEN {n} ELSE Children(n)
Parts(n, ctx) == IF ctx = "logs" THEN {Expand(c) : c \in ToSet(Conjuncts(n))} ELSE Top(Expand(n))
Plain(n, ctx) == UNION {LeavesOf(c) : c \in {c \in Parts(n, ctx) : ~HasOr(c)}}
Alternative(n, ctx) == UNION {LeavesOf(c) : c \in {c \in Parts(n, ctx) : HasOr(c)}}
\* No FilterError: the conditions to look up are conjuncts, and no parameter is a pattern
\* on a state.
Compiles(n, ctx) ==
    /\ ctx = "logs" => Splits(n)
    /\ \A l \in Plain(n, ctx) : l.field = "state" => l.op \in DOMAIN StateOp

\* infer_alert_type_regex: the kind of alerts the states of a filter leave.
StateClass(v) == IF v \in HostStates THEN "host"
                 ELSE IF v \in ServiceStates THEN "service" ELSE "ambiguous"
ClassOf_Inside(c) ==
    UNION {{StateClass(v) : v \in l.value} : l \in {l \in LeavesOf(c) : l.field = "state"}}
ClassOf(c) ==
    IF ~IsLeaf(c) THEN IF \E l \in LeavesOf(c) : l.field = "state" THEN {"ambiguous"} ELSE {}
    ELSE CASE c.field # "state" -> {}
           [] c.field = "state" /\ c.op \in {"eq", "in"} -> {StateClass(v) : v \in c.value}
           [] OTHER -> {"ambiguous"}
AlertKinds(n) == LET classes == UNION {ClassOf(c) : c \in ToSet(Conjuncts(n))} IN
    CASE classes = {"host"} -> {"host"}
      [] classes = {"service"} -> {"service"}
      [] OTHER -> {"host", "service"}
----------------------------------------------------------------------------
(* Trees grow. *)

TreeInit == context \in DOMAIN Leaves /\ tree \in Leaves[context]
Grow == \E operator \in {"and", "or"}, l \in Leaves[context] :
    /\ Size(tree) < MaxLeaves
    /\ tree' \in {Group(operator, <<tree, l>>), Group(operator, <<l, tree>>)}
    /\ tree' \in TreesOf[MaxHeight]
    /\ UNCHANGED context
Wrap == /\ Depth(tree) <= MaxDepth
        /\ Size(tree) = 1
        /\ tree' = Group("and", <<tree>>)
        /\ tree' \in TreesOf[MaxHeight]
        /\ UNCHANGED context
================================================================================
