------------------------------ MODULE MCProblems ------------------------------
(* Small sets of conditions and objects for TLC.                              *)
EXTENDS Problems

Hostnames == {"web1", "web10", "db", "app"}
MCWithin == {<<n, n>> : n \in Hostnames} \cup {<<"web1", "web10">>}

MCValues == {"A", "B", "web1", "web10", "db", "x", "1", "2", "up", "down", "unreachable",
             "ok", "warning", "critical"}
OnGroups == {Leaf("hostgroup", "eq", {"A"}), Leaf("hostgroup", "neq", {"B"}),
             Leaf("hostgroup", "in", {"A", "B"})}
HostLeaves == OnGroups \cup {
    Leaf("name", "eq", {"web1"}), Leaf("name", "in", {"web1", "db"}), Leaf("name", "regex", {"web1"}),
    Leaf("state", "eq", {"down"}), Leaf("state", "gte", {"1"}),
    Leaf("state", "in", {"down", "2"}), Leaf("state", "regex", {"down"}),
    Leaf("hostgroup", "lte", {"A"}),
    Leaf("custom_var", "eq", {"x"}), Leaf("custom_var", "neq", {"x"})}
ServiceLeaves == OnGroups \cup {
    Leaf("description", "neq", {"web1"}), Leaf("state", "eq", {"critical"}),
    Leaf("state", "in", {"warning", "critical"}),
    Leaf("servicegroup", "eq", {"A"}),
    Leaf("custom_var", "eq", {"x"}), Leaf("host_custom_var", "eq", {"x"})}
LogLeaves == {
    Leaf("host", "eq", {"web10"}), Leaf("host", "in", {"web1"}), Leaf("host", "regex", {"web1"}),
    Leaf("state", "eq", {"down"}), Leaf("state", "eq", {"critical"}),
    Leaf("state", "in", {"ok", "warning"}),
    Leaf("since", "eq", {"2"}), Leaf("hostgroup", "eq", {"A"}),
    Leaf("hostgroup", "in", {"A", "B"}), Leaf("custom_var", "eq", {"x"})}
TotalLeaves == {Leaf("hostgroup", "eq", {"A"}), Leaf("servicegroup", "eq", {"A"}),
                Leaf("custom_var", "eq", {"x"})}
ProblemLeaves == {
    Leaf("hostgroup", "eq", {"A"}), Leaf("hostgroup", "eq", {"B"}), Leaf("hostgroup", "neq", {"B"}),
    Leaf("hostgroup", "in", {"A", "B"}), Leaf("hostgroup", "gte", {"B"}),
    Leaf("state", "eq", {"unreachable"}), Leaf("state", "lte", {"1"}),
    Leaf("state", "in", {"down"}), Leaf("state", "regex", {"2"}),
    Leaf("custom_var", "eq", {"x"}), Leaf("host_custom_var", "neq", {"x"})}
MCLeaves == [hosts |-> HostLeaves, services |-> ServiceLeaves, logs |-> LogLeaves,
             totals |-> TotalLeaves, problems |-> ProblemLeaves]

HostObjects == {
    [name |-> "web1", state |-> 1, groups |-> {"A"}, cv |-> "x"],
    [name |-> "web10", state |-> 2, groups |-> {"A", "B"}, cv |-> "y"],
    [name |-> "db", state |-> 0, groups |-> {"B"}, cv |-> "x"],
    [name |-> "app", state |-> 1, groups |-> {"A", "B"}, cv |-> "x"]}
ServiceObjects == {
    [description |-> "web1", state |-> 2, host_groups |-> {"A"}, groups |-> {"B"}, cv |-> "x", host_cv |-> "y"],
    [description |-> "web10", state |-> 1, host_groups |-> {"A", "B"}, groups |-> {"A"}, cv |-> "y", host_cv |-> "x"],
    [description |-> "db", state |-> 0, host_groups |-> {}, groups |-> {"A"}, cv |-> "x", host_cv |-> "x"],
    [description |-> "db", state |-> 2, host_groups |-> {"B"}, groups |-> {}, cv |-> "y", host_cv |-> "y"]}
\* Alerts of the hosts above, each with the groups and variables of its host.
LogObjects == {
    [host |-> h, type |-> k[1], state |-> k[2], time |-> k[3],
     groups |-> IF h = "web1" THEN {"A"} ELSE IF h = "web10" THEN {"A", "B"} ELSE {"B"},
     cv |-> IF h = "web10" THEN "y" ELSE "x"] :
        h \in Hostnames \ {"app"}, k \in {<<"host", 1, 1>>, <<"host", 2, 2>>, <<"service", 2, 3>>,
                           <<"service", 1, 2>>, <<"service", 0, 2>>}}
ProblemObjects ==
    {[query |-> q, backend |-> k[1], state |-> k[2], groups |-> k[3], host_cv |-> k[4]] :
        q \in {"hosts", "services"},
        k \in {<<"b1", 1, {"A", "B"}, "x">>, <<"b1", 2, {"A"}, "x">>,
              <<"b2", 1, {"B"}, "y">>, <<"b2", 2, {"A"}, "x">>}}
MCObjects == [hosts |-> HostObjects,
              services |-> ServiceObjects, logs |-> LogObjects,
              totals |-> {[host_groups |-> o.host_groups, groups |-> o.groups,
                           cv |-> o.host_cv, host_cv |-> o.host_cv] : o \in ServiceObjects},
              problems |-> ProblemObjects]

\* Conditions on two groups, for the claim of the schema.
TwoGroups == [hosts |-> {Leaf("hostgroup", "eq", {"A"}), Leaf("hostgroup", "eq", {"B"})}]
================================================================================
