------------------------------- MODULE MCGateway -------------------------------
(* A gateway with few tenants, for TLC.                                        *)
EXTENDS Gateway, TLC

Header(key, user) ==
    [api_key |-> key, base_url |-> Absent, auth_user |-> user, backends |-> Absent]
BaseConfig ==
    [api_key |-> "none", base_url |-> "thruk", auth_user |-> "server", backends |-> "all"]

\* Three tenants, two of them sharing a key.
Tenants == {Header("k1", "ann"), Header("k1", "bob"), Header("k2", Absent)}

\* Two users of one key, and a request without a key.
TwoUsers == {Header("k1", "ann"), Header("k1", "bob"), Header(Absent, "ann")}

Tool(name, method, flaw) == [tool |-> name, method |-> method, flaw |-> flaw]
OneRead == {Tool("read", "GET", "none")}
EveryKind ==
    {Tool("command", "POST", "args"), Tool("cascade", "POST", "none"),
     Tool("delete_by_host", "POST", "none"), Tool("delete_all", "POST", "none"),
     Tool("acknowledge_all", "POST", "none"), Tool("acknowledge_all", "POST", "refused"),
     Tool("query", "POST", "none"), Tool("query", "POST", "refused"),
     Tool("background", "POST", "none")}

Everything == {"read", "query"} \cup WriteTools
Switches(read_only, audit_log, enabled) ==
    [read_only |-> read_only, audit_log |-> audit_log, enabled |-> enabled]
Plain == {Switches(FALSE, FALSE, Everything)}
EveryKnob ==
    {Switches(FALSE, TRUE, Everything), Switches(TRUE, TRUE, Everything),
     Switches(FALSE, TRUE, {"read", "command"})}

Symmetry == Permutations(Requests)
================================================================================
