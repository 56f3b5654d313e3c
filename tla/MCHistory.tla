------------------------------ MODULE MCHistory ------------------------------
(* Two backends that both monitor the host web, a service of web, and hosts   *)
(* behind one another, for TLC.                                               *)
EXTENDS History

MCNames == <<"gw", "uplink", "web">>
MCBackends == <<"b1", "b2">>
Http == <<"b1", "web", "http">>
Gateway == <<"b2", "gw", NoService>>
MCMonitored == {<<"b1", "web", NoService>>, <<"b2", "web", NoService>>, <<"b1", "uplink", NoService>>,
                Http, Gateway}
MCStates == [m \in MCMonitored |->
    CASE m = Http -> 0..2
      [] m = Gateway -> 0..1
      [] m = <<"b1", "uplink", NoService>> -> {1}
      [] OTHER -> {2}]
MCKinds == [m \in MCMonitored |-> CASE m = Http -> {"soft", "ack", "notification"}
                                  [] m = Gateway -> {"soft", "downtime"}
                                  [] OTHER -> {}]
MCMembership == [h \in {"web"} |-> {"A", "B"}]

\* A chain, two ways up, a loop, no parents, and a host that is not known.
Chain == [uplink |-> {}, gw |-> {"uplink"}, web |-> {"gw"}]
TwoWays == [uplink |-> {}, gw |-> {}, web |-> {"uplink", "gw"}]
Loop == [uplink |-> {"gw"}, gw |-> {"uplink"}, web |-> {"gw"}]
Flat == [uplink |-> {}, gw |-> {}, web |-> {}]
MCTopologies == {Chain, TwoWays, Loop, Flat, [uplink |-> {}, web |-> {"gw"}]}
================================================================================
