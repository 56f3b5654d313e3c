-------------------------------- MODULE MCWrites --------------------------------
(* Two hosts, one below the other, and four services for TLC.             *)
EXTENDS Writes, TLC

CONSTANTS c1, c2

MCHosts == {1, 2}
MCHostOf == 3 :> 1 @@ 4 :> 1 @@ 5 :> 2 @@ 6 :> 1
MCParentOf == 1 :> None @@ 2 :> 1
MCStarts == {[o \in 1..6 |-> IF o \in down THEN 2 ELSE 0] : down \in {{1, 3, 4, 5}, {2, 4, 5, 6}}}

Blank == [tool |-> "acknowledge", host |-> 1, service |-> None, forced |-> FALSE,
          members |-> "hosts", enabled |-> FALSE, cascade |-> FALSE,
          state |-> None, hosts_only |-> FALSE, services_only |-> FALSE, group |-> FALSE]
OfTool(tool) == [Blank EXCEPT !.tool = tool]
OnOne == {[Blank EXCEPT !.tool = tool, !.service = s] :
              tool \in {"schedule_downtime", "acknowledge", "add_comment",
                        "delete_comment", "remove_ack", "recheck", "checks"},
              s \in {None, 3}}
OnMany == {OfTool("schedule_host_services"), OfTool("schedule_propagated"),
           [OfTool("schedule_propagated") EXCEPT !.forced = TRUE]}
       \cup {[Blank EXCEPT !.tool = tool, !.members = m] :
               tool \in {"schedule_hostgroup", "schedule_servicegroup"},
               m \in {"hosts", "services"}}
Cascade == {[Blank EXCEPT !.tool = "notifications", !.cascade = TRUE, !.enabled = e] : e \in BOOLEAN}
BulkAck == LET b == OfTool("bulk_acknowledge") IN
    {b, [b EXCEPT !.group = TRUE], [b EXCEPT !.state = "critical"],
     [b EXCEPT !.state = "2"], [b EXCEPT !.state = "down", !.services_only = TRUE],
     [b EXCEPT !.state = "ok"], [b EXCEPT !.hosts_only = TRUE]}

\* A call of any kind beside one that acknowledges a service.
MCRequests == c1 :> BulkAck \cup OnOne \cup OnMany \cup Cascade
           @@ c2 :> {[Blank EXCEPT !.service = 4]}
================================================================================
