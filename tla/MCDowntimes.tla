------------------------------ MODULE MCDowntimes ------------------------------
(* Three downtimes on two hosts for TLC.                                   *)
EXTENDS Downtimes, TLC

CONSTANTS c1, c2

MCDowntimes == {1, 2, 3}
MCOf ==
    1 :> [host |-> "web", service |-> None, start |-> 8, words |-> {"patch"}]
 @@ 2 :> [host |-> "web", service |-> "ssh", start |-> 9, words |-> {"patch", "kernel"}]
 @@ 3 :> [host |-> "db", service |-> None, start |-> 8, words |-> {"kernel"}]

Blank == [tool |-> "by_filter", id |-> None, host |-> None, group |-> None,
          service |-> None, start |-> None, comment |-> None,
          pinned |-> FALSE, retry |-> TRUE]
Filtered == {
    Blank,
    [Blank EXCEPT !.host = "web"],
    [Blank EXCEPT !.host = "web", !.service = "ssh", !.pinned = TRUE],
    [Blank EXCEPT !.host = "web", !.comment = "patch"],
    [Blank EXCEPT !.host = "web", !.comment = "kernel"],
    [Blank EXCEPT !.group = {"web", "db"}, !.start = 8],
    [Blank EXCEPT !.comment = "kernel"]}
OfOneObject == {
    [Blank EXCEPT !.tool = "active", !.host = "web"],
    [Blank EXCEPT !.tool = "active", !.host = "web", !.service = "ssh", !.retry = FALSE],
    [Blank EXCEPT !.tool = "by_id", !.id = 2, !.host = "web", !.service = "ssh"],
    [Blank EXCEPT !.tool = "by_id", !.id = 1, !.host = "web"]}
\* One call of any kind beside one that deletes the active downtimes of a host.
RightlyRouted == c1 :> Filtered \cup OfOneObject
              @@ c2 :> {[Blank EXCEPT !.tool = "active", !.host = "web"]}

\* A downtime of a service, by its id alone.
ByIdAlone == c1 :> {[Blank EXCEPT !.tool = "by_id", !.id = 2, !.host = "web"]}
================================================================================
