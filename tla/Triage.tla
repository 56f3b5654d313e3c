--------------------------------- MODULE Triage ---------------------------------
(* The outage tools of tools/triage.py: bursts of failures, and the hosts that *)
(* are the root causes of others being unreachable.  They read the HOST ALERT  *)
(* rows of the log with a state other than UP, and the parents of the hosts.   *)
EXTENDS LogReports

CONSTANT Names  \* the names of hosts, sorted
ASSUME NamesAssumption == Names \in Seq(STRING)

First(hosts) == Names[Min({i \in DOMAIN Names : Names[i] \in hosts})]

IsFailure(r) == r.type = "ALERT" /\ r.service = NoService /\ r.state >= 1
Failures(rows) == ByTime(rows, {i \in DOMAIN rows : IsFailure(rows[i])})
----------------------------------------------------------------------------
(* thruk_concurrent_failures: a window slides over the failures, and those    *)
(* that overlap and hold enough hosts are one burst.                          *)

Burst(start, end, hosts) == [start |-> start, end |-> end, hosts |-> hosts]
\* What is left of the window when a failure is added, and the hit if there is one.
Slid(scan, r, width, min) ==
    LET more == Append(scan.window, r)
        window == Chosen(more, {i \in DOMAIN more : more[i].time >= r.time - width})
        hosts == {e.host : e \in ToSet(window)}
    IN  [window |-> window,
         hits |-> IF Cardinality(hosts) < min THEN scan.hits
                  ELSE Append(scan.hits, Burst(window[1].time, r.time, hosts))]
Hits(rows, width, min) ==
    LET scan[n \in 0..Len(rows)] ==
          IF n = 0 THEN [window |-> <<>>, hits |-> <<>>]
          ELSE Slid(scan[n - 1], rows[n], width, min)
    IN  scan[Len(rows)].hits
Merged_KeepsLast(bursts, hit) == Append(bursts, hit)
Merged(bursts, hit) ==
    IF bursts # <<>> /\ hit.start <= Last(bursts).end
    THEN Append(Front(bursts), Burst(Last(bursts).start, Max({Last(bursts).end, hit.end}),
                                     Last(bursts).hosts \cup hit.hosts))
    ELSE Append(bursts, hit)
ConcurrentFailures(rows, width, min) ==
    LET hits == Hits(Failures(rows), width, min)
        bursts[n \in 0..Len(hits)] ==
          IF n = 0 THEN <<>> ELSE Merged(bursts[n - 1], hits[n])
    IN  bursts[Len(hits)]
----------------------------------------------------------------------------
(* thruk_root_cause *)

Affected(rows, state) == {r.host : r \in {r \in ToSet(rows) : IsFailure(r) /\ r.state = state}}
Down(rows) == Affected(rows, 1)
Unreachable(rows) == Affected(rows, 2)

\* All that is reached upwards from some hosts, themselves included: the least set
\* of hosts with them and with the parents of its members.
Upwards(hosts, parents) ==
    LET known == ToSet(Names)
        closed == {S \in {hosts \cup more : more \in SUBSET (known \ hosts)} :
                      \A h \in S \cap DOMAIN parents : parents[h] \subseteq S}
    IN  {k \in known : \A S \in closed : k \in S}
DownAncestors(h, down, parents) == Upwards({h}, parents) \cap down
HasDownAbove_Itself(h, down, parents) == Upwards({h}, parents) \cap down # {}
HasDownAbove(h, down, parents) ==
    h \in DOMAIN parents /\ Upwards(parents[h], parents) \cap down # {}

\* The topmost host that is down; in a loop of parents, any.
RootOf(h, down, parents) ==
    LET ancestors == DownAncestors(h, down, parents)
        tops == {a \in ancestors : ~HasDownAbove(a, down, parents)}
    IN  First(IF tops # {} THEN tops ELSE ancestors)
Attributed(affected, down, parents) ==
    {h \in affected : DownAncestors(h, down, parents) # {}}
Clusters(affected, down, parents) ==
    LET attributed == Attributed(affected, down, parents)
    IN  [root \in {RootOf(h, down, parents) : h \in attributed} |->
            {h \in attributed : RootOf(h, down, parents) = root}]
Unattributed(affected, down, parents) == affected \ Attributed(affected, down, parents)
RootCause(rows, parents) == LET affected == Down(rows) \cup Unreachable(rows) IN
    [root_causes |-> Clusters(affected, Down(rows), parents),
     unattributed |-> Unattributed(affected, Down(rows), parents)]
UnreachableVsDown(rows) ==
    [down |-> Down(rows), unreachable |-> Unreachable(rows), both |-> Down(rows) \cap Unreachable(rows)]
================================================================================
