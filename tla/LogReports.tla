------------------------------- MODULE LogReports -------------------------------
(* The reports of tools/history.py and reliability.py: operators on rows of   *)
(* /logs, which are a sequence in the order in which they were received.      *)
(*                                                                            *)
(* A row has a number n and is of an object, its Key; the service of a host is *)
(* NoService.  An ALERT has a state and is SOFT or HARD, the other types have a *)
(* detail.  How results are ranked, cut to a limit and formatted is left out.  *)
EXTENDS Integers, FiniteSets, SequencesExt

NoService == "-"
None == -1
Key(row) == <<row.host, row.service>>
Keys(rows) == {Key(r) : r \in ToSet(rows)}
\* The rows at some places of a sequence, in an order of these places.
Listed(rows, places, before) ==
    LET rank == [i \in places |-> Cardinality({j \in places : <<j, i>> \in before})]
    IN  [n \in 1..Cardinality(places) |-> rows[CHOOSE i \in places : rank[i] = n - 1]]
\* As they are received, and by a stable sort on their time.
Chosen(rows, places) == Listed(rows, places, {p \in places \X places : p[1] < p[2]})
Precedes(rows, i, j) ==
    rows[i].time < rows[j].time \/ (rows[i].time = rows[j].time /\ i < j)
ByTime(rows, places) ==
    Listed(rows, places, {p \in places \X places : Precedes(rows, p[1], p[2])})

Of(rows, key) == Chosen(rows, {i \in DOMAIN rows : Key(rows[i]) = key})
OfType(rows, type) == Chosen(rows, {i \in DOMAIN rows : rows[i].type = type})
Between(rows, since, until) == Chosen(rows, {i \in DOMAIN rows : rows[i].time \in since..until})
----------------------------------------------------------------------------
(* Incidents of one object, and the figures drawn from them. *)

HardAlerts_AnyAlert(rows) == ByTime(rows, {i \in DOMAIN rows : rows[i].type = "ALERT"})
HardAlerts(rows) == ByTime(rows, {i \in DOMAIN rows : rows[i].type = "ALERT" /\ rows[i].hard})

\* An incident without an end is ongoing.
Incident(start, end) == [start |-> start, end |-> end]
Reduced(sofar, r, first, since) ==
    [start |-> IF r.state = 0 THEN None
               ELSE IF sofar.start = None THEN r.time ELSE sofar.start,
     found |-> IF r.state = 0 /\ sofar.start # None
               THEN Append(sofar.found, Incident(sofar.start, r.time))
               ELSE IF r.state = 0 /\ first /\ since # None
               THEN Append(sofar.found, Incident(since, r.time))
               ELSE sofar.found]
Reduction(hard, since) ==
    LET sofar[n \in 0..Len(hard)] ==
          IF n = 0 THEN [start |-> None, found |-> <<>>]
          ELSE Reduced(sofar[n - 1], hard[n], n = 1, since)
    IN  sofar[Len(hard)]
Incidents(rows, since) ==
    LET last == Reduction(HardAlerts(rows), since)
    IN  IF last.start = None THEN last.found
        ELSE Append(last.found, Incident(last.start, None))
Duration(incident, until) ==
    Max({0, (IF incident.end = None THEN until ELSE incident.end) - incident.start})

\* The means are sums over numbers: repair over recovered, and between the starts
\* of the incidents over one less than their number.
Seconds(incidents, until) ==
    LET sum[n \in 0..Len(incidents)] ==
          IF n = 0 THEN 0 ELSE sum[n - 1] + Duration(incidents[n], until)
    IN  sum[Len(incidents)]
Figures(incidents, until) ==
    LET recovered == Chosen(incidents, {n \in DOMAIN incidents : incidents[n].end # None})
    IN  [incidents |-> Len(incidents), recovered |-> Len(recovered),
         repair |-> Seconds(recovered, until), downtime |-> Seconds(incidents, until),
         between |-> LET starts == {i.start : i \in ToSet(incidents)} IN
                     IF Len(incidents) < 2 THEN 0 ELSE Max(starts) - Min(starts),
         longest |-> Max({0} \cup {Duration(i, until) : i \in ToSet(incidents)}),
         ongoing |-> Len(recovered) < Len(incidents)]
Reliability(rows, since, until) ==
    LET all == [k \in Keys(rows) |-> Figures(Incidents(Of(rows, k), since), until)]
    IN  [k \in {k \in DOMAIN all : all[k].incidents > 0} |-> all[k]]
----------------------------------------------------------------------------
(* Counts. *)

\* The server groups alerts by object and state; the fallback concatenates the
\* groups of the backends.
Groups(rows) == SetToSortSeq(
    {LET those == SelectSeq(rows, LAMBDA r : Key(r) = id[1] /\ r.state = id[2])
         times == {r.time : r \in ToSet(those)}
     IN  [key |-> id[1], state |-> id[2], cnt |-> Len(those),
          first |-> Min(times), last |-> Max(times)] :
        id \in {<<Key(r), r.state>> : r \in ToSet(rows)}},
    LAMBDA g, h : g.cnt > h.cnt)

\* The groups of an object are merged again.
Aggregate_FirstGroup(groups) ==
    [k \in {g.key : g \in ToSet(groups)} |->
        LET g == SelectSeq(groups, LAMBDA h : h.key = k)[1]
        IN  [count |-> g.cnt, first |-> g.first, last |-> g.last, state |-> g.state]]
Aggregate(groups) ==
    [k \in {g.key : g \in ToSet(groups)} |->
        LET those == SelectSeq(groups, LAMBDA g : g.key = k)
            last == Max({g.last : g \in ToSet(those)})
        IN  [count |-> FoldLeft(LAMBDA sum, g : sum + g.cnt, 0, those),
             first |-> Min({g.first : g \in ToSet(those)}),
             last |-> last,
             state |-> those[Max({i \in DOMAIN those : those[i].last = last})].state]]
Counted(records) == FoldFunction(LAMBDA r, sum : r.count + sum, 0, records)

\* A record counts for each group of its object, or for none of them.
Ungrouped == "(none)"
GroupsFor(k, membership) ==
    IF k[1] \notin DOMAIN membership \/ membership[k[1]] = {} THEN {Ungrouped} ELSE membership[k[1]]
Regrouped(records, membership) ==
    [g \in UNION {GroupsFor(k, membership) : k \in DOMAIN records} |->
        LET those == {k \in DOMAIN records : g \in GroupsFor(k, membership)}
        IN  [count |-> MapThenSumSet(LAMBDA k : records[k].count, those),
             hosts |-> {k[1] : k \in those},
             last |-> Max({records[k].last : k \in those})]]
\* Alerts of services rolled up to their hosts.
PerHost(records) ==
    [h \in {k[1] : k \in DOMAIN records} |->
        LET those == {k \in DOMAIN records : k[1] = h}
        IN  [count |-> MapThenSumSet(LAMBDA k : records[k].count, those), services |-> those,
             last |-> Max({records[k].last : k \in those})]]

\* The rankings count what is not a recovery: of hosts, of services, of both.
Troubles(rows) == SelectSeq(rows, LAMBDA r : r.type = "ALERT" /\ r.state # 0)
Noise(records, results) == [total |-> Counted(records), results |-> results]
TopNoisyHosts(rows, by, membership) ==
    LET records == Aggregate(Groups(SelectSeq(Troubles(rows), LAMBDA r : r.service = NoService)))
    IN  Noise(records, IF by = "hostgroup" THEN Regrouped(records, membership) ELSE records)
TopNoisyServices(rows, by, membership) ==
    LET records == Aggregate(Groups(SelectSeq(Troubles(rows), LAMBDA r : r.service # NoService)))
    IN  Noise(records, CASE by = "hostgroup" -> Regrouped(records, membership)
                         [] by = "host" -> PerHost(records)
                         [] OTHER -> records)
RecurringProblems(rows, min) == LET records == Aggregate(Groups(Troubles(rows))) IN
    [k \in {k \in DOMAIN records : records[k].count >= min} |-> records[k]]

\* Objects with at least min changes of state.  Only hosts of objects with as
\* many alerts are fetched.  (At most 500 candidates, and their order, are left out;
\* so is the order of the rows on the fallback.)
Candidates(records, min) == {k \in DOMAIN records : records[k].count >= min}
Transitions(rows) == Cardinality({i \in 2..Len(rows) : rows[i].state # rows[i - 1].state})
Flaps(records, rows, min) ==
    LET hosts == {k[1] : k \in Candidates(records, min)}
        raw == SelectSeq(rows, LAMBDA r : r.host \in hosts)
        changes == [k \in Keys(raw) |-> Transitions(Of(raw, k))]
    IN  [k \in {k \in DOMAIN changes : Len(Of(raw, k)) >= 2 /\ changes[k] >= min} |-> changes[k]]

\* A count for each bucket from that of since to that of until.
Floor(time, size) == (time \div size) * size
Buckets(rows, since, until, size) ==
    LET first == Floor(since, size)
        number == (Floor(until, size) - first) \div size + 1
    IN  [b \in {first + i * size : i \in 0..(number - 1)} |->
            Len(Between(rows, b, b + size - 1))]
AlertHeatmap(rows, since, until, size) == Buckets(OfType(rows, "ALERT"), since, until, size)
NotificationHeatmap(rows, since, until, size) ==
    Buckets(OfType(rows, "NOTIFICATION"), since, until, size)
----------------------------------------------------------------------------
(* The timeline of an incident. *)

Category == [ALERT |-> "state_change", NOTIFICATION |-> "notification",
             DOWNTIME |-> "downtime", FLAPPING |-> "flap", ACKNOWLEDGE |-> "ack"]
\* When the object was last reported, of its reports until then.
LastSeen_First(ordered, earlier) == ordered[Min(earlier)].time
LastSeen(ordered, earlier) == ordered[Max(earlier)].time
Timeline(rows) ==
    LET ordered == ByTime(rows, DOMAIN rows)
        Event(i) ==
          LET r == ordered[i]
              earlier == {j \in 1..(i - 1) : Key(ordered[j]) = Key(r) /\ ordered[j].type = "ALERT"}
              known == r.type = "ALERT" /\ earlier # {}
          IN  [time |-> r.time, key |-> Key(r), type |-> Category[r.type],
               from |-> IF known THEN ordered[Max(earlier)].state ELSE None,
               to |-> IF r.type = "ALERT" THEN r.state ELSE None,
               duration |-> IF known THEN r.time - LastSeen(ordered, earlier) ELSE None]
    IN  [i \in DOMAIN ordered |-> Event(i)]
\* The summary: the incidents of all objects together.
TimelineSummary(rows, since, until) ==
    Figures(FlattenSeq([i \in 1..Cardinality(Keys(rows)) |->
                Incidents(Of(rows, SetToSeq(Keys(rows))[i]), since)]), until)
IncidentTimeline(rows, since, until) == LET inside == Between(rows, since, until) IN
    [timeline |-> Timeline(inside), summary |-> TimelineSummary(inside, since, until)]
----------------------------------------------------------------------------
(* The state of all objects at an instant, and how two of them differ. *)

Unseen == [state |-> None, since |-> None, in_downtime |-> FALSE, acknowledged |-> FALSE]
Over == {"STOPPED", "CANCELLED", "EXPIRED"}
Entered_EachRow(rec, r) == r.time
Entered(rec, r) == IF r.state # rec.state THEN r.time ELSE rec.since
Replayed(rec, r) ==
    CASE r.type = "ALERT" ->
           [rec EXCEPT !.since = Entered(rec, r), !.state = r.state,
                       !.acknowledged = rec.acknowledged /\ r.state # 0]
      [] r.type = "DOWNTIME" ->
           [rec EXCEPT !.in_downtime = r.detail = "STARTED" \/ (rec.in_downtime /\ r.detail \notin Over)]
      [] r.type = "ACKNOWLEDGE" -> [rec EXCEPT !.acknowledged = r.detail \notin Over]
      [] OTHER -> rec
Replay(ordered) ==
    LET rec[n \in 0..Len(ordered)] ==
          IF n = 0 THEN Unseen ELSE Replayed(rec[n - 1], ordered[n])
    IN  rec[Len(ordered)]
ReconstructStateAt_Unsorted(rows, at) ==
    LET seen == {i \in DOMAIN rows : rows[i].time <= at}
    IN  [k \in {Key(rows[i]) : i \in seen} |->
            Replay(Chosen(rows, {i \in seen : Key(rows[i]) = k}))]
ReconstructStateAt(rows, at) ==
    LET seen == {i \in DOMAIN rows : rows[i].time <= at}
    IN  [k \in {Key(rows[i]) : i \in seen} |->
            Replay(ByTime(rows, {i \in seen : Key(rows[i]) = k}))]

IsProblem(rec) == rec.state > 0
Moved(b, a) ==
    CASE b.state # a.state -> IF IsProblem(a) /\ ~IsProblem(b) THEN "new_problem"
                              ELSE IF IsProblem(b) /\ ~IsProblem(a) THEN "recovered"
                              ELSE "state_changed"
      [] b.state = a.state /\ b.in_downtime # a.in_downtime -> "downtime_changed"
      [] OTHER -> "ack_changed"
DiffStates(before, after) ==
    LET At(map, k) == IF k \in DOMAIN map THEN map[k] ELSE Unseen
        Same(k) == /\ At(before, k).state = At(after, k).state
                   /\ At(before, k).in_downtime = At(after, k).in_downtime
                   /\ At(before, k).acknowledged = At(after, k).acknowledged
    IN  [k \in {k \in DOMAIN before \cup DOMAIN after : ~Same(k)} |->
            Moved(At(before, k), At(after, k))]
StateDiff(rows, t1, t2) ==
    DiffStates(ReconstructStateAt(rows, Min({t1, t2})), ReconstructStateAt(rows, Max({t1, t2})))
================================================================================
