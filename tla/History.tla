-------------------------------- MODULE History --------------------------------
(* The log grows while it is read.  The monitoring cores (external) write a    *)
(* row for what happens to an object; a report asks for the number of rows and *)
(* then for the newest of them, or a caller reads page after page.  A query is *)
(* answered as a whole, or by each backend for itself (get_with_fallback); its *)
(* answer is cut to a limit.                                                   *)
EXTENDS Triage

CONSTANTS
    Monitored,   \* <<backend, host, service>>: what each core monitors
    States,      \* [Monitored -> the states it takes]
    Kinds,       \* [Monitored -> what happens to it, beside HARD states]
    Backends,    \* the order in which their answers are concatenated
    Cap,         \* _NOISY_MAX_ALERTS
    Page,        \* limit of a page
    Membership,  \* [hosts -> their groups]
    Topologies,  \* parents of the hosts
    MaxRows,     \* bound: rows of the log
    LateRows,    \* bound: more rows once a report has begun
    MaxTime,     \* bound: seconds
    PageTime     \* bound: the last second in which a page is asked for

VARIABLES
    log,         \* the rows, in the order in which they were written
    now,
    live,        \* [Monitored -> its state, last hard state, downtimes, acknowledgement]
    past,        \* history: live at the end of each second
    stage,       \* "writing", "counted", "reported", "paging", "paged"
    asked,       \* now and the length of the log when the report began
    total,       \* the rows counted, and whether all backends were asked
    answer,      \* the rows received
    warned,      \* whether a warning says that rows may be missing
    pages        \* history: of each page, the backends whose rows were counted together
core == <<log, now, live, past>>
report == <<stage, asked, total, answer, warned, pages>>
vars == <<core, report>>

Sites == {m[1] : m \in Monitored}

ASSUME HistoryAssumption ==
    /\ \A m \in Monitored : /\ m = <<m[1], m[2], m[3]>> /\ m[2] \in ToSet(Names)
                             /\ States[m] \subseteq Nat
    /\ \A parents \in Topologies : \A h \in DOMAIN parents :
         {h} \cup parents[h] \subseteq ToSet(Names)
    /\ Backends \in Seq(ToSet(Backends)) /\ Sites \subseteq ToSet(Backends)
    /\ Cap \in Nat /\ Page \in Nat \ {0}
----------------------------------------------------------------------------
(* The cores. *)

Growing == Len(log) < IF stage = "writing" THEN MaxRows ELSE asked.rows + LateRows
Write(m, type, state, hard, detail) == log' = Append(log,
    [n |-> Len(log) + 1, time |-> now, backend |-> m[1], host |-> m[2], service |-> m[3], type |-> type,
     state |-> state, hard |-> hard, detail |-> detail])
\* (What is written between the queries of a report is later than what it asks for.)
Event(m) == /\ Growing /\ stage \in {"writing", "paging"}
            /\ UNCHANGED <<now, past, report>>

\* A problem is SOFT before it is HARD, unless one check is enough (no "soft" in
\* Kinds); a recovery is as hard as its problem.
Alert(m, state, hard) ==
    /\ Event(m)
    /\ IF state = 0 THEN live[m].state # 0 /\ hard = (live[m].hardstate # 0)
       ELSE /\ hard \/ live[m].hardstate = 0
            /\ state # IF hard THEN live[m].hardstate ELSE live[m].state
    /\ live' = [live EXCEPT ![m].state = state,
                            ![m].hardstate = IF hard THEN state ELSE live[m].hardstate,
                            ![m].acked = live[m].acked /\ state # 0]
    /\ Write(m, "ALERT", state, hard, "")
\* Downtimes overlap; the first one and the last one are logged.
DowntimeBegins(m) ==
    /\ Event(m) /\ live[m].depth < 2
    /\ live' = [live EXCEPT ![m].depth = live[m].depth + 1]
    /\ IF live[m].depth = 0 THEN Write(m, "DOWNTIME", None, FALSE, "STARTED") ELSE UNCHANGED log
DowntimeEnds(m) ==
    /\ Event(m) /\ live[m].depth > 0
    /\ live' = [live EXCEPT ![m].depth = live[m].depth - 1]
    /\ IF live[m].depth = 1
       THEN \E detail \in {"STOPPED", "CANCELLED"} : Write(m, "DOWNTIME", None, FALSE, detail)
       ELSE UNCHANGED log
Acknowledged(m) ==
    /\ Event(m) /\ live[m].state # 0 /\ ~live[m].acked
    /\ live' = [live EXCEPT ![m].acked = TRUE]
    /\ Write(m, "ACKNOWLEDGE", None, FALSE, "")
AcknowledgementRemoved(m) ==
    /\ Event(m) /\ live[m].acked
    /\ live' = [live EXCEPT ![m].acked = FALSE]
    /\ Write(m, "ACKNOWLEDGE", None, FALSE, "STOPPED")
Notified(m) ==
    /\ Event(m) /\ live[m].hardstate # 0
    /\ Write(m, "NOTIFICATION", live[m].state, FALSE, "") /\ UNCHANGED live
Happens(m) ==
    \/ \E hard \in BOOLEAN, state \in States[m] :
          (hard \/ "soft" \in Kinds[m]) /\ Alert(m, state, hard)
    \/ "downtime" \in Kinds[m] /\ (DowntimeBegins(m) \/ DowntimeEnds(m))
    \/ "ack" \in Kinds[m] /\ (Acknowledged(m) \/ AcknowledgementRemoved(m))
    \/ "notification" \in Kinds[m] /\ Notified(m)
Tick == /\ now < MaxTime /\ stage = "writing"
        /\ now' = now + 1
        /\ past' = Append(past, live)
        /\ UNCHANGED <<log, live, report>>
----------------------------------------------------------------------------
(* The queries. *)

Limited(rows, limit) == SubSeq(rows, 1, Min({limit, Len(rows)}))
\* Newest first; within a second in the order of the log or against it.
NewestFirst(rows, ties) ==
    IF ties = "against" THEN Reverse(rows)
    ELSE Reverse(ByTime(Reverse(rows), DOMAIN rows))

\* _fetch_state_logs: what is replayed of the rows that some backends have up to
\* the last second that is over.
Replayable == {"ALERT", "DOWNTIME", "ACKNOWLEDGE"}
Settled(until, sites) == {i \in DOMAIN log :
    log[i].type \in Replayable /\ log[i].time < until /\ log[i].backend \in sites}
Count == \E counting \in {Sites} \cup {{s} : s \in Sites} :
    /\ stage = "writing" /\ now > 0 /\ log # <<>>
    /\ stage' = "counted"
    /\ asked' = [now |-> now, rows |-> Len(log)]
    /\ total' = [rows |-> Cardinality(Settled(now, counting)), complete |-> counting = Sites]
    /\ UNCHANGED <<core, answer, warned, pages>>
NewestRows(sites, ties) ==
    Limited(NewestFirst(Chosen(log, Settled(asked.now, sites)), ties), Cap)
Reported(rows, missing, connected) ==
    /\ stage = "counted" /\ stage' = "reported"
    /\ answer' = rows
    /\ warned' = (missing \/ total.rows > Cap)
    /\ total' = [rows |-> total.rows, complete |-> total.complete /\ connected = Sites]
    /\ UNCHANGED <<core, asked, pages>>
FetchWhole == \E ties \in {"along", "against"} : Reported(NewestRows(Sites, ties), FALSE, Sites)
\* On the fallback the backends that are connected are asked, each for itself; only of
\* these one that fails is warned of.
Fallbacks == {f \in [connected : SUBSET Sites \ {{}}, answering : SUBSET Sites] :
    f.answering \subseteq f.connected}
FetchEach == \E f \in Fallbacks : Reported(
    FlattenSeq([i \in DOMAIN Backends |-> NewestRows(f.answering \cap {Backends[i]}, "against")]),
    f.answering # f.connected, f.connected)

\* _fetch_logs: a page of the newest rows, and the one at the next offset.  Rows of
\* some backends have so many newer ones; on the fallback each backend is sent the
\* same limit and offset and counts its own rows.
Newer(i, sites) == Cardinality({j \in DOMAIN log : i < j /\ log[j].backend \in sites})
Slice(sites, offset) == Reverse(Chosen(log, {i \in DOMAIN log :
    log[i].backend \in sites /\ Newer(i, sites) \in offset..(offset + Page - 1)}))
Paged(offset) ==
    {[together |-> {Sites}, missing |-> FALSE, rows |-> Slice(Sites, offset)]} \cup
    {[together |-> {{s} : s \in f.answering}, missing |-> f.answering # f.connected,
      rows |-> FlattenSeq([i \in DOMAIN Backends |-> Slice(f.answering \cap {Backends[i]}, offset)])] :
        f \in Fallbacks}
Turned(offset) == \E page \in Paged(offset) :
    /\ answer' = answer \o page.rows
    /\ warned' = (warned \/ page.missing)
    /\ pages' = Append(pages, page.together)
FirstPage ==
    /\ stage = "writing" /\ stage' = "paging"
    /\ Len(log) > Page /\ now <= PageTime
    /\ asked' = [now |-> now, rows |-> Len(log)]
    /\ Turned(0)
    /\ UNCHANGED <<core, total>>
NextPage_OneFurther ==
    /\ stage = "paging" /\ stage' = "paged"
    /\ Turned(Page + 1)
    /\ UNCHANGED <<core, asked, total>>
NextPage ==
    /\ stage = "paging" /\ stage' = "paged"
    /\ Turned(Page)
    /\ UNCHANGED <<core, asked, total>>
----------------------------------------------------------------------------
Quiet == [state |-> 0, hardstate |-> 0, depth |-> 0, acked |-> FALSE]
Init == /\ log = <<>> /\ now = 0 /\ past = <<>>
        /\ live = [m \in Monitored |-> Quiet]
        /\ stage = "writing" /\ asked = [now |-> 0, rows |-> 0]
        /\ total = [rows |-> 0, complete |-> TRUE] /\ answer = <<>> /\ warned = FALSE
        /\ pages = <<>>
Next == (\E m \in Monitored : Happens(m)) \/ Tick
        \/ Count \/ FetchWhole \/ FetchEach \/ FirstPage \/ NextPage
Spec == Init /\ [][Next]_vars
----------------------------------------------------------------------------
(* What is true, from the cores themselves. *)

Writing == stage = "writing"
At(second) == IF second < now THEN past[second + 1] ELSE live
KeyOf(m) == <<m[2], m[3]>>
\* Objects of which no other backend has one of the same name.
Single == {m \in Monitored : \A n \in Monitored : KeyOf(n) = KeyOf(m) => n = m}
Windows == {w \in (0..now) \X (0..now) : w[1] <= w[2]}

\* The incidents of an object are the time it is in a HARD problem, no second
\* counted twice: from the first HARD row of the window on, and from the start of
\* the window if that row is a recovery (reliability.py:94-159).  It is asked of the
\* objects whose name no other backend has: rows of two objects of one name are
\* taken for those of one.
IncidentsAreOutages == Writing => \A m \in Single, w \in Windows :
    LET rows == Of(Between(log, w[1], w[2]), KeyOf(m))
        incidents == Incidents(rows, w[1])
        hard == Chosen(rows, {i \in DOMAIN rows : rows[i].type = "ALERT" /\ rows[i].hard})
        Known(s) == hard # <<>> /\ (Head(hard).state = 0 \/ Head(hard).time <= s)
        Covers(i, s) == i.start <= s /\ (i.end = None \/ s < i.end)
        outage == {s \in w[1]..w[2] : Known(s) /\ At(s)[m].hardstate # 0}
    IN  /\ outage = {s \in w[1]..w[2] : \E i \in ToSet(incidents) : Covers(i, s)}
        /\ Figures(incidents, w[2]).downtime = Cardinality(outage \ {w[2]})
        /\ hard # <<>> =>
             Figures(incidents, w[2]).ongoing = (Last(hard).state # 0)

\* What state_at and state_diff say of a second that is over is what the core knew
\* at its end, or a warning is given, though rows are dropped at the limit and the
\* log goes on growing.  Rows of one second that the server returns against the order
\* of the log are not told apart; and on the fallback a backend that is not connected
\* is left out of the count or of the rows without a warning, and so is one that
\* fails to count (history.py:1624-1691, 1751-1848, client.py:261-291).
Told(m, s) == \A i, j \in DOMAIN log :
    i # j /\ Key(log[i]) = KeyOf(m) /\ Key(log[j]) = KeyOf(m) /\ log[i].time <= s
        => log[i].time # log[j].time
SettledPast == stage = "reported" /\ ~warned /\ total.complete =>
    \A s \in 0..(asked.now - 1) : LET states == ReconstructStateAt(answer, s) IN
        \A m \in {m \in Single : Told(m, s)} :
            /\ KeyOf(m) \in DOMAIN states =>
                 LET rec == states[KeyOf(m)] IN
                 /\ rec.state = At(s)[m].state \/ (rec.state = None /\ At(s)[m].state = 0)
                 /\ rec.in_downtime = (At(s)[m].depth > 0)
                 /\ rec.acknowledged = At(s)[m].acked
            /\ KeyOf(m) \notin DOMAIN states => At(s)[m] = Quiet
            /\ s > 0 => LET change == StateDiff(answer, s, s - 1)
                            b == At(s - 1)[m]
                            a == At(s)[m] IN
                 /\ KeyOf(m) \in DOMAIN change =>
                      (change[KeyOf(m)] = "new_problem" <=> (b.state = 0 /\ a.state # 0))
                 /\ b.state # a.state => KeyOf(m) \in DOMAIN change

\* Two pages read one after the other leave no gap, whatever is written in between:
\* rows may be given twice, but of the rows there were none is skipped between two
\* that are given.  On the fallback every backend is sent the same limit and offset,
\* so this can only be said of rows counted together for both pages: all of them when
\* both came whole, those of a backend when it answered for itself both times.  A page
\* of each kind can leave a gap, without a warning (history.py:162-222, 2012-2059,
\* client.py:240-242, 278-291).
PagesLeaveNoGap == stage = "paged" => \A together \in pages[1] \cap pages[2] :
    \A i, j \in {i \in DOMAIN log : log[i].backend \in together} :
        i < j /\ j <= asked.rows /\ log[i] \in ToSet(answer) => log[j] \in ToSet(answer)

\* The counts of alerts are those of the log, on the normal path and on the
\* fallback, though an object is known to several backends; the rankings, their
\* groups and the heat maps agree on them; and no object that flaps is missed
\* because only candidates are looked at (history.py:225-338, 381-782, 811-1145;
\* helpers.py:577-696).
CountsAreExact == Writing => \A w \in Windows :
    LET window == Between(log, w[1], w[2])
        alerts == OfType(window, "ALERT")
        rows == Troubles(window)
        parts == [i \in DOMAIN Backends |->
                     Groups(SelectSeq(rows, LAMBDA r : r.backend = Backends[i]))]
        hosts == TopNoisyHosts(window, "hostgroup", Membership)
        services == TopNoisyServices(window, "host", Membership)
        Exact(records) ==
          /\ DOMAIN records = Keys(rows)
          /\ \A k \in Keys(rows) : LET those == Of(rows, k) IN
               /\ records[k].count = Len(those)
               /\ records[k].first = those[1].time /\ records[k].last = Last(those).time
               /\ \E r \in ToSet(those) : r.time = records[k].last /\ r.state = records[k].state
        OfGroup(g) == SelectSeq(rows, LAMBDA r :
            r.service = NoService /\ g \in GroupsFor(Key(r), Membership))
        whole == <<Floor(w[1], 2), Floor(w[2], 2) + 1>>
    IN  /\ Exact(Aggregate(Groups(rows))) /\ Exact(Aggregate(FlattenSeq(parts)))
        /\ hosts.total + services.total = Len(rows)
        /\ Counted(services.results) = services.total
        /\ \A g \in DOMAIN hosts.results : hosts.results[g].count = Len(OfGroup(g))
        /\ \A min \in 1..2 : DOMAIN RecurringProblems(window, min) =
             {k \in Keys(rows) : Len(Of(rows, k)) >= min}
        /\ FoldFunction(+, 0, AlertHeatmap(log, w[1], w[2], 2))
             + FoldFunction(+, 0, NotificationHeatmap(log, w[1], w[2], 2)) =
             Len(SelectSeq(Between(log, whole[1], whole[2]),
                           LAMBDA r : r.type \in {"ALERT", "NOTIFICATION"}))
        /\ \A min \in 1..2 : Flaps(Aggregate(Groups(alerts)), alerts, min) =
             LET flapping == {k \in Keys(alerts) : Transitions(Of(alerts, k)) >= min}
             IN  [k \in flapping |-> Transitions(Of(alerts, k))]

\* The timeline, the replay and the reliability report tell one story: the last
\* change of an object leads to the state that is replayed, entered when the
\* timeline says; the durations, each since the report before it, soft or hard, fill
\* the time from the first report to the last; and the summary adds up the figures
\* of the objects
\* (history.py:1360-1477, 1624-1691, reliability.py:162-208).
TimelineMatchesReplay == Writing => \A w \in Windows :
    LET rows == Between(log, w[1], w[2])
        story == IncidentTimeline(log, w[1], w[2])
        changes == SelectSeq(story.timeline, LAMBDA e : e.type = "state_change")
        figures == Reliability(rows, w[1], w[2])
    IN  /\ \A k \in Keys(rows) :
             LET rec == ReconstructStateAt(rows, w[2])[k]
                 those == SelectSeq(changes, LAMBDA e : e.key = k)
                 entered == {i \in DOMAIN those : those[i].to # those[i].from}
             IN  those # <<>> => /\ rec.state = Last(those).to
                                 /\ rec.since = those[Max(entered)].time
                                 /\ those[1].duration = None
                                 /\ FoldFunction(LAMBDA e, sum : e.duration + sum, 0, Tail(those)) =
                                      Last(those).time - those[1].time
        /\ story.summary.downtime = FoldFunction(LAMBDA f, sum : f.downtime + sum, 0, figures)
        /\ story.summary.ongoing = \E k \in DOMAIN figures : figures[k].ongoing

\* A burst is found wherever enough hosts fail within the window, and nowhere
\* else; bursts do not overlap (triage.py:401-550).
BurstsAreExact == Writing => \A width \in 0..1, min \in 2..3 :
    LET failures == ToSet(Failures(log))
        Crowd(t) == {f \in failures : f.time \in t..(t + width)}
        Dense(t) == Cardinality({f.host : f \in Crowd(t)}) >= min
        bursts == ConcurrentFailures(log, width, min)
        Within(f, b) == f.time \in b.start..b.end /\ f.host \in b.hosts
    IN  /\ \A t \in {f.time : f \in failures} : Dense(t) =>
             \E b \in ToSet(bursts) : \A f \in Crowd(t) : Within(f, b)
        /\ \A b \in ToSet(bursts) : \A h \in b.hosts : \E f, g \in failures :
             g.host = h /\ Within(g, b) /\ f.time \in b.start..b.end /\ Dense(f.time) /\ g \in Crowd(f.time)
        /\ \A i \in 2..Len(bursts) : bursts[i - 1].end < bursts[i].start

\* Each host that failed is explained by one host that is down, above it and with
\* no host that is down above, or it is not explained and none is; a host that is
\* cut off behind a single parent shares its cause (triage.py:676-753).
RootsExplain == Writing => \A parents \in Topologies :
    LET down == UnreachableVsDown(log).down
        affected == down \cup UnreachableVsDown(log).unreachable
        clusters == RootCause(log, parents).root_causes
        alone == RootCause(log, parents).unattributed
        Above(h) == IF h \in DOMAIN parents THEN parents[h] ELSE {}
        Strictly(h) == Upwards(Above(h), parents)
        Looped(h) == \E a \in Upwards({h}, parents) : a \in Strictly(a)
    IN  /\ (UNION Range(clusters)) \cup alone = affected
        /\ \A r, s \in DOMAIN clusters : r # s => clusters[r] \cap clusters[s] = {}
        /\ \A h \in alone : ({h} \cup Strictly(h)) \cap down = {}
        /\ \A r \in DOMAIN clusters : \A h \in clusters[r] :
             /\ r \in down /\ r \in {h} \cup Strictly(h)
             /\ ~Looped(h) => /\ Strictly(r) \cap down = {}
                              /\ \A p \in Above(h) :
                                   Above(h) = {p} /\ ({p} \cup Strictly(p)) \cap down # {}
                                       => r = RootOf(p, down, parents)
================================================================================
