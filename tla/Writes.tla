--------------------------------- MODULE Writes ---------------------------------
(* The other tools of tools/commands.py: one command on one object or group,   *)
(* the cascades of thruk_notifications and thruk_checks over the services of a *)
(* host, and thruk_bulk_acknowledge, which pages through the problems          *)
(* (ThrukClient.get_all) and then acknowledges each of them.                   *)
(*                                                                             *)
(* What the core does with a command (Reach) is external.  A command takes     *)
(* effect when it is accepted; the delay of the pipe is modelled in Downtimes. *)
EXTENDS Integers, FiniteSets, Sequences, SequencesExt

CONSTANTS
    Calls,        \* concurrent tool calls
    Hosts,        \* hosts, numbered in the order the server lists them
    HostOf,       \* [services -> Hosts]; services are numbered likewise
    ParentOf,     \* [Hosts -> Hosts \cup {None}]
    HostGroup,    \* the members of the one host group
    ServiceGroup, \* the members of the one service group
    Requests,     \* [Calls -> sets of the arguments that call may have]
    Starts,       \* the states the objects may be in at first
    PageSize,     \* page_size of get_all
    HardLimit,    \* hard_limit of get_all
    MaxChanges,   \* bound: changes of objects during a run
    None

VARIABLES
    state,        \* the state of each object, 0 when there is no problem
    handled,      \* objects acknowledged or in downtime
    changes,      \* how often objects have changed of themselves
    call,         \* each tool call
    applied,      \* history: <<call, act, object>> of the commands performed
    steady,       \* history: targets of each call that never stopped being one
    ever,         \* history: targets of each call at some time
    vanished      \* history: calls during whose collection a target went away

vars == <<state, handled, changes, call, applied, steady, ever, vanished>>
history == <<steady, ever, vanished>>

Services == DOMAIN HostOf
Objects == Hosts \cup Services
Owner(o) == IF o \in Services THEN HostOf[o] ELSE o

\* The arguments of the tools; each takes those it has and leaves the others.
Arguments ==
    [tool : STRING, host : Hosts, service : Services \cup {None}, forced : BOOLEAN,
     members : {"hosts", "services"}, enabled : BOOLEAN, cascade : BOOLEAN,
     state : STRING \cup {None}, hosts_only : BOOLEAN, services_only : BOOLEAN,
     group : BOOLEAN]

ASSUME WritesAssumption ==
    /\ Hosts \subseteq Nat /\ IsFiniteSet(Hosts)
    /\ Services \subseteq Nat /\ IsFiniteSet(Services)
    /\ Hosts \cap Services = {}
    /\ \A s \in Services : HostOf[s] \in Hosts
    /\ HostGroup \subseteq Hosts /\ ServiceGroup \subseteq Services
    /\ None \notin Objects
    /\ \A c \in Calls : Requests[c] \subseteq Arguments
    /\ Starts \subseteq [Objects -> Nat]
    /\ PageSize \in Nat \ {0}
    /\ HardLimit \in Nat \ {0}
----------------------------------------------------------------------------
(* Commands. *)

Target(h, s) == IF s = None THEN [scope |-> "host", at |-> h] ELSE [scope |-> "service", at |-> s]
Cmd(target, on, act) == [target |-> target, on |-> on, act |-> act]
OwnKind(s) == IF s = None THEN "host" ELSE "svc"
Plain(r, act) == Cmd(Target(r.host, r.service), OwnKind(r.service), act)

\* The command of each tool that sends a single one.
ScheduleDowntime(r) == Plain(r, "downtime")
Acknowledge(r) == Plain(r, "ack")
AddComment(r) == Plain(r, "comment")
DeleteComment(r) == Plain(r, "uncomment")
RemoveAcknowledgement(r) == Plain(r, "unack")
Recheck(r) == Plain(r, IF r.forced THEN "forced_check" ELSE "check")
ScheduleHostServices(r) == Cmd(Target(r.host, None), "services", "downtime")
SchedulePropagated(r) ==
    Cmd(Target(r.host, None), "children", IF r.forced THEN "triggered" ELSE "downtime")
ScheduleHostgroup(r) ==
    Cmd([scope |-> "hostgroup", at |-> None], IF r.members = "services" THEN "svc" ELSE "host", "downtime")
ScheduleServicegroup(r) ==
    Cmd([scope |-> "servicegroup", at |-> None], IF r.members = "hosts" THEN "host" ELSE "svc", "downtime")
Switch(r) == Plain(r, IF r.enabled THEN "enable" ELSE "disable")

Single(r) ==
    CASE r.tool = "schedule_downtime" -> ScheduleDowntime(r)
      [] r.tool = "acknowledge" -> Acknowledge(r)
      [] r.tool = "add_comment" -> AddComment(r)
      [] r.tool = "delete_comment" -> DeleteComment(r)
      [] r.tool = "remove_ack" -> RemoveAcknowledgement(r)
      [] r.tool = "recheck" -> Recheck(r)
      [] r.tool = "schedule_host_services" -> ScheduleHostServices(r)
      [] r.tool = "schedule_propagated" -> SchedulePropagated(r)
      [] r.tool = "schedule_hostgroup" -> ScheduleHostgroup(r)
      [] r.tool = "schedule_servicegroup" -> ScheduleServicegroup(r)
      [] OTHER -> Switch(r)

\* A host and all hosts below it: the least set with it and its members' children.
Below(h) == {k \in Hosts : \A S \in SUBSET Hosts :
    (h \in S /\ \A j \in Hosts : ParentOf[j] \in S => j \in S) => k \in S}
\* What the core makes of a command: a verb for the wrong kind of object does nothing.
Reach(cmd) == LET t == cmd.target IN
    CASE t.scope = "service" /\ cmd.on = "svc" -> {t.at}
      [] t.scope = "host" /\ cmd.on = "host" -> {t.at}
      [] t.scope = "host" /\ cmd.on = "services" -> {s \in Services : HostOf[s] = t.at}
      [] t.scope = "host" /\ cmd.on = "children" -> Below(t.at)
      [] t.scope = "hostgroup" /\ cmd.on = "host" -> HostGroup
      [] t.scope = "hostgroup" /\ cmd.on = "svc" -> {s \in Services : HostOf[s] \in HostGroup}
      [] t.scope = "servicegroup" /\ cmd.on = "svc" -> ServiceGroup
      [] t.scope = "servicegroup" /\ cmd.on = "host" -> {HostOf[s] : s \in ServiceGroup}
      [] OTHER -> {}
----------------------------------------------------------------------------
(* The filter of thruk_bulk_acknowledge. *)

HostInt(s) == CASE s \in {"down", "1"} -> 1 [] s \in {"unreachable", "2"} -> 2 [] OTHER -> 0
SvcInt(s) == CASE s \in {"warning", "1"} -> 1 [] s \in {"critical", "2"} -> 2
               [] s \in {"unknown", "3"} -> 3 [] OTHER -> 0
Refused(r) == \/ r.hosts_only /\ r.services_only
              \/ /\ r.state # None
                 /\ HostInt(r.state) = 0 /\ SvcInt(r.state) = 0
SkipHosts(r) == r.services_only \/ (r.state # None /\ HostInt(r.state) = 0)
SkipServices_IfAsked(r) == r.hosts_only
SkipServices(r) == r.hosts_only \/ (r.state # None /\ HostInt(r.state) # 0)

Wanted(o, r) ==
    IF r.state = None THEN state[o] >= 1
    ELSE state[o] = IF o \in Hosts THEN HostInt(r.state) ELSE SvcInt(r.state)
Problems(r) == {o \in Objects \ handled :
    /\ o \in Hosts => ~SkipHosts(r)
    /\ o \in Services => ~SkipServices(r)
    /\ Wanted(o, r)
    /\ r.group => Owner(o) \in HostGroup}

\* What a request asks for, from the docstring and not from the code above: it is
\* what the history variables follow.  A numeral means the state of a host if
\* hosts have that state.
Named(s) == CASE s \in {"down", "1"} -> <<"host", 1>> [] s \in {"unreachable", "2"} -> <<"host", 2>>
              [] s = "warning" -> <<"service", 1>> [] s = "critical" -> <<"service", 2>>
              [] OTHER -> <<"service", 3>>
Asked(r) == {o \in Objects \ handled :
    LET class == IF o \in Hosts THEN "host" ELSE "service" IN
    /\ state[o] # 0
    /\ r.state # None => <<class, state[o]>> = Named(r.state)
    /\ r.hosts_only => class = "host"
    /\ r.services_only => class = "service"
    /\ r.group => Owner(o) \in HostGroup}
Kind(k) == IF k = "hosts" THEN Hosts ELSE Services
\* The server lists objects by their numbers.
Place(S, x) == Cardinality({y \in S : y <= x})
InOrder(S) == [i \in 1..Cardinality(S) |-> CHOOSE x \in S : Place(S, x) = i]
Rows(r, k) == InOrder(Problems(r) \cap Kind(k))
----------------------------------------------------------------------------
(* A call. *)

Bulk(c) == call[c].req.tool = "bulk_acknowledge"
Cascades(r) == r.tool \in {"notifications", "checks"} /\ r.service = None /\ r.cascade
Reading == [rows |-> <<>>, offset |-> 0, over |-> FALSE]
Idle == [req |-> None, phase |-> "idle", hosts |-> Reading, services |-> Reading,
         cmds |-> <<>>, todo |-> {}, ok |-> {}, failed |-> {}]

Init ==
    /\ state \in Starts
    /\ handled = {} /\ changes = 0 /\ applied = {}
    /\ call = [c \in Calls |-> Idle]
    /\ steady = [c \in Calls |-> {}] /\ ever = [c \in Calls |-> {}]
    /\ vanished = {}

Become(c, new) == call' = [call EXCEPT ![c] = new]
Posting(k, phase, cmds) == [k EXCEPT !.phase = IF cmds = <<>> THEN "done" ELSE phase,
                                     !.cmds = cmds, !.todo = DOMAIN cmds]

Begin(c) == \E r \in Requests[c] : LET k == [Idle EXCEPT !.req = r] IN
    /\ call[c].phase = "idle"
    /\ IF r.tool = "bulk_acknowledge"
       THEN /\ Become(c, [k EXCEPT !.phase = IF Refused(r) THEN "done" ELSE "collecting",
                                   !.hosts.over = SkipHosts(r),
                                   !.services.over = SkipServices(r)])
            /\ steady' = [steady EXCEPT ![c] = IF Refused(r) THEN {} ELSE Asked(r)]
            /\ ever' = [ever EXCEPT ![c] = IF Refused(r) THEN {} ELSE Asked(r)]
       ELSE /\ Become(c, Posting(k, IF Cascades(r) THEN "leading" ELSE "posting", <<Single(r)>>))
            /\ UNCHANGED <<steady, ever>>
    /\ UNCHANGED <<state, handled, changes, applied, vanished>>

\* One page of one of the two collectors, which run concurrently.
Slice(rows, from, to) == SubSeq(rows, from, Min({to, Len(rows)}))
NextPage_StopsEarly(read, all) ==
    [read EXCEPT !.rows = read.rows \o Slice(all, 1, PageSize), !.over = TRUE]
NextPage(read, all) ==
    LET page == Slice(all, read.offset + 1, read.offset + PageSize)
        rows == read.rows \o page
    IN  [read EXCEPT !.rows = Slice(rows, 1, HardLimit), !.offset = @ + PageSize,
                     !.over = Len(page) < PageSize \/ Len(rows) >= HardLimit]
Page(c, kind) ==
    /\ call[c].phase = "collecting" /\ ~call[c][kind].over
    /\ Become(c, [call[c] EXCEPT ![kind] = NextPage(call[c][kind], Rows(call[c].req, kind))])
    /\ UNCHANGED <<state, handled, changes, applied, history>>
PageFails(c) ==
    /\ call[c].phase = "collecting"
    /\ ~(call[c].hosts.over /\ call[c].services.over)
    /\ Become(c, [call[c] EXCEPT !.phase = "raised"])
    /\ UNCHANGED <<state, handled, changes, applied, history>>

AckOf(o) == Acknowledge([host |-> Owner(o), service |-> IF o \in Hosts THEN None ELSE o])
Collected(c) ==
    /\ call[c].phase = "collecting" /\ call[c].hosts.over /\ call[c].services.over
    /\ Become(c, Posting(call[c], "gathering",
                 [i \in DOMAIN (call[c].hosts.rows \o call[c].services.rows) |->
                     AckOf((call[c].hosts.rows \o call[c].services.rows)[i])]))
    /\ UNCHANGED <<state, handled, changes, applied, history>>

\* A command is performed: an acknowledgement or a downtime handles a problem.
Perform(c, cmd) ==
    /\ applied' = applied \cup {<<c, cmd.act, o>> : o \in Reach(cmd)}
    /\ handled' = CASE cmd.act = "ack" -> handled \cup {o \in Reach(cmd) : state[o] # 0}
                    [] cmd.act = "unack" -> handled \ Reach(cmd)
                    [] cmd.act = "downtime" -> handled \cup Reach(cmd)
                    [] OTHER -> handled
\* What the calls could see before and after objects change.
Watch == LET collecting == {c \in Calls : call[c].phase = "collecting"} IN
    /\ steady' = [c \in Calls |-> IF c \in collecting THEN steady[c] \cap Asked(call[c].req)'
                                  ELSE steady[c]]
    /\ ever' = [c \in Calls |-> IF c \in collecting THEN ever[c] \cup Asked(call[c].req)'
                                ELSE ever[c]]
    /\ vanished' = vanished \cup
          {c \in collecting : ~(Asked(call[c].req) \subseteq Asked(call[c].req)')}

\* The host has answered, and a cascade goes on to list its services.
AfterAnswer_LeavesOpen(k, i) ==
    [k EXCEPT !.todo = @ \ {i}, !.ok = @ \cup {i},
              !.phase = IF k.phase = "leading" THEN "listing" ELSE @]
AfterAnswer(k, i) ==
    [k EXCEPT !.todo = @ \ {i}, !.ok = @ \cup {i},
              !.phase = CASE k.phase = "leading" -> "listing"
                          [] k.phase \notin {"leading", "raised"} /\ k.todo = {i} -> "done"
                          [] OTHER -> @]
Answer(c) == \E i \in call[c].todo :
    /\ Perform(c, call[c].cmds[i])
    /\ Become(c, AfterAnswer(call[c], i))
    /\ UNCHANGED <<state, changes>> /\ Watch

ListServices(c) == LET r == call[c].req IN
    /\ call[c].phase = "listing"
    /\ \/ Become(c, [Posting(call[c], "spreading",
                       LET own == InOrder({s \in Services : HostOf[s] = r.host}) IN
                       [i \in DOMAIN own |-> Switch([r EXCEPT !.service = own[i]])]) EXCEPT !.ok = {}])
       \/ Become(c, [call[c] EXCEPT !.phase = "raised"])
    /\ UNCHANGED <<state, handled, changes, applied, history>>

\* A command fails, performed or not.  Only the gather of bulk_acknowledge
\* collects failures (return_exceptions); elsewhere the first one is raised, and
\* the commands of a cascade still under way go on by themselves.
AfterFailure_Swallowed(k, i) ==
    [k EXCEPT !.todo = @ \ {i}, !.failed = @ \cup {i},
              !.phase = IF k.todo = {i} THEN "done" ELSE @]
AfterFailure_GoesOn(k, i) ==
    [k EXCEPT !.todo = @ \ {i}, !.failed = @ \cup {i},
              !.phase = IF @ = "leading" THEN "listing" ELSE "raised"]
AfterFailure(k, i) ==
    [k EXCEPT !.todo = @ \ {i}, !.failed = @ \cup {i},
              !.phase = CASE k.phase # "gathering" -> "raised"
                          [] k.phase = "gathering" /\ k.todo = {i} -> "done"
                          [] OTHER -> @]
Failure(c) == \E i \in call[c].todo :
    /\ Perform(c, call[c].cmds[i]) \/ UNCHANGED <<applied, handled>>
    /\ Become(c, AfterFailure(call[c], i))
    /\ UNCHANGED <<state, changes>> /\ Watch

Change == \E o \in Objects, s \in 0..2 :
    /\ changes < MaxChanges /\ s # state[o]
    /\ state' = [state EXCEPT ![o] = s]
    /\ handled' = IF s = 0 THEN handled \ {o} ELSE handled
    /\ changes' = changes + 1
    /\ UNCHANGED <<call, applied>> /\ Watch

Step(c) == \/ Begin(c) \/ PageFails(c) \/ Collected(c) \/ ListServices(c)
           \/ \E kind \in {"hosts", "services"} : Page(c, kind)
           \/ Answer(c) \/ Failure(c)
Next == Change \/ \E c \in Calls : Step(c)

Busy(c) == call[c].phase \notin {"idle", "done", "raised"} \/ call[c].todo # {}
\* Every await of a tool, and of a command it has left behind, returns.
Spec == Init /\ [][Next]_vars /\ \A c \in Calls : WF_vars(Busy(c) /\ Step(c))
----------------------------------------------------------------------------
(* Properties. *)

\* What each tool says it acts on, from the docstrings.
Promised(r) ==
    LET own == {s \in Services : HostOf[s] = r.host} IN
    CASE r.tool = "schedule_host_services" -> own
      [] r.tool = "schedule_propagated" -> Below(r.host)
      [] r.tool = "schedule_hostgroup" ->
           {o \in IF r.members = "services" THEN Services ELSE Hosts : Owner(o) \in HostGroup}
      [] r.tool = "schedule_servicegroup" ->
           IF r.members = "hosts" THEN {HostOf[s] : s \in ServiceGroup} ELSE ServiceGroup
      [] OTHER -> IF r.service # None THEN {r.service}
                  ELSE {r.host} \cup (IF Cascades(r) THEN own ELSE {})

\* No command reaches an object its call is not about: the one named, the members
\* the tool names, or, for bulk_acknowledge, an object that was an unhandled
\* problem of the request at some time while the call was collecting
\* (commands.py:73-136, 205-296, 442-574, 638-752).
OnlyIntendedTouched == \A t \in applied : LET c == t[1] IN
    t[3] \in IF Bulk(c) THEN ever[c] ELSE Promised(call[c].req)

\* A tool that returns normally has done all it answers for: a single command or a
\* cascade reached every object it promises, and each target bulk_acknowledge counts
\* as acknowledged was commanded so (commands.py:309-322, 483-506).
DoneMeansDone == \A c \in Calls : call[c].phase = "done" =>
    IF Bulk(c)
    THEN \A i \in call[c].ok : <<c, "ack", call[c].cmds[i].target.at>> \in applied
    ELSE \A o \in Promised(call[c].req) : \E t \in applied : t[1] = c /\ t[3] = o

\* Paging loses a row only when a row vanished from the list meanwhile, or at the
\* hard limit: otherwise everything that stayed a problem is a target
\* (client.py:290-326, commands.py:251).
NothingSkipped == \A c \in Calls :
    /\ call[c].phase \in {"gathering", "done"} /\ Bulk(c) /\ ~Refused(call[c].req)
    /\ c \notin vanished
    /\ Len(call[c].hosts.rows) < HardLimit /\ Len(call[c].services.rows) < HardLimit
    => \A o \in steady[c] : \E i \in DOMAIN call[c].cmds : call[c].cmds[i].target.at = o

\* A cascade touches no service before its host's command has been accepted, so a
\* host that cannot be reached leaves its services alone (commands.py:476-499).
HostBeforeServices == \A c \in Calls :
    call[c].phase # "idle" /\ Cascades(call[c].req) =>
        \A t \in applied : t[1] = c => \E u \in applied : u[1] = c /\ u[3] = call[c].req.host

\* Every call returns, and the commands a failed cascade leaves behind come to
\* their end too (commands.py:494-499).
EveryWriteEnds == \A c \in Calls : Busy(c) ~> ~Busy(c)
================================================================================
