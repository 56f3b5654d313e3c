----------------------------- MODULE Writes_proofs -----------------------------
(* That the other write tools touch what they are asked to, do all they report *)
(* and overlook no problem that stays one while they page.                     *)
EXTENDS Writes, FiniteSetTheorems, SequenceTheorems, TLAPS

----------------------------------------------------------------------------
(* The order the server lists objects in. *)

\* A later element of S has a greater place, and every place is taken.
LEMMA PlaceIsRank ==
    ASSUME NEW S, S \subseteq Objects
    PROVE  /\ IsFiniteSet(S) /\ Cardinality(S) \in Nat
           /\ \A x \in S : Place(S, x) \in 1..Cardinality(S)
           /\ \A x, y \in S : Place(S, x) = Place(S, y) => x = y
           /\ \A i \in 1..Cardinality(S) : \E x \in S : Place(S, x) = i
<1>1. IsFiniteSet(S) /\ S \subseteq Nat
  <2>1. IsFiniteSet(Hosts \cup Services)
    BY WritesAssumption, FS_Union
  <2> QED BY <2>1, FS_Subset, WritesAssumption DEF Objects
<1> DEFINE Upto(x) == {y \in S : y <= x}
           n == Cardinality(S)
<1>2. \A x \in S : /\ IsFiniteSet(Upto(x)) /\ Cardinality(Upto(x)) \in Nat
                   /\ Cardinality(Upto(x)) <= n /\ x \in Upto(x)
  <2>1. SUFFICES ASSUME NEW x \in S
                 PROVE  /\ IsFiniteSet(Upto(x)) /\ Cardinality(Upto(x)) \in Nat
                        /\ Cardinality(Upto(x)) <= n /\ x \in Upto(x)
    OBVIOUS
  <2>2. Upto(x) \in SUBSET S /\ x \in Upto(x)
    BY <1>1
  <2>3. IsFiniteSet(Upto(x)) /\ Cardinality(Upto(x)) <= n
    BY <1>1, <2>2, FS_Subset
  <2> QED BY <2>2, <2>3, FS_CardinalityType
<1>3. n \in Nat
  BY <1>1, FS_CardinalityType
<1>4. \A x \in S : Cardinality(Upto(x)) >= 1
  <2>1. SUFFICES ASSUME NEW x \in S
                 PROVE  Cardinality(Upto(x)) >= 1
    OBVIOUS
  <2>2. /\ IsFiniteSet(Upto(x)) /\ Cardinality(Upto(x)) \in Nat /\ Upto(x) # {}
    BY <1>2
  <2>3. Cardinality(Upto(x)) # 0
    BY <2>2, FS_EmptySet
  <2> QED BY <2>2, <2>3
<1>5. \A x, y \in S : x < y => Cardinality(Upto(x)) < Cardinality(Upto(y))
  <2>1. SUFFICES ASSUME NEW x \in S, NEW y \in S, x < y
                 PROVE  Cardinality(Upto(x)) < Cardinality(Upto(y))
    OBVIOUS
  <2>2. /\ Upto(x) \in SUBSET Upto(y) /\ y \in Upto(y) /\ y \notin Upto(x)
    <3>1. x \in Nat /\ y \in Nat /\ ~(y <= x)
      BY <1>1, <2>1
    <3>2. \A z \in S : z <= x => z <= y
      BY <1>1, <2>1
    <3>3. Upto(x) \in SUBSET Upto(y)
      BY <3>2
    <3>4. y \notin Upto(x)
      BY <3>1
    <3> HIDE DEF Upto
    <3> QED BY <1>2, <3>3, <3>4
  <2>3. /\ Cardinality(Upto(x)) <= Cardinality(Upto(y))
        /\ Cardinality(Upto(y)) = Cardinality(Upto(x)) => Upto(y) = Upto(x)
    BY <1>2, <2>2, FS_Subset
  <2>4. Cardinality(Upto(x)) # Cardinality(Upto(y))
    BY <2>2, <2>3
  <2>5. Cardinality(Upto(x)) \in Nat /\ Cardinality(Upto(y)) \in Nat
    BY <1>2
  <2> HIDE DEF Upto
  <2> QED BY <2>3, <2>4, <2>5
<1>6. \A x \in S : Place(S, x) = Cardinality(Upto(x))
  BY DEF Place
<1> HIDE DEF Upto
<1>7. \A x \in S : Place(S, x) \in 1..n
  BY <1>2, <1>3, <1>4, <1>6
<1>8. \A x, y \in S : Place(S, x) = Place(S, y) => x = y
  <2>1. SUFFICES ASSUME NEW x \in S, NEW y \in S, x # y
                 PROVE  Place(S, x) # Place(S, y)
    OBVIOUS
  <2>2. x < y \/ y < x
    BY <1>1, <2>1
  <2>3. Place(S, x) < Place(S, y) \/ Place(S, y) < Place(S, x)
    BY <1>5, <1>6, <2>2
  <2>4. Place(S, x) \in Int /\ Place(S, y) \in Int
    BY <1>3, <1>7
  <2> QED BY <2>3, <2>4
<1> DEFINE f == [x \in S |-> Place(S, x)]
<1>9. f \in Injection(S, 1..n)
  BY <1>7, <1>8 DEF Injection, IsInjective
<1>10. IsFiniteSet(1..n) /\ Cardinality(1..n) = n
  <2>1. 1 \in Int /\ n \in Int
    BY <1>3
  <2>2. /\ IsFiniteSet(1..n)
        /\ Cardinality(1..n) = IF 1 > n THEN 0 ELSE n - 1 + 1
    BY <2>1, FS_Interval
  <2> QED BY <1>3, <2>2
<1>11. f \in Surjection(S, 1..n)
  BY <1>9, <1>10, FS_Injection
<1>12. \A i \in 1..n : \E x \in S : Place(S, x) = i
  BY <1>11 DEF Surjection
<1> QED BY <1>1, <1>3, <1>7, <1>8, <1>12

\* A listing holds the elements of the set and no others, each at its place.
LEMMA ListingIsComplete ==
    ASSUME NEW S, S \subseteq Objects
    PROVE  /\ InOrder(S) \in Seq(S) /\ Len(InOrder(S)) = Cardinality(S)
           /\ DOMAIN InOrder(S) = 1..Cardinality(S)
           /\ \A x \in S : InOrder(S)[Place(S, x)] = x
<1>1. /\ Cardinality(S) \in Nat
      /\ \A x \in S : Place(S, x) \in 1..Cardinality(S)
      /\ \A x, y \in S : Place(S, x) = Place(S, y) => x = y
      /\ \A i \in 1..Cardinality(S) : \E x \in S : Place(S, x) = i
  BY PlaceIsRank
<1>2. \A i \in 1..Cardinality(S) : InOrder(S)[i] \in S /\ Place(S, InOrder(S)[i]) = i
  BY <1>1 DEF InOrder
<1>3. InOrder(S) \in [1..Cardinality(S) -> S] /\ DOMAIN InOrder(S) = 1..Cardinality(S)
  BY <1>2 DEF InOrder
<1>4. InOrder(S) \in Seq(S) /\ Len(InOrder(S)) = Cardinality(S)
  BY <1>1, <1>3
<1>5. \A x \in S : InOrder(S)[Place(S, x)] = x
  BY <1>1, <1>2
<1> QED BY <1>3, <1>4, <1>5

\* Objects that join a list move no one forward in it.
LEMMA JoiningMovesBack ==
    ASSUME NEW S, NEW T, S \subseteq T, T \subseteq Objects, NEW x \in S
    PROVE  Place(S, x) <= Place(T, x)
<1>1. IsFiniteSet(T)
  BY PlaceIsRank
<1>2. {y \in T : y <= x} \in SUBSET T /\ {y \in S : y <= x} \in SUBSET {y \in T : y <= x}
  OBVIOUS
<1>3. IsFiniteSet({y \in T : y <= x})
  BY <1>1, <1>2, FS_Subset
<1>4. Cardinality({y \in S : y <= x}) <= Cardinality({y \in T : y <= x})
  BY <1>2, <1>3, FS_Subset
<1> QED BY <1>4 DEF Place
----------------------------------------------------------------------------
(* What the commands of a call reach. *)

\* The acknowledgement of a problem reaches that object alone.
LEMMA AckReachesOne ==
    ASSUME NEW o \in Objects
    PROVE  /\ Reach(AckOf(o)) = {o} /\ AckOf(o).target.at = o /\ AckOf(o).act = "ack"
<1> DEFINE r == [host |-> Owner(o), service |-> IF o \in Hosts THEN None ELSE o]
<1>1. AckOf(o) = Cmd(Target(r.host, r.service), OwnKind(r.service), "ack")
  BY DEF AckOf, Acknowledge, Plain
<1>2. CASE o \in Hosts
  <2>1. r.service = None /\ r.host = o
    BY <1>2, WritesAssumption DEF Owner, Objects
  <2>2. AckOf(o) = [target |-> [scope |-> "host", at |-> o], on |-> "host", act |-> "ack"]
    BY <1>1, <2>1 DEF Cmd, Target, OwnKind
  <2> QED BY <2>2 DEF Reach
<1>3. CASE o \in Services
  <2>1. r.service = o /\ o # None
    BY <1>3, WritesAssumption DEF Objects
  <2>2. AckOf(o) = [target |-> [scope |-> "service", at |-> o], on |-> "svc", act |-> "ack"]
    BY <1>1, <2>1 DEF Cmd, Target, OwnKind
  <2> QED BY <2>2 DEF Reach
<1> QED BY <1>2, <1>3 DEF Objects

Own(r) == {s \in Services : HostOf[s] = r.host}

\* A tool that sends one command reaches what its docstring promises; the first
\* command of a cascade reaches the host.
LEMMA SingleReaches ==
    ASSUME NEW r \in Arguments, r.tool # "bulk_acknowledge"
    PROVE  Reach(Single(r)) = IF Cascades(r) THEN {r.host} ELSE Promised(r)
<1>1. /\ r.host \in Hosts /\ r.service \in Services \cup {None}
      /\ None \notin Services /\ None \notin Hosts
  BY WritesAssumption DEF Arguments, Objects
<1>2. \A act : Reach(Plain(r, act)) = IF r.service = None THEN {r.host} ELSE {r.service}
  BY <1>1 DEF Plain, Cmd, Target, OwnKind, Reach
<1>3. CASE r.tool = "schedule_host_services"
  <2>1. Single(r) = [target |-> [scope |-> "host", at |-> r.host], on |-> "services",
                     act |-> "downtime"]
    BY <1>3 DEF Single, ScheduleHostServices, Cmd, Target
  <2> QED BY <1>3, <2>1 DEF Reach, Promised, Cascades
<1>4. CASE r.tool = "schedule_propagated"
  <2>1. Single(r).target = [scope |-> "host", at |-> r.host] /\ Single(r).on = "children"
    BY <1>4 DEF Single, SchedulePropagated, Cmd, Target
  <2> QED BY <1>4, <2>1 DEF Reach, Promised, Cascades
<1>5. CASE r.tool = "schedule_hostgroup"
  <2>1. /\ Single(r).target.scope = "hostgroup"
        /\ Single(r).on = IF r.members = "services" THEN "svc" ELSE "host"
    BY <1>5 DEF Single, ScheduleHostgroup, Cmd
  <2>2. /\ Services \cap Hosts = {} /\ HostGroup \subseteq Hosts
    BY WritesAssumption
  <2>3. ~Cascades(r)
    BY <1>5 DEF Cascades
  <2>4. Promised(r) = {o \in IF r.members = "services" THEN Services ELSE Hosts : Owner(o) \in HostGroup}
    BY <1>5 DEF Promised
  <2>5. CASE r.members = "services"
    <3>1. Reach(Single(r)) = {s \in Services : HostOf[s] \in HostGroup}
      BY <2>1, <2>5 DEF Reach
    <3>2. Promised(r) = {o \in Services : Owner(o) \in HostGroup}
      BY <2>4, <2>5
    <3> QED BY <2>3, <3>1, <3>2 DEF Owner
  <2>6. CASE r.members # "services"
    <3>1. Reach(Single(r)) = HostGroup
      BY <2>1, <2>6 DEF Reach
    <3>2. Promised(r) = {o \in Hosts : Owner(o) \in HostGroup}
      BY <2>4, <2>6
    <3> QED BY <2>2, <2>3, <3>1, <3>2 DEF Owner
  <2> QED BY <2>5, <2>6
<1>6. CASE r.tool = "schedule_servicegroup"
  <2>1. /\ Single(r).target.scope = "servicegroup"
        /\ Single(r).on = IF r.members = "hosts" THEN "host" ELSE "svc"
    BY <1>6 DEF Single, ScheduleServicegroup, Cmd
  <2>2. Promised(r) = IF r.members = "hosts" THEN {HostOf[s] : s \in ServiceGroup} ELSE ServiceGroup
    BY <1>6 DEF Promised
  <2> QED BY <1>6, <2>1, <2>2 DEF Reach, Cascades
<1>7. CASE r.tool \notin {"schedule_host_services", "schedule_propagated",
                          "schedule_hostgroup", "schedule_servicegroup"}
  <2>1. \E act : Single(r) = Plain(r, act)
    BY <1>7 DEF Single, ScheduleDowntime, Acknowledge, AddComment, DeleteComment,
                RemoveAcknowledgement, Recheck, Switch
  <2>2. Promised(r) = IF r.service # None THEN {r.service}
                      ELSE {r.host} \cup (IF Cascades(r) THEN Own(r) ELSE {})
    BY <1>7 DEF Promised, Own
  <2>3. Cascades(r) => r.service = None
    BY DEF Cascades
  <2> QED BY <1>2, <2>1, <2>2, <2>3
<1> QED BY <1>3, <1>4, <1>5, <1>6, <1>7

\* A cascade promises the host and its services, and names each of them.
LEMMA CascadeReaches ==
    ASSUME NEW r \in Arguments, Cascades(r)
    PROVE  /\ Promised(r) = {r.host} \cup Own(r)
           /\ \A s \in Own(r) : Reach(Switch([r EXCEPT !.service = s])) = {s}
<1>1. Promised(r) = {r.host} \cup Own(r)
  BY DEF Cascades, Promised, Own
<1>2. ASSUME NEW s \in Own(r)
      PROVE  Reach(Switch([r EXCEPT !.service = s])) = {s}
  <2>1. [r EXCEPT !.service = s].service = s /\ s # None
    BY WritesAssumption DEF Arguments, Own, Objects
  <2> QED BY <2>1 DEF Switch, Plain, Cmd, Target, OwnKind, Reach
<1> QED BY <1>1, <1>2

\* What the filter selects is what the request asks for, in any state.
LEMMA AskedAreProblems ==
    ASSUME NEW r \in Arguments, ~Refused(r), state \in [Objects -> Nat]
    PROVE  Asked(r) = Problems(r)
<1>1. SUFFICES ASSUME NEW o \in Objects
               PROVE  o \in Asked(r) <=> o \in Problems(r)
  BY DEF Asked, Problems
<1> DEFINE class == IF o \in Hosts THEN "host" ELSE "service"
           n == state[o]
<1>2. /\ n \in Nat
      /\ o \in Services <=> o \notin Hosts
  BY WritesAssumption DEF Objects
<1>3. o \in Asked(r) <=>
         /\ o \notin handled /\ n # 0
         /\ r.state # None => class = Named(r.state)[1] /\ n = Named(r.state)[2]
         /\ r.hosts_only => o \in Hosts
         /\ r.services_only => o \notin Hosts
         /\ r.group => Owner(o) \in HostGroup
  <2>1. r.state # None => Named(r.state) = <<Named(r.state)[1], Named(r.state)[2]>>
    BY DEF Named
  <2>2. r.state # None => (<<class, n>> = Named(r.state)
                            <=> class = Named(r.state)[1] /\ n = Named(r.state)[2])
    BY <2>1
  <2> QED BY <2>2 DEF Asked
<1>4. o \in Problems(r) <=>
         /\ o \notin handled
         /\ o \in Hosts => ~SkipHosts(r)
         /\ o \notin Hosts => ~SkipServices(r)
         /\ IF r.state = None THEN n >= 1
            ELSE n = IF o \in Hosts THEN HostInt(r.state) ELSE SvcInt(r.state)
         /\ r.group => Owner(o) \in HostGroup
  BY <1>2 DEF Problems, Wanted
<1>5. CASE r.state = None
  BY <1>2, <1>3, <1>4, <1>5 DEF SkipHosts, SkipServices
<1>6. CASE r.state # None
  <2>1. HostInt(r.state) # 0 \/ SvcInt(r.state) # 0
    BY <1>6 DEF Refused
  <2>2. CASE HostInt(r.state) # 0
    <3>1. /\ Named(r.state)[1] = "host" /\ Named(r.state)[2] = HostInt(r.state)
      BY <2>2 DEF HostInt, Named
    <3> QED BY <1>2, <1>3, <1>4, <1>6, <2>2, <3>1 DEF SkipHosts, SkipServices
  <2>3. CASE HostInt(r.state) = 0
    <3>1. /\ Named(r.state)[1] = "service" /\ Named(r.state)[2] = SvcInt(r.state)
          /\ SvcInt(r.state) # 0
      BY <2>1, <2>3 DEF HostInt, SvcInt, Named
    <3> QED BY <1>2, <1>3, <1>4, <1>6, <2>3, <3>1 DEF SkipHosts, SkipServices
  <2> QED BY <2>2, <2>3
<1> QED BY <1>5, <1>6
----------------------------------------------------------------------------
(* Types. *)

BulkPhases == {"collecting", "gathering", "done", "raised"}
OtherPhases == {"posting", "leading", "listing", "spreading", "done", "raised"}
Phases == {"idle"} \cup BulkPhases \cup OtherPhases
Readings == [rows : Seq(Objects), offset : Nat, over : BOOLEAN]
Targets == [scope : {"host", "service", "hostgroup", "servicegroup"}, at : Objects \cup {None}]
Verbs == {"host", "svc", "services", "children"}
Acts == {"downtime", "ack", "comment", "uncomment", "unack", "check", "forced_check",
         "triggered", "enable", "disable"}
Commands == [target : Targets, on : Verbs, act : Acts]
CallStates ==
    [req : Arguments \cup {None}, phase : Phases, hosts : Readings, services : Readings,
     cmds : Seq(Commands), todo : SUBSET Nat, ok : SUBSET Nat, failed : SUBSET Nat]

TypeOK ==
    /\ state \in [Objects -> Nat]
    /\ call \in [Calls -> CallStates]
    /\ steady \in [Calls -> SUBSET Objects]
    /\ ever \in [Calls -> SUBSET Objects]

\* A call becomes what an action makes of it, and the others stay.
LEMMA OneCallMoves ==
    ASSUME call \in [Calls -> CallStates], NEW c \in Calls, NEW new \in CallStates,
           Become(c, new)
    PROVE  /\ call' \in [Calls -> CallStates]
           /\ call'[c] = new
           /\ \A d \in Calls : d # c => call'[d] = call[d]
BY DEF Become

\* Nothing else about a call changes when its commands are sent.
LEMMA PostingType ==
    ASSUME NEW k \in CallStates, NEW phase \in Phases, NEW cmds \in Seq(Commands)
    PROVE  LET p == Posting(k, phase, cmds) IN
           /\ p \in CallStates
           /\ p.req = k.req /\ p.hosts = k.hosts /\ p.services = k.services
           /\ p.cmds = cmds /\ p.todo = DOMAIN cmds /\ p.ok = k.ok
           /\ p.phase = IF cmds = <<>> THEN "done" ELSE phase
<1>1. DOMAIN cmds \in SUBSET Nat
  BY LenProperties
<1>2. "done" \in Phases
  BY DEF Phases, BulkPhases
<1> QED BY <1>1, <1>2 DEF Posting, CallStates

\* Nothing about a call changes with an answer but where it is.
LEMMA AfterAnswerType ==
    ASSUME NEW k \in CallStates, NEW i \in k.todo
    PROVE  LET n == AfterAnswer(k, i) IN
           /\ n \in CallStates
           /\ n.req = k.req /\ n.hosts = k.hosts /\ n.services = k.services /\ n.cmds = k.cmds
           /\ n.todo = k.todo \ {i} /\ n.ok = k.ok \cup {i}
           /\ k.phase = "leading" => n.phase = "listing"
           /\ k.phase \notin {"leading", "raised"} /\ k.todo = {i} => n.phase = "done"
           /\ k.phase # "leading" /\ (k.phase = "raised" \/ k.todo # {i}) => n.phase = k.phase
<1>1. i \in Nat /\ "done" \in Phases /\ "listing" \in Phases /\ k.phase \in Phases
  BY DEF CallStates, Phases, BulkPhases, OtherPhases
<1> DEFINE next == CASE k.phase = "leading" -> "listing"
                     [] k.phase \notin {"leading", "raised"} /\ k.todo = {i} -> "done"
                     [] OTHER -> k.phase
<1>2. /\ k.phase = "leading" => next = "listing"
      /\ k.phase \notin {"leading", "raised"} /\ k.todo = {i} => next = "done"
      /\ k.phase # "leading" /\ (k.phase = "raised" \/ k.todo # {i}) => next = k.phase
  OBVIOUS
<1>3. next \in Phases
  BY <1>1, <1>2
<1>4. AfterAnswer(k, i) = [k EXCEPT !.todo = k.todo \ {i}, !.ok = k.ok \cup {i}, !.phase = next]
  BY DEF AfterAnswer, CallStates
<1>5. k.todo \ {i} \in SUBSET Nat /\ k.ok \cup {i} \in SUBSET Nat /\ k.failed \cup {i} \in SUBSET Nat
  BY <1>1 DEF CallStates
<1> HIDE DEF next
<1>6. AfterAnswer(k, i) \in CallStates
  BY <1>3, <1>4, <1>5 DEF CallStates
<1>7. LET n == AfterAnswer(k, i) IN
      /\ n.req = k.req /\ n.hosts = k.hosts /\ n.services = k.services /\ n.cmds = k.cmds
      /\ n.todo = k.todo \ {i} /\ n.ok = k.ok \cup {i} /\ n.phase = next
  BY <1>4 DEF CallStates
<1> QED BY <1>2, <1>6, <1>7

\* Likewise with a failure.
LEMMA AfterFailureType ==
    ASSUME NEW k \in CallStates, NEW i \in k.todo
    PROVE  LET n == AfterFailure(k, i) IN
           /\ n \in CallStates
           /\ n.req = k.req /\ n.hosts = k.hosts /\ n.services = k.services /\ n.cmds = k.cmds
           /\ n.todo = k.todo \ {i} /\ n.ok = k.ok
           /\ k.phase # "gathering" => n.phase = "raised"
           /\ k.phase = "gathering" /\ k.todo = {i} => n.phase = "done"
           /\ k.phase = "gathering" /\ k.todo # {i} => n.phase = "gathering"
<1>1. i \in Nat /\ "done" \in Phases /\ "raised" \in Phases /\ k.phase \in Phases
  BY DEF CallStates, Phases, BulkPhases, OtherPhases
<1> DEFINE next == CASE k.phase # "gathering" -> "raised"
                     [] k.phase = "gathering" /\ k.todo = {i} -> "done"
                     [] OTHER -> k.phase
<1>2. /\ k.phase # "gathering" => next = "raised"
      /\ k.phase = "gathering" /\ k.todo = {i} => next = "done"
      /\ k.phase = "gathering" /\ k.todo # {i} => next = "gathering"
  OBVIOUS
<1>3. next \in Phases
  BY <1>1, <1>2
<1>4. AfterFailure(k, i) = [k EXCEPT !.todo = k.todo \ {i}, !.failed = k.failed \cup {i}, !.phase = next]
  BY DEF AfterFailure, CallStates
<1>5. k.todo \ {i} \in SUBSET Nat /\ k.ok \cup {i} \in SUBSET Nat /\ k.failed \cup {i} \in SUBSET Nat
  BY <1>1 DEF CallStates
<1> HIDE DEF next
<1>6. AfterFailure(k, i) \in CallStates
  BY <1>3, <1>4, <1>5 DEF CallStates
<1>7. LET n == AfterFailure(k, i) IN
      /\ n.req = k.req /\ n.hosts = k.hosts /\ n.services = k.services /\ n.cmds = k.cmds
      /\ n.todo = k.todo \ {i} /\ n.ok = k.ok /\ n.phase = next
  BY <1>4 DEF CallStates
<1> QED BY <1>2, <1>6, <1>7

\* Every tool sends a command about objects.
LEMMA SingleType ==
    ASSUME NEW r \in Arguments
    PROVE  Single(r) \in Commands
<1>1. r.host \in Hosts /\ r.service \in Services \cup {None}
  BY DEF Arguments
<1>2. Target(r.host, r.service) \in Targets /\ Target(r.host, None) \in Targets
  BY <1>1 DEF Target, Targets, Objects
<1>3. \A act \in Acts : Plain(r, act) \in Commands
  BY <1>2 DEF Plain, OwnKind, Cmd, Commands, Verbs
<1>4. \A act \in Acts, on \in Verbs : Cmd(Target(r.host, None), on, act) \in Commands
  BY <1>2 DEF Cmd, Commands
<1>5. /\ ScheduleDowntime(r) \in Commands /\ Acknowledge(r) \in Commands
      /\ AddComment(r) \in Commands /\ DeleteComment(r) \in Commands
      /\ RemoveAcknowledgement(r) \in Commands
  BY <1>3 DEF ScheduleDowntime, Acknowledge, AddComment, DeleteComment,
              RemoveAcknowledgement, Acts
<1>6. Recheck(r) \in Commands /\ Switch(r) \in Commands
  BY <1>3 DEF Recheck, Switch, Acts
<1>7. ScheduleHostServices(r) \in Commands /\ SchedulePropagated(r) \in Commands
  BY <1>4 DEF ScheduleHostServices, SchedulePropagated, Verbs, Acts
<1>8. ScheduleHostgroup(r) \in Commands /\ ScheduleServicegroup(r) \in Commands
  BY DEF ScheduleHostgroup, ScheduleServicegroup, Cmd, Commands, Targets, Verbs, Acts
<1> QED BY <1>5, <1>6, <1>7, <1>8 DEF Single

\* An acknowledgement is a command about an object.
LEMMA AckType ==
    ASSUME NEW o \in Objects
    PROVE  AckOf(o) \in Commands
<1> DEFINE s == IF o \in Hosts THEN None ELSE o
<1>1. Owner(o) \in Objects /\ s \in Objects \cup {None}
  BY WritesAssumption DEF Owner, Objects
<1>2. Target(Owner(o), s) \in Targets
  BY <1>1 DEF Target, Targets
<1>3. AckOf(o) = [target |-> Target(Owner(o), s), on |-> OwnKind(s), act |-> "ack"]
  BY DEF AckOf, Acknowledge, Plain, Cmd
<1> HIDE DEF s
<1> QED BY <1>2, <1>3 DEF Commands, OwnKind, Verbs, Acts

\* So is what a cascade sends to a service.
LEMMA SwitchType ==
    ASSUME NEW r \in Arguments, NEW s \in Services
    PROVE  Switch([r EXCEPT !.service = s]) \in Commands
<1> DEFINE q == [r EXCEPT !.service = s]
<1>1. q.host \in Hosts /\ q.service \in Services \cup {None}
  BY DEF Arguments
<1> HIDE DEF q
<1>2. Target(q.host, q.service) \in Targets
  BY <1>1 DEF Target, Targets, Objects
<1>3. Switch(q) \in Commands
  BY <1>2 DEF Switch, Plain, OwnKind, Cmd, Commands, Verbs, Acts
<1> QED BY <1>3 DEF q
----------------------------------------------------------------------------
(* Reading a list page by page. *)

Elements(s) == {s[i] : i \in DOMAIN s}

\* What two lists hold one after the other is what either holds.
LEMMA ConcatElements ==
    ASSUME NEW T, NEW s \in Seq(T), NEW t \in Seq(T)
    PROVE  Elements(s \o t) = Elements(s) \cup Elements(t)
<1> DEFINE m == Len(s)
           n == Len(t)
           st == s \o t
<1>1. /\ m \in Nat /\ n \in Nat /\ Len(st) = m + n
      /\ DOMAIN s = 1..m /\ DOMAIN t = 1..n /\ DOMAIN st = 1..(m + n)
      /\ \A i \in 1..(m + n) : st[i] = IF i <= m THEN s[i] ELSE t[i - m]
  BY ConcatProperties, LenProperties
<1> HIDE DEF m, n, st
<1>2. \A i \in 1..m : i \in 1..(m + n) /\ st[i] = s[i]
  BY <1>1
<1>3. ASSUME NEW i \in 1..n
      PROVE  i + m \in 1..(m + n) /\ st[i + m] = t[i]
  <2>1. i + m \in 1..(m + n) /\ ~(i + m <= m) /\ i + m - m = i
    BY <1>1
  <2> QED BY <1>1, <2>1
<1>4. ASSUME NEW i \in 1..(m + n)
      PROVE  i \in 1..m \/ (i - m \in 1..n /\ st[i] = t[i - m])
  <2>1. i \in 1..m \/ (i - m \in 1..n /\ ~(i <= m))
    BY <1>1
  <2> QED BY <1>1, <2>1
<1>5. Elements(st) = Elements(s) \cup Elements(t)
  <2>1. ASSUME NEW i \in 1..(m + n)
        PROVE  st[i] \in Elements(s) \cup Elements(t)
    BY <1>1, <1>2, <1>4 DEF Elements
  <2>2. Elements(st) \subseteq Elements(s) \cup Elements(t)
    BY <1>1, <2>1 DEF Elements
  <2>3. Elements(s) \subseteq Elements(st)
    BY <1>1, <1>2 DEF Elements
  <2>4. Elements(t) \subseteq Elements(st)
    BY <1>1, <1>3 DEF Elements
  <2> QED BY <2>2, <2>3, <2>4
<1> QED BY <1>5 DEF st

\* The minimum of two numbers is the lesser.
LEMMA LesserOfTwo ==
    ASSUME NEW a \in Nat, NEW b \in Nat
    PROVE  Min({a, b}) = IF a <= b THEN a ELSE b
<1> DEFINE least == IF a <= b THEN a ELSE b
<1>1. least \in {a, b} /\ \A y \in {a, b} : least <= y
  OBVIOUS
<1>2. \A x \in {a, b} : x <= a /\ x <= b => x = least
  OBVIOUS
<1> HIDE DEF least
<1>3. Min({a, b}) = least
  BY <1>1, <1>2 DEF Min
<1> QED BY <1>3 DEF least

\* A slice holds the rows from one place to another, as far as there are any.
LEMMA SliceProperties ==
    ASSUME NEW T, NEW rows \in Seq(T), NEW from \in Nat \ {0}, NEW to \in Nat
    PROVE  LET slice == Slice(rows, from, to) IN
           /\ slice \in Seq(T) /\ Len(slice) \in Nat
           /\ Elements(slice) \subseteq Elements(rows)
           /\ \A i \in from..to : i <= Len(rows) =>
                 i - from + 1 \in 1..Len(slice) /\ slice[i - from + 1] = rows[i]
           /\ to <= Len(rows) /\ from <= to => Len(slice) = to - from + 1
<1> DEFINE n == Len(rows)
           m == Min({to, n})
           slice == Slice(rows, from, to)
<1>1. n \in Nat /\ DOMAIN rows = 1..n /\ \A i \in 1..n : rows[i] \in T
  BY LenProperties, ElementOfSeq
<1> HIDE DEF n
<1>2. m = IF to <= n THEN to ELSE n
  BY <1>1, LesserOfTwo
<1> HIDE DEF m
<1>3. m \in Nat /\ m <= n /\ m <= to
  BY <1>1, <1>2
<1>4. \A i \in from..m : rows[i] \in T
  BY <1>1, <1>3
<1>5. slice = SubSeq(rows, from, m)
  BY DEF Slice, m, n
<1>6. /\ slice \in Seq(T)
      /\ Len(slice) = IF from <= m THEN m - from + 1 ELSE 0
      /\ \A j \in 1..(m - from + 1) : slice[j] = rows[from + j - 1]
  <2>1. from \in Int /\ m \in Int
    BY <1>3
  <2> QED BY <1>4, <1>5, <2>1, SubSeqProperties
<1> HIDE DEF slice
<1>7. ASSUME NEW i \in from..to, i <= n
      PROVE  i - from + 1 \in 1..Len(slice) /\ slice[i - from + 1] = rows[i]
  <2>1. i <= m /\ from <= m /\ i \in Nat
    BY <1>1, <1>2, <1>7
  <2>2. i - from + 1 \in 1..(m - from + 1)
    BY <1>3, <2>1
  <2>3. from + (i - from + 1) - 1 = i
    BY <2>1
  <2>4. slice[i - from + 1] = rows[i]
    BY <1>6, <2>2, <2>3
  <2> QED BY <1>6, <2>1, <2>2, <2>4
<1>8. Elements(slice) \subseteq Elements(rows)
  <2>1. DOMAIN slice = 1..Len(slice)
    BY <1>6, LenProperties
  <2>2. ASSUME NEW j \in 1..Len(slice)
        PROVE  from + j - 1 \in 1..n /\ slice[j] = rows[from + j - 1]
    <3>1. j \in 1..(m - from + 1) /\ from + j - 1 \in 1..n
      BY <1>1, <1>3, <1>6
    <3> QED BY <1>6, <3>1
  <2> QED BY <1>1, <2>1, <2>2 DEF Elements
<1>9. to <= n /\ from <= to => Len(slice) = to - from + 1
  BY <1>1, <1>2, <1>6
<1>10. Len(slice) \in Nat
  BY <1>6, LenProperties
<1> QED BY <1>6, <1>7, <1>8, <1>9, <1>10 DEF slice, n

\* A page adds rows of the list to those read and, short of the hard limit, leaves
\* out none between the old offset and the new one, nor after it when it is the last.
LEMMA NextPageProperties ==
    ASSUME NEW S, S \subseteq Objects, NEW read \in Readings
    PROVE  LET next == NextPage(read, InOrder(S)) IN
           /\ next \in Readings
           /\ Elements(next.rows) \subseteq Elements(read.rows) \cup S
           /\ Len(next.rows) < HardLimit =>
                 /\ Len(read.rows) < HardLimit
                 /\ Elements(read.rows) \subseteq Elements(next.rows)
                 /\ \A x \in S : /\ Place(S, x) > read.offset
                                 /\ next.over \/ Place(S, x) <= next.offset
                                 => x \in Elements(next.rows)
           /\ next.offset = read.offset + PageSize
<1> DEFINE all == InOrder(S)
           off == read.offset
           first == off + 1
           last == off + PageSize
           page == Slice(all, first, last)
           rows == read.rows \o page
           kept == Slice(rows, 1, HardLimit)
           next == NextPage(read, all)
<1>1. /\ all \in Seq(Objects) /\ Len(all) = Cardinality(S) /\ Cardinality(S) \in Nat
      /\ DOMAIN all = 1..Cardinality(S)
      /\ \A i \in DOMAIN all : all[i] \in S
      /\ \A x \in S : all[Place(S, x)] = x /\ Place(S, x) \in 1..Cardinality(S)
  <2>1. all \in Seq(S)
    BY ListingIsComplete
  <2>2. \A i \in DOMAIN all : all[i] \in S
    BY <2>1, ElementOfSeq
  <2> QED BY <2>1, <2>2, ListingIsComplete, PlaceIsRank
<1>2. /\ off \in Nat /\ read.rows \in Seq(Objects) /\ Len(read.rows) \in Nat
      /\ PageSize \in Nat \ {0} /\ HardLimit \in Nat \ {0}
  BY WritesAssumption, LenProperties DEF Readings
<1>3. first \in Nat \ {0} /\ last \in Nat /\ first <= last
  BY <1>2
<1> HIDE DEF all, first, last
<1>4. /\ page \in Seq(S) /\ page \in Seq(Objects) /\ Len(page) \in Nat
      /\ \A i \in first..last : i <= Len(all) =>
            i - first + 1 \in 1..Len(page) /\ page[i - first + 1] = all[i]
      /\ last <= Len(all) => Len(page) = last - first + 1
  <2>1. all \in Seq(S)
    BY ListingIsComplete DEF all
  <2>2. /\ page \in Seq(S) /\ Len(page) \in Nat
        /\ \A i \in first..last : i <= Len(all) =>
              i - first + 1 \in 1..Len(page) /\ page[i - first + 1] = all[i]
        /\ last <= Len(all) /\ first <= last => Len(page) = last - first + 1
    BY <1>3, <2>1, SliceProperties
  <2>3. page \in Seq(Objects)
    BY <2>2
  <2> HIDE DEF page
  <2> QED BY <1>3, <2>2, <2>3
<1>5. /\ first = off + 1 /\ last = off + PageSize /\ last - first + 1 = PageSize
  BY <1>2 DEF first, last
<1> HIDE DEF page, off
<1>6. /\ rows \in Seq(Objects) /\ Len(rows) = Len(read.rows) + Len(page)
      /\ Elements(rows) = Elements(read.rows) \cup Elements(page)
  BY <1>2, <1>4, ConcatProperties, ConcatElements
<1> HIDE DEF rows
<1>7. /\ kept \in Seq(Objects) /\ Len(kept) \in Nat
      /\ Elements(kept) \subseteq Elements(rows)
      /\ \A i \in 1..HardLimit : i <= Len(rows) =>
            i - 1 + 1 \in 1..Len(kept) /\ kept[i - 1 + 1] = rows[i]
      /\ HardLimit <= Len(rows) => Len(kept) = HardLimit
  <2>1. 1 \in Nat \ {0} /\ HardLimit \in Nat /\ 1 <= HardLimit /\ HardLimit - 1 + 1 = HardLimit
    BY <1>2
  <2>2. /\ kept \in Seq(Objects) /\ Len(kept) \in Nat
        /\ Elements(kept) \subseteq Elements(rows)
        /\ \A i \in 1..HardLimit : i <= Len(rows) =>
              i - 1 + 1 \in 1..Len(kept) /\ kept[i - 1 + 1] = rows[i]
        /\ HardLimit <= Len(rows) /\ 1 <= HardLimit => Len(kept) = HardLimit - 1 + 1
    BY <1>6, <2>1, SliceProperties
  <2> HIDE DEF kept
  <2> QED BY <2>1, <2>2
<1>8. /\ next.rows = kept /\ next.offset = last
      /\ next.over = (Len(page) < PageSize \/ Len(rows) >= HardLimit)
      /\ next \in Readings
  <2>1. next = [read EXCEPT !.rows = kept, !.offset = last,
                            !.over = Len(page) < PageSize \/ Len(rows) >= HardLimit]
    BY DEF NextPage, Readings, rows, page, first, last, off
  <2>2. last \in Nat
    BY <1>3
  <2> HIDE DEF next, kept
  <2>3. (Len(page) < PageSize \/ Len(rows) >= HardLimit) \in BOOLEAN
    OBVIOUS
  <2> QED BY <1>7, <2>1, <2>2, <2>3 DEF Readings
<1> HIDE DEF next, kept
<1>9. Elements(page) \subseteq S
  BY <1>4, ElementOfSeq DEF Elements
<1>10. ASSUME Len(kept) < HardLimit
      PROVE  /\ Len(read.rows) < HardLimit /\ Len(rows) < HardLimit
             /\ Elements(rows) \subseteq Elements(kept)
  <2>1. Len(rows) \in Nat /\ Len(rows) < HardLimit /\ Len(read.rows) < HardLimit
    BY <1>2, <1>4, <1>6, <1>7, <1>10
  <2>2. DOMAIN rows = 1..Len(rows) /\ DOMAIN kept = 1..Len(kept)
    BY <1>6, <1>7, LenProperties
  <2>3. ASSUME NEW i \in 1..Len(rows)
        PROVE  i \in 1..Len(kept) /\ kept[i] = rows[i]
    <3>1. i \in 1..HardLimit /\ i <= Len(rows) /\ i - 1 + 1 = i
      BY <1>2, <2>1
    <3> QED BY <1>7, <3>1
  <2> QED BY <2>1, <2>2, <2>3 DEF Elements
<1>11. ASSUME Len(kept) < HardLimit, NEW x \in S, Place(S, x) > off,
             next.over \/ Place(S, x) <= last
      PROVE  x \in Elements(page)
  <2> DEFINE p == Place(S, x)
  <2>1. p \in 1..Len(all) /\ all[p] = x /\ Len(all) \in Nat
    BY <1>1
  <2>2. Len(rows) < HardLimit /\ Len(rows) \in Nat
    BY <1>2, <1>4, <1>6, <1>10, <1>11
  <2> HIDE DEF p
  <2>3. next.over => Len(page) < PageSize
    <3>1. next.over => Len(page) < PageSize \/ Len(rows) >= HardLimit
      BY <1>8, Zenon
    <3> QED BY <1>2, <2>2, <3>1
  <2>4. Len(page) < PageSize => Len(all) < last
    BY <1>1, <1>2, <1>3, <1>4, <1>5
  <2>5. p \in first..last /\ p <= Len(all)
    BY <1>2, <1>3, <1>5, <1>11, <2>1, <2>3, <2>4 DEF p
  <2>6. p - first + 1 \in 1..Len(page) /\ page[p - first + 1] = x
    BY <1>4, <2>1, <2>5
  <2>7. DOMAIN page = 1..Len(page)
    BY <1>4, LenProperties
  <2> QED BY <2>6, <2>7 DEF Elements
<1>12. /\ Elements(kept) \subseteq Elements(read.rows) \cup S
       /\ Len(kept) < HardLimit => /\ Elements(read.rows) \subseteq Elements(kept)
                                   /\ Elements(page) \subseteq Elements(kept)
  BY <1>6, <1>7, <1>9, <1>10
<1> USE DEF off, last
<1> QED BY <1>8, <1>10, <1>11, <1>12 DEF next, all
----------------------------------------------------------------------------
(* What the actions do to a call. *)

\* A call that begins has either nothing to send yet or one command.
LEMMA BeginEffect ==
    ASSUME TypeOK, NEW c \in Calls, Begin(c)
    PROVE  /\ call' \in [Calls -> CallStates] /\ \A d \in Calls : d # c => call'[d] = call[d]
           /\ call[c].phase = "idle" /\ call'[c].req \in Arguments /\ call'[c].ok = {}
           /\ \/ /\ call'[c].req.tool = "bulk_acknowledge"
                 /\ call'[c].cmds = <<>> /\ call'[c].todo = {}
                 /\ call'[c].phase = IF Refused(call'[c].req) THEN "done" ELSE "collecting"
                 /\ call'[c].hosts = [rows |-> <<>>, offset |-> 0, over |-> SkipHosts(call'[c].req)]
                 /\ call'[c].services =
                       [rows |-> <<>>, offset |-> 0, over |-> SkipServices(call'[c].req)]
                 /\ steady' = [steady EXCEPT ![c] = IF Refused(call'[c].req) THEN {} ELSE Asked(call'[c].req)]
                 /\ ever' = [ever EXCEPT ![c] = IF Refused(call'[c].req) THEN {} ELSE Asked(call'[c].req)]
              \/ /\ call'[c].req.tool # "bulk_acknowledge"
                 /\ call'[c].cmds = <<Single(call'[c].req)>> /\ call'[c].todo = {1}
                 /\ call'[c].phase = IF Cascades(call'[c].req) THEN "leading" ELSE "posting"
                 /\ UNCHANGED <<steady, ever>>
<1>1. PICK r \in Requests[c] :
         /\ call[c].phase = "idle"
         /\ IF r.tool = "bulk_acknowledge"
            THEN /\ Become(c, [[Idle EXCEPT !.req = r]
                                  EXCEPT !.phase = IF Refused(r) THEN "done" ELSE "collecting",
                                         !.hosts.over = SkipHosts(r),
                                         !.services.over = SkipServices(r)])
                 /\ steady' = [steady EXCEPT ![c] = IF Refused(r) THEN {} ELSE Asked(r)]
                 /\ ever' = [ever EXCEPT ![c] = IF Refused(r) THEN {} ELSE Asked(r)]
            ELSE /\ Become(c, Posting([Idle EXCEPT !.req = r],
                                      IF Cascades(r) THEN "leading" ELSE "posting", <<Single(r)>>))
                 /\ UNCHANGED <<steady, ever>>
  BY DEF Begin
<1>2. r \in Arguments
  BY WritesAssumption
<1>3. call \in [Calls -> CallStates]
  BY DEF TypeOK
<1> DEFINE unread == [rows |-> <<>>, offset |-> 0, over |-> FALSE]
           hosts == [rows |-> <<>>, offset |-> 0, over |-> SkipHosts(r)]
           services == [rows |-> <<>>, offset |-> 0, over |-> SkipServices(r)]
           unsent == <<>>
           k == [req |-> r, phase |-> "idle", hosts |-> unread, services |-> unread,
                 cmds |-> unsent, todo |-> {}, ok |-> {}, failed |-> {}]
           phase == IF Refused(r) THEN "done" ELSE "collecting"
           bulk == [req |-> r, phase |-> phase, hosts |-> hosts, services |-> services,
                    cmds |-> unsent, todo |-> {}, ok |-> {}, failed |-> {}]
<1>4. /\ Reading = unread
      /\ [unread EXCEPT !.over = SkipHosts(r)] = hosts
      /\ [unread EXCEPT !.over = SkipServices(r)] = services
  BY DEF Reading
<1>5. unread \in Readings /\ hosts \in Readings /\ services \in Readings
  <2>1. SkipHosts(r) \in BOOLEAN /\ SkipServices(r) \in BOOLEAN
    BY <1>2 DEF SkipHosts, SkipServices, Arguments
  <2>2. <<>> \in Seq(Objects) /\ 0 \in Nat /\ FALSE \in BOOLEAN
    BY EmptySeq
  <2> QED BY <2>1, <2>2 DEF Readings
<1>10. unsent \in Seq(Commands)
  BY EmptySeq
<1> HIDE DEF unread, hosts, services, unsent
<1>6. Idle = [req |-> None, phase |-> "idle", hosts |-> unread, services |-> unread,
              cmds |-> unsent, todo |-> {}, ok |-> {}, failed |-> {}]
  BY <1>4 DEF Idle, unsent
<1>7. [Idle EXCEPT !.req = r] = k
  <2>1. [[req |-> None, phase |-> "idle", hosts |-> unread, services |-> unread,
          cmds |-> unsent, todo |-> {}, ok |-> {}, failed |-> {}] EXCEPT !.req = r] = k
    OBVIOUS
  <2> QED BY <1>6, <2>1
<1>8. CASE r.tool = "bulk_acknowledge"
  <2> HIDE DEF phase
  <2>1. [k EXCEPT !.phase = phase, !.hosts.over = SkipHosts(r), !.services.over = SkipServices(r)] = bulk
    <3>1. [k EXCEPT !.phase = phase, !.hosts.over = SkipHosts(r), !.services.over = SkipServices(r)]
             = [k EXCEPT !.phase = phase, !.hosts = [unread EXCEPT !.over = SkipHosts(r)],
                         !.services = [unread EXCEPT !.over = SkipServices(r)]]
      OBVIOUS
    <3>2. [k EXCEPT !.phase = phase, !.hosts = hosts, !.services = services] = bulk
      <4> DEFINE k1 == [req |-> r, phase |-> phase, hosts |-> unread, services |-> unread,
                        cmds |-> unsent, todo |-> {}, ok |-> {}, failed |-> {}]
                 k2 == [req |-> r, phase |-> phase, hosts |-> hosts, services |-> unread,
                        cmds |-> unsent, todo |-> {}, ok |-> {}, failed |-> {}]
      <4>1. [k EXCEPT !.phase = phase] = k1
        OBVIOUS
      <4>2. [k1 EXCEPT !.hosts = hosts] = k2
        OBVIOUS
      <4>3. [k2 EXCEPT !.services = services] = bulk
        OBVIOUS
      <4> HIDE DEF k, k1, k2, bulk
      <4>4. [k EXCEPT !.phase = phase, !.hosts = hosts, !.services = services]
               = [[[k EXCEPT !.phase = phase] EXCEPT !.hosts = hosts] EXCEPT !.services = services]
        OBVIOUS
      <4> QED BY <4>1, <4>2, <4>3, <4>4
    <3> QED BY <1>4, <3>1, <3>2
  <2>2. phase \in Phases
    BY DEF Phases, BulkPhases, phase
  <2>4. bulk \in CallStates
    BY <1>2, <1>5, <1>10, <2>2 DEF CallStates
  <2>5. Become(c, bulk)
    <3>1. Become(c, [[Idle EXCEPT !.req = r]
                        EXCEPT !.phase = phase, !.hosts.over = SkipHosts(r),
                               !.services.over = SkipServices(r)])
      BY <1>1, <1>8 DEF phase
    <3> QED BY <1>7, <2>1, <3>1
  <2>6. /\ call' \in [Calls -> CallStates] /\ call'[c] = bulk
        /\ \A d \in Calls : d # c => call'[d] = call[d]
    BY <1>3, <2>4, <2>5, OneCallMoves
  <2>7. /\ bulk.req = r /\ bulk.ok = {} /\ bulk.cmds = unsent /\ bulk.todo = {}
        /\ bulk.phase = phase /\ bulk.hosts = hosts /\ bulk.services = services
    OBVIOUS
  <2> HIDE DEF bulk
  <2> QED BY <1>1, <1>2, <1>8, <2>6, <2>7 DEF phase, hosts, services, unsent
<1>9. CASE r.tool # "bulk_acknowledge"
  <2> DEFINE first == IF Cascades(r) THEN "leading" ELSE "posting"
             cmds == <<Single(r)>>
             new == Posting(k, first, cmds)
  <2>1. k \in CallStates
    BY <1>2, <1>5, <1>10 DEF CallStates, Phases
  <2>2. first \in Phases
    BY DEF Phases, OtherPhases
  <2>3. cmds \in Seq(Commands) /\ cmds # <<>> /\ DOMAIN cmds = {1}
    BY <1>2, SingleType
  <2>4. k.req = r /\ k.ok = {}
    OBVIOUS
  <2>5. Become(c, new)
    <3>1. Become(c, Posting([Idle EXCEPT !.req = r], first, cmds))
      BY <1>1, <1>9
    <3> QED BY <1>7, <3>1
  <2> HIDE DEF k, first, cmds
  <2>6. /\ new \in CallStates /\ new.req = r /\ new.ok = {} /\ new.cmds = cmds
        /\ new.todo = {1} /\ new.phase = first
    BY <2>1, <2>2, <2>3, <2>4, PostingType
  <2> HIDE DEF new
  <2>7. /\ call' \in [Calls -> CallStates] /\ call'[c] = new
        /\ \A d \in Calls : d # c => call'[d] = call[d]
    BY <1>3, <2>5, <2>6, OneCallMoves
  <2> QED BY <1>1, <1>2, <1>9, <2>6, <2>7 DEF first, cmds
<1> QED BY <1>8, <1>9

\* A page reads on in one of the two lists and leaves the other.
LEMMA PageEffect ==
    ASSUME TypeOK, NEW c \in Calls, NEW kind \in {"hosts", "services"}, Page(c, kind)
    PROVE  /\ call' \in [Calls -> CallStates] /\ \A d \in Calls : d # c => call'[d] = call[d]
           /\ call[c].phase = "collecting" /\ ~call[c][kind].over
           /\ call'[c].req = call[c].req /\ call'[c].phase = call[c].phase
           /\ call'[c].cmds = call[c].cmds /\ call'[c].todo = call[c].todo
           /\ call'[c].ok = call[c].ok
           /\ call'[c][kind] = NextPage(call[c][kind], Rows(call[c].req, kind))
           /\ \A other \in {"hosts", "services"} : other # kind => call'[c][other] = call[c][other]
           /\ call[c].hosts \in Readings /\ call[c].services \in Readings
<1> DEFINE page == NextPage(call[c][kind], Rows(call[c].req, kind))
           new == [call[c] EXCEPT ![kind] = page]
<1>1. call \in [Calls -> CallStates] /\ call[c] \in CallStates
  BY DEF TypeOK
<1>2. page \in Readings
  <2>1. call[c][kind] \in Readings
    BY <1>1 DEF CallStates
  <2>2. Problems(call[c].req) \cap Kind(kind) \subseteq Objects
    BY DEF Problems
  <2> QED BY <2>1, <2>2, NextPageProperties DEF Rows
<1>3. call[c].phase = "collecting" /\ ~call[c][kind].over /\ Become(c, new)
  BY DEF Page
<1> HIDE DEF page
<1>4. /\ new \in CallStates /\ new[kind] = page /\ new.req = call[c].req
      /\ new.phase = call[c].phase /\ new.cmds = call[c].cmds /\ new.todo = call[c].todo
      /\ new.ok = call[c].ok
      /\ \A other \in {"hosts", "services"} : other # kind => new[other] = call[c][other]
      /\ call[c].hosts \in Readings /\ call[c].services \in Readings
  <2>1. CASE kind = "hosts"
    BY <1>1, <1>2, <2>1 DEF CallStates
  <2>2. CASE kind = "services"
    BY <1>1, <1>2, <2>2 DEF CallStates
  <2> QED BY <2>1, <2>2
<1> HIDE DEF new
<1>5. /\ call' \in [Calls -> CallStates] /\ call'[c] = new
      /\ \A d \in Calls : d # c => call'[d] = call[d]
  BY <1>1, <1>3, <1>4, OneCallMoves
<1> QED BY <1>3, <1>4, <1>5 DEF page

\* A call that fails to collect or to list only stops.
LEMMA StopEffect ==
    ASSUME TypeOK, NEW c \in Calls, Become(c, [call[c] EXCEPT !.phase = "raised"])
    PROVE  /\ call' \in [Calls -> CallStates] /\ \A d \in Calls : d # c => call'[d] = call[d]
           /\ call'[c].phase = "raised"
           /\ call'[c].req = call[c].req /\ call'[c].cmds = call[c].cmds
           /\ call'[c].todo = call[c].todo /\ call'[c].ok = call[c].ok
<1> DEFINE new == [call[c] EXCEPT !.phase = "raised"]
<1>1. call \in [Calls -> CallStates] /\ call[c] \in CallStates
  BY DEF TypeOK
<1>2. "raised" \in Phases
  BY DEF Phases, BulkPhases
<1>3. /\ new \in CallStates /\ new.phase = "raised"
      /\ new.req = call[c].req /\ new.cmds = call[c].cmds
      /\ new.todo = call[c].todo /\ new.ok = call[c].ok
  BY <1>1, <1>2 DEF CallStates
<1>4. /\ call' \in [Calls -> CallStates] /\ call'[c] = new
      /\ \A d \in Calls : d # c => call'[d] = call[d]
  BY <1>1, <1>3, OneCallMoves
<1> QED BY <1>3, <1>4

\* What was collected becomes the acknowledgement of each row.
LEMMA CollectedEffect ==
    ASSUME TypeOK, NEW c \in Calls, Collected(c)
    PROVE  LET rows == call[c].hosts.rows \o call[c].services.rows IN
           /\ call' \in [Calls -> CallStates] /\ \A d \in Calls : d # c => call'[d] = call[d]
           /\ call[c].phase = "collecting" /\ call[c].hosts.over /\ call[c].services.over
           /\ call'[c].phase = IF rows = <<>> THEN "done" ELSE "gathering"
           /\ call'[c].req = call[c].req /\ call'[c].ok = call[c].ok
           /\ call'[c].hosts = call[c].hosts /\ call'[c].services = call[c].services
           /\ DOMAIN call'[c].cmds = DOMAIN rows /\ call'[c].todo = DOMAIN rows
           /\ \A i \in DOMAIN rows : rows[i] \in Objects /\ call'[c].cmds[i] = AckOf(rows[i])
           /\ Elements(rows) = Elements(call[c].hosts.rows) \cup Elements(call[c].services.rows)
<1> DEFINE rows == call[c].hosts.rows \o call[c].services.rows
           cmds == [i \in DOMAIN rows |-> AckOf(rows[i])]
           new == Posting(call[c], "gathering", cmds)
<1>1. call \in [Calls -> CallStates] /\ call[c] \in CallStates
  BY DEF TypeOK
<1>2. call[c].hosts.rows \in Seq(Objects) /\ call[c].services.rows \in Seq(Objects)
  BY <1>1 DEF CallStates, Readings
<1>3. /\ rows \in Seq(Objects)
      /\ Elements(rows) = Elements(call[c].hosts.rows) \cup Elements(call[c].services.rows)
  BY <1>2, ConcatProperties, ConcatElements
<1>4. /\ call[c].phase = "collecting" /\ call[c].hosts.over /\ call[c].services.over
      /\ Become(c, new)
  BY DEF Collected
<1> HIDE DEF rows
<1>5. \A i \in DOMAIN rows : rows[i] \in Objects
  BY <1>3, ElementOfSeq
<1>6. Len(rows) \in Nat /\ DOMAIN rows = 1..Len(rows) /\ (rows = <<>> <=> Len(rows) = 0)
  BY <1>3, LenProperties, EmptySeq
<1>7. cmds \in Seq(Commands) /\ DOMAIN cmds = DOMAIN rows /\ (cmds = <<>> <=> rows = <<>>)
  <2>1. cmds \in [1..Len(rows) -> Commands]
    BY <1>5, <1>6, AckType
  <2>2. cmds \in Seq(Commands) /\ Len(cmds) = Len(rows)
    BY <1>6, <2>1
  <2> QED BY <1>6, <2>1, <2>2, EmptySeq
<1>8. \A i \in DOMAIN rows : cmds[i] = AckOf(rows[i])
  OBVIOUS
<1> HIDE DEF cmds
<1>9. "gathering" \in Phases
  BY DEF Phases, BulkPhases
<1>10. /\ new \in CallStates /\ new.req = call[c].req /\ new.hosts = call[c].hosts
       /\ new.services = call[c].services /\ new.cmds = cmds /\ new.todo = DOMAIN cmds
       /\ new.ok = call[c].ok /\ new.phase = IF cmds = <<>> THEN "done" ELSE "gathering"
  BY <1>1, <1>7, <1>9, PostingType
<1> HIDE DEF new
<1>11. /\ call' \in [Calls -> CallStates] /\ call'[c] = new
       /\ \A d \in Calls : d # c => call'[d] = call[d]
  BY <1>1, <1>4, <1>10, OneCallMoves
<1> QED BY <1>3, <1>4, <1>5, <1>7, <1>8, <1>10, <1>11 DEF rows

\* A cascade that has listed the services of its host has a command for each.
LEMMA ListServicesEffect ==
    ASSUME TypeOK, NEW c \in Calls, ListServices(c), call[c].req \in Arguments
    PROVE  LET k == call[c] n == call'[c] IN
           /\ call' \in [Calls -> CallStates] /\ \A d \in Calls : d # c => call'[d] = call[d]
           /\ k.phase = "listing" /\ n.req = k.req
           /\ \/ /\ n.phase = "raised" /\ n.cmds = k.cmds /\ n.todo = k.todo /\ n.ok = k.ok
              \/ /\ n.phase \in {"spreading", "done"} /\ (n.phase = "done" => n.todo = {})
                 /\ n.todo = DOMAIN n.cmds /\ n.ok = {}
                 /\ \A i \in DOMAIN n.cmds : \E s \in Own(k.req) :
                       n.cmds[i] = Switch([k.req EXCEPT !.service = s])
                 /\ \A s \in Own(k.req) : \E i \in DOMAIN n.cmds :
                       n.cmds[i] = Switch([k.req EXCEPT !.service = s])
<1> DEFINE r == call[c].req
           own == InOrder(Own(r))
           cmds == [i \in DOMAIN own |-> Switch([r EXCEPT !.service = own[i]])]
           sent == Posting(call[c], "spreading", cmds)
           new == [sent EXCEPT !.ok = {}]
<1>1. call \in [Calls -> CallStates] /\ call[c] \in CallStates
  BY DEF TypeOK
<1>2. /\ call[c].phase = "listing"
      /\ Become(c, new) \/ Become(c, [call[c] EXCEPT !.phase = "raised"])
  BY DEF ListServices, Own
<1>3. CASE Become(c, [call[c] EXCEPT !.phase = "raised"])
  BY <1>2, <1>3, StopEffect
<1>4. CASE Become(c, new)
  <2>1. /\ own \in Seq(Own(r)) /\ Own(r) \subseteq Services /\ Own(r) \subseteq Objects
        /\ \A s \in Own(r) : own[Place(Own(r), s)] = s /\ Place(Own(r), s) \in DOMAIN own
    <3>1. Own(r) \subseteq Services /\ Own(r) \subseteq Objects
      BY DEF Own, Objects
    <3> QED BY <3>1, ListingIsComplete, PlaceIsRank
  <2> HIDE DEF own
  <2>2. /\ \A i \in DOMAIN own : own[i] \in Own(r)
        /\ Len(own) \in Nat /\ DOMAIN own = 1..Len(own)
    BY <2>1, ElementOfSeq, LenProperties
  <2> HIDE DEF r
  <2>3. \A i \in DOMAIN own : Switch([r EXCEPT !.service = own[i]]) \in Commands
    BY <2>1, <2>2, SwitchType DEF r
  <2>4. cmds \in [1..Len(own) -> Commands]
    BY <2>2, <2>3
  <2>5. cmds \in Seq(Commands) /\ DOMAIN cmds = DOMAIN own
    BY <2>2, <2>4
  <2>6. /\ \A i \in DOMAIN own : cmds[i] = Switch([r EXCEPT !.service = own[i]])
    OBVIOUS
  <2> HIDE DEF cmds
  <2>7. "spreading" \in Phases
    BY DEF Phases, OtherPhases
  <2>8. /\ sent \in CallStates /\ sent.req = r /\ sent.cmds = cmds /\ sent.todo = DOMAIN cmds
        /\ sent.phase = IF cmds = <<>> THEN "done" ELSE "spreading"
    BY <1>1, <2>5, <2>7, PostingType DEF r
  <2> HIDE DEF sent
  <2>9. /\ new \in CallStates /\ new.req = r /\ new.cmds = cmds /\ new.todo = DOMAIN cmds
        /\ new.phase = IF cmds = <<>> THEN "done" ELSE "spreading"
        /\ new.ok = {}
    BY <2>8 DEF CallStates
  <2>10. cmds = <<>> => DOMAIN cmds = {}
    OBVIOUS
  <2> HIDE DEF new
  <2>11. /\ call' \in [Calls -> CallStates] /\ call'[c] = new
         /\ \A d \in Calls : d # c => call'[d] = call[d]
    BY <1>1, <1>4, <2>9, OneCallMoves
  <2>12. \A i \in DOMAIN cmds : \E s \in Own(r) : cmds[i] = Switch([r EXCEPT !.service = s])
    BY <2>2, <2>5, <2>6
  <2>13. \A s \in Own(r) : \E i \in DOMAIN cmds : cmds[i] = Switch([r EXCEPT !.service = s])
    <3>1. ASSUME NEW s \in Own(r)
          PROVE  cmds[Place(Own(r), s)] = Switch([r EXCEPT !.service = s])
      BY <2>1, <2>6, <3>1
    <3> QED BY <2>1, <2>5, <3>1
  <2> QED BY <1>2, <2>9, <2>10, <2>11, <2>12, <2>13 DEF r
<1> QED BY <1>2, <1>3, <1>4
\* A command that returns or fails leaves the list of those still under way, and
\* all others as they are; the commands performed are recorded and stay so.
LEMMA CommandEffect ==
    ASSUME TypeOK, NEW c \in Calls, Answer(c) \/ Failure(c)
    PROVE  LET k == call[c] n == call'[c] IN
           /\ call' \in [Calls -> CallStates] /\ \A d \in Calls : d # c => call'[d] = call[d]
           /\ state' = state /\ Watch
           /\ n.req = k.req /\ n.cmds = k.cmds
           /\ n.hosts = k.hosts /\ n.services = k.services
           /\ applied \subseteq applied'
           /\ \E i \in k.todo :
                 /\ n.todo = k.todo \ {i}
                 /\ \A t \in applied' \ applied :
                       t[1] = c /\ t[3] \in Reach(k.cmds[i])
                 /\ \/ /\ n.ok = k.ok \cup {i}
                       /\ \A o \in Reach(k.cmds[i]) : <<c, k.cmds[i].act, o>> \in applied'
                       /\ k.phase = "leading" => n.phase = "listing"
                       /\ k.phase \notin {"leading", "raised"} /\ k.todo = {i} => n.phase = "done"
                       /\ k.phase # "leading" /\ (k.phase = "raised" \/ k.todo # {i}) => n.phase = k.phase
                    \/ /\ n.ok = k.ok
                       /\ k.phase # "gathering" => n.phase = "raised"
                       /\ k.phase = "gathering" /\ k.todo = {i} => n.phase = "done"
                       /\ k.phase = "gathering" /\ k.todo # {i} => n.phase = "gathering"
<1>1. call \in [Calls -> CallStates] /\ call[c] \in CallStates
  BY DEF TypeOK
<1>2. ASSUME NEW cmd, Perform(c, cmd)
      PROVE  /\ applied \subseteq applied'
             /\ \A t \in applied' \ applied : t[1] = c /\ t[3] \in Reach(cmd)
             /\ \A o \in Reach(cmd) : <<c, cmd.act, o>> \in applied'
  BY <1>2 DEF Perform
<1>3. CASE Answer(c)
  <2>1. PICK i \in call[c].todo : /\ Perform(c, call[c].cmds[i])
                                  /\ Become(c, AfterAnswer(call[c], i))
    BY <1>3 DEF Answer
  <2>2. state' = state /\ Watch
    BY <1>3 DEF Answer
  <2> DEFINE new == AfterAnswer(call[c], i)
  <2>3. /\ new \in CallStates
        /\ new.req = call[c].req /\ new.hosts = call[c].hosts
        /\ new.services = call[c].services /\ new.cmds = call[c].cmds
        /\ new.todo = call[c].todo \ {i} /\ new.ok = call[c].ok \cup {i}
        /\ call[c].phase = "leading" => new.phase = "listing"
        /\ call[c].phase \notin {"leading", "raised"} /\ call[c].todo = {i} => new.phase = "done"
        /\ call[c].phase # "leading" /\ (call[c].phase = "raised" \/ call[c].todo # {i})
              => new.phase = call[c].phase
    BY <1>1, AfterAnswerType
  <2> HIDE DEF new
  <2>4. /\ call' \in [Calls -> CallStates] /\ call'[c] = new
        /\ \A d \in Calls : d # c => call'[d] = call[d]
    BY <1>1, <2>1, <2>3, OneCallMoves DEF new
  <2> QED BY <1>2, <2>1, <2>2, <2>3, <2>4
<1>4. CASE Failure(c)
  <2>1. PICK i \in call[c].todo :
           /\ Perform(c, call[c].cmds[i]) \/ UNCHANGED <<applied, handled>>
           /\ Become(c, AfterFailure(call[c], i))
    BY <1>4 DEF Failure
  <2>2. state' = state /\ Watch
    BY <1>4 DEF Failure
  <2> DEFINE new == AfterFailure(call[c], i)
  <2>3. /\ new \in CallStates
        /\ new.req = call[c].req /\ new.hosts = call[c].hosts
        /\ new.services = call[c].services /\ new.cmds = call[c].cmds
        /\ new.todo = call[c].todo \ {i} /\ new.ok = call[c].ok
        /\ call[c].phase # "gathering" => new.phase = "raised"
        /\ call[c].phase = "gathering" /\ call[c].todo = {i} => new.phase = "done"
        /\ call[c].phase = "gathering" /\ call[c].todo # {i} => new.phase = "gathering"
    BY <1>1, AfterFailureType
  <2> HIDE DEF new
  <2>4. /\ call' \in [Calls -> CallStates] /\ call'[c] = new
        /\ \A d \in Calls : d # c => call'[d] = call[d]
    BY <1>1, <2>1, <2>3, OneCallMoves DEF new
  <2>5. /\ applied \subseteq applied'
        /\ \A t \in applied' \ applied : t[1] = c /\ t[3] \in Reach(call[c].cmds[i])
    BY <1>2, <2>1
  <2> QED BY <2>1, <2>2, <2>3, <2>4, <2>5
<1> QED BY <1>3, <1>4

\* What is watched while objects change: for the calls that are collecting, the
\* problems they asked for, and nothing for the others.
LEMMA WatchEffect ==
    ASSUME TypeOK, Watch, NEW c \in Calls
    PROVE  /\ steady' \in [Calls -> SUBSET Objects] /\ ever' \in [Calls -> SUBSET Objects]
           /\ call[c].phase # "collecting" => steady'[c] = steady[c] /\ ever'[c] = ever[c]
           /\ call[c].phase = "collecting" =>
                 /\ steady'[c] = steady[c] \cap Asked(call[c].req)'
                 /\ ever'[c] = ever[c] \cup Asked(call[c].req)'
                 /\ c \notin vanished' => Asked(call[c].req) \subseteq Asked(call[c].req)'
           /\ vanished \subseteq vanished'
<1>1. \A d \in Calls : Asked(call[d].req)' \subseteq Objects
  BY DEF Asked
<1>2. \A d \in Calls : steady[d] \subseteq Objects /\ ever[d] \subseteq Objects
  BY DEF TypeOK
<1> DEFINE collecting == {d \in Calls : call[d].phase = "collecting"}
           S(d) == IF d \in collecting THEN steady[d] \cap Asked(call[d].req)' ELSE steady[d]
           E(d) == IF d \in collecting THEN ever[d] \cup Asked(call[d].req)' ELSE ever[d]
<1>3. /\ steady' = [d \in Calls |-> S(d)] /\ ever' = [d \in Calls |-> E(d)]
      /\ vanished' = vanished \cup
            {d \in collecting : ~(Asked(call[d].req) \subseteq Asked(call[d].req)')}
  BY DEF Watch
<1>4. \A d \in Calls : S(d) \subseteq Objects /\ E(d) \subseteq Objects
  BY <1>1, <1>2
<1>5. /\ c \in collecting <=> call[c].phase = "collecting"
      /\ steady'[c] = S(c) /\ ever'[c] = E(c)
  BY <1>3
<1>6. steady' \in [Calls -> SUBSET Objects] /\ ever' \in [Calls -> SUBSET Objects]
  <2> HIDE DEF S, E
  <2> QED BY <1>3, <1>4
<1>7. c \in collecting /\ c \notin vanished' => Asked(call[c].req) \subseteq Asked(call[c].req)'
  BY <1>3
<1> QED BY <1>3, <1>5, <1>6, <1>7
----------------------------------------------------------------------------
(* Where a call is. *)

Where(k) ==
    /\ k.todo \subseteq DOMAIN k.cmds /\ k.ok \subseteq DOMAIN k.cmds
    /\ k.phase # "idle" =>
          /\ k.req \in Arguments
          /\ IF k.req.tool = "bulk_acknowledge" THEN k.phase \in BulkPhases
                                                ELSE k.phase \in OtherPhases
    /\ k.phase \in {"idle", "collecting", "listing", "done"} => k.todo = {}
    /\ k.phase \in {"idle", "collecting"} => DOMAIN k.cmds = {}
    /\ k.phase = "leading" => DOMAIN k.cmds = {1}
    /\ k.phase \in {"collecting", "gathering"} => ~Refused(k.req)
    /\ k.phase \in {"leading", "listing", "spreading"} => Cascades(k.req)
    /\ k.phase = "posting" => ~Cascades(k.req)

WhereInv == TypeOK /\ \A c \in Calls : Where(call[c])

\* At first no call has begun.
LEMMA WhereInit == Init => WhereInv
<1> SUFFICES ASSUME Init PROVE WhereInv
  OBVIOUS
<1>1. state \in [Objects -> Nat]
  BY WritesAssumption DEF Init
<1>2. Reading \in Readings
  <2>1. <<>> \in Seq(Objects)
    BY EmptySeq
  <2> QED BY <2>1 DEF Reading, Readings
<1>3. Idle \in CallStates
  <2>1. <<>> \in Seq(Commands)
    BY EmptySeq
  <2> QED BY <1>2, <2>1 DEF Idle, CallStates, Phases
<1>4. Where(Idle)
  <2>1. Idle.todo = {} /\ Idle.ok = {} /\ Idle.phase = "idle" /\ Idle.cmds = <<>>
    BY DEF Idle
  <2>2. DOMAIN <<>> = {}
    OBVIOUS
  <2> HIDE DEF Idle
  <2> QED BY <2>1, <2>2 DEF Where
<1>5. call \in [Calls -> CallStates] /\ \A c \in Calls : call[c] = Idle
  BY <1>3 DEF Init
<1> QED BY <1>1, <1>4, <1>5 DEF Init, WhereInv, TypeOK

\* Every step takes a call from one place to another that it may be in.
LEMMA WhereNext == WhereInv /\ [Next]_vars => WhereInv'
<1> SUFFICES ASSUME WhereInv, [Next]_vars PROVE WhereInv'
  OBVIOUS
<1> USE DEF WhereInv
<1>1. CASE UNCHANGED vars
  BY <1>1 DEF vars, TypeOK, Where
<1>2. CASE Change
  <2>1. PICK o \in Objects, s \in 0..2 : state' = [state EXCEPT ![o] = s]
    BY <1>2 DEF Change
  <2>2. state' \in [Objects -> Nat] /\ call' = call /\ Watch
    BY <1>2, <2>1 DEF Change, TypeOK
  <2>3. Calls # {} => steady' \in [Calls -> SUBSET Objects] /\ ever' \in [Calls -> SUBSET Objects]
    BY <2>2, WatchEffect
  <2>4. Calls = {} => steady' \in [Calls -> SUBSET Objects] /\ ever' \in [Calls -> SUBSET Objects]
    BY <2>2 DEF Watch
  <2> QED BY <2>2, <2>3, <2>4 DEF TypeOK, Where
<1>3. ASSUME NEW c \in Calls, Step(c)
      PROVE  WhereInv'
  <2>1. SUFFICES /\ TypeOK' /\ Where(call'[c])
                 /\ \A d \in Calls : d # c => call'[d] = call[d]
    BY DEF Where
  <2> DEFINE k == call[c]
             n == call'[c]
  <2>2. Where(k) /\ call[c].phase \in Phases
    BY DEF TypeOK, CallStates
  <2>3. CASE Begin(c)
    <3>1. /\ state' = state /\ call' \in [Calls -> CallStates]
          /\ \A d \in Calls : d # c => call'[d] = call[d]
          /\ n.req \in Arguments /\ n.ok = {}
      BY <2>3, BeginEffect DEF Begin
    <3>2. CASE /\ n.req.tool = "bulk_acknowledge"
               /\ n.cmds = <<>> /\ n.todo = {}
               /\ n.phase = IF Refused(n.req) THEN "done" ELSE "collecting"
               /\ steady' = [steady EXCEPT ![c] = IF Refused(n.req) THEN {} ELSE Asked(n.req)]
               /\ ever' = [ever EXCEPT ![c] = IF Refused(n.req) THEN {} ELSE Asked(n.req)]
      <4>1. (IF Refused(n.req) THEN {} ELSE Asked(n.req)) \in SUBSET Objects
        BY DEF Asked
      <4>2. TypeOK'
        BY <3>1, <3>2, <4>1 DEF TypeOK
      <4>3. DOMAIN <<>> = {}
        OBVIOUS
      <4>4. Where(n)
        BY <3>1, <3>2, <4>3 DEF Where, BulkPhases
      <4> QED BY <3>1, <4>2, <4>4
    <3>3. CASE /\ n.req.tool # "bulk_acknowledge"
               /\ n.cmds = <<Single(n.req)>> /\ n.todo = {1}
               /\ n.phase = IF Cascades(n.req) THEN "leading" ELSE "posting"
               /\ UNCHANGED <<steady, ever>>
      <4>1. TypeOK'
        BY <3>1, <3>3 DEF TypeOK
      <4>2. DOMAIN n.cmds = {1}
        BY <3>3
      <4>3. Where(n)
        BY <3>1, <3>3, <4>2 DEF Where, OtherPhases
      <4> QED BY <3>1, <4>1, <4>3
    <3> HIDE DEF n
    <3> QED BY <2>3, <3>2, <3>3, BeginEffect DEF n
  <2>4. CASE PageFails(c) \/ \E kind \in {"hosts", "services"} : Page(c, kind)
    <3>1. /\ state' = state /\ steady' = steady /\ ever' = ever
          /\ call' \in [Calls -> CallStates] /\ \A d \in Calls : d # c => call'[d] = call[d]
          /\ k.phase = "collecting" /\ n.phase \in {"collecting", "raised"}
          /\ n.req = k.req /\ n.cmds = k.cmds /\ n.todo = k.todo /\ n.ok = k.ok
      BY <2>4, StopEffect, PageEffect DEF PageFails, Page, history
    <3>2. TypeOK'
      BY <3>1 DEF TypeOK
    <3>3. Where(n)
      BY <2>2, <3>1 DEF Where, BulkPhases, OtherPhases
    <3> QED BY <3>1, <3>2, <3>3
  <2>5. CASE Collected(c)
    <3>1. /\ state' = state /\ steady' = steady /\ ever' = ever
          /\ call' \in [Calls -> CallStates] /\ \A d \in Calls : d # c => call'[d] = call[d]
          /\ k.phase = "collecting" /\ n.phase \in {"gathering", "done"}
          /\ n.req = k.req /\ n.todo = DOMAIN n.cmds /\ n.ok = k.ok
          /\ n.phase = "done" => DOMAIN n.cmds = {}
      <4>1. DOMAIN <<>> = {}
        OBVIOUS
      <4> QED BY <2>5, <4>1, CollectedEffect DEF Collected, history
    <3>2. TypeOK'
      BY <3>1 DEF TypeOK
    <3>3. Where(n)
      BY <2>2, <3>1 DEF Where, BulkPhases, OtherPhases
    <3> QED BY <3>1, <3>2, <3>3
  <2>6. CASE ListServices(c)
    <3>1. k.phase = "listing" /\ k.req \in Arguments /\ k.req.tool # "bulk_acknowledge"
      BY <2>2, <2>6 DEF ListServices, Where, BulkPhases
    <3>2. /\ state' = state /\ steady' = steady /\ ever' = ever
          /\ call' \in [Calls -> CallStates] /\ \A d \in Calls : d # c => call'[d] = call[d]
          /\ n.req = k.req
          /\ \/ n.phase = "raised" /\ n.cmds = k.cmds /\ n.todo = k.todo /\ n.ok = k.ok
             \/ /\ n.phase \in {"spreading", "done"} /\ (n.phase = "done" => n.todo = {})
                /\ n.todo = DOMAIN n.cmds /\ n.ok = {}
      BY <2>6, <3>1, ListServicesEffect DEF ListServices, history
    <3>3. TypeOK'
      BY <3>2 DEF TypeOK
    <3>4. Where(n)
      BY <2>2, <3>1, <3>2 DEF Where, OtherPhases
    <3> QED BY <3>2, <3>3, <3>4
  <2>7. CASE Answer(c) \/ Failure(c)
    <3>1. PICK i \in k.todo :
             /\ n.todo = k.todo \ {i}
             /\ n.ok \subseteq k.ok \cup {i}
             /\ \/ k.phase = "leading" /\ n.phase = "listing"
                \/ k.phase \notin {"leading", "raised"} /\ k.todo = {i} /\ n.phase = "done"
                \/ k.phase # "leading" /\ (k.phase = "raised" \/ k.todo # {i}) /\ n.phase = k.phase
                \/ k.phase # "gathering" /\ n.phase = "raised"
      BY <2>7, CommandEffect
    <3>2. /\ state' = state /\ Watch /\ n.req = k.req /\ n.cmds = k.cmds
          /\ call' \in [Calls -> CallStates] /\ \A d \in Calls : d # c => call'[d] = call[d]
      BY <2>7, CommandEffect
    <3>3. TypeOK'
      BY <3>2, WatchEffect DEF TypeOK
    <3>4. k.phase = "leading" => k.todo = {i}
      BY <2>2, <3>1 DEF Where
    <3>5. Where(n)
      BY <2>2, <3>1, <3>2, <3>4 DEF Where, BulkPhases, OtherPhases
    <3> QED BY <3>2, <3>3, <3>5
  <2> QED BY <1>3, <2>3, <2>4, <2>5, <2>6, <2>7 DEF Step
<1> QED BY <1>1, <1>2, <1>3 DEF Next
----------------------------------------------------------------------------
(* What a call aims at. *)

\* The commands of a call are about what it is to act on; bulk_acknowledge takes
\* its targets from what has been a problem while it collects.
Aimed(c) == LET k == call[c] IN
    /\ k.phase # "idle" =>
          IF Bulk(c) THEN \A i \in DOMAIN k.cmds : \E o \in ever[c] : k.cmds[i] = AckOf(o)
                     ELSE \A i \in DOMAIN k.cmds : Reach(k.cmds[i]) \subseteq Promised(k.req)
    /\ k.phase = "collecting" =>
          /\ Asked(k.req) \subseteq ever[c]
          /\ Elements(k.hosts.rows) \subseteq ever[c]
          /\ Elements(k.services.rows) \subseteq ever[c]

Performed == \A t \in applied :
    /\ t[1] \in Calls /\ call[t[1]].phase # "idle"
    /\ t[3] \in IF Bulk(t[1]) THEN ever[t[1]] ELSE Promised(call[t[1]].req)

AimInv == Performed /\ \A c \in Calls : Aimed(c)

\* What has been performed stays within bounds that only grow.
LEMMA PerformedStays ==
    ASSUME Performed, applied' = applied,
           \A d \in Calls : call[d].phase # "idle" =>
              call'[d].phase # "idle" /\ call'[d].req = call[d].req /\ ever[d] \subseteq ever'[d]
    PROVE  Performed'
BY DEF Performed, Bulk

\* A call that does nothing itself keeps its aim while objects change.
LEMMA AimWatched ==
    ASSUME WhereInv, Watch, NEW c \in Calls, Aimed(c), call'[c] = call[c]
    PROVE  Aimed(c)' /\ ever[c] \subseteq ever'[c]
<1>1. /\ call[c].phase # "collecting" => ever'[c] = ever[c]
      /\ call[c].phase = "collecting" => ever'[c] = ever[c] \cup Asked(call[c].req)'
  BY WatchEffect DEF WhereInv
<1>2. ever[c] \subseteq ever'[c]
  BY <1>1
<1>3. call[c].phase = "collecting" => Asked(call[c].req)' \subseteq ever'[c]
  BY <1>1
<1> HIDE DEF Watch
<1>4. (IF Bulk(c) THEN \A i \in DOMAIN call[c].cmds : \E o \in ever[c] : call[c].cmds[i] = AckOf(o)
                  ELSE \A i \in DOMAIN call[c].cmds : Reach(call[c].cmds[i]) \subseteq Promised(call[c].req))
      => (IF Bulk(c) THEN \A i \in DOMAIN call[c].cmds : \E o \in ever'[c] : call[c].cmds[i] = AckOf(o)
                     ELSE \A i \in DOMAIN call[c].cmds : Reach(call[c].cmds[i]) \subseteq Promised(call[c].req))
  BY <1>2
<1> QED BY <1>2, <1>3, <1>4 DEF Aimed, Bulk

\* At first nothing is aimed at.
LEMMA AimInit == Init => AimInv
<1> SUFFICES ASSUME Init PROVE AimInv
  OBVIOUS
<1>1. \A c \in Calls : call[c].phase = "idle"
  BY DEF Init, Idle
<1> QED BY <1>1 DEF Init, AimInv, Performed, Aimed

\* Every step keeps the aim: a command is only ever made from a request or a row.
LEMMA AimNext == WhereInv /\ AimInv /\ [Next]_vars => AimInv'
<1> SUFFICES ASSUME WhereInv, AimInv, [Next]_vars PROVE AimInv'
  OBVIOUS
<1> USE DEF AimInv
<1>1. CASE UNCHANGED vars
  BY <1>1 DEF vars, Aimed, Performed, Bulk, Asked
<1>2. CASE Change
  <2>1. call' = call /\ applied' = applied /\ Watch
    BY <1>2 DEF Change
  <2>2. \A d \in Calls : Aimed(d)' /\ ever[d] \subseteq ever'[d]
    BY <2>1, AimWatched
  <2> QED BY <2>1, <2>2, PerformedStays
<1>3. ASSUME NEW c \in Calls, Step(c)
      PROVE  AimInv'
  <2> DEFINE k == call[c]
             n == call'[c]
  <2>1. TypeOK /\ Where(k) /\ Aimed(c)
    BY DEF WhereInv
  \* Steps that change no object.
  <2>2. ASSUME UNCHANGED <<state, handled, applied>>,
               \A d \in Calls : d # c => call'[d] = call[d] /\ ever'[d] = ever[d],
               k.phase = "idle" \/ (n.req = k.req /\ ever'[c] = ever[c] /\ n.phase # "idle"),
               Aimed(c)'
        PROVE  AimInv'
    <3>1. \A d \in Calls : d # c => Aimed(d)'
      BY <2>2 DEF Aimed, Bulk, Asked
    <3>2. \A d \in Calls : call[d].phase # "idle" =>
             call'[d].phase # "idle" /\ call'[d].req = call[d].req /\ ever[d] \subseteq ever'[d]
      BY <2>2
    <3> QED BY <2>2, <3>1, <3>2, PerformedStays
  <2>3. CASE Begin(c)
    <3>1. /\ UNCHANGED <<state, handled, applied>> /\ k.phase = "idle"
          /\ \A d \in Calls : d # c => call'[d] = call[d]
          /\ n.req \in Arguments
      BY <2>1, <2>3, BeginEffect DEF Begin
    <3>2. CASE /\ n.req.tool = "bulk_acknowledge"
               /\ n.cmds = <<>>
               /\ n.phase = IF Refused(n.req) THEN "done" ELSE "collecting"
               /\ n.hosts = [rows |-> <<>>, offset |-> 0, over |-> SkipHosts(n.req)]
               /\ n.services = [rows |-> <<>>, offset |-> 0, over |-> SkipServices(n.req)]
               /\ ever' = [ever EXCEPT ![c] = IF Refused(n.req) THEN {} ELSE Asked(n.req)]
      <4>1. \A d \in Calls : d # c => ever'[d] = ever[d]
        BY <3>2
      <4>2. n.phase = "collecting" => ever'[c] = Asked(n.req)
        BY <2>1, <3>2 DEF TypeOK
      <4>3. Asked(call[c].req)' = Asked(n.req)
        BY <3>1 DEF Asked
      <4>4. DOMAIN n.cmds = {} /\ Elements(n.hosts.rows) = {} /\ Elements(n.services.rows) = {}
        <5>1. n.hosts.rows = <<>> /\ n.services.rows = <<>> /\ DOMAIN <<>> = {}
          BY <3>2
        <5> QED BY <3>2, <5>1 DEF Elements
      <4>5. Aimed(c)'
        BY <4>2, <4>3, <4>4 DEF Aimed
      <4> QED BY <2>2, <3>1, <4>1, <4>5
    <3>3. CASE /\ n.req.tool # "bulk_acknowledge"
               /\ n.cmds = <<Single(n.req)>>
               /\ n.phase = IF Cascades(n.req) THEN "leading" ELSE "posting"
               /\ ever' = ever
      <4>1. Reach(Single(n.req)) \subseteq Promised(n.req)
        BY <3>1, <3>3, SingleReaches, CascadeReaches
      <4>2. \A i \in DOMAIN n.cmds : n.cmds[i] = Single(n.req)
        BY <3>3
      <4>3. n.phase # "collecting" /\ ~Bulk(c)'
        BY <3>3 DEF Bulk
      <4>4. Aimed(c)'
        BY <4>1, <4>2, <4>3 DEF Aimed
      <4> QED BY <2>2, <3>1, <3>3, <4>4
    <3> HIDE DEF n
    <3> QED BY <2>1, <2>3, <3>2, <3>3, BeginEffect DEF n
  <2>4. ASSUME NEW kind \in {"hosts", "services"}, Page(c, kind)
        PROVE  AimInv'
    <3>1. /\ UNCHANGED <<state, handled, applied, ever>> /\ k.phase = "collecting"
          /\ \A d \in Calls : d # c => call'[d] = call[d]
          /\ n.req = k.req /\ n.phase = k.phase /\ n.cmds = k.cmds
          /\ n[kind] = NextPage(k[kind], Rows(k.req, kind))
          /\ \A other \in {"hosts", "services"} : other # kind => n[other] = k[other]
          /\ k.hosts \in Readings /\ k.services \in Readings
      BY <2>1, <2>4, PageEffect DEF Page, history
    <3>2. Problems(k.req) = Asked(k.req)
      BY <2>1, <3>1, AskedAreProblems DEF Where, TypeOK
    <3>3. /\ Asked(k.req) \subseteq ever[c]
          /\ Elements(k.hosts.rows) \subseteq ever[c]
          /\ Elements(k.services.rows) \subseteq ever[c]
      BY <2>1, <3>1 DEF Aimed
    <3>4. Elements(n[kind].rows) \subseteq ever[c]
      <4> DEFINE S == Problems(k.req) \cap Kind(kind)
      <4>1. S \subseteq Objects /\ S \subseteq ever[c] /\ k[kind] \in Readings
        BY <3>1, <3>2, <3>3 DEF Problems
      <4>2. n[kind] = NextPage(k[kind], InOrder(S))
        BY <3>1 DEF Rows
      <4> HIDE DEF S
      <4>3. Elements(n[kind].rows) \subseteq Elements(k[kind].rows) \cup S
        BY <4>1, <4>2, NextPageProperties
      <4>4. Elements(k[kind].rows) \subseteq ever[c]
        BY <3>3
      <4> QED BY <4>1, <4>3, <4>4
    <3>5. Elements(n.hosts.rows) \subseteq ever[c] /\ Elements(n.services.rows) \subseteq ever[c]
      BY <3>1, <3>3, <3>4
    <3>6. Asked(call[c].req)' = Asked(k.req)
      BY <3>1 DEF Asked
    <3>7. Aimed(c)'
      BY <2>1, <3>1, <3>3, <3>5, <3>6 DEF Aimed, Bulk
    <3> QED BY <2>2, <3>1, <3>7
  <2>5. CASE PageFails(c)
    <3>1. /\ UNCHANGED <<state, handled, applied, ever>> /\ k.phase = "collecting"
          /\ \A d \in Calls : d # c => call'[d] = call[d]
          /\ n.req = k.req /\ n.phase = "raised" /\ n.cmds = k.cmds
      BY <2>1, <2>5, StopEffect DEF PageFails, history
    <3>2. Aimed(c)'
      BY <2>1, <3>1 DEF Aimed, Bulk
    <3> QED BY <2>2, <3>1, <3>2
  <2>6. CASE Collected(c)
    <3> DEFINE rows == k.hosts.rows \o k.services.rows
    <3>1. /\ UNCHANGED <<state, handled, applied, ever>> /\ k.phase = "collecting"
          /\ \A d \in Calls : d # c => call'[d] = call[d]
          /\ n.req = k.req /\ n.phase \in {"gathering", "done"}
          /\ DOMAIN n.cmds = DOMAIN rows
          /\ \A i \in DOMAIN rows : n.cmds[i] = AckOf(rows[i])
          /\ Elements(rows) = Elements(k.hosts.rows) \cup Elements(k.services.rows)
      BY <2>1, <2>6, CollectedEffect DEF Collected, history
    <3> HIDE DEF rows
    <3>2. Elements(rows) \subseteq ever[c]
      BY <2>1, <3>1 DEF Aimed
    <3>3. \A i \in DOMAIN n.cmds : \E o \in ever[c] : n.cmds[i] = AckOf(o)
      BY <3>1, <3>2 DEF Elements
    <3>4. k.req.tool = "bulk_acknowledge"
      BY <2>1, <3>1 DEF Where, OtherPhases
    <3>5. Aimed(c)'
      BY <3>1, <3>3, <3>4 DEF Aimed, Bulk
    <3> QED BY <2>2, <3>1, <3>5
  <2>7. CASE ListServices(c)
    <3>1. k.phase = "listing" /\ k.req \in Arguments /\ k.req.tool # "bulk_acknowledge" /\ Cascades(k.req)
      BY <2>1, <2>7 DEF ListServices, Where, BulkPhases
    <3>2. /\ UNCHANGED <<state, handled, applied, ever>>
          /\ \A d \in Calls : d # c => call'[d] = call[d]
          /\ n.req = k.req /\ n.phase \in {"raised", "spreading", "done"}
          /\ \/ n.cmds = k.cmds
             \/ \A i \in DOMAIN n.cmds : \E s \in Own(k.req) :
                   n.cmds[i] = Switch([k.req EXCEPT !.service = s])
      BY <2>1, <2>7, <3>1, ListServicesEffect DEF ListServices, history
    <3>3. \A s \in Own(k.req) :
             Reach(Switch([k.req EXCEPT !.service = s])) \subseteq Promised(k.req)
      BY <3>1, CascadeReaches
    <3>4. \A i \in DOMAIN n.cmds : Reach(n.cmds[i]) \subseteq Promised(k.req)
      <4>1. CASE n.cmds = k.cmds
        BY <2>1, <3>1, <4>1 DEF Aimed, Bulk
      <4>2. CASE \A i \in DOMAIN n.cmds : \E s \in Own(k.req) :
                   n.cmds[i] = Switch([k.req EXCEPT !.service = s])
        BY <3>3, <4>2
      <4> QED BY <3>2, <4>1, <4>2
    <3>5. Aimed(c)'
      BY <3>1, <3>2, <3>4 DEF Aimed, Bulk
    <3> QED BY <2>2, <3>1, <3>2, <3>5
  <2>8. CASE Answer(c) \/ Failure(c)
    <3>1. PICK i \in k.todo :
             /\ n.phase = k.phase \/ n.phase \in {"listing", "done", "raised", "gathering"}
             /\ \A t \in applied' \ applied : t[1] = c /\ t[3] \in Reach(k.cmds[i])
      BY <2>1, <2>8, CommandEffect
    <3>2. /\ Watch /\ n.req = k.req /\ n.cmds = k.cmds
          /\ \A d \in Calls : d # c => call'[d] = call[d]
      BY <2>1, <2>8, CommandEffect
    <3>3. i \in DOMAIN k.cmds /\ k.phase \notin {"idle", "collecting"}
      BY <2>1, <3>1 DEF Where
    <3>4. ever'[c] = ever[c]
      BY <2>1, <3>2, <3>3, WatchEffect
    <3>5. n.phase \notin {"idle", "collecting"}
      BY <3>1, <3>3
    <3>6. Aimed(c)'
      BY <2>1, <3>2, <3>3, <3>4, <3>5 DEF Aimed, Bulk
    <3>7. \A d \in Calls : Aimed(d)' /\ ever[d] \subseteq ever'[d]
      BY <3>2, <3>4, <3>6, AimWatched
    <3>8. Reach(k.cmds[i]) \subseteq IF Bulk(c) THEN ever[c] ELSE Promised(k.req)
      <4>1. CASE Bulk(c)
        <5>1. PICK o \in ever[c] : k.cmds[i] = AckOf(o)
          BY <2>1, <3>3, <4>1 DEF Aimed
        <5>2. o \in Objects
          BY <2>1 DEF TypeOK
        <5> QED BY <4>1, <5>1, <5>2, AckReachesOne
      <4>2. CASE ~Bulk(c)
        BY <2>1, <3>3, <4>2 DEF Aimed
      <4> QED BY <4>1, <4>2
    <3>9. ASSUME NEW t \in applied'
          PROVE  /\ t[1] \in Calls /\ call'[t[1]].phase # "idle"
                 /\ t[3] \in IF Bulk(t[1])' THEN ever'[t[1]] ELSE Promised(call'[t[1]].req)
      <4>1. CASE t \in applied
        <5>1. t[1] \in Calls /\ call[t[1]].phase # "idle"
          BY <4>1 DEF Performed
        <5>2. t[3] \in IF Bulk(t[1]) THEN ever[t[1]] ELSE Promised(call[t[1]].req)
          BY <4>1 DEF Performed
        <5>3. call'[t[1]].phase # "idle" /\ call'[t[1]].req = call[t[1]].req
          BY <3>2, <3>5, <5>1
        <5>4. ever[t[1]] \subseteq ever'[t[1]]
          BY <3>7, <5>1
        <5> QED BY <5>1, <5>2, <5>3, <5>4 DEF Bulk
      <4>2. CASE t \notin applied
        <5>1. t[1] = c /\ t[3] \in Reach(k.cmds[i])
          BY <3>1, <4>2
        <5> QED BY <3>2, <3>4, <3>5, <3>8, <5>1 DEF Bulk
      <4> QED BY <4>1, <4>2
    <3>10. Performed'
      BY <3>9 DEF Performed
    <3> QED BY <3>7, <3>10
  <2> QED BY <1>3, <2>3, <2>4, <2>5, <2>6, <2>7, <2>8 DEF Step
<1> QED BY <1>1, <1>2, <1>3 DEF Next
----------------------------------------------------------------------------
(* What a call has done. *)

\* An answered command has taken effect, and a call that has not failed accounts
\* for every command it is to send.
Accounts(c) == LET k == call[c] IN
    /\ \A i \in k.ok : \A o \in Reach(k.cmds[i]) : <<c, k.cmds[i].act, o>> \in applied
    /\ k.phase # "idle" /\ ~Bulk(c) =>
          /\ k.phase \in {"posting", "leading", "spreading", "done"} =>
                k.todo \cup k.ok = DOMAIN k.cmds
          /\ k.phase \in {"posting", "leading", "done"} /\ (Cascades(k.req) => k.phase = "leading") =>
                k.cmds = <<Single(k.req)>>
          /\ k.phase \in {"spreading", "done"} /\ Cascades(k.req) =>
                \A s \in Own(k.req) : \E i \in DOMAIN k.cmds : s \in Reach(k.cmds[i])

\* A cascade has reached its host, or nothing yet and nothing after a failure.
Led(c) == LET k == call[c] IN
    k.phase # "idle" /\ Cascades(k.req) =>
        \/ \E t \in applied : t[1] = c /\ t[3] = k.req.host
        \/ /\ \A t \in applied : t[1] # c
           /\ k.phase = "leading" \/ (k.phase = "raised" /\ k.todo = {})

DoneInv == \A c \in Calls : Accounts(c) /\ Led(c)

\* At first there is nothing to account for.
LEMMA DoneInit == Init => DoneInv
<1> SUFFICES ASSUME Init, NEW c \in Calls PROVE Accounts(c) /\ Led(c)
  BY DEF DoneInv
<1>1. call[c].phase = "idle" /\ call[c].ok = {}
  BY DEF Init, Idle
<1> QED BY <1>1 DEF Accounts, Led

\* A call that does nothing itself keeps its account, whatever others do.
LEMMA DoneStays ==
    ASSUME NEW c \in Calls, Accounts(c), Led(c), call'[c] = call[c],
           applied \subseteq applied', \A t \in applied' \ applied : t[1] # c
    PROVE  Accounts(c)' /\ Led(c)'
<1>1. Accounts(c)'
  BY DEF Accounts, Bulk
<1>2. Led(c)'
  BY DEF Led
<1> QED BY <1>1, <1>2

\* Every step keeps the accounts: an answer enters what has been performed.
LEMMA DoneNext == WhereInv /\ AimInv /\ DoneInv /\ [Next]_vars => DoneInv'
<1> SUFFICES ASSUME WhereInv, AimInv, DoneInv, [Next]_vars PROVE DoneInv'
  OBVIOUS
<1> USE DEF DoneInv
<1>1. CASE UNCHANGED vars
  BY <1>1, DoneStays DEF vars
<1>2. CASE Change
  BY <1>2, DoneStays DEF Change
<1>3. ASSUME NEW c \in Calls, Step(c)
      PROVE  DoneInv'
  <2> DEFINE k == call[c]
             n == call'[c]
  <2>1. TypeOK /\ Where(k) /\ Accounts(c) /\ Led(c)
    BY DEF WhereInv
  <2>2. ASSUME \A d \in Calls : d # c => call'[d] = call[d],
               applied \subseteq applied', \A t \in applied' \ applied : t[1] = c,
               Accounts(c)', Led(c)'
        PROVE  DoneInv'
    BY <2>2, DoneStays
  <2>3. CASE Begin(c)
    <3>1. /\ applied' = applied /\ k.phase = "idle" /\ n.ok = {}
          /\ \A d \in Calls : d # c => call'[d] = call[d]
          /\ n.req \in Arguments
          /\ \/ n.req.tool = "bulk_acknowledge"
             \/ /\ n.req.tool # "bulk_acknowledge"
                /\ n.cmds = <<Single(n.req)>> /\ n.todo = {1}
                /\ n.phase = IF Cascades(n.req) THEN "leading" ELSE "posting"
      BY <2>1, <2>3, BeginEffect DEF Begin
    <3>2. CASE n.req.tool = "bulk_acknowledge"
      <4>1. ~Cascades(n.req)
        BY <3>2 DEF Cascades
      <4> QED BY <2>2, <3>1, <3>2, <4>1 DEF Accounts, Led, Bulk
    <3>3. CASE /\ n.req.tool # "bulk_acknowledge"
               /\ n.cmds = <<Single(n.req)>> /\ n.todo = {1}
               /\ n.phase = IF Cascades(n.req) THEN "leading" ELSE "posting"
      <4>1. DOMAIN n.cmds = {1}
        BY <3>3
      <4>2. Accounts(c)'
        BY <3>1, <3>3, <4>1 DEF Accounts, Bulk
      <4>3. \A t \in applied : t[1] # c
        BY <3>1 DEF AimInv, Performed
      <4>4. Led(c)'
        BY <3>1, <3>3, <4>3 DEF Led
      <4> QED BY <2>2, <3>1, <4>2, <4>4
    <3> QED BY <3>1, <3>2, <3>3
  \* Collecting sends nothing and belongs to no cascade.
  <2>4. CASE PageFails(c) \/ Collected(c) \/ \E kind \in {"hosts", "services"} : Page(c, kind)
    <3>1. /\ applied' = applied /\ k.phase = "collecting"
          /\ \A d \in Calls : d # c => call'[d] = call[d]
          /\ n.req = k.req /\ n.ok = k.ok
      BY <2>1, <2>4, StopEffect, PageEffect, CollectedEffect DEF PageFails, Page, Collected
    <3>2. k.ok = {} /\ k.req.tool = "bulk_acknowledge"
      BY <2>1, <3>1 DEF Where, OtherPhases
    <3>3. ~Cascades(k.req)
      BY <3>2 DEF Cascades
    <3>4. Accounts(c)'
      BY <3>1, <3>2 DEF Accounts, Bulk
    <3>5. Led(c)'
      BY <3>1, <3>3 DEF Led
    <3> QED BY <2>2, <3>1, <3>4, <3>5
  <2>5. CASE ListServices(c)
    <3>1. k.phase = "listing" /\ k.req \in Arguments /\ k.req.tool # "bulk_acknowledge" /\ Cascades(k.req)
      BY <2>1, <2>5 DEF ListServices, Where, BulkPhases
    <3>2. applied' = applied /\ n.req = k.req /\ \A d \in Calls : d # c => call'[d] = call[d]
      BY <2>1, <2>5, <3>1, ListServicesEffect DEF ListServices
    <3>3. \/ n.phase = "raised" /\ n.cmds = k.cmds /\ n.ok = k.ok
          \/ /\ n.phase \in {"spreading", "done"}
             /\ n.todo = DOMAIN n.cmds /\ n.ok = {}
             /\ \A s \in Own(k.req) : \E i \in DOMAIN n.cmds :
                   n.cmds[i] = Switch([k.req EXCEPT !.service = s])
      BY <2>1, <2>5, <3>1, ListServicesEffect
    <3>4. Led(c)'
      BY <2>1, <3>1, <3>2 DEF Led
    <3>5. CASE n.phase = "raised" /\ n.cmds = k.cmds /\ n.ok = k.ok
      <4>1. Accounts(c)'
        BY <2>1, <3>2, <3>5 DEF Accounts, Bulk
      <4> QED BY <2>2, <3>2, <3>4, <4>1
    <3>6. CASE /\ n.phase \in {"spreading", "done"}
               /\ n.todo = DOMAIN n.cmds /\ n.ok = {}
               /\ \A s \in Own(k.req) : \E i \in DOMAIN n.cmds :
                     n.cmds[i] = Switch([k.req EXCEPT !.service = s])
      <4>1. \A s \in Own(k.req) : \E i \in DOMAIN n.cmds : s \in Reach(n.cmds[i])
        BY <3>1, <3>6, CascadeReaches
      <4>2. Accounts(c)'
        BY <3>1, <3>2, <3>6, <4>1 DEF Accounts, Bulk
      <4> QED BY <2>2, <3>2, <3>4, <4>2
    <3> QED BY <3>3, <3>5, <3>6
  <2>6. CASE Answer(c) \/ Failure(c)
    <3>1. /\ n.req = k.req /\ n.cmds = k.cmds /\ applied \subseteq applied'
          /\ \A d \in Calls : d # c => call'[d] = call[d]
      BY <2>1, <2>6, CommandEffect
    <3>2. PICK i \in k.todo :
             /\ n.todo = k.todo \ {i}
             /\ \A t \in applied' \ applied : t[1] = c /\ t[3] \in Reach(k.cmds[i])
             /\ \/ /\ n.ok = k.ok \cup {i}
                   /\ \A o \in Reach(k.cmds[i]) : <<c, k.cmds[i].act, o>> \in applied'
                   /\ k.phase = "leading" => n.phase = "listing"
                   /\ k.phase \notin {"leading", "raised"} /\ k.todo = {i} => n.phase = "done"
                   /\ k.phase # "leading" /\ (k.phase = "raised" \/ k.todo # {i}) => n.phase = k.phase
                \/ /\ n.ok = k.ok
                   /\ k.phase # "gathering" => n.phase = "raised"
                   /\ k.phase = "gathering" /\ k.todo = {i} => n.phase = "done"
                   /\ k.phase = "gathering" /\ k.todo # {i} => n.phase = "gathering"
      BY <2>1, <2>6, CommandEffect
    <3>3. i \in DOMAIN k.cmds /\ k.phase \notin {"idle", "collecting", "listing", "done"}
      BY <2>1, <3>2 DEF Where
    <3>4. \A j \in n.ok : \A o \in Reach(n.cmds[j]) : <<c, n.cmds[j].act, o>> \in applied'
      BY <2>1, <3>1, <3>2 DEF Accounts
    <3>5. Accounts(c)'
      <4>1. CASE Bulk(c)
        BY <3>1, <3>4, <4>1 DEF Accounts, Bulk
      <4>2. CASE ~Bulk(c)
        <5>1. k.phase \in {"posting", "leading", "spreading", "raised"}
          BY <2>1, <3>3, <4>2 DEF Where, Bulk, OtherPhases
        <5>2. n.phase \in {"posting", "leading", "spreading", "done"} =>
                 /\ n.todo \cup n.ok = DOMAIN n.cmds
                 /\ k.phase \in {"posting", "spreading"}
                 /\ n.phase \in {k.phase, "done"}
          <6>1. n.phase \in {"posting", "leading", "spreading", "done"} =>
                   /\ n.ok = k.ok \cup {i} /\ k.phase \in {"posting", "spreading"}
                   /\ n.phase \in {k.phase, "done"}
            BY <3>2, <5>1
          <6>2. k.phase \in {"posting", "spreading"} => k.todo \cup k.ok = DOMAIN k.cmds
            BY <2>1, <4>2 DEF Accounts
          <6> QED BY <3>1, <3>2, <6>1, <6>2
        <5>3. /\ k.phase = "posting" => ~Cascades(k.req) /\ k.cmds = <<Single(k.req)>>
              /\ k.phase = "spreading" =>
                    /\ Cascades(k.req)
                    /\ \A s \in Own(k.req) : \E j \in DOMAIN k.cmds : s \in Reach(k.cmds[j])
          BY <2>1, <4>2 DEF Where, Accounts
        <5> QED BY <3>1, <3>4, <5>2, <5>3 DEF Accounts, Bulk
      <4> QED BY <4>1, <4>2
    <3>6. Led(c)'
      <4>1. SUFFICES ASSUME Cascades(k.req)
                     PROVE  \/ \E t \in applied' : t[1] = c /\ t[3] = k.req.host
                            \/ /\ \A t \in applied' : t[1] # c
                               /\ n.phase = "raised" /\ n.todo = {}
        BY <3>1 DEF Led
      <4>2. CASE \E t \in applied : t[1] = c /\ t[3] = k.req.host
        BY <3>1, <4>2
      <4>3. CASE (\A t \in applied : t[1] # c) /\ k.phase = "leading"
        <5>1. ~Bulk(c) /\ k.req \in Arguments /\ k.req.tool # "bulk_acknowledge"
          BY <2>1, <4>3 DEF Where, Bulk, BulkPhases
        <5>2. k.cmds = <<Single(k.req)>> /\ DOMAIN k.cmds = {1}
          BY <2>1, <4>3, <5>1 DEF Accounts, Where
        <5>3. i = 1 /\ Reach(k.cmds[i]) = {k.req.host} /\ n.todo = {}
          <6>1. i = 1 /\ k.todo \subseteq {1}
            BY <2>1, <3>3, <5>2 DEF Where
          <6>2. k.cmds[1] = Single(k.req)
            BY <5>2
          <6> QED BY <3>2, <4>1, <5>1, <6>1, <6>2, SingleReaches
        <5>4. CASE \A t \in applied' : t[1] # c
          <6>1. n.phase = "raised"
            BY <3>2, <4>3, <5>3, <5>4
          <6> QED BY <5>3, <5>4, <6>1
        <5>5. CASE \E t \in applied' : t[1] = c
          BY <3>2, <4>3, <5>3, <5>5
        <5> QED BY <5>4, <5>5
      <4> QED BY <2>1, <3>2, <3>3, <4>1, <4>2, <4>3 DEF Led
    <3> QED BY <2>2, <3>1, <3>2, <3>5, <3>6
  <2> QED BY <1>3, <2>3, <2>4, <2>5, <2>6 DEF Step
<1> QED BY <1>1, <1>2, <1>3 DEF Next
----------------------------------------------------------------------------
(* What paging has found. *)

\* AskedAreProblems, for the state before a step and the state after it.
Agree == \A r \in Arguments : ~Refused(r) => Asked(r) = Problems(r)

\* What the filter selects agrees with the request in every state.
LEMMA AgreeNow == TypeOK => Agree
BY AskedAreProblems DEF TypeOK, Agree

\* The same after a step.
LEMMA AgreeThen == TypeOK' => Agree'
BY AgreeNow, PTL

\* Short of the hard limit, a list has been read up to its offset, and to its end
\* once reading is over: every steady target there has been found.
Found(c, kind) == LET k == call[c] IN
    Len(k[kind].rows) < HardLimit =>
        \A o \in steady[c] \cap Kind(kind) :
            (k[kind].over \/ Place(Problems(k.req) \cap Kind(kind), o) <= k[kind].offset)
                => o \in Elements(k[kind].rows)

Paged(c) == LET k == call[c] IN
    /\ k.phase = "collecting" =>
          /\ steady[c] \subseteq Asked(k.req)
          /\ c \notin vanished => Found(c, "hosts") /\ Found(c, "services")
    /\ /\ k.phase \in {"gathering", "done"} /\ Bulk(c) /\ ~Refused(k.req)
       /\ c \notin vanished
       /\ Len(k.hosts.rows) < HardLimit /\ Len(k.services.rows) < HardLimit
       => \A o \in steady[c] : \E i \in DOMAIN k.cmds : k.cmds[i].target.at = o

PagedInv == \A c \in Calls : Paged(c)

\* At first nothing has been read.
LEMMA PagedInit == Init => PagedInv
<1> SUFFICES ASSUME Init, NEW c \in Calls PROVE Paged(c)
  BY DEF PagedInv
<1>1. call[c].phase = "idle"
  BY DEF Init, Idle
<1> QED BY <1>1 DEF Paged

\* Objects that change while a call collects take no steady target out of what it
\* has found, unless one of its targets has gone.
LEMMA PagedWatched ==
    ASSUME WhereInv, WhereInv', Watch, NEW c \in Calls, Paged(c), call'[c] = call[c]
    PROVE  Paged(c)'
<1> DEFINE k == call[c]
<1>1. /\ k.phase # "collecting" => steady'[c] = steady[c]
      /\ k.phase = "collecting" =>
            /\ steady'[c] = steady[c] \cap Asked(call[c].req)'
            /\ c \notin vanished' => Asked(k.req) \subseteq Asked(call[c].req)'
      /\ vanished \subseteq vanished'
  BY WatchEffect DEF WhereInv
<1> HIDE DEF Watch
<1>2. CASE k.phase # "collecting"
  BY <1>1, <1>2 DEF Paged, Bulk
<1>3. CASE k.phase = "collecting"
  <2>1. k.req \in Arguments /\ ~Refused(k.req) /\ call'[c].req = k.req
    BY <1>3 DEF WhereInv, Where
  <2>2. Asked(k.req) = Problems(k.req)
    BY <2>1, AgreeNow DEF WhereInv, Agree
  <2>3. Asked(call[c].req)' = Problems(call[c].req)'
    BY <2>1, AgreeThen DEF WhereInv, Agree
  <2>4. steady[c] \subseteq Problems(k.req)
    BY <1>3, <2>2 DEF Paged
  <2>5. ASSUME c \notin vanished', NEW kind \in {"hosts", "services"}
        PROVE  Found(c, kind)'
    <3>1. Found(c, kind)
      BY <1>1, <1>3, <2>5 DEF Paged
    <3> DEFINE S == Problems(k.req) \cap Kind(kind)
               T == Problems(call[c].req)' \cap Kind(kind)
    <3>2. S \subseteq T /\ T \subseteq Objects /\ S \subseteq Objects
      BY <1>1, <1>3, <2>2, <2>3, <2>5 DEF Problems
    <3>3. k[kind].offset \in Nat
      BY DEF WhereInv, TypeOK, CallStates, Readings
    <3>4. steady'[c] \cap Kind(kind) \subseteq S
      BY <1>1, <1>3, <2>4
    <3>5. \A o \in steady[c] \cap Kind(kind) : Len(k[kind].rows) < HardLimit /\
             (k[kind].over \/ Place(S, o) <= k[kind].offset) => o \in Elements(k[kind].rows)
      BY <3>1 DEF Found
    <3> HIDE DEF S, T
    <3>6. ASSUME NEW o \in steady'[c] \cap Kind(kind), Len(k[kind].rows) < HardLimit,
                 k[kind].over \/ Place(T, o) <= k[kind].offset
          PROVE  o \in Elements(k[kind].rows)
      <4>1. o \in S /\ o \in steady[c] \cap Kind(kind)
        BY <1>1, <1>3, <3>4, <3>6
      <4>2. Place(S, o) <= Place(T, o)
        BY <3>2, <4>1, JoiningMovesBack
      <4>3. Place(S, o) \in Int /\ Place(T, o) \in Int
        <5>1. o \in T
          BY <3>2, <4>1
        <5>2. Cardinality(S) \in Nat /\ Place(S, o) \in 1..Cardinality(S)
          BY <3>2, <4>1, PlaceIsRank
        <5>3. Cardinality(T) \in Nat /\ Place(T, o) \in 1..Cardinality(T)
          BY <3>2, <5>1, PlaceIsRank
        <5> QED BY <5>2, <5>3
      <4>4. k[kind].over \/ Place(S, o) <= k[kind].offset
        BY <3>3, <3>6, <4>2, <4>3
      <4> QED BY <3>5, <3>6, <4>1, <4>4
    <3> QED BY <3>6 DEF Found, T
  <2>6. steady'[c] \subseteq Asked(call[c].req)'
    BY <1>1, <1>3
  <2>7. call'[c].phase = "collecting"
    BY <1>3
  <2>8. (Found(c, "hosts")' /\ Found(c, "services")') \/ c \in vanished'
    BY <2>5
  <2> QED BY <2>6, <2>7, <2>8 DEF Paged
<1> QED BY <1>2, <1>3

\* A call that does nothing itself keeps what it has found while no object changes.
LEMMA PagedStays ==
    ASSUME NEW c \in Calls, Paged(c), call'[c] = call[c], UNCHANGED <<state, handled, vanished>>,
           steady'[c] = steady[c]
    PROVE  Paged(c)'
<1>1. Asked(call[c].req)' = Asked(call[c].req)
  BY DEF Asked
<1>2. Problems(call[c].req)' = Problems(call[c].req)
  BY DEF Problems, Wanted
<1>3. Found(c, "hosts") => Found(c, "hosts")'
  BY <1>2 DEF Found
<1>4. Found(c, "services") => Found(c, "services")'
  BY <1>2 DEF Found
<1> QED BY <1>1, <1>3, <1>4 DEF Paged, Bulk

\* Every step keeps what has been found: a page reads on where the last one ended.
LEMMA PagedNext == WhereInv /\ PagedInv /\ [Next]_vars => PagedInv'
<1> SUFFICES ASSUME WhereInv, PagedInv, [Next]_vars PROVE PagedInv'
  OBVIOUS
<1>0. WhereInv'
  BY WhereNext
<1> USE DEF PagedInv
<1>1. CASE UNCHANGED vars
  BY <1>1, PagedStays DEF vars
<1>2. CASE Change
  <2>1. Watch /\ call' = call
    BY <1>2 DEF Change
  <2> QED BY <1>0, <2>1, PagedWatched
<1>3. ASSUME NEW c \in Calls, Step(c)
      PROVE  PagedInv'
  <2> DEFINE k == call[c]
             n == call'[c]
  <2>1. TypeOK /\ Where(k) /\ Paged(c) /\ TypeOK' /\ Where(n)
    BY <1>0 DEF WhereInv
  \* Steps that change no object.
  <2>2. ASSUME UNCHANGED <<state, handled, vanished>>,
               \A d \in Calls : d # c => call'[d] = call[d] /\ steady'[d] = steady[d],
               Paged(c)'
        PROVE  PagedInv'
    BY <2>2, PagedStays
  <2>3. CASE Begin(c)
    <3>1. /\ UNCHANGED <<state, handled, vanished>>
          /\ \A d \in Calls : d # c => call'[d] = call[d]
          /\ n.req \in Arguments
      BY <2>1, <2>3, BeginEffect DEF Begin
    <3>2. CASE /\ n.req.tool = "bulk_acknowledge"
               /\ n.phase = IF Refused(n.req) THEN "done" ELSE "collecting"
               /\ n.hosts = [rows |-> <<>>, offset |-> 0, over |-> SkipHosts(n.req)]
               /\ n.services = [rows |-> <<>>, offset |-> 0, over |-> SkipServices(n.req)]
               /\ steady' = [steady EXCEPT ![c] = IF Refused(n.req) THEN {} ELSE Asked(n.req)]
      <4>1. \A d \in Calls : d # c => steady'[d] = steady[d]
        BY <3>2
      <4>2. CASE Refused(n.req)
        <5>1. Paged(c)'
          BY <3>2, <4>2 DEF Paged
        <5> QED BY <2>2, <3>1, <4>1, <5>1
      <4>3. CASE ~Refused(n.req)
        <5>1. steady'[c] = Asked(n.req) /\ n.phase = "collecting"
          BY <2>1, <3>2, <4>3 DEF TypeOK
        <5>2. Asked(n.req) = Problems(n.req)
          BY <2>1, <3>1, <4>3, AgreeNow DEF Agree
        <5>3. /\ Asked(call[c].req)' = Asked(n.req)
          BY <3>1 DEF Asked
        <5>4. /\ Problems(call[c].req)' = Problems(n.req)
          BY <3>1 DEF Problems, Wanted
        <5>5. ASSUME NEW kind \in {"hosts", "services"}
              PROVE  Found(c, kind)'
          <6> DEFINE S == Problems(n.req) \cap Kind(kind)
          <6>1. n[kind].over => S = {}
            <7>1. Services \cap Hosts = {}
              BY WritesAssumption
            <7>2. CASE kind = "hosts"
              <8>1. n[kind].over = SkipHosts(n.req)
                BY <3>2, <7>2
              <8> QED BY <7>2, <8>1 DEF Problems, Kind
            <7>3. CASE kind = "services"
              <8>1. n[kind].over = SkipServices(n.req)
                BY <3>2, <7>3
              <8> QED BY <7>3, <8>1 DEF Problems, Kind
            <7> QED BY <7>2, <7>3
          <6>2. n[kind].offset = 0
            BY <3>2
          <6>3. \A o \in S : ~(Place(S, o) <= 0)
            <7>1. S \subseteq Objects
              BY DEF Problems
            <7> HIDE DEF S
            <7>2. Cardinality(S) \in Nat /\ \A o \in S : Place(S, o) \in 1..Cardinality(S)
              BY <7>1, PlaceIsRank
            <7> QED BY <7>2
          <6>4. steady'[c] \cap Kind(kind) = S
            BY <5>1, <5>2
          <6> HIDE DEF S
          <6>5. Problems(call[c].req)' \cap Kind(kind) = S
            BY <5>4 DEF S
          <6> QED BY <6>1, <6>2, <6>3, <6>4, <6>5 DEF Found
        <5>6. Paged(c)'
          BY <5>1, <5>3, <5>5 DEF Paged
        <5> QED BY <2>2, <3>1, <4>1, <5>6
      <4> QED BY <4>2, <4>3
    <3>3. CASE n.req.tool # "bulk_acknowledge" /\ steady' = steady
      <4>1. Paged(c)'
        BY <2>1, <3>3 DEF Paged, Bulk, Where, OtherPhases
      <4> QED BY <2>2, <3>1, <3>3, <4>1
    <3> HIDE DEF n
    <3> QED BY <2>1, <2>3, <3>2, <3>3, BeginEffect DEF n
  <2>4. ASSUME NEW kind \in {"hosts", "services"}, Page(c, kind)
        PROVE  PagedInv'
    <3>1. /\ UNCHANGED <<state, handled, vanished, steady>> /\ k.phase = "collecting"
          /\ \A d \in Calls : d # c => call'[d] = call[d]
          /\ n.req = k.req /\ n.phase = k.phase
          /\ n[kind] = NextPage(k[kind], Rows(k.req, kind)) /\ ~k[kind].over
          /\ \A other \in {"hosts", "services"} : other # kind => n[other] = k[other]
          /\ k.hosts \in Readings /\ k.services \in Readings
      BY <2>1, <2>4, PageEffect DEF Page, history
    <3>2. Problems(k.req) = Asked(k.req) /\ steady[c] \subseteq Asked(k.req)
      BY <2>1, <3>1, AgreeNow DEF Where, Agree, Paged
    <3>3. Asked(call[c].req)' = Asked(k.req)
      BY <3>1 DEF Asked
    <3>4. Problems(call[c].req)' = Problems(k.req)
      BY <3>1 DEF Problems, Wanted
    <3>5. ASSUME NEW other \in {"hosts", "services"}, Found(c, other), other # kind
          PROVE  Found(c, other)'
      BY <3>1, <3>4, <3>5 DEF Found
    <3>6. ASSUME Found(c, kind)
          PROVE  Found(c, kind)'
      <4> DEFINE S == Problems(k.req) \cap Kind(kind)
                 read == k[kind]
                 next == n[kind]
      <4>1. S \subseteq Objects /\ read \in Readings /\ steady[c] \cap Kind(kind) \subseteq S
        BY <3>1, <3>2 DEF Problems
      <4>2. next = NextPage(read, InOrder(S))
        BY <3>1 DEF Rows
      <4>3. Len(read.rows) < HardLimit =>
               \A o \in steady[c] \cap Kind(kind) :
                  Place(S, o) <= read.offset => o \in Elements(read.rows)
        BY <3>6 DEF Found
      <4> HIDE DEF S, read, next
      <4>4. Len(next.rows) < HardLimit =>
               /\ Len(read.rows) < HardLimit
               /\ Elements(read.rows) \subseteq Elements(next.rows)
               /\ \A x \in S : /\ Place(S, x) > read.offset
                               /\ next.over \/ Place(S, x) <= next.offset
                               => x \in Elements(next.rows)
        BY <4>1, <4>2, NextPageProperties
      <4>5. ASSUME Len(next.rows) < HardLimit, NEW o \in steady[c] \cap Kind(kind),
                   next.over \/ Place(S, o) <= next.offset
            PROVE  o \in Elements(next.rows)
        <5>1. o \in S /\ Place(S, o) \in 1..Cardinality(S) /\ Cardinality(S) \in Nat
          BY <4>1, PlaceIsRank
        <5>2. read.offset \in Nat
          BY <4>1 DEF Readings
        <5>3. CASE Place(S, o) <= read.offset
          BY <4>3, <4>4, <4>5, <5>3
        <5>4. CASE Place(S, o) > read.offset
          BY <4>4, <4>5, <5>1, <5>4
        <5> QED BY <5>1, <5>2, <5>3, <5>4
      <4>6. Problems(call[c].req)' \cap Kind(kind) = S
        BY <3>4 DEF S
      <4> QED BY <3>1, <4>5, <4>6 DEF Found, next
    <3>7. c \notin vanished => Found(c, "hosts")' /\ Found(c, "services")'
      BY <2>1, <3>1, <3>5, <3>6 DEF Paged
    <3>8. Paged(c)'
      BY <3>1, <3>2, <3>3, <3>7 DEF Paged
    <3> QED BY <2>2, <3>1, <3>8
  <2>5. CASE PageFails(c)
    <3>1. /\ UNCHANGED <<state, handled, vanished, steady>> /\ n.phase = "raised"
          /\ \A d \in Calls : d # c => call'[d] = call[d]
      BY <2>1, <2>5, StopEffect DEF PageFails, history
    <3>2. Paged(c)'
      BY <3>1 DEF Paged
    <3> QED BY <2>2, <3>1, <3>2
  <2>6. CASE Collected(c)
    <3> DEFINE rows == k.hosts.rows \o k.services.rows
    <3>1. /\ UNCHANGED <<state, handled, vanished, steady>> /\ k.phase = "collecting"
          /\ k.hosts.over /\ k.services.over
          /\ \A d \in Calls : d # c => call'[d] = call[d]
          /\ n.req = k.req /\ n.phase \in {"gathering", "done"}
          /\ n.hosts = k.hosts /\ n.services = k.services
          /\ DOMAIN n.cmds = DOMAIN rows
          /\ \A i \in DOMAIN rows : rows[i] \in Objects /\ n.cmds[i] = AckOf(rows[i])
          /\ Elements(rows) = Elements(k.hosts.rows) \cup Elements(k.services.rows)
      BY <2>1, <2>6, CollectedEffect DEF Collected, history
    <3> HIDE DEF rows
    <3>2. ASSUME c \notin vanished, Len(k.hosts.rows) < HardLimit,
                 Len(k.services.rows) < HardLimit, NEW o \in steady[c]
          PROVE  \E i \in DOMAIN n.cmds : n.cmds[i].target.at = o
      <4>1. Found(c, "hosts") /\ Found(c, "services")
        BY <2>1, <3>1, <3>2 DEF Paged
      <4>2. o \in Kind("hosts") \/ o \in Kind("services")
        BY <2>1 DEF TypeOK, Objects, Kind
      <4>3. o \in Elements(k.hosts.rows) \/ o \in Elements(k.services.rows)
        BY <3>1, <3>2, <4>1, <4>2 DEF Found
      <4>4. o \in Elements(rows)
        BY <3>1, <4>3
      <4>5. PICK i \in DOMAIN rows : rows[i] = o
        BY <4>4 DEF Elements
      <4>6. n.cmds[i] = AckOf(o) /\ o \in Objects /\ i \in DOMAIN n.cmds
        BY <3>1, <4>5
      <4> QED BY <4>6, AckReachesOne
    <3>3. Paged(c)'
      BY <3>1, <3>2 DEF Paged
    <3> QED BY <2>2, <3>1, <3>3
  <2>7. CASE ListServices(c)
    <3>1. k.phase = "listing" /\ k.req \in Arguments /\ k.req.tool # "bulk_acknowledge"
      BY <2>1, <2>7 DEF ListServices, Where, BulkPhases
    <3>2. /\ UNCHANGED <<state, handled, vanished, steady>>
          /\ \A d \in Calls : d # c => call'[d] = call[d]
          /\ n.req = k.req /\ n.phase \in {"raised", "spreading", "done"}
      BY <2>1, <2>7, <3>1, ListServicesEffect DEF ListServices, history
    <3>3. Paged(c)'
      BY <3>1, <3>2 DEF Paged, Bulk
    <3> QED BY <2>2, <3>2, <3>3
  <2>8. CASE Answer(c) \/ Failure(c)
    <3>1. /\ Watch /\ n.req = k.req /\ n.cmds = k.cmds
          /\ n.hosts = k.hosts /\ n.services = k.services
          /\ \A d \in Calls : d # c => call'[d] = call[d]
      BY <2>1, <2>8, CommandEffect
    <3>2. PICK i \in k.todo :
             \/ k.phase = "leading" /\ n.phase = "listing"
             \/ k.phase \notin {"leading", "raised"} /\ n.phase \in {"done", k.phase}
             \/ n.phase = "raised"
             \/ k.phase = "gathering" /\ n.phase \in {"done", "gathering"}
      BY <2>1, <2>8, CommandEffect
    <3>3. k.phase \notin {"idle", "collecting"}
      BY <2>1, <3>2 DEF Where
    <3>4. steady'[c] = steady[c] /\ vanished \subseteq vanished'
      BY <2>1, <3>1, <3>3, WatchEffect
    <3>5. /\ n.phase # "collecting"
          /\ Bulk(c) /\ n.phase \in {"gathering", "done"} => k.phase = "gathering"
      <4>1. k.todo # {} /\ (Bulk(c) => k.phase \in BulkPhases)
        BY <2>1, <3>2, <3>3 DEF Where, Bulk
      <4>2. k.phase # "done"
        BY <2>1, <4>1 DEF Where
      <4> QED BY <3>2, <3>3, <4>1, <4>2 DEF BulkPhases
    <3>6. Paged(c)'
      BY <2>1, <3>1, <3>4, <3>5 DEF Paged, Bulk
    <3> QED BY <1>0, <3>1, <3>6, PagedWatched
  <2> QED BY <1>3, <2>3, <2>4, <2>5, <2>6, <2>7, <2>8 DEF Step
<1> QED BY <1>1, <1>2, <1>3 DEF Next
----------------------------------------------------------------------------
(* The theorems. *)

WritesInv == WhereInv /\ AimInv /\ DoneInv /\ PagedInv

\* The four parts together hold in every state.
THEOREM WritesInvariant == Spec => []WritesInv
<1>1. Init => WritesInv
  BY WhereInit, AimInit, DoneInit, PagedInit DEF WritesInv
<1>2. WritesInv /\ [Next]_vars => WritesInv'
  BY WhereNext, AimNext, DoneNext, PagedNext DEF WritesInv
<1> QED BY <1>1, <1>2, PTL DEF Spec

\* No command, of one call or of several at once, reaches an object its call is not
\* about, however objects change meanwhile (commands.py:73-136, 205-311, 442-752).
THEOREM IntendedTouched == Spec => []OnlyIntendedTouched
<1>1. WritesInv => OnlyIntendedTouched
  BY DEF WritesInv, AimInv, Performed, OnlyIntendedTouched
<1> QED BY <1>1, WritesInvariant, PTL

\* A cascade touches no service before the command of its host has been accepted,
\* whichever command fails (commands.py:476-499).
THEOREM HostFirst == Spec => []HostBeforeServices
<1>1. WritesInv => HostBeforeServices
  BY DEF WritesInv, DoneInv, Led, HostBeforeServices
<1> QED BY <1>1, WritesInvariant, PTL

\* A tool that returns normally has reached every object it promises, and a target
\* counted as acknowledged has been acknowledged (commands.py:309-322, 483-506).
THEOREM ReportedIsDone == Spec => []DoneMeansDone
<1>1. WritesInv => DoneMeansDone
  <2>1. SUFFICES ASSUME WritesInv, NEW c \in Calls, call[c].phase = "done"
                 PROVE  IF Bulk(c)
                        THEN \A i \in call[c].ok : <<c, "ack", call[c].cmds[i].target.at>> \in applied
                        ELSE \A o \in Promised(call[c].req) : \E t \in applied : t[1] = c /\ t[3] = o
    BY DEF DoneMeansDone
  <2> DEFINE k == call[c]
  <2>2. Where(k) /\ Aimed(c) /\ Accounts(c) /\ Led(c) /\ TypeOK
    BY <2>1 DEF WritesInv, WhereInv, AimInv, DoneInv
  <2>3. CASE Bulk(c)
    <3>1. ASSUME NEW i \in k.ok
          PROVE  <<c, "ack", k.cmds[i].target.at>> \in applied
      <4>1. PICK o \in ever[c] : k.cmds[i] = AckOf(o)
        BY <2>1, <2>2, <2>3 DEF Where, Aimed
      <4>2. o \in Objects
        BY <2>2 DEF TypeOK
      <4>3. /\ o \in Reach(k.cmds[i]) /\ k.cmds[i].target.at = o /\ k.cmds[i].act = "ack"
        BY <4>1, <4>2, AckReachesOne
      <4> QED BY <2>2, <4>3 DEF Accounts
    <3> QED BY <2>3, <3>1
  <2>4. CASE ~Bulk(c)
    <3>1. k.req \in Arguments /\ k.req.tool # "bulk_acknowledge" /\ k.ok = DOMAIN k.cmds
      BY <2>1, <2>2, <2>4 DEF Where, Accounts, Bulk
    <3>2. \A i \in DOMAIN k.cmds : \A o \in Reach(k.cmds[i]) : \E t \in applied : t[1] = c /\ t[3] = o
      <4>1. \A i \in DOMAIN k.cmds : \A o \in Reach(k.cmds[i]) : <<c, k.cmds[i].act, o>> \in applied
        BY <2>2, <3>1 DEF Accounts
      <4>2. \A i, o : <<c, k.cmds[i].act, o>>[1] = c /\ <<c, k.cmds[i].act, o>>[3] = o
        OBVIOUS
      <4> QED BY <4>1, <4>2
    <3>3. CASE Cascades(k.req)
      <4>1. Promised(k.req) = {k.req.host} \cup Own(k.req)
        BY <3>1, <3>3, CascadeReaches
      <4>2. \E t \in applied : t[1] = c /\ t[3] = k.req.host
        BY <2>1, <2>2, <3>3 DEF Led
      <4>3. \A s \in Own(k.req) : \E i \in DOMAIN k.cmds : s \in Reach(k.cmds[i])
        BY <2>1, <2>2, <2>4, <3>3 DEF Accounts
      <4> QED BY <2>4, <3>2, <4>1, <4>2, <4>3
    <3>4. CASE ~Cascades(k.req)
      <4>1. k.cmds = <<Single(k.req)>>
        BY <2>1, <2>2, <2>4, <3>4 DEF Accounts
      <4>2. 1 \in DOMAIN k.cmds /\ k.cmds[1] = Single(k.req)
        BY <4>1
      <4>3. Reach(Single(k.req)) = Promised(k.req)
        BY <3>1, <3>4, SingleReaches
      <4> QED BY <2>4, <3>2, <4>2, <4>3
    <3> QED BY <3>3, <3>4
  <2> QED BY <2>3, <2>4
<1> QED BY <1>1, WritesInvariant, PTL

\* Unless a target went away meanwhile, or at the hard limit, every problem that
\* stayed one gets its acknowledgement, for any page size and any number of objects
\* that join (client.py:290-326, commands.py:251).
THEOREM PagingIsComplete == Spec => []NothingSkipped
<1>1. WritesInv => NothingSkipped
  BY DEF WritesInv, PagedInv, Paged, NothingSkipped
<1> QED BY <1>1, WritesInvariant, PTL
================================================================================
