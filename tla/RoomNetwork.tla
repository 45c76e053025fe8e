---------------------------- MODULE RoomNetwork ----------------------------
(***************************************************************************)
(* The network of a room (internal/networking/room_network.go): RoomNetwork*)
(* starts and stops the UDP endpoint, a port mapping lane per address      *)
(* family, the tracker group (discovery/tracker) and the local discovery   *)
(* services, and shows the client what they found.  The tracker is the one *)
(* of tracker/src/index.js.                                                *)
(*                                                                         *)
(* The insides of the endpoint and of the mappers are in Endpoint and      *)
(* PortMapping; here they publish what the constants let them.  One        *)
(* tracker; a request is answered in one step, and one that is given up    *)
(* has reached the tracker by then or never does.  The results that no     *)
(* candidate of this code can cause (a group that ends by itself, a group  *)
(* without candidates) are left out, as are the peers the tracker returns  *)
(* and the error of a lane.                                                *)
(***************************************************************************)
EXTENDS Integers, Sequences, FiniteSets, SequencesExt, FiniteSetsExt

CONSTANTS
    Snapshots,              \* the candidates of the endpoint, one sequence after the other
    Mapping,                \* Mapping[f]: the candidates a mapper of family f can map
    Service,                \* the discovery services
    MaxAnnounceCandidates,  \* 4 in the code
    EventCapacity,          \* of the events of the lanes: 8 in the code
    StateCapacity,          \* of the states of a mapper: 4 in the code
    Setting                 \* the options tracker and mappers (families), and what may
                            \* happen, as records of changes (of the endpoint's
                            \* candidates), states (that the mappers publish), failures (of
                            \* mappers), outages (of the tracker), losses (of a stop),
                            \* breaks (of services), and stop: "parent", "endpoint" or "none"

Family == {"ipv4", "ipv6"}
NoMapping == <<>>

ASSUME RoomNetworkAssumption ==
    /\ Snapshots # <<>>
    /\ {MaxAnnounceCandidates, EventCapacity, StateCapacity} \subseteq Nat \ {0}
    /\ IsFiniteSet(Service) /\ DOMAIN Mapping = Family

VARIABLES
    setting,    \* the setting, with what is left of it
    parent,     \* the context of Run is cancelled
    ctx,        \* the context of everyone else is cancelled
    run,        \* the goroutine of Run, and the handles it holds
    endpoint,   \* its goroutine, its snapshot (0: not listening) and the signal of a change
    lane,       \* lane[f]: its goroutines and what portMappingLane knows
    events,     \* from the lanes
    group,      \* the tracker group
    child,      \* child[c]: the announcer of candidate c, and its status
    swarm,      \* what the tracker holds of this peer, as [ip, port] records
    lost,       \* a registration was left behind by a stop that failed
    service,    \* service[s]: the goroutine of superviseDiscovery
    reports,    \* from the services
    snapshot,   \* RoomSnapshot
    client      \* the signal of a change, and the snapshot the client has

vars == <<setting, parent, ctx, run, endpoint, lane, events, group, child, swarm, lost, service,
          reports, snapshot, client>>

-----------------------------------------------------------------------------
(* Candidates *)

\* Without a public address the tracker takes the one the request comes from.
SourceAddress == [ip |-> "source", port |-> 1, v6 |-> FALSE]

\* The order in which trackerAnnounceCandidates looks at them.
Preferred(candidates) ==
    LET Of(type, only6) == SelectSeq(candidates,
                LAMBDA c : c.type = type /\ c.public /\ (only6 => c.v6))
    IN  Of("mapped", FALSE) \o Of("stun", TRUE) \o Of("nic", TRUE) \o Of("stun", FALSE) \o Of("nic", FALSE)

\* Each address and port once, one IPv6 address, and no more than MaxAnnounceCandidates.
TrackerAnnounceCandidates(candidates) ==
    LET order == Preferred(candidates)
        Clash(c, d) == (c.ip = d.ip /\ c.port = d.port) \/ (c.v6 /\ d.v6)
        chosen == SelectSeq([i \in DOMAIN order |-> i],
                LAMBDA i : \A j \in 1..i - 1 : ~Clash(order[j], order[i]))
        Announced(i) == [ip |-> order[i].ip, port |-> order[i].port, v6 |-> order[i].v6]
    IN  IF chosen = <<>> THEN <<SourceAddress>>
        ELSE [k \in 1..Min({Len(chosen), MaxAnnounceCandidates}) |-> Announced(chosen[k])]

\* portMappingInternalPort: is there anything to map for this family?
Mappable(candidates, f) ==
    \E c \in ToSet(candidates) : c.type = "nic" /\ c.v6 = (f = "ipv6")

\* withPortMappings.
WithPortMappings(candidates, mapping) ==
    candidates \o mapping["ipv4"] \o mapping["ipv6"]

EndpointSnapshot == IF endpoint.snap = 0 THEN <<>> ELSE Snapshots[endpoint.snap]

Project(mapping) == WithPortMappings(EndpointSnapshot, mapping)

Held == [f \in Family |-> lane[f].mapping]

-----------------------------------------------------------------------------
(* The initial state *)

EmptySnapshot == [candidates |-> <<>>, tracker |-> <<>>, failing |-> {}, broken |-> FALSE]

NoChildren == [c \in {} |-> [pc |-> "done", status |-> "none"]]

Init ==
    /\ setting \in Setting
    /\ parent = FALSE /\ ctx = FALSE
    /\ run = [pc |-> "select", signal |-> FALSE, seen |-> 0, up |-> FALSE,
              endpoint |-> TRUE, had |-> FALSE]
    /\ endpoint = [up |-> TRUE, snap |-> 0, changed |-> FALSE, result |-> FALSE]
    /\ lane = [f \in Family |-> [pc |-> "off", stop |-> FALSE, states |-> <<>>, real |-> NoMapping,
                                 cancel |-> FALSE, mapping |-> NoMapping]]
    /\ events = <<>>
    /\ group = [pc |-> "off", stop |-> FALSE, candidates |-> <<>>, revision |-> 0, update |-> FALSE,
                held |-> <<>>, heldRevision |-> 0, restart |-> FALSE, changed |-> FALSE]
    /\ child = NoChildren
    /\ swarm = {} /\ lost = FALSE
    /\ service = [s \in Service |-> "off"]
    /\ reports = <<>>
    /\ snapshot = EmptySnapshot
    /\ client = [changed |-> FALSE, view |-> EmptySnapshot]

\* updateSnapshot.
UpdateSnapshot(new) ==
    /\ snapshot' = new
    /\ client' = [client EXCEPT !.changed = TRUE]

ClientReads ==
    /\ client.changed
    /\ client' = [changed |-> FALSE, view |-> snapshot]
    /\ UNCHANGED <<setting, parent, ctx, run, endpoint, lane, events, group, child, swarm, lost,
                   service, reports, snapshot>>

-----------------------------------------------------------------------------
(* The endpoint *)

EndpointChanges ==
    /\ endpoint.up /\ endpoint.snap < Len(Snapshots) /\ endpoint.snap <= setting.changes
    /\ endpoint' = [endpoint EXCEPT !.snap = @ + 1, !.changed = TRUE]
    /\ UNCHANGED <<setting, parent, ctx, run, lane, events, group, child, swarm, lost, service,
                   reports, snapshot, client>>

EndpointEnds ==
    /\ endpoint.up /\ (ctx \/ setting.stop = "endpoint")
    /\ endpoint' = [endpoint EXCEPT !.up = FALSE, !.result = TRUE]
    /\ UNCHANGED <<setting, parent, ctx, run, lane, events, group, child, swarm, lost, service,
                   reports, snapshot, client>>

-----------------------------------------------------------------------------
(* The lanes: mapper.Run and runPortMappingLane *)

MapperPublishes(f) ==
    /\ lane[f].pc = "up" /\ ~lane[f].stop /\ Len(lane[f].states) < StateCapacity
    /\ setting.states > 0
    /\ setting' = [setting EXCEPT !.states = @ - 1]
    /\ \E m \in {NoMapping} \cup {<<c>> : c \in Mapping[f]} :
        lane' = [lane EXCEPT ![f].real = m, ![f].states = Append(@, m)]
    /\ UNCHANGED <<parent, ctx, run, endpoint, events, group, child, swarm, lost, service, reports,
                   snapshot, client>>

\* Stopped, or failed: it has deleted its mapping.
MapperEnds(f) ==
    /\ lane[f].pc = "up"
    /\ \/ (lane[f].stop \/ ctx) /\ UNCHANGED setting
       \/ setting.failures > 0 /\ setting' = [setting EXCEPT !.failures = @ - 1]
    /\ lane' = [lane EXCEPT ![f].pc = "ended", ![f].real = NoMapping]
    /\ UNCHANGED <<parent, ctx, run, endpoint, events, group, child, swarm, lost, service, reports,
                   snapshot, client>>

\* A state, or the result, in any order when both are there.
LaneForwards(f) ==
    /\ Len(events) < EventCapacity
    /\ \/ /\ lane[f].pc \in {"up", "ended"} /\ lane[f].states # <<>>
          /\ events' = Append(events, [lane |-> f, end |-> FALSE, mapping |-> Head(lane[f].states)])
          /\ lane' = [lane EXCEPT ![f].states = Tail(@)]
       \/ /\ lane[f].pc = "ended"
          /\ events' = Append(events, [lane |-> f, end |-> TRUE, mapping |-> NoMapping])
          /\ lane' = [lane EXCEPT ![f].pc = "done"]
    /\ UNCHANGED <<setting, parent, ctx, run, endpoint, group, child, swarm, lost, service, reports,
                   snapshot, client>>

-----------------------------------------------------------------------------
(* The tracker group: Group.Run and runCandidates *)

GroupStopped == group.stop \/ ctx

\* UpdateCandidates up to its unlock; the signal comes after it.
UpdateCandidates(candidates) ==
    LET announced == TrackerAnnounceCandidates(candidates)
    IN  IF ~setting.tracker \/ announced = group.candidates THEN [group |-> group, signal |-> FALSE]
        ELSE [group |-> [group EXCEPT !.candidates = announced, !.revision = @ + 1], signal |-> TRUE]

\* Group.Snapshot.
Statuses ==
    [i \in DOMAIN group.candidates |->
        LET c == group.candidates[i]
        IN  [candidate |-> c, status |-> IF c \in DOMAIN child THEN child[c].status ELSE "none"]]

GroupSnapshots ==
    /\ group.pc = "snapshot"
    /\ group' = [group EXCEPT !.pc = "drain", !.held = group.candidates, !.heldRevision = group.revision]
    /\ UNCHANGED child

GroupDrains ==
    /\ group.pc = "drain"
    /\ group' = [group EXCEPT !.pc = "compare", !.update = FALSE]
    /\ UNCHANGED child

\* A slip: a change while the candidates were copied goes unnoticed.
SameRevisionAssumed(g) == TRUE

\* currentRevision is the one of the copy.
SameRevision(g) == g.revision = g.heldRevision

\* Start one announcer per candidate.
GroupStartsChildren ==
    /\ group.pc = "compare"
    /\ IF SameRevision(group)
       THEN /\ group' = [group EXCEPT !.pc = "running", !.changed = TRUE]
            /\ child' = [c \in ToSet(group.held) |-> [pc |-> "announce", status |-> "none"]]
       ELSE /\ group' = [group EXCEPT !.pc = "snapshot"]
            /\ UNCHANGED child

\* An update, or the end, cancels the announcers.
GroupStopsChildren ==
    /\ group.pc = "running"
    /\ \/ group.update /\ group' = [group EXCEPT !.pc = "stopping", !.update = FALSE, !.restart = TRUE]
       \/ GroupStopped /\ group' = [group EXCEPT !.pc = "stopping", !.restart = FALSE]
    /\ UNCHANGED child

\* All announcers have ended.
GroupWaits ==
    /\ group.pc = "stopping" /\ \A c \in DOMAIN child : child[c].pc = "done"
    /\ child' = NoChildren
    /\ group' = [group EXCEPT !.changed = TRUE,
                    !.pc = IF group.restart /\ ~GroupStopped THEN "snapshot" ELSE "done"]

GroupStep ==
    /\ \/ GroupSnapshots \/ GroupDrains \/ GroupStartsChildren \/ GroupStopsChildren \/ GroupWaits
    /\ UNCHANGED <<setting, parent, ctx, run, endpoint, lane, events, swarm, lost, service, reports,
                   snapshot, client>>

-----------------------------------------------------------------------------
(* An announcer: runProvider and runHTTPTracker; the tracker: Swarm.fetch *)

ChildStopped == GroupStopped \/ group.pc = "stopping"

\* Swarm.fetch: a peer has one registration per address.
Without(c) == {r \in swarm : r.ip # c.ip}
With(c) == Without(c) \cup {[ip |-> c.ip, port |-> c.port]}

\* recordSuccess and recordFailure, and the relay of the signal to the group.
RecordStatus(c, pc, status) ==
    /\ child' = [child EXCEPT ![c] = [pc |-> pc, status |-> status]]
    /\ group' = [group EXCEPT !.changed = TRUE]

Move(c, pc) == child' = [child EXCEPT ![c].pc = pc] /\ UNCHANGED group

\* httpAnnounce succeeds.
Announce(c) ==
    /\ child[c].pc = "announce" /\ ~ChildStopped
    /\ swarm' = With(c)
    /\ RecordStatus(c, "wait", "ok")
    /\ UNCHANGED <<setting, lost>>

\* It fails or is cancelled, before or after it has reached the tracker.
AnnounceFails(c) ==
    /\ child[c].pc = "announce"
    /\ \/ ChildStopped /\ UNCHANGED setting
       \/ ~ChildStopped /\ setting.outages > 0 /\ setting' = [setting EXCEPT !.outages = @ - 1]
    /\ swarm' \in {swarm, With(c)}
    /\ Move(c, "stop")
    /\ UNCHANGED lost

\* publishAndWait.
WaitEnds(c) ==
    /\ child[c].pc = "wait"
    /\ Move(c, IF ChildStopped THEN "stop" ELSE "announce")
    /\ UNCHANGED <<setting, swarm, lost>>

AfterStop(c) == IF ChildStopped THEN Move(c, "done") ELSE RecordStatus(c, "retry", "error")

\* A slip: the stop is sent with the context of the announcer.
StopHTTPRegistrationCancelled(c) ==
    /\ swarm' = IF ChildStopped THEN swarm ELSE Without(c)
    /\ UNCHANGED <<setting, lost>>

\* stopHTTPRegistration, with a context of its own; it may fail.
StopHTTPRegistration(c) ==
    \/ swarm' = Without(c) /\ UNCHANGED <<setting, lost>>
    \/ /\ setting.losses > 0
       /\ setting' = [setting EXCEPT !.losses = @ - 1]
       /\ lost' = TRUE /\ UNCHANGED swarm

Stop(c) == child[c].pc = "stop" /\ StopHTTPRegistration(c) /\ AfterStop(c)

Retry(c) ==
    /\ child[c].pc = "retry"
    /\ Move(c, IF ChildStopped THEN "done" ELSE "announce")
    /\ UNCHANGED <<setting, swarm, lost>>

AnnouncerStep(c) ==
    /\ c \in DOMAIN child
    /\ \/ Announce(c) \/ AnnounceFails(c) \/ WaitEnds(c) \/ Stop(c) \/ Retry(c)
    /\ UNCHANGED <<parent, ctx, run, endpoint, lane, events, service, reports, snapshot, client>>

-----------------------------------------------------------------------------
(* superviseDiscovery *)

ServiceGoesOn(s, pc) == service' = [service EXCEPT ![s] = pc]

ServiceStep(s) ==
    /\ \/ /\ service[s] = "running" /\ ~ctx /\ setting.breaks > 0
          /\ setting' = [setting EXCEPT !.breaks = @ - 1]
          /\ ServiceGoesOn(s, "report") /\ UNCHANGED reports
       \/ /\ service[s] \in {"report", "clear"} /\ Len(reports) < Cardinality(Service)
          /\ reports' = Append(reports, [service |-> s, failed |-> service[s] = "report"])
          /\ ServiceGoesOn(s, IF service[s] = "report" THEN "retry" ELSE "running")
          /\ UNCHANGED setting
       \/ service[s] = "retry" /\ ServiceGoesOn(s, "clear") /\ UNCHANGED <<setting, reports>>
       \/ /\ service[s] \notin {"off", "done"} /\ ctx
          /\ ServiceGoesOn(s, "done") /\ UNCHANGED <<setting, reports>>
    /\ UNCHANGED <<parent, ctx, run, endpoint, lane, events, group, child, swarm, lost, snapshot, client>>

-----------------------------------------------------------------------------
(* Run *)

\* Project, show, and hand to the tracker.
Apply(mapping, seen) ==
    LET projected == Project(mapping)
        update    == UpdateCandidates(projected)
    IN  /\ UpdateSnapshot([snapshot EXCEPT !.candidates = projected])
        /\ group' = update.group
        /\ run' = [run EXCEPT !.pc = "apply", !.signal = update.signal, !.seen = seen]

RunTakesChange ==
    /\ run.pc = "select" /\ endpoint.changed
    /\ endpoint' = [endpoint EXCEPT !.changed = FALSE]
    /\ Apply(Held, endpoint.snap)
    /\ UNCHANGED <<lane, events, service, reports>>

\* portMappingLanes.apply and applyPortMappings.
RunTakesEvent ==
    /\ run.pc = "select" /\ events # <<>>
    /\ LET e == Head(events)
       IN  /\ lane' = [lane EXCEPT ![e.lane].mapping = e.mapping,
                                   ![e.lane].cancel = IF e.end THEN FALSE ELSE @]
           /\ Apply([Held EXCEPT ![e.lane] = e.mapping], 0)
    /\ events' = Tail(events)
    /\ UNCHANGED <<endpoint, service, reports>>

\* startAvailable.
StartAvailable(candidates) ==
    [f \in Family |->
        IF f \in setting.mappers /\ lane[f].pc = "off" /\ Mappable(candidates, f)
        THEN [lane[f] EXCEPT !.pc = "up", !.cancel = TRUE] ELSE lane[f]]

\* The rest of the two: the signal of UpdateCandidates, then the tracker, startAvailable
\* and the services if they are not up yet.
RunStarts ==
    /\ run.pc = "apply"
    /\ LET start == run.seen > 0
       IN  /\ group' = [group EXCEPT !.update = @ \/ run.signal,
                                     !.pc = IF start /\ setting.tracker /\ ~run.up THEN "snapshot" ELSE @]
           /\ lane' = IF start THEN StartAvailable(Snapshots[run.seen]) ELSE lane
           /\ service' = IF start /\ ~run.up THEN [s \in Service |-> "running"] ELSE service
           /\ run' = [run EXCEPT !.pc = "select", !.signal = FALSE, !.seen = 0, !.up = @ \/ start]
    /\ UNCHANGED <<endpoint, events, reports, snapshot, client>>

RunTakesReport ==
    /\ run.pc = "select" /\ reports # <<>>
    /\ LET r == Head(reports)
       IN  UpdateSnapshot([snapshot EXCEPT !.failing =
                                IF r.failed THEN @ \cup {r.service} ELSE @ \ {r.service}])
    /\ reports' = Tail(reports)
    /\ UNCHANGED <<run, endpoint, lane, events, group, service>>

RunTakesStatus ==
    /\ run.pc = "select" /\ group.changed
    /\ group' = [group EXCEPT !.changed = FALSE]
    /\ UpdateSnapshot([snapshot EXCEPT !.tracker = Statuses])
    /\ UNCHANGED <<setting, parent, ctx, run, endpoint, lane, events, child, swarm, lost, service, reports>>

\* finish, and portMappingLanes.stop up to its loop.
RunFinishes ==
    /\ run.pc = "select"
    /\ LET had == \E f \in Family : lane[f].mapping # NoMapping
       IN  \/ /\ parent
              /\ run' = [run EXCEPT !.pc = "lanes", !.had = had]
              /\ UNCHANGED <<snapshot, client>>
           \/ /\ endpoint.result
              /\ run' = [run EXCEPT !.pc = "lanes", !.had = had, !.endpoint = FALSE]
              /\ UpdateSnapshot([snapshot EXCEPT !.broken = TRUE])
    /\ lane' = [f \in Family |->
            IF lane[f].cancel THEN [lane[f] EXCEPT !.stop = TRUE, !.mapping = NoMapping] ELSE lane[f]]
    /\ UNCHANGED <<endpoint, events, group, service, reports>>

\* The loop of portMappingLanes.stop takes an event.
RunTakesLast ==
    /\ run.pc = "lanes" /\ events # <<>> /\ \E f \in Family : lane[f].cancel
    /\ events' = Tail(events)
    /\ lane' = IF Head(events).end THEN [lane EXCEPT ![Head(events).lane].cancel = FALSE] ELSE lane
    /\ UNCHANGED <<run, endpoint, group, service, reports, snapshot, client>>

\* No lane is left, or it takes too long; then the tracker is told to stop.
RunLeavesLanes ==
    /\ run.pc = "lanes"
    /\ IF run.had THEN UpdateSnapshot([snapshot EXCEPT !.candidates = Project(Held)])
       ELSE UNCHANGED <<snapshot, client>>
    /\ group' = [group EXCEPT !.stop = TRUE]
    /\ run' = [run EXCEPT !.pc = "tracker"]
    /\ UNCHANGED <<endpoint, lane, events, service, reports>>

RunWaits ==
    /\ \/ run.pc = "endpoint" /\ (run.endpoint => endpoint.result) /\ run' = [run EXCEPT !.pc = "services"]
       \/ /\ run.pc = "services" /\ (run.up => \A s \in Service : service[s] = "done")
          /\ run' = [run EXCEPT !.pc = "returned"]
    /\ UNCHANGED <<endpoint, lane, events, group, service, reports, snapshot, client>>

RunStep ==
    /\ \/ RunTakesChange \/ RunTakesEvent \/ RunStarts \/ RunTakesReport \/ RunFinishes
       \/ RunTakesLast \/ RunLeavesLanes \/ RunWaits
    /\ UNCHANGED <<setting, parent, ctx, child, swarm, lost>>

\* The group has ended, or it takes too long; then everyone is.
RunCancels ==
    /\ run.pc = "tracker"
    /\ ctx' = TRUE
    /\ run' = [run EXCEPT !.pc = "endpoint"]
    /\ UNCHANGED <<setting, parent, endpoint, lane, events, group, child, swarm, lost, service, reports,
                   snapshot, client>>

Cancel ==
    /\ setting.stop = "parent" /\ ~parent
    /\ parent' = TRUE
    /\ UNCHANGED <<setting, ctx, run, endpoint, lane, events, group, child, swarm, lost, service,
                   reports, snapshot, client>>

\* The candidates that may ever be announced.
Announceable ==
    LET all == UNION ({ToSet(Snapshots[i]) : i \in DOMAIN Snapshots} \cup {Mapping[f] : f \in Family})
    IN  {SourceAddress} \cup {[ip |-> c.ip, port |-> c.port, v6 |-> c.v6] : c \in {a \in all : a.public}}

Next ==
    \/ EndpointChanges \/ EndpointEnds \/ Cancel
    \/ \E f \in Family : MapperPublishes(f) \/ MapperEnds(f) \/ LaneForwards(f)
    \/ GroupStep \/ \E c \in Announceable : AnnouncerStep(c)
    \/ \E s \in Service : ServiceStep(s)
    \/ RunStep \/ RunTakesStatus \/ RunCancels
    \/ ClientReads

Spec == Init /\ [][Next]_vars

\* Goroutines run, mappers end when told to, and the tracker answers or does not.
FairSpec ==
    /\ Spec
    /\ WF_vars(RunStep) /\ WF_vars(RunTakesStatus) /\ WF_vars(RunCancels) /\ WF_vars(ClientReads)
    /\ WF_vars(EndpointEnds /\ ctx)
    /\ WF_vars(\E f \in Family : MapperEnds(f) /\ (lane[f].stop \/ ctx))
    /\ WF_vars(\E f \in Family : LaneForwards(f))
    /\ WF_vars(GroupStep)
    /\ \A c \in Announceable : WF_vars(AnnouncerStep(c))
    /\ WF_vars(\E s \in Service : ServiceStep(s))

-----------------------------------------------------------------------------
(* Properties *)

\* While the room is open the client comes to see the endpoint's candidates, the mappings
\* that are held, the state of the tracker and no failed service that runs again, and
\* the tracker holds each address it was told, and, unless a stop failed, no other
\* (RoomNetwork.Run, Group.Run, publishAndWait).
Current ==
    <>[](run.pc = "select" /\ endpoint.up /\ endpoint.snap > 0 =>
            LET now == Project([f \in Family |-> lane[f].real])
                announced == ToSet(TrackerAnnounceCandidates(now))
            IN  /\ client.view.candidates = now
                /\ \A s \in DOMAIN client.view.tracker :
                        client.view.tracker[s].candidate \in announced
                            /\ client.view.tracker[s].status = "ok"
                /\ setting.tracker => Len(client.view.tracker) = Cardinality(announced)
                /\ client.view.failing = {} /\ \A s \in Service : service[s] = "running"
                /\ setting.tracker => {a.ip : a \in announced} \subseteq {r.ip : r \in swarm}
                /\ lost \/ swarm \subseteq {[ip |-> a.ip, port |-> a.port] : a \in announced})

\* After the context or the endpoint has ended, Run returns, the client knows which,
\* everyone Run started has ended, no mapping is held and, unless a stop failed, the tracker knows nothing of
\* this peer (finish, stopHTTPRegistration).
LeavesCleanly ==
    <>[](parent \/ endpoint.result =>
            /\ run.pc = "returned" /\ ~endpoint.up
            /\ parent \/ client.view.broken
            /\ \A f \in Family : lane[f].pc # "up" /\ lane[f].real = NoMapping
            /\ \A s \in Service : service[s] \in {"off", "done"}
            /\ group.pc \in {"off", "done"}
            /\ lost \/ swarm = {})
=============================================================================
