---------------------------- MODULE PortMapping ----------------------------
(***************************************************************************)
(* One port mapping lane (internal/networking/portmap): Gateway.Run and    *)
(* runMapperProvider, which run one mapper after the other, the mappers    *)
(* PCP, NATPMP and UPnP, and the router they talk to.                      *)
(*                                                                         *)
(* Every exchange with the router is one step, in which the request may be *)
(* lost before the router or its answer after it.  Other devices use the   *)
(* same router, which may also restart and forget.  Leases are counted in  *)
(* ticks; how long a retry waits is a choice.  There is one router, and    *)
(* an address is not told apart from another.                              *)
(***************************************************************************)
EXTENDS Integers, Sequences, FiniteSets, SequencesExt, FiniteSetsExt

CONSTANTS
    Providers,          \* the mappers in their order: "pcp", "natpmp", "upnp"
    Port,               \* external ports, positive numbers
    InternalPort,       \* the port every mapper asks for first
    FallbackAttempts,   \* other ports UPnP tries after a conflict
    Lease,              \* requestedLease, in ticks
    LongestLease,       \* the longest lease the router grants
    Forever,            \* the lease of a permanent UPnP mapping
    Nil,
    StatesCapacity,     \* of the channel between a mapper and the Gateway
    Setting             \* what the router is like and what may happen, as records
                        \* of supported (protocols), lasting (UPnP leases are
                        \* permanent), overwrites (AddPortMapping replaces what
                        \* another device has), faults (calls that fail), mishaps
                        \* (ports taken by others, restarts), slow (ticks during a
                        \* call)

Protocol == {"pcp", "natpmp", "upnp"}

\* What the router has on a port ("old": of an earlier run, "other": of another device),
\* what a mapper believes it has, and what it publishes of that.
Entry == [by : Protocol \cup {"old", "other"}, left : (Nat \ {0}) \cup {Forever}]
Mapping == [left : Nat, lease : Nat \ {0}, advertised : BOOLEAN, lost : BOOLEAN]
Published == [port : Port, left : Nat, lost : BOOLEAN]

ASSUME PortMappingAssumption ==
    /\ Providers \in Seq(Protocol) /\ Providers # <<>>
    /\ IsFiniteSet(Port) /\ InternalPort \in Port
    /\ {Lease, LongestLease} \subseteq Nat \ {0}
    /\ Forever \notin Nat
    /\ Nil \notin Entry \cup Mapping \cup Published
    /\ Setting \subseteq [supported : SUBSET Protocol, lasting : BOOLEAN, overwrites : BOOLEAN,
                          faults : Nat, mishaps : Nat, slow : Nat]

VARIABLES
    table,      \* table[p]: whose mapping the router has on port p, and for how long
    setting,    \* the setting, with what is left of its faults
    mapper,     \* the goroutine of mapper.Run
    states,     \* providerStates
    sup,        \* the goroutine of Gateway.Run
    holdoff,    \* holdoff[i]: providerRetryAfter has not passed
    shown,      \* the mapping last sent to the room, or Nil
    cancelled   \* ctx of Gateway.Run

vars == <<table, setting, mapper, states, sup, holdoff, shown, cancelled>>

Ours == ToSet(Providers) \cup {"old"}
OurPorts == {p \in Port : table[p] # Nil /\ table[p].by \in Ours}

\* pc: the next step; then: where a deletion returns to; add: the answer to
\* AddPortMapping; owned: the mapping it believes it has; since: ticks since
\* the request began; err: this attempt failed; reset: the router has restarted.
NewMapper(by) ==
    [by |-> by, pc |-> "loop", then |-> "loop", add |-> "ok", port |-> InternalPort,
     used |-> {InternalPort}, owned |-> Nil, since |-> 0, err |-> FALSE, retryAfter |-> FALSE,
     attempted |-> FALSE, reset |-> FALSE, raced |-> FALSE, stop |-> FALSE]

Init ==
    /\ table = [p \in Port |-> Nil]
    /\ \E s \in Setting :
        setting = [supported |-> s.supported, lasting |-> s.lasting,
                   overwrites |-> s.overwrites, faults |-> s.faults,
                   mishaps |-> s.mishaps, slow |-> s.slow, failed |-> 0]
    /\ mapper = [NewMapper(Providers[1]) EXCEPT !.pc = "off"]
    /\ states = <<>>
    /\ sup = [pc |-> "pick", next |-> 0, tried |-> 0, active |-> FALSE, retryAfter |-> FALSE]
    /\ holdoff = [i \in DOMAIN Providers |-> FALSE]
    /\ shown = Nil
    /\ cancelled = FALSE

-----------------------------------------------------------------------------
(* Calls to the router *)

\* The context of the mapper.  Deletions in cleanup have one of their own, and the
\* NAT-PMP client takes none.
Stopped == cancelled \/ mapper.stop

\* Answers that are no fault of the router: the context interrupts the call.
Interruptions(background) ==
    IF Stopped /\ ~background /\ mapper.by # "natpmp" THEN {"lost", "failed"} ELSE {}

\* "done"; "lost": done, but the answer does not arrive or cannot be used;
\* "failed": not done; "refused": not done, and the router says so;
\* "denied": done, and the router says it was not.
Answers(kinds, background) ==
    IF mapper.by \notin setting.supported THEN {"failed"}
    ELSE {"done"} \cup (kinds \cap Interruptions(background))
            \cup (IF setting.faults > 0 THEN kinds ELSE {})

Spend(answer, background) ==
    setting' = IF answer \in {"done"} \cup Interruptions(background)
                    \/ mapper.by \notin setting.supported
               THEN setting ELSE [setting EXCEPT !.faults = @ - 1, !.failed = @ + 1]

Go(pc) == mapper' = [mapper EXCEPT !.pc = pc]

\* mappingMatches: the description holds a token of this run.
Matches(p) == table[p] # Nil /\ table[p].by = mapper.by

\* The attempt has failed and there is nothing to keep, resp. what there is is kept.
Fails == mapper' = [mapper EXCEPT !.pc = "judge", !.err = TRUE, !.owned = Nil]
FailsKeeping == mapper' = [mapper EXCEPT !.pc = "judge", !.err = TRUE]

\* A slip: the lease is counted from the answer.
RemainingFromAnswer(lease) == lease

\* ExpiresAt counts from the moment the request began.
Remaining(lease) == Max({lease - mapper.since, 0})

\* newOwnedMapping, newPendingMapping, applyNATPMPResult, applyPCPResponse.
\* lost: the router has forgotten it since.
Owned(lease, advertised) ==
    [left |-> Remaining(lease), lease |-> lease, advertised |-> advertised, lost |-> FALSE]

\* The lease a mapper asks for, resp. what it gets.
Asked == IF mapper.owned = Nil THEN Lease ELSE mapper.owned.lease
GrantedLease(requested) == Min({requested, LongestLease})

\* conservativeLease: routers report what they granted or what is left of it, and never
\* more than was asked for.
ConservativeLeases(requested) ==
    {GrantedLease(requested), Min({GrantedLease(requested), table[mapper.port].left})}

-----------------------------------------------------------------------------
(* Deleting *)

\* UPnP looks first and deletes only what carries its token (deleteOwnedMapping).
\* PCP and NAT-PMP name their own mapping.  A slip: the look is left out.
DeleteThenUnchecked(then) ==
    mapper' = [mapper EXCEPT !.pc = IF mapper.by = "upnp" THEN "delete" ELSE "unmap",
                             !.then = then, !.raced = FALSE]

DeleteThen(then) ==
    mapper' = [mapper EXCEPT !.pc = IF mapper.by = "upnp" THEN "look" ELSE "unmap", !.then = then]

\* What a mapper has to delete when it returns: NATPMP.cleanup leaves alone what was
\* never confirmed, PCP deletes whatever it has asked for.
NeedsCleanup ==
    CASE mapper.by = "upnp"   -> mapper.owned # Nil
      [] mapper.by = "natpmp" -> mapper.owned # Nil /\ mapper.owned.advertised
      [] mapper.by = "pcp"    -> mapper.attempted

\* rollback and rejectPermanentMapping run under the context, cleanup does not.
InBackground == mapper.then \notin {"rollback", "reject"}

\* After the deletion, which may not have been confirmed.
DeleteEnds(confirmed) ==
    CASE mapper.then = "return"   -> Go("returned")
      [] mapper.then = "expired"  ->
            mapper' = [mapper EXCEPT !.pc = "publish", !.then = "loop", !.owned = Nil,
                                     !.err = TRUE, !.attempted = FALSE]
      [] mapper.then = "stale"    ->
            mapper' = [mapper EXCEPT !.pc = "publish", !.then = "wait", !.owned = Nil,
                                     !.err = TRUE, !.attempted = FALSE]
      [] mapper.then = "wait"     -> mapper' = [mapper EXCEPT !.pc = "wait", !.attempted = FALSE]
      [] mapper.then = "rollback" -> IF confirmed THEN Fails ELSE FailsKeeping
      [] mapper.then = "reject"   -> Fails

Look ==
    /\ mapper.pc = "look"
    /\ \E answer \in Answers({"failed"}, InBackground) :
        /\ Spend(answer, InBackground)
        /\ IF answer = "done" /\ Matches(mapper.port)
           THEN mapper' = [mapper EXCEPT !.pc = "delete", !.raced = FALSE]
           ELSE DeleteEnds(answer = "done")
    /\ UNCHANGED <<table, states, sup, holdoff, shown, cancelled>>

\* DeletePortMapping takes whatever is on the port now.
Delete ==
    /\ mapper.pc = "delete"
    /\ \E answer \in Answers({"lost", "failed"}, InBackground) :
        /\ Spend(answer, InBackground)
        /\ table' = IF answer = "failed" THEN table ELSE [table EXCEPT ![mapper.port] = Nil]
        /\ DeleteEnds(answer = "done")
    /\ UNCHANGED <<states, sup, holdoff, shown, cancelled>>

\* deletePCPMapping, NATPMP.cleanup.
Unmap ==
    /\ mapper.pc = "unmap"
    /\ \E answer \in Answers({"lost", "failed"}, TRUE) :
        /\ Spend(answer, TRUE)
        /\ table' = IF answer = "failed" THEN table
                    ELSE [p \in Port |-> IF Matches(p) THEN Nil ELSE table[p]]
        /\ DeleteEnds(answer = "done")
    /\ UNCHANGED <<states, sup, holdoff, shown, cancelled>>

-----------------------------------------------------------------------------
(* The loop that UPnP, NATPMP and PCP share *)

Return == IF NeedsCleanup THEN DeleteThen("return") ELSE Go("returned")

Loop ==
    /\ mapper.pc = "loop"
    /\ IF Stopped THEN Return
       ELSE IF mapper.owned # Nil /\ mapper.owned.left = 0
       THEN IF NeedsCleanup THEN DeleteThen("expired")
            ELSE mapper' = [mapper EXCEPT !.pc = "publish", !.then = "loop", !.owned = Nil, !.err = TRUE]
       ELSE mapper' = [mapper EXCEPT
                !.err = FALSE, !.retryAfter = FALSE, !.since = 0,
                !.pc = IF mapper.owned = Nil THEN "discover"
                       ELSE CASE mapper.by = "upnp" -> "check"
                              [] mapper.by = "natpmp" -> "query"
                              [] mapper.by = "pcp" -> "request"]
    /\ UNCHANGED <<table, setting, states, sup, holdoff, shown, cancelled>>

Discover ==
    /\ mapper.pc = "discover"
    /\ \E answer \in Answers({"failed"}, FALSE) :
        /\ Spend(answer, FALSE)
        /\ IF answer = "failed" THEN Fails
           ELSE mapper' = [mapper EXCEPT
                    !.port = InternalPort, !.used = {InternalPort},
                    !.pc = CASE mapper.by = "upnp" -> "check"
                             [] mapper.by = "natpmp" -> "query"
                             [] mapper.by = "pcp" -> "request"]
    /\ UNCHANGED <<table, states, sup, holdoff, shown, cancelled>>

\* The attempt is over.  A mapping that expired in the meantime is not published.
Judge ==
    /\ mapper.pc = "judge"
    /\ IF Stopped THEN Return
       ELSE IF mapper.owned # Nil /\ mapper.owned.left = 0
       THEN IF NeedsCleanup THEN DeleteThen("stale")
            ELSE mapper' = [mapper EXCEPT !.pc = "publish", !.then = "wait", !.owned = Nil, !.err = TRUE]
       ELSE mapper' = [mapper EXCEPT !.pc = "publish", !.then = "wait"]
    /\ UNCHANGED <<table, setting, states, sup, holdoff, shown, cancelled>>

\* State: the mapping if it is confirmed and has time left, and whether to retry later.
CurrentState ==
    [mapping |-> IF mapper.owned # Nil /\ mapper.owned.advertised /\ mapper.owned.left > 0
                 THEN [port |-> mapper.port, left |-> mapper.owned.left, lost |-> mapper.owned.lost]
                 ELSE Nil,
     retryAfter |-> mapper.retryAfter]

\* publishState.  PCP then deletes what it has given up.
Publish ==
    /\ mapper.pc = "publish"
    /\ \/ /\ Len(states) < StatesCapacity
          /\ states' = Append(states, CurrentState)
          /\ IF mapper.by = "pcp" /\ mapper.then = "wait" /\ mapper.owned = Nil /\ mapper.attempted
             THEN DeleteThen("wait") ELSE Go(mapper.then)
       \/ Stopped /\ Return /\ UNCHANGED states
    /\ UNCHANGED <<table, setting, sup, holdoff, shown, cancelled>>

\* A slip: the mapping is renewed when it has run out.
RefreshDueLate == mapper.owned # Nil /\ mapper.owned.left = 0

\* mappingRefreshDelay: at two fifths of the lease.  A retry comes at any time, and no
\* later than the end of the lease.
RefreshDue ==
    mapper.owned # Nil /\ IF mapper.err THEN mapper.owned.left = 0
                          ELSE mapper.owned.left * 5 <= mapper.owned.lease * 3

Wait ==
    /\ mapper.pc = "wait"
    /\ \/ Stopped /\ Return
       \/ (mapper.err \/ RefreshDue) /\ Go("loop")
    /\ UNCHANGED <<table, setting, states, sup, holdoff, shown, cancelled>>

-----------------------------------------------------------------------------
(* UPnP: create, attemptPort and refresh *)

\* nextRandomPort after a conflict.
NextPort ==
    LET fresh == Port \ mapper.used
    IN  IF Cardinality(mapper.used) > FallbackAttempts \/ fresh = {} THEN Fails
        ELSE \E p \in fresh :
                mapper' = [mapper EXCEPT !.pc = "check", !.port = p, !.used = @ \cup {p}]

Reject == mapper' = [mapper EXCEPT !.pc = "look", !.then = "reject", !.owned = Nil]

\* The look before AddPortMapping.
Check ==
    /\ mapper.pc = "check"
    /\ \E answer \in Answers({"failed"}, FALSE) :
        /\ Spend(answer, FALSE)
        /\ IF answer = "failed" THEN FailsKeeping
           ELSE IF mapper.owned # Nil /\ ~Matches(mapper.port) THEN Fails
           ELSE IF table[mapper.port] # Nil /\ ~Matches(mapper.port) THEN NextPort
           ELSE IF Matches(mapper.port) /\ table[mapper.port].left = Forever THEN Reject
           ELSE mapper' = [mapper EXCEPT !.pc = "add", !.since = 0, !.raced = FALSE]
    /\ UNCHANGED <<table, states, sup, holdoff, shown, cancelled>>

\* AddPortMapping.  The router refuses a port that is somebody else's (718), or it
\* gives it away.
Add ==
    /\ mapper.pc = "add"
    /\ \E answer \in Answers({"lost", "failed", "refused", "denied"}, FALSE) :
        /\ Spend(answer, FALSE)
        /\ LET free == table[mapper.port] = Nil \/ Matches(mapper.port) \/ setting.overwrites
               heard == answer \notin {"lost", "failed"}
           IN  /\ table' = IF ~free \/ answer \in {"failed", "refused"} THEN table
                           ELSE [table EXCEPT ![mapper.port] =
                                    [by |-> "upnp",
                                     left |-> IF setting.lasting THEN Forever ELSE GrantedLease(Asked)]]
               /\ mapper' = [mapper EXCEPT !.pc = "verify",
                    !.add = IF ~heard THEN "unknown" ELSE IF ~free THEN "conflict"
                            ELSE IF answer = "done" THEN "ok" ELSE "refused"]
    /\ UNCHANGED <<states, sup, holdoff, shown, cancelled>>

\* newPendingMapping: it may be there, so it is kept for the cleanup.
Pending ==
    mapper' = [mapper EXCEPT !.pc = "judge", !.err = TRUE, !.owned = Owned(Lease, FALSE)]

\* The second half of attemptPort; looked: the look was answered.
VerifyNew(looked) ==
    LET exact == looked /\ Matches(mapper.port)
    IN  IF exact /\ table[mapper.port].left = Forever THEN Reject
        ELSE IF exact /\ mapper.add \in {"ok", "unknown"}
        THEN \E lease \in ConservativeLeases(Lease) :
                mapper' = [mapper EXCEPT !.pc = "external", !.owned = Owned(lease, FALSE)]
        ELSE IF ~exact /\ mapper.add = "conflict" THEN NextPort
        ELSE IF ~exact /\ mapper.add = "refused" THEN Fails
        ELSE Pending

\* The second half of refresh.
VerifyRenewed(looked) ==
    IF ~looked THEN FailsKeeping
    ELSE IF ~Matches(mapper.port) THEN Fails
    ELSE IF table[mapper.port].left = Forever THEN Reject
    ELSE IF mapper.add # "ok" THEN FailsKeeping
    ELSE \E lease \in ConservativeLeases(mapper.owned.lease) :
            mapper' = [mapper EXCEPT !.pc = "renewed",
                                     !.owned = Owned(lease, mapper.owned.advertised)]

Verify ==
    /\ mapper.pc = "verify"
    /\ \E answer \in Answers({"failed"}, FALSE) :
        /\ Spend(answer, FALSE)
        /\ IF mapper.owned = Nil THEN VerifyNew(answer = "done") ELSE VerifyRenewed(answer = "done")
    /\ UNCHANGED <<table, states, sup, holdoff, shown, cancelled>>

\* externalAddress: a new mapping without it is rolled back, a renewed one is kept,
\* also one that was pending until now.
External ==
    /\ mapper.pc \in {"external", "renewed"}
    /\ \E answer \in Answers({"failed"}, FALSE) :
        /\ Spend(answer, FALSE)
        /\ IF answer = "done"
           THEN mapper' = [mapper EXCEPT !.pc = "judge", !.owned.advertised = TRUE]
           ELSE IF mapper.pc = "renewed" THEN FailsKeeping ELSE DeleteThen("rollback")
    /\ UNCHANGED <<table, states, sup, holdoff, shown, cancelled>>

-----------------------------------------------------------------------------
(* NAT-PMP and PCP *)

\* The router renews the mapping it has for this mapper, on whatever port, or makes one.
Granted ==
    LET mine == {p \in Port : Matches(p)}
        free == {p \in Port : table[p] = Nil}
    IN  IF mine # {} THEN mine ELSE IF InternalPort \in free THEN {InternalPort} ELSE free

\* queryNATPMPExternalAddress.
Query ==
    /\ mapper.pc = "query"
    /\ \E answer \in Answers({"failed"}, FALSE) :
        /\ Spend(answer, FALSE)
        /\ IF answer = "failed" THEN FailsKeeping
           ELSE IF Stopped THEN FailsKeeping
           ELSE mapper' = [mapper EXCEPT !.pc = "request", !.since = 0, !.reset = FALSE]
    /\ UNCHANGED <<table, states, sup, holdoff, shown, cancelled>>

\* A mapping whose router restarted between the query and the answer is not used.
ApplyNATPMPResult(p, answer) ==
    LET known == IF mapper.owned = Nil THEN Owned(Lease, FALSE) ELSE mapper.owned
    IN  mapper' = IF answer = "done" /\ ~mapper.reset
                  THEN [mapper EXCEPT !.pc = "judge", !.port = p,
                                   !.owned = Owned(GrantedLease(known.lease), TRUE)]
                  ELSE [mapper EXCEPT !.pc = "judge", !.err = TRUE, !.owned = known]

\* A restarted router answers with a lower epoch: the mapping is new, and the room is told.
ApplyPCPResponse(p) ==
    mapper' = [mapper EXCEPT !.pc = "judge", !.port = p, !.err = mapper.reset, !.reset = FALSE,
                             !.attempted = TRUE, !.owned = Owned(GrantedLease(Asked), TRUE)]

\* A result error asks for patience, and some of them end the mapping.
PCPFails(answer) ==
    \E patience, ends \in {FALSE, answer = "refused"} :
        mapper' = [mapper EXCEPT !.pc = "judge", !.err = TRUE, !.attempted = TRUE,
                                 !.retryAfter = patience, !.owned = IF ends THEN Nil ELSE @]

Request ==
    /\ mapper.pc = "request"
    /\ \E answer \in Answers({"lost", "failed", "refused"}, FALSE) :
        /\ Spend(answer, FALSE)
        /\ \/ /\ answer \in {"done", "lost"}
              /\ \E p \in Granted :
                    /\ table' = [table EXCEPT ![p] = [by |-> mapper.by,
                                                          left |-> GrantedLease(Asked)]]
                    /\ IF mapper.by = "natpmp" THEN ApplyNATPMPResult(p, answer)
                       ELSE IF answer = "done" THEN ApplyPCPResponse(p) ELSE PCPFails(answer)
           \/ /\ answer \notin {"done", "lost"} \/ Granted = {}
              /\ IF mapper.by = "natpmp" THEN ApplyNATPMPResult(mapper.port, "failed")
                 ELSE PCPFails(IF answer = "done" THEN "refused" ELSE answer)
              /\ UNCHANGED table
    /\ UNCHANGED <<states, sup, holdoff, shown, cancelled>>

MapperStep ==
    \/ Look \/ Delete \/ Unmap
    \/ Loop \/ Discover \/ Judge \/ Publish \/ Wait
    \/ Check \/ Add \/ Verify \/ External
    \/ Query \/ Request

-----------------------------------------------------------------------------
(* Gateway *)

Index == 1 + ((sup.next + sup.tried) % Len(Providers))

\* The next provider that is not held off; after a round without success the room is told.
Pick ==
    /\ sup.pc = "pick"
    /\ IF sup.tried = Len(Providers)
       THEN /\ \/ sup' = [sup EXCEPT !.pc = "wait"] /\ shown' = Nil
               \/ cancelled /\ sup' = [sup EXCEPT !.pc = "done"] /\ UNCHANGED shown
            /\ UNCHANGED <<mapper, states>>
       ELSE IF holdoff[Index]
       THEN sup' = [sup EXCEPT !.tried = @ + 1] /\ UNCHANGED <<mapper, states, shown>>
       ELSE /\ sup' = [sup EXCEPT !.pc = "select", !.active = FALSE, !.retryAfter = FALSE]
            /\ mapper' = NewMapper(Providers[Index])
            /\ UNCHANGED <<states, shown>>
    /\ UNCHANGED <<table, setting, holdoff, cancelled>>

\* runMapperProvider takes a state.  One without a mapping ends the provider.
TakeState ==
    /\ sup.pc = "select" /\ states # <<>>
    /\ states' = Tail(states)
    /\ LET state == Head(states) IN
       \/ /\ state.mapping # Nil
          /\ shown' = state.mapping
          /\ sup' = [sup EXCEPT !.active = TRUE]
          /\ UNCHANGED mapper
       \/ /\ state.mapping = Nil
          /\ shown' = IF sup.active THEN Nil ELSE shown
          /\ sup' = [sup EXCEPT !.pc = "stop", !.retryAfter = state.retryAfter]
          /\ mapper' = [mapper EXCEPT !.stop = TRUE]
    /\ UNCHANGED <<table, setting, holdoff, cancelled>>

SelectDone ==
    /\ sup.pc = "select" /\ cancelled
    /\ sup' = [sup EXCEPT !.pc = "stop"]
    /\ mapper' = [mapper EXCEPT !.stop = TRUE]
    /\ UNCHANGED <<table, setting, states, holdoff, shown, cancelled>>

\* The token of a run dies with it: what UPnP and PCP have left is nobody's.
Orphaned == [p \in Port |-> IF Matches(p) /\ mapper.by # "natpmp"
                            THEN [table[p] EXCEPT !.by = "old"] ELSE table[p]]

\* A slip: the next provider starts while this one still cleans up.
StopAtOnce ==
    /\ sup.pc = "stop"
    /\ mapper' = [mapper EXCEPT !.pc = "off"]
    /\ table' = Orphaned
    /\ holdoff' = IF sup.active THEN holdoff ELSE [holdoff EXCEPT ![Index] = sup.retryAfter]
    /\ sup' = IF cancelled THEN [sup EXCEPT !.pc = "done"]
              ELSE IF sup.active
              THEN [sup EXCEPT !.pc = "pick", !.next = Index % Len(Providers), !.tried = 0]
              ELSE [sup EXCEPT !.pc = "pick", !.tried = @ + 1]
    /\ states' = <<>>
    /\ UNCHANGED <<setting, shown, cancelled>>

\* stop: wait for Run to return.  A provider that was active is followed by the next.
Stop ==
    /\ sup.pc = "stop" /\ mapper.pc = "returned"
    /\ mapper' = [mapper EXCEPT !.pc = "off"]
    /\ table' = Orphaned
    /\ holdoff' = IF sup.active THEN holdoff ELSE [holdoff EXCEPT ![Index] = sup.retryAfter]
    /\ sup' = IF cancelled THEN [sup EXCEPT !.pc = "done"]
              ELSE IF sup.active
              THEN [sup EXCEPT !.pc = "pick", !.next = Index % Len(Providers), !.tried = 0]
              ELSE [sup EXCEPT !.pc = "pick", !.tried = @ + 1]
    /\ states' = <<>>
    /\ UNCHANGED <<setting, shown, cancelled>>

GatewayWait ==
    /\ sup.pc = "wait"
    /\ sup' = IF cancelled THEN [sup EXCEPT !.pc = "done"] ELSE [sup EXCEPT !.pc = "pick", !.tried = 0]
    /\ UNCHANGED <<table, setting, mapper, states, holdoff, shown, cancelled>>

SupervisorStep == Pick \/ TakeState \/ SelectDone \/ Stop \/ GatewayWait

-----------------------------------------------------------------------------
(* The world *)

\* A tick passes while everyone waits; during a call, or when a timer is late, only if
\* the setting has one to spare.
Resting ==
    /\ mapper.pc \in {"off", "wait"} /\ ~RefreshDue
    /\ sup.pc \in {"select", "wait", "done"} /\ states = <<>>

Older(m) == IF m = Nil THEN Nil ELSE [m EXCEPT !.left = Max({@ - 1, 0})]

Tick ==
    /\ Resting \/ setting.slow > 0
    /\ setting' = IF Resting THEN setting ELSE [setting EXCEPT !.slow = @ - 1]
    /\ table' = [p \in Port |->
            IF table[p] = Nil \/ table[p].left = Forever THEN table[p]
            ELSE IF table[p].left = 1 THEN Nil ELSE [table[p] EXCEPT !.left = @ - 1]]
    /\ mapper' = [mapper EXCEPT !.owned = Older(@), !.since = Min({@ + 1, Lease})]
    /\ states' = [i \in DOMAIN states |-> [states[i] EXCEPT !.mapping = Older(@)]]
    /\ shown' = Older(shown)
    /\ holdoff' = [i \in DOMAIN Providers |-> FALSE]
    /\ UNCHANGED <<sup, cancelled>>

\* Another device takes a free port.
OtherTakes(p) ==
    /\ setting.mishaps > 0 /\ table[p] = Nil
    /\ setting' = [setting EXCEPT !.mishaps = @ - 1]
    /\ table' = [table EXCEPT ![p] = [by |-> "other", left |-> Lease]]
    /\ mapper' = [mapper EXCEPT !.raced = @ \/ (mapper.pc \in {"delete", "add"} /\ mapper.port = p)]
    /\ UNCHANGED <<states, sup, holdoff, shown, cancelled>>

Lost(m) == IF m = Nil THEN Nil ELSE [m EXCEPT !.lost = TRUE]

\* The router restarts with an empty table.
Restart ==
    /\ setting.mishaps > 0
    /\ setting' = [setting EXCEPT !.mishaps = @ - 1, !.failed = @ + 1]
    /\ table' = [p \in Port |-> Nil]
    /\ mapper' = [mapper EXCEPT !.owned = Lost(@),
                             !.reset = (mapper.by = "pcp" /\ mapper.owned # Nil) \/ mapper.by = "natpmp"]
    /\ states' = [i \in DOMAIN states |-> [states[i] EXCEPT !.mapping = Lost(@)]]
    /\ shown' = Lost(shown)
    /\ UNCHANGED <<sup, holdoff, cancelled>>

Cancel ==
    /\ ~cancelled
    /\ cancelled' = TRUE
    /\ UNCHANGED <<table, setting, mapper, states, sup, holdoff, shown>>

Next ==
    \/ MapperStep \/ SupervisorStep
    \/ Tick \/ Restart \/ Cancel
    \/ \E p \in Port : OtherTakes(p)

Spec == Init /\ [][Next]_vars

\* Goroutines run, calls end by their timeouts and time passes.
FairSpec == Spec /\ WF_vars(MapperStep) /\ WF_vars(SupervisorStep) /\ SF_vars(Tick)

-----------------------------------------------------------------------------
(* Properties *)

\* What another device has on the router stays: only time or a restart takes it away,
\* or UPnP's deletion when it got there after the look (deleteOwnedMapping), or its
\* AddPortMapping, then too and on a router that gives ports away (attemptPort, refresh).
NoTrespass ==
    [][\A p \in Port :
        table[p] # Nil /\ table[p].by = "other" /\ table'[p] # table[p] =>
            \/ Tick \/ Restart
            \/ mapper.pc \in {"delete", "add"} /\ mapper.raced]_vars

\* Without failed calls the router has one mapping of ours at most, and none when the
\* mapper has returned; a failed call leaves at most one more, for the rest of its
\* lease (Run, cleanup, stop).  A permanent mapping is the exception: rejecting it
\* fails when the room is left at that moment, and nobody tries again.
LeavesNothing ==
    Cardinality({p \in OurPorts : table[p].left # Forever})
        <= setting.failed + (IF mapper.pc \in {"off", "returned"} THEN 0 ELSE 1)

\* While the mapper holds a mapping and has not retracted it, what the room shows is on
\* the router, as ours, for at least as long as shown - unless the router restarted.
ShownIsHeld ==
    \/ shown = Nil \/ shown.left = 0 \/ shown.lost \/ cancelled
    \/ mapper.owned = Nil \/ mapper.stop \/ \E i \in DOMAIN states : states[i].mapping = Nil
    \/ table[shown.port] # Nil /\ table[shown.port].by = mapper.by
            /\ (table[shown.port].left = Forever \/ table[shown.port].left >= shown.left)

\* In the end either a protocol the router supports has a mapping and it is shown, one
\* the router has not forgotten, or the lane was cancelled and Run has returned.
Usable == setting.supported \ (IF setting.lasting THEN {"upnp"} ELSE {}) # {}
Settles ==
    <>[](IF cancelled THEN sup.pc = "done" ELSE Usable => shown # Nil /\ shown.left > 0 /\ ~shown.lost)
=============================================================================
