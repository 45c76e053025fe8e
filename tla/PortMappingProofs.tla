------------------------- MODULE PortMappingProofs --------------------------
(***************************************************************************)
(* For every list of mappers, every set of ports, all routers and every    *)
(* number of faults and mishaps: a mapper takes nothing from another       *)
(* device, what it leaves behind is paid for by a call that failed, and    *)
(* what the room shows is on the router.                                   *)
(***************************************************************************)
EXTENDS PortMapping, FiniteSetTheorems, SequenceTheorems, TLAPS

Pc == {"off", "loop", "discover", "judge", "publish", "wait", "look", "delete", "unmap",
       "check", "add", "verify", "external", "renewed", "query", "request", "returned"}
Then == {"loop", "wait", "return", "expired", "stale", "rollback", "reject"}

SettingType ==
    [supported : SUBSET Protocol, lasting : BOOLEAN, overwrites : BOOLEAN, faults : Nat,
     mishaps : Nat, slow : Nat, failed : Nat]
MapperType ==
    [by : ToSet(Providers), pc : Pc, then : Then,
     add : {"ok", "unknown", "conflict", "refused"}, port : Port,
     used : SUBSET Port, owned : Mapping \cup {Nil}, since : Nat, err : BOOLEAN,
     retryAfter : BOOLEAN, attempted : BOOLEAN, reset : BOOLEAN, raced : BOOLEAN, stop : BOOLEAN]
StateType == [mapping : Published \cup {Nil}, retryAfter : BOOLEAN]
SupType ==
    [pc : {"pick", "select", "stop", "wait", "done"}, next : Nat, tried : Nat,
     active : BOOLEAN, retryAfter : BOOLEAN]

TypeOK ==
    /\ table \in [Port -> Entry \cup {Nil}]
    /\ setting \in SettingType
    /\ mapper \in MapperType
    /\ states \in Seq(StateType)
    /\ sup \in SupType
    /\ holdoff \in [DOMAIN Providers -> BOOLEAN]
    /\ shown \in Published \cup {Nil}
    /\ cancelled \in BOOLEAN

\* Which protocol can be where, and where a deletion returns to.
Places ==
    /\ mapper.pc \in {"look", "delete", "check", "add", "verify", "external", "renewed"} =>
        mapper.by = "upnp"
    /\ mapper.pc \in {"unmap", "request"} => mapper.by # "upnp"
    /\ mapper.pc = "query" => mapper.by = "natpmp"
    /\ mapper.pc = "discover" => mapper.owned = Nil
    /\ mapper.pc \in {"external", "renewed"} => mapper.owned # Nil
    /\ mapper.pc = "publish" => mapper.then \in {"loop", "wait"}
    /\ mapper.pc \in {"look", "delete", "unmap"} => mapper.then # "loop"
    /\ mapper.pc \in {"look", "delete"} /\ mapper.then = "reject" => mapper.owned = Nil
    /\ sup.pc \in {"pick", "wait", "done"} <=> mapper.pc = "off"

\* What UPnP is about to delete or to map is not another device's, unless that came after
\* the look.
Untouched ==
    mapper.pc \in {"delete", "add"} =>
        mapper.raced \/ table[mapper.port] = Nil \/ table[mapper.port].by # "other"

\* The router knows a live mapper by its protocol, and has one mapping for it at most
\* where the protocol does not name it by its port.
Tables ==
    /\ \A p \in Port : table[p] # Nil => table[p].by \in setting.supported \cup {"old", "other"}
    /\ \A p, q \in Port :
        table[p] # Nil /\ table[q] # Nil /\ table[p].by \in {"pcp", "natpmp"}
            /\ table[p].by = table[q].by => p = q

Kept == mapper.owned # Nil /\ mapper.owned.advertised

\* The mapping on this port is one that the mapper will delete before it returns.
Holds(p) ==
    /\ mapper.pc \notin {"off", "returned"} /\ Matches(p)
    /\ \/ /\ mapper.by = "upnp" /\ p = mapper.port
          /\ mapper.owned # Nil \/ (mapper.pc = "verify" /\ mapper.add \in {"ok", "unknown"})
       \/ mapper.by = "natpmp" /\ Kept
       \/ mapper.by = "pcp" /\ mapper.attempted

\* The mappings of ours that nobody will delete.
Loose == {p \in OurPorts : table[p].left # Forever /\ ~Holds(p)}

\* The router has restarted in the middle of a NAT-PMP request: its answer will not be used.
Slack == mapper.by = "natpmp" /\ mapper.reset /\ mapper.pc = "request" /\ ~Kept

Counted == Cardinality(Loose) + (IF Slack THEN 1 ELSE 0) <= setting.failed

IInv == TypeOK /\ Places /\ Untouched /\ Tables /\ Counted

-----------------------------------------------------------------------------
(* Facts about the constants and the operators *)

\* Nil is none of the records.
LEMMA NilFacts ==
    /\ \A e \in Entry : e # Nil
    /\ \A m \in Mapping : m # Nil
    /\ \A m \in Published : m # Nil
BY PortMappingAssumption

\* The maximum and the minimum of two numbers.
LEMMA MaxMin ==
    ASSUME NEW a \in Int, NEW b \in Int
    PROVE  /\ Max({a, b}) = IF a >= b THEN a ELSE b
           /\ Min({a, b}) = IF a <= b THEN a ELSE b
<1>1. Max({a, b}) = IF a >= b THEN a ELSE b
  <2>1. \E x \in {a, b} : \A y \in {a, b} : x >= y
    OBVIOUS
  <2>2. Max({a, b}) \in {a, b} /\ \A y \in {a, b} : Max({a, b}) >= y
    BY <2>1, Zenon DEF Max
  <2> QED
    BY <2>2
<1>2. Min({a, b}) = IF a <= b THEN a ELSE b
  <2>1. \E x \in {a, b} : \A y \in {a, b} : x <= y
    OBVIOUS
  <2>2. Min({a, b}) \in {a, b} /\ \A y \in {a, b} : Min({a, b}) <= y
    BY <2>1, Zenon DEF Min
  <2> QED
    BY <2>2
<1> QED
  BY <1>1, <1>2

\* The mappers are mappers of the list.
LEMMA ProviderFacts ==
    /\ Len(Providers) \in Nat \ {0}
    /\ \A i \in 1 .. Len(Providers) : Providers[i] \in ToSet(Providers)
    /\ DOMAIN Providers = 1 .. Len(Providers)
    /\ ToSet(Providers) \subseteq Protocol
<1>1. Len(Providers) \in Nat /\ DOMAIN Providers = 1 .. Len(Providers)
      /\ \A i \in 1 .. Len(Providers) : Providers[i] \in Protocol
  BY PortMappingAssumption
<1>2. Len(Providers) # 0
  BY PortMappingAssumption, EmptySeq
<1> QED
  BY <1>1, <1>2 DEF ToSet

\* The provider whose turn it is.
LEMMA IndexType ==
    ASSUME TypeOK
    PROVE  Index \in DOMAIN Providers /\ Index \in Nat
<1>1. sup.next + sup.tried \in Nat
  BY DEF TypeOK, SupType
<1> QED
  BY <1>1, ProviderFacts DEF Index

\* The router grants what it is asked for, but no more than its longest lease.
LEMMA GrantTypes ==
    ASSUME NEW lease \in Nat \ {0}
    PROVE  /\ GrantedLease(lease) \in Nat \ {0}
           /\ GrantedLease(lease) <= lease /\ GrantedLease(lease) <= LongestLease
           /\ lease <= LongestLease => GrantedLease(lease) = lease
<1>1. LongestLease \in Nat \ {0} /\ lease \in Int /\ LongestLease \in Int
  BY PortMappingAssumption
<1>2. GrantedLease(lease) = IF lease <= LongestLease THEN lease ELSE LongestLease
  BY <1>1, MaxMin DEF GrantedLease
<1> QED
  BY <1>1, <1>2

\* What a mapper asks for is a lease, and so is what it gets.
LEMMA AskedType ==
    ASSUME TypeOK
    PROVE  Asked \in Nat \ {0} /\ GrantedLease(Asked) \in Nat \ {0}
<1>1. Asked \in Nat \ {0}
  BY PortMappingAssumption DEF Asked, TypeOK, MapperType, Mapping
<1> QED
  BY <1>1, GrantTypes

\* What is left of a lease, and what the router reports of it.
LEMMA LeaseTypes ==
    ASSUME TypeOK, NEW lease \in Nat \ {0}
    PROVE  /\ Remaining(lease) \in Nat /\ Remaining(lease) <= lease
           /\ \A advertised \in BOOLEAN : Owned(lease, advertised) \in Mapping
           /\ table[mapper.port] # Nil /\ table[mapper.port].left # Forever =>
                ConservativeLeases(lease) \subseteq Nat \ {0}
<1>1. mapper.since \in Nat /\ mapper.port \in Port
  BY DEF TypeOK, MapperType
<1>2. lease - mapper.since \in Int /\ lease - mapper.since <= lease
  BY <1>1
<1>3. Remaining(lease) = IF lease - mapper.since >= 0 THEN lease - mapper.since ELSE 0
  BY <1>2, MaxMin DEF Remaining
<1>4. Remaining(lease) \in Nat /\ Remaining(lease) <= lease
  BY <1>2, <1>3
<1>5. \A advertised \in BOOLEAN : Owned(lease, advertised) \in Mapping
  BY <1>4 DEF Owned, Mapping
<1>6. ASSUME table[mapper.port] # Nil, table[mapper.port].left # Forever
      PROVE  ConservativeLeases(lease) \subseteq Nat \ {0}
  <2>1. table[mapper.port].left \in Nat \ {0}
    BY <1>1, <1>6 DEF TypeOK, Entry
  <2> DEFINE left == table[mapper.port].left
             granted == GrantedLease(lease)
  <2>2. granted \in Nat \ {0}
    BY GrantTypes
  <2> HIDE DEF left, granted
  <2>3. Min({granted, left}) \in Nat \ {0}
    <3>1. granted \in Int /\ left \in Int
      BY <2>1, <2>2 DEF left
    <3>2. Min({granted, left}) = IF granted <= left THEN granted ELSE left
      BY <3>1, MaxMin
    <3> QED
      BY <2>1, <2>2, <3>2 DEF left
  <2> QED
    BY <2>2, <2>3 DEF ConservativeLeases, left, granted
<1> QED
  BY <1>4, <1>5, <1>6

-----------------------------------------------------------------------------
(* Type correctness *)

\* A call costs the setting nothing, or a fault.
LEMMA Costs ==
    ASSUME TypeOK, NEW kinds \in SUBSET {"lost", "failed", "refused", "denied"},
           NEW background \in BOOLEAN, NEW answer \in Answers(kinds, background),
           Spend(answer, background)
    PROVE  /\ setting' \in SettingType
           /\ setting'.supported = setting.supported /\ setting'.lasting = setting.lasting
           /\ answer \in {"done"} \cup kinds \cup {"failed"}
           /\ answer \in {"lost", "refused", "denied"} \cap kinds => mapper.by \in setting.supported
           /\ answer = "done" => mapper.by \in setting.supported
           /\ \/ setting'.failed = setting.failed + 1
              \/ /\ setting' = setting
                 /\ \/ answer = "done"
                    \/ mapper.by \notin setting.supported /\ answer = "failed"
                    \/ /\ Stopped /\ ~background /\ mapper.by # "natpmp"
                       /\ answer \in {"lost", "failed"}
<1>1. setting \in SettingType
  BY DEF TypeOK
<1>2. CASE mapper.by \notin setting.supported
  <2>1. setting' = setting /\ answer = "failed"
    BY <1>2 DEF Spend, Answers
  <2> QED
    BY <1>1, <1>2, <2>1
<1>3. CASE mapper.by \in setting.supported /\ answer \in {"done"} \cup Interruptions(background)
  <2>1. setting' = setting
    BY <1>3 DEF Spend
  <2>2. answer \in {"done"} \cup kinds
    BY <1>3 DEF Answers
  <2>3. answer # "done" => Stopped /\ ~background /\ mapper.by # "natpmp"
                              /\ answer \in {"lost", "failed"}
    BY <1>3 DEF Interruptions
  <2> QED
    BY <1>1, <1>3, <2>1, <2>2, <2>3
<1>4. CASE mapper.by \in setting.supported /\ answer \notin {"done"} \cup Interruptions(background)
  <2>1. setting' = [setting EXCEPT !.faults = @ - 1, !.failed = @ + 1]
    BY <1>4 DEF Spend
  <2>2. answer \in kinds /\ setting.faults > 0
    BY <1>4 DEF Answers
  <2>3. setting.faults - 1 \in Nat
    BY <1>1, <2>2 DEF SettingType
  <2>4. setting' \in SettingType
    <3> DEFINE faults == setting.faults - 1
               failed == setting.failed + 1
    <3>1. faults \in Nat /\ failed \in Nat
      BY <1>1, <2>3 DEF SettingType
    <3>2. setting' = [setting EXCEPT !.faults = faults, !.failed = failed]
      BY <2>1
    <3> HIDE DEF faults, failed
    <3> QED
      BY <1>1, <3>1, <3>2 DEF SettingType
  <2>5. /\ setting'.failed = setting.failed + 1
        /\ setting'.supported = setting.supported /\ setting'.lasting = setting.lasting
    BY <1>1, <2>1 DEF SettingType
  <2> QED
    BY <1>4, <2>2, <2>4, <2>5
<1> QED
  BY <1>2, <1>3, <1>4

\* The moves of a mapper that several steps share.
LEMMA MovesType ==
    ASSUME TypeOK
    PROVE  /\ \A pc \in Pc : Go(pc) => mapper' \in MapperType
           /\ Fails => mapper' \in MapperType
           /\ FailsKeeping => mapper' \in MapperType
           /\ \A then \in Then : DeleteThen(then) => mapper' \in MapperType
           /\ Return => mapper' \in MapperType
           /\ Reject => mapper' \in MapperType
           /\ NextPort => mapper' \in MapperType
<1>1. mapper \in MapperType
  BY DEF TypeOK
<1>2. \A pc \in Pc : Go(pc) => mapper' \in MapperType
  BY <1>1 DEF Go, MapperType
<1>3. Fails => mapper' \in MapperType
  BY <1>1, ZenonT(60) DEF Fails, MapperType, Pc
<1>4. FailsKeeping => mapper' \in MapperType
  BY <1>1 DEF FailsKeeping, MapperType, Pc
<1>5. \A then \in Then : DeleteThen(then) => mapper' \in MapperType
  BY <1>1, ZenonT(60) DEF DeleteThen, MapperType, Pc
<1>6. Return => mapper' \in MapperType
  BY <1>2, <1>5 DEF Return, Pc, Then
<1>7. Reject => mapper' \in MapperType
  BY <1>1, ZenonT(60) DEF Reject, MapperType, Pc, Then
<1>8. NextPort => mapper' \in MapperType
  <2>1. \A p \in Port : mapper' = [mapper EXCEPT !.pc = "check", !.port = p, !.used = @ \cup {p}]
            => mapper' \in MapperType
    <3> TAKE p \in Port
    <3> DEFINE used == mapper.used \cup {p}
    <3>1. used \in SUBSET Port
      BY <1>1 DEF MapperType
    <3> HIDE DEF used
    <3>2. [mapper EXCEPT !.pc = "check", !.port = p, !.used = used] \in MapperType
      BY <1>1, <3>1 DEF MapperType, Pc
    <3> QED
      BY <3>2 DEF used
  <2> QED
    BY <1>3, <2>1 DEF NextPort
<1> QED
  BY <1>2, <1>3, <1>4, <1>5, <1>6, <1>7, <1>8

\* The return from a deletion.
LEMMA DeleteEndsType ==
    ASSUME TypeOK, Places, mapper.pc \in {"look", "delete", "unmap"},
           NEW confirmed \in BOOLEAN, DeleteEnds(confirmed)
    PROVE  mapper' \in MapperType
<1>1. mapper \in MapperType /\ mapper.then \in Then \ {"loop"}
  BY DEF TypeOK, Places, MapperType
<1>2. CASE mapper.then = "return"
  BY <1>2, MovesType DEF DeleteEnds, Pc
<1>3. CASE mapper.then = "expired"
  <2>1. mapper' = [mapper EXCEPT !.pc = "publish", !.then = "loop", !.owned = Nil,
                                     !.err = TRUE, !.attempted = FALSE]
    BY <1>3 DEF DeleteEnds
  <2> QED
    BY <1>1, <2>1 DEF MapperType, Pc, Then
<1>4. CASE mapper.then = "stale"
  <2>1. mapper' = [mapper EXCEPT !.pc = "publish", !.then = "wait", !.owned = Nil,
                                     !.err = TRUE, !.attempted = FALSE]
    BY <1>4 DEF DeleteEnds
  <2> QED
    BY <1>1, <2>1 DEF MapperType, Pc, Then
<1>5. CASE mapper.then = "wait"
  <2>1. mapper' = [mapper EXCEPT !.pc = "wait", !.attempted = FALSE]
    BY <1>5 DEF DeleteEnds
  <2> QED
    BY <1>1, <2>1 DEF MapperType, Pc, Then
<1>6. CASE mapper.then = "rollback"
  BY <1>6, MovesType DEF DeleteEnds
<1>7. CASE mapper.then = "reject"
  BY <1>7, MovesType DEF DeleteEnds
<1> QED
  BY <1>1, <1>2, <1>3, <1>4, <1>5, <1>6, <1>7 DEF Then

\* An action that leaves the supervisor and the queue alone.
LEMMA FrameType ==
    ASSUME TypeOK, table' \in [Port -> Entry \cup {Nil}], setting' \in SettingType,
           mapper' \in MapperType, UNCHANGED <<states, sup, holdoff, shown, cancelled>>
    PROVE  TypeOK'
BY DEF TypeOK

\* The table without some entries, resp. with one of another kind.
LEMMA TableTypes ==
    ASSUME TypeOK
    PROVE  /\ \A p \in Port, e \in Entry \cup {Nil} :
                [table EXCEPT ![p] = e] \in [Port -> Entry \cup {Nil}]
           /\ \A by \in Protocol, left \in (Nat \ {0}) \cup {Forever} :
                [by |-> by, left |-> left] \in Entry
           /\ \A p \in Port : table[p] # Nil => table[p] \in Entry
           /\ mapper.by \in Protocol
BY ProviderFacts DEF TypeOK, Entry, MapperType

LEMMA LookType ==
    ASSUME TypeOK, Places, Look
    PROVE  TypeOK'
<1>1. PICK answer \in Answers({"failed"}, InBackground) :
        /\ Spend(answer, InBackground)
        /\ IF answer = "done" /\ Matches(mapper.port)
           THEN mapper' = [mapper EXCEPT !.pc = "delete", !.raced = FALSE]
           ELSE DeleteEnds(answer = "done")
  BY DEF Look
<1>2. InBackground \in BOOLEAN
  BY DEF InBackground
<1>3. setting' \in SettingType
  BY <1>1, <1>2, Costs
<1>4. mapper' \in MapperType
  <2>1. [mapper EXCEPT !.pc = "delete", !.raced = FALSE] \in MapperType
    BY DEF TypeOK, MapperType, Pc
  <2>2. (answer = "done") \in BOOLEAN
    OBVIOUS
  <2> QED
    BY <1>1, <2>1, <2>2, DeleteEndsType DEF Look
<1> QED
  BY <1>3, <1>4, FrameType DEF TypeOK, Look

LEMMA DeleteType ==
    ASSUME TypeOK, Places, Delete
    PROVE  TypeOK'
<1>1. PICK answer \in Answers({"lost", "failed"}, InBackground) :
        /\ Spend(answer, InBackground)
        /\ table' = IF answer = "failed" THEN table ELSE [table EXCEPT ![mapper.port] = Nil]
        /\ DeleteEnds(answer = "done")
  BY DEF Delete
<1>2. InBackground \in BOOLEAN
  BY DEF InBackground
<1>3. setting' \in SettingType
  BY <1>1, <1>2, Costs
<1>4. mapper' \in MapperType
  BY <1>1, DeleteEndsType DEF Delete
<1>5. table' \in [Port -> Entry \cup {Nil}]
  BY <1>1 DEF TypeOK
<1> QED
  BY <1>3, <1>4, <1>5, FrameType DEF Delete

LEMMA UnmapType ==
    ASSUME TypeOK, Places, Unmap
    PROVE  TypeOK'
<1>1. PICK answer \in Answers({"lost", "failed"}, TRUE) :
        /\ Spend(answer, TRUE)
        /\ table' = IF answer = "failed" THEN table
                    ELSE [p \in Port |-> IF Matches(p) THEN Nil ELSE table[p]]
        /\ DeleteEnds(answer = "done")
  BY DEF Unmap
<1>3. setting' \in SettingType
  BY <1>1, Costs
<1>4. mapper' \in MapperType
  BY <1>1, DeleteEndsType DEF Unmap
<1>5. table' \in [Port -> Entry \cup {Nil}]
  BY <1>1 DEF TypeOK
<1> QED
  BY <1>3, <1>4, <1>5, FrameType DEF Unmap

\* Where an attempt begins.
LEMMA LoopType ==
    ASSUME TypeOK, Loop
    PROVE  TypeOK'
<1>1. mapper' \in MapperType
  <2>1. mapper \in MapperType /\ mapper.by \in Protocol
    BY TableTypes DEF TypeOK
  <2>2. [mapper EXCEPT !.pc = "publish", !.then = "loop", !.owned = Nil, !.err = TRUE] \in MapperType
    BY <2>1 DEF MapperType, Pc, Then
  <2>3. \A pc \in Pc : [mapper EXCEPT !.err = FALSE, !.retryAfter = FALSE, !.since = 0, !.pc = pc]
                            \in MapperType
    BY <2>1 DEF MapperType
  <2>4. (IF mapper.owned = Nil THEN "discover"
         ELSE CASE mapper.by = "upnp" -> "check"
                [] mapper.by = "natpmp" -> "query"
                [] mapper.by = "pcp" -> "request") \in Pc
    BY <2>1 DEF Protocol, Pc
  <2>5. "expired" \in Then
    BY DEF Then
  <2> QED
    BY <2>2, <2>3, <2>4, <2>5, MovesType DEF Loop
<1> QED
  BY <1>1, FrameType DEF TypeOK, Loop

LEMMA DiscoverType ==
    ASSUME TypeOK, Discover
    PROVE  TypeOK'
<1>1. PICK answer \in Answers({"failed"}, FALSE) :
        /\ Spend(answer, FALSE)
        /\ IF answer = "failed" THEN Fails
           ELSE mapper' = [mapper EXCEPT
                    !.port = InternalPort, !.used = {InternalPort},
                    !.pc = CASE mapper.by = "upnp" -> "check"
                             [] mapper.by = "natpmp" -> "query"
                             [] mapper.by = "pcp" -> "request"]
  BY DEF Discover
<1>2. setting' \in SettingType
  BY <1>1, Costs
<1>3. mapper' \in MapperType
  <2>1. mapper \in MapperType /\ mapper.by \in Protocol
    BY TableTypes DEF TypeOK
  <2>2. (CASE mapper.by = "upnp" -> "check"
           [] mapper.by = "natpmp" -> "query"
           [] mapper.by = "pcp" -> "request") \in Pc
    BY <2>1 DEF Protocol, Pc
  <2>3. \A pc \in Pc : [mapper EXCEPT !.port = InternalPort, !.used = {InternalPort}, !.pc = pc]
                            \in MapperType
    <3> DEFINE used == {InternalPort}
    <3>1. InternalPort \in Port /\ used \in SUBSET Port
      BY PortMappingAssumption
    <3> HIDE DEF used
    <3>2. \A pc \in Pc : [mapper EXCEPT !.port = InternalPort, !.used = used, !.pc = pc]
                            \in MapperType
      BY <2>1, <3>1 DEF MapperType
    <3> QED
      BY <3>2 DEF used
  <2> QED
    BY <1>1, <2>2, <2>3, MovesType
<1> QED
  BY <1>2, <1>3, FrameType DEF TypeOK, Discover

LEMMA JudgeType ==
    ASSUME TypeOK, Judge
    PROVE  TypeOK'
<1>1. mapper' \in MapperType
  <2>1. mapper \in MapperType
    BY DEF TypeOK
  <2>2. /\ [mapper EXCEPT !.pc = "publish", !.then = "wait", !.owned = Nil, !.err = TRUE] \in MapperType
        /\ [mapper EXCEPT !.pc = "publish", !.then = "wait"] \in MapperType
        /\ "stale" \in Then
    BY <2>1 DEF MapperType, Pc, Then
  <2> QED
    BY <2>2, MovesType DEF Judge
<1> QED
  BY <1>1, FrameType DEF TypeOK, Judge

\* What is published is what the mapper believes.
LEMMA CurrentStateType ==
    ASSUME TypeOK
    PROVE  CurrentState \in StateType
BY DEF TypeOK, MapperType, Mapping, StateType, Published, CurrentState

LEMMA PublishType ==
    ASSUME TypeOK, Places, Publish
    PROVE  TypeOK'
<1>1. mapper' \in MapperType
  <2>1. mapper.then \in Pc /\ "wait" \in Then
    BY DEF Publish, Places, Pc, Then
  <2> QED
    BY <2>1, MovesType DEF Publish
<1>2. states' \in Seq(StateType)
  BY CurrentStateType DEF TypeOK, Publish
<1> QED
  BY <1>1, <1>2 DEF TypeOK, Publish

LEMMA WaitType ==
    ASSUME TypeOK, Wait
    PROVE  TypeOK'
<1>1. mapper' \in MapperType
  BY MovesType DEF Wait, Pc
<1> QED
  BY <1>1, FrameType DEF TypeOK, Wait

LEMMA CheckType ==
    ASSUME TypeOK, Check
    PROVE  TypeOK'
<1>1. PICK answer \in Answers({"failed"}, FALSE) :
        /\ Spend(answer, FALSE)
        /\ \/ FailsKeeping \/ Fails \/ NextPort \/ Reject
           \/ mapper' = [mapper EXCEPT !.pc = "add", !.since = 0, !.raced = FALSE]
  BY DEF Check
<1>2. setting' \in SettingType
  BY <1>1, Costs
<1>3. [mapper EXCEPT !.pc = "add", !.since = 0, !.raced = FALSE] \in MapperType
  BY DEF TypeOK, MapperType, Pc
<1>4. mapper' \in MapperType
  BY <1>1, <1>3, MovesType
<1> QED
  BY <1>2, <1>4, FrameType DEF TypeOK, Check

\* What AddPortMapping does, in one formula.
AddDoes(answer) ==
    /\ Spend(answer, FALSE)
    /\ LET free == table[mapper.port] = Nil \/ Matches(mapper.port) \/ setting.overwrites
           heard == answer \notin {"lost", "failed"}
       IN  /\ table' = IF ~free \/ answer \in {"failed", "refused"} THEN table
                       ELSE [table EXCEPT ![mapper.port] =
                                [by |-> "upnp",
                                 left |-> IF setting.lasting THEN Forever
                                         ELSE GrantedLease(Asked)]]
           /\ mapper' = [mapper EXCEPT !.pc = "verify",
                !.add = IF ~heard THEN "unknown" ELSE IF ~free THEN "conflict"
                        ELSE IF answer = "done" THEN "ok" ELSE "refused"]

LEMMA AddType ==
    ASSUME TypeOK, Add
    PROVE  TypeOK'
<1>1. PICK answer \in Answers({"lost", "failed", "refused", "denied"}, FALSE) : AddDoes(answer)
  BY Zenon DEF Add, AddDoes
<1>2. setting' \in SettingType
  BY <1>1, Costs DEF AddDoes
<1>3. mapper' \in MapperType
  <2>1. \A add \in {"ok", "unknown", "conflict", "refused"} :
            [mapper EXCEPT !.pc = "verify", !.add = add] \in MapperType
    BY DEF TypeOK, MapperType, Pc
  <2> QED
    BY <1>1, <2>1 DEF AddDoes
<1>4. table' \in [Port -> Entry \cup {Nil}]
  <2> DEFINE left == IF setting.lasting THEN Forever ELSE GrantedLease(Asked)
  <2>1. GrantedLease(Asked) \in Nat \ {0}
    BY AskedType
  <2>2. [by |-> "upnp", left |-> left] \in Entry
    BY <2>1 DEF Entry, Protocol
  <2>3. mapper.port \in Port
    BY DEF TypeOK, MapperType
  <2>4. table' \in {table, [table EXCEPT ![mapper.port] = [by |-> "upnp", left |-> left]]}
    BY <1>1 DEF AddDoes
  <2> HIDE DEF left
  <2> QED
    BY <2>2, <2>3, <2>4 DEF TypeOK
<1> QED
  BY <1>2, <1>3, <1>4, FrameType DEF Add

\* What a mapper owns after a verification has a lease.
LEMMA OwnedType ==
    ASSUME TypeOK, NEW lease \in Nat \ {0}, NEW advertised \in BOOLEAN, NEW pc \in Pc
    PROVE  [mapper EXCEPT !.pc = pc, !.owned = Owned(lease, advertised)] \in MapperType
<1>1. Owned(lease, advertised) \in Mapping
  BY LeaseTypes
<1> QED
  BY <1>1 DEF TypeOK, MapperType

LEMMA VerifyNewType ==
    ASSUME TypeOK, NEW looked \in BOOLEAN, VerifyNew(looked)
    PROVE  mapper' \in MapperType
<1> DEFINE exact == looked /\ Matches(mapper.port)
<1>1. CASE exact /\ table[mapper.port].left # Forever /\ mapper.add \in {"ok", "unknown"}
  <2>1. PICK lease \in ConservativeLeases(Lease) :
            mapper' = [mapper EXCEPT !.pc = "external", !.owned = Owned(lease, FALSE)]
    BY <1>1 DEF VerifyNew
  <2>2. lease \in Nat \ {0}
    BY <1>1, <2>1, LeaseTypes, PortMappingAssumption DEF Matches
  <2> QED
    BY <2>1, <2>2, OwnedType DEF Pc
<1>2. CASE Pending
  <2>1. Owned(Lease, FALSE) \in Mapping
    BY LeaseTypes, PortMappingAssumption
  <2> QED
    BY <1>2, <2>1 DEF Pending, TypeOK, MapperType, Pc
<1>3. CASE Reject \/ NextPort \/ Fails
  BY <1>3, MovesType
<1> QED
  BY <1>1, <1>2, <1>3 DEF VerifyNew

LEMMA VerifyRenewedType ==
    ASSUME TypeOK, mapper.owned # Nil, NEW looked \in BOOLEAN, VerifyRenewed(looked)
    PROVE  mapper' \in MapperType
<1>1. CASE FailsKeeping \/ Fails \/ Reject
  BY <1>1, MovesType
<1>2. CASE /\ looked /\ Matches(mapper.port) /\ table[mapper.port].left # Forever
           /\ \E lease \in ConservativeLeases(mapper.owned.lease) :
                mapper' = [mapper EXCEPT !.pc = "renewed",
                                         !.owned = Owned(lease, mapper.owned.advertised)]
  <2>1. PICK lease \in ConservativeLeases(mapper.owned.lease) :
                mapper' = [mapper EXCEPT !.pc = "renewed",
                                         !.owned = Owned(lease, mapper.owned.advertised)]
    BY <1>2
  <2>2. mapper.owned.lease \in Nat \ {0} /\ mapper.owned.advertised \in BOOLEAN
    BY DEF TypeOK, MapperType, Mapping
  <2>3. lease \in Nat \ {0}
    BY <1>2, <2>1, <2>2, LeaseTypes DEF Matches
  <2> QED
    BY <2>1, <2>2, <2>3, OwnedType DEF Pc
<1> QED
  BY <1>1, <1>2 DEF VerifyRenewed

LEMMA VerifyType ==
    ASSUME TypeOK, Verify
    PROVE  TypeOK'
<1>1. PICK answer \in Answers({"failed"}, FALSE) :
        /\ Spend(answer, FALSE)
        /\ IF mapper.owned = Nil THEN VerifyNew(answer = "done") ELSE VerifyRenewed(answer = "done")
  BY DEF Verify
<1>2. setting' \in SettingType
  BY <1>1, Costs
<1>3. mapper' \in MapperType
  <2>1. (answer = "done") \in BOOLEAN
    OBVIOUS
  <2> QED
    BY <1>1, <2>1, VerifyNewType, VerifyRenewedType
<1> QED
  BY <1>2, <1>3, FrameType DEF TypeOK, Verify

LEMMA ExternalType ==
    ASSUME TypeOK, Places, External
    PROVE  TypeOK'
<1>1. PICK answer \in Answers({"failed"}, FALSE) :
        /\ Spend(answer, FALSE)
        /\ IF answer = "done"
           THEN mapper' = [mapper EXCEPT !.pc = "judge", !.owned.advertised = TRUE]
           ELSE IF mapper.pc = "renewed" THEN FailsKeeping ELSE DeleteThen("rollback")
  BY DEF External
<1>2. setting' \in SettingType
  BY <1>1, Costs
<1>3. [mapper EXCEPT !.pc = "judge", !.owned.advertised = TRUE] \in MapperType
  <2>1. mapper.owned \in Mapping
    BY DEF External, Places, TypeOK, MapperType
  <2>2. [mapper.owned EXCEPT !.advertised = TRUE] \in Mapping
    BY <2>1 DEF Mapping
  <2>3. [mapper EXCEPT !.pc = "judge", !.owned.advertised = TRUE]
          = [mapper EXCEPT !.pc = "judge", !.owned = [mapper.owned EXCEPT !.advertised = TRUE]]
    BY DEF TypeOK, MapperType
  <2> QED
    BY <2>2, <2>3 DEF TypeOK, MapperType, Pc
<1>4. mapper' \in MapperType
  BY <1>1, <1>3, MovesType DEF Then
<1> QED
  BY <1>2, <1>4, FrameType DEF TypeOK, External

LEMMA QueryType ==
    ASSUME TypeOK, Query
    PROVE  TypeOK'
<1>1. PICK answer \in Answers({"failed"}, FALSE) :
        /\ Spend(answer, FALSE)
        /\ \/ FailsKeeping
           \/ mapper' = [mapper EXCEPT !.pc = "request", !.since = 0, !.reset = FALSE]
  BY DEF Query
<1>2. setting' \in SettingType
  BY <1>1, Costs
<1>3. [mapper EXCEPT !.pc = "request", !.since = 0, !.reset = FALSE] \in MapperType
  BY DEF TypeOK, MapperType, Pc
<1>4. mapper' \in MapperType
  BY <1>1, <1>3, MovesType
<1> QED
  BY <1>2, <1>4, FrameType DEF TypeOK, Query

LEMMA ApplyNATPMPResultType ==
    ASSUME TypeOK, NEW p \in Port, NEW answer, ApplyNATPMPResult(p, answer)
    PROVE  mapper' \in MapperType
<1> DEFINE known == IF mapper.owned = Nil THEN Owned(Lease, FALSE) ELSE mapper.owned
<1>1. known \in Mapping
  BY LeaseTypes, PortMappingAssumption DEF TypeOK, MapperType
<1>2. Owned(GrantedLease(known.lease), TRUE) \in Mapping
  BY <1>1, GrantTypes, LeaseTypes DEF Mapping
<1> DEFINE next == Owned(GrantedLease(known.lease), TRUE)
<1>3. \/ mapper' = [mapper EXCEPT !.pc = "judge", !.port = p, !.owned = next]
      \/ mapper' = [mapper EXCEPT !.pc = "judge", !.err = TRUE, !.owned = known]
  BY DEF ApplyNATPMPResult
<1>4. next \in Mapping
  BY <1>2
<1> HIDE DEF known, next
<1>5. /\ [mapper EXCEPT !.pc = "judge", !.port = p, !.owned = next] \in MapperType
      /\ [mapper EXCEPT !.pc = "judge", !.err = TRUE, !.owned = known] \in MapperType
  BY <1>1, <1>4 DEF TypeOK, MapperType, Pc
<1> QED
  BY <1>3, <1>5

LEMMA PCPType ==
    ASSUME TypeOK
    PROVE  /\ \A p \in Port : ApplyPCPResponse(p) => mapper' \in MapperType
           /\ \A answer : PCPFails(answer) => mapper' \in MapperType
<1>1. ASSUME NEW p \in Port, ApplyPCPResponse(p)
      PROVE  mapper' \in MapperType
  <2> DEFINE next == Owned(GrantedLease(Asked), TRUE)
             reset == mapper.reset
  <2>1. next \in Mapping /\ reset \in BOOLEAN
    BY LeaseTypes, AskedType DEF TypeOK, MapperType
  <2>2. mapper' = [mapper EXCEPT !.pc = "judge", !.port = p, !.err = reset, !.reset = FALSE,
                                 !.attempted = TRUE, !.owned = next]
    BY <1>1 DEF ApplyPCPResponse
  <2> HIDE DEF next, reset
  <2> QED
    BY <2>1, <2>2 DEF TypeOK, MapperType, Pc
<1>2. ASSUME NEW answer, PCPFails(answer)
      PROVE  mapper' \in MapperType
  <2>1. PICK patience, ends \in BOOLEAN :
        mapper' = [mapper EXCEPT !.pc = "judge", !.err = TRUE, !.attempted = TRUE,
                                 !.retryAfter = patience, !.owned = IF ends THEN Nil ELSE @]
    BY <1>2 DEF PCPFails
  <2> DEFINE owned == IF ends THEN Nil ELSE mapper.owned
  <2>2. owned \in Mapping \cup {Nil}
    BY DEF TypeOK, MapperType
  <2>3. mapper' = [mapper EXCEPT !.pc = "judge", !.err = TRUE, !.attempted = TRUE,
                                 !.retryAfter = patience, !.owned = owned]
    BY <2>1 DEF TypeOK, MapperType
  <2> HIDE DEF owned
  <2> QED
    BY <2>2, <2>3 DEF TypeOK, MapperType, Pc
<1> QED
  BY <1>1, <1>2

\* The grant of a router goes to a port of the set.
LEMMA GrantedFacts ==
    /\ Granted \subseteq Port
    /\ \A p \in Granted : table[p] = Nil \/ Matches(p)
    /\ \A p \in Granted, q \in Port : Matches(q) => Matches(p)
BY PortMappingAssumption DEF Granted

LEMMA RequestType ==
    ASSUME TypeOK, Request
    PROVE  TypeOK'
<1>1. PICK answer \in Answers({"lost", "failed", "refused"}, FALSE) :
        /\ Spend(answer, FALSE)
        /\ \/ /\ answer \in {"done", "lost"}
              /\ \E p \in Granted :
                    /\ table' = [table EXCEPT ![p] = [by |-> mapper.by, left |-> GrantedLease(Asked)]]
                    /\ IF mapper.by = "natpmp" THEN ApplyNATPMPResult(p, answer)
                       ELSE IF answer = "done" THEN ApplyPCPResponse(p) ELSE PCPFails(answer)
           \/ /\ answer \notin {"done", "lost"} \/ Granted = {}
              /\ IF mapper.by = "natpmp" THEN ApplyNATPMPResult(mapper.port, "failed")
                 ELSE PCPFails(IF answer = "done" THEN "refused" ELSE answer)
              /\ UNCHANGED table
  BY Zenon DEF Request
<1>2. setting' \in SettingType
  BY <1>1, Costs
<1>3. mapper' \in MapperType /\ table' \in [Port -> Entry \cup {Nil}]
  <2>1. CASE \E p \in Granted :
                /\ table' = [table EXCEPT ![p] = [by |-> mapper.by, left |-> GrantedLease(Asked)]]
                /\ IF mapper.by = "natpmp" THEN ApplyNATPMPResult(p, answer)
                   ELSE IF answer = "done" THEN ApplyPCPResponse(p) ELSE PCPFails(answer)
    <3>1. PICK p \in Granted :
                /\ table' = [table EXCEPT ![p] = [by |-> mapper.by, left |-> GrantedLease(Asked)]]
                /\ IF mapper.by = "natpmp" THEN ApplyNATPMPResult(p, answer)
                   ELSE IF answer = "done" THEN ApplyPCPResponse(p) ELSE PCPFails(answer)
      BY <2>1
    <3>2. p \in Port /\ [by |-> mapper.by, left |-> GrantedLease(Asked)] \in Entry
      BY GrantedFacts, TableTypes, AskedType
    <3>3. table' \in [Port -> Entry \cup {Nil}]
      BY <3>1, <3>2, TableTypes
    <3>4. mapper' \in MapperType
      BY <3>1, <3>2, ApplyNATPMPResultType, PCPType, Zenon
    <3> QED
      BY <3>3, <3>4
  <2>2. CASE /\ IF mapper.by = "natpmp" THEN ApplyNATPMPResult(mapper.port, "failed")
                ELSE PCPFails(IF answer = "done" THEN "refused" ELSE answer)
             /\ UNCHANGED table
    <3>1. mapper.port \in Port
      BY DEF TypeOK, MapperType
    <3>2. mapper' \in MapperType
      BY <2>2, <3>1, ApplyNATPMPResultType, PCPType, Zenon
    <3> QED
      BY <2>2, <3>2 DEF TypeOK
  <2> QED
    BY <1>1, <2>1, <2>2, Zenon
<1> QED
  BY <1>2, <1>3, FrameType DEF Request

\* A new mapper.
LEMMA NewMapperType ==
    ASSUME NEW i \in DOMAIN Providers
    PROVE  NewMapper(Providers[i]) \in MapperType
<1> DEFINE used == {InternalPort}
           by == Providers[i]
<1>1. InternalPort \in Port /\ used \in SUBSET Port /\ by \in ToSet(Providers)
  BY PortMappingAssumption, ProviderFacts
<1>2. NewMapper(by) =
        [by |-> by, pc |-> "loop", then |-> "loop", add |-> "ok", port |-> InternalPort,
         used |-> used, owned |-> Nil, since |-> 0, err |-> FALSE, retryAfter |-> FALSE,
         attempted |-> FALSE, reset |-> FALSE, raced |-> FALSE, stop |-> FALSE]
  BY DEF NewMapper
<1> HIDE DEF used, by
<1>3. NewMapper(by) \in MapperType
  BY <1>1, <1>2 DEF MapperType, Pc, Then
<1> QED
  BY <1>3 DEF by

LEMMA PickType ==
    ASSUME TypeOK, Pick
    PROVE  TypeOK'
<1>1. sup' \in SupType
  <2> DEFINE tried == sup.tried + 1
  <2>1. sup \in SupType /\ tried \in Nat
    BY DEF TypeOK, SupType
  <2>2. \/ \E pc \in {"wait", "done"} : sup' = [sup EXCEPT !.pc = pc]
        \/ sup' = [sup EXCEPT !.tried = tried]
        \/ sup' = [sup EXCEPT !.pc = "select", !.active = FALSE, !.retryAfter = FALSE]
    BY DEF Pick
  <2> HIDE DEF tried
  <2> QED
    BY <2>1, <2>2 DEF SupType
<1>2. mapper' \in MapperType
  BY NewMapperType, IndexType DEF Pick, TypeOK
<1>3. shown' \in Published \cup {Nil} /\ states' = states
  BY DEF Pick, TypeOK
<1> QED
  BY <1>1, <1>2, <1>3 DEF Pick, TypeOK

LEMMA TakeStateType ==
    ASSUME TypeOK, TakeState
    PROVE  TypeOK'
<1>1. Head(states) \in StateType /\ Tail(states) \in Seq(StateType)
  BY HeadTailProperties DEF TakeState, TypeOK
<1>2. sup' \in SupType
  BY <1>1 DEF TakeState, TypeOK, SupType, StateType
<1>3. mapper' \in MapperType
  BY DEF TakeState, TypeOK, MapperType
<1>4. shown' \in Published \cup {Nil}
  BY <1>1 DEF TakeState, TypeOK, StateType
<1> QED
  BY <1>1, <1>2, <1>3, <1>4 DEF TakeState, TypeOK

LEMMA SelectDoneType ==
    ASSUME TypeOK, SelectDone
    PROVE  TypeOK'
<1>1. sup' \in SupType
  BY DEF SelectDone, TypeOK, SupType
<1>2. mapper' \in MapperType
  BY DEF SelectDone, TypeOK, MapperType
<1> QED
  BY <1>1, <1>2 DEF SelectDone, TypeOK

LEMMA StopType ==
    ASSUME TypeOK, Stop
    PROVE  TypeOK'
<1>1. sup' \in SupType
  <2>1. Index % Len(Providers) \in Nat
    BY IndexType, ProviderFacts
  <2>2. sup \in SupType
    BY DEF TypeOK
  <2>3. sup.tried + 1 \in Nat
    BY <2>2 DEF SupType
  <2> DEFINE next == Index % Len(Providers)
             tried == sup.tried + 1
  <2>4. \/ sup' = [sup EXCEPT !.pc = "done"]
        \/ sup' = [sup EXCEPT !.pc = "pick", !.next = next, !.tried = 0]
        \/ sup' = [sup EXCEPT !.pc = "pick", !.tried = tried]
    BY DEF Stop
  <2>5. next \in Nat /\ tried \in Nat
    BY <2>1, <2>3
  <2> HIDE DEF next, tried
  <2>6. [sup EXCEPT !.pc = "pick", !.next = next, !.tried = 0] \in SupType
    BY <2>2, <2>5 DEF SupType
  <2>7. /\ [sup EXCEPT !.pc = "done"] \in SupType
        /\ [sup EXCEPT !.pc = "pick", !.tried = tried] \in SupType
    BY <2>2, <2>5 DEF SupType
  <2> QED
    BY <2>4, <2>6, <2>7
<1>2. mapper' \in MapperType
  BY DEF Stop, TypeOK, MapperType, Pc
<1>3. table' \in [Port -> Entry \cup {Nil}]
  BY DEF Stop, Orphaned, TypeOK, Entry, Matches
<1>4. holdoff' \in [DOMAIN Providers -> BOOLEAN]
  BY IndexType DEF Stop, TypeOK, SupType
<1>5. states' \in Seq(StateType)
  BY DEF Stop
<1> QED
  BY <1>1, <1>2, <1>3, <1>4, <1>5 DEF Stop, TypeOK

LEMMA GatewayWaitType ==
    ASSUME TypeOK, GatewayWait
    PROVE  TypeOK'
<1>1. sup' \in SupType
  BY DEF GatewayWait, TypeOK, SupType
<1> QED
  BY <1>1 DEF GatewayWait, TypeOK

\* What time and a restart do to a mapping, believed or published.
LEMMA OlderType ==
    /\ \A m \in Mapping \cup {Nil} : Older(m) \in Mapping \cup {Nil} /\ Lost(m) \in Mapping \cup {Nil}
    /\ \A m \in Published \cup {Nil} : Older(m) \in Published \cup {Nil} /\ Lost(m) \in Published \cup {Nil}
<1>1. ASSUME NEW n \in Nat
      PROVE  Max({n - 1, 0}) \in Nat
  <2>1. n - 1 \in Int
    OBVIOUS
  <2>2. Max({n - 1, 0}) = IF n - 1 >= 0 THEN n - 1 ELSE 0
    BY <2>1, MaxMin
  <2> QED
    BY <2>2
<1>2. ASSUME NEW m \in Mapping
      PROVE  Older(m) \in Mapping \cup {Nil} /\ Lost(m) \in Mapping \cup {Nil}
  <2> DEFINE left == Max({m.left - 1, 0})
  <2>1. left \in Nat
    BY <1>1 DEF Mapping
  <2>2. Older(m) = IF m = Nil THEN Nil ELSE [m EXCEPT !.left = left]
    BY DEF Older
  <2> HIDE DEF left
  <2> QED
    BY <2>1, <2>2 DEF Mapping, Lost
<1>3. ASSUME NEW m \in Published
      PROVE  Older(m) \in Published \cup {Nil} /\ Lost(m) \in Published \cup {Nil}
  <2> DEFINE left == Max({m.left - 1, 0})
  <2>1. left \in Nat
    BY <1>1 DEF Published
  <2>2. Older(m) = IF m = Nil THEN Nil ELSE [m EXCEPT !.left = left]
    BY DEF Older
  <2> HIDE DEF left
  <2> QED
    BY <2>1, <2>2 DEF Published, Lost
<1> QED
  BY <1>2, <1>3 DEF Older, Lost

\* One function applied to the mappings of the queue.
LEMMA QueueMapType ==
    ASSUME TypeOK, NEW f, f = [m \in Published \cup {Nil} |-> f[m]],
           \A m \in Published \cup {Nil} : f[m] \in Published \cup {Nil}
    PROVE  [i \in DOMAIN states |-> [states[i] EXCEPT !.mapping = f[@]]] \in Seq(StateType)
<1>1. states \in Seq(StateType) /\ DOMAIN states = 1 .. Len(states) /\ Len(states) \in Nat
  BY DEF TypeOK
<1>2. ASSUME NEW i \in 1 .. Len(states)
      PROVE  [states[i] EXCEPT !.mapping = f[@]] \in StateType
  <2>1. states[i] \in StateType
    BY <1>1
  <2> DEFINE mapping == f[states[i].mapping]
  <2>2. mapping \in Published \cup {Nil}
    BY <2>1 DEF StateType
  <2>3. [states[i] EXCEPT !.mapping = f[@]] = [states[i] EXCEPT !.mapping = mapping]
    BY <2>1 DEF StateType
  <2> HIDE DEF mapping
  <2> QED
    BY <2>1, <2>2, <2>3 DEF StateType
<1> DEFINE entry(i) == [states[i] EXCEPT !.mapping = f[@]]
<1>3. \A i \in 1 .. Len(states) : entry(i) \in StateType
  BY <1>2
<1> HIDE DEF entry
<1>4. [i \in 1 .. Len(states) |-> entry(i)] \in Seq(StateType)
  BY <1>1, <1>3
<1> QED
  BY <1>1, <1>4 DEF entry

LEMMA TickType ==
    ASSUME TypeOK, Tick
    PROVE  TypeOK'
<1>1. setting' \in SettingType
  <2> DEFINE slow == setting.slow - 1
  <2>1. CASE Resting
    BY <2>1 DEF Tick, TypeOK
  <2>2. CASE ~Resting
    <3>1. setting \in SettingType /\ slow \in Nat
      BY <2>2 DEF Tick, TypeOK, SettingType
    <3>2. setting' = [setting EXCEPT !.slow = slow]
      BY <2>2 DEF Tick
    <3> HIDE DEF slow
    <3> QED
      BY <3>1, <3>2 DEF SettingType
  <2> QED
    BY <2>1, <2>2
<1>2. table' \in [Port -> Entry \cup {Nil}]
  <2>1. ASSUME NEW p \in Port, table[p] # Nil, table[p].left # Forever, table[p].left # 1
        PROVE  [table[p] EXCEPT !.left = @ - 1] \in Entry
    BY <2>1 DEF TypeOK, Entry
  <2>2. \A p \in Port : table'[p] \in Entry \cup {Nil}
    BY <2>1 DEF Tick, TypeOK
  <2>3. table' = [p \in Port |-> table'[p]]
    BY DEF Tick
  <2> HIDE DEF Tick
  <2> QED
    BY <2>2, <2>3
<1>3. mapper' \in MapperType
  <2>1. mapper \in MapperType
    BY DEF TypeOK
  <2>2. Min({mapper.since + 1, Lease}) \in Nat
    <3>1. mapper.since + 1 \in Nat /\ mapper.since + 1 \in Int /\ Lease \in Nat /\ Lease \in Int
      BY <2>1, PortMappingAssumption DEF MapperType
    <3>2. Min({mapper.since + 1, Lease}) = IF mapper.since + 1 <= Lease THEN mapper.since + 1 ELSE Lease
      BY <3>1, MaxMin
    <3> QED
      BY <3>1, <3>2
  <2>3. Older(mapper.owned) \in Mapping \cup {Nil}
    BY <2>1, OlderType DEF MapperType
  <2> DEFINE since == Min({mapper.since + 1, Lease})
             owned == Older(mapper.owned)
  <2>4. mapper' = [mapper EXCEPT !.owned = owned, !.since = since]
    BY <2>1 DEF Tick, MapperType
  <2>5. since \in Nat /\ owned \in Mapping \cup {Nil}
    BY <2>2, <2>3
  <2> HIDE DEF since, owned
  <2> QED
    BY <2>1, <2>4, <2>5 DEF MapperType
<1>4. states' \in Seq(StateType)
  <2> DEFINE f == [m \in Published \cup {Nil} |-> Older(m)]
  <2>1. [i \in DOMAIN states |-> [states[i] EXCEPT !.mapping = f[@]]] \in Seq(StateType)
    BY OlderType, QueueMapType
  <2>2. \A i \in DOMAIN states : states[i] \in StateType
    BY DEF TypeOK
  <2>3. \A i \in DOMAIN states :
          [states[i] EXCEPT !.mapping = f[@]] = [states[i] EXCEPT !.mapping = Older(@)]
    BY <2>2 DEF StateType
  <2> QED
    BY <2>1, <2>3 DEF Tick
<1>5. shown' \in Published \cup {Nil}
  BY OlderType DEF Tick, TypeOK
<1>6. holdoff' \in [DOMAIN Providers -> BOOLEAN]
  BY DEF Tick
<1> QED
  BY <1>1, <1>2, <1>3, <1>4, <1>5, <1>6 DEF Tick, TypeOK

LEMMA OtherTakesType ==
    ASSUME TypeOK, NEW p \in Port, OtherTakes(p)
    PROVE  TypeOK'
<1>1. setting' \in SettingType
  <2> DEFINE mishaps == setting.mishaps - 1
  <2>1. setting \in SettingType /\ mishaps \in Nat
    BY DEF OtherTakes, TypeOK, SettingType
  <2>2. setting' = [setting EXCEPT !.mishaps = mishaps]
    BY DEF OtherTakes
  <2> HIDE DEF mishaps
  <2> QED
    BY <2>1, <2>2 DEF SettingType
<1>2. table' \in [Port -> Entry \cup {Nil}]
  BY PortMappingAssumption DEF OtherTakes, TypeOK, Entry
<1>3. mapper' \in MapperType
  <2> DEFINE raced == mapper.raced \/ (mapper.pc \in {"delete", "add"} /\ mapper.port = p)
  <2>1. mapper \in MapperType /\ raced \in BOOLEAN
    BY DEF TypeOK, MapperType
  <2>2. mapper' = [mapper EXCEPT !.raced = raced]
    BY <2>1 DEF OtherTakes, MapperType
  <2> HIDE DEF raced
  <2> QED
    BY <2>1, <2>2 DEF MapperType
<1> QED
  BY <1>1, <1>2, <1>3 DEF OtherTakes, TypeOK

LEMMA RestartType ==
    ASSUME TypeOK, Restart
    PROVE  TypeOK'
<1>1. setting' \in SettingType
  <2> DEFINE mishaps == setting.mishaps - 1
             failed == setting.failed + 1
  <2>1. setting \in SettingType /\ mishaps \in Nat /\ failed \in Nat
    BY DEF Restart, TypeOK, SettingType
  <2>2. setting' = [setting EXCEPT !.mishaps = mishaps, !.failed = failed]
    BY DEF Restart
  <2> HIDE DEF mishaps, failed
  <2> QED
    BY <2>1, <2>2 DEF SettingType
<1>2. table' \in [Port -> Entry \cup {Nil}]
  BY DEF Restart
<1>3. mapper' \in MapperType
  <2> DEFINE owned == Lost(mapper.owned)
             reset == (mapper.by = "pcp" /\ mapper.owned # Nil) \/ mapper.by = "natpmp"
  <2>1. mapper \in MapperType /\ owned \in Mapping \cup {Nil} /\ reset \in BOOLEAN
    BY OlderType DEF TypeOK, MapperType
  <2>2. mapper' = [mapper EXCEPT !.owned = owned, !.reset = reset]
    BY <2>1 DEF Restart, MapperType
  <2> HIDE DEF owned, reset
  <2> QED
    BY <2>1, <2>2 DEF MapperType
<1>4. states' \in Seq(StateType)
  <2> DEFINE f == [m \in Published \cup {Nil} |-> Lost(m)]
  <2>1. [i \in DOMAIN states |-> [states[i] EXCEPT !.mapping = f[@]]] \in Seq(StateType)
    BY OlderType, QueueMapType
  <2>2. \A i \in DOMAIN states : states[i] \in StateType
    BY DEF TypeOK
  <2>3. \A i \in DOMAIN states :
          [states[i] EXCEPT !.mapping = f[@]] = [states[i] EXCEPT !.mapping = Lost(@)]
    BY <2>2 DEF StateType
  <2> QED
    BY <2>1, <2>3 DEF Restart
<1>5. shown' \in Published \cup {Nil}
  BY OlderType DEF Restart, TypeOK
<1> QED
  BY <1>1, <1>2, <1>3, <1>4, <1>5 DEF Restart, TypeOK

LEMMA InitType == Init => TypeOK
<1> SUFFICES ASSUME Init PROVE TypeOK
  OBVIOUS
<1>1. states \in Seq(StateType) /\ shown \in Published \cup {Nil} /\ cancelled \in BOOLEAN
  <2>1. states = <<>> /\ shown = Nil /\ cancelled = FALSE
    BY DEF Init
  <2>2. states \in Seq(StateType)
    BY <2>1, EmptySeq
  <2> QED
    BY <2>1, <2>2
<1>2. table \in [Port -> Entry \cup {Nil}]
  BY DEF Init
<1>3. setting \in SettingType
  BY PortMappingAssumption DEF Init, SettingType
<1>4. mapper \in MapperType
  <2>1. NewMapper(Providers[1]) \in MapperType
    BY NewMapperType, ProviderFacts
  <2> QED
    BY <2>1 DEF Init, MapperType, Pc
<1>5. sup \in SupType /\ holdoff \in [DOMAIN Providers -> BOOLEAN]
  BY DEF Init, SupType
<1> QED
  BY <1>1, <1>2, <1>3, <1>4, <1>5 DEF TypeOK

LEMMA StepType ==
    ASSUME TypeOK, Places, [Next]_vars
    PROVE  TypeOK'
<1>1. CASE MapperStep
  BY <1>1, LookType, DeleteType, UnmapType, LoopType, DiscoverType, JudgeType, PublishType,
     WaitType, CheckType, AddType, VerifyType, ExternalType, QueryType, RequestType DEF MapperStep
<1>2. CASE SupervisorStep
  BY <1>2, PickType, TakeStateType, SelectDoneType, StopType, GatewayWaitType DEF SupervisorStep
<1>3. CASE Tick \/ Restart \/ \E p \in Port : OtherTakes(p)
  BY <1>3, TickType, RestartType, OtherTakesType
<1>4. CASE Cancel \/ UNCHANGED vars
  BY <1>4 DEF Cancel, vars, TypeOK
<1> QED
  BY <1>1, <1>2, <1>3, <1>4 DEF Next

-----------------------------------------------------------------------------
(* The places of a mapper *)

SameMapper ==
    mapper'.by = mapper.by /\ mapper'.port = mapper.port /\ mapper'.attempted = mapper.attempted

\* Where the shared moves lead.
LEMMA Moves ==
    ASSUME TypeOK
    PROVE  /\ Fails => SameMapper /\ mapper'.pc = "judge" /\ mapper'.owned = Nil
           /\ FailsKeeping => SameMapper /\ mapper'.pc = "judge" /\ mapper'.owned = mapper.owned
           /\ \A then \in Then : DeleteThen(then) =>
                /\ SameMapper /\ mapper'.owned = mapper.owned
                /\ mapper'.pc = (IF mapper.by = "upnp" THEN "look" ELSE "unmap")
                /\ mapper'.then = then
           /\ Return =>
                /\ SameMapper /\ mapper'.owned = mapper.owned
                /\ \/ ~NeedsCleanup /\ mapper'.pc = "returned"
                   \/ /\ mapper'.pc = (IF mapper.by = "upnp" THEN "look" ELSE "unmap")
                      /\ mapper'.then = "return"
           /\ Reject => /\ SameMapper /\ mapper'.owned = Nil
                        /\ mapper'.pc = "look" /\ mapper'.then = "reject"
           /\ NextPort => /\ mapper'.by = mapper.by /\ mapper'.attempted = mapper.attempted
                          /\ \/ mapper'.pc = "judge" /\ mapper'.owned = Nil
                             \/ mapper'.pc = "check" /\ mapper'.owned = mapper.owned
BY DEF TypeOK, MapperType, Go, Fails, FailsKeeping, DeleteThen, Return, Reject, NextPort, Then,
       SameMapper

-----------------------------------------------------------------------------
(* Counting what is left *)

LEMMA LooseFinite ==
    /\ IsFiniteSet(Loose) /\ Cardinality(Loose) \in Nat
    /\ Loose \subseteq Port
<1>1. Loose \subseteq Port
  BY DEF Loose, OurPorts
<1>2. IsFiniteSet(Loose)
  BY <1>1, FS_Subset, PortMappingAssumption
<1> QED
  BY <1>1, <1>2, FS_CardinalityType

\* No step leaves more than one mapping behind, and a call that fails pays for it.
LEMMA CountedStep ==
    ASSUME TypeOK, TypeOK', Counted,
           \/ Loose' \subseteq Loose /\ setting.failed <= setting'.failed /\ (Slack' => Slack)
           \/ /\ \E x : Loose' \subseteq Loose \cup {x}
              /\ ~Slack'
              /\ \/ setting'.failed = setting.failed + 1
                 \/ setting'.failed = setting.failed /\ Slack
           \/ Loose' = {} /\ setting'.failed = setting.failed + 1
    PROVE  Counted'
<1>1. setting.failed \in Nat /\ setting'.failed \in Nat
  BY DEF TypeOK, SettingType
<1>2. IsFiniteSet(Loose) /\ Cardinality(Loose) \in Nat
  BY LooseFinite
<1>3. CASE Loose' \subseteq Loose /\ setting.failed <= setting'.failed /\ (Slack' => Slack)
  <2>1. Cardinality(Loose') \in Nat /\ Cardinality(Loose') <= Cardinality(Loose)
    BY <1>2, <1>3, FS_Subset, FS_CardinalityType
  <2> QED
    BY <1>1, <1>2, <1>3, <2>1 DEF Counted
<1>4. CASE /\ \E x : Loose' \subseteq Loose \cup {x}
           /\ ~Slack'
           /\ \/ setting'.failed = setting.failed + 1
              \/ setting'.failed = setting.failed /\ Slack
  <2>1. PICK x : Loose' \subseteq Loose \cup {x}
    BY <1>4
  <2>2. /\ IsFiniteSet(Loose \cup {x}) /\ Cardinality(Loose \cup {x}) \in Nat
        /\ Cardinality(Loose \cup {x}) <= Cardinality(Loose) + 1
    <3>1. /\ IsFiniteSet(Loose \cup {x})
          /\ Cardinality(Loose \cup {x}) = IF x \in Loose THEN Cardinality(Loose) ELSE Cardinality(Loose) + 1
      BY <1>2, FS_AddElement, Zenon
    <3> QED
      BY <1>2, <3>1
  <2>3. Cardinality(Loose') \in Nat /\ Cardinality(Loose') <= Cardinality(Loose \cup {x})
    BY <2>1, <2>2, FS_Subset, FS_CardinalityType
  <2> QED
    BY <1>1, <1>2, <1>4, <2>2, <2>3 DEF Counted
<1>5. CASE Loose' = {} /\ setting'.failed = setting.failed + 1
  <2>1. Cardinality(Loose') = 0
    BY <1>5, FS_EmptySet
  <2> QED
    BY <1>1, <1>5, <2>1 DEF Counted
<1> QED
  BY <1>3, <1>4, <1>5

\* A mapper holds one mapping at most, of a protocol the router supports.
LEMMA HoldsOne ==
    ASSUME TypeOK, Tables, NEW p \in Port, Holds(p)
    PROVE  /\ table[p] # Nil /\ table[p].by = mapper.by /\ mapper.by \in setting.supported
           /\ \A q \in Port : Holds(q) => q = p
<1>1. mapper.by \in Protocol
  BY TableTypes
<1> QED
  BY <1>1 DEF Holds, Matches, Tables, Protocol

\* A mapper takes a step and the router does not: nothing changes hands, or a call failed.
LEMMA QuietStep ==
    ASSUME TypeOK, TypeOK', Tables, Counted, table' = table, ~Slack',
           \/ setting'.failed = setting.failed + 1
           \/ /\ setting'.failed = setting.failed
              /\ \A p \in Port : Holds(p) /\ table[p].left # Forever => Holds(p)'
    PROVE  Counted'
<1>1. OurPorts' = OurPorts
  BY DEF OurPorts
<1>2. setting.failed \in Nat
  BY DEF TypeOK, SettingType
<1>3. CASE /\ setting'.failed = setting.failed
           /\ \A p \in Port : Holds(p) /\ table[p].left # Forever => Holds(p)'
  <2>1. Loose' \subseteq Loose
    BY <1>1, <1>3 DEF Loose, OurPorts
  <2> QED
    BY <1>2, <1>3, <2>1, CountedStep
<1>4. CASE setting'.failed = setting.failed + 1
  <2>1. \E x : Loose' \subseteq Loose \cup {x}
    <3>1. CASE \E p \in Port : Holds(p)
      <4>1. PICK p \in Port : Holds(p)
        BY <3>1
      <4>2. Loose' \subseteq Loose \cup {p}
        BY <1>1, <4>1, HoldsOne DEF Loose, OurPorts
      <4> QED
        BY <4>2
    <3>2. CASE ~\E p \in Port : Holds(p)
      BY <1>1, <3>2 DEF Loose, OurPorts
    <3> QED
      BY <3>1, <3>2
  <2> QED
    BY <1>4, <2>1, CountedStep
<1> QED
  BY <1>3, <1>4

-----------------------------------------------------------------------------
(* The steps of a mapper that leave the table of the router alone *)

\* The table stays, so what is said of it stays.
LEMMA TablesFrame ==
    ASSUME Tables, table' = table, setting'.supported = setting.supported
    PROVE  Tables'
BY DEF Tables

\* A mapper that does not go to a deletion, with the router and the supervisor left alone.
LEMMA FramePlaces ==
    ASSUME TypeOK, Places, mapper.pc # "off", mapper'.by = mapper.by, sup' = sup,
           \/ mapper'.pc \in {"loop", "judge", "wait", "returned"}
           \/ mapper'.pc = "publish" /\ mapper'.then \in {"loop", "wait"}
           \/ mapper'.pc \in {"check", "verify"} /\ mapper.by = "upnp"
           \/ mapper'.pc \in {"external", "renewed"} /\ mapper.by = "upnp" /\ mapper'.owned # Nil
           \/ mapper'.pc = "discover" /\ mapper'.owned = Nil
           \/ mapper'.pc = "query" /\ mapper.by = "natpmp"
           \/ mapper'.pc = "request" /\ mapper.by # "upnp"
           \/ /\ mapper'.pc = (IF mapper.by = "upnp" THEN "look" ELSE "unmap")
              /\ mapper'.then # "loop"
              /\ mapper'.then = "reject" => mapper'.owned = Nil
    PROVE  Places' /\ Untouched'
BY DEF Places, Untouched

\* What has to stay for a mapping to stay held.
LEMMA StaysHeld ==
    ASSUME TypeOK, table' = table, mapper'.by = mapper.by, mapper'.pc \notin {"off", "returned"},
           NEW p \in Port, Holds(p),
           mapper.by = "upnp" => mapper'.port = mapper.port /\ mapper'.owned # Nil,
           mapper.by = "natpmp" => mapper'.owned = mapper.owned,
           mapper.by = "pcp" => mapper'.attempted
    PROVE  Holds(p)'
BY TableTypes DEF Holds, Kept, Matches, Protocol

\* Who has nothing to clean up holds nothing.
LEMMA NothingHeld ==
    ASSUME TypeOK, ~NeedsCleanup, mapper.pc # "verify", NEW p \in Port
    PROVE  ~Holds(p)
BY TableTypes DEF Holds, Kept, NeedsCleanup, Protocol

\* The end of a mapper, or its way there.
LEMMA ReturnStep ==
    ASSUME TypeOK, TypeOK', Places, Tables, Counted, Return, mapper.pc \notin {"off", "verify"},
           UNCHANGED <<table, setting, sup>>
    PROVE  Places' /\ Untouched' /\ Tables' /\ Counted'
<1>1. /\ SameMapper /\ mapper'.owned = mapper.owned
      /\ \/ ~NeedsCleanup /\ mapper'.pc = "returned"
         \/ /\ mapper'.pc = (IF mapper.by = "upnp" THEN "look" ELSE "unmap")
            /\ mapper'.then = "return"
  BY Moves
<1>2. Places' /\ Untouched'
  BY <1>1, FramePlaces DEF SameMapper
<1>3. \A p \in Port : Holds(p) => Holds(p)'
  <2> SUFFICES ASSUME NEW p \in Port, Holds(p) PROVE Holds(p)'
    OBVIOUS
  <2>1. NeedsCleanup
    BY NothingHeld
  <2>2. mapper'.pc \notin {"off", "returned"}
    BY <1>1, <2>1
  <2>3. mapper.by = "upnp" => mapper.owned # Nil
    BY <2>1 DEF NeedsCleanup
  <2>4. mapper.by = "pcp" => mapper.attempted
    BY <2>1 DEF NeedsCleanup
  <2> QED
    BY <1>1, <2>2, <2>3, <2>4, StaysHeld DEF SameMapper
<1>4. ~Slack'
  BY <1>1 DEF Slack
<1> QED
  BY <1>2, <1>3, <1>4, TablesFrame, QuietStep

LEMMA LoopStep ==
    ASSUME TypeOK, TypeOK', Places, Tables, Counted, Loop
    PROVE  Places' /\ Untouched' /\ Tables' /\ Counted'
<1>1. mapper \in MapperType /\ mapper.by \in Protocol
  BY TableTypes DEF TypeOK
<1>2. UNCHANGED <<table, setting, sup>> /\ mapper.pc = "loop"
  BY DEF Loop
<1>3. CASE Return
  BY <1>2, <1>3, ReturnStep
<1>4. CASE NeedsCleanup /\ mapper.owned # Nil /\ DeleteThen("expired")
  <2>1. /\ SameMapper /\ mapper'.owned = mapper.owned
        /\ mapper'.pc = (IF mapper.by = "upnp" THEN "look" ELSE "unmap") /\ mapper'.then = "expired"
    BY <1>4, Moves DEF Then
  <2>2. Places' /\ Untouched'
    BY <1>2, <2>1, FramePlaces DEF SameMapper
  <2>3. \A p \in Port : Holds(p) => Holds(p)'
    BY <1>2, <1>4, <2>1, StaysHeld DEF SameMapper, NeedsCleanup
  <2>4. ~Slack'
    BY <2>1 DEF Slack
  <2> QED
    BY <1>2, <2>2, <2>3, <2>4, TablesFrame, QuietStep
<1>5. CASE /\ ~NeedsCleanup
           /\ mapper' = [mapper EXCEPT !.pc = "publish", !.then = "loop", !.owned = Nil, !.err = TRUE]
  <2>1. mapper'.by = mapper.by /\ mapper'.pc = "publish" /\ mapper'.then = "loop"
    BY <1>1, <1>5 DEF MapperType
  <2>2. Places' /\ Untouched'
    BY <1>2, <2>1, FramePlaces
  <2>3. ~Slack' /\ \A p \in Port : ~Holds(p)
    BY <1>2, <1>5, <2>1, NothingHeld DEF Slack
  <2> QED
    BY <1>2, <2>2, <2>3, TablesFrame, QuietStep
<1>6. CASE mapper' = [mapper EXCEPT
                !.err = FALSE, !.retryAfter = FALSE, !.since = 0,
                !.pc = IF mapper.owned = Nil THEN "discover"
                       ELSE CASE mapper.by = "upnp" -> "check"
                              [] mapper.by = "natpmp" -> "query"
                              [] mapper.by = "pcp" -> "request"]
  <2>1. /\ mapper'.by = mapper.by /\ mapper'.port = mapper.port
        /\ mapper'.attempted = mapper.attempted /\ mapper'.owned = mapper.owned
        /\ mapper.owned = Nil => mapper'.pc = "discover"
        /\ mapper.owned # Nil => mapper'.pc = CASE mapper.by = "upnp" -> "check"
                                                [] mapper.by = "natpmp" -> "query"
                                                [] mapper.by = "pcp" -> "request"
    BY <1>1, <1>6 DEF MapperType
  <2>2. \/ mapper'.pc = "discover" /\ mapper'.owned = Nil
        \/ mapper'.pc = "check" /\ mapper.by = "upnp"
        \/ mapper'.pc = "query" /\ mapper.by = "natpmp"
        \/ mapper'.pc = "request" /\ mapper.by = "pcp"
    BY <1>1, <2>1 DEF Protocol
  <2>3. Places' /\ Untouched'
    BY <1>2, <2>1, <2>2, FramePlaces
  <2>4. \A p \in Port : Holds(p) => Holds(p)'
    <3> SUFFICES ASSUME NEW p \in Port, Holds(p) PROVE Holds(p)'
      OBVIOUS
    <3>1. NeedsCleanup
      BY <1>2, NothingHeld
    <3> QED
      BY <1>2, <2>1, <2>2, <3>1, StaysHeld DEF NeedsCleanup
  <2>5. ~Slack'
    BY <2>1, <2>2 DEF Slack
  <2> QED
    BY <1>2, <2>3, <2>4, <2>5, TablesFrame, QuietStep
<1> QED
  BY <1>3, <1>4, <1>5, <1>6 DEF Loop

LEMMA JudgeStep ==
    ASSUME TypeOK, TypeOK', Places, Tables, Counted, Judge
    PROVE  Places' /\ Untouched' /\ Tables' /\ Counted'
<1>1. mapper \in MapperType /\ mapper.by \in Protocol
  BY TableTypes DEF TypeOK
<1>2. UNCHANGED <<table, setting, sup>> /\ mapper.pc = "judge"
  BY DEF Judge
<1>3. CASE Return
  BY <1>2, <1>3, ReturnStep
<1>4. CASE NeedsCleanup /\ mapper.owned # Nil /\ DeleteThen("stale")
  <2>1. /\ SameMapper /\ mapper'.owned = mapper.owned
        /\ mapper'.pc = (IF mapper.by = "upnp" THEN "look" ELSE "unmap") /\ mapper'.then = "stale"
    BY <1>4, Moves DEF Then
  <2>2. Places' /\ Untouched'
    BY <1>2, <2>1, FramePlaces DEF SameMapper
  <2>3. \A p \in Port : Holds(p) => Holds(p)'
    BY <1>2, <1>4, <2>1, StaysHeld DEF SameMapper, NeedsCleanup
  <2>4. ~Slack'
    BY <2>1 DEF Slack
  <2> QED
    BY <1>2, <2>2, <2>3, <2>4, TablesFrame, QuietStep
<1>5. CASE /\ ~NeedsCleanup
           /\ mapper' = [mapper EXCEPT !.pc = "publish", !.then = "wait", !.owned = Nil, !.err = TRUE]
  <2>1. mapper'.by = mapper.by /\ mapper'.pc = "publish" /\ mapper'.then = "wait"
    BY <1>1, <1>5 DEF MapperType
  <2>2. Places' /\ Untouched'
    BY <1>2, <2>1, FramePlaces
  <2>3. ~Slack' /\ \A p \in Port : ~Holds(p)
    BY <1>2, <1>5, <2>1, NothingHeld DEF Slack
  <2> QED
    BY <1>2, <2>2, <2>3, TablesFrame, QuietStep
<1>6. CASE mapper' = [mapper EXCEPT !.pc = "publish", !.then = "wait"]
  <2>1. /\ SameMapper /\ mapper'.owned = mapper.owned
        /\ mapper'.pc = "publish" /\ mapper'.then = "wait"
    BY <1>1, <1>6 DEF MapperType, SameMapper
  <2>2. Places' /\ Untouched'
    BY <1>2, <2>1, FramePlaces DEF SameMapper
  <2>3. ~Slack' /\ \A p \in Port : Holds(p) => Holds(p)'
    BY <1>2, <2>1, NothingHeld, StaysHeld DEF Slack, SameMapper, NeedsCleanup
  <2> QED
    BY <1>2, <2>2, <2>3, TablesFrame, QuietStep
<1> QED
  BY <1>3, <1>4, <1>5, <1>6 DEF Judge

LEMMA PublishStep ==
    ASSUME TypeOK, TypeOK', Places, Tables, Counted, Publish
    PROVE  Places' /\ Untouched' /\ Tables' /\ Counted'
<1>1. UNCHANGED <<table, setting, sup>> /\ mapper.pc = "publish" /\ mapper.then \in {"loop", "wait"}
  BY DEF Publish, Places
<1>2. CASE Return
  BY <1>1, <1>2, ReturnStep
<1>3. CASE (mapper.by = "pcp" /\ DeleteThen("wait")) \/ Go(mapper.then)
  <2>1. /\ SameMapper /\ mapper'.owned = mapper.owned
        /\ \/ mapper.by = "pcp" /\ mapper'.pc = "unmap" /\ mapper'.then = "wait"
           \/ mapper'.pc \in {"loop", "wait"}
    BY <1>1, <1>3, Moves DEF Then, Go, SameMapper, TypeOK, MapperType
  <2>2. Places' /\ Untouched'
    BY <1>1, <2>1, FramePlaces DEF SameMapper
  <2>3. ~Slack' /\ \A p \in Port : Holds(p) => Holds(p)'
    BY <1>1, <2>1, NothingHeld, StaysHeld DEF Slack, SameMapper, NeedsCleanup
  <2> QED
    BY <1>1, <2>2, <2>3, TablesFrame, QuietStep
<1> QED
  BY <1>2, <1>3 DEF Publish

LEMMA WaitStep ==
    ASSUME TypeOK, TypeOK', Places, Tables, Counted, Wait
    PROVE  Places' /\ Untouched' /\ Tables' /\ Counted'
<1>1. UNCHANGED <<table, setting, sup>> /\ mapper.pc = "wait"
  BY DEF Wait
<1>2. CASE Return
  BY <1>1, <1>2, ReturnStep
<1>3. CASE Go("loop")
  <2>1. SameMapper /\ mapper'.owned = mapper.owned /\ mapper'.pc = "loop"
    BY <1>3 DEF Go, SameMapper, TypeOK, MapperType
  <2>2. Places' /\ Untouched'
    BY <1>1, <2>1, FramePlaces DEF SameMapper
  <2>3. ~Slack' /\ \A p \in Port : Holds(p) => Holds(p)'
    BY <1>1, <2>1, NothingHeld, StaysHeld DEF Slack, SameMapper, NeedsCleanup
  <2> QED
    BY <1>1, <2>2, <2>3, TablesFrame, QuietStep
<1> QED
  BY <1>2, <1>3 DEF Wait

\* What a call costs, as far as the count is concerned.
LEMMA CallCosts ==
    ASSUME TypeOK, NEW kinds \in SUBSET {"lost", "failed", "refused", "denied"},
           NEW background \in BOOLEAN, NEW answer \in Answers(kinds, background),
           Spend(answer, background)
    PROVE  /\ setting'.supported = setting.supported
           /\ setting'.failed \in {setting.failed, setting.failed + 1}
BY Costs

LEMMA DiscoverStep ==
    ASSUME TypeOK, TypeOK', Places, Tables, Counted, Discover
    PROVE  Places' /\ Untouched' /\ Tables' /\ Counted'
<1>1. PICK answer \in Answers({"failed"}, FALSE) :
        /\ Spend(answer, FALSE)
        /\ IF answer = "failed" THEN Fails
           ELSE mapper' = [mapper EXCEPT
                    !.port = InternalPort, !.used = {InternalPort},
                    !.pc = CASE mapper.by = "upnp" -> "check"
                             [] mapper.by = "natpmp" -> "query"
                             [] mapper.by = "pcp" -> "request"]
  BY DEF Discover
<1>2. table' = table /\ sup' = sup /\ mapper.pc = "discover" /\ mapper.owned = Nil
  BY DEF Discover, Places
<1>3. setting'.supported = setting.supported /\ setting'.failed \in {setting.failed, setting.failed + 1}
  BY <1>1, CallCosts
<1>4. mapper \in MapperType /\ mapper.by \in Protocol
  BY TableTypes DEF TypeOK
<1>5. /\ mapper'.by = mapper.by /\ mapper'.attempted = mapper.attempted
      /\ \/ mapper'.pc = "judge"
         \/ mapper'.pc = "check" /\ mapper.by = "upnp"
         \/ mapper'.pc = "query" /\ mapper.by = "natpmp"
         \/ mapper'.pc = "request" /\ mapper.by = "pcp"
  <2>1. CASE Fails
    BY <2>1, Moves DEF SameMapper
  <2>2. CASE mapper' = [mapper EXCEPT
                    !.port = InternalPort, !.used = {InternalPort},
                    !.pc = CASE mapper.by = "upnp" -> "check"
                             [] mapper.by = "natpmp" -> "query"
                             [] mapper.by = "pcp" -> "request"]
    <3>1. /\ mapper'.by = mapper.by /\ mapper'.attempted = mapper.attempted
          /\ mapper'.pc = CASE mapper.by = "upnp" -> "check"
                            [] mapper.by = "natpmp" -> "query"
                            [] mapper.by = "pcp" -> "request"
      BY <1>4, <2>2 DEF MapperType
    <3> QED
      BY <1>4, <3>1 DEF Protocol
  <2> QED
    BY <1>1, <2>1, <2>2
<1>6. Places' /\ Untouched'
  BY <1>2, <1>5, FramePlaces
<1>7. ~Slack' /\ \A p \in Port : Holds(p) => Holds(p)'
  <2>1. \A p \in Port : Holds(p) => mapper.by = "pcp" /\ mapper.attempted
    BY <1>2 DEF Holds, Kept
  <2> QED
    BY <1>2, <1>5, <2>1, StaysHeld DEF Slack
<1> QED
  BY <1>2, <1>3, <1>6, <1>7, TablesFrame, QuietStep

LEMMA CheckStep ==
    ASSUME TypeOK, TypeOK', Places, Tables, Counted, Check
    PROVE  Places' /\ Untouched' /\ Tables' /\ Counted'
<1>1. PICK answer \in Answers({"failed"}, FALSE) :
        /\ Spend(answer, FALSE)
        /\ \/ FailsKeeping
           \/ Fails /\ ~Matches(mapper.port)
           \/ NextPort /\ ~Matches(mapper.port)
           \/ Reject /\ table[mapper.port].left = Forever
           \/ /\ mapper' = [mapper EXCEPT !.pc = "add", !.since = 0, !.raced = FALSE]
              /\ table[mapper.port] = Nil \/ Matches(mapper.port)
  BY DEF Check
<1>2. table' = table /\ sup' = sup /\ mapper.pc = "check" /\ mapper.by = "upnp"
  BY DEF Check, Places
<1>3. setting'.supported = setting.supported /\ setting'.failed \in {setting.failed, setting.failed + 1}
  BY <1>1, CallCosts
<1>4. /\ mapper'.by = mapper.by
      /\ \/ mapper'.pc \in {"judge", "check"}
         \/ /\ mapper'.pc = "add" /\ mapper'.port = mapper.port
            /\ table[mapper.port] = Nil \/ Matches(mapper.port)
         \/ mapper'.pc = "look" /\ mapper'.then = "reject" /\ mapper'.owned = Nil
      /\ \/ ~Matches(mapper.port) \/ table[mapper.port].left = Forever
         \/ mapper'.port = mapper.port /\ mapper'.owned = mapper.owned
  BY <1>1, Moves DEF SameMapper, TypeOK, MapperType
<1>5. Places' /\ Untouched'
  <2>1. CASE mapper'.pc = "add"
    <3>1. table'[mapper'.port] = Nil \/ table'[mapper'.port].by # "other"
      BY <1>2, <1>4, <2>1 DEF Matches
    <3> QED
      BY <1>2, <1>4, <2>1, <3>1 DEF Places, Untouched
  <2>2. CASE mapper'.pc # "add"
    BY <1>2, <1>4, <2>2, FramePlaces
  <2> QED
    BY <2>1, <2>2
<1>6. ~Slack' /\ \A p \in Port : Holds(p) /\ table[p].left # Forever => Holds(p)'
  <2>1. \A p \in Port : Holds(p) => p = mapper.port /\ Matches(mapper.port) /\ mapper.owned # Nil
    BY <1>2 DEF Holds
  <2> QED
    BY <1>2, <1>4, <2>1, StaysHeld DEF Slack
<1> QED
  BY <1>2, <1>3, <1>5, <1>6, TablesFrame, QuietStep

\* A verification ends with a mapping that is owned, or with nothing to own.
LEMMA VerifyMoves ==
    ASSUME TypeOK, NEW looked \in BOOLEAN,
           IF mapper.owned = Nil THEN VerifyNew(looked) ELSE VerifyRenewed(looked)
    PROVE  \/ Reject /\ table[mapper.port].left = Forever
           \/ SameMapper /\ mapper'.pc \in {"external", "renewed", "judge"} /\ mapper'.owned # Nil
           \/ NextPort /\ mapper.owned = Nil /\ mapper.add = "conflict"
           \/ Fails /\ mapper.owned = Nil /\ mapper.add = "refused"
           \/ Fails /\ ~Matches(mapper.port)
<1>1. mapper \in MapperType
  BY DEF TypeOK
<1>2. ASSUME NEW lease \in Nat \ {0}, NEW advertised \in BOOLEAN
      PROVE  Owned(lease, advertised) # Nil
  BY LeaseTypes, NilFacts
<1>3. ASSUME NEW requested \in Nat \ {0}, NEW advertised \in BOOLEAN,
             NEW lease \in ConservativeLeases(requested),
             Matches(mapper.port), table[mapper.port].left # Forever
      PROVE  Owned(lease, advertised) # Nil
  <2>1. lease \in Nat \ {0}
    BY <1>3, LeaseTypes DEF Matches
  <2> QED
    BY <1>2, <2>1
<1>4. CASE mapper.owned = Nil
  <2>1. VerifyNew(looked)
    BY <1>4
  <2>2. CASE Reject /\ table[mapper.port].left = Forever
    BY <2>2
  <2>3. CASE /\ Matches(mapper.port) /\ table[mapper.port].left # Forever
             /\ \E lease \in ConservativeLeases(Lease) :
                    mapper' = [mapper EXCEPT !.pc = "external", !.owned = Owned(lease, FALSE)]
    <3>1. PICK lease \in ConservativeLeases(Lease) :
                    mapper' = [mapper EXCEPT !.pc = "external", !.owned = Owned(lease, FALSE)]
      BY <2>3
    <3>2. Owned(lease, FALSE) # Nil
      BY <1>3, <2>3, PortMappingAssumption
    <3> QED
      BY <1>1, <3>1, <3>2 DEF MapperType, SameMapper
  <2>4. CASE NextPort /\ mapper.add = "conflict"
    BY <1>4, <2>4
  <2>5. CASE Fails /\ mapper.add = "refused"
    BY <1>4, <2>5
  <2>6. CASE Pending
    <3>1. /\ mapper'.by = mapper.by /\ mapper'.port = mapper.port
          /\ mapper'.attempted = mapper.attempted /\ mapper'.pc = "judge"
          /\ mapper'.owned = Owned(Lease, FALSE)
      BY <1>1, <2>6 DEF Pending, MapperType
    <3> QED
      BY <1>2, <3>1, PortMappingAssumption DEF SameMapper
  <2> QED
    BY <2>1, <2>2, <2>3, <2>4, <2>5, <2>6 DEF VerifyNew
<1>5. CASE mapper.owned # Nil
  <2>1. VerifyRenewed(looked)
    BY <1>5
  <2>2. CASE FailsKeeping
    BY <1>5, <2>2, Moves
  <2>3. CASE Fails /\ ~Matches(mapper.port)
    BY <2>3
  <2>4. CASE Reject /\ table[mapper.port].left = Forever
    BY <2>4
  <2>5. CASE /\ Matches(mapper.port) /\ table[mapper.port].left # Forever
             /\ \E lease \in ConservativeLeases(mapper.owned.lease) :
                    mapper' = [mapper EXCEPT !.pc = "renewed",
                                             !.owned = Owned(lease, mapper.owned.advertised)]
    <3>1. mapper.owned.lease \in Nat \ {0} /\ mapper.owned.advertised \in BOOLEAN
      BY <1>1, <1>5 DEF MapperType, Mapping
    <3>2. PICK lease \in ConservativeLeases(mapper.owned.lease) :
                    mapper' = [mapper EXCEPT !.pc = "renewed",
                                             !.owned = Owned(lease, mapper.owned.advertised)]
      BY <2>5
    <3>3. Owned(lease, mapper.owned.advertised) # Nil
      BY <1>3, <2>5, <3>1
    <3> QED
      BY <1>1, <3>2, <3>3 DEF MapperType, SameMapper
  <2> QED
    BY <2>1, <2>2, <2>3, <2>4, <2>5 DEF VerifyRenewed
<1> QED
  BY <1>4, <1>5

LEMMA VerifyStep ==
    ASSUME TypeOK, TypeOK', Places, Tables, Counted, Verify
    PROVE  Places' /\ Untouched' /\ Tables' /\ Counted'
<1>1. PICK answer \in Answers({"failed"}, FALSE) :
        /\ Spend(answer, FALSE)
        /\ IF mapper.owned = Nil THEN VerifyNew(answer = "done") ELSE VerifyRenewed(answer = "done")
  BY DEF Verify
<1>2. table' = table /\ sup' = sup /\ mapper.pc = "verify" /\ mapper.by = "upnp"
  BY DEF Verify, Places
<1>3. setting'.supported = setting.supported /\ setting'.failed \in {setting.failed, setting.failed + 1}
  BY <1>1, CallCosts
<1> DEFINE held == mapper.owned # Nil \/ mapper.add \in {"ok", "unknown"}
<1>4. \/ Reject /\ table[mapper.port].left = Forever
      \/ SameMapper /\ mapper'.pc \in {"external", "renewed", "judge"} /\ mapper'.owned # Nil
      \/ NextPort /\ mapper.owned = Nil /\ mapper.add = "conflict"
      \/ Fails /\ mapper.owned = Nil /\ mapper.add = "refused"
      \/ Fails /\ ~Matches(mapper.port)
  <2>1. (answer = "done") \in BOOLEAN
    OBVIOUS
  <2> QED
    BY <1>1, <2>1, VerifyMoves
<1>5. /\ mapper'.by = mapper.by
      /\ \/ mapper'.pc \in {"judge", "check"}
         \/ mapper'.pc \in {"external", "renewed"} /\ mapper'.owned # Nil
         \/ mapper'.pc = "look" /\ mapper'.then = "reject" /\ mapper'.owned = Nil
      /\ \/ ~held \/ ~Matches(mapper.port) \/ table[mapper.port].left = Forever
         \/ mapper'.port = mapper.port /\ mapper'.owned # Nil
  BY <1>4, Moves DEF SameMapper
<1>6. Places' /\ Untouched'
  BY <1>2, <1>5, FramePlaces
<1>7. ~Slack' /\ \A p \in Port : Holds(p) /\ table[p].left # Forever => Holds(p)'
  <2>1. \A p \in Port : Holds(p) => p = mapper.port /\ Matches(mapper.port) /\ held
    BY <1>2 DEF Holds
  <2> QED
    BY <1>2, <1>5, <2>1, StaysHeld DEF Slack
<1> QED
  BY <1>2, <1>3, <1>6, <1>7, TablesFrame, QuietStep

LEMMA ExternalStep ==
    ASSUME TypeOK, TypeOK', Places, Tables, Counted, External
    PROVE  Places' /\ Untouched' /\ Tables' /\ Counted'
<1>1. PICK answer \in Answers({"failed"}, FALSE) :
        /\ Spend(answer, FALSE)
        /\ \/ mapper' = [mapper EXCEPT !.pc = "judge", !.owned.advertised = TRUE]
           \/ FailsKeeping \/ DeleteThen("rollback")
  BY DEF External
<1>2. /\ table' = table /\ sup' = sup /\ mapper.pc \in {"external", "renewed"}
      /\ mapper.by = "upnp" /\ mapper.owned # Nil
  BY DEF External, Places
<1>3. setting'.supported = setting.supported /\ setting'.failed \in {setting.failed, setting.failed + 1}
  BY <1>1, CallCosts
<1>4. /\ mapper'.by = mapper.by /\ mapper'.port = mapper.port /\ mapper'.owned # Nil
      /\ \/ mapper'.pc = "judge"
         \/ mapper'.pc = "look" /\ mapper'.then = "rollback"
  <2>1. CASE mapper' = [mapper EXCEPT !.pc = "judge", !.owned.advertised = TRUE]
    <3>1. mapper.owned \in Mapping
      BY <1>2 DEF TypeOK, MapperType
    <3>2. mapper'.owned = [mapper.owned EXCEPT !.advertised = TRUE]
      BY <2>1 DEF TypeOK, MapperType
    <3>3. mapper'.owned \in Mapping
      BY <3>1, <3>2 DEF Mapping
    <3> QED
      BY <2>1, <3>3, NilFacts DEF TypeOK, MapperType
  <2>2. CASE FailsKeeping \/ DeleteThen("rollback")
    BY <1>2, <2>2, Moves DEF SameMapper, Then
  <2> QED
    BY <1>1, <2>1, <2>2
<1>5. Places' /\ Untouched'
  BY <1>2, <1>4, FramePlaces
<1>6. ~Slack' /\ \A p \in Port : Holds(p) => Holds(p)'
  BY <1>2, <1>4, StaysHeld DEF Slack
<1> QED
  BY <1>2, <1>3, <1>5, <1>6, TablesFrame, QuietStep

LEMMA QueryStep ==
    ASSUME TypeOK, TypeOK', Places, Tables, Counted, Query
    PROVE  Places' /\ Untouched' /\ Tables' /\ Counted'
<1>1. PICK answer \in Answers({"failed"}, FALSE) :
        /\ Spend(answer, FALSE)
        /\ \/ FailsKeeping
           \/ mapper' = [mapper EXCEPT !.pc = "request", !.since = 0, !.reset = FALSE]
  BY DEF Query
<1>2. table' = table /\ sup' = sup /\ mapper.pc = "query" /\ mapper.by = "natpmp"
  BY DEF Query, Places
<1>3. setting'.supported = setting.supported /\ setting'.failed \in {setting.failed, setting.failed + 1}
  BY <1>1, CallCosts
<1>4. /\ mapper'.by = mapper.by /\ mapper'.owned = mapper.owned
      /\ \/ mapper'.pc = "judge"
         \/ mapper'.pc = "request" /\ mapper'.reset = FALSE
  BY <1>1, Moves DEF SameMapper, TypeOK, MapperType
<1>5. Places' /\ Untouched'
  BY <1>2, <1>4, FramePlaces
<1>6. ~Slack' /\ \A p \in Port : Holds(p) => Holds(p)'
  BY <1>2, <1>4, StaysHeld DEF Slack
<1> QED
  BY <1>2, <1>3, <1>5, <1>6, TablesFrame, QuietStep

-----------------------------------------------------------------------------
(* Deletions *)

\* What a mapper does after a deletion.
LEMMA Ends ==
    ASSUME TypeOK, Places, mapper.pc \in {"look", "delete", "unmap"},
           NEW confirmed \in BOOLEAN, DeleteEnds(confirmed)
    PROVE  /\ mapper'.by = mapper.by /\ mapper'.port = mapper.port
           /\ \/ mapper'.pc \in {"returned", "wait", "judge"}
              \/ mapper'.pc = "publish" /\ mapper'.then \in {"loop", "wait"}
           /\ mapper.then = "rollback" /\ ~confirmed =>
                mapper'.pc = "judge" /\ mapper'.owned = mapper.owned
<1>1. mapper \in MapperType /\ mapper.then \in Then \ {"loop"}
  BY DEF TypeOK, Places, MapperType
<1>2. CASE mapper.then = "return"
  BY <1>1, <1>2 DEF DeleteEnds, Go, MapperType
<1>3. CASE mapper.then = "expired"
  <2>1. mapper' = [mapper EXCEPT !.pc = "publish", !.then = "loop", !.owned = Nil,
                                     !.err = TRUE, !.attempted = FALSE]
    BY <1>3 DEF DeleteEnds
  <2> QED
    BY <1>1, <1>3, <2>1 DEF MapperType
<1>4. CASE mapper.then = "stale"
  <2>1. mapper' = [mapper EXCEPT !.pc = "publish", !.then = "wait", !.owned = Nil,
                                     !.err = TRUE, !.attempted = FALSE]
    BY <1>4 DEF DeleteEnds
  <2> QED
    BY <1>1, <1>4, <2>1 DEF MapperType
<1>5. CASE mapper.then = "wait"
  <2>1. mapper' = [mapper EXCEPT !.pc = "wait", !.attempted = FALSE]
    BY <1>5 DEF DeleteEnds
  <2> QED
    BY <1>1, <1>5, <2>1 DEF MapperType
<1>6. CASE mapper.then = "rollback"
  <2>1. IF confirmed THEN Fails ELSE FailsKeeping
    BY <1>6 DEF DeleteEnds
  <2> QED
    BY <1>6, <2>1, Moves DEF SameMapper
<1>7. CASE mapper.then = "reject"
  <2>1. Fails
    BY <1>7 DEF DeleteEnds
  <2> QED
    BY <1>7, <2>1, Moves DEF SameMapper
<1> QED
  BY <1>1, <1>2, <1>3, <1>4, <1>5, <1>6, <1>7 DEF Then

\* A deletion that did not happen: the call failed, or the room was left in a rollback,
\* after which the mapping is still owned.
LEMMA EndsWithout ==
    ASSUME TypeOK, TypeOK', Places, Tables, Counted,
           mapper.pc \in {"look", "delete", "unmap"}, table' = table,
           NEW answer \in Answers({"lost", "failed"}, mapper.pc = "unmap" \/ InBackground),
           Spend(answer, mapper.pc = "unmap" \/ InBackground), answer = "failed",
           DeleteEnds(FALSE)
    PROVE  Counted'
<1> DEFINE background == mapper.pc = "unmap" \/ InBackground
<1>1. background \in BOOLEAN
  BY DEF InBackground
<1>2. \/ setting'.failed = setting.failed + 1
      \/ /\ setting' = setting
         /\ mapper.by \notin setting.supported \/ ~background
  <2> HIDE DEF background
  <2>1. answer \in Answers({"lost", "failed"}, background) /\ Spend(answer, background)
    BY DEF background
  <2> QED
    BY <1>1, <2>1, Costs
<1>3. ~Slack'
  BY Ends DEF Slack
<1>4. CASE setting'.failed = setting.failed + 1
  BY <1>3, <1>4, QuietStep
<1>5. CASE setting' = setting /\ mapper.by \notin setting.supported
  BY <1>3, <1>5, HoldsOne, QuietStep
<1>6. CASE setting' = setting /\ ~background
  <2>1. mapper.pc \in {"look", "delete"} /\ mapper.then \in {"rollback", "reject"} /\ mapper.by = "upnp"
    BY <1>6 DEF InBackground, Places
  <2>2. \A p \in Port : Holds(p) => Holds(p)'
    <3> SUFFICES ASSUME NEW p \in Port, Holds(p) PROVE Holds(p)'
      OBVIOUS
    <3>1. mapper.owned # Nil
      BY <2>1 DEF Holds
    <3>2. mapper.then = "rollback"
      BY <2>1, <3>1 DEF Places
    <3> QED
      BY <2>1, <3>1, <3>2, Ends, StaysHeld
  <2> QED
    BY <1>3, <1>6, <2>2, QuietStep
<1> QED
  BY <1>2, <1>4, <1>5, <1>6

LEMMA LookStep ==
    ASSUME TypeOK, TypeOK', Places, Tables, Counted, Look
    PROVE  Places' /\ Untouched' /\ Tables' /\ Counted'
<1>1. PICK answer \in Answers({"failed"}, InBackground) :
        /\ Spend(answer, InBackground)
        /\ IF answer = "done" /\ Matches(mapper.port)
           THEN mapper' = [mapper EXCEPT !.pc = "delete", !.raced = FALSE]
           ELSE DeleteEnds(answer = "done")
  BY DEF Look
<1>2. table' = table /\ sup' = sup /\ mapper.pc = "look" /\ mapper.by = "upnp"
  BY DEF Look, Places
<1>3. InBackground \in BOOLEAN /\ (answer = "done") \in BOOLEAN
  BY DEF InBackground
<1>4. /\ setting'.supported = setting.supported
      /\ setting'.failed \in {setting.failed, setting.failed + 1}
      /\ answer \in {"done", "failed"}
  BY <1>1, <1>3, Costs
<1>5. CASE answer = "done" /\ Matches(mapper.port)
  <2>1. /\ mapper'.by = mapper.by /\ mapper'.owned = mapper.owned /\ mapper'.port = mapper.port
        /\ mapper'.pc = "delete" /\ mapper'.then = mapper.then
    BY <1>1, <1>5 DEF TypeOK, MapperType
  <2>2. Places' /\ Untouched'
    BY <1>2, <1>5, <2>1 DEF Places, Untouched, Matches
  <2>3. ~Slack' /\ \A p \in Port : Holds(p) => Holds(p)'
    BY <1>2, <2>1, StaysHeld DEF Slack, Holds
  <2> QED
    BY <1>2, <1>4, <2>2, <2>3, TablesFrame, QuietStep
<1>6. CASE ~(answer = "done" /\ Matches(mapper.port))
  <2>1. DeleteEnds(answer = "done")
    BY <1>1, <1>6
  <2>2. Places' /\ Untouched'
    BY <1>2, <1>3, <2>1, Ends, FramePlaces
  <2>3. Counted'
    <3>1. CASE answer = "done"
      <4>1. ~Slack' /\ \A p \in Port : ~Holds(p)
        BY <1>2, <1>3, <1>6, <2>1, <3>1, Ends DEF Slack, Holds
      <4> QED
        BY <1>2, <1>4, <4>1, QuietStep
    <3>2. CASE answer = "failed"
      <4>1. Answers({"failed"}, InBackground) \subseteq Answers({"lost", "failed"}, InBackground)
        BY DEF Answers
      <4>2. (mapper.pc = "unmap" \/ InBackground) = InBackground
        BY <1>2, <1>3
      <4>3. DeleteEnds(FALSE)
        BY <2>1, <3>2
      <4> QED
        BY <1>1, <1>2, <3>2, <4>1, <4>2, <4>3, EndsWithout
    <3> QED
      BY <1>4, <3>1, <3>2
  <2> QED
    BY <1>2, <1>4, <2>2, <2>3, TablesFrame
<1> QED
  BY <1>5, <1>6

\* A table with fewer mappings of ours.
LEMMA TablesShrink ==
    ASSUME Tables, setting'.supported = setting.supported,
           \A p \in Port : table'[p] \in {table[p], Nil}
    PROVE  Tables'
BY DEF Tables

LEMMA DeleteStep ==
    ASSUME TypeOK, TypeOK', Places, Tables, Counted, Delete
    PROVE  Places' /\ Untouched' /\ Tables' /\ Counted'
<1>1. PICK answer \in Answers({"lost", "failed"}, InBackground) :
        /\ Spend(answer, InBackground)
        /\ table' = IF answer = "failed" THEN table ELSE [table EXCEPT ![mapper.port] = Nil]
        /\ DeleteEnds(answer = "done")
  BY DEF Delete
<1>2. sup' = sup /\ mapper.pc = "delete" /\ mapper.by = "upnp" /\ mapper.port \in Port
  BY DEF Delete, Places, TypeOK, MapperType
<1>3. InBackground \in BOOLEAN /\ (answer = "done") \in BOOLEAN
  BY DEF InBackground
<1>4. /\ setting'.supported = setting.supported
      /\ setting'.failed \in {setting.failed, setting.failed + 1}
      /\ setting.failed \in Nat
  BY <1>1, <1>3, CallCosts DEF TypeOK, SettingType
<1>5. Places' /\ Untouched'
  BY <1>1, <1>2, <1>3, Ends, FramePlaces
<1>6. Tables'
  BY <1>1, <1>2, <1>4, TablesShrink DEF TypeOK
<1>7. CASE answer = "failed"
  <2>1. (mapper.pc = "unmap" \/ InBackground) = InBackground
    BY <1>2, <1>3
  <2>2. DeleteEnds(FALSE) /\ table' = table
    BY <1>1, <1>7
  <2>3. Counted'
    BY <1>1, <1>2, <1>7, <2>1, <2>2, EndsWithout
  <2> QED
    BY <1>5, <1>6, <2>3
<1>8. CASE answer # "failed"
  <2>1. table' = [table EXCEPT ![mapper.port] = Nil]
    BY <1>1, <1>8
  <2>2. \A p \in Port : p # mapper.port => table'[p] = table[p] /\ ~Holds(p)
    BY <1>2, <2>1 DEF Holds, TypeOK
  <2>3. table'[mapper.port] = Nil
    BY <1>2, <2>1 DEF TypeOK
  <2>4. Loose' \subseteq Loose
    BY <2>2, <2>3 DEF Loose, OurPorts
  <2>5. ~Slack'
    BY <1>1, <1>2, <1>3, Ends DEF Slack
  <2> QED
    BY <1>4, <1>5, <1>6, <2>4, <2>5, CountedStep
<1> QED
  BY <1>7, <1>8

LEMMA UnmapStep ==
    ASSUME TypeOK, TypeOK', Places, Tables, Counted, Unmap
    PROVE  Places' /\ Untouched' /\ Tables' /\ Counted'
<1>1. PICK answer \in Answers({"lost", "failed"}, TRUE) :
        /\ Spend(answer, TRUE)
        /\ table' = IF answer = "failed" THEN table
                    ELSE [p \in Port |-> IF Matches(p) THEN Nil ELSE table[p]]
        /\ DeleteEnds(answer = "done")
  BY DEF Unmap
<1>2. sup' = sup /\ mapper.pc = "unmap" /\ mapper.by # "upnp" /\ (answer = "done") \in BOOLEAN
  BY DEF Unmap, Places
<1>3. /\ setting'.supported = setting.supported
      /\ setting'.failed \in {setting.failed, setting.failed + 1}
      /\ setting.failed \in Nat
  BY <1>1, CallCosts DEF TypeOK, SettingType
<1>4. Places' /\ Untouched'
  BY <1>1, <1>2, Ends, FramePlaces
<1>5. Tables'
  BY <1>1, <1>3, TablesShrink
<1>6. CASE answer = "failed"
  <2>1. (mapper.pc = "unmap" \/ InBackground) = TRUE
    BY <1>2
  <2>2. DeleteEnds(FALSE) /\ table' = table
    BY <1>1, <1>6
  <2>3. Counted'
    BY <1>1, <1>2, <1>6, <2>1, <2>2, EndsWithout
  <2> QED
    BY <1>4, <1>5, <2>3
<1>7. CASE answer # "failed"
  <2>1. \A p \in Port : table'[p] = IF Matches(p) THEN Nil ELSE table[p]
    BY <1>1, <1>7
  <2>2. Loose' \subseteq Loose
    BY <2>1 DEF Loose, OurPorts, Holds
  <2>3. ~Slack'
    BY <1>1, <1>2, Ends DEF Slack
  <2> QED
    BY <1>3, <1>4, <1>5, <2>2, <2>3, CountedStep
<1> QED
  BY <1>6, <1>7

-----------------------------------------------------------------------------
(* Requests *)

LEMMA AddStep ==
    ASSUME TypeOK, TypeOK', Places, Tables, Counted, Add
    PROVE  Places' /\ Untouched' /\ Tables' /\ Counted'
<1>1. PICK answer \in Answers({"lost", "failed", "refused", "denied"}, FALSE) : AddDoes(answer)
  BY Zenon DEF Add, AddDoes
<1>2. sup' = sup /\ mapper.pc = "add" /\ mapper.by = "upnp" /\ mapper.port \in Port
  BY DEF Add, Places, TypeOK, MapperType
<1>3. /\ setting'.supported = setting.supported
      /\ setting'.failed \in {setting.failed, setting.failed + 1}
      /\ answer \in {"done", "lost", "failed", "refused", "denied"}
      /\ answer \in {"done", "lost", "denied"} => mapper.by \in setting.supported
      /\ answer = "denied" => setting'.failed = setting.failed + 1
      /\ setting.failed \in Nat
  <2> DEFINE kinds == {"lost", "failed", "refused", "denied"}
  <2>1. answer \in Answers(kinds, FALSE) /\ Spend(answer, FALSE)
    BY <1>1 DEF AddDoes
  <2>2. /\ setting'.supported = setting.supported
        /\ answer \in {"done"} \cup kinds \cup {"failed"}
        /\ answer \in {"lost", "refused", "denied"} \cap kinds => mapper.by \in setting.supported
        /\ answer = "done" => mapper.by \in setting.supported
        /\ \/ setting'.failed = setting.failed + 1
           \/ setting' = setting /\ answer \in {"done", "lost", "failed"}
    <3> HIDE DEF kinds
    <3>1. kinds \in SUBSET {"lost", "failed", "refused", "denied"}
      BY DEF kinds
    <3> QED
      BY <2>1, <3>1, Costs
  <2>3. setting.failed \in Nat
    BY DEF TypeOK, SettingType
  <2> QED
    BY <2>2, <2>3
<1> DEFINE free == table[mapper.port] = Nil \/ Matches(mapper.port) \/ setting.overwrites
           put == free /\ answer \in {"done", "lost", "denied"}
<1>4. /\ mapper'.by = mapper.by /\ mapper'.owned = mapper.owned /\ mapper'.port = mapper.port
      /\ mapper'.pc = "verify"
      /\ mapper'.add = IF answer \in {"lost", "failed"} THEN "unknown" ELSE IF ~free THEN "conflict"
                       ELSE IF answer = "done" THEN "ok" ELSE "refused"
  BY <1>1 DEF AddDoes, TypeOK, MapperType
<1>5. \A p \in Port : p # mapper.port => table'[p] = table[p]
  BY <1>1 DEF AddDoes, TypeOK
<1>6. IF put THEN table'[mapper.port].by = "upnp" ELSE table'[mapper.port] = table[mapper.port]
  BY <1>1, <1>2, <1>3 DEF AddDoes, TypeOK
<1>7. Places' /\ Untouched'
  BY <1>2, <1>4, FramePlaces
<1>8. Tables'
  <2>1. ASSUME NEW p \in Port, table'[p] # Nil
        PROVE  \/ table'[p] = table[p]
               \/ table'[p].by = "upnp" /\ "upnp" \in setting.supported
    BY <1>2, <1>3, <1>5, <1>6
  <2> QED
    BY <1>3, <2>1 DEF Tables
<1>9. ~Slack'
  BY <1>4 DEF Slack
<1>10. \A p \in Port : p # mapper.port => ~Holds(p) /\ ~Holds(p)'
  BY <1>2, <1>4 DEF Holds
<1>11. \A p \in Port : p # mapper.port /\ p \in Loose' => p \in Loose
  BY <1>5, <1>10 DEF Loose, OurPorts
<1>12. CASE put /\ answer = "denied"
  <2>1. Loose' \subseteq Loose \cup {mapper.port}
    BY <1>11 DEF Loose, OurPorts
  <2> QED
    BY <1>3, <1>7, <1>8, <1>9, <1>12, <2>1, CountedStep
<1>13. CASE ~(put /\ answer = "denied")
  <2>1. ASSUME mapper.port \in Loose'
        PROVE  mapper.port \in Loose
    <3>1. CASE put
      <4>1. mapper'.add \in {"ok", "unknown"}
        BY <1>4, <1>13, <3>1
      <4>2. table'[mapper.port] # Nil
        BY <2>1 DEF Loose, OurPorts
      <4>3. Holds(mapper.port)'
        BY <1>2, <1>4, <1>6, <3>1, <4>1, <4>2 DEF Holds, Matches
      <4> QED
        BY <1>4, <2>1, <4>3 DEF Loose
    <3>2. CASE ~put
      <4>1. table'[mapper.port] = table[mapper.port]
        BY <1>6, <3>2
      <4>2. Holds(mapper.port) => Holds(mapper.port)'
        BY <1>2, <1>4, <4>1 DEF Holds, Matches
      <4> QED
        BY <1>2, <1>4, <2>1, <4>1, <4>2 DEF Loose, OurPorts
    <3> QED
      BY <3>1, <3>2
  <2>2. Loose' \subseteq Loose
    BY <1>11, <2>1 DEF Loose, OurPorts
  <2> QED
    BY <1>3, <1>7, <1>8, <1>9, <2>2, CountedStep
<1> QED
  BY <1>12, <1>13

\* What an answer of NAT-PMP or PCP makes of the mapper.
LEMMA Applied ==
    ASSUME TypeOK
    PROVE  /\ \A p, answer : ApplyNATPMPResult(p, answer) =>
                /\ mapper'.pc = "judge" /\ mapper'.by = mapper.by
                /\ Kept => Kept'
                /\ answer = "done" /\ ~mapper.reset => Kept'
           /\ \A p : ApplyPCPResponse(p) =>
                mapper'.pc = "judge" /\ mapper'.by = mapper.by /\ mapper'.attempted
           /\ \A answer : PCPFails(answer) =>
                mapper'.pc = "judge" /\ mapper'.by = mapper.by /\ mapper'.attempted
<1>1. mapper \in MapperType
  BY DEF TypeOK
<1>2. ASSUME NEW p, NEW answer, ApplyNATPMPResult(p, answer)
      PROVE  /\ mapper'.pc = "judge" /\ mapper'.by = mapper.by
             /\ Kept => Kept'
             /\ answer = "done" /\ ~mapper.reset => Kept'
  <2> DEFINE known == IF mapper.owned = Nil THEN Owned(Lease, FALSE) ELSE mapper.owned
             next == Owned(GrantedLease(known.lease), TRUE)
  <2>1. known.lease \in Nat \ {0}
    BY <1>1, PortMappingAssumption DEF Owned, MapperType, Mapping
  <2>2. next # Nil /\ next.advertised = TRUE
    BY <2>1, GrantTypes, LeaseTypes, NilFacts DEF Owned
  <2>3. IF answer = "done" /\ ~mapper.reset
        THEN mapper' = [mapper EXCEPT !.pc = "judge", !.port = p, !.owned = next]
        ELSE mapper' = [mapper EXCEPT !.pc = "judge", !.err = TRUE, !.owned = known]
    BY <1>2 DEF ApplyNATPMPResult
  <2>4. Kept => known = mapper.owned
    BY DEF Kept
  <2> HIDE DEF known, next
  <2>5. mapper'.pc = "judge" /\ mapper'.by = mapper.by
    BY <1>1, <2>3 DEF MapperType
  <2>6. IF answer = "done" /\ ~mapper.reset THEN mapper'.owned = next ELSE mapper'.owned = known
    BY <1>1, <2>3 DEF MapperType
  <2> QED
    BY <2>2, <2>4, <2>5, <2>6 DEF Kept
<1>3. ASSUME NEW p, ApplyPCPResponse(p)
      PROVE  mapper'.pc = "judge" /\ mapper'.by = mapper.by /\ mapper'.attempted
  BY <1>1, <1>3 DEF ApplyPCPResponse, MapperType
<1>4. ASSUME NEW answer, PCPFails(answer)
      PROVE  mapper'.pc = "judge" /\ mapper'.by = mapper.by /\ mapper'.attempted
  BY <1>1, <1>4 DEF PCPFails, MapperType
<1> QED
  BY <1>2, <1>3, <1>4

LEMMA RequestStep ==
    ASSUME TypeOK, TypeOK', Places, Tables, Counted, Request
    PROVE  Places' /\ Untouched' /\ Tables' /\ Counted'
<1> DEFINE Apply(p, answer) ==
             IF mapper.by = "natpmp" THEN ApplyNATPMPResult(p, answer)
             ELSE IF answer = "done" THEN ApplyPCPResponse(p) ELSE PCPFails(answer)
<1>1. PICK answer \in Answers({"lost", "failed", "refused"}, FALSE) :
        /\ Spend(answer, FALSE)
        /\ \/ /\ answer \in {"done", "lost"}
              /\ \E p \in Granted :
                    /\ table' = [table EXCEPT ![p] = [by |-> mapper.by, left |-> GrantedLease(Asked)]]
                    /\ Apply(p, answer)
           \/ /\ IF mapper.by = "natpmp" THEN ApplyNATPMPResult(mapper.port, "failed")
                 ELSE PCPFails(IF answer = "done" THEN "refused" ELSE answer)
              /\ UNCHANGED table
  BY Zenon DEF Request
<1>2. sup' = sup /\ mapper.pc = "request" /\ mapper.by \in {"natpmp", "pcp"}
  BY TableTypes DEF Request, Places, Protocol
<1>3. /\ setting'.supported = setting.supported
      /\ setting'.failed \in {setting.failed, setting.failed + 1}
      /\ answer \in {"done", "lost"} => mapper.by \in setting.supported
      /\ answer = "lost" /\ mapper.by = "natpmp" => setting'.failed = setting.failed + 1
      /\ setting.failed \in Nat
  <2> DEFINE kinds == {"lost", "failed", "refused"}
  <2>1. answer \in Answers(kinds, FALSE) /\ Spend(answer, FALSE)
    BY <1>1
  <2>2. /\ setting'.supported = setting.supported
        /\ answer \in {"lost", "refused", "denied"} \cap kinds => mapper.by \in setting.supported
        /\ answer = "done" => mapper.by \in setting.supported
        /\ \/ setting'.failed = setting.failed + 1
           \/ setting' = setting /\ (answer = "lost" => mapper.by # "natpmp")
    <3>1. kinds \in SUBSET {"lost", "failed", "refused", "denied"}
      OBVIOUS
    <3> HIDE DEF kinds
    <3> QED
      BY <2>1, <3>1, Costs
  <2>3. setting.failed \in Nat
    BY DEF TypeOK, SettingType
  <2> QED
    BY <2>2, <2>3
<1>4. CASE /\ IF mapper.by = "natpmp" THEN ApplyNATPMPResult(mapper.port, "failed")
              ELSE PCPFails(IF answer = "done" THEN "refused" ELSE answer)
           /\ UNCHANGED table
  <2>1. /\ mapper'.pc = "judge" /\ mapper'.by = mapper.by
        /\ mapper.by = "natpmp" /\ Kept => Kept'
        /\ mapper.by = "pcp" => mapper'.attempted
    BY <1>2, <1>4, Applied
  <2>2. Places' /\ Untouched'
    BY <1>2, <2>1, FramePlaces
  <2>3. ~Slack' /\ \A p \in Port : Holds(p) => Holds(p)'
    BY <1>2, <1>4, <2>1 DEF Slack, Holds, Matches
  <2> QED
    BY <1>3, <1>4, <2>2, <2>3, TablesFrame, QuietStep
<1>5. CASE /\ answer \in {"done", "lost"}
           /\ \E p \in Granted :
                    /\ table' = [table EXCEPT ![p] = [by |-> mapper.by, left |-> GrantedLease(Asked)]]
                    /\ Apply(p, answer)
  <2>1. PICK p \in Granted :
                    /\ table' = [table EXCEPT ![p] = [by |-> mapper.by, left |-> GrantedLease(Asked)]]
                    /\ Apply(p, answer)
    BY <1>5
  <2>2. /\ p \in Port
        /\ \A q \in Port : Matches(q) => Matches(p)
    BY GrantedFacts
  <2>3. /\ mapper'.pc = "judge" /\ mapper'.by = mapper.by
        /\ mapper.by = "natpmp" /\ Kept => Kept'
        /\ mapper.by = "natpmp" /\ answer = "done" /\ ~mapper.reset => Kept'
        /\ mapper.by = "pcp" => mapper'.attempted
    BY <1>2, <2>1, Applied
  <2>4. Places' /\ Untouched'
    BY <1>2, <2>3, FramePlaces
  <2>5. /\ table'[p].by = mapper.by
        /\ \A q \in Port : q # p => table'[q] = table[q]
    BY <2>1, <2>2 DEF TypeOK
  <2>6. \A q \in Port : q # p => ~Matches(q)
    BY <1>2, <2>2 DEF Matches, Tables
  <2>7. Tables'
    <3>1. \A q \in Port : table'[q] # Nil => table'[q].by \in setting.supported \cup {"old", "other"}
      BY <1>3, <1>5, <2>5 DEF Tables
    <3>2. \A q \in Port : q # p /\ table[q] # Nil => table[q].by # mapper.by
      BY <2>6 DEF Matches
    <3>3. ASSUME NEW q \in Port, NEW r \in Port, table'[q] # Nil, table'[r] # Nil,
                 table'[q].by \in {"pcp", "natpmp"}, table'[q].by = table'[r].by
          PROVE  q = r
      BY <2>5, <3>2, <3>3 DEF Tables
    <3> QED
      BY <1>3, <3>1, <3>3 DEF Tables
  <2>8. ~Slack'
    BY <2>3 DEF Slack
  <2>9. \A q \in Port : q # p /\ q \in Loose' => q \in Loose
    BY <2>5, <2>6 DEF Loose, OurPorts, Holds
  <2>10. CASE mapper.by = "pcp" \/ Kept'
    <3>1. table'[p] # Nil => Holds(p)'
      BY <1>2, <2>3, <2>5, <2>10 DEF Holds, Matches
    <3>2. p \notin Loose'
      BY <3>1 DEF Loose, OurPorts
    <3>3. Loose' \subseteq Loose
      BY <2>9, <3>2 DEF Loose, OurPorts
    <3> QED
      BY <1>3, <2>4, <2>7, <2>8, <3>3, CountedStep
  <2>11. CASE mapper.by = "natpmp" /\ ~Kept'
    <3>1. answer = "lost" \/ Slack
      BY <1>2, <1>5, <2>3, <2>11 DEF Slack
    <3>2. Loose' \subseteq Loose \cup {p}
      BY <2>9 DEF Loose, OurPorts
    <3> QED
      BY <1>3, <2>4, <2>7, <2>8, <2>11, <3>1, <3>2, CountedStep
  <2> QED
    BY <1>2, <2>10, <2>11
<1> QED
  BY <1>1, <1>4, <1>5

-----------------------------------------------------------------------------
(* The Gateway and the world *)

\* A step in which the mapper keeps all that the count depends on.
LEMMA SameHolds ==
    ASSUME TypeOK, mapper'.pc = mapper.pc, mapper'.by = mapper.by, mapper'.port = mapper.port,
           mapper'.owned = Nil <=> mapper.owned = Nil,
           mapper.owned # Nil => mapper'.owned.advertised = mapper.owned.advertised,
           mapper'.add = mapper.add, mapper'.attempted = mapper.attempted
    PROVE  /\ Kept' <=> Kept
           /\ \A p \in Port :
                (table'[p] = Nil <=> table[p] = Nil) /\ (table[p] # Nil => table'[p].by = table[p].by)
                    => (Holds(p)' <=> Holds(p))
BY DEF Kept, Holds, Matches

LEMMA PickStep ==
    ASSUME TypeOK, TypeOK', Places, Untouched, Tables, Counted, Pick
    PROVE  Places' /\ Untouched' /\ Tables' /\ Counted'
<1>1. UNCHANGED <<table, setting>> /\ sup.pc = "pick" /\ mapper.pc = "off"
  BY DEF Pick, Places
<1>2. \A p \in Port : ~Holds(p)
  BY <1>1 DEF Holds
<1>3. CASE mapper' = mapper
  <2>1. sup'.pc \in {"pick", "wait", "done"}
    BY <1>3, <1>1, IndexType DEF Pick, TypeOK, SupType, Places, NewMapper
  <2>2. Places' /\ Untouched'
    BY <1>1, <1>3, <2>1 DEF Places, Untouched
  <2>3. ~Slack'
    BY <1>1, <1>3 DEF Slack
  <2> QED
    BY <1>1, <1>2, <2>2, <2>3, TablesFrame, QuietStep
<1>4. CASE mapper' = NewMapper(Providers[Index]) /\ sup' = [sup EXCEPT !.pc = "select", !.active = FALSE, !.retryAfter = FALSE]
  <2>1. mapper'.pc = "loop" /\ sup'.pc = "select"
    BY <1>4 DEF NewMapper, TypeOK, SupType
  <2>2. Places' /\ Untouched'
    BY <2>1 DEF Places, Untouched
  <2>3. ~Slack'
    BY <2>1 DEF Slack
  <2> QED
    BY <1>1, <1>2, <2>2, <2>3, TablesFrame, QuietStep
<1> QED
  BY <1>3, <1>4 DEF Pick

\* The router, the mapper's mapping and the fact that it runs stay what they are.
LEMMA CalmStep ==
    ASSUME TypeOK, TypeOK', Places, Untouched, Tables, Counted,
           UNCHANGED <<table, setting>>, mapper' = mapper \/ mapper' = [mapper EXCEPT !.stop = TRUE],
           sup'.pc \in {"pick", "wait", "done"} <=> sup.pc \in {"pick", "wait", "done"}
    PROVE  Places' /\ Untouched' /\ Tables' /\ Counted'
<1>1. /\ mapper'.pc = mapper.pc /\ mapper'.by = mapper.by /\ mapper'.port = mapper.port
      /\ mapper'.owned = mapper.owned /\ mapper'.then = mapper.then /\ mapper'.raced = mapper.raced
      /\ mapper'.add = mapper.add /\ mapper'.attempted = mapper.attempted
      /\ mapper'.reset = mapper.reset
  BY DEF TypeOK, MapperType
<1>2. Places' /\ Untouched'
  BY <1>1 DEF Places, Untouched
<1>3. (Kept' <=> Kept) /\ \A p \in Port : Holds(p)' <=> Holds(p)
  BY <1>1, SameHolds
<1>4. Loose' \subseteq Loose
  BY <1>3 DEF Loose, OurPorts
<1>5. Slack' => Slack
  BY <1>1, <1>3 DEF Slack
<1>6. setting.failed <= setting'.failed
  BY DEF TypeOK, SettingType
<1> QED
  BY <1>2, <1>4, <1>5, <1>6, TablesFrame, CountedStep

\* The token of a mapper that has returned dies with it.
LEMMA StopStep ==
    ASSUME TypeOK, TypeOK', Places, Untouched, Tables, Counted, Stop
    PROVE  Places' /\ Untouched' /\ Tables' /\ Counted'
<1>1. /\ mapper.pc = "returned" /\ mapper'.pc = "off" /\ sup'.pc \in {"pick", "done"}
      /\ table' = Orphaned /\ setting' = setting
  BY DEF Stop, TypeOK, MapperType, SupType
<1>2. Places' /\ Untouched'
  BY <1>1 DEF Places, Untouched
<1>3. \A p \in Port :
        /\ table'[p] = Nil <=> table[p] = Nil
        /\ table[p] # Nil => /\ table'[p].left = table[p].left
                             /\ \/ table'[p].by = table[p].by
                                \/ table'[p].by = "old" /\ table[p].by = mapper.by
  <2> SUFFICES ASSUME NEW p \in Port
               PROVE  /\ table'[p] = Nil <=> table[p] = Nil
                      /\ table[p] # Nil => /\ table'[p].left = table[p].left
                                           /\ \/ table'[p].by = table[p].by
                                              \/ table'[p].by = "old" /\ table[p].by = mapper.by
    OBVIOUS
  <2>1. table'[p] = IF Matches(p) /\ mapper.by # "natpmp" THEN [table[p] EXCEPT !.by = "old"] ELSE table[p]
    BY <1>1 DEF Orphaned
  <2>2. CASE Matches(p) /\ mapper.by # "natpmp"
    <3>1. table[p] \in Entry /\ table[p].by = mapper.by
      BY <2>2, TableTypes DEF Matches
    <3>2. [table[p] EXCEPT !.by = "old"] \in Entry
      BY <3>1 DEF Entry
    <3> QED
      BY <2>1, <2>2, <3>1, <3>2, NilFacts DEF Entry
  <2> QED
    BY <2>1, <2>2
<1>4. Tables'
  BY <1>1, <1>3 DEF Tables
<1>5. \A p \in Port : ~Holds(p)
  BY <1>1 DEF Holds
<1>6. mapper.by \in ToSet(Providers)
  BY DEF TypeOK, MapperType
<1>7. Loose' \subseteq Loose
  BY <1>3, <1>5, <1>6 DEF Loose, OurPorts, Ours
<1>8. ~Slack'
  BY <1>1 DEF Slack
<1>9. setting.failed <= setting'.failed
  BY <1>1 DEF TypeOK, SettingType
<1> QED
  BY <1>2, <1>4, <1>7, <1>8, <1>9, CountedStep

\* Time takes mappings away and leaves the others to whom they belong.
LEMMA TickStep ==
    ASSUME TypeOK, TypeOK', Places, Untouched, Tables, Counted, Tick
    PROVE  Places' /\ Untouched' /\ Tables' /\ Counted'
<1>1. /\ mapper'.pc = mapper.pc /\ mapper'.by = mapper.by /\ mapper'.port = mapper.port
      /\ mapper'.owned = Older(mapper.owned) /\ mapper'.then = mapper.then
      /\ mapper'.raced = mapper.raced /\ mapper'.reset = mapper.reset
      /\ mapper'.add = mapper.add /\ mapper'.attempted = mapper.attempted /\ sup' = sup
  BY DEF Tick, TypeOK, MapperType
<1>2. /\ mapper'.owned = Nil <=> mapper.owned = Nil
      /\ mapper.owned # Nil => mapper'.owned.advertised = mapper.owned.advertised
  <2>1. CASE mapper.owned = Nil
    BY <1>1, <2>1 DEF Older
  <2>2. CASE mapper.owned # Nil
    <3>1. mapper.owned \in Mapping
      BY <2>2 DEF TypeOK, MapperType
    <3> DEFINE left == Max({mapper.owned.left - 1, 0})
    <3>2. mapper'.owned = [mapper.owned EXCEPT !.left = left]
      BY <1>1, <2>2 DEF Older
    <3>3. "lost" \in DOMAIN mapper'.owned /\ mapper'.owned \in Mapping \cup {Nil}
      BY <3>1, <3>2 DEF Mapping, TypeOK, MapperType
    <3> HIDE DEF left
    <3>4. mapper'.owned # Nil
      <4>1. mapper'.owned = [left |-> left, lease |-> mapper.owned.lease,
                             advertised |-> mapper.owned.advertised, lost |-> mapper.owned.lost]
        BY <3>1, <3>2 DEF Mapping
      <4>2. Older(mapper.owned) = mapper'.owned /\ left \in Nat
        <5>1. mapper.owned.left - 1 \in Int
          BY <3>1 DEF Mapping
        <5>2. left = IF mapper.owned.left - 1 >= 0 THEN mapper.owned.left - 1 ELSE 0
          BY <5>1, MaxMin DEF left
        <5> QED
          BY <1>1, <5>1, <5>2
      <4>3. mapper'.owned \in Mapping
        BY <3>1, <4>1, <4>2 DEF Mapping
      <4> QED
        BY <4>3, NilFacts
    <3> QED
      BY <2>2, <3>1, <3>2, <3>4 DEF Mapping
  <2> QED
    BY <2>1, <2>2
<1>3. ASSUME NEW p \in Port, table'[p] # Nil
      PROVE  /\ table[p] # Nil /\ table'[p].by = table[p].by
             /\ table'[p].left # Forever => table[p].left # Forever
  <2>1. table'[p] = IF table[p] = Nil \/ table[p].left = Forever THEN table[p]
                    ELSE IF table[p].left = 1 THEN Nil ELSE [table[p] EXCEPT !.left = @ - 1]
    BY DEF Tick
  <2>2. table[p] # Nil
    BY <1>3, <2>1
  <2>3. table[p] \in Entry
    BY <2>2, TableTypes
  <2> QED
    BY <1>3, <2>1, <2>2, <2>3 DEF Entry
<1>4. setting'.supported = setting.supported /\ setting'.failed = setting.failed /\ setting.failed \in Nat
  BY DEF Tick, TypeOK, SettingType
<1>5. Places'
  BY <1>1, <1>2 DEF Places
<1>6. Untouched'
  <2>1. mapper.port \in Port
    BY DEF TypeOK, MapperType
  <2> QED
    BY <1>1, <1>3, <2>1 DEF Untouched
<1>7. Tables'
  BY <1>3, <1>4 DEF Tables
<1>8. Loose' \subseteq Loose
  <2>1. \A p \in Port : table'[p] # Nil => (Holds(p)' <=> Holds(p))
    BY <1>1, <1>2, <1>3, SameHolds
  <2> QED
    BY <1>3, <2>1 DEF Loose, OurPorts
<1>9. Slack' => Slack
  BY <1>1, <1>2, SameHolds DEF Slack
<1> QED
  BY <1>4, <1>5, <1>6, <1>7, <1>8, <1>9, CountedStep

LEMMA OtherTakesStep ==
    ASSUME TypeOK, TypeOK', Places, Untouched, Tables, Counted, NEW p \in Port, OtherTakes(p)
    PROVE  Places' /\ Untouched' /\ Tables' /\ Counted'
<1>1. /\ mapper'.pc = mapper.pc /\ mapper'.by = mapper.by /\ mapper'.port = mapper.port
      /\ mapper'.owned = mapper.owned /\ mapper'.then = mapper.then
      /\ mapper'.reset = mapper.reset
      /\ mapper'.add = mapper.add /\ mapper'.attempted = mapper.attempted /\ sup' = sup
      /\ mapper'.raced =
            (mapper.raced \/ (mapper.pc \in {"delete", "add"} /\ mapper.port = p))
  BY DEF OtherTakes, TypeOK, MapperType
<1>2. /\ table[p] = Nil /\ table'[p].by = "other"
      /\ \A q \in Port : q # p => table'[q] = table[q]
  BY DEF OtherTakes, TypeOK
<1>3. setting'.supported = setting.supported /\ setting'.failed = setting.failed /\ setting.failed \in Nat
  BY DEF OtherTakes, TypeOK, SettingType
<1>4. Places'
  BY <1>1 DEF Places
<1>5. Untouched'
  <2>1. mapper.port \in Port
    BY DEF TypeOK, MapperType
  <2> QED
    BY <1>1, <1>2, <2>1 DEF Untouched
<1>6. Tables'
  <2>1. \A q \in Port : table'[q] # Nil =>
            (q # p /\ table'[q] = table[q]) \/ table'[q].by = "other"
    BY <1>2
  <2> QED
    BY <1>3, <2>1 DEF Tables
<1>7. Loose' \subseteq Loose
  <2>1. "other" \notin Ours
    BY ProviderFacts DEF Ours, Protocol
  <2>2. p \notin Loose'
    BY <1>2, <2>1 DEF Loose, OurPorts
  <2>3. \A q \in Port : q # p => (Holds(q)' <=> Holds(q))
    BY <1>1, <1>2, SameHolds
  <2> QED
    BY <1>2, <2>2, <2>3 DEF Loose, OurPorts
<1>8. Slack' => Slack
  BY <1>1, SameHolds DEF Slack
<1> QED
  BY <1>3, <1>4, <1>5, <1>6, <1>7, <1>8, CountedStep

\* A restart empties the table and counts as a failed call.
LEMMA RestartStep ==
    ASSUME TypeOK, TypeOK', Places, Untouched, Tables, Counted, Restart
    PROVE  Places' /\ Untouched' /\ Tables' /\ Counted'
<1>1. /\ mapper'.pc = mapper.pc /\ mapper'.by = mapper.by /\ mapper'.then = mapper.then
      /\ mapper'.owned = Lost(mapper.owned) /\ mapper'.port = mapper.port /\ sup' = sup
  BY DEF Restart, TypeOK, MapperType
<1>2. mapper'.owned = Nil <=> mapper.owned = Nil
  <2>1. mapper.owned # Nil => Lost(mapper.owned) \in Mapping
    BY DEF TypeOK, MapperType, Mapping, Lost
  <2> QED
    BY <1>1, <2>1, NilFacts DEF Lost
<1>3. \A p \in Port : table'[p] = Nil
  BY DEF Restart
<1>4. setting'.supported = setting.supported /\ setting'.failed = setting.failed + 1
  BY DEF Restart, TypeOK, SettingType
<1>5. Places' /\ Untouched' /\ Tables'
  <2>1. mapper'.port \in Port
    BY DEF TypeOK, MapperType
  <2> QED
    BY <1>1, <1>2, <1>3, <2>1 DEF Places, Untouched, Tables
<1>6. Loose' = {}
  BY <1>3 DEF Loose, OurPorts
<1> QED
  BY <1>4, <1>5, <1>6, CountedStep

-----------------------------------------------------------------------------
(* The theorems *)

LEMMA InitInv == Init => IInv
<1> SUFFICES ASSUME Init PROVE IInv
  OBVIOUS
<1>1. TypeOK
  BY InitType
<1>2. mapper.pc = "off" /\ sup.pc = "pick" /\ setting.failed = 0
  BY DEF Init, NewMapper
<1>3. \A p \in Port : table[p] = Nil
  BY DEF Init
<1>4. Places /\ Untouched /\ Tables
  BY <1>2, <1>3 DEF Places, Untouched, Tables
<1>5. Loose = {}
  BY <1>3 DEF Loose, OurPorts
<1>6. Counted
  BY <1>2, <1>5, FS_EmptySet DEF Counted, Slack
<1> QED
  BY <1>1, <1>4, <1>6 DEF IInv

LEMMA StepInv ==
    ASSUME IInv, [Next]_vars
    PROVE  IInv'
<1>1. TypeOK /\ Places /\ Untouched /\ Tables /\ Counted
  BY DEF IInv
<1>2. TypeOK'
  BY <1>1, StepType
<1>3. CASE MapperStep
  BY <1>1, <1>2, <1>3, LookStep, DeleteStep, UnmapStep, LoopStep, DiscoverStep, JudgeStep,
     PublishStep, WaitStep, CheckStep, AddStep, VerifyStep, ExternalStep, QueryStep, RequestStep
     DEF MapperStep, IInv
<1>4. CASE SupervisorStep
  <2>1. CASE TakeState \/ SelectDone \/ GatewayWait
    <3>1. /\ UNCHANGED <<table, setting>>
          /\ mapper' = mapper \/ mapper' = [mapper EXCEPT !.stop = TRUE]
      BY <2>1 DEF TakeState, SelectDone, GatewayWait
    <3>2. sup'.pc \in {"pick", "wait", "done"} <=> sup.pc \in {"pick", "wait", "done"}
      BY <1>1, <2>1 DEF TakeState, SelectDone, GatewayWait, TypeOK, SupType
    <3> QED
      BY <1>1, <1>2, <3>1, <3>2, CalmStep DEF IInv
  <2> QED
    BY <1>1, <1>2, <1>4, <2>1, PickStep, StopStep DEF SupervisorStep, IInv
<1>5. CASE Tick \/ Restart \/ \E p \in Port : OtherTakes(p)
  BY <1>1, <1>2, <1>5, TickStep, RestartStep, OtherTakesStep DEF IInv
<1>6. CASE Cancel \/ UNCHANGED vars
  <2>1. UNCHANGED <<table, setting, mapper, sup>>
    BY <1>6 DEF Cancel, vars
  <2> QED
    BY <1>1, <1>2, <2>1, CalmStep DEF IInv
<1> QED
  BY <1>3, <1>4, <1>5, <1>6 DEF Next

LEMMA Invariant == Spec => []IInv
BY InitInv, StepInv, PTL DEF Spec

\* Every variable of the lane has its type in every reachable state (Gateway.Run,
\* runMapperProvider, the mappers' Run).
THEOREM TypeCorrect == Spec => []TypeOK
<1>1. IInv => TypeOK
  BY DEF IInv
<1> QED
  BY <1>1, Invariant, PTL

\* A mapper that has returned holds nothing; one that runs holds one mapping at most.
LEMMA NothingLeft ==
    ASSUME IInv
    PROVE  LeavesNothing
<1>1. TypeOK /\ Places /\ Tables /\ Counted
  BY DEF IInv
<1> DEFINE Left == {p \in OurPorts : table[p].left # Forever}
<1>2. IsFiniteSet(Loose) /\ Cardinality(Loose) \in Nat
  BY LooseFinite
<1>3. setting.failed \in Nat
  BY <1>1 DEF TypeOK, SettingType
<1>4. Cardinality(Loose) <= setting.failed
  BY <1>1, <1>2, <1>3 DEF Counted
<1>5. CASE \E p \in Port : Holds(p)
  <2>1. PICK p \in Port : Holds(p)
    BY <1>5
  <2>2. Left \subseteq Loose \cup {p} /\ mapper.pc \notin {"off", "returned"}
    BY <1>1, <2>1, HoldsOne DEF Loose, OurPorts, Holds
  <2>3. /\ IsFiniteSet(Loose \cup {p}) /\ Cardinality(Loose \cup {p}) \in Nat
        /\ Cardinality(Loose \cup {p}) <= Cardinality(Loose) + 1
    <3>1. /\ IsFiniteSet(Loose \cup {p})
          /\ Cardinality(Loose \cup {p}) = IF p \in Loose THEN Cardinality(Loose) ELSE Cardinality(Loose) + 1
      BY <1>2, FS_AddElement, Zenon
    <3> QED
      BY <1>2, <3>1
  <2>4. Cardinality(Left) \in Nat /\ Cardinality(Left) <= Cardinality(Loose \cup {p})
    BY <2>2, <2>3, FS_Subset, FS_CardinalityType
  <2> QED
    BY <1>2, <1>3, <1>4, <2>2, <2>3, <2>4 DEF LeavesNothing
<1>6. CASE ~\E p \in Port : Holds(p)
  <2>1. Left = Loose
    BY <1>6 DEF Loose, OurPorts
  <2> QED
    <3> DEFINE n == IF mapper.pc \in {"off", "returned"} THEN 0 ELSE 1
    <3>1. n \in {0, 1}
      OBVIOUS
    <3> HIDE DEF n
    <3>2. Cardinality(Loose) <= setting.failed + n
      BY <1>2, <1>3, <1>4, <3>1
    <3> QED
      BY <2>1, <3>2, Zenon DEF LeavesNothing, n
<1> QED
  BY <1>5, <1>6

\* What is left on the router when a mapper has returned is paid for by a call that
\* failed, mapping by mapper, whatever the router grants, loses, answers or forgets and
\* whenever the lane is cancelled (Run, cleanup, deleteOwnedMapping, stop).
THEOREM NothingIsLeft == Spec => []LeavesNothing
BY NothingLeft, Invariant, PTL

\* Only a deletion, time and a restart take a mapping away from another device.
LEMMA KeepsOthers ==
    ASSUME IInv, Next, NEW p \in Port, table[p] # Nil, table[p].by = "other",
           table'[p] # table[p]
    PROVE  Tick \/ Restart \/ (mapper.pc \in {"delete", "add"} /\ mapper.raced)
<1>1. TypeOK /\ Untouched
  BY DEF IInv
<1>2. ~Matches(p) /\ table \in [Port -> Entry \cup {Nil}]
  BY <1>1, TableTypes DEF Matches, TypeOK, Protocol
<1>3. CASE Delete
  <2>1. mapper.pc = "delete" /\ (table' = table \/ table' = [table EXCEPT ![mapper.port] = Nil])
    BY <1>3 DEF Delete
  <2>2. p = mapper.port
    BY <1>2, <2>1
  <2> QED
    BY <1>1, <2>1, <2>2 DEF Untouched
<1>4. CASE Unmap
  BY <1>2, <1>4 DEF Unmap
<1>5. CASE Add
  <2>1. mapper.pc = "add" /\ \E left : table' \in {table, [table EXCEPT ![mapper.port] =
                                                    [by |-> "upnp", left |-> left]]}
    BY <1>5 DEF Add
  <2>2. p = mapper.port
    BY <1>2, <2>1
  <2> QED
    BY <1>1, <2>1, <2>2 DEF Untouched
<1>6. CASE Request
  <2>1. \E q \in Granted : table' = [table EXCEPT ![q] = [by |-> mapper.by, left |-> GrantedLease(Asked)]]
    BY <1>6 DEF Request
  <2>2. p \notin Granted
    BY <1>2 DEF Granted
  <2> QED
    BY <1>2, <2>1, <2>2
<1>7. CASE Stop
  BY <1>2, <1>7 DEF Stop, Orphaned
<1>8. CASE \E q \in Port : OtherTakes(q)
  BY <1>2, <1>8 DEF OtherTakes
<1>9. CASE Look \/ Loop \/ Discover \/ Judge \/ Publish \/ Wait \/ Check \/ Verify \/ External
           \/ Query \/ Pick \/ TakeState \/ SelectDone \/ GatewayWait \/ Cancel
  <2>1. table' = table
    BY <1>9 DEF Look, Loop, Discover, Judge, Publish, Wait, Check, Verify, External, Query, Pick,
       TakeState, SelectDone, GatewayWait, Cancel
  <2> QED
    BY <2>1
<1> QED
  BY <1>3, <1>4, <1>5, <1>6, <1>7, <1>8, <1>9 DEF Next, MapperStep, SupervisorStep

\* No mapper takes a port from another device, except in the window between UPnP's look
\* and its deletion or its AddPortMapping (deleteOwnedMapping, attemptPort, refresh).
THEOREM OthersKeepTheirs == Spec => NoTrespass
<1>1. IInv /\ [Next]_vars =>
        [\A p \in Port :
            table[p] # Nil /\ table[p].by = "other" /\ table'[p] # table[p] =>
                \/ Tick \/ Restart
                \/ mapper.pc \in {"delete", "add"} /\ mapper.raced]_vars
  BY KeepsOthers DEF vars
<1> QED
  BY <1>1, Invariant, PTL DEF Spec, NoTrespass

-----------------------------------------------------------------------------
(* What the room shows *)

\* What the room shows, and what is on its way there.
Announced == {shown} \cup {states[i].mapping : i \in DOMAIN states}
Unpublished == shown = Nil /\ states = <<>>

\* The mapper runs and has not retracted its mapping.
Live ==
    ~cancelled /\ ~mapper.stop /\ mapper.pc # "off" /\ \A i \in DOMAIN states : states[i].mapping # Nil

\* The router has a mapping of this mapper on the port, for as long at least.
Has(p, left) ==
    table[p] # Nil /\ table[p].by = mapper.by /\ (table[p].left = Forever \/ table[p].left >= left)

\* Only an active provider has something to show, and nobody but it has its token.
Shows ==
    /\ ~cancelled /\ shown # Nil => sup.pc = "select" /\ sup.active
    /\ mapper.pc = "off" => states = <<>>
    /\ \A p \in Port : table[p] # Nil /\ table[p].by = "upnp" => mapper.pc # "off" /\ mapper.by = "upnp"

Leased ==
    mapper.owned # Nil => mapper.owned.left <= mapper.owned.lease /\ mapper.owned.lease <= Lease

\* What a live mapper has announced at each place: nothing before its mapping is
\* confirmed, and a mapping it gives up is retracted before it goes on.  What the router
\* has confirmed is a lease it grants in full, when asked for it again.
Stages ==
    /\ mapper.pc # "returned"
    /\ mapper.pc \in {"look", "delete", "unmap"} =>
        /\ mapper.then \in {"expired", "stale", "rollback", "reject"}
        /\ mapper.then = "rollback" => mapper.owned # Nil /\ ~mapper.owned.advertised
    /\ mapper.pc = "wait" => mapper.owned # Nil /\ mapper.owned.advertised
    /\ mapper.owned = Nil =>
        Unpublished \/ mapper.pc \in {"judge", "publish", "look", "delete", "unmap"}
    /\ mapper.owned # Nil /\ ~mapper.owned.advertised => Unpublished
    /\ mapper.pc = "external" => ~mapper.owned.advertised
    /\ mapper.owned # Nil /\ (mapper.owned.advertised \/ mapper.pc \in {"external", "renewed"}) =>
        mapper.owned.lease <= LongestLease

\* What UPnP finds of its own is what it has just added, with all of the lease but the
\* time since then.
Creating ==
    /\ /\ mapper.by = "upnp" /\ mapper.owned = Nil
       /\ \/ mapper.pc \in {"loop", "discover", "check", "add"}
          \/ mapper.pc = "verify" /\ mapper.add = "conflict"
       => \A p \in Port : ~Matches(p)
    /\ mapper.pc = "verify" /\ Matches(mapper.port) /\ table[mapper.port].left # Forever =>
        /\ mapper.owned = Nil /\ mapper.add \in {"ok", "unknown"} =>
            table[mapper.port].left + mapper.since >= GrantedLease(Lease)
        /\ mapper.owned # Nil /\ mapper.add = "ok" =>
            table[mapper.port].left + mapper.since >= GrantedLease(mapper.owned.lease)

\* What is announced, or about to be, is on the router for at least as long.
Owns ==
    mapper.owned # Nil =>
        /\ (mapper.owned.advertised \/ mapper.pc \in {"external", "renewed"}) /\ ~mapper.owned.lost
                /\ mapper.owned.left > 0
            => Has(mapper.port, mapper.owned.left)
        /\ \A m \in Announced : m # Nil /\ m.left > 0 /\ ~m.lost =>
            m.port = mapper.port /\ m.left <= mapper.owned.lease /\ Has(m.port, m.left)

ShownIInv == Shows /\ Leased /\ (Live => Stages /\ Creating /\ Owns)

\* What is announced has the type of what is published.
LEMMA AnnouncedType ==
    ASSUME TypeOK
    PROVE  \A m \in Announced : m = Nil \/ m \in Published
<1>1. shown = Nil \/ shown \in Published
  BY DEF TypeOK
<1>2. \A i \in DOMAIN states : states[i] \in StateType
  BY DEF TypeOK
<1>3. \A i \in DOMAIN states : states[i].mapping = Nil \/ states[i].mapping \in Published
  BY <1>2 DEF StateType
<1> QED
  BY <1>1, <1>3 DEF Announced

\* A step of a mapper that publishes nothing.
Working ==
    /\ UNCHANGED <<states, sup, shown, cancelled>>
    /\ mapper.pc # "off" /\ mapper'.pc # "off"
    /\ mapper'.by = mapper.by /\ mapper'.stop = mapper.stop
    /\ \A p \in Port : table'[p] # Nil /\ table'[p].by = "upnp" =>
            table'[p] = table[p] \/ mapper.by = "upnp"

LEMMA WorkingStep ==
    ASSUME ShownIInv, Working, Leased', Live => Stages' /\ Creating' /\ Owns'
    PROVE  ShownIInv'
<1>1. Shows'
  BY DEF ShownIInv, Shows, Working
<1>2. Live' <=> Live
  BY DEF Live, Working
<1> QED
  BY <1>1, <1>2 DEF ShownIInv

\* The mapper gives up its mapping and will say so.
LEMMA GivesUp ==
    ASSUME ShownIInv, Working, mapper'.owned = Nil,
           \/ mapper'.pc \in {"judge", "publish"}
           \/ mapper'.pc = "look" /\ mapper'.then = "reject"
    PROVE  ShownIInv'
<1>1. Leased' /\ Stages' /\ Creating' /\ Owns'
  BY DEF Leased, Stages, Creating, Owns
<1> QED
  BY <1>1, WorkingStep

\* The mapper keeps what it has, and the router does too.
LEMMA KeepsIt ==
    ASSUME ShownIInv, Working, table' = table, mapper'.owned = mapper.owned,
           mapper.owned # Nil => mapper'.port = mapper.port,
           Live =>
            /\ mapper'.pc \notin {"returned", "external", "renewed", "verify"}
            /\ mapper'.pc \in {"look", "delete", "unmap"} =>
                /\ mapper'.then \in {"expired", "stale", "rollback", "reject"}
                /\ mapper'.then = "rollback" => mapper.owned # Nil /\ ~mapper.owned.advertised
            /\ mapper'.pc = "wait" => mapper.owned # Nil /\ mapper.owned.advertised
            /\ mapper.owned = Nil =>
                Unpublished \/ mapper'.pc \in {"judge", "publish", "look", "delete", "unmap"}
            /\ mapper.by = "upnp" /\ mapper.owned = Nil
                    /\ mapper'.pc \in {"loop", "discover", "check", "add"}
                => \A p \in Port : ~Matches(p)
    PROVE  ShownIInv'
<1>1. Leased'
  BY DEF ShownIInv, Leased
<1>2. ASSUME Live PROVE Stages' /\ Creating' /\ Owns'
  <2>1. Stages /\ Creating /\ Owns
    BY <1>2 DEF ShownIInv
  <2>2. (Unpublished' <=> Unpublished) /\ Announced' = Announced
    BY DEF Working, Unpublished, Announced
  <2>3. Stages'
    BY <1>2, <2>1, <2>2 DEF Stages
  <2>4. Creating'
    BY <1>2 DEF Creating, Matches, Working
  <2>5. Owns'
    <3> SUFFICES ASSUME mapper.owned # Nil PROVE Owns'
      BY DEF Owns
    <3>1. mapper'.port = mapper.port /\ mapper'.by = mapper.by
      BY DEF Working
    <3> QED
      BY <1>2, <2>1, <2>2, <3>1 DEF Owns, Has
  <2> QED
    BY <2>3, <2>4, <2>5
<1> QED
  BY <1>1, <1>2, WorkingStep

\* A mapping that was never confirmed may be there or not: nobody has heard of it.
LEMMA Unseen ==
    ASSUME ShownIInv, Working, Leased', mapper'.pc = "judge", mapper'.owned # Nil,
           Live => Unpublished /\ ~mapper'.owned.advertised
    PROVE  ShownIInv'
<1>1. ASSUME Live PROVE Stages' /\ Creating' /\ Owns'
  <2>1. Unpublished'
    BY <1>1 DEF Working, Unpublished
  <2>2. \A m \in Announced' : m = Nil
    BY <2>1 DEF Unpublished, Announced
  <2> QED
    BY <1>1, <2>1, <2>2 DEF Stages, Creating, Owns
<1> QED
  BY <1>1, WorkingStep

\* The end of a deletion, whatever became of the mapping.
LEMMA DeleteEndsShown ==
    ASSUME TypeOK, Places, ShownIInv, Working, mapper.pc \in {"look", "delete", "unmap"},
           NEW confirmed \in BOOLEAN, DeleteEnds(confirmed)
    PROVE  ShownIInv'
<1>1. mapper \in MapperType /\ mapper.then \in Then \ {"loop"}
  BY DEF TypeOK, Places, MapperType
<1>2. Live => Stages
  BY DEF ShownIInv
<1>3. CASE mapper.then \in {"expired", "stale"}
  <2>1. mapper'.owned = Nil /\ mapper'.pc = "publish"
    BY <1>1, <1>3 DEF DeleteEnds, MapperType
  <2> QED
    BY <2>1, GivesUp
<1>4. CASE mapper.then = "reject" \/ (mapper.then = "rollback" /\ confirmed)
  <2>1. Fails
    BY <1>4 DEF DeleteEnds
  <2> QED
    BY <2>1, Moves, GivesUp
<1>5. CASE mapper.then = "rollback" /\ ~confirmed
  <2>1. FailsKeeping
    BY <1>5 DEF DeleteEnds
  <2>2. mapper'.pc = "judge" /\ mapper'.owned = mapper.owned
    BY <2>1, Moves
  <2>3. Leased'
    BY <2>2 DEF ShownIInv, Leased
  <2>4. CASE mapper.owned = Nil
    BY <2>2, <2>4, GivesUp
  <2>5. CASE mapper.owned # Nil
    <3>1. Live => Unpublished /\ ~mapper'.owned.advertised
      BY <1>2, <1>5, <2>2 DEF Stages
    <3> QED
      BY <2>2, <2>3, <2>5, <3>1, Unseen
  <2> QED
    BY <2>4, <2>5
<1>6. CASE mapper.then \in {"return", "wait"}
  <2>1. ~Live
    BY <1>2, <1>6 DEF Stages
  <2>2. mapper'.owned = mapper.owned
    BY <1>1, <1>6 DEF DeleteEnds, Go, MapperType
  <2>3. Leased'
    BY <2>2 DEF ShownIInv, Leased
  <2> QED
    BY <2>1, <2>3, WorkingStep
<1> QED
  BY <1>1, <1>3, <1>4, <1>5, <1>6 DEF Then

\* The shared moves leave the identity of a mapper alone.
LEMMA MovesKeep ==
    ASSUME TypeOK, mapper.pc # "off",
           \/ \E pc \in Pc \ {"off"} : Go(pc)
           \/ Fails \/ FailsKeeping \/ Return \/ Reject \/ NextPort
           \/ \E then \in Then : DeleteThen(then)
           \/ mapper.then # "loop" /\ \E confirmed \in BOOLEAN : DeleteEnds(confirmed)
    PROVE  mapper'.by = mapper.by /\ mapper'.stop = mapper.stop /\ mapper'.pc # "off"
<1>1. mapper \in MapperType
  BY DEF TypeOK
<1>2. \A pc \in Pc \ {"off"} : Go(pc) =>
            mapper'.by = mapper.by /\ mapper'.stop = mapper.stop /\ mapper'.pc # "off"
  BY <1>1 DEF Go, MapperType
<1>3. Fails \/ FailsKeeping \/ Reject =>
            mapper'.by = mapper.by /\ mapper'.stop = mapper.stop /\ mapper'.pc # "off"
  BY <1>1 DEF Fails, FailsKeeping, Reject, MapperType
<1>4. \A then \in Then : DeleteThen(then) =>
            mapper'.by = mapper.by /\ mapper'.stop = mapper.stop /\ mapper'.pc # "off"
  BY <1>1 DEF DeleteThen, MapperType
<1>5. Return => mapper'.by = mapper.by /\ mapper'.stop = mapper.stop /\ mapper'.pc # "off"
  BY <1>2, <1>4 DEF Return, Pc, Then
<1>6. NextPort => mapper'.by = mapper.by /\ mapper'.stop = mapper.stop /\ mapper'.pc # "off"
  BY <1>1, <1>3 DEF NextPort, MapperType
<1>7. \A confirmed \in BOOLEAN : DeleteEnds(confirmed) /\ mapper.then # "loop" =>
            mapper'.by = mapper.by /\ mapper'.stop = mapper.stop /\ mapper'.pc # "off"
  <2> SUFFICES ASSUME NEW confirmed \in BOOLEAN, DeleteEnds(confirmed), mapper.then # "loop"
               PROVE  mapper'.by = mapper.by /\ mapper'.stop = mapper.stop /\ mapper'.pc # "off"
    OBVIOUS
  <2>1. CASE mapper.then = "return"
    BY <1>2, <2>1 DEF DeleteEnds, Pc
  <2>2. CASE mapper.then \in {"expired", "stale", "wait"}
    BY <1>1, <2>2 DEF DeleteEnds, MapperType
  <2>3. CASE mapper.then \in {"rollback", "reject"}
    BY <1>3, <2>3 DEF DeleteEnds
  <2> QED
    BY <1>1, <2>1, <2>2, <2>3 DEF MapperType, Then
<1> QED
  BY <1>2, <1>3, <1>4, <1>5, <1>6, <1>7

LEMMA LookShown ==
    ASSUME TypeOK, Places, ShownIInv, Look
    PROVE  ShownIInv'
<1>1. PICK answer \in Answers({"failed"}, InBackground) :
        IF answer = "done" /\ Matches(mapper.port)
        THEN mapper' = [mapper EXCEPT !.pc = "delete", !.raced = FALSE]
        ELSE DeleteEnds(answer = "done")
  BY DEF Look
<1>2. UNCHANGED <<states, sup, shown, cancelled>> /\ table' = table /\ mapper.pc = "look"
  BY DEF Look
<1>3. CASE DeleteEnds(answer = "done")
  <2>1. (answer = "done") \in BOOLEAN /\ mapper.then # "loop"
    BY <1>2 DEF Places
  <2>2. Working
    BY <1>2, <1>3, <2>1, MovesKeep DEF Working
  <2> QED
    BY <1>2, <1>3, <2>1, <2>2, DeleteEndsShown
<1>4. CASE mapper' = [mapper EXCEPT !.pc = "delete", !.raced = FALSE]
  <2>1. /\ mapper'.pc = "delete" /\ mapper'.then = mapper.then /\ mapper'.owned = mapper.owned
        /\ mapper'.port = mapper.port /\ mapper'.by = mapper.by /\ mapper'.stop = mapper.stop
    BY <1>4 DEF TypeOK, MapperType
  <2>2. Working
    BY <1>2, <2>1 DEF Working
  <2> QED
    BY <1>2, <2>1, <2>2, KeepsIt DEF ShownIInv, Stages
<1> QED
  BY <1>1, <1>3, <1>4

LEMMA DeleteShown ==
    ASSUME TypeOK, Places, ShownIInv, Delete \/ Unmap
    PROVE  ShownIInv'
<1>1. /\ mapper.pc \in {"delete", "unmap"} /\ UNCHANGED <<states, sup, shown, cancelled>>
      /\ \E confirmed \in BOOLEAN : DeleteEnds(confirmed)
  <2>1. CASE Delete
    BY <2>1 DEF Delete
  <2>2. CASE Unmap
    BY <2>2 DEF Unmap
  <2> QED
    BY <2>1, <2>2
<1>2. \A p \in Port : table'[p] # Nil => table'[p] = table[p]
  <2>1. CASE Delete
    BY <2>1 DEF Delete, TypeOK
  <2>2. CASE Unmap
    BY <2>2 DEF Unmap
  <2> QED
    BY <2>1, <2>2
<1>3. Working
  BY <1>1, <1>2, MovesKeep DEF Working, Places
<1> QED
  BY <1>1, <1>3, DeleteEndsShown

LEMMA ReturnShown ==
    ASSUME TypeOK, ShownIInv, Return, Stopped, mapper.pc # "off",
           UNCHANGED <<table, states, sup, shown, cancelled>>
    PROVE  ShownIInv'
<1>1. Working
  BY MovesKeep DEF Working
<1>2. mapper'.owned = mapper.owned /\ mapper'.port = mapper.port
  BY Moves DEF SameMapper
<1>3. ~Live
  BY DEF Live, Stopped
<1> QED
  BY <1>1, <1>2, <1>3, KeepsIt

LEMMA LoopShown ==
    ASSUME TypeOK, ShownIInv, Loop
    PROVE  ShownIInv'
<1>1. UNCHANGED <<table, states, sup, shown, cancelled>> /\ mapper.pc = "loop" /\ mapper \in MapperType
  BY DEF Loop, TypeOK
<1>2. CASE Stopped
  BY <1>1, <1>2, ReturnShown DEF Loop
<1>3. CASE ~Stopped /\ mapper.owned # Nil /\ mapper.owned.left = 0
  <2>1. CASE NeedsCleanup
    <3>1. DeleteThen("expired")
      BY <1>3, <2>1 DEF Loop
    <3>2. Working
      BY <1>1, <3>1, MovesKeep DEF Working, Then
    <3>3. /\ mapper'.owned = mapper.owned /\ mapper'.port = mapper.port
          /\ mapper'.pc \in {"look", "unmap"} /\ mapper'.then = "expired"
      BY <3>1, Moves DEF SameMapper, Then
    <3> QED
      BY <1>1, <1>3, <3>2, <3>3, KeepsIt
  <2>2. CASE ~NeedsCleanup
    <3>1. /\ mapper'.owned = Nil /\ mapper'.pc = "publish" /\ mapper'.by = mapper.by
          /\ mapper'.stop = mapper.stop
      BY <1>1, <1>3, <2>2 DEF Loop, MapperType
    <3>2. Working
      BY <1>1, <3>1 DEF Working
    <3> QED
      BY <3>1, <3>2, GivesUp
  <2> QED
    BY <2>1, <2>2
<1>4. CASE ~Stopped /\ ~(mapper.owned # Nil /\ mapper.owned.left = 0)
  <2>1. /\ mapper'.owned = mapper.owned /\ mapper'.port = mapper.port /\ mapper'.by = mapper.by
        /\ mapper'.stop = mapper.stop
        /\ mapper'.pc = (IF mapper.owned = Nil THEN "discover"
                         ELSE CASE mapper.by = "upnp" -> "check"
                                [] mapper.by = "natpmp" -> "query"
                                [] mapper.by = "pcp" -> "request")
    BY <1>1, <1>4 DEF Loop, MapperType
  <2>2. /\ mapper'.pc \in {"discover", "check", "query", "request"}
    BY <1>1, <2>1, TableTypes DEF Protocol
  <2>3. Working
    BY <1>1, <2>1, <2>2 DEF Working
  <2> QED
    BY <1>1, <2>1, <2>2, <2>3, KeepsIt DEF ShownIInv, Stages, Creating
<1> QED
  BY <1>2, <1>3, <1>4

LEMMA DiscoverShown ==
    ASSUME TypeOK, Places, ShownIInv, Discover
    PROVE  ShownIInv'
<1>1. /\ UNCHANGED <<table, states, sup, shown, cancelled>> /\ mapper.pc = "discover"
      /\ mapper \in MapperType /\ mapper.owned = Nil
  BY DEF Discover, TypeOK, Places
<1>2. CASE Fails
  BY <1>1, <1>2, MovesKeep, Moves, GivesUp DEF Working
<1>3. CASE mapper' = [mapper EXCEPT
                    !.port = InternalPort, !.used = {InternalPort},
                    !.pc = CASE mapper.by = "upnp" -> "check"
                             [] mapper.by = "natpmp" -> "query"
                             [] mapper.by = "pcp" -> "request"]
  <2>1. /\ mapper'.owned = Nil /\ mapper'.by = mapper.by /\ mapper'.stop = mapper.stop
        /\ mapper'.pc \in {"check", "query", "request"}
    BY <1>1, <1>3, TableTypes DEF MapperType, Protocol
  <2>2. Working
    BY <1>1, <2>1 DEF Working
  <2> QED
    BY <1>1, <2>1, <2>2, KeepsIt DEF ShownIInv, Stages, Creating
<1> QED
  BY <1>2, <1>3 DEF Discover

LEMMA JudgeShown ==
    ASSUME TypeOK, ShownIInv, Judge
    PROVE  ShownIInv'
<1>1. UNCHANGED <<table, states, sup, shown, cancelled>> /\ mapper.pc = "judge" /\ mapper \in MapperType
  BY DEF Judge, TypeOK
<1>2. CASE Stopped
  BY <1>1, <1>2, ReturnShown DEF Judge
<1>3. CASE ~Stopped /\ NeedsCleanup /\ mapper.owned # Nil /\ mapper.owned.left = 0
  <2>1. DeleteThen("stale")
    BY <1>3 DEF Judge
  <2>2. Working
    BY <1>1, <2>1, MovesKeep DEF Working, Then
  <2>3. /\ mapper'.owned = mapper.owned /\ mapper'.port = mapper.port
        /\ mapper'.pc \in {"look", "unmap"} /\ mapper'.then = "stale"
    BY <2>1, Moves DEF SameMapper, Then
  <2> QED
    BY <1>1, <1>3, <2>2, <2>3, KeepsIt
<1>4. CASE ~Stopped /\ ~(NeedsCleanup /\ mapper.owned # Nil /\ mapper.owned.left = 0)
  <2>1. /\ mapper'.owned = Nil \/ mapper'.owned = mapper.owned
        /\ mapper'.pc = "publish" /\ mapper'.by = mapper.by
        /\ mapper'.stop = mapper.stop /\ mapper'.port = mapper.port
    BY <1>1, <1>4 DEF Judge, MapperType
  <2>2. Working
    BY <1>1, <2>1 DEF Working
  <2>3. CASE mapper'.owned = Nil
    BY <2>1, <2>2, <2>3, GivesUp
  <2>4. CASE mapper'.owned = mapper.owned
    BY <1>1, <2>1, <2>2, <2>4, KeepsIt
  <2> QED
    BY <2>1, <2>3, <2>4
<1> QED
  BY <1>2, <1>3, <1>4

LEMMA WaitShown ==
    ASSUME TypeOK, ShownIInv, Wait
    PROVE  ShownIInv'
<1>1. UNCHANGED <<table, states, sup, shown, cancelled>> /\ mapper.pc = "wait" /\ mapper \in MapperType
  BY DEF Wait, TypeOK
<1>2. CASE Stopped /\ Return
  BY <1>1, <1>2, ReturnShown
<1>3. CASE Go("loop")
  <2>1. /\ mapper'.owned = mapper.owned /\ mapper'.pc = "loop" /\ mapper'.by = mapper.by
        /\ mapper'.stop = mapper.stop /\ mapper'.port = mapper.port
    BY <1>1, <1>3 DEF Go, MapperType
  <2>2. Working
    BY <1>1, <2>1 DEF Working
  <2> QED
    BY <1>1, <2>1, <2>2, KeepsIt DEF ShownIInv, Stages
<1> QED
  BY <1>2, <1>3 DEF Wait

\* What is published is what is owned.
LEMMA PublishShown ==
    ASSUME TypeOK, Places, ShownIInv, Publish
    PROVE  ShownIInv'
<1>1. UNCHANGED <<table, sup, shown, cancelled>> /\ mapper.pc = "publish" /\ mapper \in MapperType
  BY DEF Publish, TypeOK
<1>2. CASE Stopped /\ Return /\ UNCHANGED states
  BY <1>1, <1>2, ReturnShown
<1>3. CASE /\ states' = Append(states, CurrentState)
           /\ IF mapper.by = "pcp" /\ mapper.then = "wait" /\ mapper.owned = Nil /\ mapper.attempted
              THEN DeleteThen("wait") ELSE Go(mapper.then)
  <2>1. /\ mapper'.owned = mapper.owned /\ mapper'.port = mapper.port /\ mapper'.by = mapper.by
        /\ mapper'.stop = mapper.stop /\ mapper'.pc \in {"loop", "wait", "look", "unmap"}
        /\ mapper.owned # Nil => mapper'.pc \in {"loop", "wait"}
    <3>1. CASE DeleteThen("wait") /\ mapper.owned = Nil
      BY <1>1, <3>1 DEF DeleteThen, MapperType
    <3>2. CASE Go(mapper.then)
      BY <1>1, <3>2 DEF Go, MapperType, Places
    <3> QED
      BY <1>3, <3>1, <3>2
  <2>2. /\ DOMAIN states' = DOMAIN states \cup {Len(states) + 1}
        /\ \A i \in DOMAIN states : states'[i] = states[i]
        /\ states'[Len(states) + 1] = CurrentState
        /\ \A i \in DOMAIN states : states[i] \in StateType
    BY <1>3 DEF TypeOK
  <2>3. Shows'
    BY <1>1, <2>1 DEF ShownIInv, Shows
  <2>4. Leased'
    BY <2>1 DEF ShownIInv, Leased
  <2>5. ASSUME Live' PROVE Stages' /\ Creating' /\ Owns'
    <3>1. Live
      BY <1>1, <2>1, <2>2, <2>5 DEF Live
    <3>2. CurrentState.mapping # Nil
      BY <2>2, <2>5 DEF Live
    <3>3. /\ mapper.owned # Nil /\ mapper.owned.advertised
          /\ CurrentState.mapping
                = [port |-> mapper.port, left |-> mapper.owned.left, lost |-> mapper.owned.lost]
      BY <3>2 DEF CurrentState
    <3>4. Leased /\ Stages /\ Owns
      BY <3>1 DEF ShownIInv
    <3>5. Announced' \subseteq Announced \cup {CurrentState.mapping}
      BY <1>1, <2>2 DEF Announced
    <3>6. Stages' /\ Creating'
      BY <2>1, <3>3, <3>4 DEF Stages, Creating
    <3>7. Owns'
      BY <1>1, <2>1, <3>3, <3>4, <3>5 DEF Owns, Leased, Has
    <3> QED
      BY <3>6, <3>7
  <2> QED
    BY <2>3, <2>4, <2>5 DEF ShownIInv
<1> QED
  BY <1>2, <1>3 DEF Publish

LEMMA CheckShown ==
    ASSUME TypeOK, Places, ShownIInv, Check
    PROVE  ShownIInv'
<1>1. /\ UNCHANGED <<table, states, sup, shown, cancelled>> /\ mapper.pc = "check"
      /\ mapper \in MapperType /\ mapper.by = "upnp"
  BY DEF Check, TypeOK, Places
<1>2. CASE Fails \/ Reject
  BY <1>1, <1>2, MovesKeep, Moves, GivesUp DEF Working
<1>3. CASE FailsKeeping
  <2>1. Working
    BY <1>1, <1>3, MovesKeep DEF Working
  <2> QED
    BY <1>1, <1>3, <2>1, Moves, KeepsIt DEF SameMapper
<1>4. CASE NextPort /\ mapper.owned = Nil
  <2>1. Working
    BY <1>1, <1>4, MovesKeep DEF Working
  <2>2. mapper'.owned = Nil /\ mapper'.pc \in {"judge", "check"}
    BY <1>4, Moves
  <2> QED
    BY <1>1, <1>4, <2>1, <2>2, KeepsIt DEF ShownIInv, Stages, Creating
<1>5. CASE mapper' = [mapper EXCEPT !.pc = "add", !.since = 0, !.raced = FALSE]
  <2>1. /\ mapper'.owned = mapper.owned /\ mapper'.pc = "add" /\ mapper'.by = mapper.by
        /\ mapper'.stop = mapper.stop /\ mapper'.port = mapper.port
    BY <1>1, <1>5 DEF MapperType
  <2>2. Working
    BY <1>1, <2>1 DEF Working
  <2> QED
    BY <1>1, <2>1, <2>2, KeepsIt DEF ShownIInv, Stages, Creating
<1>6. FailsKeeping \/ Fails \/ Reject \/ (NextPort /\ mapper.owned = Nil)
        \/ mapper' = [mapper EXCEPT !.pc = "add", !.since = 0, !.raced = FALSE]
  BY DEF Check
<1> QED
  BY <1>2, <1>3, <1>4, <1>5, <1>6

\* What AddPortMapping makes lasts as long as the router grants.
LEMMA AddShown ==
    ASSUME TypeOK, Places, ShownIInv, Add
    PROVE  ShownIInv'
<1>1. /\ UNCHANGED <<states, sup, shown, cancelled>> /\ mapper.pc = "add"
      /\ mapper \in MapperType /\ mapper.by = "upnp" /\ mapper.port \in Port
  BY DEF Add, TypeOK, Places, MapperType
<1>2. PICK answer : AddDoes(answer)
  BY Zenon DEF Add, AddDoes
<1> DEFINE free == table[mapper.port] = Nil \/ Matches(mapper.port) \/ setting.overwrites
           lease == GrantedLease(Asked)
           left == IF setting.lasting THEN Forever ELSE lease
<1>3. /\ table' = (IF ~free \/ answer \in {"failed", "refused"} THEN table
                   ELSE [table EXCEPT ![mapper.port] = [by |-> "upnp", left |-> left]])
      /\ mapper' = [mapper EXCEPT !.pc = "verify",
            !.add = IF answer \in {"lost", "failed"} THEN "unknown" ELSE IF ~free THEN "conflict"
                    ELSE IF answer = "done" THEN "ok" ELSE "refused"]
  BY <1>2 DEF AddDoes
<1>4. /\ mapper'.owned = mapper.owned /\ mapper'.pc = "verify" /\ mapper'.by = "upnp"
      /\ mapper'.stop = mapper.stop /\ mapper'.port = mapper.port /\ mapper'.since = mapper.since
      /\ mapper'.add \in {"ok", "unknown", "conflict", "refused"}
      /\ mapper'.add = "conflict" <=> answer \notin {"lost", "failed"} /\ ~free
      /\ mapper'.add = "ok" <=> answer = "done" /\ free
  BY <1>1, <1>3 DEF MapperType
<1>5. lease \in Nat \ {0} /\ mapper.since \in Nat
  BY <1>1, AskedType DEF MapperType
<1>6. \/ table' = table
      \/ /\ free /\ table'[mapper.port] = [by |-> "upnp", left |-> left]
         /\ \A p \in Port : p # mapper.port => table'[p] = table[p]
  BY <1>1, <1>3 DEF TypeOK
<1>7. [by |-> "upnp", left |-> left] # Nil
  <2>1. [by |-> "upnp", left |-> left] \in Entry
    BY <1>5, TableTypes DEF Protocol
  <2> QED
    BY <2>1, NilFacts
<1>8. Working
  BY <1>1, <1>4 DEF Working
<1>9. Leased'
  BY <1>4 DEF ShownIInv, Leased
<1>10. ASSUME Live PROVE Stages' /\ Creating' /\ Owns'
  <2>1. Stages /\ Creating /\ Owns /\ Leased
    BY <1>10 DEF ShownIInv
  <2>2. (Unpublished' <=> Unpublished) /\ Announced' = Announced
    BY <1>1 DEF Unpublished, Announced
  <2>3. Stages'
    BY <1>1, <1>4, <2>1, <2>2 DEF Stages
  <2>4. Creating'
    <3>1. mapper.owned = Nil => \A p \in Port : ~Matches(p)
      BY <1>1, <2>1 DEF Creating
    <3>2. ASSUME mapper.owned = Nil, mapper'.add = "conflict"
          PROVE  \A p \in Port : ~Matches(p)'
      <4>1. table' = table
        BY <1>3, <1>4, <3>2
      <4> QED
        BY <1>1, <1>4, <3>1, <3>2, <4>1 DEF Matches
    <3>3. ASSUME Matches(mapper.port)', table'[mapper.port].left # Forever,
                 \/ mapper.owned = Nil /\ mapper'.add \in {"ok", "unknown"}
                 \/ mapper.owned # Nil /\ mapper'.add = "ok"
          PROVE  table'[mapper.port].left = lease
      <4>1. CASE table'[mapper.port] = [by |-> "upnp", left |-> left]
        BY <3>3, <4>1
      <4>2. CASE table' = table
        <5>1. mapper.owned # Nil /\ answer = "done" /\ free
          BY <1>1, <1>4, <3>1, <3>3, <4>2 DEF Matches
        <5>2. table'[mapper.port] = [by |-> "upnp", left |-> left]
          BY <1>1, <1>3, <5>1 DEF TypeOK
        <5> QED
          BY <3>3, <5>2
      <4> QED
        BY <1>6, <4>1, <4>2
    <3>4. lease = GrantedLease(IF mapper.owned = Nil THEN Lease ELSE mapper.owned.lease)
      BY DEF Asked
    <3> HIDE DEF free, left, lease
    <3>5. lease + mapper.since >= lease
      BY <1>5
    <3> QED
      BY <1>4, <3>2, <3>3, <3>4, <3>5 DEF Creating
  <2>5. Owns'
    <3> SUFFICES ASSUME mapper.owned # Nil PROVE Owns'
      BY <1>4 DEF Owns
    <3>1. /\ mapper.owned.advertised => lease = mapper.owned.lease
          /\ mapper.owned \in Mapping /\ mapper.owned.left <= mapper.owned.lease
      <4>1. mapper.owned \in Mapping /\ mapper.owned.left <= mapper.owned.lease
        BY <1>1, <2>1 DEF Leased, MapperType
      <4>2. mapper.owned.lease \in Nat \ {0} /\ lease = GrantedLease(mapper.owned.lease)
        BY <4>1 DEF Asked, Mapping
      <4>3. mapper.owned.advertised => mapper.owned.lease <= LongestLease
        BY <2>1 DEF Stages
      <4> QED
        BY <4>1, <4>2, <4>3, GrantTypes
    <3>2. \A l \in Nat : l <= lease /\ Has(mapper.port, l) => Has(mapper.port, l)'
      BY <1>1, <1>4, <1>6, <1>7 DEF Has
    <3>3. \A m \in Announced : m = Nil \/ m \in Published
      BY AnnouncedType
    <3> HIDE DEF lease, left, free
    <3>4. /\ mapper.owned.advertised /\ ~mapper.owned.lost /\ mapper.owned.left > 0
                => Has(mapper.port, mapper.owned.left)'
      BY <1>1, <1>4, <2>1, <3>1, <3>2 DEF Owns, Mapping
    <3>5. \A m \in Announced : m # Nil /\ m.left > 0 /\ ~m.lost =>
            m.port = mapper.port /\ m.left <= mapper.owned.lease /\ Has(m.port, m.left)'
      <4> SUFFICES ASSUME NEW m \in Announced, m # Nil, m.left > 0, ~m.lost
                   PROVE  m.port = mapper.port /\ m.left <= mapper.owned.lease /\ Has(m.port, m.left)'
        OBVIOUS
      <4>1. m.port = mapper.port /\ m.left <= mapper.owned.lease /\ Has(m.port, m.left)
            /\ mapper.owned.advertised
        BY <2>1, <3>1 DEF Owns, Stages, Unpublished, Announced
      <4>2. m.left \in Nat
        BY <3>3 DEF Published
      <4>3. Has(mapper.port, m.left)'
        BY <3>1, <3>2, <4>1, <4>2
      <4> QED
        BY <1>4, <4>1, <4>3
    <3> QED
      BY <1>4, <2>2, <3>4, <3>5 DEF Owns
  <2> QED
    BY <2>3, <2>4, <2>5
<1> QED
  BY <1>8, <1>9, <1>10, WorkingStep

\* What the router reports of a lease that it has kept is not more than it keeps.
LEMMA LeaseKept ==
    ASSUME TypeOK, NEW lease \in Nat \ {0}, table[mapper.port] # Nil,
           table[mapper.port].left # Forever,
           table[mapper.port].left + mapper.since >= GrantedLease(lease),
           NEW reported \in ConservativeLeases(lease)
    PROVE  /\ reported \in Nat \ {0} /\ reported <= GrantedLease(lease)
           /\ Remaining(reported) \in Nat /\ Remaining(reported) <= reported
           /\ Remaining(reported) <= table[mapper.port].left
           /\ \A left \in Nat :
                left <= GrantedLease(lease) /\ left <= table[mapper.port].left => left <= reported
<1> DEFINE kept == table[mapper.port].left
           granted == GrantedLease(lease)
<1>1. mapper.since \in Nat /\ kept \in Nat \ {0} /\ granted \in Nat \ {0}
  BY GrantTypes DEF TypeOK, MapperType, Entry
<1>2. reported \in Nat \ {0}
  BY LeaseTypes
<1>3. Remaining(reported) \in Nat /\ Remaining(reported) <= reported
  BY <1>2, LeaseTypes
<1>4. kept + mapper.since >= granted
  OBVIOUS
<1>5. reported = granted \/ reported = Min({granted, kept})
  BY DEF ConservativeLeases
<1> HIDE DEF kept, granted
<1>6. Min({granted, kept}) = IF granted <= kept THEN granted ELSE kept
  <2>1. granted \in Int /\ kept \in Int
    BY <1>1
  <2> QED
    BY <2>1, MaxMin
<1>7. Remaining(reported) = IF reported - mapper.since >= 0 THEN reported - mapper.since ELSE 0
  BY <1>1, <1>2, MaxMin DEF Remaining
<1>8. reported <= granted /\ Remaining(reported) <= kept
  BY <1>1, <1>2, <1>4, <1>5, <1>6, <1>7
<1>9. \A left \in Nat : left <= granted /\ left <= kept => left <= reported
  BY <1>1, <1>5, <1>6
<1> QED
  BY <1>2, <1>3, <1>8, <1>9 DEF kept, granted

\* A verified mapping, new or renewed, is on the router for as long as is believed.
LEMMA Verified ==
    ASSUME TypeOK, ShownIInv, Working, table' = table, mapper.pc = "verify", mapper.by = "upnp",
           NEW lease \in Nat \ {0}, lease <= Lease, Matches(mapper.port),
           table[mapper.port].left # Forever,
           Live => table[mapper.port].left + mapper.since >= GrantedLease(lease),
           Live /\ mapper.owned = Nil => Unpublished,
           mapper.owned # Nil => lease = mapper.owned.lease,
           NEW advertised \in BOOLEAN,
           advertised = (IF mapper.owned = Nil THEN FALSE ELSE mapper.owned.advertised),
           NEW reported \in ConservativeLeases(lease),
           NEW pc, pc = (IF mapper.owned = Nil THEN "external" ELSE "renewed"),
           mapper' = [mapper EXCEPT !.pc = pc, !.owned = Owned(reported, advertised)]
    PROVE  ShownIInv'
<1> DEFINE owned == Owned(reported, advertised)
           kept == table[mapper.port].left
           granted == GrantedLease(lease)
<1>1. mapper \in MapperType /\ mapper.port \in Port /\ table[mapper.port] # Nil
  BY DEF TypeOK, MapperType, Matches
<1>2. /\ reported \in Nat \ {0} /\ reported <= granted /\ granted <= lease
      /\ granted <= LongestLease /\ granted \in Nat /\ LongestLease \in Nat
  <2>1. ConservativeLeases(lease) \subseteq Nat \ {0}
    BY <1>1, LeaseTypes
  <2>2. kept \in Nat \ {0}
    BY <1>1 DEF TypeOK, Entry
  <2>3. reported = granted \/ reported = Min({granted, kept})
    BY DEF ConservativeLeases
  <2>4. granted \in Nat \ {0} /\ granted <= lease /\ granted <= LongestLease
        /\ LongestLease \in Nat
    BY GrantTypes, PortMappingAssumption
  <2>5. Min({granted, kept}) = IF granted <= kept THEN granted ELSE kept
    <3> HIDE DEF kept, granted
    <3>1. granted \in Int /\ kept \in Int
      BY <2>2, <2>4
    <3> QED
      BY <3>1, MaxMin
  <2> HIDE DEF kept, granted
  <2> QED
    BY <2>1, <2>2, <2>3, <2>4, <2>5
<1>3. owned \in Mapping /\ owned.lease = reported /\ owned.advertised = advertised
      /\ owned.left = Remaining(reported) /\ Remaining(reported) <= reported
      /\ Remaining(reported) \in Nat
  BY <1>2, LeaseTypes DEF Owned
<1>4. /\ mapper'.owned = owned /\ mapper'.pc = pc /\ mapper'.port = mapper.port
      /\ mapper'.by = mapper.by /\ owned # Nil
  BY <1>1, <1>3, NilFacts DEF MapperType
<1>5. Leased'
  <2>1. Lease \in Nat
    BY PortMappingAssumption
  <2> HIDE DEF owned, granted
  <2>2. reported <= Lease
    BY <1>2, <2>1
  <2>3. owned.left <= owned.lease /\ owned.lease <= Lease
    BY <1>3, <2>2
  <2> QED
    BY <1>4, <2>3 DEF Leased
<1>6. ASSUME Live PROVE Stages' /\ Creating' /\ Owns'
  <2>1. Stages /\ Owns
    BY <1>6 DEF ShownIInv
  <2>2. (Unpublished' <=> Unpublished) /\ Announced' = Announced
    BY DEF Working, Unpublished, Announced
  <2>3. Stages' /\ Creating'
    <3>1. ~advertised => Unpublished
      BY <1>6, <2>1 DEF Stages
    <3>2. reported <= LongestLease
      <4> HIDE DEF granted
      <4> QED
        BY <1>2
    <3> HIDE DEF owned
    <3>3. (pc = "external" => ~owned.advertised) /\ pc \in {"external", "renewed"}
      BY <1>3
    <3> QED
      BY <1>3, <1>4, <2>2, <3>1, <3>2, <3>3 DEF Stages, Creating
  <2>4. /\ Remaining(reported) <= kept
        /\ \A left \in Nat : left <= granted /\ left <= kept => left <= reported
    BY <1>1, <1>6, LeaseKept
  <2>5. \A left \in Nat : left <= kept => Has(mapper.port, left)'
    BY <1>1, <1>4 DEF Has, Matches
  <2>6. \A m \in Announced : m # Nil /\ m.left > 0 /\ ~m.lost =>
            m.port = mapper.port /\ m.left <= reported /\ Has(m.port, m.left)'
    <3> SUFFICES ASSUME NEW m \in Announced, m # Nil, m.left > 0, ~m.lost
                 PROVE  m.port = mapper.port /\ m.left <= reported /\ Has(m.port, m.left)'
      OBVIOUS
    <3>1. mapper.owned # Nil
      BY <1>6 DEF Unpublished, Announced
    <3>2. m.port = mapper.port /\ m.left <= granted /\ Has(m.port, m.left)
      <4>1. m.port = mapper.port /\ m.left <= lease /\ Has(m.port, m.left)
        BY <2>1, <3>1 DEF Owns
      <4>2. lease <= LongestLease
        BY <2>1, <3>1 DEF Stages, Unpublished, Announced
      <4>3. granted = lease
        BY <4>2, GrantTypes
      <4> QED
        BY <4>1, <4>3
    <3>3. m.left \in Nat
      BY AnnouncedType DEF Published
    <3>4. m.left <= kept
      BY <1>1, <3>2 DEF Has
    <3> QED
      BY <1>4, <2>4, <3>2, <3>3, <3>4 DEF Has
  <2> DEFINE left == Remaining(reported)
  <2>7. left \in Nat /\ left <= kept /\ owned.left = left
    BY <1>3, <2>4
  <2> HIDE DEF owned, kept, left
  <2>8. Has(mapper.port, mapper.owned.left)'
    BY <1>4, <2>5, <2>7
  <2>9. Owns'
    BY <1>3, <1>4, <2>2, <2>6, <2>8 DEF Owns
  <2> QED
    BY <2>3, <2>9
<1> QED
  BY <1>5, <1>6, WorkingStep

LEMMA VerifyShown ==
    ASSUME TypeOK, Places, ShownIInv, Verify
    PROVE  ShownIInv'
<1>1. /\ UNCHANGED <<table, states, sup, shown, cancelled>> /\ mapper.pc = "verify"
      /\ mapper \in MapperType /\ mapper.by = "upnp"
  BY DEF Verify, TypeOK, Places
<1>2. Live => Stages /\ Creating
  BY DEF ShownIInv
<1>3. CASE Fails \/ Reject
  BY <1>1, <1>3, MovesKeep, Moves, GivesUp DEF Working
<1>4. CASE FailsKeeping /\ mapper.owned # Nil
  <2>1. Working
    BY <1>1, <1>4, MovesKeep DEF Working
  <2> QED
    BY <1>1, <1>4, <2>1, Moves, KeepsIt DEF SameMapper
<1>5. CASE NextPort /\ mapper.owned = Nil /\ mapper.add = "conflict"
  <2>1. Working
    BY <1>1, <1>5, MovesKeep DEF Working
  <2>2. mapper'.owned = Nil /\ mapper'.pc \in {"judge", "check"}
    BY <1>5, Moves
  <2> QED
    BY <1>1, <1>2, <1>5, <2>1, <2>2, KeepsIt DEF Stages, Creating
<1>6. CASE Pending /\ mapper.owned = Nil
  <2> DEFINE owned == Owned(Lease, FALSE)
  <2>1. owned \in Mapping /\ owned.lease = Lease /\ owned.left <= Lease /\ ~owned.advertised
    BY LeaseTypes, PortMappingAssumption DEF Owned
  <2>2. /\ mapper'.owned = owned /\ owned # Nil /\ mapper'.pc = "judge" /\ mapper'.by = mapper.by
        /\ mapper'.stop = mapper.stop
    BY <1>1, <1>6, <2>1, NilFacts DEF Pending, MapperType
  <2> HIDE DEF owned
  <2>3. Working
    BY <1>1, <2>2 DEF Working
  <2>4. Leased'
    BY <2>1, <2>2, PortMappingAssumption DEF Leased
  <2>5. Live => Unpublished
    BY <1>1, <1>2, <1>6 DEF Stages
  <2> QED
    BY <2>1, <2>2, <2>3, <2>4, <2>5, Unseen
<1>7. CASE /\ mapper.owned = Nil /\ Matches(mapper.port) /\ table[mapper.port].left # Forever
           /\ mapper.add \in {"ok", "unknown"}
           /\ \E reported \in ConservativeLeases(Lease) :
                mapper' = [mapper EXCEPT !.pc = "external", !.owned = Owned(reported, FALSE)]
  <2>1. Live => table[mapper.port].left + mapper.since >= GrantedLease(Lease)
    BY <1>1, <1>2, <1>7 DEF Creating
  <2>2. Live => Unpublished
    BY <1>1, <1>2, <1>7 DEF Stages
  <2>3. Lease \in Nat \ {0} /\ Lease <= Lease
    BY PortMappingAssumption
  <2>4. Working
    BY <1>1, <1>7 DEF Working, MapperType
  <2> QED
    BY <1>1, <1>7, <2>1, <2>2, <2>3, <2>4, Verified
<1>8. CASE /\ mapper.owned # Nil /\ Matches(mapper.port) /\ table[mapper.port].left # Forever
           /\ mapper.add = "ok"
           /\ \E reported \in ConservativeLeases(mapper.owned.lease) :
                mapper' = [mapper EXCEPT !.pc = "renewed",
                                         !.owned = Owned(reported, mapper.owned.advertised)]
  <2> DEFINE lease == mapper.owned.lease
             advertised == mapper.owned.advertised
  <2>1. Live => table[mapper.port].left + mapper.since >= GrantedLease(lease)
    BY <1>1, <1>2, <1>8 DEF Creating
  <2>2. lease \in Nat \ {0} /\ lease <= Lease /\ advertised \in BOOLEAN
    BY <1>1, <1>8 DEF ShownIInv, Leased, MapperType, Mapping
  <2>3. PICK reported \in ConservativeLeases(lease) :
            mapper' = [mapper EXCEPT !.pc = "renewed", !.owned = Owned(reported, advertised)]
    BY <1>8
  <2>4. Working
    BY <1>1, <2>3 DEF Working, MapperType
  <2>5. lease = mapper.owned.lease
        /\ advertised = (IF mapper.owned = Nil THEN FALSE ELSE mapper.owned.advertised)
    BY <1>8
  <2> HIDE DEF lease, advertised
  <2> QED
    BY <1>1, <1>8, <2>1, <2>2, <2>3, <2>4, <2>5, Verified
<1>9. \E looked \in BOOLEAN :
        IF mapper.owned = Nil THEN VerifyNew(looked) ELSE VerifyRenewed(looked)
  BY DEF Verify
<1>10. CASE mapper.owned = Nil
  BY <1>3, <1>5, <1>6, <1>7, <1>9, <1>10 DEF VerifyNew
<1>11. CASE mapper.owned # Nil
  BY <1>3, <1>4, <1>8, <1>9, <1>11 DEF VerifyRenewed
<1> QED
  BY <1>10, <1>11

LEMMA ExternalShown ==
    ASSUME TypeOK, Places, ShownIInv, External
    PROVE  ShownIInv'
<1>1. /\ UNCHANGED <<table, states, sup, shown, cancelled>> /\ mapper.pc \in {"external", "renewed"}
      /\ mapper \in MapperType /\ mapper.by = "upnp" /\ mapper.owned \in Mapping
  BY DEF External, TypeOK, Places, MapperType
<1>2. CASE FailsKeeping
  <2>1. Working
    BY <1>1, <1>2, MovesKeep DEF Working
  <2> QED
    BY <1>1, <1>2, <2>1, NilFacts, Moves, KeepsIt DEF SameMapper
<1>3. CASE DeleteThen("rollback") /\ mapper.pc = "external"
  <2>1. Working
    BY <1>1, <1>3, MovesKeep DEF Working, Then
  <2>2. /\ mapper'.owned = mapper.owned /\ mapper'.port = mapper.port
        /\ mapper'.pc = "look" /\ mapper'.then = "rollback"
    BY <1>1, <1>3, Moves DEF SameMapper, Then
  <2> QED
    BY <1>1, <1>3, <2>1, <2>2, NilFacts, KeepsIt DEF ShownIInv, Stages
<1>4. CASE mapper' = [mapper EXCEPT !.pc = "judge", !.owned.advertised = TRUE]
  <2> DEFINE owned == [mapper.owned EXCEPT !.advertised = TRUE]
  <2>1. /\ owned \in Mapping /\ owned.left = mapper.owned.left /\ owned.lease = mapper.owned.lease
        /\ owned.advertised /\ owned.lost = mapper.owned.lost
    BY <1>1 DEF Mapping
  <2>2. /\ mapper'.owned = owned /\ mapper'.pc = "judge" /\ mapper'.port = mapper.port
        /\ mapper'.by = mapper.by /\ mapper'.stop = mapper.stop /\ owned # Nil
    BY <1>1, <1>4, <2>1, NilFacts DEF MapperType
  <2> HIDE DEF owned
  <2>3. Working
    BY <1>1, <2>2 DEF Working
  <2>4. mapper.owned # Nil
    BY <1>1, NilFacts
  <2>5. Leased'
    BY <2>1, <2>2, <2>4 DEF ShownIInv, Leased
  <2>6. ASSUME Live PROVE Stages' /\ Creating' /\ Owns'
    <3>1. Owns /\ Stages
      BY <2>6 DEF ShownIInv
    <3>2. Announced' = Announced
      BY <1>1 DEF Announced
    <3>3. Owns'
      BY <1>1, <2>1, <2>2, <2>4, <3>1, <3>2 DEF Owns, Has
    <3> QED
      BY <1>1, <2>1, <2>2, <2>4, <3>1, <3>3 DEF Stages, Creating
  <2> QED
    BY <2>3, <2>5, <2>6, WorkingStep
<1> QED
  BY <1>2, <1>3, <1>4 DEF External

LEMMA QueryShown ==
    ASSUME TypeOK, Places, ShownIInv, Query
    PROVE  ShownIInv'
<1>1. /\ UNCHANGED <<table, states, sup, shown, cancelled>> /\ mapper.pc = "query"
      /\ mapper \in MapperType /\ mapper.by = "natpmp"
  BY DEF Query, TypeOK, Places
<1>2. CASE FailsKeeping
  <2>1. Working
    BY <1>1, <1>2, MovesKeep DEF Working
  <2> QED
    BY <1>1, <1>2, <2>1, Moves, KeepsIt DEF SameMapper
<1>3. CASE mapper' = [mapper EXCEPT !.pc = "request", !.since = 0, !.reset = FALSE]
  <2>1. /\ mapper'.owned = mapper.owned /\ mapper'.pc = "request" /\ mapper'.by = mapper.by
        /\ mapper'.stop = mapper.stop /\ mapper'.port = mapper.port
    BY <1>1, <1>3 DEF MapperType
  <2>2. Working
    BY <1>1, <2>1 DEF Working
  <2> QED
    BY <1>1, <2>1, <2>2, KeepsIt DEF ShownIInv, Stages
<1> QED
  BY <1>2, <1>3 DEF Query

\* A grant takes no time from anybody.
LEMMA GrantHas ==
    ASSUME TypeOK, NEW p \in Port, mapper'.by = mapper.by,
           table' = [table EXCEPT ![p] = [by |-> mapper.by, left |-> GrantedLease(Asked)]]
    PROVE  \A q \in Port, left \in Nat : Has(q, left) /\ left <= GrantedLease(Asked) => Has(q, left)'
<1>1. [by |-> mapper.by, left |-> GrantedLease(Asked)] \in Entry
  BY AskedType, TableTypes
<1>2. [by |-> mapper.by, left |-> GrantedLease(Asked)] # Nil
  BY <1>1, NilFacts
<1> QED
  BY <1>2, AskedType DEF TypeOK, Has

\* The router grants a mapping on a port, and the mapper keeps what it has.
LEMMA KeptThrough ==
    ASSUME TypeOK, ShownIInv, Working, NEW p \in Port,
           table' = [table EXCEPT ![p] = [by |-> mapper.by, left |-> GrantedLease(Asked)]],
           mapper'.owned = mapper.owned, mapper.owned # Nil, mapper'.port = mapper.port,
           mapper'.pc = "judge"
    PROVE  ShownIInv'
<1>1. Leased'
  BY DEF ShownIInv, Leased
<1>2. ASSUME Live PROVE Stages' /\ Creating' /\ Owns'
  <2>1. Stages /\ Owns /\ Leased
    BY <1>2 DEF ShownIInv
  <2>2. (Unpublished' <=> Unpublished) /\ Announced' = Announced
    BY DEF Working, Unpublished, Announced
  <2>3. Stages' /\ Creating'
    BY <2>1, <2>2 DEF Stages, Creating
  <2> DEFINE lease == GrantedLease(Asked)
  <2>4. /\ mapper.owned.left \in Nat /\ mapper.owned.lease \in Nat
        /\ mapper.owned.left <= mapper.owned.lease
        /\ mapper.owned.advertised => mapper.owned.lease = lease
    <3>1. mapper.owned.left \in Nat /\ mapper.owned.lease \in Nat \ {0}
      BY DEF TypeOK, MapperType, Mapping
    <3>2. mapper.owned.advertised => mapper.owned.lease <= LongestLease
      BY <2>1 DEF Stages
    <3>3. lease = GrantedLease(mapper.owned.lease)
      BY DEF Asked
    <3> QED
      BY <2>1, <3>1, <3>2, <3>3, GrantTypes DEF Leased
  <2>5. \A q \in Port, left \in Nat : Has(q, left) /\ left <= lease => Has(q, left)'
    BY GrantHas DEF Working
  <2>6. mapper.port \in Port /\ \A m \in Announced : m = Nil \/ m \in Published
    BY AnnouncedType DEF TypeOK, MapperType
  <2> HIDE DEF lease
  <2>7. mapper.owned.advertised /\ ~mapper.owned.lost /\ mapper.owned.left > 0
            => Has(mapper.port, mapper.owned.left)'
    BY <2>1, <2>4, <2>5, <2>6 DEF Owns
  <2>8. \A m \in Announced : m # Nil /\ m.left > 0 /\ ~m.lost =>
            m.port = mapper.port /\ m.left <= mapper.owned.lease /\ Has(m.port, m.left)'
    <3> SUFFICES ASSUME NEW m \in Announced, m # Nil, m.left > 0, ~m.lost
                 PROVE  m.port = mapper.port /\ m.left <= mapper.owned.lease /\ Has(m.port, m.left)'
      OBVIOUS
    <3>1. m.left \in Nat /\ m.port \in Port
      BY <2>6 DEF Published
    <3>2. m.port = mapper.port /\ m.left <= mapper.owned.lease /\ Has(m.port, m.left)
          /\ mapper.owned.advertised
      BY <2>1 DEF Owns, Stages, Unpublished, Announced
    <3>3. m.left <= lease
      BY <2>4, <3>1, <3>2
    <3> QED
      BY <2>5, <3>1, <3>2, <3>3
  <2>9. Owns'
    BY <2>2, <2>7, <2>8 DEF Owns
  <2> QED
    BY <2>3, <2>9
<1> QED
  BY <1>1, <1>2, WorkingStep

\* The mapping that the router has for PCP or NAT-PMP is renewed, on its port.
LEMMA Renewed ==
    ASSUME TypeOK, Tables, ShownIInv, Working, mapper.by \in {"pcp", "natpmp"}, mapper.pc = "request",
           NEW p \in Granted, NEW lease \in Nat \ {0}, lease <= Lease,
           lease = GrantedLease(Asked),
           table' = [table EXCEPT ![p] = [by |-> mapper.by, left |-> GrantedLease(Asked)]],
           mapper'.owned = Owned(lease, TRUE), mapper'.port = p, mapper'.pc = "judge"
    PROVE  ShownIInv'
<1>1. /\ p \in Port /\ \A q \in Port : Matches(q) => Matches(p)
      /\ \A q \in Port : Matches(q) => q = p
  BY GrantedFacts DEF Tables, Matches
<1>2. /\ mapper'.owned \in Mapping /\ mapper'.owned.lease = lease /\ mapper'.owned.advertised
      /\ mapper'.owned.left \in Nat /\ mapper'.owned.left <= lease
  <2> DEFINE owned == Owned(lease, TRUE)
  <2>1. Remaining(lease) \in Nat /\ Remaining(lease) <= lease /\ owned \in Mapping
    BY LeaseTypes
  <2>2. owned.left = Remaining(lease) /\ owned.lease = lease /\ owned.advertised
    BY DEF Owned
  <2> HIDE DEF owned
  <2>3. mapper'.owned = owned
    BY DEF owned
  <2> QED
    BY <2>1, <2>2, <2>3
<1>3. /\ Lease \in Nat /\ mapper'.owned # Nil /\ lease <= LongestLease
      /\ mapper.owned # Nil => mapper.owned.lease \in Nat \ {0} /\ Asked = mapper.owned.lease
  <2>1. lease <= LongestLease
    BY AskedType, GrantTypes
  <2>2. mapper.owned # Nil => mapper.owned.lease \in Nat \ {0} /\ Asked = mapper.owned.lease
    BY DEF Asked, TypeOK, MapperType, Mapping
  <2> QED
    BY <1>2, <2>1, <2>2, NilFacts, PortMappingAssumption
<1>4. Leased'
  BY <1>2, <1>3 DEF Leased
<1>5. ASSUME Live PROVE Stages' /\ Creating' /\ Owns'
  <2>1. Stages /\ Owns /\ Leased
    BY <1>5 DEF ShownIInv
  <2>2. (Unpublished' <=> Unpublished) /\ Announced' = Announced
    BY DEF Working, Unpublished, Announced
  <2>3. Stages' /\ Creating'
    <3>1. mapper'.owned.lease <= LongestLease
      BY <1>2, <1>3
    <3> QED
      BY <1>2, <1>3, <3>1 DEF Stages, Creating
  <2>4. \A left \in Nat : left <= lease => Has(p, left)'
    <3>1. /\ table'[p] = [by |-> mapper.by, left |-> lease]
          /\ [by |-> mapper.by, left |-> lease] # Nil
      <4>1. [by |-> mapper.by, left |-> lease] \in Entry
        BY TableTypes
      <4> QED
        BY <1>1, <4>1, NilFacts DEF TypeOK
    <3> QED
      BY <3>1 DEF Has, Working
  <2>5. Has(mapper.port, mapper.owned.left)'
    <3> DEFINE left == mapper'.owned.left
    <3>1. left \in Nat /\ left <= lease
      BY <1>2
    <3>2. \A l \in Nat : l <= lease => Has(mapper.port, l)'
      BY <2>4
    <3> QED
      BY <3>1, <3>2
  <2>6. \A m \in Announced : m # Nil /\ m.left > 0 /\ ~m.lost =>
            m.port = p /\ m.left <= lease /\ Has(m.port, m.left)'
    <3> SUFFICES ASSUME NEW m \in Announced, m # Nil, m.left > 0, ~m.lost
                 PROVE  m.port = p /\ m.left <= lease /\ Has(m.port, m.left)'
      OBVIOUS
    <3>1. mapper.owned # Nil
      BY <2>1 DEF Stages, Unpublished, Announced
    <3>2. m.port = mapper.port /\ m.left <= mapper.owned.lease /\ Has(m.port, m.left)
      BY <2>1, <3>1 DEF Owns
    <3>3. m.left \in Nat /\ m.port \in Port /\ mapper.owned.lease \in Nat
      BY <3>1, AnnouncedType DEF Published, TypeOK, MapperType, Mapping
    <3>4. m.left <= lease
      <4>1. mapper.owned.lease <= LongestLease
        BY <2>1, <3>1 DEF Stages, Unpublished, Announced
      <4>2. lease = GrantedLease(mapper.owned.lease) /\ mapper.owned.lease \in Nat \ {0}
        BY <1>3, <3>1
      <4>3. lease = mapper.owned.lease
        BY <4>1, <4>2, GrantTypes
      <4> QED
        BY <3>2, <4>3
    <3>5. m.port = p
      BY <1>1, <3>2, <3>3 DEF Has, Matches
    <3> QED
      BY <2>4, <3>3, <3>4, <3>5
  <2>7. Owns'
    BY <1>2, <2>2, <2>5, <2>6 DEF Owns
  <2> QED
    BY <2>3, <2>7
<1> QED
  BY <1>4, <1>5, WorkingStep

LEMMA RequestShown ==
    ASSUME TypeOK, Places, Tables, ShownIInv, Request
    PROVE  ShownIInv'
<1>1. /\ UNCHANGED <<states, sup, shown, cancelled>> /\ mapper.pc = "request"
      /\ mapper \in MapperType /\ mapper.by \in {"pcp", "natpmp"} /\ Lease \in Nat \ {0}
  BY TableTypes, PortMappingAssumption DEF Request, TypeOK, Places, Protocol
<1>2. Live /\ mapper.owned = Nil => Unpublished
  BY <1>1 DEF ShownIInv, Stages
<1> DEFINE Grants(p) == table' = [table EXCEPT ![p] = [by |-> mapper.by, left |-> GrantedLease(Asked)]]
<1>3. \A p \in Port : Grants(p) => \A q \in Port :
            table'[q] # Nil /\ table'[q].by = "upnp" => table'[q] = table[q]
  BY <1>1 DEF TypeOK
<1>4. ASSUME \/ table' = table
             \/ \E p \in Granted : Grants(p),
             mapper'.owned \in {Nil, mapper.owned}, mapper'.pc = "judge", mapper'.port = mapper.port,
             mapper'.by = mapper.by, mapper'.stop = mapper.stop
      PROVE  ShownIInv'
  <2>1. Working
    BY <1>1, <1>3, <1>4, GrantedFacts DEF Working
  <2>2. CASE mapper'.owned = Nil
    BY <1>4, <2>1, <2>2, GivesUp
  <2>3. CASE table' = table
    BY <1>1, <1>4, <2>1, <2>2, <2>3, KeepsIt
  <2>4. CASE mapper'.owned # Nil /\ \E p \in Granted : Grants(p)
    BY <1>4, <2>1, <2>4, GrantedFacts, KeptThrough
  <2> QED
    BY <1>4, <2>2, <2>3, <2>4
<1>5. ASSUME \/ table' = table
             \/ \E p \in Granted : Grants(p),
             mapper.owned = Nil, mapper'.owned = Owned(Lease, FALSE), mapper'.pc = "judge",
             mapper'.by = mapper.by, mapper'.stop = mapper.stop
      PROVE  ShownIInv'
  <2>1. Working
    BY <1>1, <1>3, <1>5, GrantedFacts DEF Working
  <2>2. /\ mapper'.owned \in Mapping /\ mapper'.owned.lease = Lease /\ mapper'.owned.left <= Lease
        /\ ~mapper'.owned.advertised
    <3> DEFINE owned == Owned(Lease, FALSE)
    <3>1. Remaining(Lease) <= Lease /\ owned \in Mapping
      BY <1>1, LeaseTypes
    <3>2. owned.left = Remaining(Lease) /\ owned.lease = Lease /\ ~owned.advertised
      BY DEF Owned
    <3>3. mapper'.owned = owned
      BY <1>5
    <3> HIDE DEF owned
    <3> QED
      BY <3>1, <3>2, <3>3
  <2>3. mapper'.owned # Nil /\ Leased'
    BY <1>1, <2>2, NilFacts DEF Leased
  <2> QED
    BY <1>2, <1>5, <2>1, <2>2, <2>3, Unseen
<1>6. ASSUME NEW p \in Granted, Grants(p), NEW lease \in Nat \ {0}, lease <= Lease,
             lease = GrantedLease(Asked),
             mapper'.owned = Owned(lease, TRUE), mapper'.port = p, mapper'.pc = "judge",
             mapper'.by = mapper.by, mapper'.stop = mapper.stop
      PROVE  ShownIInv'
  <2>1. Working
    BY <1>1, <1>3, <1>6, GrantedFacts DEF Working
  <2> QED
    BY <1>1, <1>6, <2>1, Renewed
<1>7. \A answer : PCPFails(answer) =>
            /\ mapper'.owned \in {Nil, mapper.owned} /\ mapper'.pc = "judge"
            /\ mapper'.port = mapper.port /\ mapper'.by = mapper.by /\ mapper'.stop = mapper.stop
  BY <1>1 DEF PCPFails, MapperType
<1>8. \A p : ApplyPCPResponse(p) =>
            /\ mapper'.owned = Owned(GrantedLease(Asked), TRUE) /\ mapper'.pc = "judge" /\ mapper'.port = p
            /\ mapper'.by = mapper.by /\ mapper'.stop = mapper.stop
  BY <1>1 DEF ApplyPCPResponse, MapperType
<1>9. \A p, answer : ApplyNATPMPResult(p, answer) =>
            /\ mapper'.pc = "judge" /\ mapper'.by = mapper.by /\ mapper'.stop = mapper.stop
            /\ \/ /\ answer = "done" /\ mapper'.port = p
                  /\ mapper'.owned = Owned(GrantedLease((IF mapper.owned = Nil THEN Owned(Lease, FALSE)
                                                        ELSE mapper.owned).lease), TRUE)
               \/ /\ mapper'.port = mapper.port
                  /\ mapper'.owned = (IF mapper.owned = Nil THEN Owned(Lease, FALSE) ELSE mapper.owned)
  BY <1>1, ZenonT(60) DEF ApplyNATPMPResult, MapperType
<1>10. mapper.owned # Nil =>
            /\ mapper.owned.lease \in Nat \ {0} /\ mapper.owned.lease <= Lease
  BY <1>1 DEF ShownIInv, Leased, MapperType, Mapping
<1>11. /\ GrantedLease(Asked) \in Nat \ {0} /\ GrantedLease(Asked) <= Lease
       /\ (IF mapper.owned = Nil THEN Owned(Lease, FALSE) ELSE mapper.owned).lease = Asked
  <2>1. (IF mapper.owned = Nil THEN Owned(Lease, FALSE) ELSE mapper.owned).lease = Asked
    BY DEF Owned, Asked
  <2>2. Asked \in Nat \ {0} /\ Asked <= Lease
    BY <1>1, <1>10, AskedType DEF Asked
  <2>3. GrantedLease(Asked) \in Nat \ {0} /\ GrantedLease(Asked) <= Asked
    BY <2>2, GrantTypes
  <2>4. GrantedLease(Asked) <= Lease
    BY <1>1, <2>2, <2>3
  <2> QED
    BY <2>1, <2>3, <2>4
<1>12. PICK answer : \/ /\ answer \in {"done", "lost"}
                        /\ \E p \in Granted :
                            /\ Grants(p)
                            /\ IF mapper.by = "natpmp" THEN ApplyNATPMPResult(p, answer)
                               ELSE IF answer = "done" THEN ApplyPCPResponse(p) ELSE PCPFails(answer)
                     \/ /\ IF mapper.by = "natpmp" THEN ApplyNATPMPResult(mapper.port, "failed")
                           ELSE PCPFails(IF answer = "done" THEN "refused" ELSE answer)
                        /\ UNCHANGED table
  BY Zenon DEF Request
<1>13. CASE /\ IF mapper.by = "natpmp" THEN ApplyNATPMPResult(mapper.port, "failed")
               ELSE PCPFails(IF answer = "done" THEN "refused" ELSE answer)
            /\ UNCHANGED table
  <2>1. CASE mapper.by = "natpmp"
    BY <1>4, <1>5, <1>9, <1>13, <2>1
  <2>2. CASE mapper.by # "natpmp"
    BY <1>4, <1>7, <1>13, <2>2
  <2> QED
    BY <2>1, <2>2
<1>14. ASSUME NEW p \in Granted, Grants(p),
              IF mapper.by = "natpmp" THEN ApplyNATPMPResult(p, answer)
              ELSE IF answer = "done" THEN ApplyPCPResponse(p) ELSE PCPFails(answer)
       PROVE  ShownIInv'
  <2> HIDE DEF Grants
  <2>1. CASE mapper.by = "natpmp"
    <3>1. ApplyNATPMPResult(p, answer)
      BY <1>14, <2>1
    <3>2. CASE /\ mapper'.port = p
               /\ mapper'.owned = Owned(GrantedLease(Asked), TRUE)
      BY <1>6, <1>9, <1>11, <1>14, <3>1, <3>2
    <3>3. CASE /\ mapper'.port = mapper.port
               /\ mapper'.owned = (IF mapper.owned = Nil THEN Owned(Lease, FALSE) ELSE mapper.owned)
      BY <1>4, <1>5, <1>9, <1>14, <3>1, <3>3
    <3> QED
      BY <1>9, <1>11, <3>1, <3>2, <3>3
  <2>2. CASE mapper.by # "natpmp" /\ answer = "done"
    BY <1>6, <1>8, <1>11, <1>14, <2>2
  <2>3. CASE mapper.by # "natpmp" /\ answer # "done"
    BY <1>4, <1>7, <1>14, <2>3
  <2> QED
    BY <2>1, <2>2, <2>3
<1> QED
  BY <1>12, <1>13, <1>14

-----------------------------------------------------------------------------
(* The Gateway and the room *)

\* A step after which nothing is asked of the mapper but what it believes.
LEMMA NotLive ==
    ASSUME Shows', Leased', ~Live'
    PROVE  ShownIInv'
BY DEF ShownIInv

\* A new mapper starts with nothing shown and nothing of its kind on the router.
LEMMA PickShown ==
    ASSUME TypeOK, Places, ShownIInv, Pick
    PROVE  ShownIInv'
<1>1. /\ sup.pc = "pick" /\ mapper.pc = "off" /\ sup \in SupType
      /\ table' = table /\ states' = states /\ cancelled' = cancelled /\ states = <<>>
      /\ shown' = shown \/ shown' = Nil
  BY DEF Pick, Places, ShownIInv, Shows, TypeOK
<1>2. /\ ~cancelled => shown = Nil /\ shown' = Nil
      /\ \A p \in Port : ~(table[p] # Nil /\ table[p].by = "upnp")
  BY <1>1 DEF ShownIInv, Shows
<1>3. CASE mapper' = mapper
  <2>1. Shows'
    BY <1>1, <1>2, <1>3 DEF Shows
  <2>2. Leased' /\ ~Live'
    BY <1>1, <1>3 DEF ShownIInv, Leased, Live
  <2> QED
    BY <2>1, <2>2, NotLive
<1>4. CASE mapper' = NewMapper(Providers[Index])
  <2>1. mapper'.pc = "loop" /\ mapper'.owned = Nil
    BY <1>4 DEF NewMapper
  <2>2. Shows' /\ Leased'
    BY <1>1, <1>2, <2>1 DEF Shows, Leased
  <2>3. ASSUME Live' PROVE Stages' /\ Creating' /\ Owns'
    <3>1. Unpublished'
      BY <1>1, <1>2, <2>3 DEF Live, Unpublished
    <3>2. Stages' /\ Owns'
      BY <2>1, <3>1 DEF Stages, Owns
    <3>3. Creating'
      BY <1>1, <1>2, <2>1 DEF Creating, Matches
    <3> QED
      BY <3>2, <3>3
  <2> QED
    BY <2>2, <2>3 DEF ShownIInv
<1> QED
  BY <1>3, <1>4 DEF Pick

\* The room is shown what was announced, or what it is shown is taken back.
LEMMA TakeStateShown ==
    ASSUME TypeOK, Places, ShownIInv, TakeState
    PROVE  ShownIInv'
<1>1. /\ sup.pc = "select" /\ states # <<>> /\ states' = Tail(states) /\ cancelled' = cancelled
      /\ table' = table /\ mapper.pc # "off" /\ sup \in SupType /\ mapper \in MapperType
      /\ states \in Seq(StateType)
  BY DEF TakeState, Places, TypeOK
<1>2. /\ Head(states) = states[1] /\ 1 \in DOMAIN states
      /\ \A i \in DOMAIN states' : states'[i] = states[i + 1] /\ i + 1 \in DOMAIN states
  BY <1>1, HeadTailProperties
<1>3. CASE Head(states).mapping # Nil
  <2>1. mapper' = mapper /\ shown' = Head(states).mapping /\ sup' = [sup EXCEPT !.active = TRUE]
    BY <1>3 DEF TakeState
  <2>2. sup'.pc = "select" /\ sup'.active
    BY <1>1, <2>1 DEF SupType
  <2>3. Shows' /\ Leased'
    BY <1>1, <2>1, <2>2 DEF ShownIInv, Shows, Leased
  <2>4. ASSUME Live' PROVE Stages' /\ Creating' /\ Owns'
    <3>1. ASSUME NEW i \in DOMAIN states, i # 1
          PROVE  i - 1 \in DOMAIN states' /\ states[i] = states'[i - 1]
      <4>1. i - 1 \in 1 .. Len(states) - 1 /\ (i - 1) + 1 = i
        BY <1>1, <3>1
      <4>2. Len(states') = Len(states) - 1 /\ states' \in Seq(StateType)
        BY <1>1, HeadTailProperties
      <4>3. i - 1 \in DOMAIN states'
        BY <4>1, <4>2
      <4> QED
        BY <1>2, <4>1, <4>3
    <3>2. Live
      BY <1>1, <1>2, <1>3, <2>1, <2>4, <3>1, ZenonT(60) DEF Live
    <3>3. Announced' \subseteq Announced
      BY <1>2, <2>1 DEF Announced
    <3>4. ~Unpublished
      BY <1>1 DEF Unpublished
    <3>5. Stages'
      BY <2>1, <3>2, <3>4 DEF ShownIInv, Stages
    <3>6. Creating'
      BY <1>1, <2>1, <3>2 DEF ShownIInv, Creating, Matches
    <3>7. Owns'
      BY <1>1, <2>1, <3>2, <3>3 DEF ShownIInv, Owns, Has
    <3> QED
      BY <3>5, <3>6, <3>7
  <2> QED
    BY <2>3, <2>4 DEF ShownIInv
<1>4. CASE Head(states).mapping = Nil
  <2>1. /\ mapper' = [mapper EXCEPT !.stop = TRUE]
        /\ shown' = IF sup.active THEN Nil ELSE shown
    BY <1>4 DEF TakeState
  <2>2. mapper'.stop /\ mapper'.pc = mapper.pc /\ mapper'.by = mapper.by /\ mapper'.owned = mapper.owned
    BY <1>1, <2>1 DEF MapperType
  <2>3. ~cancelled => shown' = Nil
    BY <2>1 DEF ShownIInv, Shows
  <2>4. Shows'
    BY <1>1, <2>2, <2>3 DEF ShownIInv, Shows
  <2>5. Leased' /\ ~Live'
    BY <2>2 DEF ShownIInv, Leased, Live
  <2> QED
    BY <2>4, <2>5, NotLive
<1> QED
  BY <1>3, <1>4

LEMMA SelectDoneShown ==
    ASSUME TypeOK, Places, ShownIInv, SelectDone
    PROVE  ShownIInv'
<1>1. /\ mapper.pc # "off" /\ cancelled' /\ table' = table
      /\ mapper'.pc = mapper.pc /\ mapper'.by = mapper.by /\ mapper'.owned = mapper.owned
  BY DEF SelectDone, Places, TypeOK, MapperType
<1>2. Shows' /\ Leased' /\ ~Live'
  BY <1>1 DEF ShownIInv, Shows, Leased, Live
<1> QED
  BY <1>2, NotLive

\* What a mapper leaves is not taken for the mapping of the next one.
LEMMA StopShown ==
    ASSUME TypeOK, Places, ShownIInv, Stop
    PROVE  ShownIInv'
<1>1. /\ mapper'.pc = "off" /\ mapper'.owned = mapper.owned /\ states' = <<>>
      /\ shown' = shown /\ cancelled' = cancelled /\ sup.pc = "stop"
  BY DEF Stop, TypeOK, MapperType
<1>2. \A p \in Port : ~(table'[p] # Nil /\ table'[p].by = "upnp")
  <2> SUFFICES ASSUME NEW p \in Port, table'[p] # Nil, table'[p].by = "upnp"
               PROVE  FALSE
    OBVIOUS
  <2>1. table'[p] = IF Matches(p) /\ mapper.by # "natpmp"
                    THEN [table[p] EXCEPT !.by = "old"] ELSE table[p]
    BY DEF Stop, Orphaned
  <2>2. table[p] # Nil => table[p] \in Entry
    BY TableTypes
  <2>3. CASE Matches(p) /\ mapper.by # "natpmp"
    BY <2>1, <2>2, <2>3 DEF Entry, Matches
  <2>4. CASE ~(Matches(p) /\ mapper.by # "natpmp")
    BY <2>1, <2>4 DEF ShownIInv, Shows, Matches
  <2> QED
    BY <2>3, <2>4
<1>3. Shows' /\ Leased' /\ ~Live'
  BY <1>1, <1>2 DEF ShownIInv, Shows, Leased, Live
<1> QED
  BY <1>3, NotLive

LEMMA WaitingShown ==
    ASSUME TypeOK, Places, ShownIInv, GatewayWait \/ Cancel
    PROVE  ShownIInv'
<1>1. /\ UNCHANGED <<table, mapper, states, shown>>
      /\ cancelled' \/ (cancelled' = cancelled /\ sup.pc = "wait")
  BY DEF GatewayWait, Cancel
<1>2. ~Live'
  BY <1>1 DEF Live, Places
<1>3. Shows' /\ Leased'
  BY <1>1 DEF ShownIInv, Shows, Leased
<1> QED
  BY <1>2, <1>3, NotLive

-----------------------------------------------------------------------------
(* Time, other devices and restarts *)

\* What time and a restart leave of a mapping, believed or published.
LEMMA OlderFacts ==
    /\ \A m \in Mapping :
        /\ Older(m) # Nil /\ Older(m).lease = m.lease /\ Older(m).advertised = m.advertised
        /\ Older(m).lost = m.lost /\ Older(m).left = IF m.left = 0 THEN 0 ELSE m.left - 1
        /\ Lost(m) # Nil /\ Lost(m).lease = m.lease /\ Lost(m).advertised = m.advertised
        /\ Lost(m).lost /\ Lost(m).left = m.left
    /\ \A m \in Published :
        /\ Older(m) # Nil /\ Older(m).port = m.port
        /\ Older(m).lost = m.lost /\ Older(m).left = IF m.left = 0 THEN 0 ELSE m.left - 1
        /\ Lost(m) # Nil /\ Lost(m).lost
<1>1. ASSUME NEW n \in Nat
      PROVE  Max({n - 1, 0}) = IF n = 0 THEN 0 ELSE n - 1
  <2>1. n - 1 \in Int
    OBVIOUS
  <2>2. Max({n - 1, 0}) = IF n - 1 >= 0 THEN n - 1 ELSE 0
    BY <2>1, MaxMin
  <2> QED
    BY <2>2
<1>2. ASSUME NEW m \in Mapping
      PROVE  /\ Older(m) # Nil /\ Older(m).lease = m.lease /\ Older(m).advertised = m.advertised
             /\ Older(m).lost = m.lost /\ Older(m).left = IF m.left = 0 THEN 0 ELSE m.left - 1
             /\ Lost(m) # Nil /\ Lost(m).lease = m.lease /\ Lost(m).advertised = m.advertised
             /\ Lost(m).lost /\ Lost(m).left = m.left
  <2> DEFINE left == Max({m.left - 1, 0})
  <2>1. left = (IF m.left = 0 THEN 0 ELSE m.left - 1) /\ left \in Nat
    BY <1>1 DEF Mapping
  <2>2. Older(m) = [m EXCEPT !.left = left] /\ Lost(m) = [m EXCEPT !.lost = TRUE]
    BY NilFacts DEF Older, Lost
  <2> HIDE DEF left
  <2>3. Older(m) \in Mapping /\ Lost(m) \in Mapping
    BY <2>1, <2>2 DEF Mapping
  <2> QED
    BY <2>1, <2>2, <2>3, NilFacts DEF Mapping
<1>3. ASSUME NEW m \in Published
      PROVE  /\ Older(m) # Nil /\ Older(m).port = m.port
             /\ Older(m).lost = m.lost /\ Older(m).left = IF m.left = 0 THEN 0 ELSE m.left - 1
             /\ Lost(m) # Nil /\ Lost(m).lost
  <2> DEFINE left == Max({m.left - 1, 0})
  <2>1. left = (IF m.left = 0 THEN 0 ELSE m.left - 1) /\ left \in Nat
    BY <1>1 DEF Published
  <2>2. Older(m) = [m EXCEPT !.left = left] /\ Lost(m) = [m EXCEPT !.lost = TRUE]
    BY NilFacts DEF Older, Lost
  <2> HIDE DEF left
  <2>3. Older(m) \in Published /\ Lost(m) \in Published
    BY <2>1, <2>2 DEF Published
  <2> QED
    BY <2>1, <2>2, <2>3, NilFacts DEF Published
<1> QED
  BY <1>2, <1>3

\* Time, another device or a restart, which change what the router has of ours, what
\* the mapper believes and what is announced, and nothing else of interest.
Outside ==
    /\ UNCHANGED <<sup, cancelled>>
    /\ mapper'.by = mapper.by /\ mapper'.pc = mapper.pc /\ mapper'.then = mapper.then
    /\ mapper'.port = mapper.port /\ mapper'.add = mapper.add /\ mapper'.stop = mapper.stop
    /\ mapper'.owned = Nil <=> mapper.owned = Nil
    /\ mapper.owned # Nil =>
        /\ mapper'.owned.lease = mapper.owned.lease /\ mapper'.owned.left <= mapper.owned.left
        /\ mapper'.owned.advertised = mapper.owned.advertised
    /\ \A p \in Port : table'[p] # Nil /\ table'[p].by # "other" =>
        table[p] # Nil /\ table'[p].by = table[p].by
    /\ shown' = Nil <=> shown = Nil
    /\ DOMAIN states' = DOMAIN states /\ (states' = <<>> <=> states = <<>>)
    /\ \A i \in DOMAIN states : states'[i].mapping = Nil <=> states[i].mapping = Nil

LEMMA OutsideStep ==
    ASSUME TypeOK, TypeOK', ShownIInv, Outside, Live => Creating' /\ Owns'
    PROVE  ShownIInv'
<1>1. Shows'
  BY DEF ShownIInv, Shows, Outside
<1>2. Leased'
  <2> SUFFICES ASSUME mapper.owned # Nil, mapper'.owned # Nil
               PROVE  mapper'.owned.left <= mapper'.owned.lease /\ mapper'.owned.lease <= Lease
    BY DEF Leased, Outside
  <2>1. mapper.owned \in Mapping /\ mapper'.owned \in Mapping
    BY DEF TypeOK, MapperType
  <2> QED
    BY <2>1 DEF ShownIInv, Leased, Outside, Mapping
<1>3. Live' => Live
  BY DEF Live, Outside
<1>4. Live => Stages'
  BY DEF ShownIInv, Stages, Unpublished, Outside
<1> QED
  BY <1>1, <1>2, <1>3, <1>4 DEF ShownIInv

LEMMA RestartShown ==
    ASSUME TypeOK, TypeOK', Places, ShownIInv, Restart
    PROVE  ShownIInv'
<1>1. /\ mapper'.by = mapper.by /\ mapper'.pc = mapper.pc /\ mapper'.then = mapper.then
      /\ mapper'.port = mapper.port /\ mapper'.add = mapper.add /\ mapper'.stop = mapper.stop
      /\ mapper'.owned = Lost(mapper.owned)
  BY DEF Restart, TypeOK, MapperType
<1>2. mapper.owned = Nil \/ mapper.owned \in Mapping
  BY DEF TypeOK, MapperType
<1>3. /\ mapper'.owned = Nil <=> mapper.owned = Nil
      /\ mapper.owned # Nil =>
        /\ mapper'.owned.lease = mapper.owned.lease /\ mapper'.owned.left = mapper.owned.left
        /\ mapper'.owned.advertised = mapper.owned.advertised /\ mapper'.owned.lost
        /\ mapper.owned.left \in Nat
  BY <1>1, <1>2, OlderFacts DEF Lost, Mapping
<1>4. /\ shown' = Lost(shown) /\ \A p \in Port : table'[p] = Nil
      /\ UNCHANGED <<sup, cancelled>>
  BY DEF Restart
<1>5. /\ DOMAIN states' = DOMAIN states /\ (states' = <<>> <=> states = <<>>)
      /\ \A i \in DOMAIN states : states'[i].mapping = Lost(states[i].mapping)
  <2>1. states' = [i \in DOMAIN states |-> [states[i] EXCEPT !.mapping = Lost(@)]]
    BY DEF Restart
  <2>2. states \in Seq(StateType) /\ states' \in Seq(StateType)
    BY DEF TypeOK
  <2>3. DOMAIN states' = DOMAIN states
    BY <2>1
  <2>4. Len(states') = Len(states)
    BY <2>2, <2>3
  <2>5. \A i \in DOMAIN states : states[i] \in StateType
    BY <2>2
  <2> QED
    BY <2>1, <2>2, <2>3, <2>4, <2>5 DEF StateType
<1>6. \A m \in Announced : (m # Nil => Lost(m).lost) /\ (Lost(m) = Nil <=> m = Nil)
  BY AnnouncedType, OlderFacts DEF Lost
<1>7. \A m \in Announced' : m = Nil \/ m.lost
  BY <1>4, <1>5, <1>6 DEF Announced
<1>8. /\ shown' = Nil <=> shown = Nil
      /\ \A i \in DOMAIN states : states'[i].mapping = Nil <=> states[i].mapping = Nil
  BY <1>4, <1>5, <1>6 DEF Announced
<1>9. Outside
  BY <1>1, <1>3, <1>4, <1>5, <1>8 DEF Outside
<1>10. mapper.port \in Port
  BY DEF TypeOK, MapperType
<1>11. Creating' /\ Owns'
  BY <1>1, <1>3, <1>4, <1>7, <1>10 DEF Creating, Owns, Matches
<1> QED
  BY <1>9, <1>11, OutsideStep

LEMMA OtherTakesShown ==
    ASSUME TypeOK, TypeOK', Places, ShownIInv, NEW q \in Port, OtherTakes(q)
    PROVE  ShownIInv'
<1>1. /\ mapper'.by = mapper.by /\ mapper'.pc = mapper.pc /\ mapper'.then = mapper.then
      /\ mapper'.port = mapper.port /\ mapper'.add = mapper.add /\ mapper'.stop = mapper.stop
      /\ mapper'.owned = mapper.owned /\ mapper'.since = mapper.since
      /\ UNCHANGED <<states, sup, shown, cancelled>>
  BY DEF OtherTakes, TypeOK, MapperType
<1>2. /\ table[q] = Nil /\ table'[q].by = "other"
      /\ \A p \in Port : p # q => table'[p] = table[p]
  BY DEF OtherTakes, TypeOK
<1>3. mapper.owned # Nil => mapper.owned.left \in Nat
  BY DEF TypeOK, MapperType, Mapping
<1>4. Outside
  BY <1>1, <1>2, <1>3 DEF Outside
<1>5. mapper.by # "other" /\ mapper.port \in Port
  BY TableTypes DEF Protocol, TypeOK, MapperType
<1>6. \A p \in Port : Matches(p)' <=> Matches(p)
  BY <1>1, <1>2, <1>5 DEF Matches
<1>7. \A p \in Port : \A left : Has(p, left) => Has(p, left)'
  BY <1>1, <1>2 DEF Has
<1>8. \A p \in Port : Matches(p) => table'[p] = table[p]
  BY <1>2 DEF Matches
<1>9. ASSUME Live PROVE Creating' /\ Owns'
  <2>1. Creating'
    BY <1>1, <1>5, <1>6, <1>8, <1>9 DEF ShownIInv, Creating
  <2>2. Announced' = Announced
    BY <1>1 DEF Announced
  <2>3. \A m \in Announced : m # Nil => m.port \in Port
    BY AnnouncedType DEF Published
  <2>4. Owns'
    BY <1>1, <1>5, <1>7, <1>9, <2>2, <2>3 DEF ShownIInv, Owns
  <2> QED
    BY <2>1, <2>4
<1> QED
  BY <1>4, <1>9, OutsideStep

\* What has time left after a tick is on the router for as long, if it was before.
LEMMA StaysOn ==
    ASSUME TypeOK, Tick, mapper'.by = mapper.by, NEW p \in Port, NEW left \in Nat \ {0, 1}, Has(p, left)
    PROVE  Has(p, left - 1)'
<1>1. table[p] # Nil /\ table[p].by = mapper.by /\ table[p] \in Entry
      /\ (table[p].left = Forever \/ table[p].left >= left)
  BY TableTypes DEF Has
<1>2. CASE table[p].left = Forever
  <2>1. table'[p] = table[p]
    BY <1>2 DEF Tick
  <2> QED
    BY <1>1, <1>2, <2>1 DEF Has
<1>3. CASE table[p].left # Forever
  <2>1. table[p].left \in Nat /\ table[p].left >= left
    BY <1>1, <1>3 DEF Entry
  <2>2. table'[p] = [table[p] EXCEPT !.left = @ - 1]
    <3>1. table'[p] = IF table[p] = Nil \/ table[p].left = Forever THEN table[p]
                      ELSE IF table[p].left = 1 THEN Nil ELSE [table[p] EXCEPT !.left = @ - 1]
      BY DEF Tick
    <3> QED
      BY <1>1, <1>3, <2>1, <3>1
  <2>3. table'[p].by = mapper.by /\ table'[p].left = table[p].left - 1 /\ table'[p] \in Entry
    BY <1>1, <1>3, <2>1, <2>2 DEF Entry
  <2> QED
    BY <2>1, <2>3, NilFacts DEF Has
<1> QED
  BY <1>2, <1>3

LEMMA TickShown ==
    ASSUME TypeOK, TypeOK', Places, ShownIInv, Tick
    PROVE  ShownIInv'
<1>1. /\ mapper'.by = mapper.by /\ mapper'.pc = mapper.pc /\ mapper'.then = mapper.then
      /\ mapper'.port = mapper.port /\ mapper'.add = mapper.add /\ mapper'.stop = mapper.stop
      /\ mapper'.owned = Older(mapper.owned) /\ mapper'.since = Min({mapper.since + 1, Lease})
  BY DEF Tick, TypeOK, MapperType
<1>2. /\ mapper.owned = Nil \/ mapper.owned \in Mapping
      /\ mapper.since \in Nat /\ mapper.port \in Port
  BY DEF TypeOK, MapperType
<1>3. /\ mapper'.owned = Nil <=> mapper.owned = Nil
      /\ mapper.owned # Nil =>
        /\ mapper'.owned.lease = mapper.owned.lease
        /\ mapper'.owned.left = IF mapper.owned.left = 0 THEN 0 ELSE mapper.owned.left - 1
        /\ mapper'.owned.advertised = mapper.owned.advertised
        /\ mapper'.owned.lost = mapper.owned.lost
        /\ mapper.owned.left \in Nat /\ mapper.owned.lease \in Nat
  BY <1>1, <1>2, OlderFacts DEF Older, Mapping
<1>4. mapper'.since = IF mapper.since + 1 <= Lease THEN mapper.since + 1 ELSE Lease
  <2>1. mapper.since + 1 \in Int /\ Lease \in Int
    BY <1>2, PortMappingAssumption
  <2> QED
    BY <1>1, <2>1, MaxMin
<1>5. shown' = Older(shown) /\ UNCHANGED <<sup, cancelled>>
  BY DEF Tick
<1>6. /\ DOMAIN states' = DOMAIN states
      /\ states' = <<>> <=> states = <<>>
      /\ \A i \in DOMAIN states : states'[i].mapping = Older(states[i].mapping)
  <2>1. states' = [i \in DOMAIN states |-> [states[i] EXCEPT !.mapping = Older(@)]]
    BY DEF Tick
  <2>2. states \in Seq(StateType) /\ states' \in Seq(StateType)
    BY DEF TypeOK
  <2>3. DOMAIN states' = DOMAIN states
    BY <2>1
  <2>4. Len(states') = Len(states)
    BY <2>2, <2>3
  <2>5. \A i \in DOMAIN states : states[i] \in StateType
    BY <2>2
  <2> QED
    BY <2>1, <2>2, <2>3, <2>4, <2>5 DEF StateType
<1>7. \A m \in Announced :
        /\ Older(m) = Nil <=> m = Nil
        /\ m # Nil =>
            /\ Older(m).port = m.port /\ Older(m).lost = m.lost /\ m.left \in Nat /\ m.port \in Port
            /\ Older(m).left = IF m.left = 0 THEN 0 ELSE m.left - 1
  BY AnnouncedType, OlderFacts DEF Older, Published
<1>8. /\ shown' = Nil <=> shown = Nil
      /\ \A i \in DOMAIN states : states'[i].mapping = Nil <=> states[i].mapping = Nil
  BY <1>5, <1>6, <1>7 DEF Announced
<1>9. \A m \in Announced' : \E older \in Announced : m = Older(older)
  BY <1>5, <1>6 DEF Announced
<1>10. ASSUME NEW p \in Port, table'[p] # Nil
       PROVE  /\ table[p] # Nil /\ table'[p].by = table[p].by /\ table[p] \in Entry
              /\ \/ table'[p].left = Forever
                 \/ /\ table[p].left # Forever /\ table[p].left \in Nat \ {0, 1}
                    /\ table'[p].left = table[p].left - 1
  <2>1. table'[p] = IF table[p] = Nil \/ table[p].left = Forever THEN table[p]
                    ELSE IF table[p].left = 1 THEN Nil ELSE [table[p] EXCEPT !.left = @ - 1]
    BY DEF Tick
  <2>2. table[p] # Nil /\ table[p] \in Entry
    BY <1>10, <2>1, TableTypes
  <2>3. CASE table[p].left = Forever
    BY <2>1, <2>2, <2>3
  <2>4. CASE table[p].left # Forever
    <3>1. table[p].left # 1 /\ table'[p] = [table[p] EXCEPT !.left = @ - 1]
      BY <1>10, <2>1, <2>2, <2>4
    <3>2. table[p].left \in Nat \ {0, 1}
      BY <2>2, <2>4, <3>1 DEF Entry
    <3> QED
      BY <2>2, <2>4, <3>1, <3>2 DEF Entry
  <2> QED
    BY <2>3, <2>4
<1>11. Outside
  BY <1>1, <1>3, <1>5, <1>6, <1>8, <1>10 DEF Outside
<1>12. \A p \in Port : Matches(p)' => Matches(p)
  BY <1>1, <1>10 DEF Matches
<1>13. ASSUME Live PROVE Creating'
  <2>1. Creating /\ Leased /\ Lease \in Nat
    BY <1>13, PortMappingAssumption DEF ShownIInv
  <2> DEFINE p == mapper.port
  <2>2. ASSUME Matches(p)', table'[p].left # Forever
        PROVE  /\ Matches(p) /\ table[p].left # Forever
               /\ \A lease \in 0 .. Lease : table[p].left + mapper.since >= lease
                                                => table'[p].left + mapper'.since >= lease
    <3>1. Matches(p) /\ table[p].left # Forever /\ table[p].left \in Nat \ {0, 1}
          /\ table'[p].left = table[p].left - 1
      BY <1>1, <1>2, <1>10, <1>12, <2>2 DEF Matches
    <3> QED
      BY <1>2, <1>4, <2>1, <3>1
  <2>3. mapper.owned # Nil => GrantedLease(mapper.owned.lease) \in 0 .. Lease
    <3> SUFFICES ASSUME mapper.owned # Nil PROVE GrantedLease(mapper.owned.lease) \in 0 .. Lease
      OBVIOUS
    <3>1. mapper.owned.lease \in Nat \ {0} /\ mapper.owned.lease <= Lease
      BY <1>2, <2>1 DEF Leased, Mapping
    <3>2. /\ GrantedLease(mapper.owned.lease) \in Nat
          /\ GrantedLease(mapper.owned.lease) <= mapper.owned.lease
      BY <3>1, GrantTypes
    <3> QED
      BY <2>1, <3>1, <3>2
  <2>4. GrantedLease(Lease) \in 0 .. Lease
    <3>1. GrantedLease(Lease) \in Nat /\ GrantedLease(Lease) <= Lease
      BY PortMappingAssumption, GrantTypes
    <3> QED
      BY <2>1, <3>1
  <2>5. mapper'.pc = "verify" /\ Matches(p)' /\ table'[p].left # Forever =>
            /\ mapper'.owned = Nil /\ mapper'.add \in {"ok", "unknown"} =>
                table'[p].left + mapper'.since >= GrantedLease(Lease)
            /\ mapper'.owned # Nil /\ mapper'.add = "ok" =>
                table'[p].left + mapper'.since >= GrantedLease(mapper'.owned.lease)
    BY <1>1, <1>3, <2>1, <2>2, <2>3, <2>4 DEF Creating
  <2>6. (/\ mapper'.by = "upnp" /\ mapper'.owned = Nil
         /\ \/ mapper'.pc \in {"loop", "discover", "check", "add"}
            \/ mapper'.pc = "verify" /\ mapper'.add = "conflict")
            => \A port \in Port : ~Matches(port)'
    BY <1>1, <1>3, <1>12, <2>1 DEF Creating
  <2> QED
    BY <1>1, <2>5, <2>6 DEF Creating
<1>14. ASSUME Live PROVE Owns'
  <2> SUFFICES ASSUME mapper.owned # Nil
               PROVE  Owns'
    BY <1>3 DEF Owns
  <2>1. Owns
    BY <1>14 DEF ShownIInv
  <2>2. ASSUME NEW port, NEW left, port = mapper'.port, left = mapper'.owned.left,
               mapper'.owned.advertised \/ mapper'.pc \in {"external", "renewed"}, ~mapper'.owned.lost, left > 0
        PROVE  Has(port, left)'
    <3>1. /\ mapper.owned.left \in Nat \ {0, 1} /\ left = mapper.owned.left - 1
          /\ left + 1 = mapper.owned.left /\ left + 1 \in Nat \ {0, 1} /\ (left + 1) - 1 = left
      BY <1>3, <2>2
    <3>2. Has(port, left + 1)
      BY <1>1, <1>3, <2>1, <2>2, <3>1 DEF Owns, Has
    <3>3. port \in Port
      BY <1>1, <1>2, <2>2
    <3>4. Has(port, (left + 1) - 1)'
      BY <1>1, <3>1, <3>2, <3>3, StaysOn
    <3> QED
      BY <3>1, <3>4
  <2>3. ASSUME NEW m \in Announced', m # Nil, m.left > 0, ~m.lost
        PROVE  m.port = mapper'.port /\ m.left <= mapper'.owned.lease /\ Has(m.port, m.left)'
    <3>1. PICK older \in Announced : m = Older(older)
      BY <1>9
    <3>2. /\ older # Nil /\ ~older.lost /\ older.port = m.port /\ older.port \in Port
          /\ older.left \in Nat \ {0, 1} /\ m.left = older.left - 1
      BY <1>7, <2>3, <3>1
    <3>3. older.port = mapper.port /\ older.left <= mapper.owned.lease /\ Has(older.port, older.left)
      BY <2>1, <3>2 DEF Owns
    <3>4. Has(older.port, older.left - 1)'
      BY <1>1, <3>2, <3>3, StaysOn
    <3> QED
      BY <1>1, <1>3, <3>2, <3>3, <3>4 DEF Has
  <2>4. (mapper'.owned.advertised \/ mapper'.pc \in {"external", "renewed"}) /\ ~mapper'.owned.lost
            /\ mapper'.owned.left > 0
            => table'[mapper'.port] # Nil /\ table'[mapper'.port].by = mapper'.by
                /\ (table'[mapper'.port].left = Forever \/ table'[mapper'.port].left >= mapper'.owned.left)
    BY <2>2 DEF Has
  <2> QED
    BY <2>3, <2>4 DEF Owns, Has
<1> QED
  BY <1>11, <1>13, <1>14, OutsideStep

-----------------------------------------------------------------------------
(* What the room shows is on the router *)

LEMMA InitShown == Init => ShownIInv
<1> SUFFICES ASSUME Init PROVE ShownIInv
  OBVIOUS
<1>1. mapper.pc = "off" /\ mapper.owned = Nil
  BY DEF Init, NewMapper
<1>2. Shows /\ Leased /\ ~Live
  BY <1>1 DEF Init, Shows, Leased, Live
<1> QED
  BY <1>2 DEF ShownIInv

LEMMA ShownStep ==
    ASSUME IInv, ShownIInv, [Next]_vars
    PROVE  ShownIInv'
<1>1. TypeOK /\ Places /\ Tables
  BY DEF IInv
<1>2. TypeOK'
  BY <1>1, StepType
<1>3. CASE MapperStep
  BY <1>1, <1>3, LookShown, DeleteShown, LoopShown, DiscoverShown, JudgeShown, PublishShown,
     WaitShown, CheckShown, AddShown, VerifyShown, ExternalShown, QueryShown, RequestShown
     DEF MapperStep
<1>4. CASE SupervisorStep \/ Cancel
  BY <1>1, <1>4, PickShown, TakeStateShown, SelectDoneShown, StopShown, WaitingShown
     DEF SupervisorStep
<1>5. CASE Tick \/ Restart \/ \E p \in Port : OtherTakes(p)
  BY <1>1, <1>2, <1>5, TickShown, RestartShown, OtherTakesShown
<1>6. CASE UNCHANGED vars
  <2>1. Shows' /\ Leased' /\ (Live' <=> Live)
    BY <1>6 DEF ShownIInv, Shows, Leased, Live, vars
  <2>2. Live => Stages' /\ Creating' /\ Owns'
    BY <1>6 DEF ShownIInv, Stages, Creating, Owns, Unpublished, Announced, Matches, Has, vars
  <2> QED
    BY <2>1, <2>2 DEF ShownIInv
<1> QED
  BY <1>3, <1>4, <1>5, <1>6 DEF Next

LEMMA ShownInvariant == Spec => []ShownIInv
BY InitShown, ShownStep, Invariant, PTL DEF Spec

\* Whatever is lost, answered late, granted for less or restarted: while the mapper holds
\* a mapping and has not retracted it, what the room was told is on the router, as its
\* own, for at least as long as the room was told (CurrentState, publishState,
\* runMapperProvider).
THEOREM ShownMappingIsHeld == Spec => []ShownIsHeld
<1>1. IInv /\ ShownIInv => ShownIsHeld
  <2> SUFFICES ASSUME TypeOK, Places, ShownIInv, shown # Nil, shown.left # 0, ~shown.lost, ~cancelled,
                      mapper.owned # Nil, ~mapper.stop,
                      \A i \in DOMAIN states : states[i].mapping # Nil
               PROVE  Has(shown.port, shown.left)
    BY DEF IInv, ShownIsHeld, Has
  <2>1. sup.pc = "select"
    BY DEF ShownIInv, Shows
  <2>2. Live
    BY <2>1 DEF Live, Places
  <2>3. shown \in Announced /\ shown.left > 0
    BY DEF Announced, TypeOK, Published
  <2> QED
    BY <2>2, <2>3 DEF ShownIInv, Owns
<1> QED
  BY <1>1, Invariant, ShownInvariant, PTL
=============================================================================
