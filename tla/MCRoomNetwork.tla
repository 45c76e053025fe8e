--------------------------- MODULE MCRoomNetwork ---------------------------
(* A host behind a NAT whose mapping depends on the server asked, with a       *)
(* public IPv6 address, and a router that maps ports.                          *)
EXTENDS RoomNetwork

Candidate(type, ip, port, v6, public) ==
    [type |-> type, ip |-> ip, port |-> port, v6 |-> v6, public |-> public]

Private == Candidate("nic", "lan", 1, FALSE, FALSE)
STUN(port) == Candidate("stun", "wan", port, FALSE, TRUE)
Public6(type) == Candidate(type, "six", 1, TRUE, TRUE)

Discovered == <<<<Private>>, <<Private, STUN(2)>>, <<Private, Public6("nic"), STUN(3)>>>>
Mappings == [f \in {"ipv4", "ipv6"} |->
    IF f = "ipv4" THEN {Candidate("mapped", "wan", 4, FALSE, TRUE)} ELSE {Public6("mapped")}]

Quiet == [tracker |-> TRUE, mappers |-> {}, changes |-> 0, states |-> 0, failures |-> 0,
          outages |-> 0, losses |-> 0, breaks |-> 0, stop |-> "none"]

Settings == {[Quiet EXCEPT !.changes = 2, !.outages = 1],
             [Quiet EXCEPT !.changes = 1, !.outages = 1, !.stop = "parent"],
             [Quiet EXCEPT !.outages = 1, !.losses = 1, !.stop = "endpoint"],
             [Quiet EXCEPT !.mappers = {"ipv4"}, !.changes = 1, !.states = 1],
             [Quiet EXCEPT !.tracker = FALSE, !.mappers = Family, !.changes = 2, !.states = 2,
                           !.failures = 1, !.stop = "parent"],
             [Quiet EXCEPT !.tracker = FALSE, !.changes = 1, !.breaks = 2, !.stop = "endpoint"]}
=============================================================================
