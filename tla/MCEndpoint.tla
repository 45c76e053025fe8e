----------------------------- MODULE MCEndpoint -----------------------------
(* A busy endpoint, and endpoints that stop while a probe, a write somebody    *)
(* waits for, or received packets are under way.                               *)
EXTENDS Endpoint

Weights == [l \in ToSet(Lane) |-> IF l = "voice" THEN 2 ELSE 1]

Quiet == [writes |-> 0, batch |-> 1, packets |-> 0, probes |-> 0, leave |-> FALSE,
          breaks |-> FALSE, stop |-> FALSE]

Settings == {[Quiet EXCEPT !.writes = 6],
             [Quiet EXCEPT !.writes = 4, !.batch = 3],
             [Quiet EXCEPT !.writes = 1, !.batch = 2, !.probes = 2, !.packets = 2, !.stop = TRUE],
             [Quiet EXCEPT !.writes = 2, !.batch = 2, !.packets = 2, !.breaks = TRUE],
             [Quiet EXCEPT !.writes = 1, !.probes = 1, !.leave = TRUE, !.stop = TRUE]}
=============================================================================
