--------------------------- MODULE SequenceSpace ----------------------------
(***************************************************************************)
(* Sequence numbers run from 1 to the largest uint64 and are never reused: *)
(* a sender that has used the last one fails instead of wrapping           *)
(* (nextSendSequence in internal/peer/control_flow.go, canQueue in         *)
(* internal/peer/reliable.go).                                             *)
(***************************************************************************)
EXTENDS Integers

CONSTANT MaxSequence    \* 2^64 - 1 in the code

ASSUME MaxSequenceAssumption == MaxSequence \in Nat \ {0}
=============================================================================
