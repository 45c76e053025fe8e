--------------------------- MODULE SequenceWindow ---------------------------
(***************************************************************************)
(* The sliding receive window of internal/peer/control_flow.go and the     *)
(* acknowledgment it doubles as (internal/protocol/reliable.go).           *)
(*                                                                         *)
(* A window remembers the highest sequence number it has accepted and, in  *)
(* a 64-bit mask, which of the 64 most recent ones were seen.  The mask is *)
(* the set of its bit positions: d \in seen iff bit d is 1, which stands   *)
(* for the sequence number highest - d.  The width 64 is the constant      *)
(* WindowBits; nothing below depends on its value.                         *)
(***************************************************************************)
EXTENDS Integers

CONSTANT WindowBits     \* 64 in the code

ASSUME WindowBitsAssumption == WindowBits \in Nat \ {0}

Bits == 0 .. WindowBits - 1

Window == [highest : Nat, seen : SUBSET Bits]

\* The zero value of the struct: nothing accepted yet.
EmptyWindow == [highest |-> 0, seen |-> {}]

\* seen << shift, as sets of bit positions: bits that leave the word are lost.
ShiftLeft(seen, shift) == {d \in Bits : d - shift \in seen}

\* Mutant: the window one sequence number narrower than the mask.
MayAcceptNarrow(w, seq) ==
    /\ seq # 0
    /\ \/ seq > w.highest
       \/ /\ w.highest - seq < WindowBits - 1
          /\ w.highest - seq \notin w.seen

\* accept on a copy of the window: would this sequence number be accepted?
MayAccept(w, seq) ==
    /\ seq # 0
    /\ \/ seq > w.highest
       \/ /\ w.highest - seq < WindowBits
          /\ w.highest - seq \notin w.seen

\* The window after accept(seq); unchanged when accept returns false.
Accept(w, seq) ==
    IF ~MayAccept(w, seq)
    THEN w
    ELSE IF seq > w.highest
         THEN [highest |-> seq,
               seen    |-> IF seq - w.highest >= WindowBits
                           THEN {0}
                           ELSE ShiftLeft(w.seen, seq - w.highest) \cup {0}]
         ELSE [highest |-> w.highest, seen |-> w.seen \cup {w.highest - seq}]

\* Mutant: the acknowledgment does not cover its own base.
FragmentAckContainsBelow(base, bitmap, seq) ==
    /\ seq # 0
    /\ seq < base
    /\ base - seq \in bitmap

\* Does the acknowledgment (base, bitmap) cover the fragment?
FragmentAckContains(base, bitmap, seq) ==
    /\ base # 0
    /\ seq # 0
    /\ seq <= base
    /\ base - seq \in bitmap

\* Mutant: the lowest fragment number may not be acknowledged.
ValidReliableAckStrict(base, bitmap) ==
    IF base = 0
    THEN bitmap = {}
    ELSE /\ 0 \in bitmap
         /\ base < WindowBits => \A d \in bitmap : d + 1 < base

\* The codec refuses to encode or decode any other acknowledgment.
ValidReliableAck(base, bitmap) ==
    IF base = 0
    THEN bitmap = {}
    ELSE /\ 0 \in bitmap
         /\ base < WindowBits => \A d \in bitmap : d < base
=============================================================================
