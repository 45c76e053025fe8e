--------------------------- MODULE MessageChannel ---------------------------
(***************************************************************************)
(* What the reliable transport promises the code above it, and all it      *)
(* promises: messages handed to one peer for a channel come out at the     *)
(* other peer at most once; on an ordered channel they come out in the     *)
(* order they went in, with none left out; on the unordered channel in     *)
(* any order.                                                              *)
(***************************************************************************)
EXTENDS Naturals, Sequences, SequencesExt

CONSTANTS
    Peer,               \* the two ends of a session
    Channel,            \* the channels in use
    OrderedChannel      \* those that keep the order

VARIABLES
    queued,             \* queued[p][c]: what p was given to send, in order
    delivered           \* delivered[p][c]: what p handed up, in order

vars == <<queued, delivered>>

Other(p) == CHOOSE q \in Peer : q # p

Init ==
    /\ queued = [p \in Peer |-> [c \in Channel |-> <<>>]]
    /\ delivered = [p \in Peer |-> [c \in Channel |-> <<>>]]

Queue(p, c) ==
    /\ Len(queued'[p][c]) = Len(queued[p][c]) + 1
    /\ queued' = [queued EXCEPT ![p][c] = Append(@, Last(queued'[p][c]))]
    /\ UNCHANGED delivered

\* One arriving packet can release several messages of an ordered channel.
Deliver(p, c) ==
    LET sent == queued[Other(p)][c]
        old  == delivered[p][c]
        new  == delivered'[p][c]
    IN /\ delivered' = [delivered EXCEPT ![p][c] = new]
       /\ IF c \in OrderedChannel
          THEN IsStrictPrefix(old, new) /\ IsPrefix(new, sent)
          ELSE \E i \in DOMAIN sent : /\ ~Contains(old, sent[i])
                                      /\ new = Append(old, sent[i])
       /\ UNCHANGED queued

Next == \E p \in Peer, c \in Channel : Queue(p, c) \/ Deliver(p, c)

Spec == Init /\ [][Next]_vars
=============================================================================
