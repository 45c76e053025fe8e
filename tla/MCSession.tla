----------------------------- MODULE MCSession -----------------------------
(***************************************************************************)
(* Settings for the model-checking run of Session.                         *)
(***************************************************************************)
EXTENDS Session

\* One route; one fault of each kind, and both peers may leave.
OneRoute ==
    [path |-> DirectPath, leavers |-> Peer, losses |-> 1, late |-> 1, timeouts |-> 1]

\* A bridged route besides the direct one.
TwoRoutes ==
    [path |-> Path, leavers |-> {}, losses |-> 1, late |-> 0, timeouts |-> 1]

Settings == {OneRoute, TwoRoutes}
=============================================================================
