--------------------------- MODULE MCScreenShare ----------------------------
(* Sharing a screen: chunks that arrive in any order, streams that replace     *)
(* each other, states that change while sessions do, media that is forwarded.  *)
EXTENDS ScreenShare

CONSTANTS v1, v2

May(viewers, screens, members, sends, kinds, fragments, rekeys, full) ==
    [viewers |-> viewers, screens |-> screens, members |-> members, sends |-> sends,
     kinds |-> kinds, fragments |-> fragments, rekeys |-> rekeys, full |-> full]

Settings ==
    {May({v1}, 1, 0, 3, {"video"}, 2, 0, 0),
     May({v1}, 2, 0, 4, {"audio", "video"}, 1, 0, 0),
     May({v1}, 2, 2, 1, {"audio"}, 1, 1, 1),
     May({v1, v2}, 1, 0, 2, {"voice", "video"}, 1, 0, 0)}

\* The table has room for what is done here.
ASSUME VoiceHasRoom
=============================================================================
