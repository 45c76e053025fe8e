------------------------------ MODULE MCFanout ------------------------------
(* A diamond of three peers, whose far corner two neighbours claim, and a      *)
(* triangle in which one link or session changes, with an expired claim or     *)
(* without.                                                                    *)
EXTENDS Fanout

Diamond == {{0, 1}, {0, 2}, {1, 3}, {2, 3}}
Triangle == {{0, 1}, {0, 2}, {1, 2}}

Settings ==
    {[link |-> Diamond, changes |-> 1, expiries |-> 0],
     [link |-> Diamond, changes |-> 0, expiries |-> 1]}
ExpirySettings == {[link |-> Triangle, changes |-> 1, expiries |-> 1]}
=============================================================================
