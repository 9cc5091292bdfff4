---------------------------- MODULE MCLimitReq ----------------------------
(* Values of the constants of LimitReq for TLC.                            *)
EXTENDS LimitReq, TLC

CONSTANTS t1, t2, t3, c1, c2

Tasks3 == {t1, t2, t3}
Clients2 == {c1, c2}

(* Two connections of one client, one of another.                          *)
TwoAndOne == t1 :> c1 @@ t2 :> c1 @@ t3 :> c2

(* Three connections of one client; c2 sends nothing.                      *)
AllOfOne == [t \in Tasks3 |-> c1]

(* Two locations of different bursts share the zone.                       *)
Burst121 == t1 :> 1 @@ t2 :> 2 @@ t3 :> 1
Burst222 == [t \in Tasks3 |-> 2]
=============================================================================
