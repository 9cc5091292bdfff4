---------------------------- MODULE MCUpstream ----------------------------
(* Values of the constants of Upstream for TLC.                            *)
EXTENDS Upstream, TLC

CONSTANTS r1, r2, r3

Requests2 == {r1, r2}
Requests3 == {r1, r2, r3}

TwoAddrs == <<"a", "b">>
Weights21 == <<2, 1>>

(* Clients whose hashes select different peers.                            *)
SameHash3 == [r \in Requests3 |-> 0]
Hashes2 == r1 :> 0 @@ r2 :> 1
Identity == [t \in 0..MaxClock |-> t]

Symmetry == Permutations(Requests3)
=============================================================================
