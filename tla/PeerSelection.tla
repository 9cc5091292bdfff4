--------------------------- MODULE PeerSelection ---------------------------
(***************************************************************************)
(* The four load-balancing policies of an upstream group                   *)
(* (src/src/upstream/mod.rs, UpstreamGroup::connect).  Each operator       *)
(* returns the index in `available' of the peer it selects; `available' is *)
(* the code's vector of the peers that passed the down_until filter, in    *)
(* configuration order and never empty here.                               *)
(***************************************************************************)
EXTENDS Integers, Sequences, FiniteSetsExt, Functions

(* Sum of the weights of the first i available peers (`cum' in the loop).  *)
CumulativeWeight(weight, available, i) ==
  SumFunctionOnSet([j \in 1..i |-> weight[available[j]]], 1..i)

(***************************************************************************)
(* Weighted round robin: the counter, reduced modulo the total weight of   *)
(* the peers available NOW, falls in the slot range of one peer.  When all *)
(* weights are 0 no range holds it and the first peer is taken.            *)
(***************************************************************************)
RoundRobinIndex(weight, available, counter) ==
  LET total == CumulativeWeight(weight, available, Len(available))
      slot  == counter % (IF total = 0 THEN 1 ELSE total)
      hit   == {i \in 1..Len(available) :
                  slot < CumulativeWeight(weight, available, i)}
  IN  IF hit = {} THEN 1 ELSE Min(hit)

(* min_by_key keeps the first of several minimal elements.                 *)
LeastConnIndex(active, available) ==
  Min({i \in 1..Len(available) :
         \A j \in 1..Len(available) :
           active[available[i]] <= active[available[j]]})

(* ip_hash and random both reduce a number modulo the available peers: the *)
(* hash of the client address, or a mix of the bits of the current second. *)
ModuloIndex(number, available) == (number % Len(available)) + 1
=============================================================================
