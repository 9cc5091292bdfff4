--------------------------- MODULE UpstreamProofs ---------------------------
(***************************************************************************)
(* Proofs about Upstream: for every number of peers, requests and seconds  *)
(* the group keeps its types, counts its connections exactly and loses no  *)
(* mark.                                                                   *)
(***************************************************************************)
EXTENDS Upstream, TLAPS, FiniteSetTheorems, NaturalsInduction

(* A non-empty set of naturals contains its minimum.                       *)
LEMMA MinBelongs ==
  ASSUME NEW S \in SUBSET Nat, S # {}
  PROVE  /\ Min(S) \in S
         /\ \A x \in S : Min(S) <= x
  <1> DEFINE less == OpToRel(<, Nat)
  <1>1. IsWellFoundedOn(less, Nat)
    BY NatLessThanWellFounded
  <1>2. \A x, y \in Nat : y < x => <<y, x>> \in less
    BY DEF OpToRel
  <1> HIDE DEF less
  <1>3. PICK x \in S : \A y \in S : ~ (<<y, x>> \in less)
    BY <1>1, WFMin
  <1>4. ASSUME NEW y \in S
        PROVE  x <= y
    <2>1. x \in Nat /\ y \in Nat
      OBVIOUS
    <2>2. ~ (y < x)
      <3>1. ~ (<<y, x>> \in less)
        BY <1>3
      <3> QED
        BY <1>2, <2>1, <3>1, Zenon
    <2> QED
      BY <2>1, <2>2
  <1> QED
    BY <1>4 DEF Min

(* Whatever the policy, connect selects an index of the vector of          *)
(* available peers: the indexing and the unwrap of the code cannot panic.  *)
LEMMA RoundRobinInRange ==
  ASSUME NEW weight, NEW avail \in Seq(PeerSet), avail # <<>>,
         NEW counter
  PROVE  RoundRobinIndex(weight, avail, counter) \in 1..Len(avail)
  <1> DEFINE total == CumulativeWeight(weight, avail, Len(avail))
             slot  == counter % (IF total = 0 THEN 1 ELSE total)
             hit   == {i \in 1..Len(avail) :
                         slot < CumulativeWeight(weight, avail, i)}
  <1>1. RoundRobinIndex(weight, avail, counter)
          = IF hit = {} THEN 1 ELSE Min(hit)
    BY DEF RoundRobinIndex
  <1> HIDE DEF hit
  <1>2. hit \subseteq 1..Len(avail)
    BY DEF hit
  <1>3. Len(avail) \in Nat \ {0}
    OBVIOUS
  <1>4. CASE hit = {}
    BY <1>1, <1>3, <1>4
  <1>5. CASE hit # {}
    <2>1. hit \in SUBSET Nat
      BY <1>2, <1>3
    <2>2. Min(hit) \in hit
      BY <2>1, <1>5, MinBelongs
    <2> QED
      BY <1>1, <1>2, <1>5, <2>2
  <1> QED
    BY <1>4, <1>5

(* The policy least_conn picks an index of the available peers.            *)
LEMMA LeastConnInRange ==
  ASSUME NEW active \in [PeerSet -> Nat], NEW avail \in Seq(PeerSet),
         avail # <<>>
  PROVE  LeastConnIndex(active, avail) \in 1..Len(avail)
  <1> DEFINE load == {active[avail[i]] : i \in 1..Len(avail)}
             best == {i \in 1..Len(avail) :
                        \A j \in 1..Len(avail) :
                          active[avail[i]] <= active[avail[j]]}
  <1>1. Len(avail) \in Nat \ {0}
    OBVIOUS
  <1>2. \A i \in 1..Len(avail) : avail[i] \in PeerSet
    OBVIOUS
  <1>3. load \in SUBSET Nat /\ load # {}
    BY <1>1, <1>2
  <1>4. Min(load) \in load /\ \A x \in load : Min(load) <= x
    BY <1>3, MinBelongs
  <1>5. PICK i \in 1..Len(avail) : active[avail[i]] = Min(load)
    BY <1>4
  <1>6. i \in best
    BY <1>4, <1>5
  <1>7. best \in SUBSET Nat /\ best \subseteq 1..Len(avail)
    BY <1>1
  <1>8. Min(best) \in best
    BY <1>6, <1>7, MinBelongs
  <1> QED
    BY <1>7, <1>8 DEF LeastConnIndex

(* A number taken modulo the available peers is an index of them.          *)
LEMMA ModuloInRange ==
  ASSUME NEW number \in Nat, NEW avail \in Seq(PeerSet), avail # <<>>
  PROVE  ModuloIndex(number, avail) \in 1..Len(avail)
  <1>1. Len(avail) \in Nat \ {0}
    OBVIOUS
  <1>2. number % Len(avail) \in 0..Len(avail) - 1
    BY <1>1
  <1> QED
    BY <1>1, <1>2 DEF ModuloIndex

(* Whichever the policy, what is picked is a peer of the group.            *)
LEMMA SelectedInRange ==
  ASSUME UpstreamAssumption, TypeOK,
         NEW r \in Requests, available[r] # <<>>
  PROVE  available[r][SelectedIndex(r)] \in PeerSet
  <1>1. available[r] \in Seq(PeerSet)
    BY DEF TypeOK
  <1>2. active_conns \in [PeerSet -> Nat]
    BY DEF TypeOK, UpstreamAssumption
  <1>3. Hash[r] \in Nat /\ Mix[now[r]] \in Nat
    BY DEF TypeOK, UpstreamAssumption
  <1>4. SelectedIndex(r) \in 1..Len(available[r])
    <2>1. CASE Policy = "round_robin"
      BY <2>1, <1>1, RoundRobinInRange DEF SelectedIndex
    <2>2. CASE Policy = "least_conn"
      BY <2>2, <1>1, <1>2, LeastConnInRange DEF SelectedIndex
    <2>3. CASE Policy = "ip_hash"
      BY <2>3, <1>1, <1>3, ModuloInRange DEF SelectedIndex
    <2>4. CASE Policy = "random"
      BY <2>4, <1>1, <1>3, ModuloInRange DEF SelectedIndex
    <2> QED
      BY <2>1, <2>2, <2>3, <2>4 DEF UpstreamAssumption
  <1> QED
    BY <1>1, <1>4

-----------------------------------------------------------------------------
(* Types                                                                   *)

(* The wrapping counters keep their width.                                 *)
LEMMA WrapInRange ==
  ASSUME UpstreamAssumption, NEW n \in 0..U32 - 1
  PROVE  WrapInc(n) \in 0..U32 - 1 /\ WrapDec(n) \in 0..U32 - 1
  <1>1. U32 \in Nat /\ U32 > 0
    BY FS_CardinalityType DEF UpstreamAssumption
  <1> QED
    BY <1>1 DEF WrapInc, WrapDec

(* release finds a peer for every peer's address.                          *)
LEMMA FirstWithAddrIsPeer ==
  ASSUME UpstreamAssumption, NEW p \in PeerSet
  PROVE  /\ FirstWithAddr(Addr[p]) \in PeerSet
         /\ Addr[FirstWithAddr(Addr[p])] = Addr[p]
  <1> DEFINE same == {q \in PeerSet : Addr[q] = Addr[p]}
  <1>1. same \in SUBSET Nat /\ p \in same
    BY DEF PeerSet, UpstreamAssumption
  <1>2. Min(same) \in same
    BY <1>1, MinBelongs
  <1> QED
    BY <1>2 DEF FirstWithAddr

(* The types hold at the start.                                            *)
LEMMA InitType == UpstreamAssumption /\ Init => TypeOK
  <1> SUFFICES ASSUME UpstreamAssumption, Init
               PROVE  TypeOK
    OBVIOUS
  <1>1. U32 \in Nat /\ U32 > 0
    BY FS_CardinalityType DEF UpstreamAssumption
  <1>2. \A r \in Requests : <<>> \in Seq(PeerSet)
    OBVIOUS
  <1> QED
    BY <1>1, <1>2
       DEF Init, TypeOK, RequestStates, HealthStates, UpstreamAssumption, PeerSet

(* The health check goes on to a peer of the group, or to sleep.           *)
LEMMA HealthNextType ==
  ASSUME UpstreamAssumption, TypeOK, NEW p \in Nat \ {0}, HealthNext(p)
  PROVE  /\ hc_pc' \in {"probe", "sleep"}
         /\ hc_peer' \in Nat
         /\ hc_pc' # "sleep" => hc_peer' \in PeerSet
         /\ hc_wake' \in Nat
  <1>1. Peers \in Nat /\ clock \in Nat /\ HealthInterval \in Nat
        /\ hc_peer \in Nat /\ hc_wake \in Nat
    BY DEF TypeOK, UpstreamAssumption
  <1>2. CASE p <= Peers
    <2>1. hc_pc' = "probe" /\ hc_peer' = p /\ hc_wake' = hc_wake
      BY <1>2 DEF HealthNext
    <2>2. p \in PeerSet
      BY <1>1, <1>2 DEF PeerSet
    <2> QED
      BY <1>1, <2>1, <2>2
  <1>3. CASE ~ (p <= Peers)
    <2>1. hc_pc' = "sleep" /\ hc_peer' = hc_peer
          /\ hc_wake' = clock + HealthInterval
      BY <1>3 DEF HealthNext
    <2> QED
      BY <1>1, <2>1
  <1> QED
    BY <1>2, <1>3

(* Every step of requests and health check keeps the types.                *)
LEMMA NextType == UpstreamAssumption /\ TypeOK /\ [Next]_vars => TypeOK'
  <1> SUFFICES ASSUME UpstreamAssumption, TypeOK, [Next]_vars
               PROVE  TypeOK'
    OBVIOUS
  <1> USE DEF TypeOK, Goto, counters, request, health
  <1>c. clock \in Nat /\ FailTimeout \in Nat /\ HealthInterval \in Nat
        /\ Peers \in Nat /\ MaxClock \in Nat
    BY DEF UpstreamAssumption
  <1>1. ASSUME NEW r \in Requests, Enter(r)
        PROVE  TypeOK'
    BY <1>1 DEF Enter, RequestStates
  <1>2. ASSUME NEW r \in Requests, FilterPeer(r)
        PROVE  TypeOK'
    <2>1. scan[r] \in PeerSet /\ scan[r] + 1 \in 1..Peers + 1
      <3>1. scan[r] \in 1..Peers + 1 /\ scan[r] <= Peers
        BY <1>2 DEF FilterPeer
      <3>2. ASSUME NEW n, n \in 1..Peers + 1, n <= Peers
            PROVE  n \in 1..Peers /\ n + 1 \in 1..Peers + 1
        BY <1>c, <3>2
      <3> HIDE DEF TypeOK
      <3> QED
        BY <3>1, <3>2 DEF PeerSet
    <2>2. scan' \in [Requests -> 1..Peers + 1]
      BY <1>2, <2>1 DEF FilterPeer
    <2>3. Append(available[r], scan[r]) \in Seq(PeerSet)
      BY <2>1
    <2>4. available' \in [Requests -> Seq(PeerSet)]
      BY <1>2, <2>3 DEF FilterPeer
    <2> QED
      BY <1>2, <2>2, <2>4 DEF FilterPeer
  <1>3. ASSUME NEW r \in Requests, AllPeersDown(r)
        PROVE  TypeOK'
    BY <1>3 DEF AllPeersDown, RequestStates
  <1>4. ASSUME NEW r \in Requests, Choose(r)
        PROVE  TypeOK'
    <2>1. available[r][SelectedIndex(r)] \in PeerSet
      BY <1>4, SelectedInRange DEF Choose
    <2>2. rr_counter' \in 0..U32 - 1
      BY <1>4, WrapInRange DEF Choose
    <2>3. peer' \in [Requests -> 0..Peers] /\ peer'[r] \in PeerSet
      <3>1. PeerSet \subseteq 0..Peers
        BY <1>c DEF PeerSet
      <3>2. peer' = [peer EXCEPT ![r] = available[r][SelectedIndex(r)]]
        BY <1>4 DEF Choose
      <3> QED
        BY <2>1, <3>1, <3>2
    <2>4. \A q \in Requests : q # r => peer'[q] = peer[q] /\ pc'[q] = pc[q]
      BY <1>4 DEF Choose
    <2>5. pc' \in [Requests -> RequestStates]
      BY <1>4 DEF Choose, RequestStates
    <2> QED
      BY <1>4, <2>2, <2>3, <2>4, <2>5 DEF Choose
  <1>5. ASSUME NEW r \in Requests, StartConnect(r)
        PROVE  TypeOK'
    <2>1. peer[r] \in PeerSet
      BY <1>5 DEF StartConnect
    <2>2. active_conns' \in [PeerSet -> 0..U32 - 1]
      BY <1>5, <2>1, WrapInRange DEF StartConnect
    <2> QED
      BY <1>5, <2>1, <2>2 DEF StartConnect, RequestStates
  <1>6. ASSUME NEW r \in Requests, ConnectOk(r)
        PROVE  TypeOK'
    <2>1. 0 \in 0..U32 - 1
      BY FS_CardinalityType DEF UpstreamAssumption
    <2> QED
      BY <1>6, <2>1 DEF ConnectOk, RequestStates
  <1>7. ASSUME NEW r \in Requests, NodelayError(r)
        PROVE  TypeOK'
    BY <1>7 DEF NodelayError, RequestStates
  <1>8. ASSUME NEW r \in Requests, ConnectFail(r)
        PROVE  TypeOK'
    <2>1. peer[r] \in PeerSet
      BY <1>8 DEF ConnectFail
    <2>2. active_conns' \in [PeerSet -> 0..U32 - 1]
      BY <1>8, <2>1, WrapInRange DEF ConnectFail
    <2> QED
      BY <1>8, <2>1, <2>2 DEF ConnectFail, RequestStates
  <1>9. ASSUME NEW r \in Requests, CountFail(r)
        PROVE  TypeOK'
    <2>1. peer[r] \in PeerSet
      BY <1>9 DEF CountFail
    <2>2. fails' \in [PeerSet -> 0..U32 - 1]
      BY <1>9, <2>1, WrapInRange DEF CountFail
    <2> QED
      BY <1>9, <2>1, <2>2 DEF CountFail, RequestStates
  <1>10. ASSUME NEW r \in Requests, MarkDown(r)
         PROVE  TypeOK'
    <2>1. now[r] + FailTimeout \in Nat
      BY <1>c
    <2> QED
      BY <1>10, <2>1 DEF MarkDown, RequestStates
  <1>11. ASSUME NEW r \in Requests, Release(r)
         PROVE  TypeOK'
    <2>1. peer[r] \in PeerSet
      BY <1>11 DEF Release
    <2>2. active_conns' \in [PeerSet -> 0..U32 - 1]
      BY <1>11, <2>1, WrapInRange, FirstWithAddrIsPeer DEF Release
    <2> QED
      BY <1>11, <2>1, <2>2 DEF Release, RequestStates
  <1>12. CASE HealthWake
    <2>1. HealthNext(1) /\ 1 \in Nat \ {0}
      BY <1>12 DEF HealthWake
    <2>2. /\ hc_pc' \in {"probe", "sleep"}
          /\ hc_peer' \in Nat
          /\ hc_pc' # "sleep" => hc_peer' \in PeerSet
          /\ hc_wake' \in Nat
      BY <2>1, HealthNextType
    <2> QED
      BY <1>12, <2>2 DEF HealthWake, HealthStates
  <1>13. CASE HealthProbe
    BY <1>13 DEF HealthProbe, HealthStates
  <1>n. hc_pc # "sleep" => hc_peer \in PeerSet /\ hc_peer + 1 \in Nat \ {0}
    BY <1>c DEF PeerSet
  <1>14. CASE HealthCheck
    <2>1. CASE down_until[hc_peer] > hc_now
      BY <1>14, <2>1 DEF HealthCheck, HealthStates
    <2>2. CASE ~ (down_until[hc_peer] > hc_now)
      <3>1. HealthNext(hc_peer + 1)
        BY <1>14, <2>2 DEF HealthCheck
      <3> QED
        BY <1>14, <1>n, <3>1, HealthNextType DEF HealthCheck, HealthStates
    <2> QED
      BY <2>1, <2>2
  <1>15. CASE HealthRecover
    BY <1>15, <1>n DEF HealthRecover, HealthStates
  <1>16. CASE HealthReset
    <2>1. 0 \in 0..U32 - 1
      BY FS_CardinalityType DEF UpstreamAssumption
    <2>2. HealthNext(hc_peer + 1) /\ hc_peer + 1 \in Nat \ {0}
      BY <1>16, <1>n DEF HealthReset
    <2> QED
      BY <1>16, <2>1, <2>2, HealthNextType DEF HealthReset, HealthStates
  <1>17. CASE HealthCount
    <2>1. fails' \in [PeerSet -> 0..U32 - 1]
      BY <1>17, <1>n, WrapInRange DEF HealthCount
    <2>2. CASE Exhausted(WrapInc(fails[hc_peer]))
      BY <1>17, <2>1, <2>2, <1>n DEF HealthCount, HealthStates
    <2>3. CASE ~ Exhausted(WrapInc(fails[hc_peer]))
      <3>1. HealthNext(hc_peer + 1) /\ hc_peer + 1 \in Nat \ {0}
        BY <1>17, <2>3, <1>n DEF HealthCount
      <3> QED
        BY <1>17, <2>1, <3>1, HealthNextType DEF HealthCount, HealthStates
    <2> QED
      BY <2>2, <2>3
  <1>18. CASE HealthMark
    <2>1. HealthNext(hc_peer + 1) /\ hc_peer + 1 \in Nat \ {0}
      BY <1>18, <1>n DEF HealthMark
    <2>2. hc_now + FailTimeout \in Nat
      BY <1>c
    <2> QED
      BY <1>18, <2>1, <2>2, HealthNextType DEF HealthMark, HealthStates
  <1>19. CASE Tick
    BY <1>19, <1>c DEF Tick
  <1>20. CASE UNCHANGED vars
    BY <1>20 DEF vars
  <1> QED
    BY <1>1, <1>2, <1>3, <1>4, <1>5, <1>6, <1>7, <1>8, <1>9, <1>10, <1>11,
       <1>12, <1>13, <1>14, <1>15, <1>16, <1>17, <1>18, <1>19, <1>20
       DEF Next, RequestStep, HealthStep

(* Every state of the group is well typed: no counter leaves the width of  *)
(* its atomic and every request past its choice has a peer of the group    *)
(* (so the code indexes and unwraps safely, whatever the policy).          *)
THEOREM UpstreamTypes == Spec => []TypeOK
  <1>1. Init => TypeOK
    BY UpstreamAssumption, InitType
  <1>2. TypeOK /\ [Next]_vars => TypeOK'
    BY UpstreamAssumption, NextType
  <1> QED
    BY <1>1, <1>2, PTL DEF Spec

-----------------------------------------------------------------------------
(* Connection accounting                                                   *)

(* Fewer requests hold a peer than there are.                              *)
LEMMA HoldersFinite ==
  ASSUME UpstreamAssumption, NEW p
  PROVE  /\ IsFiniteSet(Holders(p))
         /\ Cardinality(Holders(p)) \in Nat
         /\ Cardinality(Holders(p)) <= Cardinality(Requests)
         /\ Cardinality(Requests) \in Nat
  <1>1. Holders(p) \in SUBSET Requests /\ IsFiniteSet(Requests)
    BY DEF Holders, UpstreamAssumption
  <1> QED
    BY <1>1, FS_Subset, FS_CardinalityType

(* A step in which no request starts or stops being counted.               *)
LEMMA SameHolders ==
  ASSUME ConnAccounting, active_conns' = active_conns,
         \A p \in PeerSet : Holders(p)' = Holders(p)
  PROVE  ConnAccounting'
  BY DEF ConnAccounting, DistinctAddrs, PeerSet

(* A step in which request r, and only r, starts being counted.            *)
LEMMA OneMoreHolder ==
  ASSUME UpstreamAssumption, TypeOK, ConnAccounting,
         NEW r \in Requests, NEW q \in PeerSet, r \notin Holders(q),
         active_conns' = [active_conns EXCEPT ![q] = WrapInc(@)],
         Holders(q)' = Holders(q) \cup {r},
         \A p \in PeerSet \ {q} : Holders(p)' = Holders(p)
  PROVE  ConnAccounting'
  <1> SUFFICES ASSUME DistinctAddrs, NEW p \in PeerSet
               PROVE  active_conns'[p] = Cardinality(Holders(p)')
    BY DEF ConnAccounting, DistinctAddrs, PeerSet
  <1>1. active_conns[p] = Cardinality(Holders(p))
    BY DEF ConnAccounting
  <1>2. CASE p # q
    BY <1>1, <1>2 DEF TypeOK
  <1>3. CASE p = q
    <2> DEFINE more == Holders(p) \cup {r}
    <2>1. Cardinality(more) = Cardinality(Holders(p)) + 1
      BY <1>3, HoldersFinite, FS_AddElement
    <2>2. more \in SUBSET Requests /\ IsFiniteSet(Requests)
      BY DEF Holders, UpstreamAssumption
    <2>3. Cardinality(more) <= Cardinality(Requests)
      BY <2>2, FS_Subset
    <2>4. active_conns[p] + 1 < U32
      BY <1>1, <2>1, <2>3, HoldersFinite DEF UpstreamAssumption
    <2>5. WrapInc(active_conns[p]) = active_conns[p] + 1
      BY <2>4, <1>1, HoldersFinite DEF WrapInc, UpstreamAssumption
    <2>6. active_conns'[p] = WrapInc(active_conns[p])
      BY <1>3 DEF TypeOK
    <2> QED
      BY <1>1, <1>3, <2>1, <2>5, <2>6
  <1> QED
    BY <1>2, <1>3

(* A step in which request r, and only r, stops being counted.             *)
LEMMA OneHolderLess ==
  ASSUME UpstreamAssumption, TypeOK, ConnAccounting,
         NEW r \in Requests, NEW q \in PeerSet, r \in Holders(q),
         DistinctAddrs =>
           active_conns' = [active_conns EXCEPT ![q] = WrapDec(@)],
         Holders(q)' = Holders(q) \ {r},
         \A p \in PeerSet \ {q} : Holders(p)' = Holders(p)
  PROVE  ConnAccounting'
  <1> SUFFICES ASSUME DistinctAddrs, NEW p \in PeerSet
               PROVE  active_conns'[p] = Cardinality(Holders(p)')
    BY DEF ConnAccounting, DistinctAddrs, PeerSet
  <1>1. active_conns[p] = Cardinality(Holders(p))
    BY DEF ConnAccounting
  <1>2. CASE p # q
    BY <1>1, <1>2 DEF TypeOK
  <1>3. CASE p = q
    <2>1. Cardinality(Holders(p) \ {r}) = Cardinality(Holders(p)) - 1
      BY <1>3, HoldersFinite, FS_RemoveElement
    <2>2. active_conns[p] > 0
      BY <1>1, <1>3, HoldersFinite, FS_EmptySet
    <2>3. WrapDec(active_conns[p]) = active_conns[p] - 1
      BY <2>2 DEF WrapDec
    <2>4. active_conns'[p] = WrapDec(active_conns[p])
      BY <1>3 DEF TypeOK
    <2> QED
      BY <1>1, <1>3, <2>1, <2>3, <2>4
  <1> QED
    BY <1>2, <1>3

(* Every step keeps the counters equal to the number of holders.           *)
LEMMA NextAccounting ==
  UpstreamAssumption /\ TypeOK /\ ConnAccounting /\ [Next]_vars
    => ConnAccounting'
  <1> SUFFICES ASSUME UpstreamAssumption, TypeOK, ConnAccounting, [Next]_vars
               PROVE  ConnAccounting'
    OBVIOUS
  <1>t. pc \in [Requests -> RequestStates] /\ peer \in [Requests -> 0..Peers]
    BY DEF TypeOK
  <1> USE DEF Holders, Counted, Goto, counters, request, health
  <1>1. ASSUME NEW r \in Requests,
               Enter(r) \/ FilterPeer(r) \/ AllPeersDown(r) \/ CountFail(r)
               \/ MarkDown(r) \/ ConnectOk(r) \/ NodelayError(r)
        PROVE  ConnAccounting'
    <2>1. active_conns' = active_conns /\ peer' = peer
      BY <1>1 DEF Enter, FilterPeer, AllPeersDown, CountFail, MarkDown,
                  ConnectOk, NodelayError
    <2>2. \A q \in Requests : pc'[q] \in Counted <=> pc[q] \in Counted
      BY <1>1, <1>t DEF Enter, FilterPeer, AllPeersDown, CountFail, MarkDown,
                  ConnectOk, NodelayError
    <2>3. \A p \in PeerSet : Holders(p)' = Holders(p)
      BY <2>1, <2>2
    <2> QED
      BY <2>1, <2>3, SameHolders
  <1>2. ASSUME NEW r \in Requests, Choose(r)
        PROVE  ConnAccounting'
    <2>1. active_conns' = active_conns
      BY <1>2 DEF Choose
    <2>2. \A p \in PeerSet : Holders(p)' = Holders(p)
      BY <1>2, <1>t DEF Choose
    <2> QED
      BY <2>1, <2>2, SameHolders
  <1>3. ASSUME NEW r \in Requests, StartConnect(r)
        PROVE  ConnAccounting'
    <2>q. PICK q \in PeerSet : q = peer[r]
      BY <1>3 DEF StartConnect, TypeOK
    <2>1. r \notin Holders(q) /\ peer' = peer
      BY <1>3 DEF StartConnect
    <2>2. Holders(q)' = Holders(q) \cup {r}
      BY <1>3, <1>t, <2>q, <2>1 DEF StartConnect
    <2>3. \A p \in PeerSet \ {q} : Holders(p)' = Holders(p)
      BY <1>3, <1>t, <2>q, <2>1 DEF StartConnect
    <2>4. active_conns' = [active_conns EXCEPT ![q] = WrapInc(@)]
      BY <1>3, <2>q DEF StartConnect
    <2> HIDE DEF Holders
    <2> QED
      BY <2>1, <2>2, <2>3, <2>4, OneMoreHolder
  <1>4. ASSUME NEW r \in Requests, ConnectFail(r) \/ Release(r)
        PROVE  ConnAccounting'
    <2>q. PICK q \in PeerSet : q = peer[r]
      BY <1>4 DEF ConnectFail, Release, TypeOK
    <2>1. r \in Holders(q) /\ peer' = peer
      BY <1>4, <2>q DEF ConnectFail, Release
    <2>2. Holders(q)' = Holders(q) \ {r}
      BY <1>4, <1>t, <2>q, <2>1 DEF ConnectFail, Release
    <2>3. \A p \in PeerSet \ {q} : Holders(p)' = Holders(p)
      BY <1>4, <1>t, <2>q, <2>1 DEF ConnectFail, Release
    <2>4. DistinctAddrs => FirstWithAddr(Addr[q]) = q
      BY FirstWithAddrIsPeer DEF DistinctAddrs
    <2>5. DistinctAddrs =>
            active_conns' = [active_conns EXCEPT ![q] = WrapDec(@)]
      BY <1>4, <2>q, <2>4 DEF ConnectFail, Release
    <2> HIDE DEF Holders
    <2> QED
      BY <2>1, <2>2, <2>3, <2>5, OneHolderLess
  <1>5. ASSUME HealthWake \/ HealthStep \/ Tick \/ UNCHANGED vars
        PROVE  ConnAccounting'
    <2>1. active_conns' = active_conns /\ pc' = pc /\ peer' = peer
      BY <1>5 DEF HealthWake, HealthStep, HealthProbe, HealthCheck, HealthMark,
                  HealthRecover, HealthReset, HealthCount, Tick, vars
    <2>2. \A p \in PeerSet : Holders(p)' = Holders(p)
      BY <2>1
    <2> QED
      BY <2>1, <2>2, SameHolders
  <1> QED
    BY <1>1, <1>2, <1>3, <1>4, <1>5 DEF Next, RequestStep

(* With distinct peer addresses, active_conns of every peer is, in every   *)
(* reachable state, the number of requests counted on it: the counters     *)
(* least_conn compares are exact, never wrap and drain with the requests.  *)
THEOREM UpstreamAccounting == Spec => []ConnAccounting
  <1>1. Init => ConnAccounting
    <2> SUFFICES ASSUME Init, NEW p \in PeerSet
                 PROVE  active_conns[p] = Cardinality(Holders(p))
      BY DEF ConnAccounting
    <2>1. Holders(p) = {}
      BY DEF Init, Holders, Counted
    <2> QED
      BY <2>1, FS_EmptySet DEF Init
  <1>2. TypeOK /\ ConnAccounting /\ [Next]_vars => ConnAccounting'
    BY UpstreamAssumption, NextAccounting
  <1> QED
    BY <1>1, <1>2, UpstreamTypes, PTL DEF Spec

-----------------------------------------------------------------------------
(* Marks                                                                   *)

(* Who lifts fails to the limit marks, who clears the mark clears fails.   *)
LEMMA NextMark ==
  UpstreamAssumption /\ TypeOK /\ NoLostMark /\ [Next]_vars => NoLostMark'
  <1> SUFFICES ASSUME UpstreamAssumption, TypeOK, NoLostMark, [Next]_vars,
                      NEW p \in PeerSet,
                      FailTimeout > 0, fails'[p] > 0, fails'[p] >= MaxFails
               PROVE  \/ down_until'[p] > 0
                      \/ Marking(p)'
                      \/ hc_pc' = "reset" /\ hc_peer' = p
    BY DEF NoLostMark, PeerSet
  <1>t. /\ pc \in [Requests -> RequestStates]
        /\ peer \in [Requests -> 0..Peers]
        /\ fails \in [PeerSet -> Nat]
        /\ down_until \in [PeerSet -> Nat]
        /\ FailTimeout \in Nat /\ MaxFails \in Nat
        /\ clock \in Nat /\ hc_now \in Nat /\ now \in [Requests -> Nat]
    BY DEF TypeOK, UpstreamAssumption
  <1> USE DEF Marking, Goto, counters, request, health
  <1>i. fails[p] > 0 /\ fails[p] >= MaxFails =>
          \/ down_until[p] > 0
          \/ Marking(p)
          \/ hc_pc = "reset" /\ hc_peer = p
    BY DEF NoLostMark
  (* Requests that touch neither fails nor down_until, nor a mark. *)
  <1>1. ASSUME NEW r \in Requests,
               Enter(r) \/ FilterPeer(r) \/ AllPeersDown(r) \/ StartConnect(r)
               \/ NodelayError(r) \/ ConnectFail(r) \/ Release(r) \/ Choose(r)
        PROVE  \/ down_until'[p] > 0
               \/ Marking(p)'
               \/ hc_pc' = "reset" /\ hc_peer' = p
    <2>1. /\ fails' = fails /\ down_until' = down_until
          /\ hc_pc' = hc_pc /\ hc_peer' = hc_peer
      BY <1>1 DEF Enter, FilterPeer, AllPeersDown, StartConnect, NodelayError,
                  ConnectFail, Release, Choose
    <2>2. \A q \in Requests : pc[q] = "mark_down" =>
            pc'[q] = "mark_down" /\ peer'[q] = peer[q]
      BY <1>1, <1>t DEF Enter, FilterPeer, AllPeersDown, StartConnect,
                  NodelayError, ConnectFail, Release, Choose
    <2> QED
      BY <1>i, <2>1, <2>2
  <1>2. ASSUME NEW r \in Requests, ConnectOk(r)
        PROVE  \/ down_until'[p] > 0
               \/ Marking(p)'
               \/ hc_pc' = "reset" /\ hc_peer' = p
    <2>1. fails'[p] = fails[p]
      BY <1>2, <1>t DEF ConnectOk
    <2>2. \A q \in Requests : pc[q] = "mark_down" => pc'[q] = "mark_down"
      BY <1>2, <1>t DEF ConnectOk
    <2> QED
      BY <1>2, <1>i, <2>1, <2>2 DEF ConnectOk
  <1>3. ASSUME NEW r \in Requests, CountFail(r)
        PROVE  \/ down_until'[p] > 0
               \/ Marking(p)'
               \/ hc_pc' = "reset" /\ hc_peer' = p
    <2>1. \A q \in Requests : pc[q] = "mark_down" => pc'[q] = "mark_down"
      BY <1>3, <1>t DEF CountFail
    <2>2. CASE p = peer[r]
      <3>1. fails'[p] = WrapInc(fails[peer[r]])
        BY <1>3, <1>t, <2>2 DEF CountFail
      <3>2. Exhausted(WrapInc(fails[peer[r]]))
        BY <3>1 DEF Exhausted
      <3>3. pc'[r] = "mark_down" /\ peer'[r] = p
        BY <1>3, <1>t, <2>2, <3>2 DEF CountFail
      <3> QED
        BY <3>3
    <2>3. CASE p # peer[r]
      BY <1>3, <1>t, <1>i, <2>1, <2>3 DEF CountFail
    <2> QED
      BY <2>2, <2>3
  <1>4. ASSUME NEW r \in Requests, MarkDown(r)
        PROVE  \/ down_until'[p] > 0
               \/ Marking(p)'
               \/ hc_pc' = "reset" /\ hc_peer' = p
    <2>1. CASE p = peer[r]
      <3>1. down_until'[p] = now[r] + FailTimeout
        BY <1>4, <1>t, <2>1 DEF MarkDown
      <3> QED
        BY <1>t, <3>1
    <2>2. CASE p # peer[r]
      <3>1. \A q \in Requests : pc[q] = "mark_down" /\ peer[q] = p =>
              pc'[q] = "mark_down" /\ peer'[q] = p
        BY <1>4, <1>t, <2>2 DEF MarkDown
      <3> QED
        BY <1>4, <1>t, <1>i, <2>2, <3>1 DEF MarkDown
    <2> QED
      BY <2>1, <2>2
  <1>5. CASE HealthWake \/ HealthProbe \/ HealthCheck
    BY <1>5, <1>i DEF HealthWake, HealthProbe, HealthCheck
  <1>6. CASE HealthRecover
    <2>1. CASE hc_peer = p
      BY <1>6, <2>1 DEF HealthRecover
    <2>2. CASE hc_peer # p
      BY <1>6, <1>t, <1>i, <2>2 DEF HealthRecover
    <2> QED
      BY <2>1, <2>2
  <1>7. CASE HealthReset
    <2>1. hc_peer # p
      BY <1>7, <1>t DEF HealthReset
    <2> QED
      BY <1>7, <1>t, <1>i, <2>1 DEF HealthReset
  <1>8. CASE HealthCount
    <2>1. CASE hc_peer = p
      <3>1. fails'[p] = WrapInc(fails[p])
        BY <1>8, <1>t, <2>1 DEF HealthCount
      <3>2. Exhausted(WrapInc(fails[p]))
        BY <3>1 DEF Exhausted
      <3> QED
        BY <1>8, <2>1, <3>2 DEF HealthCount
    <2>2. CASE hc_peer # p
      BY <1>8, <1>t, <1>i, <2>2 DEF HealthCount
    <2> QED
      BY <2>1, <2>2
  <1>9. CASE HealthMark
    <2>1. CASE hc_peer = p
      <3>1. down_until'[p] = hc_now + FailTimeout
        BY <1>9, <1>t, <2>1 DEF HealthMark
      <3> QED
        BY <1>t, <3>1
    <2>2. CASE hc_peer # p
      BY <1>9, <1>t, <1>i, <2>2 DEF HealthMark
    <2> QED
      BY <2>1, <2>2
  <1>10. CASE Tick \/ UNCHANGED vars
    BY <1>10, <1>i DEF Tick, vars
  <1> QED
    BY <1>1, <1>2, <1>3, <1>4, <1>5, <1>6, <1>7, <1>8, <1>9, <1>10
       DEF Next, RequestStep, HealthStep

(* However the requests and the health check interleave their accesses to  *)
(* fails and down_until, a peer that has used up its failures is marked,   *)
(* about to be marked, or about to be forgiven by the health check.        *)
THEOREM UpstreamMarks == Spec => []NoLostMark
  <1>1. Init => NoLostMark
    BY DEF Init, NoLostMark
  <1>2. TypeOK /\ NoLostMark /\ [Next]_vars => NoLostMark'
    BY UpstreamAssumption, NextMark
  <1> QED
    BY <1>1, <1>2, UpstreamTypes, PTL DEF Spec

(* No task works with a time from the future: what DownBounded rests on.   *)
TimesArePast ==
  /\ \A r \in Requests : now[r] <= clock
  /\ hc_now <= clock

(* Marks are set from times of the past.                                   *)
LEMMA NextDown ==
  UpstreamAssumption /\ TypeOK /\ TimesArePast /\ DownBounded /\ [Next]_vars
    => TimesArePast' /\ DownBounded'
  <1> SUFFICES ASSUME UpstreamAssumption, TypeOK, TimesArePast, DownBounded,
                      [Next]_vars
               PROVE  TimesArePast' /\ DownBounded'
    OBVIOUS
  <1>t. /\ now \in [Requests -> Nat] /\ hc_now \in Nat /\ clock \in Nat
        /\ down_until \in [PeerSet -> Nat] /\ FailTimeout \in Nat
    BY DEF TypeOK, UpstreamAssumption
  <1> USE DEF TimesArePast, DownBounded, Goto, counters, request, health, PeerSet
  <1>1. ASSUME NEW r \in Requests, Enter(r)
        PROVE  TimesArePast' /\ DownBounded'
    BY <1>1, <1>t DEF Enter
  <1>2. ASSUME NEW r \in Requests,
               FilterPeer(r) \/ AllPeersDown(r) \/ StartConnect(r)
               \/ NodelayError(r) \/ ConnectFail(r) \/ Release(r) \/ Choose(r)
               \/ ConnectOk(r) \/ CountFail(r)
        PROVE  TimesArePast' /\ DownBounded'
    <2>1. UNCHANGED <<clock, now, down_until, hc_now>>
      BY <1>2 DEF FilterPeer, AllPeersDown, StartConnect, NodelayError,
                  ConnectFail, Release, Choose, ConnectOk, CountFail
    <2> QED
      BY <2>1
  <1>3. ASSUME NEW r \in Requests, MarkDown(r)
        PROVE  TimesArePast' /\ DownBounded'
    <2>1. now[r] + FailTimeout <= clock + FailTimeout
      BY <1>t
    <2> QED
      BY <1>3, <1>t, <2>1 DEF MarkDown
  <1>4. CASE HealthWake
    BY <1>4, <1>t DEF HealthWake
  <1>5. CASE HealthProbe \/ HealthCheck \/ HealthReset \/ HealthCount
    <2>1. UNCHANGED <<clock, now, down_until, hc_now>>
      BY <1>5 DEF HealthProbe, HealthCheck, HealthReset, HealthCount
    <2> QED
      BY <2>1
  <1>6. CASE HealthRecover
    BY <1>6, <1>t DEF HealthRecover
  <1>7. CASE HealthMark
    <2>1. hc_now + FailTimeout <= clock + FailTimeout
      BY <1>t
    <2> QED
      BY <1>7, <1>t, <2>1 DEF HealthMark
  <1>8. CASE Tick
    BY <1>8, <1>t DEF Tick
  <1>9. CASE UNCHANGED vars
    BY <1>9 DEF vars
  <1> QED
    BY <1>1, <1>2, <1>3, <1>4, <1>5, <1>6, <1>7, <1>8, <1>9
       DEF Next, RequestStep, HealthStep

(* A peer is never excluded for longer than fail_timeout from now, for     *)
(* every fail_timeout and every delay between reading the time and using   *)
(* it: without any health check it comes back after fail_timeout.          *)
THEOREM UpstreamBoundedOutage == Spec => []DownBounded
  <1>1. UpstreamAssumption /\ Init => TimesArePast /\ DownBounded
    BY DEF Init, TimesArePast, DownBounded, UpstreamAssumption
  <1>2. TypeOK /\ TimesArePast /\ DownBounded /\ [Next]_vars
          => TimesArePast' /\ DownBounded'
    BY UpstreamAssumption, NextDown
  <1> QED
    BY <1>1, <1>2, UpstreamAssumption, UpstreamTypes, PTL DEF Spec
-----------------------------------------------------------------------------
(* The refinement of connection tracking                                   *)

(* The abstract state of a request, by where it is.                        *)
StateOf(r) == IF pc[r] \in Counted THEN "counted"
              ELSE IF pc[r] \in {"idle", "filter", "chosen"} THEN "new"
              ELSE "over"

SlotOf(r) == IF pc[r] \in Counted THEN peer[r] ELSE 0

states == [r \in Requests |-> StateOf(r)]
slots == [r \in Requests |-> SlotOf(r)]

(* A step in which no request starts or stops being counted, and none      *)
(* gives up, stutters.                                                     *)
LEMMA Stutters ==
  ASSUME \A r \in Requests : StateOf(r)' = StateOf(r) /\ SlotOf(r)' = SlotOf(r),
         active_conns' = active_conns
  PROVE  UNCHANGED <<states, slots, active_conns>>
  BY DEF states, slots

(* A step of one request moves the abstract functions at that request.     *)
LEMMA OneMoves ==
  ASSUME NEW r \in Requests, NEW a, NEW s,
         StateOf(r)' = a, SlotOf(r)' = s,
         \A q \in Requests \ {r} : StateOf(q)' = StateOf(q) /\ SlotOf(q)' = SlotOf(q)
  PROVE  /\ states' = [states EXCEPT ![r] = a]
         /\ slots' = [slots EXCEPT ![r] = s]
  BY DEF states, slots

(* A request of the group that counts itself, is uncounted or gives up.    *)
LEMMA Counting ==
  ASSUME UpstreamAssumption, DistinctAddrs, TypeOK, ConnAccounting,
         NEW r \in Requests, StartConnect(r) \/ ConnectFail(r) \/ Release(r)
  PROVE  (\E p \in PeerSet : Gauge!Acquire(r, p)) \/ Gauge!Drop(r)
  <1>1. PICK p \in PeerSet : p = peer[r]
    BY DEF StartConnect, ConnectFail, Release, Goto, TypeOK
  <1>2. /\ pc \in [Requests -> RequestStates] /\ peer' = peer
        /\ active_conns[p] = Cardinality(Holders(p))
        /\ active_conns \in [PeerSet -> 0..U32 - 1]
    BY DEF StartConnect, ConnectFail, Release, TypeOK, ConnAccounting
  <1>3. \A q \in Requests \ {r} : StateOf(q)' = StateOf(q) /\ SlotOf(q)' = SlotOf(q)
    BY <1>2 DEF StartConnect, ConnectFail, Release, Goto, StateOf, SlotOf
  <1>4. CASE StartConnect(r)
    <2>1. /\ StateOf(r) = "new" /\ StateOf(r)' = "counted" /\ SlotOf(r)' = p
          /\ r \notin Holders(p)
      BY <1>1, <1>2, <1>4 DEF StartConnect, Goto, StateOf, SlotOf, Counted, Holders
    <2>2. /\ states' = [states EXCEPT ![r] = "counted"]
          /\ slots' = [slots EXCEPT ![r] = p]
      BY <1>3, <2>1, OneMoves
    <2>3. active_conns[p] + 1 < U32
      <3>1. Holders(p) \cup {r} \in SUBSET Requests /\ IsFiniteSet(Requests)
        BY DEF Holders, UpstreamAssumption
      <3>2. Cardinality(Holders(p) \cup {r}) <= Cardinality(Requests)
        BY <3>1, FS_Subset
      <3>3. Cardinality(Holders(p) \cup {r}) = Cardinality(Holders(p)) + 1
        BY <2>1, HoldersFinite, FS_AddElement
      <3> QED
        BY <1>2, <3>2, <3>3, HoldersFinite DEF UpstreamAssumption
    <2>4. WrapInc(active_conns[p]) = active_conns[p] + 1
      BY <1>2, <2>3 DEF WrapInc, UpstreamAssumption
    <2>5. active_conns' = [active_conns EXCEPT ![p] = @ + 1]
      BY <1>1, <1>2, <1>4, <2>4 DEF StartConnect
    <2> QED
      BY <2>1, <2>2, <2>5 DEF Gauge!Acquire, states, slots, StateOf, SlotOf
  <1>5. CASE ConnectFail(r) \/ Release(r)
    <2>1. /\ StateOf(r) = "counted" /\ StateOf(r)' = "over"
          /\ SlotOf(r) = p /\ SlotOf(r)' = 0
          /\ r \in Holders(p)
      BY <1>1, <1>2, <1>5
         DEF ConnectFail, Release, Goto, StateOf, SlotOf, Counted, Holders
    <2>2. /\ states' = [states EXCEPT ![r] = "over"]
          /\ slots' = [slots EXCEPT ![r] = 0]
      BY <1>3, <2>1, OneMoves
    <2>3. active_conns[p] # 0
      BY <1>2, <2>1, HoldersFinite, FS_EmptySet
    <2>4. WrapDec(active_conns[p]) = active_conns[p] - 1
      BY <2>3 DEF WrapDec
    <2>5. FirstWithAddr(Addr[p]) = p
      BY FirstWithAddrIsPeer DEF DistinctAddrs
    <2>6. active_conns' = [active_conns EXCEPT ![p] = @ - 1]
      BY <1>1, <1>2, <1>5, <2>4, <2>5 DEF ConnectFail, Release
    <2>7. states[r] = "counted" /\ slots[r] = p
      BY <2>1 DEF states, slots
    <2> QED
      BY <2>2, <2>6, <2>7 DEF Gauge!Drop, states, slots, StateOf, SlotOf
  <1> QED
    BY <1>4, <1>5

(* Every step of the group is a step of connection tracking, or none.      *)
LEMMA StepTracks ==
  ASSUME UpstreamAssumption, DistinctAddrs, TypeOK, ConnAccounting, [Next]_vars
  PROVE  Gauge!Next \/ UNCHANGED <<states, slots, active_conns>>
  <1>0. pc \in [Requests -> RequestStates] /\ peer \in [Requests -> 0..Peers]
    BY DEF TypeOK
  <1>1. ASSUME NEW r \in Requests, StartConnect(r) \/ ConnectFail(r) \/ Release(r)
        PROVE  Gauge!Next
    BY <1>1, Counting DEF Gauge!Next
  <1>2. ASSUME NEW r \in Requests, AllPeersDown(r)
        PROVE  Gauge!Next
    <2>1. StateOf(r) = "new" /\ StateOf(r)' = "over" /\ SlotOf(r)' = SlotOf(r)
      BY <1>0, <1>2 DEF AllPeersDown, Goto, StateOf, SlotOf, Counted
    <2>2. \A q \in Requests \ {r} : StateOf(q)' = StateOf(q)
      BY <1>0, <1>2 DEF AllPeersDown, Goto, StateOf
    <2>3. \A q \in Requests : SlotOf(q)' = SlotOf(q)
      BY <1>0, <1>2 DEF AllPeersDown, Goto, SlotOf, Counted
    <2>4. /\ states[r] = "new" /\ states' = [states EXCEPT ![r] = "over"]
          /\ slots' = slots /\ active_conns' = active_conns
      BY <1>2, <2>1, <2>2, <2>3 DEF states, slots, AllPeersDown, counters
    <2>5. Gauge!Refuse(r)
      BY <2>4 DEF Gauge!Refuse, states, slots, StateOf, SlotOf
    <2> QED
      BY <2>5 DEF Gauge!Next
  <1>3. ASSUME NEW r \in Requests,
               Enter(r) \/ FilterPeer(r) \/ Choose(r) \/ ConnectOk(r)
               \/ NodelayError(r) \/ CountFail(r) \/ MarkDown(r)
        PROVE  UNCHANGED <<states, slots, active_conns>>
    <2>1. active_conns' = active_conns
      BY <1>3 DEF Enter, FilterPeer, Choose, ConnectOk, NodelayError, CountFail,
                  MarkDown, counters
    <2>2. \A q \in Requests : StateOf(q)' = StateOf(q)
      BY <1>0, <1>3 DEF Enter, FilterPeer, Choose, ConnectOk, NodelayError,
                        CountFail, MarkDown, Goto, StateOf, Counted
    <2>3. \A q \in Requests : SlotOf(q)' = SlotOf(q)
      <3>1. ASSUME NEW q \in Requests
            PROVE  /\ pc'[q] \in Counted <=> pc[q] \in Counted
                   /\ pc[q] \in Counted => peer'[q] = peer[q]
        BY <1>0, <1>3 DEF Enter, FilterPeer, Choose, ConnectOk, NodelayError,
                          CountFail, MarkDown, Goto, Counted
      <3> QED
        BY <3>1 DEF SlotOf
    <2> QED
      BY <2>1, <2>2, <2>3, Stutters
  <1>4. ASSUME HealthWake \/ HealthStep \/ Tick \/ UNCHANGED vars
        PROVE  UNCHANGED <<states, slots, active_conns>>
    <2>1. active_conns' = active_conns /\ pc' = pc /\ peer' = peer
      BY <1>4 DEF HealthWake, HealthStep, HealthProbe, HealthCheck, HealthMark,
                  HealthRecover, HealthReset, HealthCount, Tick, vars, counters,
                  request
    <2>2. \A q \in Requests : StateOf(q)' = StateOf(q) /\ SlotOf(q)' = SlotOf(q)
      BY <2>1 DEF StateOf, SlotOf
    <2> QED
      BY <2>1, <2>2, Stutters
  <1> QED
    BY <1>1, <1>2, <1>3, <1>4 DEF Next, RequestStep

(* With distinct peer addresses the group implements connection tracking:  *)
(* no interleaving of requests, failures and the health check counts a     *)
(* request twice, uncounts it twice or on another peer than it was counted *)
(* on, or moves the counter of a peer in any other way.                    *)
THEOREM UpstreamTracks == DistinctAddrs /\ Spec => TracksConnections
  <1>1. Init => Gauge!Init
    BY DEF Init, Gauge!Init, Counted
  <1>2. DistinctAddrs /\ TypeOK /\ ConnAccounting /\ [Next]_vars
          => [Gauge!Next]_<<states, slots, active_conns>>
    BY UpstreamAssumption, StepTracks
  <1>3. ASSUME DistinctAddrs
        PROVE  Spec => TracksConnections
    <2>1. TypeOK /\ ConnAccounting /\ [Next]_vars
            => [Gauge!Next]_<<states, slots, active_conns>>
      BY <1>2, <1>3
    <2> QED
      BY <1>1, <2>1, UpstreamTypes, UpstreamAccounting, PTL
         DEF Spec, TracksConnections, Gauge!Spec, states, slots, StateOf, SlotOf
  <1> QED
    BY <1>3
=============================================================================
