------------------------------ MODULE Upstream ------------------------------
(***************************************************************************)
(* One upstream group: the peers' atomic counters, the requests that go    *)
(* through UpstreamGroup::connect and release, and the health-check task   *)
(* (src/src/upstream/mod.rs; the calls are in src/src/server/handler.rs).  *)
(*                                                                         *)
(* Requests run on the threads of a tokio runtime and share the counters   *)
(* without a lock: each action below is one atomic access, or one run of   *)
(* accesses to data no other task can tell apart.  `clock' is the system   *)
(* time in whole seconds, as the code reads it.                            *)
(***************************************************************************)
EXTENDS PeerSelection, FiniteSets

CONSTANTS
  Peers,          \* number of peers of the group; a peer is its index 1..Peers
  Addr,           \* Addr[p]: socket address of peer p
  Weight,         \* Weight[p]: weight of peer p in round robin
  Policy,         \* "round_robin" | "least_conn" | "ip_hash" | "random"
  MaxFails,       \* max_fails of the group
  FailTimeout,    \* fail_timeout of the group, seconds
  HealthInterval, \* seconds between two health-check rounds, 0 when disabled
  Requests,       \* the requests of a run that are routed to this group
  Hash,           \* Hash[r]: ip_hash of the address of r's client
  Mix,            \* Mix[t]: the number Random derives from second t
  NodelayMayFail, \* whether set_nodelay on a fresh connection can fail here
  U32,            \* number of values of the 32-bit counters
  MaxClock        \* bound on the clock

ASSUME UpstreamAssumption ==
  /\ Peers \in Nat
  /\ DOMAIN Addr = 1..Peers
  /\ Weight \in [1..Peers -> Nat]
  /\ Policy \in {"round_robin", "least_conn", "ip_hash", "random"}
  /\ MaxFails \in Nat
  /\ FailTimeout \in Nat
  /\ HealthInterval \in Nat
  /\ IsFiniteSet(Requests)
  /\ Hash \in [Requests -> Nat]
  /\ MaxClock \in Nat
  /\ Mix \in [0..MaxClock -> Nat]
  /\ NodelayMayFail \in BOOLEAN
  /\ U32 \in Nat
  /\ Cardinality(Requests) < U32

VARIABLES
  clock,         \* system time, seconds
  active_conns,  \* active_conns[p]: PeerState.active_conns
  fails,         \* fails[p]: PeerState.fails
  down_until,    \* down_until[p]: PeerState.down_until
  rr_counter,    \* low 32 bits of UpstreamGroup.rr_counter
  pc,            \* pc[r]: where request r is
  now,           \* now[r]: the second r read when it entered connect
  scan,          \* scan[r]: next peer whose down_until r tests
  available,     \* available[r]: the peers r found available
  peer,          \* peer[r]: the peer r chose
  hc_pc,         \* where the health-check task is
  hc_now,        \* the second it read at the start of the round
  hc_peer,       \* the peer it is probing
  hc_wake        \* the second before which its sleep does not end

vars == <<clock, active_conns, fails, down_until, rr_counter, pc, now, scan,
          available, peer, hc_pc, hc_now, hc_peer, hc_wake>>

counters == <<active_conns, fails, down_until>>
request  == <<pc, now, scan, available, peer, rr_counter>>
health   == <<hc_pc, hc_now, hc_peer, hc_wake>>

PeerSet == 1..Peers

(* fetch_add and fetch_sub of one on an AtomicU32.                         *)
WrapInc(n) == IF n = U32 - 1 THEN 0 ELSE n + 1
WrapDec(n) == IF n = 0 THEN U32 - 1 ELSE n - 1

Init ==
  /\ clock = 0
  /\ active_conns = [p \in PeerSet |-> 0]
  /\ fails = [p \in PeerSet |-> 0]
  /\ down_until = [p \in PeerSet |-> 0]
  /\ rr_counter = 0
  /\ pc = [r \in Requests |-> "idle"]
  /\ now = [r \in Requests |-> 0]
  /\ scan = [r \in Requests |-> 1]
  /\ available = [r \in Requests |-> <<>>]
  /\ peer = [r \in Requests |-> 0]
  /\ hc_pc = "sleep"
  /\ hc_now = 0
  /\ hc_peer = 1
  /\ hc_wake = HealthInterval

-----------------------------------------------------------------------------
(* A request in connect                                                    *)

Goto(r, from, to) ==
  /\ pc[r] = from
  /\ pc' = [pc EXCEPT ![r] = to]

(* The request enters connect and reads the time, once.                    *)
Enter(r) ==
  /\ Goto(r, "idle", "filter")
  /\ now' = [now EXCEPT ![r] = clock]
  /\ UNCHANGED <<clock, counters, rr_counter, scan, available, peer, health>>

(* Mutant of FilterPeer: the filter keeps the index after the peer's.      *)
FilterPeer_OffByOne(r) ==
  /\ pc[r] = "filter"
  /\ scan[r] <= Peers
  /\ scan' = [scan EXCEPT ![r] = @ + 1]
  /\ available' = [available EXCEPT
       ![r] = IF down_until[scan[r]] <= now[r] THEN Append(@, scan[r] + 1) ELSE @]
  /\ UNCHANGED <<clock, counters, rr_counter, pc, now, peer, health>>

(* The filter loads the down_until of one peer after the other.            *)
FilterPeer(r) ==
  /\ pc[r] = "filter"
  /\ scan[r] <= Peers
  /\ scan' = [scan EXCEPT ![r] = @ + 1]
  /\ available' = [available EXCEPT
       ![r] = IF down_until[scan[r]] <= now[r] THEN Append(@, scan[r]) ELSE @]
  /\ UNCHANGED <<clock, counters, rr_counter, pc, now, peer, health>>

(* Mutant of AllPeersDown: the filter is run again with the same time.     *)
AllPeersDown_Retry(r) ==
  /\ pc[r] = "filter"
  /\ scan[r] > Peers
  /\ available[r] = <<>>
  /\ scan' = [scan EXCEPT ![r] = 1]
  /\ UNCHANGED <<clock, counters, rr_counter, pc, now, available, peer, health>>

(* No peer passed the filter: connect gives up, the client gets an error.  *)
AllPeersDown(r) ==
  /\ scan[r] > Peers
  /\ available[r] = <<>>
  /\ Goto(r, "filter", "all_down")
  /\ UNCHANGED <<clock, counters, rr_counter, now, scan, available, peer,
                 health>>

SelectedIndex(r) ==
  CASE Policy = "round_robin" -> RoundRobinIndex(Weight, available[r], rr_counter)
    [] Policy = "least_conn"  -> LeastConnIndex(active_conns, available[r])
    [] Policy = "ip_hash"     -> ModuloIndex(Hash[r], available[r])
    [] Policy = "random"      -> ModuloIndex(Mix[now[r]], available[r])

(* The policy picks one of the available peers.                            *)
Choose(r) ==
  /\ scan[r] > Peers
  /\ available[r] # <<>>
  /\ Goto(r, "filter", "chosen")
  /\ peer' = [peer EXCEPT ![r] = available[r][SelectedIndex(r)]]
  /\ rr_counter' = IF Policy = "round_robin" THEN WrapInc(rr_counter)
                                             ELSE rr_counter
  /\ UNCHANGED <<clock, counters, now, scan, available, health>>

(* The connection is counted before the attempt starts.                    *)
StartConnect(r) ==
  /\ Goto(r, "chosen", "connecting")
  /\ active_conns' = [active_conns EXCEPT ![peer[r]] = WrapInc(@)]
  /\ UNCHANGED <<clock, fails, down_until, rr_counter, now, scan, available,
                 peer, health>>

(* Mutant of ConnectOk: the connection is counted a second time.           *)
ConnectOk_CountedTwice(r) ==
  /\ Goto(r, "connecting", "open")
  /\ fails' = [fails EXCEPT ![peer[r]] = 0]
  /\ active_conns' = [active_conns EXCEPT ![peer[r]] = WrapInc(@)]
  /\ UNCHANGED <<clock, down_until, rr_counter, now, scan, available, peer,
                 health>>

(* Connected: the failures of the peer are forgotten.                      *)
ConnectOk(r) ==
  /\ Goto(r, "connecting", "open")
  /\ fails' = [fails EXCEPT ![peer[r]] = 0]
  /\ UNCHANGED <<clock, active_conns, down_until, rr_counter, now, scan,
                 available, peer, health>>

(* Connected, but set_nodelay failed: the `?' returns the error without    *)
(* touching any counter.                                                   *)
NodelayError(r) ==
  /\ NodelayMayFail
  /\ Goto(r, "connecting", "leaked")
  /\ UNCHANGED <<clock, counters, rr_counter, now, scan, available, peer,
                 health>>

(* Mutant of ConnectFail: the failed attempt stays counted.                *)
ConnectFail_NotUncounted(r) ==
  /\ Goto(r, "connecting", "count_fail")
  /\ UNCHANGED <<clock, counters, rr_counter, now, scan, available, peer,
                 health>>

(* Refused or timed out: the connection is no longer counted.              *)
ConnectFail(r) ==
  /\ Goto(r, "connecting", "count_fail")
  /\ active_conns' = [active_conns EXCEPT ![peer[r]] = WrapDec(@)]
  /\ UNCHANGED <<clock, fails, down_until, rr_counter, now, scan, available,
                 peer, health>>

(* mark_fail, first half: does the failure just counted reach max_fails?   *)
Exhausted(n) == n >= MaxFails /\ FailTimeout > 0

CountFail(r) ==
  /\ Goto(r, "count_fail", IF Exhausted(WrapInc(fails[peer[r]]))
                           THEN "mark_down" ELSE "failed")
  /\ fails' = [fails EXCEPT ![peer[r]] = WrapInc(@)]
  /\ UNCHANGED <<clock, active_conns, down_until, rr_counter, now, scan,
                 available, peer, health>>

(* Mutant of MarkDown: a mark extends the one before it.                   *)
MarkDown_Extends(r) ==
  /\ Goto(r, "mark_down", "failed")
  /\ down_until' = [down_until EXCEPT
       ![peer[r]] = (IF @ > now[r] THEN @ ELSE now[r]) + FailTimeout]
  /\ UNCHANGED <<clock, active_conns, fails, rr_counter, now, scan, available,
                 peer, health>>

(* mark_fail, second half: down until the second read on entry, plus       *)
(* fail_timeout.                                                           *)
MarkDown(r) ==
  /\ Goto(r, "mark_down", "failed")
  /\ down_until' = [down_until EXCEPT ![peer[r]] = now[r] + FailTimeout]
  /\ UNCHANGED <<clock, active_conns, fails, rr_counter, now, scan, available,
                 peer, health>>

(* The exchange with the peer is over (well or badly): release by address. *)
FirstWithAddr(a) == Min({p \in PeerSet : Addr[p] = a})

Release(r) ==
  /\ Goto(r, "open", "served")
  /\ active_conns' =
       [active_conns EXCEPT ![FirstWithAddr(Addr[peer[r]])] = WrapDec(@)]
  /\ UNCHANGED <<clock, fails, down_until, rr_counter, now, scan, available,
                 peer, health>>

-----------------------------------------------------------------------------
(* The health-check task                                                   *)

(* Mutant of HealthNext: the round starts over instead of ending.          *)
HealthNext_Forever(p) ==
  /\ hc_pc' = "probe"
  /\ hc_peer' = IF p <= Peers THEN p ELSE 1
  /\ UNCHANGED hc_wake

(* Go on with peer p, or sleep when the round is over.                     *)
HealthNext(p) ==
  IF p <= Peers
  THEN /\ hc_pc' = "probe"
       /\ hc_peer' = p
       /\ UNCHANGED hc_wake
  ELSE /\ hc_pc' = "sleep"
       /\ hc_wake' = clock + HealthInterval
       /\ UNCHANGED hc_peer

(* The sleep ends; the time is read once for the whole round.              *)
HealthWake ==
  /\ HealthInterval > 0
  /\ hc_pc = "sleep"
  /\ clock >= hc_wake
  /\ hc_now' = clock
  /\ HealthNext(1)
  /\ UNCHANGED <<clock, counters, request>>

(* The probe connects, or is refused or times out.                         *)
HealthProbe ==
  /\ hc_pc = "probe"
  /\ hc_pc' \in {"check", "count"}
  /\ UNCHANGED <<clock, counters, request, hc_now, hc_peer, hc_wake>>

(* Probe succeeded: is the peer still down at the round's time?            *)
HealthCheck ==
  /\ hc_pc = "check"
  /\ IF down_until[hc_peer] > hc_now
     THEN hc_pc' = "recover" /\ UNCHANGED <<hc_peer, hc_wake>>
     ELSE HealthNext(hc_peer + 1)
  /\ UNCHANGED <<clock, counters, request, hc_now>>

HealthRecover ==
  /\ hc_pc = "recover"
  /\ hc_pc' = "reset"
  /\ down_until' = [down_until EXCEPT ![hc_peer] = 0]
  /\ UNCHANGED <<clock, active_conns, fails, request, hc_now, hc_peer, hc_wake>>

(* Mutant of HealthReset: the recovered peer keeps its failures.           *)
HealthReset_KeepsFails ==
  /\ hc_pc = "reset"
  /\ HealthNext(hc_peer + 1)
  /\ UNCHANGED <<clock, counters, request, hc_now>>

HealthReset ==
  /\ hc_pc = "reset"
  /\ fails' = [fails EXCEPT ![hc_peer] = 0]
  /\ HealthNext(hc_peer + 1)
  /\ UNCHANGED <<clock, active_conns, down_until, request, hc_now>>

(* Probe failed: mark_fail with the round's time.                          *)
HealthCount ==
  /\ hc_pc = "count"
  /\ fails' = [fails EXCEPT ![hc_peer] = WrapInc(@)]
  /\ IF Exhausted(WrapInc(fails[hc_peer]))
     THEN hc_pc' = "mark" /\ UNCHANGED <<hc_peer, hc_wake>>
     ELSE HealthNext(hc_peer + 1)
  /\ UNCHANGED <<clock, active_conns, down_until, request, hc_now>>

HealthMark ==
  /\ hc_pc = "mark"
  /\ down_until' = [down_until EXCEPT ![hc_peer] = hc_now + FailTimeout]
  /\ HealthNext(hc_peer + 1)
  /\ UNCHANGED <<clock, active_conns, fails, request, hc_now>>

-----------------------------------------------------------------------------

Tick ==
  /\ clock < MaxClock
  /\ clock' = clock + 1
  /\ UNCHANGED <<counters, request, health>>

RequestStep(r) ==
  \/ FilterPeer(r)
  \/ AllPeersDown(r)
  \/ Choose(r)
  \/ StartConnect(r)
  \/ ConnectOk(r)
  \/ NodelayError(r)
  \/ ConnectFail(r)
  \/ CountFail(r)
  \/ MarkDown(r)
  \/ Release(r)

HealthStep ==
  \/ HealthProbe
  \/ HealthCheck
  \/ HealthRecover
  \/ HealthReset
  \/ HealthCount
  \/ HealthMark

Next ==
  \/ \E r \in Requests : Enter(r)
  \/ \E r \in Requests : RequestStep(r)
  \/ HealthWake
  \/ HealthStep
  \/ Tick

Spec == Init /\ [][Next]_vars

(***************************************************************************)
(* Fairness: tokio polls every ready task, and both connects are under a   *)
(* timeout, so a request that entered and a health round that began go on. *)
(* Neither the arrival of requests nor the end of a sleep is assumed.      *)
(***************************************************************************)
Fairness ==
  /\ \A r \in Requests : WF_vars(RequestStep(r))
  /\ WF_vars(HealthStep)

FairSpec == Spec /\ Fairness

-----------------------------------------------------------------------------
(* Properties                                                              *)

RequestStates ==
  {"idle", "filter", "all_down", "chosen", "connecting", "open", "leaked",
   "count_fail", "mark_down", "served", "failed"}

HealthStates == {"sleep", "probe", "check", "recover", "reset", "count", "mark"}

(* Types: every counter stays in the width of its atomic, every request    *)
(* past its choice has a peer of the group.                                *)
TypeOK ==
  /\ clock \in 0..MaxClock
  /\ active_conns \in [PeerSet -> 0..U32 - 1]
  /\ fails \in [PeerSet -> 0..U32 - 1]
  /\ down_until \in [PeerSet -> Nat]
  /\ rr_counter \in 0..U32 - 1
  /\ pc \in [Requests -> RequestStates]
  /\ now \in [Requests -> 0..MaxClock]
  /\ scan \in [Requests -> 1..Peers + 1]
  /\ available \in [Requests -> Seq(PeerSet)]
  /\ peer \in [Requests -> 0..Peers]
  /\ \A r \in Requests :
       pc[r] \notin {"idle", "filter", "all_down"} => peer[r] \in PeerSet
  /\ hc_pc \in HealthStates
  /\ hc_now \in 0..MaxClock
  /\ hc_peer \in Nat
  /\ hc_pc # "sleep" => hc_peer \in PeerSet
  /\ hc_wake \in Nat

Counted == {"connecting", "open", "leaked"}

Holders(p) == {r \in Requests : pc[r] \in Counted /\ peer[r] = p}

DistinctAddrs == \A p, q \in PeerSet : Addr[p] = Addr[q] => p = q

(* Connection accounting: whatever the interleaving of choices, failures   *)
(* and releases, active_conns of a peer is the number of requests that     *)
(* counted themselves on it and have not been uncounted, so it never wraps *)
(* below 0 and goes back to 0 when the group is idle.  It needs the peers  *)
(* to have distinct addresses, because release looks the peer up by        *)
(* address; a request whose set_nodelay failed stays counted for ever.     *)
ConnAccounting ==
  DistinctAddrs =>
    \A p \in PeerSet : active_conns[p] = Cardinality(Holders(p))

Marking(p) ==
  \/ \E r \in Requests : pc[r] = "mark_down" /\ peer[r] = p
  \/ hc_pc = "mark" /\ hc_peer = p

(* No mark is lost: fails and down_until are two atomics written by every  *)
(* request and by the health check without a lock, yet whenever a peer has *)
(* max_fails failures on its account, it has been marked down, or a task   *)
(* is about to mark it, or the health check is about to forget them.       *)
NoLostMark ==
  \A p \in PeerSet :
    FailTimeout > 0 /\ fails[p] > 0 /\ fails[p] >= MaxFails =>
      \/ down_until[p] > 0
      \/ Marking(p)
      \/ hc_pc = "reset" /\ hc_peer = p

(* Bounded outage: however stale the time a failing task uses, no peer is  *)
(* excluded for longer than fail_timeout from now.                         *)
DownBounded == \A p \in PeerSet : down_until[p] <= clock + FailTimeout

Finished == {"all_down", "leaked", "served", "failed"}

(* The group implements connection tracking (module ConnGauge): a request  *)
(* is new until it counts itself, counted while it connects or is open,    *)
(* over afterwards; the gauge is active_conns.                             *)
Gauge == INSTANCE ConnGauge WITH
  Tasks <- Requests,
  Slots <- PeerSet,
  state <- [r \in Requests |->
              IF pc[r] \in Counted THEN "counted"
              ELSE IF pc[r] \in {"idle", "filter", "chosen"} THEN "new"
              ELSE "over"],
  slot  <- [r \in Requests |-> IF pc[r] \in Counted THEN peer[r] ELSE 0],
  gauge <- active_conns

(* Every step of the group is a step of connection tracking or no step of  *)
(* it: no interleaving counts a request twice, uncounts it twice, or       *)
(* moves a gauge it is not counted on.                                     *)
TracksConnections == Gauge!Spec

(* Every request that enters connect is answered, whatever its peer does.  *)
RequestAnswered ==
  \A r \in Requests : pc[r] = "filter" ~> pc[r] \in Finished

(* The health-check task never gets stuck in a round.                      *)
HealthRoundEnds == hc_pc = "probe" ~> hc_pc = "sleep"

(* fail_timeout is "how long to mark a peer down": a mark excludes the     *)
(* peer for fail_timeout from the moment it is set.                        *)
MarkLasts ==
  [][\A p \in PeerSet :
       down_until'[p] > down_until[p] => down_until'[p] >= clock + FailTimeout
    ]_vars
=============================================================================
