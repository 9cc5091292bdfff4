---------------------------- MODULE ScanDetector ----------------------------
(***************************************************************************)
(* The scan detector (src/src/scan_detector/mod.rs) and the two places     *)
(* where a request meets it: the gate at its start and the record of its   *)
(* outcome at its end (src/src/server/handler.rs); a garbage collector     *)
(* drops idle records.                                                     *)
(*                                                                         *)
(* record reads the time before it takes the lock, so a record meets times *)
(* out of order.  `clock' is the monotonic time in seconds.                *)
(***************************************************************************)
EXTENDS Integers, FiniteSets

CONSTANTS
  Tasks,        \* the tasks that serve requests
  Clients,      \* client addresses
  ClientOf,     \* ClientOf[t]: address of the client of task t
  Whitelist,    \* addresses that are never recorded
  Outcomes,     \* what a request may add: [error : BOOLEAN, probes : set]
  Window,       \* window_secs
  ReqThreshold, \* req_threshold
  RateNum,      \* error_rate_threshold is RateNum / RateDen
  RateDen,
  BlockSecs,    \* block_secs
  Reporting,    \* abuseipdb_report, with a key
  Day,          \* 86400 seconds
  GcInterval,   \* 300 seconds
  NoRecord,     \* what `tracker' holds for an address without record
  MaxRequests,  \* bound: no new request once a record counts that many
  MaxClock      \* bound on the clock

ScoreTrigger == 60

(* None for last_reported.  For blocked_until None acts like time 0.       *)
Never == -1

VARIABLES
  clock,
  tracker,  \* tracker[c]: IpRecord of client c
  pc,       \* pc[t]: "idle", "handling" or "record"
  now,      \* now[t]: the time t read in record
  gc_wake,  \* when the collector's sleep ends
  reported  \* reported[c]: time of the last report of c (history)

vars == <<clock, tracker, pc, now, gc_wake, reported>>

(* What the detector keeps of a client.                                    *)
IpRecord ==
  [window_start : 0..MaxClock, req_count : Nat, error_4xx : Nat,
   probe_paths : SUBSET UNION {o.probes : o \in Outcomes},
   blocked_until : Nat, last_reported : Nat \cup {Never}]

Elapsed(from, to) == IF to >= from THEN to - from ELSE 0
Least(a, b) == IF a <= b THEN a ELSE b

ASSUME ScanDetectorAssumption ==
  /\ ClientOf \in [Tasks -> Clients]
  /\ Whitelist \subseteq Clients
  /\ \A o \in Outcomes : o.error \in BOOLEAN /\ IsFiniteSet(o.probes)
  /\ {Window, BlockSecs, Day, MaxRequests, MaxClock} \subseteq Nat
  /\ {ReqThreshold, RateNum, RateDen, GcInterval} \subseteq Nat \ {0}
  /\ Reporting \in BOOLEAN
  /\ NoRecord \notin IpRecord

Init ==
  /\ clock = 0
  /\ tracker = [c \in Clients |-> NoRecord]
  /\ pc = [t \in Tasks |-> "idle"]
  /\ now = [t \in Tasks |-> 0]
  /\ gc_wake = GcInterval
  /\ reported = [c \in Clients |-> Never]

NewRecord ==
  [window_start |-> clock, req_count |-> 0, error_4xx |-> 0, probe_paths |-> {},
   blocked_until |-> 0, last_reported |-> Never]

(* Volume up to 30, error rate up to 40, probe paths up to 30.             *)
Score(r) ==
  LET vol == Least(30, (30 * r.req_count) \div ReqThreshold)
      err == IF r.error_4xx * RateDen >= RateNum * r.req_count
             THEN Least(40, (30 * r.error_4xx * RateDen)
                              \div (RateNum * r.req_count))
             ELSE 0
      probe == Least(30, 10 * Cardinality(r.probe_paths))
  IN IF r.req_count = 0 THEN 0 ELSE vol + err + probe

-----------------------------------------------------------------------------
(* A request                                                               *)

(* is_blocked, before anything else: a blocked client gets a 429.          *)
Blocked(c) == tracker[c] # NoRecord /\ clock < tracker[c].blocked_until

Gate(t) ==
  /\ pc[t] = "idle"
  /\ ~Blocked(ClientOf[t])
  /\ tracker[ClientOf[t]] # NoRecord =>
       tracker[ClientOf[t]].req_count < MaxRequests
  /\ pc' = [pc EXCEPT ![t] = "handling"]
  /\ UNCHANGED <<clock, tracker, now, gc_wake, reported>>

(* The handler returns early (redirect, refusal, API, cache hit, ...): the *)
(* request is not recorded.                                                *)
ReturnEarly(t) ==
  /\ pc[t] = "handling"
  /\ pc' = [pc EXCEPT ![t] = "idle"]
  /\ UNCHANGED <<clock, tracker, now, gc_wake, reported>>

(* The request reaches the end of the handler, and record reads the time.  *)
ReadNow(t) ==
  /\ pc[t] = "handling"
  /\ pc' = [pc EXCEPT ![t] = IF ClientOf[t] \in Whitelist THEN "idle" ELSE "record"]
  /\ now' = [now EXCEPT ![t] = clock]
  /\ UNCHANGED <<clock, tracker, gc_wake, reported>>

(* The record with an expired block cleared and, when its window is over,  *)
(* counted from scratch.                                                   *)
Current(r, time) ==
  IF Elapsed(r.window_start, time) > Window
  THEN [NewRecord EXCEPT !.last_reported = r.last_reported]
  ELSE [r EXCEPT !.blocked_until = 0]

Counted(r, o) ==
  [r EXCEPT !.req_count = @ + 1,
            !.error_4xx = IF o.error THEN @ + 1 ELSE @,
            !.probe_paths = @ \cup o.probes]

(* Whether a report is due: none in the last day, as far as r remembers.   *)
ReportDue(r, time) ==
  /\ Reporting
  /\ ~(r.last_reported # Never /\ Elapsed(r.last_reported, time) < Day)

(* Mutant of Record: a client already blocked is recorded once more.       *)
Record_IgnoresBlock(t, o) ==
  LET c == ClientOf[t]
      old == IF tracker[c] = NoRecord THEN NewRecord ELSE tracker[c]
      rec == Counted(Current(old, now[t]), o)
      due == ReportDue(rec, now[t])
      blocked == Score(rec) >= ScoreTrigger
  IN /\ pc[t] = "record"
     /\ pc' = [pc EXCEPT ![t] = "idle"]
     /\ tracker' = [tracker EXCEPT ![c] =
          IF blocked
          THEN [rec EXCEPT !.blocked_until = IF BlockSecs > 0 THEN now[t] + BlockSecs ELSE 0,
                           !.last_reported = IF due THEN now[t] ELSE @]
          ELSE rec]
     /\ reported' = IF blocked /\ due
                    THEN [reported EXCEPT ![c] = now[t]] ELSE reported
     /\ UNCHANGED <<clock, now, gc_wake>>

(* record, under the write lock.                                           *)
Record(t, o) ==
  LET c == ClientOf[t]
      old == IF tracker[c] = NoRecord THEN NewRecord ELSE tracker[c]
      rec == Counted(Current(old, now[t]), o)
      due == ReportDue(rec, now[t])
      blocked == Score(rec) >= ScoreTrigger
      new == IF blocked
             THEN [rec EXCEPT
                     !.blocked_until = IF BlockSecs > 0 THEN now[t] + BlockSecs ELSE 0,
                     !.last_reported = IF due THEN now[t] ELSE @]
             ELSE rec
  IN /\ pc[t] = "record"
     /\ pc' = [pc EXCEPT ![t] = "idle"]
     /\ IF now[t] < old.blocked_until
        THEN UNCHANGED <<tracker, reported>>
        ELSE /\ tracker' = [tracker EXCEPT ![c] = new]
             /\ reported' = IF blocked /\ due
                            THEN [reported EXCEPT ![c] = now[t]] ELSE reported
     /\ UNCHANGED <<clock, now, gc_wake>>

-----------------------------------------------------------------------------
(* The collector                                                           *)

(* Mutant of Kept: blocks are not looked at.                               *)
Kept_IgnoresBlock(r) == clock - r.window_start < 3 * Window

Kept(r) == clock < r.blocked_until \/ clock - r.window_start < 3 * Window

(* Every GcInterval or a little later: keep the blocked and the recent.    *)
Gc ==
  /\ clock >= gc_wake
  /\ tracker' = [c \in Clients |->
       IF tracker[c] # NoRecord /\ Kept(tracker[c]) THEN tracker[c] ELSE NoRecord]
  /\ gc_wake' = clock + GcInterval
  /\ UNCHANGED <<clock, pc, now, reported>>

Tick ==
  /\ clock < MaxClock
  /\ clock' = clock + 1
  /\ UNCHANGED <<tracker, pc, now, gc_wake, reported>>

Next ==
  \/ \E t \in Tasks : Gate(t) \/ ReturnEarly(t) \/ ReadNow(t)
  \/ \E t \in Tasks, o \in Outcomes : Record(t, o)
  \/ Gc
  \/ Tick

Spec == Init /\ [][Next]_vars

-----------------------------------------------------------------------------
(* Properties                                                              *)

(* Types; a record never has more errors than requests, so the error rate  *)
(* is a rate.                                                              *)
TypeOK ==
  /\ clock \in 0..MaxClock
  /\ \A c \in Clients :
       tracker[c] # NoRecord =>
         /\ tracker[c] \in IpRecord
         /\ tracker[c].error_4xx <= tracker[c].req_count
  /\ pc \in [Tasks -> {"idle", "handling", "record"}]
  /\ now \in [Tasks -> 0..clock]
  /\ gc_wake \in Nat
  /\ reported \in [Clients -> Nat \cup {Never}]

(* A block holds for its whole time: neither the requests that were under  *)
(* way when it was set, with times from before it, nor the collector cut   *)
(* it short or prolong it.                                                 *)
BlockLasts ==
  [][\A c \in Clients :
       Blocked(c) => /\ tracker'[c] # NoRecord
                     /\ tracker'[c].blocked_until = tracker[c].blocked_until]_vars

(* Reports of a client are at least block_secs apart, also when the        *)
(* collector drops the record that remembers the last one in between.      *)
ReportsSpaced ==
  [][\A c \in Clients :
       reported'[c] # reported[c] /\ reported[c] # Never =>
         clock >= reported[c] + Least(BlockSecs, Day)]_vars
=============================================================================
