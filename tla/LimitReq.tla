------------------------------ MODULE LimitReq ------------------------------
(***************************************************************************)
(* The request limiter: one zone of limit_req (src/src/limit_req/mod.rs),  *)
(* called by the tasks that serve requests (src/src/server/handler.rs).    *)
(*                                                                         *)
(* A task reads the time and only then locks the bucket of its client, so  *)
(* buckets meet times out of order.  `clock' is the monotonic time; tokens *)
(* are counted in fractions, One of which make a whole token.              *)
(***************************************************************************)
EXTENDS Integers

CONSTANTS
  Tasks,     \* the tasks that serve requests of this zone
  Clients,   \* the client addresses
  ClientOf,  \* ClientOf[t]: address of the client of task t
  Burst,     \* Burst[t]: burst of the limit_req in force where t's requests go
  MaxBurst,  \* a bound on every burst
  Rate,      \* rate of the zone: fractions of a token per unit of time
  One,       \* fractions of a token in a whole one
  NoBucket,  \* what `buckets' holds for an address not seen yet
  MaxClock   \* bound on the clock

Bucket == [tokens : Nat, last_check : Nat]

ASSUME LimitReqAssumption ==
  /\ ClientOf \in [Tasks -> Clients]
  /\ Burst \in [Tasks -> Nat]
  /\ MaxBurst \in Nat
  /\ \A t \in Tasks : Burst[t] <= MaxBurst
  /\ Rate \in Nat
  /\ One \in Nat \ {0}
  /\ NoBucket \notin Bucket
  /\ MaxClock \in Nat

VARIABLES
  clock,    \* monotonic time
  buckets,  \* buckets[c]: the bucket of client c
  pc,       \* pc[t]: "idle", "read", or the outcome of t's last request
  now,      \* now[t]: the time t read on entering allow
  granted,  \* granted[c]: requests of c let through (history)
  rewound   \* rewound[c]: total time last_check of c went back by (history)

vars == <<clock, buckets, pc, now, granted, rewound>>

TypeOK ==
  /\ clock \in 0..MaxClock
  /\ buckets \in [Clients -> Bucket \cup {NoBucket}]
  /\ pc \in [Tasks -> {"idle", "read", "granted", "denied"}]
  /\ now \in [Tasks -> 0..clock]
  /\ granted \in [Clients -> Nat]
  /\ rewound \in [Clients -> Nat]

Init ==
  /\ clock = 0
  /\ buckets = [c \in Clients |-> NoBucket]
  /\ pc = [t \in Tasks |-> "idle"]
  /\ now = [t \in Tasks |-> 0]
  /\ granted = [c \in Clients |-> 0]
  /\ rewound = [c \in Clients |-> 0]

(* A request of t reaches the limiter.  After a grant it may be the next   *)
(* one of the connection, after a denial it comes on a new connection.     *)
ReadNow(t) ==
  /\ pc[t] # "read"
  /\ pc' = [pc EXCEPT ![t] = "read"]
  /\ now' = [now EXCEPT ![t] = clock]
  /\ UNCHANGED <<clock, buckets, granted, rewound>>

Capacity(t) == Burst[t] * One

(* Mutant of Entry: a new bucket starts empty.                             *)
Entry_StartsEmpty(t) ==
  IF buckets[ClientOf[t]] = NoBucket
  THEN [tokens |-> 0, last_check |-> now[t]]
  ELSE buckets[ClientOf[t]]

(* The bucket of t's client, or a full one as of t's time.                 *)
Entry(t) ==
  IF buckets[ClientOf[t]] = NoBucket
  THEN [tokens |-> Capacity(t), last_check |-> now[t]]
  ELSE buckets[ClientOf[t]]

(* Mutant of Elapsed: no saturation.                                       *)
Elapsed_Signed(from, to) == to - from

(* Instant::duration_since is zero when `to' is the earlier one.           *)
Elapsed(from, to) == IF to >= from THEN to - from ELSE 0

(* The tokens of the bucket after the refill, capped by t's burst.         *)
Refilled(t) ==
  LET full == Entry(t).tokens + Rate * Elapsed(Entry(t).last_check, now[t])
  IN IF full <= Capacity(t) THEN full ELSE Capacity(t)

(* Mutant of Take: a denied request does not move last_check.              *)
Take_DeniedKeepsTime(t) ==
  LET c == ClientOf[t]
      ok == Refilled(t) >= One
  IN /\ pc[t] = "read"
     /\ buckets' = [buckets EXCEPT
          ![c] = [tokens     |-> IF ok THEN Refilled(t) - One ELSE Refilled(t),
                  last_check |-> IF ok THEN now[t] ELSE Entry(t).last_check]]
     /\ pc' = [pc EXCEPT ![t] = IF ok THEN "granted" ELSE "denied"]
     /\ granted' = [granted EXCEPT ![c] = IF ok THEN @ + 1 ELSE @]
     /\ UNCHANGED <<clock, now, rewound>>

(* Under the bucket's lock: refill, move last_check to t's time, which may *)
(* be a step back, and take a token if there is a whole one.               *)
Take(t) ==
  LET c == ClientOf[t]
      ok == Refilled(t) >= One
  IN /\ pc[t] = "read"
     /\ buckets' = [buckets EXCEPT
          ![c] = [tokens     |-> IF ok THEN Refilled(t) - One ELSE Refilled(t),
                  last_check |-> now[t]]]
     /\ pc' = [pc EXCEPT ![t] = IF ok THEN "granted" ELSE "denied"]
     /\ granted' = [granted EXCEPT ![c] = IF ok THEN @ + 1 ELSE @]
     /\ rewound' = [rewound EXCEPT ![c] = @ + Elapsed(now[t], Entry(t).last_check)]
     /\ UNCHANGED <<clock, now>>

Tick ==
  /\ clock < MaxClock
  /\ clock' = clock + 1
  /\ UNCHANGED <<buckets, pc, now, granted, rewound>>

Next ==
  \/ \E t \in Tasks : ReadNow(t) \/ Take(t)
  \/ Tick

Spec == Init /\ [][Next]_vars

-----------------------------------------------------------------------------
(* Properties                                                              *)

(* What allow guarantees whatever the order in which tasks reach a bucket: *)
(* a client gets at most the burst, plus the refill of the time that has   *)
(* passed, plus the refill of the time last_check was moved back by.  The  *)
(* last part is the price of reading the time before the lock.             *)
GrantBound ==
  \A c \in Clients :
    One * granted[c] <= One * MaxBurst + Rate * (clock + rewound[c])

(* Nobody starves a newcomer: a request is denied only if its client has   *)
(* been let through before.  Needs every burst to be at least 1, since     *)
(* burst is also the capacity of the bucket.                               *)
NoDenialBeforeGrant ==
  (\A t \in Tasks : Burst[t] > 0) =>
    \A t \in Tasks : pc[t] = "denied" => granted[ClientOf[t]] > 0

(* The token bucket of the module's header ("Uses a token bucket per IP    *)
(* per zone"): at most burst + rate * elapsed time, whatever the order.    *)
TokenBucket ==
  \A c \in Clients :
    One * granted[c] <= One * MaxBurst + Rate * clock
=============================================================================
