-------------------------------- MODULE Stats --------------------------------
(***************************************************************************)
(* The request counters (src/src/stats/mod.rs): separate relaxed atomics   *)
(* that every request updates one after the other, and the task that reads *)
(* them, one after the other as well, for GET /api/stats.                  *)
(*                                                                         *)
(* The bytes and the classes of status are counted between the total and   *)
(* the histogram in the same way and left out.  A percentile is found as   *)
(* the index of a bucket (index Buckets: the overflow value) and shown in  *)
(* microseconds.                                                           *)
(***************************************************************************)
EXTENDS Naturals, FiniteSets, Functions

CONSTANTS
  Buckets,   \* buckets of the latency histogram (32)
  Latencies  \* how long a request may take, in microseconds

VARIABLES
  active,          \* requests in the handler, shown as active connections
  requests_total,
  latency,         \* latency[b]: the histogram
  reader,          \* the next bucket the reading task reads; Buckets when it
                   \* has read them all, Idle when nobody asks
  seen             \* what it has read: [total, latency], with before, the
                   \* histogram when it read the total (history)

stats == <<active, requests_total, latency, reader, seen>>

BucketSet == 0..Buckets - 1
Idle      == Buckets + 1
Empty     == [b \in BucketSet |-> 0]
Nothing   == [total |-> 0, latency |-> Empty, before |-> Empty]

StatsInit ==
  /\ active = 0
  /\ requests_total = 0
  /\ latency = Empty
  /\ reader = Idle
  /\ seen = Nothing

StatsTypeOK ==
  /\ active \in Nat
  /\ requests_total \in Nat
  /\ latency \in [BucketSet -> Nat]
  /\ reader \in 0..Idle
  /\ seen \in [total : Nat, latency : [BucketSet -> Nat],
               before : [BucketSet -> Nat]]

-----------------------------------------------------------------------------
(* The accesses of a request                                               *)

(* Mutant of RequestBegins: a path to the handler that does not count.     *)
RequestBegins_Missing == UNCHANGED stats

RequestBegins ==
  /\ active' = active + 1
  /\ UNCHANGED <<requests_total, latency, reader, seen>>

(* The end of handle and the first access of record_request ...            *)
RequestEnds ==
  /\ active' = active - 1
  /\ requests_total' = requests_total + 1
  /\ UNCHANGED <<latency, reader, seen>>

(* The position of the highest bit of the time, cut to the last bucket:    *)
(* bucket b > 0 holds the times from 2^b to 2^(b+1) - 1.                   *)
LatencyBucket(us) == Cardinality({b \in 1..Buckets - 1 : 2^b <= us})

(* ... to the last one, the bucket of the time it took.                    *)
CountLatency(us) ==
  /\ latency' = [latency EXCEPT ![LatencyBucket(us)] = @ + 1]
  /\ UNCHANGED <<active, requests_total, reader, seen>>

-----------------------------------------------------------------------------
(* latency_percentiles                                                     *)

ReadTotal ==
  /\ reader = Idle
  /\ reader' = 0
  /\ seen' = [seen EXCEPT !.total = requests_total, !.before = latency]
  /\ UNCHANGED <<active, requests_total, latency>>

(* Mutant of ReadBucket: the total is read with the last bucket.           *)
ReadBucket_Total ==
  /\ reader \in BucketSet
  /\ reader' = reader + 1
  /\ seen' = [total |-> requests_total, before |-> latency,
              latency |-> [seen.latency EXCEPT ![reader] = latency[reader]]]
  /\ UNCHANGED <<active, requests_total, latency>>

ReadBucket ==
  /\ reader \in BucketSet
  /\ reader' = reader + 1
  /\ seen' = [seen EXCEPT !.latency[reader] = latency[reader]]
  /\ UNCHANGED <<active, requests_total, latency>>

(* The four percentiles are computed from what was read and sent.          *)
Report ==
  /\ reader = Buckets
  /\ reader' = Idle
  /\ seen' = Nothing
  /\ UNCHANGED <<active, requests_total, latency>>

Target(total, permille) == (total * permille) \div 1000

(* percentile_us: the first bucket with which the sum reaches the target.  *)
Percentile(buckets, total, permille) ==
  LET hit == {b \in BucketSet :
                SumFunctionOnSet(buckets, 0..b) >= Target(total, permille)}
  IN  IF hit = {} THEN Buckets
      ELSE CHOOSE b \in hit : \A other \in hit : b <= other

(* The arguments with which p50, p90, p99 and p99.9 are asked for.         *)
Permille == [p50 |-> 50, p90 |-> 90, p99 |-> 99, p999 |-> 999]

(* The bucket from which a percentile is shown ...                         *)
Shown(name) ==
  IF seen.total = 0 THEN 0
  ELSE Percentile(seen.latency, seen.total, Permille[name])

(* ... and the number that is shown for it.                                *)
Microseconds(b) == IF b = 0 THEN 0 ELSE 2^(b - 1)

-----------------------------------------------------------------------------
(* Properties of the counters and their reader                             *)

(* latency_percentiles: however many requests are recorded while the       *)
(* reader goes from the total to the last bucket, the bucket it shows lies *)
(* between the one that was right when it began and the one that is right  *)
(* when it ends: the requests below the bucket did not make up the target  *)
(* at the beginning, those up to it do at the end.  (So the overflow value *)
(* is shown only on account of requests that were counted in the total and *)
(* in no bucket yet.)                                                      *)
ShownInTime ==
  reader = Buckets =>
    \A name \in DOMAIN Permille :
      LET b      == Shown(name)
          target == Target(seen.total, Permille[name])
      IN  /\ b > 0 => SumFunctionOnSet(seen.before, 0..b - 1) < target
          /\ b < Buckets => SumFunctionOnSet(latency, 0..b) >= target

(* docs/web-ui.md: "p99 Latency | 99th percentile response time".  Of the  *)
(* requests that were wholly recorded when the total was read, 99 of 100   *)
(* took no longer than those of the bucket shown.                          *)
ShownIs99th ==
  reader = Buckets /\ SumFunction(seen.before) = seen.total =>
    SumFunctionOnSet(seen.latency, 0..Shown("p99")) >= (99 * seen.total) \div 100

(* percentile_us: "Bucket i covers [2^(i-1), 2^i) us; return midpoint":    *)
(* the number shown for a bucket is a time the bucket holds.               *)
ShownInItsBucket ==
  reader = Buckets =>
    \A name \in DOMAIN Permille :
      Shown(name) \in 1..Buckets - 1 =>
        LatencyBucket(Microseconds(Shown(name))) = Shown(name)
=============================================================================
