--------------------------- MODULE LimitReqProofs ---------------------------
(***************************************************************************)
(* Proofs about LimitReq: its types, and the bound on what a client is     *)
(* granted, for any number of tasks and clients, any bursts and any rate.  *)
(***************************************************************************)
EXTENDS LimitReq, TLAPS

(* A client without a bucket was granted nothing; one with a bucket has    *)
(* been credited at most the burst and the refill up to last_check, counted *)
(* again where last_check went back.                                       *)
Credit ==
  \A c \in Clients :
    IF buckets[c] = NoBucket
    THEN granted[c] = 0
    ELSE /\ buckets[c].last_check <= clock
         /\ One * granted[c] + buckets[c].tokens
              <= One * MaxBurst + Rate * (buckets[c].last_check + rewound[c])

(* A client with a bucket was granted a request, if bursts are positive.   *)
FirstGrant ==
  (\A t \in Tasks : Burst[t] > 0) =>
    \A c \in Clients : buckets[c] # NoBucket => granted[c] > 0

IInv == TypeOK /\ Credit /\ FirstGrant

(* Elapsed is the truncated difference of two naturals.                    *)
LEMMA ElapsedNat ==
  ASSUME NEW a \in Nat, NEW b \in Nat
  PROVE  /\ Elapsed(a, b) \in Nat
         /\ b >= a => Elapsed(a, b) = b - a
         /\ b < a => Elapsed(a, b) = 0
         /\ a + Elapsed(a, b) = b + Elapsed(b, a)
  BY DEF Elapsed

(* Distribution, stated for the products of this module.                   *)
LEMMA Distribute ==
  ASSUME NEW k \in Nat, NEW a \in Nat, NEW b \in Nat
  PROVE  /\ k * a \in Nat
         /\ k * (a + b) = k * a + k * b
  BY SMT

(* More time, more refill.                                                 *)
LEMMA Monotone ==
  ASSUME NEW k \in Nat, NEW a \in Nat, NEW b \in Nat, a <= b
  PROVE  k * a <= k * b
  <1>1. PICK d \in Nat : b = a + d
    <2>1. b - a \in Nat /\ b = a + (b - a)  OBVIOUS
    <2> QED  BY <2>1
  <1>2. k * b = k * a + k * d  BY <1>1, Distribute
  <1>3. k * a \in Nat /\ k * d \in Nat  BY Distribute
  <1> QED  BY <1>2, <1>3

(* A rearrangement of a sum.                                               *)
LEMMA Regroup ==
  ASSUME NEW a \in Nat, NEW u \in Nat, NEW n \in Nat, NEW r \in Nat,
         NEW d \in Nat, a + u = n + d
  PROVE  (a + r) + u = n + (r + d)
  OBVIOUS

(* What the lock holder finds, and what the refill makes of it.            *)
LEMMA EntryAndRefill ==
  ASSUME TypeOK, NEW t \in Tasks
  PROVE  /\ Entry(t) \in Bucket
         /\ Capacity(t) \in Nat
         /\ Refilled(t) \in Nat
         /\ Refilled(t) <= Capacity(t)
         /\ Refilled(t) <= Entry(t).tokens
                           + Rate * Elapsed(Entry(t).last_check, now[t])
  <1>1. Capacity(t) \in Nat
    BY LimitReqAssumption, Distribute DEF Capacity
  <1>2. now[t] \in Nat  BY LimitReqAssumption DEF TypeOK
  <1>3. Entry(t) \in Bucket
    BY <1>1, <1>2, LimitReqAssumption DEF Entry, TypeOK, Bucket
  <1>4. Elapsed(Entry(t).last_check, now[t]) \in Nat
    BY <1>2, <1>3, ElapsedNat DEF Bucket
  <1>5. Rate * Elapsed(Entry(t).last_check, now[t]) \in Nat
    BY <1>4, LimitReqAssumption, Distribute
  <1>6. Entry(t).tokens \in Nat  BY <1>3 DEF Bucket
  <1> QED  BY <1>1, <1>3, <1>5, <1>6 DEF Refilled

-----------------------------------------------------------------------------

(* Nothing was granted and no bucket exists at the start.                  *)
LEMMA InitIInv == Init => IInv
  BY LimitReqAssumption DEF Init, IInv, TypeOK, Credit, FirstGrant

(* No step leaves the types: refill never exceeds the burst.               *)
LEMMA NextTypeOK == TypeOK /\ [Next]_vars => TypeOK'
  <1> SUFFICES ASSUME TypeOK, [Next]_vars PROVE TypeOK'
    OBVIOUS
  <1> USE LimitReqAssumption
  <1>1. ASSUME NEW t \in Tasks, ReadNow(t) PROVE TypeOK'
    BY <1>1 DEF ReadNow, TypeOK
  <1>2. ASSUME NEW t \in Tasks, Take(t) PROVE TypeOK'
    <2> DEFINE c == ClientOf[t]
    <2>1. c \in Clients  OBVIOUS
    <2>2. /\ Refilled(t) \in Nat
          /\ Refilled(t) >= One => Refilled(t) - One \in Nat
      BY EntryAndRefill
    <2>3. now[t] \in Nat  BY DEF TypeOK
    <2>4. Elapsed(now[t], Entry(t).last_check) \in Nat
      BY <2>3, EntryAndRefill, ElapsedNat DEF Bucket
    <2>5. buckets' \in [Clients -> Bucket \cup {NoBucket}]
      BY <1>2, <2>1, <2>2, <2>3 DEF Take, TypeOK, Bucket
    <2>6. granted' \in [Clients -> Nat] /\ rewound' \in [Clients -> Nat]
      BY <1>2, <2>1, <2>4 DEF Take, TypeOK
    <2> QED  BY <1>2, <2>5, <2>6 DEF Take, TypeOK
  <1>3. CASE Tick  BY <1>3 DEF Tick, TypeOK
  <1>4. CASE UNCHANGED vars  BY <1>4 DEF vars, TypeOK
  <1> QED  BY <1>1, <1>2, <1>3, <1>4 DEF Next

(* Take grants from what the bucket holds and refills by the time that     *)
(* passed.                                                                 *)
LEMMA NextCredit == TypeOK /\ Credit /\ [Next]_vars => Credit'
  <1> SUFFICES ASSUME TypeOK, Credit, [Next]_vars PROVE Credit'
    OBVIOUS
  <1> USE LimitReqAssumption
  <1>1. ASSUME NEW t \in Tasks, ReadNow(t) PROVE Credit'
    BY <1>1 DEF ReadNow, Credit
  <1>2. ASSUME NEW t \in Tasks, Take(t) PROVE Credit'
    <2> DEFINE c == ClientOf[t]
               e == Entry(t)
               up == Elapsed(e.last_check, now[t])
               down == Elapsed(now[t], e.last_check)
    <2>1. c \in Clients  OBVIOUS
    <2>2. now[t] \in Nat /\ now[t] <= clock /\ clock \in Nat
      BY DEF TypeOK
    <2>3. /\ e.last_check \in Nat /\ e.tokens \in Nat
          /\ Refilled(t) \in Nat
          /\ Refilled(t) <= e.tokens + Rate * up
      BY EntryAndRefill DEF Bucket
    <2>4. /\ up \in Nat /\ down \in Nat
          /\ e.last_check + up = now[t] + down
      BY <2>2, <2>3, ElapsedNat
    <2>5. granted[c] \in Nat /\ rewound[c] \in Nat
      BY <2>1 DEF TypeOK
    \* Before the step, reading the missing bucket as a full one.
    <2>6. One * granted[c] + e.tokens
            <= One * MaxBurst + Rate * (e.last_check + rewound[c])
      <3>1. CASE buckets[c] # NoBucket
        BY <2>1, <3>1 DEF Credit, Entry
      <3>2. CASE buckets[c] = NoBucket
        <4>1. granted[c] = 0 /\ e.tokens = Burst[t] * One
          BY <2>1, <3>2 DEF Credit, Entry, Capacity
        <4>2. One * Burst[t] <= One * MaxBurst  BY Monotone
        <4>3. Rate * (e.last_check + rewound[c]) \in Nat
          BY <2>3, <2>5, Distribute
        <4>4. One * granted[c] = 0 /\ One * Burst[t] = Burst[t] * One
          BY <4>1
        <4>5. One * MaxBurst \in Nat /\ One * Burst[t] \in Nat
          BY Distribute
        <4> QED  BY <4>1, <4>2, <4>3, <4>4, <4>5
      <3> QED  BY <3>1, <3>2
    \* The refill pays for the move of last_check, forward or back.
    <2>7. Rate * (e.last_check + rewound[c]) + Rate * up
            = Rate * (now[t] + (rewound[c] + down))
      <3>1. e.last_check + rewound[c] \in Nat /\ rewound[c] + down \in Nat
        BY <2>3, <2>4, <2>5
      <3>2. Rate * (e.last_check + rewound[c]) + Rate * up
              = Rate * ((e.last_check + rewound[c]) + up)
        BY <3>1, <2>4, Distribute
      <3>3. (e.last_check + rewound[c]) + up = now[t] + (rewound[c] + down)
        <4>1. e.last_check \in Nat /\ now[t] \in Nat /\ rewound[c] \in Nat
          BY <2>2, <2>3, <2>5
        <4> HIDE DEF c, e, up, down
        <4> QED  BY <4>1, <2>4, Regroup
      <3> QED  BY <3>2, <3>3
    <2>8. One * granted[c] + Refilled(t)
            <= One * MaxBurst + Rate * (now[t] + (rewound[c] + down))
      <3>1. /\ One * granted[c] \in Nat
            /\ One * MaxBurst \in Nat
            /\ Rate * up \in Nat
            /\ Rate * (e.last_check + rewound[c]) \in Nat
            /\ Rate * (now[t] + (rewound[c] + down)) \in Nat
        BY <2>2, <2>3, <2>4, <2>5, Distribute
      <3> QED  BY <2>3, <2>6, <2>7, <3>1
    <2>9. /\ rewound'[c] = rewound[c] + down
          /\ buckets'[c].last_check = now[t]
          /\ buckets'[c] \in Bucket
          /\ buckets'[c].tokens = IF Refilled(t) >= One
                                  THEN Refilled(t) - One ELSE Refilled(t)
          /\ granted'[c] = IF Refilled(t) >= One
                           THEN granted[c] + 1 ELSE granted[c]
          /\ clock' = clock
      BY <1>2, <2>1, <2>2, <2>3 DEF Take, TypeOK, Bucket
    <2>10. One * granted'[c] + buckets'[c].tokens = One * granted[c] + Refilled(t)
      <3>1. One * (granted[c] + 1) = One * granted[c] + One
        BY <2>5, Distribute
      <3>2. One * granted[c] \in Nat  BY <2>5, Distribute
      <3> QED  BY <2>3, <2>9, <3>1, <3>2
    <2>11. \A d \in Clients \ {c} :
             /\ buckets'[d] = buckets[d]
             /\ granted'[d] = granted[d]
             /\ rewound'[d] = rewound[d]
      BY <1>2 DEF Take, TypeOK
    <2>12. ASSUME NEW d \in Clients
           PROVE  IF buckets'[d] = NoBucket
                  THEN granted'[d] = 0
                  ELSE /\ buckets'[d].last_check <= clock'
                       /\ One * granted'[d] + buckets'[d].tokens
                            <= One * MaxBurst
                               + Rate * (buckets'[d].last_check + rewound'[d])
      <3>1. CASE d = c
        <4>1. buckets'[c] # NoBucket  BY <2>9
        <4> QED  BY <3>1, <4>1, <2>2, <2>8, <2>9, <2>10
      <3>2. CASE d # c  BY <3>2, <2>9, <2>11 DEF Credit
      <3> QED  BY <3>1, <3>2
    <2> QED  BY <2>12 DEF Credit
  <1>3. CASE Tick
    <2>1. ASSUME NEW c \in Clients, buckets[c] # NoBucket
          PROVE  buckets[c].last_check <= clock'
      BY <1>3, <2>1 DEF Tick, Credit, TypeOK, Bucket
    <2> QED  BY <1>3, <2>1 DEF Tick, Credit
  <1>4. CASE UNCHANGED vars  BY <1>4 DEF vars, Credit
  <1> QED  BY <1>1, <1>2, <1>3, <1>4 DEF Next

(* A bucket begins with a whole burst, so its first request is granted.    *)
LEMMA NextFirstGrant ==
  TypeOK /\ FirstGrant /\ [Next]_vars => FirstGrant'
  <1> SUFFICES ASSUME TypeOK, FirstGrant, [Next]_vars,
                      \A t \in Tasks : Burst[t] > 0,
                      NEW c \in Clients, buckets'[c] # NoBucket
               PROVE  granted'[c] > 0
    BY DEF FirstGrant
  <1> USE LimitReqAssumption
  <1>1. ASSUME NEW t \in Tasks, ReadNow(t) PROVE granted'[c] > 0
    BY <1>1 DEF ReadNow, FirstGrant
  <1>2. ASSUME NEW t \in Tasks, Take(t) PROVE granted'[c] > 0
    <2>1. granted[c] \in Nat  BY DEF TypeOK
    <2>2. CASE buckets[c] # NoBucket
      BY <1>2, <2>1, <2>2 DEF Take, TypeOK, FirstGrant
    <2>3. CASE buckets[c] = NoBucket
      <3>1. c = ClientOf[t]  BY <1>2, <2>3 DEF Take, TypeOK
      <3>2. Burst[t] \in Nat /\ Burst[t] >= 1  OBVIOUS
      <3>3. Capacity(t) \in Nat /\ Capacity(t) >= One
        <4>1. One * 1 <= One * Burst[t]  BY <3>2, Monotone
        <4> QED  BY <3>2, <4>1, EntryAndRefill DEF Capacity
      <3>4. Entry(t) = [tokens |-> Capacity(t), last_check |-> now[t]]
        BY <2>3, <3>1 DEF Entry
      <3>5. now[t] \in Nat  BY DEF TypeOK
      <3>6. Elapsed(Entry(t).last_check, now[t]) = 0
        <4>1. Elapsed(now[t], now[t]) = 0  BY <3>5 DEF Elapsed
        <4> QED  BY <3>4, <4>1
      <3>7. Refilled(t) = Capacity(t)  BY <3>3, <3>4, <3>6 DEF Refilled
      <3>8. granted'[c] = granted[c] + 1
        BY <1>2, <3>1, <3>3, <3>7 DEF Take, TypeOK
      <3> QED  BY <2>1, <3>8
    <2> QED  BY <2>2, <2>3
  <1>3. CASE Tick  BY <1>3 DEF Tick, FirstGrant
  <1>4. CASE UNCHANGED vars  BY <1>4 DEF vars, FirstGrant
  <1> QED  BY <1>1, <1>2, <1>3, <1>4 DEF Next

(* A task with a denied request has left a bucket for its client.          *)
Visited == \A t \in Tasks : pc[t] = "denied" => buckets[ClientOf[t]] # NoBucket

(* A denial is decided by a bucket, and buckets stay.                      *)
LEMMA NextVisited == TypeOK /\ Visited /\ [Next]_vars => Visited'
  <1> SUFFICES ASSUME TypeOK, Visited, [Next]_vars PROVE Visited'
    OBVIOUS
  <1> USE LimitReqAssumption
  <1>1. ASSUME NEW t \in Tasks, ReadNow(t) PROVE Visited'
    BY <1>1 DEF ReadNow, TypeOK, Visited
  <1>2. ASSUME NEW t \in Tasks, Take(t) PROVE Visited'
    <2>1. TypeOK'  BY NextTypeOK
    <2>2. buckets'[ClientOf[t]] # NoBucket
      <3>1. Refilled(t) \in Nat /\ (Refilled(t) >= One => Refilled(t) - One \in Nat)
        BY EntryAndRefill
      <3>2. now[t] \in Nat  BY DEF TypeOK
      <3>3. buckets'[ClientOf[t]] \in Bucket
        BY <1>2, <3>1, <3>2 DEF Take, TypeOK, Bucket
      <3> QED  BY <3>3
    <2>3. ASSUME NEW u \in Tasks, pc'[u] = "denied"
          PROVE  buckets'[ClientOf[u]] # NoBucket
      BY <1>2, <2>2, <2>3 DEF Take, TypeOK, Visited
    <2> QED  BY <2>3 DEF Visited
  <1>3. CASE Tick  BY <1>3 DEF Tick, Visited
  <1>4. CASE UNCHANGED vars  BY <1>4 DEF vars, Visited
  <1> QED  BY <1>1, <1>2, <1>3, <1>4 DEF Next

(* The inductive invariant holds throughout.                               *)
LEMMA Inductive == Spec => [](IInv /\ Visited)
  <1>1. Init => IInv /\ Visited  BY InitIInv DEF Init, Visited
  <1>2. IInv /\ Visited /\ [Next]_vars => (IInv /\ Visited)'
    BY NextTypeOK, NextCredit, NextFirstGrant, NextVisited DEF IInv
  <1> QED  BY <1>1, <1>2, PTL DEF Spec

-----------------------------------------------------------------------------

(* Types: the refill never yields a fraction below zero, a task's time     *)
(* never lies ahead of the clock.                                          *)
THEOREM LimitReqTypes == Spec => []TypeOK
  BY Inductive, PTL DEF IInv

(* No client is ever granted more than the burst, the refill of the time   *)
(* that has passed and the refill of the time its bucket went back.        *)
THEOREM LimitReqGrantBound == Spec => []GrantBound
  <1>1. IInv => GrantBound
    <2> SUFFICES ASSUME IInv, NEW c \in Clients
                 PROVE  One * granted[c]
                          <= One * MaxBurst + Rate * (clock + rewound[c])
      BY DEF GrantBound
    <2> USE LimitReqAssumption
    <2>1. clock \in Nat /\ granted[c] \in Nat /\ rewound[c] \in Nat
      BY DEF IInv, TypeOK
    <2>2. /\ One * granted[c] \in Nat
          /\ One * MaxBurst \in Nat
          /\ Rate * (clock + rewound[c]) \in Nat
      BY <2>1, Distribute
    <2>3. CASE buckets[c] = NoBucket
      <3>1. One * granted[c] = 0  BY <2>3 DEF IInv, Credit
      <3> QED  BY <2>2, <3>1
    <2>4. CASE buckets[c] # NoBucket
      <3> DEFINE last == buckets[c].last_check
      <3>1. last \in Nat /\ buckets[c].tokens \in Nat /\ last <= clock
        BY <2>4 DEF IInv, TypeOK, Credit, Bucket
      <3>2. Rate * (last + rewound[c]) <= Rate * (clock + rewound[c])
        BY <2>1, <3>1, Monotone
      <3>3. Rate * (last + rewound[c]) \in Nat  BY <2>1, <3>1, Distribute
      <3>4. One * granted[c] + buckets[c].tokens
              <= One * MaxBurst + Rate * (last + rewound[c])
        BY <2>4 DEF IInv, Credit
      <3> QED  BY <2>2, <3>1, <3>2, <3>3, <3>4
    <2> QED  BY <2>3, <2>4
  <1> QED  BY <1>1, Inductive, PTL

(* With positive bursts no client is denied before it was granted.         *)
THEOREM LimitReqFirstGrant == Spec => []NoDenialBeforeGrant
  <1>1. IInv /\ Visited => NoDenialBeforeGrant
    BY LimitReqAssumption DEF IInv, FirstGrant, Visited, NoDenialBeforeGrant
  <1> QED  BY <1>1, Inductive, PTL
=============================================================================
