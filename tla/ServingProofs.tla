--------------------------- MODULE ServingProofs ---------------------------
(***************************************************************************)
(* From the configuration to the answer, for every configuration, request, *)
(* file system and backend: theorems about the modules Serving, Routing    *)
(* and Exchange, with the inductive invariants they need.                  *)
(***************************************************************************)
EXTENDS Serving, TLAPS, NaturalsInduction, WellFoundedInduction, FiniteSetTheorems,
        SequenceTheorems, FunctionTheorems

-----------------------------------------------------------------------------
(***************************************************************************)
(* Induction and folds.  FoldLeft and FlattenSeq choose a function that    *)
(* satisfies a recursive equation: what the proofs need is that there is   *)
(* one, and how it goes on from one element to the next.                   *)
(***************************************************************************)

(* A set of numbers that is not empty has a least one.                     *)
LEMMA HasLeast ==
  ASSUME NEW S, S \subseteq Nat, S # {}
  PROVE  \E x \in S : \A y \in S : x <= y
  <1> DEFINE less == OpToRel(<, Nat)
  <1>1. IsWellFoundedOn(less, Nat)
    BY NatLessThanWellFounded
  <1>2. \A x, y \in Nat : y < x => <<y, x>> \in less
    BY DEF OpToRel
  <1> HIDE DEF less
  <1>3. PICK x \in S : \A y \in S : ~ (<<y, x>> \in less)
    BY <1>1, WFMin
  <1>4. \A y \in S : ~(y < x)
    BY <1>2, <1>3, Zenon
  <1> QED  BY <1>4

(* Induction up to n.                                                      *)
LEMMA InductionUpTo ==
  ASSUME NEW n \in Nat, NEW Q, 0 \in Q, \A k \in 0..n - 1 : k \in Q => k + 1 \in Q
  PROVE  \A k \in 0..n : k \in Q
  <1> DEFINE bad == {k \in 0..n : k \notin Q}
  <1> SUFFICES ASSUME bad # {} PROVE FALSE
    OBVIOUS
  <1>1. bad \subseteq Nat
    OBVIOUS
  <1>2. PICK k \in bad : \A j \in bad : k <= j
    <2> HIDE DEF bad
    <2> QED  BY <1>1, HasLeast
  <1>3. k # 0 /\ k - 1 \in 0..n - 1
    BY <1>2
  <1>4. k - 1 \in Q
    BY <1>2, <1>3
  <1> QED  BY <1>2, <1>3, <1>4

(* The least and the greatest of some numbers.                             *)
LEMMA MinOf ==
  ASSUME NEW S, S \subseteq Nat, S # {}
  PROVE  Min(S) \in S /\ \A y \in S : Min(S) <= y
  BY HasLeast DEF Min

(* The greatest of some numbers up to k, k among them, is k.               *)
LEMMA MaxOfUpTo ==
  ASSUME NEW k \in Nat \ {0}, NEW s \in SUBSET (1..k), k \in s
  PROVE  Max(s) = k
  <1>1. \A y \in s : k >= y
    OBVIOUS
  <1>2. Max(s) \in s /\ \A y \in s : Max(s) >= y
    BY <1>1 DEF Max
  <1>3. Max(s) \in 1..k /\ Max(s) >= k
    BY <1>2
  <1> QED  BY <1>3

(* The greatest of some numbers is one of them.                            *)
LEMMA MaxBelongs ==
  ASSUME NEW n \in Nat, NEW s \in SUBSET (1..n), s # {}
  PROVE  Max(s) \in s /\ \A y \in s : Max(s) >= y
  <1> DEFINE m == {n - y : y \in s}
  <1>1. m \subseteq Nat /\ m # {}
    <2>1. \A y \in s : n - y \in Nat
      OBVIOUS
    <2>2. PICK y \in s : TRUE
      OBVIOUS
    <2>3. n - y \in m
      OBVIOUS
    <2> QED  BY <2>1, <2>3
  <1>2. PICK x \in m : \A y \in m : x <= y
    <2> HIDE DEF m
    <2> QED  BY <1>1, HasLeast
  <1>3. PICK z \in s : x = n - z
    BY <1>2
  <1>4. ASSUME NEW y \in s PROVE z >= y
    <2>1. n - y \in m
      OBVIOUS
    <2>2. n - z <= n - y
      <3> HIDE DEF m
      <3> QED  BY <1>2, <1>3, <2>1
    <2> QED  BY <2>2
  <1> QED  BY <1>3, <1>4 DEF Max

(* A step from element to element folds over the sets of elements.         *)
Folds(g, n, base, st) ==
  \A s \in SUBSET (1..n) : g[s] = IF s = {} THEN base ELSE st[<<Max(s), g[s \ {Max(s)}]>>]

(* There is a function that folds the numbers of every set, the greatest   *)
(* last: built from that for the sets up to k - 1.                         *)
LEMMA FoldExists ==
  ASSUME NEW n \in Nat, NEW X, NEW base \in X, NEW st \in [(1..n) \X X -> X]
  PROVE  \E g \in [SUBSET (1..n) -> X] : Folds(g, n, base, st)
  <1> DEFINE Q == {k \in 0..n : \E g \in [SUBSET (1..k) -> X] : Folds(g, k, base, st)}
  <1>1. 0 \in Q
    <2> DEFINE g == [s \in SUBSET (1..0) |-> base]
    <2>1. \A s \in SUBSET (1..0) : s = {}
      OBVIOUS
    <2>2. g \in [SUBSET (1..0) -> X] /\ Folds(g, 0, base, st)
      BY <2>1 DEF Folds
    <2> QED  BY <2>2
  <1>2. ASSUME NEW k \in 0..n - 1, k \in Q PROVE k + 1 \in Q
    <2>1. PICK g \in [SUBSET (1..k) -> X] : Folds(g, k, base, st)
      BY <1>2
    <2> DEFINE h == [s \in SUBSET (1..k + 1) |->
                       IF k + 1 \notin s THEN g[s] ELSE st[<<k + 1, g[s \ {k + 1}]>>]]
    <2>2. ASSUME NEW s \in SUBSET (1..k + 1)
          PROVE  /\ k + 1 \notin s => s \in SUBSET (1..k)
                 /\ s \ {k + 1} \in SUBSET (1..k)
      OBVIOUS
    <2>3. h \in [SUBSET (1..k + 1) -> X]
      <3>1. ASSUME NEW s \in SUBSET (1..k + 1)
            PROVE  (IF k + 1 \notin s THEN g[s] ELSE st[<<k + 1, g[s \ {k + 1}]>>]) \in X
        <4>1. CASE k + 1 \notin s
          BY <2>2, <4>1
        <4>2. CASE k + 1 \in s
          <5>1. g[s \ {k + 1}] \in X /\ k + 1 \in 1..n
            BY <2>2
          <5> QED  BY <4>2, <5>1
        <4> QED  BY <4>1, <4>2
      <3> QED  BY <3>1
    <2>4. ASSUME NEW s \in SUBSET (1..k + 1)
          PROVE  h[s] = IF s = {} THEN base ELSE st[<<Max(s), h[s \ {Max(s)}]>>]
      <3>1. CASE k + 1 \in s
        <4>1. Max(s) = k + 1
          BY <3>1, MaxOfUpTo
        <4>2. h[s \ {k + 1}] = g[s \ {k + 1}]
          OBVIOUS
        <4>3. h[s] = st[<<k + 1, g[s \ {k + 1}]>>]
          BY <3>1
        <4> HIDE DEF h
        <4> QED  BY <3>1, <4>1, <4>2, <4>3
      <3>2. CASE k + 1 \notin s /\ s # {}
        <4>1. s \in SUBSET (1..k)
          BY <2>2, <3>2
        <4>2. Max(s) \in s
          <5>1. k \in Nat
            OBVIOUS
          <5> QED  BY <3>2, <4>1, <5>1, MaxBelongs
        <4>3. s \ {Max(s)} \in SUBSET (1..k) /\ k + 1 \notin s \ {Max(s)}
          BY <3>2, <4>1
        <4>4. h[s] = g[s] /\ h[s \ {Max(s)}] = g[s \ {Max(s)}]
          <5> HIDE DEF Folds
          <5>1. s \ {Max(s)} \in SUBSET (1..k + 1)
            BY <4>3
          <5> QED  BY <3>2, <4>3, <5>1
        <4>5. g[s] = st[<<Max(s), g[s \ {Max(s)}]>>]
          BY <2>1, <3>2, <4>1 DEF Folds
        <4> HIDE DEF h
        <4> QED  BY <3>2, <4>4, <4>5
      <3>3. CASE s = {}
        <4>1. h[s] = g[s] /\ g[s] = base
          BY <2>1, <3>3 DEF Folds
        <4> QED  BY <3>3, <4>1
      <3> QED  BY <3>1, <3>2, <3>3
    <2> HIDE DEF h
    <2>5. Folds(h, k + 1, base, st)
      BY <2>4 DEF Folds
    <2>6. k + 1 \in 0..n
      OBVIOUS
    <2> QED  BY <2>3, <2>5, <2>6
  <1>3. \A k \in 0..n : k \in Q
    <2> HIDE DEF Q
    <2> QED  BY <1>1, <1>2, InductionUpTo
  <1>4. n \in Q
    <2> HIDE DEF Q
    <2> QED  BY <1>3
  <1> QED  BY <1>4

(* The sum of a sequence of numbers, from number to number.                *)
LEMMA SumBySteps ==
  ASSUME NEW n \in Nat, NEW seq \in [1..n -> Nat]
  PROVE  \E f \in [0..n -> Nat] :
           /\ f[0] = 0 /\ \A k \in 1..n : f[k] = f[k - 1] + seq[k]
           /\ FoldLeft(LAMBDA a, b : a + b, 0, seq) = f[n]
  <1> DEFINE sum == CHOOSE g : g = [s \in SUBSET DOMAIN seq |->
                      IF s = {} THEN 0 ELSE g[s \ {Max(s)}] + seq[Max(s)]]
             st == [p \in (1..n) \X Nat |-> p[2] + seq[p[1]]]
  <1>1. FoldLeft(LAMBDA a, b : a + b, 0, seq) = sum[DOMAIN seq]
    BY DEF FoldLeft, MapThenFoldSet
  <1>2. DOMAIN seq = 1..n
    OBVIOUS
  <1>3. PICK g \in [SUBSET (1..n) -> Nat] : Folds(g, n, 0, st)
    <2>1. st \in [(1..n) \X Nat -> Nat]
      OBVIOUS
    <2> HIDE DEF st
    <2> QED  BY <2>1, FoldExists
  <1>4. ASSUME NEW s \in SUBSET (1..n)
        PROVE  g[s] = IF s = {} THEN 0 ELSE g[s \ {Max(s)}] + seq[Max(s)]
    <2>1. CASE s = {}
      BY <1>3, <2>1 DEF Folds
    <2>2. CASE s # {}
      <3>1. Max(s) \in 1..n /\ s \ {Max(s)} \in SUBSET (1..n)
        BY <2>2, MaxBelongs
      <3>2. g[s \ {Max(s)}] \in Nat
        BY <3>1
      <3>3. st[<<Max(s), g[s \ {Max(s)}]>>] = g[s \ {Max(s)}] + seq[Max(s)]
        BY <3>1, <3>2
      <3>4. g[s] = st[<<Max(s), g[s \ {Max(s)}]>>]
        BY <1>3, <2>2 DEF Folds
      <3> QED  BY <2>2, <3>3, <3>4
    <2> QED  BY <2>1, <2>2
  <1>5. g = [s \in SUBSET DOMAIN seq |->
               IF s = {} THEN 0 ELSE g[s \ {Max(s)}] + seq[Max(s)]]
    BY <1>2, <1>4
  <1>6. sum = [s \in SUBSET (1..n) |-> IF s = {} THEN 0 ELSE sum[s \ {Max(s)}] + seq[Max(s)]]
    BY <1>2, <1>5
  <1> HIDE DEF sum, st
  <1> DEFINE f == [k \in 0..n |-> sum[1..k]]
             Q == {k \in 0..n : f[k] \in Nat}
  <1>7. f[0] = 0
    <2>1. 1..0 = {} /\ 1..0 \in SUBSET (1..n)
      OBVIOUS
    <2> QED  BY <1>6, <2>1
  <1>8. ASSUME NEW k \in 1..n PROVE f[k] = f[k - 1] + seq[k]
    <2>1. Max(1..k) = k
      BY MaxOfUpTo
    <2>2. (1..k) \ {k} = 1..k - 1 /\ 1..k # {} /\ 1..k \in SUBSET (1..n)
      OBVIOUS
    <2>3. sum[1..k] = sum[1..k - 1] + seq[k]
      BY <1>6, <2>1, <2>2
    <2> QED  BY <2>3
  <1>9. \A k \in 0..n : k \in Q
    <2>1. 0 \in Q
      BY <1>7
    <2>2. ASSUME NEW k \in 0..n - 1, k \in Q PROVE k + 1 \in Q
      <3>1. f[k + 1] = f[k] + seq[k + 1]
        <4>1. k + 1 \in 1..n /\ (k + 1) - 1 = k
          OBVIOUS
        <4> HIDE DEF f
        <4> QED  BY <1>8, <4>1
      <3> QED  BY <2>2, <3>1
    <2> HIDE DEF Q
    <2> QED  BY <2>1, <2>2, InductionUpTo
  <1>10. f \in [0..n -> Nat]
    BY <1>9
  <1>11. f[n] = sum[DOMAIN seq]
    BY <1>2
  <1> HIDE DEF f
  <1> QED  BY <1>1, <1>7, <1>8, <1>10, <1>11

-----------------------------------------------------------------------------
(***************************************************************************)
(* The request: all of a body arrives                                      *)
(***************************************************************************)

(* Division by a positive number.                                          *)
LEMMA Division ==
  ASSUME NEW a \in Nat, NEW c \in Nat \ {0}
  PROVE  /\ a \div c \in Nat /\ a % c \in 0..c - 1
         /\ a = (a \div c) * c + (a % c)
  OBVIOUS

(* A remainder, of a negative number too.                                  *)
LEMMA RemainderRange ==
  ASSUME NEW a \in Int, NEW c \in Nat \ {0}
  PROVE  a % c \in 0..c - 1
  OBVIOUS

(* Products of naturals.                                                   *)
LEMMA Products ==
  ASSUME NEW k \in Nat, NEW j \in Nat, NEW c \in Nat
  PROVE  /\ k * c \in Nat /\ (k + 1) * c = k * c + c
         /\ k <= j => k * c <= j * c
  OBVIOUS

(* The remainder, when the quotient is known.                              *)
LEMMA Remainder ==
  ASSUME NEW a \in Nat, NEW c \in Nat \ {0}, NEW k \in Nat, k * c <= a, a < k * c + c
  PROVE  a % c = a - k * c
  <1> DEFINE q == a \div c
  <1>1. q \in Nat /\ a % c \in 0..c - 1 /\ a = q * c + (a % c)
    BY Division
  <1> HIDE DEF q
  <1>2. /\ k * c \in Nat /\ q * c \in Nat /\ (k + 1) * c = k * c + c /\ (q + 1) * c = q * c + c
        /\ k + 1 <= q => (k + 1) * c <= q * c
        /\ q + 1 <= k => (q + 1) * c <= k * c
    BY <1>1, Products
  <1>3. ~(k + 1 <= q)
    BY <1>1, <1>2
  <1>4. ~(q + 1 <= k)
    BY <1>1, <1>2
  <1>5. q = k
    BY <1>1, <1>3, <1>4
  <1>6. a - k * c = a % c
    BY <1>1, <1>2, <1>5
  <1> QED  BY <1>6

(* Every record of a body but the last has something in it, and all of     *)
(* them together have the whole body.                                      *)
LEMMA RecordsWhole ==
  ASSUME NEW n \in Nat
  PROVE  Stdin(Records(n)) = n
  <1> DEFINE K == (n + Chunk - 1) \div Chunk
             cut == [k \in 1..K |-> (IF k * Chunk <= n THEN Chunk ELSE n % Chunk) % RecordWidth]
             part == [k \in 0..K |-> IF k * Chunk <= n THEN k * Chunk ELSE n]
  <1>1. Chunk \in Nat \ {0} /\ RecordWidth \in Nat \ {0} /\ Chunk < RecordWidth
    BY ExchangeAssumption
  <1>2. K \in Nat /\ n <= K * Chunk /\ K * Chunk < n + Chunk /\ K * Chunk \in Nat
    <2>1. n + Chunk - 1 \in Nat
      BY <1>1
    <2>2. /\ K \in Nat /\ (n + Chunk - 1) % Chunk \in 0..Chunk - 1
          /\ n + Chunk - 1 = K * Chunk + ((n + Chunk - 1) % Chunk)
      BY <1>1, <2>1, Division
    <2>3. K * Chunk \in Nat
      <3> HIDE DEF K
      <3> QED  BY <1>1, <2>2, Products
    <2> HIDE DEF K
    <2> QED  BY <1>1, <2>2, <2>3
  <1> HIDE DEF K
  <1>3. ASSUME NEW k \in 1..K
        PROVE  /\ cut[k] \in Nat \ {0}
               /\ part[k] = part[k - 1] + cut[k]
    <2>1. PICK j \in Nat : k = j + 1
      <3>1. k - 1 \in Nat /\ k = (k - 1) + 1
        OBVIOUS
      <3> QED  BY <3>1
    <2>2. /\ j * Chunk \in Nat /\ k * Chunk = j * Chunk + Chunk
          /\ k * Chunk <= K * Chunk
      BY <1>1, <1>2, <2>1, Products
    <2>3. j * Chunk < n
      BY <1>1, <1>2, <2>2
    <2>4. part[k - 1] = j * Chunk
      <3>1. k - 1 = j /\ j \in 0..K /\ j * Chunk <= n
        BY <1>2, <2>1, <2>2, <2>3
      <3>2. part[j] = j * Chunk
        BY <3>1
      <3> HIDE DEF part
      <3> QED  BY <3>1, <3>2
    <2>5. \A v \in Nat : v < RecordWidth => v % RecordWidth = v
      <3>1. \A v \in Nat : 0 * RecordWidth <= v /\ v < RecordWidth => v < 0 * RecordWidth + RecordWidth
        BY <1>1
      <3> QED  BY <1>1, Remainder
    <2>6. CASE k * Chunk <= n
      <3>1. cut[k] = Chunk % RecordWidth
        BY <2>6
      <3>2. cut[k] = Chunk
        BY <1>1, <2>5, <3>1
      <3>3. part[k] = k * Chunk
        BY <2>6
      <3> QED  BY <1>1, <2>2, <2>4, <3>2, <3>3
    <2>7. CASE ~(k * Chunk <= n)
      <3>1. n % Chunk = n - j * Chunk
        <4>1. j * Chunk <= n /\ n < j * Chunk + Chunk
          BY <1>1, <2>2, <2>3, <2>7
        <4> QED  BY <1>1, <4>1, Remainder
      <3>2. cut[k] = (n - j * Chunk) % RecordWidth
        BY <2>7, <3>1
      <3>3. n - j * Chunk \in Nat \ {0} /\ n - j * Chunk < RecordWidth
        BY <1>1, <2>2, <2>3, <2>7
      <3>4. cut[k] = n - j * Chunk
        BY <2>5, <3>2, <3>3
      <3>5. part[k] = n
        BY <2>7
      <3> QED  BY <2>2, <2>4, <3>3, <3>4, <3>5
    <2> QED  BY <2>6, <2>7
  <1>4. cut \in [1..K -> Nat] /\ cut \in Seq(Nat) /\ Len(cut) = K
    <2>1. \A k \in 1..K : cut[k] \in Nat
      BY <1>3
    <2>2. cut \in [1..K -> Nat]
      BY <2>1
    <2> HIDE DEF cut
    <2> QED  BY <1>2, <2>2
  <1>5. Records(n) = Append(cut, 0)
    BY DEF Records, K
  <1>6. part[0] = 0 /\ part[K] = n
    <2>1. 0 * Chunk = 0
      BY <1>1
    <2> QED  BY <1>2, <2>1
  <1> HIDE DEF cut, part
  <1> DEFINE all == Append(cut, 0)
             zeros == {i \in 1..Len(all) : all[i] = 0}
  <1>7. /\ all \in Seq(Nat) /\ Len(all) = K + 1 /\ all[K + 1] = 0
        /\ \A k \in 1..K : all[k] = cut[k]
    BY <1>2, <1>4, AppendProperties
  <1> HIDE DEF all
  <1>8. SelectInSeq(all, LAMBDA m : m = 0) = K + 1
    <2>1. zeros = {K + 1}
      BY <1>2, <1>3, <1>7
    <2>2. SelectInSeq(all, LAMBDA m : m = 0) = IF zeros # {} THEN Min(zeros) ELSE 0
      BY DEF SelectInSeq
    <2>3. Min({K + 1}) = K + 1
      BY <1>2, MinOf
    <2> HIDE DEF zeros
    <2> QED  BY <2>1, <2>2, <2>3
  <1>9. SubSeq(all, 1, (K + 1) - 1) = cut
    <2>1. /\ SubSeq(all, 1, K) \in Seq(Nat) /\ Len(SubSeq(all, 1, K)) = K
          /\ \A i \in 1..K : SubSeq(all, 1, K)[i] = all[i]
      BY <1>2, <1>7
    <2>2. SubSeq(all, 1, K) = cut
      BY <1>4, <1>7, <2>1, SeqEqual
    <2>3. (K + 1) - 1 = K
      BY <1>2
    <2> QED  BY <2>2, <2>3
  <1>10. Stdin(all) = FoldLeft(LAMBDA a, b : a + b, 0, cut)
    BY <1>8, <1>9 DEF Stdin
  <1>11. PICK f \in [0..K -> Nat] :
           /\ f[0] = 0 /\ \A k \in 1..K : f[k] = f[k - 1] + cut[k]
           /\ FoldLeft(LAMBDA a, b : a + b, 0, cut) = f[K]
    BY <1>2, <1>4, SumBySteps
  <1> DEFINE Q == {k \in 0..K : f[k] = part[k]}
  <1>12. \A k \in 0..K : k \in Q
    <2>1. 0 \in Q
      <3>1. 0 \in 0..K
        BY <1>2
      <3>2. f[0] = part[0]
        <4>1. f[0] = 0
          BY <1>11
        <4> QED  BY <1>6, <4>1
      <3> QED  BY <3>1, <3>2
    <2>2. ASSUME NEW k \in 0..K - 1, k \in Q PROVE k + 1 \in Q
      <3>1. k + 1 \in 1..K /\ (k + 1) - 1 = k
        BY <1>2
      <3>2. f[k + 1] = f[k] + cut[k + 1] /\ part[k + 1] = part[k] + cut[k + 1]
        BY <1>3, <1>11, <3>1
      <3> QED  BY <2>2, <3>1, <3>2
    <2> HIDE DEF Q
    <2> QED  BY <1>2, <2>1, <2>2, InductionUpTo
  <1>13. f[K] = n
    BY <1>2, <1>6, <1>12
  <1> QED  BY <1>5, <1>10, <1>11, <1>13 DEF all
-----------------------------------------------------------------------------
(***************************************************************************)
(* The request at hand                                                     *)
(***************************************************************************)

JobFields == {"at", "req", "came", "path", "server", "location", "file", "n", "meta", "part", "page",
              "raced", "answer"}
Early   == {"idle", "route", "authorize", "limit", "dispatch"}
Looking == {"resolve", "try", "directory", "index", "exists", "within", "metadata", "read"}

(* Files come and go, but under the paths there are.                       *)
FilesTyped ==
  /\ DOMAIN files = DOMAIN Disk
  /\ \A p \in DOMAIN files : files[p] \in [kind : {"file", "dir", "none"}, size : Nat, mtime : Nat]

(* How much of a request one read brought: over HTTP/2 its whole body.     *)
Whole(j) == j.came \in Nat /\ (j.req.h2 => j.came = j.req.length)

Shape(j) ==
  /\ DOMAIN j = JobFields
  /\ j.at \in Ats /\ j.raced \in BOOLEAN
  /\ j.at # "idle" => j.req \in Requests /\ Whole(j)

(* A request looks at files or asks a backend, never both.                 *)
Apart(j) ==
  /\ j.at \in Early \cup Looking => exchange = NoExchange
  /\ j.at \in Early \cup {"exchange"} => j.file = <<>> /\ j.page = <<>>
  /\ j.file # <<>> => exchange = NoExchange

(* What is known of an answer: how long its body is.                       *)
IsAnswer(a) == DOMAIN a = {"status", "length", "body", "of"} /\ a.body \in Nat

(* The answer a page is looked up for is whole by itself.                  *)
PageKept(j) == j.page = <<>> \/ \E a : j.page = <<a>> /\ IsAnswer(a) /\ a.length = a.body

(* When the file is read its metadata is the file's, unless it changed; a  *)
(* range is not empty.                                                     *)
Looked(j) ==
  j.at = "read" =>
    /\ j.raced \/ Entry(j.file) = j.meta
    /\ j.part = <<>> \/ \E a, b \in Nat : j.part = <<a, b>> /\ a <= b

(* The length an answer tells is that of its body, or it has none, or it   *)
(* is a whole file that changed under way.                                 *)
Honest(j, a) == a.length = a.body \/ a.of = "head" \/ (j.raced /\ j.part = <<>>)
Answered(j) ==
  /\ j.at = "compress" /\ j.file # <<>> => IsAnswer(j.answer) /\ Honest(j, j.answer)
  /\ j.at = "done" /\ j.file # <<>> => Honest(j, j.answer)

Fine(j) == Shape(j) /\ Apart(j) /\ PageKept(j) /\ Looked(j) /\ Answered(j)
JobInv == FilesTyped /\ Fine(job)

(* The request at hand does not see what the parser or the exchange does.  *)
LEMMA OthersKeep ==
  ASSUME JobInv, UNCHANGED <<files, job>>, UNCHANGED exchange \/ exchange # NoExchange
  PROVE  JobInv'
  <1>1. FilesTyped' /\ Shape(job)' /\ PageKept(job)' /\ Looked(job)' /\ Answered(job)'
    BY DEF JobInv, Fine, Shape, Whole, FilesTyped, PageKept, Looked, Answered, Honest, IsAnswer, Entry
  <1>2. Apart(job)'
    BY DEF JobInv, Fine, Apart
  <1> QED  BY <1>1, <1>2 DEF JobInv, Fine

(* A step of the handler leaves the files and the exchange as they are.    *)
LEMMA JobKeeps ==
  ASSUME JobInv, NEW j, Job(j), Fine(j)
  PROVE  JobInv'
  <1>1. job' = j /\ files' = files /\ exchange' = exchange
    BY DEF Job
  <1>2. FilesTyped' /\ Shape(job)' /\ PageKept(job)' /\ Looked(job)' /\ Answered(job)'
    BY <1>1
       DEF JobInv, Fine, Shape, Whole, FilesTyped, PageKept, Looked, Answered, Honest, IsAnswer, Entry
  <1>3. Apart(job)'
    BY <1>1 DEF Fine, Apart
  <1> QED  BY <1>2, <1>3 DEF JobInv, Fine

(* The end: the answer is sent, which is a backend's or is honest.         *)
LEMMA FinishKeeps ==
  ASSUME JobInv, NEW a, Finish(a), job.at # "idle",
         job.file = <<>> \/ Honest(job, a)
  PROVE  JobInv'
  <1> DEFINE b == Bridged(a)
             j == [job EXCEPT !.at = "done", !.answer = b]
  <1>1. Job(j)
    BY DEF Finish
  <1>2. job.file # <<>> => b = a
    <2>1. NoExchange.msg.odd = FALSE
      BY DEF NoExchange, NoMessage
    <2>2. ASSUME exchange = NoExchange PROVE b = a
      <3>1. exchange.msg.odd = FALSE
        BY <2>1, <2>2
      <3> QED  BY <3>1 DEF Bridged
    <2> QED  BY <2>2 DEF JobInv, Fine, Apart
  <1> HIDE DEF b
  <1>3. Shape(job) /\ Apart(job) /\ PageKept(job)
    BY DEF JobInv, Fine
  <1>4. /\ j.at = "done" /\ j.answer = b /\ j.req = job.req /\ j.came = job.came /\ j.file = job.file
        /\ j.page = job.page /\ j.raced = job.raced /\ j.part = job.part
        /\ DOMAIN j = JobFields
    BY <1>3 DEF JobFields, Shape, Whole
  <1>5. Fine(j)
    <2> HIDE DEF j
    <2>1. Shape(j) /\ PageKept(j) /\ Looked(j)
      BY <1>3, <1>4 DEF Shape, Whole, PageKept, Looked, Ats
    <2>2. Apart(j)
      BY <1>3, <1>4 DEF Apart, Early, Looking
    <2>3. Answered(j)
      BY <1>2, <1>4 DEF Answered, Honest
    <2> QED  BY <2>1, <2>2, <2>3 DEF Fine
  <1> HIDE DEF j
  <1> QED  BY <1>1, <1>5, JobKeeps

(* A step from where no file was looked at.                                *)
LEMMA EarlyKeeps ==
  ASSUME JobInv, NEW j, Job(j), DOMAIN j = JobFields,
         job.at \in Early, j.at \in Ats \ {"idle", "read"}, j.req \in Requests, Whole(j),
         j.raced \in BOOLEAN, j.file = <<>>, j.page = <<>>
  PROVE  JobInv'
  <1>1. exchange = NoExchange
    BY DEF JobInv, Fine, Apart
  <1>2. Shape(j) /\ PageKept(j) /\ Looked(j)
    BY DEF Shape, Whole, PageKept, Looked
  <1>3. Apart(j) /\ Answered(j)
    BY <1>1 DEF Apart, Answered
  <1> QED  BY <1>2, <1>3, JobKeeps DEF Fine

(* A step from file to file.                                               *)
LEMMA LookingKeeps ==
  ASSUME JobInv, NEW j, Job(j), DOMAIN j = JobFields,
         job.at \in Looking, j.at \in Looking \ {"read"},
         j.req = job.req /\ j.came = job.came, j.raced = job.raced, PageKept(j)
  PROVE  JobInv'
  <1>1. exchange = NoExchange
    BY DEF JobInv, Fine, Apart
  <1>2. Shape(j) /\ Looked(j)
    BY DEF JobInv, Fine, Shape, Whole, Looked, Looking, Ats
  <1>3. Apart(j) /\ Answered(j)
    BY <1>1 DEF Apart, Answered, Early, Looking
  <1> QED  BY <1>2, <1>3, JobKeeps DEF Fine

(* An answer made of a file, or an error: with or without a page for it.   *)
LEMMA ServeKeeps ==
  ASSUME JobInv, job.at \in Looking, NEW a, IsAnswer(a), Honest(job, a), Serve(a),
         a.of = "error" => a.length = a.body
  PROVE  JobInv'
  <1>1. /\ DOMAIN job = JobFields /\ job.req \in Requests /\ Whole(job) /\ job.raced \in BOOLEAN
        /\ PageKept(job) /\ exchange = NoExchange
    BY DEF JobInv, Fine, Shape, Whole, Apart, Looking
  <1>2. ASSUME NEW b, IsAnswer(b), Honest(job, b), Job([job EXCEPT !.at = "compress", !.answer = b])
        PROVE  JobInv'
    <2> DEFINE j == [job EXCEPT !.at = "compress", !.answer = b]
    <2>1. /\ j.at = "compress" /\ j.answer = b /\ j.req = job.req /\ j.came = job.came /\ j.file = job.file
          /\ j.page = job.page /\ j.raced = job.raced /\ j.part = job.part
          /\ DOMAIN j = JobFields
      BY <1>1 DEF JobFields
    <2>2. Job(j)
      BY <1>2
    <2> HIDE DEF j
    <2>3. Shape(j) /\ PageKept(j) /\ Looked(j) /\ Apart(j) /\ Answered(j)
      BY <1>1, <1>2, <2>1
         DEF Shape, Whole, PageKept, Looked, Apart, Answered, Honest, Ats, Early, Looking
    <2> QED  BY <2>2, <2>3, JobKeeps DEF Fine
  <1>3. CASE Page
    <2>1. PICK c : job.page = <<c>> /\ IsAnswer(c) /\ c.length = c.body
      BY <1>1, <1>3 DEF Page, PageKept
    <2> DEFINE d == [a EXCEPT !.status = c.status]
    <2>2. /\ IsAnswer(d) /\ Honest(job, d)
          /\ IsAnswer(c) /\ Honest(job, c)
      BY <2>1 DEF IsAnswer, Honest
    <2>3. job.page[1] = c
      BY <2>1
    <2>4. \/ Job([job EXCEPT !.at = "compress", !.answer = d])
          \/ Job([job EXCEPT !.at = "compress", !.answer = c])
      BY <1>3, <2>3 DEF Serve
    <2> HIDE DEF d
    <2> QED  BY <1>2, <2>2, <2>4
  <1>4. CASE ~Page /\ a.of = "error" /\ PagesFor(a.status) # <<>>
    <2> DEFINE to == PagesFor(a.status)[1][2]
               j == [job EXCEPT !.at = "resolve", !.path = to, !.page = <<a>>, !.n = 1]
    <2>1. Job(j)
      BY <1>4 DEF Serve
    <2> HIDE DEF to
    <2>2. /\ j.at = "resolve" /\ j.req = job.req /\ j.came = job.came /\ j.raced = job.raced /\ j.page = <<a>>
          /\ DOMAIN j = JobFields
      BY <1>1 DEF JobFields
    <2> HIDE DEF j
    <2>3. PageKept(j)
      BY <1>4, <2>2 DEF PageKept
    <2>4. j.at \in Looking \ {"read"}
      BY <2>2 DEF Looking
    <2> QED  BY <2>1, <2>2, <2>3, <2>4, LookingKeeps
  <1>5. CASE ~Page /\ ~(a.of = "error" /\ PagesFor(a.status) # <<>>)
    <2>1. Job([job EXCEPT !.at = "compress", !.answer = a])
      BY <1>5 DEF Serve
    <2> QED  BY <1>2, <2>1
  <1> QED  BY <1>3, <1>4, <1>5

(* An error has its own text.                                              *)
LEMMA FailKeeps ==
  ASSUME JobInv, job.at \in Looking, NEW status, Fail(status)
  PROVE  JobInv'
  <1>1. /\ IsAnswer(ErrorAnswer(status)) /\ Honest(job, ErrorAnswer(status))
        /\ ErrorAnswer(status).length = ErrorAnswer(status).body
    BY ServingAssumption DEF ErrorAnswer, Answer, IsAnswer, Honest
  <1> QED  BY <1>1, ServeKeeps DEF Fail
-----------------------------------------------------------------------------
(* Steps of the handler that look at files.                                *)

(* The next step, the next path, or the next entry of a list.              *)
LEMMA MovedKeeps ==
  ASSUME JobInv, job.at \in Looking, NEW to \in Looking \ {"read"}, NEW f, NEW n,
         \/ Job([job EXCEPT !.at = to])
         \/ Job([job EXCEPT !.at = to, !.file = f])
         \/ Job([job EXCEPT !.at = to, !.file = f, !.n = n])
         \/ job.at # "read" /\ Job([job EXCEPT !.n = n])
  PROVE  JobInv'
  <1>1. DOMAIN job = JobFields /\ PageKept(job)
    BY DEF JobInv, Fine, Shape, Whole
  <1>2. PICK j : /\ Job(j) /\ j.at \in Looking \ {"read"} /\ j.req = job.req /\ j.came = job.came
                 /\ j.raced = job.raced /\ j.page = job.page /\ DOMAIN j = JobFields
    <2>1. CASE Job([job EXCEPT !.at = to])
      <3> DEFINE j == [job EXCEPT !.at = to]
      <3>1. /\ j.at \in Looking \ {"read"} /\ j.req = job.req /\ j.came = job.came /\ j.raced = job.raced
            /\ j.page = job.page /\ DOMAIN j = JobFields
        BY <1>1 DEF JobFields
      <3> QED  BY <2>1, <3>1
    <2>2. CASE Job([job EXCEPT !.at = to, !.file = f])
      <3> DEFINE j == [job EXCEPT !.at = to, !.file = f]
      <3>1. /\ j.at \in Looking \ {"read"} /\ j.req = job.req /\ j.came = job.came /\ j.raced = job.raced
            /\ j.page = job.page /\ DOMAIN j = JobFields
        BY <1>1 DEF JobFields
      <3> QED  BY <2>2, <3>1
    <2>3. CASE Job([job EXCEPT !.at = to, !.file = f, !.n = n])
      <3> DEFINE j == [job EXCEPT !.at = to, !.file = f, !.n = n]
      <3>1. /\ j.at \in Looking \ {"read"} /\ j.req = job.req /\ j.came = job.came /\ j.raced = job.raced
            /\ j.page = job.page /\ DOMAIN j = JobFields
        BY <1>1 DEF JobFields
      <3> QED  BY <2>3, <3>1
    <2>4. CASE job.at # "read" /\ Job([job EXCEPT !.n = n])
      <3> DEFINE j == [job EXCEPT !.n = n]
      <3>1. /\ j.at \in Looking \ {"read"} /\ j.req = job.req /\ j.came = job.came /\ j.raced = job.raced
            /\ j.page = job.page /\ DOMAIN j = JobFields
        BY <1>1, <2>4 DEF JobFields
      <3> QED  BY <2>4, <3>1
    <2> QED  BY <2>1, <2>2, <2>3, <2>4
  <1>3. PageKept(j)
    BY <1>1, <1>2 DEF PageKept
  <1> QED  BY <1>2, <1>3, LookingKeeps

(* serve_path is called with a path: nothing is known of the file yet.     *)
LEMMA LookAtKeeps ==
  ASSUME JobInv, job.at \in Looking, NEW f, LookAt(f)
  PROVE  JobInv'
  <1>1. "directory" \in Looking \ {"read"}
    BY DEF Looking
  <1>2. Job([job EXCEPT !.at = "directory", !.file = f, !.n = 1])
    BY DEF LookAt
  <1> QED  BY <1>1, <1>2, MovedKeeps

(* serve_static: the path is resolved, or an error is answered.            *)
LEMMA ResolveKeeps == JobInv /\ Resolve => JobInv'
  <1> SUFFICES ASSUME JobInv, Resolve PROVE JobInv'
    OBVIOUS
  <1>1. job.at \in Looking /\ "try" \in Looking \ {"read"}
    BY DEF Resolve, Looking
  <1>2. \/ \E s : Fail(s)
        \/ Job([job EXCEPT !.at = "try"])
        \/ \E f : LookAt(f)
    BY DEF Resolve
  <1> QED  BY <1>1, <1>2, FailKeeps, MovedKeeps, LookAtKeeps

(* try_files: the next entry is tried, used, or an error answered.         *)
LEMMA TryKeeps == JobInv /\ Try => JobInv'
  <1> SUFFICES ASSUME JobInv, Try PROVE JobInv'
    OBVIOUS
  <1>1. job.at \in Looking /\ job.at # "read" /\ "try" \in Looking \ {"read"}
    BY DEF Try, Looking
  <1>2. \/ \E s : Fail(s)
        \/ \E f : LookAt(f)
        \/ \E n : Job([job EXCEPT !.n = n])
    BY DEF Try
  <1> QED  BY <1>1, <1>2, FailKeeps, MovedKeeps, LookAtKeeps

(* serve_path asks whether the path is a directory.                        *)
LEMMA DirectoryKeeps == JobInv /\ Directory => JobInv'
  <1> SUFFICES ASSUME JobInv, Directory PROVE JobInv'
    OBVIOUS
  <1>1. job.at \in Looking /\ {"index", "exists"} \subseteq Looking \ {"read"}
    BY DEF Directory, Looking
  <1>2. \E to \in {"index", "exists"} : Job([job EXCEPT !.at = to])
    BY DEF Directory
  <1> QED  BY <1>1, <1>2, MovedKeeps

(* The next index file is tried or used, or 403 is answered.               *)
LEMMA IndexKeeps == JobInv /\ Index => JobInv'
  <1> SUFFICES ASSUME JobInv, Index PROVE JobInv'
    OBVIOUS
  <1>1. job.at \in Looking /\ job.at # "read" /\ {"index", "exists"} \subseteq Looking \ {"read"}
    BY DEF Index, Looking
  <1>2. \/ \E s : Fail(s)
        \/ \E f : Job([job EXCEPT !.at = "exists", !.file = f])
        \/ \E n : Job([job EXCEPT !.n = n])
    BY DEF Index
  <1> QED  BY <1>1, <1>2, FailKeeps, MovedKeeps

(* serve_file asks whether the path is a file.                             *)
LEMMA ExistsKeeps == JobInv /\ Exists => JobInv'
  <1> SUFFICES ASSUME JobInv, Exists PROVE JobInv'
    OBVIOUS
  <1>1. job.at \in Looking /\ "within" \in Looking \ {"read"}
    BY DEF Exists, Looking
  <1>2. Fail("404") \/ Job([job EXCEPT !.at = "within"])
    BY DEF Exists
  <1> QED  BY <1>1, <1>2, FailKeeps, MovedKeeps

(* assert_within_root lets the file pass, or 403 is answered.              *)
LEMMA WithinKeeps == JobInv /\ Within => JobInv'
  <1> SUFFICES ASSUME JobInv, Within PROVE JobInv'
    OBVIOUS
  <1>1. job.at \in Looking /\ "metadata" \in Looking \ {"read"}
    BY DEF Within, Looking
  <1>2. Fail("403") \/ Job([job EXCEPT !.at = "metadata"])
    BY DEF Within
  <1> QED  BY <1>1, <1>2, FailKeeps, MovedKeeps

(* A range that is given is one of the file.                               *)
LEMMA RangeInFile ==
  ASSUME NEW r \in Requests, NEW size \in Nat, ParseRange(r.range, size) # <<>>
  PROVE  \E a, b \in Nat : ParseRange(r.range, size) = <<a, b>> /\ a <= b
  <1> DEFINE last == IF r.range.to = -1 THEN (size - 1) % U64 ELSE r.range.to
  <1>1. r.range.from \in Nat \cup {-1} /\ r.range.to \in Nat \cup {-1}
    BY ServingAssumption
  <1>2. CASE r.range.from = -1
    <2>1. /\ ~(r.range.to <= 0 \/ r.range.to > size)
          /\ ParseRange(r.range, size) = <<size - r.range.to, size - 1>>
      BY <1>2 DEF ParseRange
    <2>2. size - r.range.to \in Nat /\ size - 1 \in Nat /\ size - r.range.to <= size - 1
      BY <1>1, <2>1
    <2> QED  BY <2>1, <2>2
  <1>3. CASE r.range.from # -1
    <2>1. /\ ~(r.range.from > last \/ last >= size)
          /\ ParseRange(r.range, size) = <<r.range.from, last>>
      BY <1>3 DEF ParseRange
    <2>2. last \in Nat /\ r.range.from \in Nat
      <3>1. CASE r.range.to = -1
        <4>1. (size - 1) % U64 \in 0..U64 - 1 /\ U64 \in Nat
          <5>1. size - 1 \in Int /\ U64 \in Nat \ {0}
            BY ServingAssumption
          <5> QED  BY <5>1, RemainderRange
        <4> QED  BY <1>1, <1>3, <3>1, <4>1
      <3>2. CASE r.range.to # -1
        BY <1>1, <1>3, <3>2
      <3> QED  BY <3>1, <3>2
    <2> HIDE DEF last
    <2> QED  BY <2>1, <2>2
  <1> QED  BY <1>2, <1>3

(* The metadata, and the answers that need no more.                        *)
LEMMA MetadataKeeps == JobInv /\ Metadata => JobInv'
  <1> SUFFICES ASSUME JobInv, Metadata PROVE JobInv'
    OBVIOUS
  <1> DEFINE e == Entry(job.file)
             part == IF Page THEN <<>> ELSE ParseRange(job.req.range, e.size)
             j == [job EXCEPT !.at = "read", !.meta = e, !.part = part]
  <1>1. /\ job.at = "metadata" /\ job.at \in Looking /\ job.req \in Requests
        /\ Whole(job) /\ job.raced \in BOOLEAN /\ DOMAIN job = JobFields /\ exchange = NoExchange /\ PageKept(job)
    BY DEF Metadata, Looking, JobInv, Fine, Shape, Whole, Apart
  <1>2. e.size \in Nat
    BY DEF JobInv, FilesTyped, Entry, Gone
  <1>3. ASSUME Serve(Answer("304", 0, 0, "not modified")) PROVE JobInv'
    <2>1. /\ IsAnswer(Answer("304", 0, 0, "not modified"))
          /\ Honest(job, Answer("304", 0, 0, "not modified"))
          /\ Answer("304", 0, 0, "not modified").of # "error"
      BY DEF Answer, IsAnswer, Honest
    <2> QED  BY <1>1, <1>3, <2>1, ServeKeeps
  <1>4. ASSUME Serve(Answer("200", e.size, 0, "head")) PROVE JobInv'
    <2>1. /\ IsAnswer(Answer("200", e.size, 0, "head"))
          /\ Honest(job, Answer("200", e.size, 0, "head"))
          /\ Answer("200", e.size, 0, "head").of # "error"
      BY DEF Answer, IsAnswer, Honest
    <2> QED  BY <1>1, <1>4, <2>1, ServeKeeps
  <1>5. ASSUME Job(j) PROVE JobInv'
    <2>1. part = <<>> \/ \E a, b \in Nat : part = <<a, b>> /\ a <= b
      <3> HIDE DEF e
      <3> QED  BY <1>1, <1>2, RangeInFile
    <2>2. /\ j.at = "read" /\ j.meta = e /\ j.part = part /\ j.file = job.file /\ j.req = job.req /\ j.came = job.came
          /\ j.raced = job.raced /\ j.page = job.page /\ DOMAIN j = JobFields
      <3> HIDE DEF e, part
      <3> QED  BY <1>1 DEF JobFields
    <2>3. Looked(j)
      <3> HIDE DEF j, part
      <3> QED  BY <2>1, <2>2 DEF Looked
    <2> HIDE DEF j
    <2>4. Shape(j) /\ Apart(j) /\ PageKept(j) /\ Answered(j)
      BY <1>1, <2>2 DEF Shape, Whole, Apart, PageKept, Answered, Ats, Early
    <2> QED  BY <1>5, <2>3, <2>4, JobKeeps DEF Fine
  <1>6. \/ Fail("404")
        \/ Serve(Answer("304", 0, 0, "not modified"))
        \/ Serve(Answer("200", e.size, 0, "head"))
        \/ Job(j)
    <2> HIDE DEF Fail, Serve, Job
    <2> QED  BY DEF Metadata
  <1> HIDE DEF j, e, part
  <1> QED  BY <1>1, <1>3, <1>4, <1>5, <1>6, FailKeeps

(* The body: that of the file, or of the range.                            *)
LEMMA ReadKeeps == JobInv /\ Read => JobInv'
  <1> SUFFICES ASSUME JobInv, Read PROVE JobInv'
    OBVIOUS
  <1> DEFINE e == Entry(job.file)
             count == job.part[2] - job.part[1] + 1
             whole == Answer("200", job.meta.size, e.size, Last(job.file))
             range == Answer("206", count, count, Last(job.file))
  <1>1. job.at = "read" /\ job.at \in Looking
    BY DEF Read, Looking
  <1>2. /\ job.raced \in BOOLEAN /\ (job.raced \/ e = job.meta)
        /\ job.part = <<>> \/ \E a, b \in Nat : job.part = <<a, b>> /\ a <= b
    BY <1>1 DEF JobInv, Fine, Shape, Whole, Looked
  <1>3. e.size \in Nat /\ (e.kind = "file" => job.file \in DOMAIN Disk)
    BY DEF JobInv, FilesTyped, Entry, Gone
  <1>4. e.kind = "file" => Last(job.file) # "error"
    BY <1>3, ServingAssumption DEF Marks
  <1> HIDE DEF e
  <1>5. ASSUME job.part = <<>>, e.kind = "file", Serve(whole) PROVE JobInv'
    <2>1. IsAnswer(whole) /\ whole.of # "error"
      BY <1>3, <1>4, <1>5 DEF Answer, IsAnswer
    <2>2. Honest(job, whole)
      BY <1>2, <1>5 DEF Answer, Honest
    <2> HIDE DEF whole
    <2> QED  BY <1>1, <1>5, <2>1, <2>2, ServeKeeps
  <1>6. ASSUME job.part # <<>>, e.kind = "file", Serve(range) PROVE JobInv'
    <2>1. count \in Nat
      <3>1. PICK a, b \in Nat : job.part = <<a, b>> /\ a <= b
        BY <1>2, <1>6
      <3> QED  BY <3>1
    <2> HIDE DEF count
    <2>2. IsAnswer(range) /\ range.of # "error" /\ Honest(job, range)
      BY <1>4, <1>6, <2>1 DEF Answer, IsAnswer, Honest
    <2> HIDE DEF range
    <2> QED  BY <1>1, <1>6, <2>2, ServeKeeps
  <1>7. \/ \E s : Fail(s)
        \/ job.part = <<>> /\ e.kind = "file" /\ Serve(whole)
        \/ job.part # <<>> /\ e.kind = "file" /\ Serve(range)
    BY DEF Read, e
  <1> HIDE DEF whole, range
  <1> QED  BY <1>1, <1>5, <1>6, <1>7, FailKeeps
-----------------------------------------------------------------------------
(* Steps before a file is looked at, and after.                            *)

(* A request that has just come has looked at nothing.                     *)
LEMMA ArriveKeeps == JobInv /\ Arrive => JobInv'
  <1> SUFFICES ASSUME NEW r \in Requests, NEW n \in IF r.h2 THEN {r.length} ELSE 0..r.length + r.behind,
                      JobInv, job.at = "idle",
                      Job([Idle EXCEPT !.at = "route", !.req = r, !.path = r.path, !.came = n])
               PROVE  JobInv'
    BY DEF Arrive
  <1> DEFINE j == [Idle EXCEPT !.at = "route", !.req = r, !.path = r.path, !.came = n]
  <1>1. /\ DOMAIN j = JobFields /\ j.at = "route" /\ j.req = r /\ j.came = n /\ j.raced = FALSE
        /\ j.file = <<>> /\ j.page = <<>>
    BY DEF Idle, JobFields
  <1>2. Job(j)
    OBVIOUS
  <1> HIDE DEF j
  <1>3. job.at \in Early /\ j.at \in Ats \ {"idle", "read"}
    BY <1>1 DEF Early, Ats
  <1>4. Whole(j)
    <2>1. r.length \in Nat /\ r.behind \in Nat
      BY ServingAssumption
    <2>2. n \in Nat /\ (r.h2 => n = r.length)
      BY <2>1
    <2> QED  BY <1>1, <2>2 DEF Whole
  <1> QED  BY <1>1, <1>2, <1>3, <1>4, EarlyKeeps

(* A step that keeps the request, from where no file was looked at.        *)
LEMMA OnwardKeeps ==
  ASSUME JobInv, job.at \in Early \ {"idle"}, NEW to \in Ats \ {"idle", "read"},
         NEW s, NEW l, NEW p, NEW a,
         \/ Job([job EXCEPT !.at = to])
         \/ Job([job EXCEPT !.at = to, !.server = s, !.location = l, !.path = p])
         \/ Job([job EXCEPT !.at = to, !.answer = a])
  PROVE  JobInv'
  <1>1. /\ DOMAIN job = JobFields /\ job.req \in Requests /\ Whole(job) /\ job.raced \in BOOLEAN
        /\ job.file = <<>> /\ job.page = <<>>
    BY DEF JobInv, Fine, Shape, Whole, Apart
  <1>2. PICK j : /\ Job(j) /\ DOMAIN j = JobFields /\ j.at = to /\ j.req = job.req /\ j.came = job.came
                 /\ j.raced = job.raced /\ j.file = <<>> /\ j.page = <<>>
    <2>1. CASE Job([job EXCEPT !.at = to])
      <3> DEFINE j == [job EXCEPT !.at = to]
      <3>1. /\ DOMAIN j = JobFields /\ j.at = to /\ j.req = job.req /\ j.came = job.came
            /\ j.raced = job.raced /\ j.file = <<>> /\ j.page = <<>>
        BY <1>1 DEF JobFields
      <3> QED  BY <2>1, <3>1
    <2>2. CASE Job([job EXCEPT !.at = to, !.server = s, !.location = l, !.path = p])
      <3> DEFINE j == [job EXCEPT !.at = to, !.server = s, !.location = l, !.path = p]
      <3>1. /\ DOMAIN j = JobFields /\ j.at = to /\ j.req = job.req /\ j.came = job.came
            /\ j.raced = job.raced /\ j.file = <<>> /\ j.page = <<>>
        BY <1>1 DEF JobFields
      <3> QED  BY <2>2, <3>1
    <2>3. CASE Job([job EXCEPT !.at = to, !.answer = a])
      <3> DEFINE j == [job EXCEPT !.at = to, !.answer = a]
      <3>1. /\ DOMAIN j = JobFields /\ j.at = to /\ j.req = job.req /\ j.came = job.came
            /\ j.raced = job.raced /\ j.file = <<>> /\ j.page = <<>>
        BY <1>1 DEF JobFields
      <3> QED  BY <2>3, <3>1
    <2> QED  BY <2>1, <2>2, <2>3
  <1>3. Whole(j)
    BY <1>1, <1>2 DEF Whole
  <1> QED  BY <1>1, <1>2, <1>3, EarlyKeeps

(* An answer before any file is looked at.                                 *)
LEMMA EarlyFinishKeeps ==
  ASSUME JobInv, job.at \in Early \ {"idle"}, NEW a, Finish(a)
  PROVE  JobInv'
  <1>1. job.file = <<>> /\ job.at # "idle"
    BY DEF JobInv, Fine, Apart
  <1> QED  BY <1>1, FinishKeeps

(* Routing a request looks at no file and asks no backend.                 *)
LEMMA RouteKeeps == JobInv /\ Route => JobInv'
  <1> SUFFICES ASSUME JobInv, Route PROVE JobInv'
    OBVIOUS
  <1>1. job.at \in Early \ {"idle"} /\ "authorize" \in Ats \ {"idle", "read"}
    BY DEF Route, Early, Ats
  <1>2. \/ \E a : Finish(a)
        \/ \E s, l, p : Job([job EXCEPT !.at = "authorize", !.server = s, !.location = l, !.path = p])
    <2> HIDE DEF Finish, Job
    <2> QED  BY DEF Route
  <1> QED  BY <1>1, <1>2, OnwardKeeps, EarlyFinishKeeps

(* Neither does the check of the password.                                 *)
LEMMA AuthorizeKeeps == JobInv /\ Authorize => JobInv'
  <1> SUFFICES ASSUME JobInv, Authorize PROVE JobInv'
    OBVIOUS
  <1>1. job.at \in Early \ {"idle"} /\ "limit" \in Ats \ {"idle", "read"}
    BY DEF Authorize, Early, Ats
  <1>2. Job([job EXCEPT !.at = "limit"]) \/ \E a : Finish(a)
    BY DEF Authorize
  <1> QED  BY <1>1, <1>2, OnwardKeeps, EarlyFinishKeeps

(* Neither does the limit on requests.                                     *)
LEMMA LimitKeeps == JobInv /\ Limit => JobInv'
  <1> SUFFICES ASSUME JobInv, Limit PROVE JobInv'
    OBVIOUS
  <1>1. job.at \in Early \ {"idle"} /\ "dispatch" \in Ats \ {"idle", "read"}
    BY DEF Limit, Early, Ats
  <1>2. Job([job EXCEPT !.at = "dispatch"]) \/ \E a : Finish(a)
    BY DEF Limit
  <1> QED  BY <1>1, <1>2, OnwardKeeps, EarlyFinishKeeps

(* Asking a backend: no file will be looked at.                            *)
LEMMA BeginKeeps ==
  ASSUME JobInv, job.at = "dispatch", NEW kind, NEW body, Begin(kind, body)
  PROVE  JobInv'
  <1> DEFINE j == [job EXCEPT !.at = "exchange"]
  <1>1. Shape(job) /\ PageKept(job) /\ job.file = <<>> /\ job.page = <<>>
    BY DEF JobInv, Fine, Apart, Early
  <1>2. /\ j.at = "exchange" /\ j.req = job.req /\ j.came = job.came /\ j.raced = job.raced /\ j.file = <<>>
        /\ j.page = <<>> /\ DOMAIN j = JobFields
    BY <1>1 DEF Shape, Whole, JobFields
  <1>3. job' = j /\ files' = files
    BY DEF Begin
  <1> HIDE DEF j
  <1>4. Shape(job)' /\ Apart(job)' /\ PageKept(job)' /\ Looked(job)' /\ Answered(job)'
    BY <1>1, <1>2, <1>3 DEF Shape, Whole, Apart, PageKept, Looked, Answered, Ats, Early, Looking
  <1>5. FilesTyped'
    BY <1>3 DEF JobInv, FilesTyped
  <1> QED  BY <1>4, <1>5 DEF JobInv, Fine

(* dispatch starts to look up a file or to ask a backend, never both.      *)
LEMMA DispatchKeeps == JobInv /\ Dispatch => JobInv'
  <1> SUFFICES ASSUME JobInv, Dispatch PROVE JobInv'
    OBVIOUS
  <1>1. /\ job.at = "dispatch" /\ job.at \in Early \ {"idle"}
        /\ {"resolve", "compress"} \subseteq Ats \ {"idle", "read"}
    BY DEF Dispatch, Early, Ats
  <1>2. (\E a : Finish(a)) \/ Job([job EXCEPT !.at = "resolve"]) \/ Ask
    <2> HIDE DEF Finish, Job, Ask
    <2> QED  BY DEF Dispatch
  <1>3. Ask => \/ \E kind, body : Begin(kind, body)
               \/ \E a : Job([job EXCEPT !.at = "compress", !.answer = a])
    <2> HIDE DEF Begin, Job
    <2> QED  BY DEF Ask
  <1> QED  BY <1>1, <1>2, <1>3, OnwardKeeps, EarlyFinishKeeps, BeginKeeps

(* A backend's answer goes on without a file.                              *)
LEMMA FromBackendKeeps == JobInv /\ FromBackend => JobInv'
  <1> SUFFICES ASSUME JobInv, FromBackend PROVE JobInv'
    OBVIOUS
  <1>1. job.at = "exchange" /\ job.file = <<>> /\ job.at # "idle"
    BY DEF FromBackend, JobInv, Fine, Apart
  <1>2. (\E a : Finish(a)) \/ \E a : Job([job EXCEPT !.at = "compress", !.answer = a])
    <2> HIDE DEF Finish, Job
    <2> QED  BY DEF FromBackend
  <1>3. ASSUME NEW a, Job([job EXCEPT !.at = "compress", !.answer = a]) PROVE JobInv'
    <2> DEFINE j == [job EXCEPT !.at = "compress", !.answer = a]
    <2>1. Shape(job) /\ Apart(job) /\ PageKept(job)
      BY DEF JobInv, Fine
    <2>2. /\ j.at = "compress" /\ j.req = job.req /\ j.came = job.came /\ j.raced = job.raced /\ j.file = <<>>
          /\ j.page = job.page /\ DOMAIN j = JobFields
      BY <1>1, <2>1 DEF Shape, Whole, JobFields
    <2>3. Job(j)
      BY <1>3
    <2> HIDE DEF j
    <2>4. Shape(j) /\ Apart(j) /\ PageKept(j) /\ Looked(j) /\ Answered(j)
      BY <1>1, <2>1, <2>2 DEF Shape, Whole, Apart, PageKept, Looked, Answered, Ats, Early, Looking
    <2> QED  BY <2>3, <2>4, JobKeeps DEF Fine
  <1> QED  BY <1>1, <1>2, <1>3, FinishKeeps

(* What is compressed is as long as it tells.                              *)
LEMMA CompressKeeps == JobInv /\ Compress => JobInv'
  <1> SUFFICES ASSUME JobInv, Compress PROVE JobInv'
    OBVIOUS
  <1>1. /\ job.at = "compress" /\ job.at # "idle"
        /\ job.file = <<>> \/ (IsAnswer(job.answer) /\ Honest(job, job.answer))
    BY DEF Compress, JobInv, Fine, Answered
  <1>2. ASSUME Finish(job.answer) PROVE JobInv'
    BY <1>1, <1>2, FinishKeeps
  <1>3. ASSUME NEW n \in 1..job.answer.body - 1,
               Finish([job.answer EXCEPT !.length = IF @ = None THEN None ELSE n, !.body = n])
        PROVE  JobInv'
    <2> DEFINE a == [job.answer EXCEPT !.length = IF @ = None THEN None ELSE n, !.body = n]
    <2>1. ASSUME IsAnswer(job.answer), Honest(job, job.answer) PROVE Honest(job, a)
      <3>1. /\ a.length = (IF job.answer.length = None THEN None ELSE n) /\ a.body = n
            /\ a.of = job.answer.of
        BY <2>1 DEF IsAnswer
      <3>2. job.answer.body # None
        BY <2>1 DEF IsAnswer, None
      <3> QED  BY <2>1, <3>1, <3>2 DEF Honest
    <2>2. Finish(a)
      BY <1>3
    <2> HIDE DEF a
    <2> QED  BY <1>1, <2>1, <2>2, FinishKeeps
  <1> QED  BY <1>2, <1>3 DEF Compress

(* A change under the nose of the handler is remembered.                   *)
LEMMA ChangeKeeps == JobInv /\ Change => JobInv'
  <1> SUFFICES ASSUME JobInv, Change PROVE JobInv'
    OBVIOUS
  <1>1. /\ job.at \in Looking /\ Shape(job) /\ Apart(job) /\ PageKept(job) /\ Looked(job)
        /\ FilesTyped
    BY DEF Change, JobInv, Fine, Shape, Whole, Ats, Looking
  <1>2. PICK p \in DOMAIN files, size \in 0..MaxSize, gone \in BOOLEAN :
          /\ files' = [files EXCEPT ![p] =
               IF gone THEN Gone ELSE [kind |-> "file", size |-> size, mtime |-> files[p].mtime + 1]]
          /\ job' = [job EXCEPT !.raced = @ \/ (job.at = "read" /\ p = job.file)]
          /\ exchange' = exchange
    BY DEF Change
  <1> DEFINE Entries == [kind : {"file", "dir", "none"}, size : Nat, mtime : Nat]
             new == IF gone THEN Gone ELSE [kind |-> "file", size |-> size, mtime |-> files[p].mtime + 1]
             r == job.raced \/ (job.at = "read" /\ p = job.file)
  <1>3. new \in Entries
    <2>1. files[p] \in Entries /\ size \in Nat
      BY <1>1, ServingAssumption DEF FilesTyped
    <2>2. Gone \in Entries
      BY DEF Gone
    <2>3. [kind |-> "file", size |-> size, mtime |-> files[p].mtime + 1] \in Entries
      BY <2>1
    <2>4. CASE gone
      BY <2>2, <2>4
    <2>5. CASE ~gone
      BY <2>3, <2>5
    <2> QED  BY <2>4, <2>5
  <1>4. files' = [files EXCEPT ![p] = new] /\ job' = [job EXCEPT !.raced = r]
    <2>1. files' = [files EXCEPT ![p] = new]
      BY <1>2, Zenon
    <2>2. job' = [job EXCEPT !.raced = r]
      BY <1>2, Zenon
    <2> QED  BY <2>1, <2>2
  <1> HIDE DEF new
  <1>5. FilesTyped'
    BY <1>1, <1>3, <1>4 DEF FilesTyped
  <1>6. /\ \A x \in JobFields \ {"raced"} : job'[x] = job[x]
        /\ job'.raced = r /\ DOMAIN job' = JobFields /\ r \in BOOLEAN
    <2> HIDE DEF r
    <2>1. r \in BOOLEAN
      BY <1>1 DEF r, Shape, Whole
    <2>2. "raced" \in JobFields /\ DOMAIN job = JobFields
      BY <1>1 DEF JobFields, Shape, Whole
    <2> QED  BY <1>4, <2>1, <2>2
  <1>7. /\ job'.at = job.at /\ job'.req = job.req /\ job'.came = job.came /\ job'.file = job.file /\ job'.page = job.page
        /\ job'.meta = job.meta /\ job'.part = job.part
    BY <1>6 DEF JobFields
  <1>8. Shape(job)' /\ Apart(job)' /\ PageKept(job)' /\ Answered(job)'
    BY <1>1, <1>2, <1>6, <1>7 DEF Shape, Whole, Apart, PageKept, Answered, IsAnswer, Looking
  <1>9. Looked(job)'
    <2> SUFFICES ASSUME job.at = "read", ~job'.raced PROVE Entry(job.file)' = Entry(job.file)
      BY <1>1, <1>6, <1>7 DEF Looked, Shape, Whole
    <2>1. p # job.file
      BY <1>6
    <2> QED  BY <1>4, <1>7, <2>1 DEF Entry
  <1> QED  BY <1>5, <1>8, <1>9 DEF JobInv, Fine

-----------------------------------------------------------------------------
(***************************************************************************)
(* The answer: its length is that of its body                              *)
(***************************************************************************)

(* At first there is no request, and all files are there.                  *)
LEMMA InitJobInv == Init => JobInv
  <1> SUFFICES ASSUME Init PROVE JobInv
    OBVIOUS
  <1>1. files = Disk /\ job = Idle /\ exchange = NoExchange
    BY DEF Init
  <1>2. FilesTyped
    <2>1. \A p \in DOMAIN Disk : Disk[p] \in [kind : {"file", "dir"}, size : Nat, mtime : Nat]
      BY ServingAssumption
    <2> QED  BY <1>1, <2>1 DEF FilesTyped
  <1>3. /\ DOMAIN job = JobFields /\ job.at = "idle" /\ job.raced = FALSE /\ job.file = <<>>
        /\ job.page = <<>>
    BY <1>1 DEF Idle, JobFields
  <1>4. Shape(job) /\ Apart(job) /\ PageKept(job) /\ Looked(job) /\ Answered(job)
    BY <1>1, <1>3 DEF Shape, Apart, PageKept, Looked, Answered, Ats
  <1> QED  BY <1>2, <1>4 DEF JobInv, Fine

(* Every step of the server keeps what is known of the request.            *)
LEMMA NextJobInv == JobInv /\ [Next]_vars => JobInv'
  <1> SUFFICES ASSUME JobInv, [Next]_vars PROVE JobInv'
    OBVIOUS
  <1>1. CASE Load
    BY <1>1, OthersKeep DEF Load
  <1>2. CASE Handle
    BY <1>2, ArriveKeeps, RouteKeeps, AuthorizeKeeps, LimitKeeps, DispatchKeeps, ResolveKeeps,
       TryKeeps, DirectoryKeeps, IndexKeeps, ExistsKeeps, WithinKeeps, MetadataKeeps, ReadKeeps,
       FromBackendKeeps, CompressKeeps DEF Handle
  <1>3. CASE Exchanging \/ Backend
    <2>1. exchange.at \in {"send", "write", "read"}
      BY <1>3 DEF Exchanging, ExchangeStep, Send, Write, Backend, BackendStep, BackendSends,
                  BackendCloses, BackendStalls, Silent
    <2>2. exchange # NoExchange
      BY <2>1 DEF NoExchange
    <2> QED  BY <1>3, <2>2, OthersKeep DEF Exchanging, Backend
  <1>4. CASE Change
    BY <1>4, ChangeKeeps
  <1>5. CASE Done \/ UNCHANGED vars
    BY <1>5, OthersKeep DEF Done, vars
  <1> QED  BY <1>1, <1>2, <1>3, <1>4, <1>5 DEF Next

(* static_files.rs: the length that is sent for a file is that of the body *)
(* that follows, although the two come from two looks at the file.         *)
THEOREM LengthIsBodyHolds == Spec => []LengthIsBody
  <1>1. JobInv => LengthIsBody
    BY DEF JobInv, Fine, Answered, Honest, LengthIsBody
  <1> QED  BY <1>1, InitJobInv, NextJobInv, PTL DEF Spec

-----------------------------------------------------------------------------
(***************************************************************************)
(* The exchange: the application gets the body that the client sent        *)
(***************************************************************************)

ExchangeFields == {"at", "kind", "msg", "body", "stdin", "got", "come", "end", "result"}

(* An exchange under way is that of the request at hand: a FastCGI         *)
(* application is told the length of what one read brought of the body,    *)
(* and once it has been written all of that is in the records.             *)
Live == {"send", "write", "read"}
Linked ==
  exchange.at \in Live =>
    /\ job.at = "exchange"
    /\ exchange.kind = "fastcgi" => exchange.body = BodyRaw
AllSent == exchange.kind = "fastcgi" /\ exchange.at = "read" => exchange.stdin = exchange.body
BodyInv == DOMAIN exchange = ExchangeFields /\ exchange.body \in Nat /\ AllSent

(* What one read brought of a body is no more than there is.               *)
LEMMA BodyRawIs ==
  ASSUME JobInv, job.at # "idle"
  PROVE  /\ BodyRaw \in Nat /\ BodyRaw <= job.req.length
         /\ job.req.h2 \/ job.came >= job.req.length => BodyRaw = job.req.length
  <1>1. job.came \in Nat /\ (job.req.h2 => job.came = job.req.length) /\ job.req.length \in Nat
    BY ServingAssumption DEF JobInv, Fine, Shape, Whole
  <1> QED  BY <1>1 DEF BodyRaw, Least

(* What handlers do to an exchange: nothing, or to begin it.               *)
LEMMA HandlersBegin ==
  ASSUME JobInv, Handle
  PROVE  \/ UNCHANGED exchange
         \/ \E kind \in BackendKinds, body \in Nat : exchange' = Begun(kind, body)
  <1>1. CASE Dispatch
    <2>1. BodyRaw \in Nat
      BY <1>1, BodyRawIs DEF Dispatch
    <2>2. (\E j : Job(j)) \/ Ask
      BY <1>1 DEF Dispatch, Finish
    <2>3. CASE Ask
      <3>1. \/ \E j : Job(j)
            \/ Begin("websocket", 0) \/ Begin("proxy", 0) \/ Begin("fastcgi", BodyRaw)
        <4> HIDE DEF Begin, Job, BodyRaw
        <4> QED  BY <2>3 DEF Ask
      <3>2. (\E j : Job(j)) \/ \E kind \in BackendKinds, body \in Nat : Begin(kind, body)
        <4> HIDE DEF Begin, Job, BodyRaw
        <4> QED  BY <2>1, <3>1 DEF BackendKinds
      <3> QED  BY <3>2 DEF Begin, Job
    <2>4. CASE \E j : Job(j)
      BY <2>4 DEF Job
    <2> QED  BY <2>2, <2>3, <2>4
  <1>2. CASE Arrive \/ Route \/ Authorize \/ Limit
    <2>1. \E j : Job(j)
      BY <1>2 DEF Arrive, Route, Authorize, Limit, Finish
    <2> QED  BY <2>1 DEF Job
  <1>3. CASE Resolve \/ Try \/ Directory \/ Index \/ Exists \/ Within \/ Metadata \/ Read
    <2>1. (\E j : Job(j)) \/ \E a : Serve(a)
      BY <1>3 DEF Resolve, Try, Directory, Index, Exists, Within, Metadata, Read, Fail, LookAt
    <2>2. (\E a : Serve(a)) => \E j : Job(j)
      BY DEF Serve
    <2>3. \E j : Job(j)
      BY <2>1, <2>2
    <2> QED  BY <2>3 DEF Job
  <1>4. CASE FromBackend \/ Compress
    <2>1. \E j : Job(j)
      BY <1>4 DEF FromBackend, Compress, Finish
    <2> QED  BY <2>1 DEF Job
  <1> QED  BY <1>1, <1>2, <1>3, <1>4 DEF Handle

(* Only dispatch begins an exchange, by asking a backend.                  *)
LEMMA OnlyAskBegins ==
  ASSUME Handle, ~UNCHANGED exchange
  PROVE  Dispatch /\ Ask
  <1>1. \A j : ~Job(j)
    BY DEF Job
  <1>2. (\A a : ~Finish(a)) /\ (\A a : ~Serve(a))
    BY <1>1 DEF Finish, Serve
  <1> HIDE DEF Job, Finish, Serve
  <1>3. ~(Arrive \/ Route \/ Authorize \/ Limit \/ FromBackend \/ Compress)
    BY <1>1, <1>2 DEF Arrive, Route, Authorize, Limit, FromBackend, Compress
  <1>4. ~(Resolve \/ Try \/ Directory \/ Index \/ Exists \/ Within \/ Metadata \/ Read)
    BY <1>1, <1>2 DEF Resolve, Try, Directory, Index, Exists, Within, Metadata, Read, Fail, LookAt
  <1>5. Dispatch
    BY <1>3, <1>4 DEF Handle
  <1> HIDE DEF Ask
  <1> QED  BY <1>1, <1>2, <1>5 DEF Dispatch

(* What becomes of an exchange.                                            *)
LEMMA ExchangeMoves ==
  ASSUME JobInv, [Next]_vars
  PROVE  \/ UNCHANGED exchange
         \/ \E kind \in BackendKinds, body \in Nat : exchange' = Begun(kind, body)
         \/ ExchangeStep
         \/ BackendStep
  <1>1. CASE Handle
    BY <1>1, HandlersBegin
  <1>2. CASE Load \/ Change \/ Done \/ UNCHANGED vars
    BY <1>2 DEF Load, Change, Done, vars
  <1>3. CASE Exchanging \/ Backend
    BY <1>3 DEF Exchanging, Backend
  <1> QED  BY <1>1, <1>2, <1>3 DEF Next

(* An exchange that begins.                                                *)
LEMMA BegunFields ==
  ASSUME NEW kind, NEW body
  PROVE  LET e == Begun(kind, body) IN
         /\ DOMAIN e = ExchangeFields
         /\ e.at = "send" /\ e.kind = kind /\ e.body = body /\ e.result = NoResult /\ e.got = 0
         /\ e.come = 0 /\ e.end = "open"
  BY DEF Begun, NoExchange, ExchangeFields

(* Sending, waiting for and reading an answer leave the body as it is.     *)
LEMMA BodyStays ==
  ASSUME BodyInv, ExchangeStep \/ BackendStep
  PROVE  BodyInv'
  <1>1. DOMAIN exchange = ExchangeFields /\ exchange.body \in Nat /\ AllSent
    BY DEF BodyInv
  <1>2. ASSUME NEW result, Ended(result) PROVE BodyInv'
    <2>1. /\ DOMAIN exchange' = ExchangeFields /\ exchange'.body = exchange.body
          /\ exchange'.at = "ended"
      BY <1>1, <1>2 DEF Ended, ExchangeFields
    <2> QED  BY <1>1, <2>1 DEF BodyInv, AllSent
  <1>3. CASE Send
    <2>1. CASE exchange.kind = "fastcgi" /\ exchange' = [exchange EXCEPT !.at = "write"]
      <3>1. /\ DOMAIN exchange' = ExchangeFields /\ exchange'.body = exchange.body
            /\ exchange'.at = "write"
        BY <1>1, <2>1 DEF ExchangeFields
      <3> QED  BY <1>1, <3>1 DEF BodyInv, AllSent
    <2>2. CASE exchange.kind # "fastcgi" /\ Sent(0)
      <3>1. PICK m : exchange' = [exchange EXCEPT !.at = "read", !.msg = m, !.stdin = 0]
        BY <2>2 DEF Sent
      <3>2. /\ DOMAIN exchange' = ExchangeFields /\ exchange'.body = exchange.body
            /\ exchange'.kind # "fastcgi"
        BY <1>1, <2>2, <3>1 DEF ExchangeFields
      <3> QED  BY <1>1, <3>2 DEF BodyInv, AllSent
    <2> QED  BY <1>2, <1>3, <2>1, <2>2 DEF Send
  <1>8. CASE Write
    <2> DEFINE stdin == Stdin(Records(exchange.body))
    <2>1. stdin = exchange.body
      BY <1>1, RecordsWhole
    <2>2. CASE Sent(stdin)
      <3> HIDE DEF stdin
      <3>1. PICK m : exchange' = [exchange EXCEPT !.at = "read", !.msg = m, !.stdin = stdin]
        BY <2>2 DEF Sent
      <3>2. /\ DOMAIN exchange' = ExchangeFields /\ exchange'.body = exchange.body
            /\ exchange'.stdin = stdin
        BY <1>1, <3>1 DEF ExchangeFields
      <3> QED  BY <1>1, <2>1, <3>2 DEF BodyInv, AllSent
    <2> QED  BY <1>2, <1>8, <2>2 DEF Write
  <1>4. CASE exchange.at = "read" /\ (ReadEnd \/ ReadTimeout)
    BY <1>2, <1>4 DEF ReadEnd, ReadTimeout
  <1>5. ASSUME \/ \E result : EndsWith(result)
               \/ exchange.at = "read" /\ MoreToRead
        PROVE  BodyInv'
    <2>1. ASSUME NEW result, EndsWith(result) PROVE BodyInv'
      <3>1. /\ DOMAIN exchange' = ExchangeFields /\ exchange'.body = exchange.body
            /\ exchange'.at = "ended"
        BY <1>1, <2>1 DEF EndsWith, ExchangeFields
      <3> QED  BY <1>1, <3>1 DEF BodyInv, AllSent
    <2>2. ASSUME exchange.at = "read", MoreToRead PROVE BodyInv'
      <3>1. /\ DOMAIN exchange' = ExchangeFields /\ exchange'.body = exchange.body
            /\ exchange'.at = exchange.at /\ exchange'.kind = exchange.kind
            /\ exchange'.stdin = exchange.stdin
        BY <1>1, <2>2 DEF MoreToRead, ExchangeFields
      <3> QED  BY <1>1, <3>1 DEF BodyInv, AllSent
    <2> QED  BY <1>5, <2>1, <2>2
  <1>6. CASE exchange.at = "read" /\ (ReadProxy \/ ReadWebSocket \/ ReadRecord)
    <2>1. (\E result : EndsWith(result)) \/ MoreToRead
      BY <1>6 DEF ReadProxy, ReadWebSocket, ReadRecord
    <2> QED  BY <1>5, <1>6, <2>1
  <1>7. CASE BackendStep
    <2>1. /\ DOMAIN exchange' = ExchangeFields /\ exchange'.body = exchange.body
          /\ exchange'.at = exchange.at /\ exchange'.kind = exchange.kind
          /\ exchange'.stdin = exchange.stdin
      BY <1>1, <1>7 DEF BackendStep, BackendSends, BackendCloses, BackendStalls, ExchangeFields
    <2> QED  BY <1>1, <2>1 DEF BodyInv, AllSent
  <1> QED  BY <1>3, <1>4, <1>6, <1>7, <1>8 DEF ExchangeStep

(* An exchange under way stays that of its request until it has ended.     *)
LEMMA LinkStays ==
  ASSUME JobInv, BodyInv, Linked, [Next]_vars
  PROVE  Linked'
  <1>1. CASE Exchanging \/ Backend
    <2>1. exchange.at \in Live /\ job' = job /\ DOMAIN exchange = ExchangeFields
      BY <1>1 DEF Exchanging, ExchangeStep, Send, Write, Backend, BackendStep, BackendSends,
                  BackendCloses, BackendStalls, Silent, Live, BodyInv
    <2>2. exchange'.kind = exchange.kind /\ exchange'.body = exchange.body
      <3>1. CASE Exchanging
        <4>1. \/ \E at : exchange' = [exchange EXCEPT !.at = at]
              \/ \E r : Ended(r) \/ EndsWith(r)
              \/ \E n : Sent(n)
              \/ MoreToRead
          <5> HIDE DEF Ended, EndsWith, Sent, MoreToRead
          <5> QED  BY <3>1 DEF Exchanging, ExchangeStep, Send, Write, ReadProxy, ReadWebSocket,
                               ReadRecord, ReadEnd, ReadTimeout
        <4> QED  BY <2>1, <4>1 DEF Ended, EndsWith, Sent, MoreToRead, ExchangeFields
      <3>2. CASE Backend
        BY <2>1, <3>2 DEF Backend, BackendStep, BackendSends, BackendCloses, BackendStalls,
                          ExchangeFields
      <3> QED  BY <1>1, <3>1, <3>2
    <2> QED  BY <2>1, <2>2 DEF Linked, BodyRaw
  <1>2. CASE Load \/ Done \/ UNCHANGED vars
    BY <1>2 DEF Load, Done, vars, Linked, BodyRaw
  <1>3. CASE Change
    BY <1>3 DEF Change, Linked
  <1>4. CASE Handle
    <2>1. exchange.at \notin Live
      BY <1>4 DEF Handle, Arrive, Route, Authorize, Limit, Dispatch, Resolve, Try, Directory, Index,
                  Exists, Within, Metadata, Read, FromBackend, Compress, Linked, Live
    <2>2. CASE UNCHANGED exchange
      BY <2>1, <2>2 DEF Linked
    <2>3. CASE ~UNCHANGED exchange
      <3>1. Dispatch /\ Ask
        BY <1>4, <2>3, OnlyAskBegins
      <3>2. \/ \E kind \in {"websocket", "proxy"} : Begin(kind, 0)
            \/ Begin("fastcgi", BodyRaw)
        <4>1. \A j : ~Job(j)
          BY <2>3 DEF Job
        <4> HIDE DEF Begin, Job, BodyRaw
        <4> QED  BY <3>1, <4>1 DEF Ask
      <3>3. job' = [job EXCEPT !.at = "exchange"] /\ DOMAIN job = JobFields
        BY <3>2 DEF Begin, JobInv, Fine, Shape
      <3>4. job'.at = "exchange" /\ job'.req = job.req /\ job'.came = job.came
        BY <3>3 DEF JobFields
      <3>5. PICK kind, body : exchange' = Begun(kind, body) /\ (kind = "fastcgi" => body = BodyRaw)
        <4> HIDE DEF BodyRaw
        <4> QED  BY <3>2 DEF Begin
      <3>6. exchange'.kind = kind /\ exchange'.body = body
        BY <3>5, BegunFields
      <3> QED  BY <3>4, <3>5, <3>6 DEF Linked, BodyRaw
    <2> QED  BY <2>2, <2>3
  <1> QED  BY <1>1, <1>2, <1>3, <1>4 DEF Next

(* handler.rs, fastcgi/mod.rs: whatever the length of a body and however   *)
(* it is cut into records, the application reads what it is told to, which *)
(* is what one read brought of the body, and all of it over HTTP/2.        *)
THEOREM RequestArrivesHolds == Spec => []RequestArrives
  <1>1. Init => BodyInv /\ Linked
    BY DEF Init, NoExchange, BodyInv, AllSent, ExchangeFields, Linked, Live
  <1>2. JobInv /\ BodyInv /\ [Next]_vars => BodyInv'
    <2> SUFFICES ASSUME JobInv, BodyInv, [Next]_vars PROVE BodyInv'
      OBVIOUS
    <2>1. CASE UNCHANGED exchange
      BY <2>1 DEF BodyInv, AllSent
    <2>2. ASSUME NEW kind \in BackendKinds, NEW body \in Nat, exchange' = Begun(kind, body)
          PROVE  BodyInv'
      BY <2>2, BegunFields DEF BodyInv, AllSent
    <2> QED  BY <2>1, <2>2, ExchangeMoves, BodyStays
  <1>3. JobInv /\ BodyInv /\ Linked => RequestArrives
    <2> SUFFICES ASSUME JobInv, BodyInv, Linked, exchange.kind = "fastcgi", exchange.at = "read"
                 PROVE  /\ exchange.stdin = exchange.body
                        /\ exchange.stdin <= job.req.length
                        /\ job.req.h2 \/ job.came >= job.req.length =>
                             exchange.stdin = job.req.length
      BY DEF RequestArrives
    <2>1. exchange.stdin = exchange.body /\ exchange.body = BodyRaw /\ job.at # "idle"
      BY DEF BodyInv, AllSent, Linked, Live
    <2> QED  BY <2>1, BodyRawIs
  <1> QED  BY <1>1, <1>2, <1>3, InitJobInv, NextJobInv, LinkStays, PTL DEF Spec

-----------------------------------------------------------------------------
(***************************************************************************)
(* Pieces of an answer                                                     *)
(***************************************************************************)

(* Two sets of which each element of the one stands for one of the other.  *)
LEMMA SameNumber ==
  ASSUME NEW S, IsFiniteSet(S), NEW T, NEW f \in [S -> T],
         \A x, y \in S : f[x] = f[y] => x = y, \A t \in T : \E x \in S : f[x] = t
  PROVE  IsFiniteSet(T) /\ Cardinality(T) = Cardinality(S)
  <1>1. f \in Bijection(S, T)
    BY Fun_IsBij
  <1>2. ExistsBijection(S, T)
    BY <1>1 DEF ExistsBijection
  <1> QED  BY <1>2, FS_Bijection

(* Two sets with nothing in common.                                        *)
LEMMA DisjointSum ==
  ASSUME NEW S, IsFiniteSet(S), NEW T, IsFiniteSet(T), S \cap T = {}
  PROVE  IsFiniteSet(S \cup T) /\ Cardinality(S \cup T) = Cardinality(S) + Cardinality(T)
  <1>1. Cardinality(S \cap T) = 0 /\ Cardinality(S) \in Nat /\ Cardinality(T) \in Nat
    BY FS_EmptySet, FS_CardinalityType
  <1>2. /\ IsFiniteSet(S \cup T)
        /\ Cardinality(S \cup T) = Cardinality(S) + Cardinality(T) - Cardinality(S \cap T)
    BY FS_Union, Zenon
  <1> QED  BY <1>1, <1>2

(* The places of the data, and those of the data in one part of a sequence.*)
DataAt(w) == {i \in DOMAIN w : w[i] = "d"}

(* There are finitely many pieces of data in a message.                    *)
LEMMA DataFinite ==
  ASSUME NEW S, NEW w \in Seq(S)
  PROVE  /\ IsFiniteSet(DataAt(w)) /\ DataIn(w) = Cardinality(DataAt(w)) /\ DataIn(w) \in Nat
         /\ DataAt(w) = {i \in 1..Len(w) : w[i] = "d"}
  <1>1. DOMAIN w = 1..Len(w) /\ IsFiniteSet(1..Len(w))
    BY FS_Interval
  <1>2. IsFiniteSet(DataAt(w))
    BY <1>1, FS_Subset DEF DataAt
  <1>3. DataIn(w) = Cardinality(DataAt(w))
    BY DEF DataIn, DataAt
  <1> QED  BY <1>1, <1>2, <1>3, FS_CardinalityType DEF DataAt

(* The part of a sequence behind h, when all data is there.                *)
LEMMA DataBehindHead ==
  ASSUME NEW S, NEW w \in Seq(S), NEW h \in 0..Len(w), \A i \in DOMAIN w : w[i] = "d" => h < i
  PROVE  DataIn(SubSeq(w, h + 1, Len(w))) = DataIn(w)
  <1> DEFINE v == SubSeq(w, h + 1, Len(w))
             f == [i \in DataAt(v) |-> i + h]
  <1>1. /\ v \in Seq(S) /\ Len(v) = Len(w) - h
        /\ \A i \in 1..Len(w) - h : v[i] = w[i + h]
    OBVIOUS
  <1> HIDE DEF v
  <1>2. /\ IsFiniteSet(DataAt(v)) /\ DataIn(v) = Cardinality(DataAt(v))
        /\ DataAt(v) = {i \in 1..Len(w) - h : v[i] = "d"}
        /\ DataIn(w) = Cardinality(DataAt(w)) /\ DataAt(w) = {i \in 1..Len(w) : w[i] = "d"}
    BY <1>1, DataFinite
  <1>3. f \in [DataAt(v) -> DataAt(w)]
    BY <1>1, <1>2
  <1>4. \A x, y \in DataAt(v) : f[x] = f[y] => x = y
    BY <1>2
  <1>5. ASSUME NEW t \in DataAt(w) PROVE \E x \in DataAt(v) : f[x] = t
    <2>1. h < t /\ t \in 1..Len(w) /\ w[t] = "d"
      BY <1>2
    <2>2. t - h \in 1..Len(w) - h /\ v[t - h] = w[t]
      BY <1>1, <2>1
    <2>3. t - h \in DataAt(v)
      BY <1>2, <2>1, <2>2
    <2>4. f[t - h] = t
      BY <2>1, <2>3
    <2> QED  BY <2>3, <2>4
  <1> HIDE DEF f
  <1> QED  BY <1>2, <1>3, <1>4, <1>5, SameNumber DEF v

(* The first p in a sequence.                                              *)
LEMMA WhereFirst ==
  ASSUME NEW S, NEW w \in Seq(S), NEW p
  PROVE  /\ Where(w, p) \in 0..Len(w)
         /\ Where(w, p) # 0 => w[Where(w, p)] = p
         /\ \A i \in 1..Len(w) : w[i] = p => Where(w, p) # 0 /\ Where(w, p) <= i
  <1> DEFINE at == {i \in 1..Len(w) : w[i] = p}
  <1>1. Where(w, p) = IF at # {} THEN Min(at) ELSE 0
    BY DEF Where, SelectInSeq
  <1>2. at \subseteq Nat
    OBVIOUS
  <1>3. CASE at = {}
    BY <1>1, <1>3
  <1>4. CASE at # {}
    <2>1. Min(at) \in at /\ \A y \in at : Min(at) <= y
      <3> HIDE DEF at
      <3> QED  BY <1>2, <1>4, MinOf
    <2>2. Where(w, p) \in at /\ \A y \in at : Where(w, p) <= y
      <3> HIDE DEF at
      <3> QED  BY <1>1, <1>4, <2>1
    <2> QED  BY <2>2
  <1> QED  BY <1>3, <1>4

(* Where it is in a part from the beginning, it is in the whole.           *)
LEMMA WhereInPart ==
  ASSUME NEW S, NEW w \in Seq(S), NEW p, NEW n \in 0..Len(w), Where(SubSeq(w, 1, n), p) # 0
  PROVE  Where(w, p) = Where(SubSeq(w, 1, n), p)
  <1> DEFINE v == SubSeq(w, 1, n)
  <1>1. v \in Seq(S) /\ Len(v) = n /\ (\A i \in 1..n : v[i] = w[i]) /\ Where(v, p) # 0
    OBVIOUS
  <1> HIDE DEF v
  <1>2. Where(v, p) \in 1..n /\ v[Where(v, p)] = p
        /\ \A i \in 1..n : v[i] = p => Where(v, p) <= i
    BY <1>1, WhereFirst
  <1>3. Where(w, p) \in 1..Len(w) /\ Where(w, p) <= Where(v, p) /\ w[Where(w, p)] = p
    BY <1>1, <1>2, WhereFirst
  <1>4. Where(v, p) <= Where(w, p)
    BY <1>1, <1>2, <1>3
  <1> QED  BY <1>2, <1>3, <1>4 DEF v

(* The data of two sequences, one after the other.                         *)
LEMMA DataOfBoth ==
  ASSUME NEW S, NEW a \in Seq(S), NEW b \in Seq(S)
  PROVE  DataIn(a \o b) = DataIn(a) + DataIn(b)
  <1> DEFINE w == a \o b
             v == {i \in DataAt(w) : i > Len(a)}
             f == [i \in DataAt(b) |-> i + Len(a)]
  <1>1. /\ w \in Seq(S) /\ Len(w) = Len(a) + Len(b) /\ Len(a) \in Nat /\ Len(b) \in Nat
        /\ \A i \in 1..Len(a) : w[i] = a[i]
        /\ \A i \in 1..Len(b) : w[i + Len(a)] = b[i]
    BY ConcatProperties
  <1> HIDE DEF w
  <1>2. /\ IsFiniteSet(DataAt(a)) /\ DataIn(a) = Cardinality(DataAt(a))
        /\ IsFiniteSet(DataAt(b)) /\ DataIn(b) = Cardinality(DataAt(b))
        /\ DataIn(w) = Cardinality(DataAt(w)) /\ DataIn(a) \in Nat /\ DataIn(b) \in Nat
        /\ DataAt(a) = {i \in 1..Len(a) : a[i] = "d"}
        /\ DataAt(b) = {i \in 1..Len(b) : b[i] = "d"}
        /\ DataAt(w) = {i \in 1..Len(a) + Len(b) : w[i] = "d"}
    BY <1>1, DataFinite
  <1>3. IsFiniteSet(v) /\ Cardinality(v) = Cardinality(DataAt(b))
    <2>1. f \in [DataAt(b) -> v]
      BY <1>1, <1>2
    <2>2. \A x, y \in DataAt(b) : f[x] = f[y] => x = y
      BY <1>1, <1>2
    <2>3. ASSUME NEW t \in v PROVE \E x \in DataAt(b) : f[x] = t
      <3>1. t - Len(a) \in 1..Len(b) /\ b[t - Len(a)] = "d" /\ (t - Len(a)) + Len(a) = t
        BY <1>1, <1>2
      <3>2. t - Len(a) \in DataAt(b)
        BY <1>2, <3>1
      <3> QED  BY <3>1, <3>2
    <2> HIDE DEF f, v
    <2> QED  BY <1>2, <2>1, <2>2, <2>3, SameNumber
  <1>4. DataAt(w) = DataAt(a) \cup v /\ DataAt(a) \cap v = {}
    BY <1>1, <1>2
  <1> HIDE DEF v
  <1>5. Cardinality(DataAt(w)) = Cardinality(DataAt(a)) + Cardinality(v)
    BY <1>2, <1>3, <1>4, DisjointSum
  <1>6. DataIn(w) = DataIn(a) + DataIn(b)
    BY <1>2, <1>3, <1>5
  <1> QED  BY <1>6 DEF w

(* Sequences one after the other, from each to the next.                   *)
LEMMA FlatBySteps ==
  ASSUME NEW S, NEW c \in Seq(Seq(S))
  PROVE  \E g \in [0..Len(c) -> Seq(S)] :
           /\ g[0] = <<>> /\ \A k \in 1..Len(c) : g[k] = g[k - 1] \o c[k]
           /\ FlattenSeq(c) = g[Len(c)]
  <1> DEFINE n == Len(c)
             flat == CHOOSE f : f = [i \in 1..Len(c) |-> IF i = 1 THEN c[i] ELSE f[i - 1] \o c[i]]
             st == [p \in (1..n) \X Seq(S) |-> p[2] \o c[p[1]]]
  <1>1. n \in Nat /\ \A k \in 1..n : c[k] \in Seq(S)
    OBVIOUS
  <1>2. FlattenSeq(c) = IF n = 0 THEN c ELSE flat[n]
    BY DEF FlattenSeq
  <1>3. PICK h \in [SUBSET (1..n) -> Seq(S)] : Folds(h, n, <<>>, st)
    <2>1. st \in [(1..n) \X Seq(S) -> Seq(S)] /\ <<>> \in Seq(S)
      BY <1>1
    <2> HIDE DEF st, n
    <2> QED  BY <1>1, <2>1, FoldExists
  <1>4. h[1..0] = <<>>
    <2>1. 1..0 = {} /\ 1..0 \in SUBSET (1..n)
      OBVIOUS
    <2> QED  BY <1>3, <2>1 DEF Folds
  <1>5. ASSUME NEW k \in 1..n PROVE h[1..k] = h[1..k - 1] \o c[k]
    <2>1. k \in Nat \ {0} /\ k <= n
      <3> HIDE DEF n
      <3> QED  BY <1>1
    <2>2. Max(1..k) = k
      <3>1. 1..k \in SUBSET (1..k) /\ k \in 1..k
        BY <2>1
      <3> QED  BY <2>1, <3>1, MaxOfUpTo
    <2>3. (1..k) \ {k} = 1..k - 1 /\ 1..k # {}
      <3>1. ASSUME NEW x PROVE x \in (1..k) \ {k} <=> x \in 1..k - 1
        BY <2>1
      <3>2. k \in 1..k
        BY <2>1
      <3> QED  BY <3>1, <3>2
    <2>4. 1..k \in SUBSET (1..n) /\ 1..k - 1 \in SUBSET (1..n)
      <3> HIDE DEF n
      <3> QED  BY <1>1, <2>1
    <2>5. h[1..k] = st[<<k, h[1..k - 1]>>]
      <3> HIDE DEF st
      <3> QED  BY <1>3, <2>2, <2>3, <2>4 DEF Folds
    <2>6. h[1..k - 1] \in Seq(S)
      BY <2>4
    <2> QED  BY <2>5, <2>6
  <1> HIDE DEF st
  <1>6. ASSUME n # 0
        PROVE  flat = [i \in 1..n |-> IF i = 1 THEN c[i] ELSE flat[i - 1] \o c[i]]
    <2> DEFINE f == [i \in 1..n |-> h[1..i]]
    <2>1. ASSUME NEW i \in 1..n
          PROVE  f[i] = IF i = 1 THEN c[i] ELSE f[i - 1] \o c[i]
      <3>1. f[i] = h[1..i - 1] \o c[i]
        BY <1>5
      <3>2. CASE i = 1
        <4>1. h[1..i - 1] = <<>> /\ c[i] \in Seq(S)
          <5>1. i - 1 = 0
            BY <3>2
          <5> QED  BY <1>1, <1>4, <5>1
        <4> QED  BY <3>1, <3>2, <4>1
      <3>3. CASE i # 1
        <4>1. i - 1 \in 1..n
          BY <1>1, <3>3
        <4>2. f[i - 1] = h[1..i - 1]
          BY <4>1
        <4> HIDE DEF f
        <4> QED  BY <3>1, <3>3, <4>2
      <3> QED  BY <3>2, <3>3
    <2>2. f = [i \in 1..Len(c) |-> IF i = 1 THEN c[i] ELSE f[i - 1] \o c[i]]
      BY <2>1
    <2> HIDE DEF f
    <2> QED  BY <2>2
  <1> HIDE DEF flat
  <1> DEFINE g == [k \in 0..n |-> IF k = 0 THEN <<>> ELSE flat[k]]
  <1>7. g[0] = <<>>
    BY <1>1
  <1>8. ASSUME NEW k \in 1..n PROVE g[k] = g[k - 1] \o c[k]
    <2>1. g[k] = IF k = 1 THEN c[k] ELSE flat[k - 1] \o c[k]
      <3>1. n # 0
        BY <1>1
      <3>2. g[k] = flat[k]
        BY <1>1
      <3> HIDE DEF g
      <3> QED  BY <1>6, <3>1, <3>2
    <2>2. CASE k = 1
      <3>1. k - 1 = 0
        BY <2>2
      <3>2. c[k] = <<>> \o c[k]
        <4>1. c[k] \in Seq(S)
          BY <1>1
        <4> QED  BY <4>1, ConcatEmptySeq
      <3>3. g[k] = c[k] /\ g[k - 1] = <<>>
        <4> HIDE DEF g
        <4> QED  BY <1>7, <2>1, <2>2, <3>1
      <3> HIDE DEF g
      <3> QED  BY <3>2, <3>3
    <2>3. CASE k # 1
      <3>1. g[k - 1] = flat[k - 1]
        <4>1. k - 1 \in 0..n /\ k - 1 # 0
          BY <1>1, <2>3
        <4> QED  BY <4>1
      <3> HIDE DEF g
      <3> QED  BY <2>1, <2>3, <3>1
    <2> QED  BY <2>2, <2>3
  <1>9. \A k \in 0..n : g[k] \in Seq(S)
    <2> DEFINE Q == {k \in 0..n : g[k] \in Seq(S)}
    <2>1. 0 \in Q
      <3>1. 0 \in 0..n /\ <<>> \in Seq(S)
        BY <1>1
      <3> HIDE DEF g
      <3> QED  BY <1>7, <3>1
    <2>2. ASSUME NEW k \in 0..n - 1, k \in Q PROVE k + 1 \in Q
      <3>1. k + 1 \in 1..n /\ k + 1 \in 0..n /\ (k + 1) - 1 = k
        BY <1>1
      <3>2. g[k + 1] = g[k] \o c[k + 1]
        <4> HIDE DEF g
        <4> QED  BY <1>8, <3>1
      <3>3. g[k + 1] \in Seq(S)
        <4> HIDE DEF g
        <4> QED  BY <1>1, <2>2, <3>1, <3>2
      <3> QED  BY <3>1, <3>3
    <2>3. \A k \in 0..n : k \in Q
      <3> HIDE DEF Q, n
      <3> QED  BY <1>1, <2>1, <2>2, InductionUpTo
    <2> QED  BY <2>3
  <1>10. g \in [0..n -> Seq(S)]
    BY <1>9
  <1>11. FlattenSeq(c) = g[n]
    <2>1. CASE n = 0
      <3>1. c = <<>>
        BY <2>1
      <3>2. g[n] = <<>>
        BY <2>1
      <3> QED  BY <1>2, <2>1, <3>1, <3>2
    <2>2. CASE n # 0
      BY <1>1, <1>2, <2>2
    <2> QED  BY <2>1, <2>2
  <1> HIDE DEF g
  <1> QED  BY <1>7, <1>8, <1>10, <1>11

(* The output of an application has the data of its records.               *)
LEMMA DataOfRecords ==
  ASSUME NEW w \in Seq(Record)
  PROVE  /\ Stdout(w) \in Seq(Piece)
         /\ DataIn(Stdout(w)) =
              Cardinality(UNION {{<<k, i>> : i \in {j \in DOMAIN w[k].content : w[k].content[j] = "d"}} :
                                   k \in {n \in DOMAIN w : w[n].type = "stdout"}})
  <1> DEFINE n == Len(w)
             c == [k \in DOMAIN w |-> IF w[k].type = "stdout" THEN w[k].content ELSE <<>>]
             Pairs(k) == UNION {{<<m, i>> : i \in DataAt(c[m])} : m \in 1..k}
  <1>1. /\ n \in Nat /\ DOMAIN w = 1..n /\ c \in Seq(Seq(Piece)) /\ Len(c) = n
        /\ \A k \in 1..n : c[k] \in Seq(Piece)
    <2>1. n \in Nat /\ DOMAIN w = 1..n
      OBVIOUS
    <2>2. ASSUME NEW k \in 1..n PROVE c[k] \in Seq(Piece)
      <3>1. w[k] \in Record
        OBVIOUS
      <3>2. w[k].content \in Seq(Piece) /\ <<>> \in Seq(Piece)
        BY <3>1 DEF Record
      <3> QED  BY <2>1, <3>2
    <2>3. c \in [1..n -> Seq(Piece)]
      <3>1. DOMAIN c = 1..n /\ c = [k \in 1..n |-> c[k]]
        BY <2>1
      <3> HIDE DEF c, n
      <3> QED  BY <2>2, <3>1
    <2>4. c \in Seq(Seq(Piece)) /\ Len(c) = n
      <3> HIDE DEF c, n
      <3> QED  BY <2>1, <2>3
    <2> HIDE DEF c, n
    <2> QED  BY <2>1, <2>2, <2>4
  <1>2. PICK g \in [0..n -> Seq(Piece)] :
          /\ g[0] = <<>> /\ \A k \in 1..n : g[k] = g[k - 1] \o c[k]
          /\ FlattenSeq(c) = g[n]
    <2> HIDE DEF c, n
    <2> QED  BY <1>1, FlatBySteps
  <1>3. Stdout(w) = g[n] /\ g[n] \in Seq(Piece)
    <2>1. Stdout(w) = FlattenSeq(c)
      BY DEF Stdout
    <2>2. n \in 0..n
      <3> HIDE DEF n
      <3> QED  BY <1>1
    <2> HIDE DEF c, n
    <2> QED  BY <1>2, <2>1, <2>2
  <1>4. UNION {{<<k, i>> : i \in {j \in DOMAIN w[k].content : w[k].content[j] = "d"}} :
                  k \in {m \in DOMAIN w : w[m].type = "stdout"}} = Pairs(n)
    <2>1. ASSUME NEW k \in 1..n
          PROVE  DataAt(c[k]) = IF w[k].type = "stdout"
                                THEN {j \in DOMAIN w[k].content : w[k].content[j] = "d"} ELSE {}
      <3>1. c[k] = IF w[k].type = "stdout" THEN w[k].content ELSE <<>>
        BY <1>1
      <3>2. DataAt(<<>>) = {}
        BY DEF DataAt
      <3> HIDE DEF c, n
      <3> QED  BY <3>1, <3>2 DEF DataAt
    <2> HIDE DEF c, n
    <2> QED  BY <1>1, <2>1
  <1> HIDE DEF c, n
  <1> DEFINE Q == {k \in 0..n : IsFiniteSet(Pairs(k)) /\ Cardinality(Pairs(k)) = DataIn(g[k])}
  <1>5. 0 \in Q
    <2>1. Pairs(0) = {}
      <3>1. 1..0 = {}
        OBVIOUS
      <3> QED  BY <3>1
    <2>2. DataIn(<<>>) = 0
      <3>1. {i \in DOMAIN <<>> : <<>>[i] = "d"} = {}
        OBVIOUS
      <3> QED  BY <3>1, FS_EmptySet DEF DataIn
    <2>3. 0 \in 0..n
      BY <1>1
    <2> HIDE DEF Pairs
    <2> QED  BY <1>2, <2>1, <2>2, <2>3, FS_EmptySet
  <1>6. ASSUME NEW k \in 0..n - 1, k \in Q PROVE k + 1 \in Q
    <2> DEFINE new == {<<k + 1, i>> : i \in DataAt(c[k + 1])}
               f == [i \in DataAt(c[k + 1]) |-> <<k + 1, i>>]
    <2>1. k + 1 \in 1..n /\ (k + 1) - 1 = k /\ k \in 0..n /\ k + 1 \in 0..n
      BY <1>1
    <2>2. c[k + 1] \in Seq(Piece) /\ g[k] \in Seq(Piece) /\ g[k + 1] = g[k] \o c[k + 1]
      BY <1>1, <1>2, <2>1
    <2>3. IsFiniteSet(DataAt(c[k + 1])) /\ DataIn(c[k + 1]) = Cardinality(DataAt(c[k + 1]))
      BY <2>2, DataFinite
    <2>4. IsFiniteSet(new) /\ Cardinality(new) = DataIn(c[k + 1])
      <3>1. /\ f \in [DataAt(c[k + 1]) -> new]
            /\ \A x, y \in DataAt(c[k + 1]) : f[x] = f[y] => x = y
            /\ \A t \in new : \E x \in DataAt(c[k + 1]) : f[x] = t
        OBVIOUS
      <3> HIDE DEF f, new
      <3> QED  BY <2>3, <3>1, SameNumber
    <2>5. Pairs(k + 1) = Pairs(k) \cup new
      <3>1. 1..k + 1 = (1..k) \cup {k + 1}
        BY <1>1
      <3> QED  BY <3>1
    <2>6. Pairs(k) \cap new = {}
      <3>1. k + 1 \notin 1..k
        BY <1>1
      <3> QED  BY <3>1
    <2> HIDE DEF new, Pairs
    <2>7. IsFiniteSet(Pairs(k)) /\ Cardinality(Pairs(k)) = DataIn(g[k])
      BY <1>6
    <2>8. IsFiniteSet(Pairs(k + 1)) /\ Cardinality(Pairs(k + 1)) = DataIn(g[k]) + DataIn(c[k + 1])
      BY <2>4, <2>5, <2>6, <2>7, DisjointSum
    <2>9. DataIn(g[k + 1]) = DataIn(g[k]) + DataIn(c[k + 1])
      BY <2>2, DataOfBoth
    <2> QED  BY <2>1, <2>8, <2>9
  <1>7. n \in Q
    <2> HIDE DEF Q
    <2>1. \A k \in 0..n : k \in Q
      BY <1>1, <1>5, <1>6, InductionUpTo
    <2> QED  BY <1>1, <2>1
  <1>8. Cardinality(Pairs(n)) = DataIn(g[n])
    BY <1>7
  <1> HIDE DEF Pairs
  <1> QED  BY <1>3, <1>4, <1>8

-----------------------------------------------------------------------------
(***************************************************************************)
(* The exchange: the answer that is taken is whole                         *)
(***************************************************************************)

(* What a backend answers has a wire of its kind.                          *)
WireOf(kind) == IF kind = "fastcgi" THEN Record ELSE Piece

(* What a backend sends, and any part of it, is a sequence of pieces.      *)
LEMMA WireTyped ==
  ASSUME NEW kind \in BackendKinds, NEW m \in Messages[kind]
  PROVE  /\ m.wire \in Seq(WireOf(kind)) /\ m.length \in Nat \cup {None} /\ Len(m.wire) \in Nat
         /\ kind = "proxy" => DataBehind(m.wire, {"H"})
         /\ kind = "fastcgi" =>
              /\ DataBehind(Stdout(m.wire), {"H", "N"})
              /\ \A k \in DOMAIN m.wire : m.wire[k].type = "end" => k = Len(m.wire)
  <1>1. /\ kind \in {"proxy", "websocket"} => m \in Messages["proxy"] \cup Messages["websocket"]
        /\ kind = "fastcgi" => m \in Messages["fastcgi"]
        /\ kind \in {"proxy", "websocket"} \/ kind = "fastcgi"
    BY DEF BackendKinds
  <1>2. CASE kind \in {"proxy", "websocket"}
    <2>1. IsMessage(m, Seq(Piece)) /\ DataBehind(m.wire, {"H"})
      BY <1>1, <1>2, ExchangeAssumption
    <2>2. m.wire \in Seq(Piece) /\ m.length \in Nat \cup {None}
      BY <2>1 DEF IsMessage
    <2>3. kind # "fastcgi"
      BY <1>2
    <2> QED  BY <2>1, <2>2, <2>3, LenProperties DEF WireOf
  <1>3. CASE kind = "fastcgi"
    <2>1. /\ IsMessage(m, Seq(Record)) /\ DataBehind(Stdout(m.wire), {"H", "N"})
          /\ \A k \in DOMAIN m.wire : m.wire[k].type = "end" => k = Len(m.wire)
      BY <1>1, <1>3, ExchangeAssumption
    <2>2. m.wire \in Seq(Record) /\ m.length \in Nat \cup {None}
      BY <2>1 DEF IsMessage
    <2> QED  BY <1>3, <2>1, <2>2, LenProperties DEF WireOf
  <1> QED  BY <1>1, <1>2, <1>3

(* A body behind the head has all data, when data is only there.           *)
LEMMA BodyHasData ==
  ASSUME NEW S, NEW w \in Seq(S), NEW ends, NEW p \in ends, Where(w, p) # 0,
         DataBehind(w, ends), \A q \in ends \ {p} : Where(w, q) = 0
  PROVE  DataIn(SubSeq(w, Where(w, p) + 1, Len(w))) = DataIn(w)
  <1> DEFINE h == Where(w, p)
  <1>1. h \in 0..Len(w)
    BY WhereFirst
  <1>2. ASSUME NEW i \in DOMAIN w, w[i] = "d" PROVE h < i
    <2>1. PICK j \in 1..i - 1 : w[j] \in ends
      BY <1>2 DEF DataBehind
    <2>2. j \in 1..Len(w) /\ i \in 1..Len(w)
      BY <2>1, LenProperties
    <2>3. w[j] = p
      <3>1. \A q \in ends \ {p} : w[j] # q
        BY <2>2, WhereFirst
      <3> QED  BY <2>1, <3>1
    <2>4. h <= j
      BY <2>2, <2>3, WhereFirst
    <2> QED  BY <1>1, <2>1, <2>2, <2>4
  <1> HIDE DEF h
  <1> QED  BY <1>1, <1>2, DataBehindHead DEF h

(* The proxy: an answer that is complete as far as it says, is complete.   *)
LEMMA ProxyWhole ==
  ASSUME NEW m \in Messages["proxy"], NEW n \in 0..Len(m.wire),
         n = Len(m.wire) \/ IsComplete(m, SubSeq(m.wire, 1, n)),
         Where(SubSeq(m.wire, 1, n), "H") # 0,
         ~(m.chunked /\ \E i \in 1..Len(m.wire) - 2 : m.wire[i] = "zero" /\ m.wire[i + 1] = "crlf"),
         m.length = None \/ m.length >= Len(BodyOf(m.wire))
  PROVE  DataIn(BodyOf(SubSeq(m.wire, 1, n))) = DataIn(m.wire)
  <1> DEFINE w == m.wire
             v == SubSeq(w, 1, n)
             h == Where(w, "H")
  <1>1. w \in Seq(Piece) /\ DataBehind(w, {"H"}) /\ m.length \in Nat \cup {None} /\ Len(w) \in Nat
    <2>1. "proxy" \in BackendKinds /\ WireOf("proxy") = Piece
      BY DEF BackendKinds, WireOf
    <2> QED  BY <2>1, WireTyped
  <1>2. v \in Seq(Piece) /\ Len(v) = n /\ \A i \in 1..n : v[i] = w[i]
    <2> HIDE DEF w
    <2> QED  BY <1>1 DEF w
  <1>3. Where(v, "H") = h /\ h \in 1..n
    <2>1. Where(v, "H") \in 0..n /\ Where(v, "H") # 0
      <3> HIDE DEF v
      <3> QED  BY <1>2, WhereFirst DEF v
    <2>2. Where(v, "H") = h
      BY <1>1, <2>1, WhereInPart
    <2> HIDE DEF v, h
    <2> QED  BY <2>1, <2>2
  <1>4. n = Len(w)
    <2> SUFFICES ASSUME IsComplete(m, v), n # Len(w) PROVE FALSE
      OBVIOUS
    <2>1. CASE m.length # None
      <3>1. n >= h + m.length
        <4> HIDE DEF v, h
        <4> QED  BY <1>2, <1>3, <2>1 DEF IsComplete
      <3>2. Len(BodyOf(w)) = Len(w) - h
        <4> HIDE DEF w
        <4>1. h \in 0..Len(w)
          BY <1>1, WhereFirst
        <4>2. BodyOf(w) = SubSeq(w, h + 1, Len(w))
          BY DEF BodyOf
        <4> HIDE DEF h
        <4> QED  BY <1>1, <4>1, <4>2
      <3>3. m.length >= Len(w) - h /\ m.length \in Nat
        BY <1>1, <2>1, <3>2
      <3> HIDE DEF v, h
      <3> QED  BY <1>1, <1>3, <3>1, <3>3
    <2>2. CASE m.length = None
      <3>1. m.chunked
        BY <2>2 DEF IsComplete
      <3>2. PICK i \in 1..n - 1 : v[i] = "zero" /\ v[i + 1] = "crlf"
        <4> HIDE DEF v
        <4> QED  BY <1>2, <2>2 DEF IsComplete
      <3>3. w[i] = "zero" /\ w[i + 1] = "crlf"
        <4>1. i \in 1..n /\ i + 1 \in 1..n
          OBVIOUS
        <4> HIDE DEF v
        <4> QED  BY <1>2, <3>2, <4>1
      <3>4. i \in 1..Len(w) - 2
        BY <1>1
      <3> QED  BY <3>1, <3>3, <3>4
    <2> QED  BY <2>1, <2>2
  <1>5. v = w
    <2> HIDE DEF w
    <2> QED  BY <1>1, <1>4, SubSeqFull
  <1>6. DataIn(SubSeq(w, Where(w, "H") + 1, Len(w))) = DataIn(w)
    <2>1. Where(w, "H") # 0
      BY <1>3
    <2> HIDE DEF w
    <2> QED  BY <1>1, <2>1, BodyHasData
  <1> QED  BY <1>5, <1>6 DEF BodyOf

(* FastCGI: what the records have behind the head.                         *)
LEMMA CgiWhole ==
  ASSUME NEW m \in Messages["fastcgi"], CgiResult(m, Stdout(m.wire)).ok,
         0 \in {Where(Stdout(m.wire), "N"), Where(Stdout(m.wire), "H")}
  PROVE  DataIn(CgiResult(m, Stdout(m.wire)).body) = DataIn(Stdout(m.wire))
  <1> DEFINE w == Stdout(m.wire)
  <1>1. w \in Seq(Piece) /\ DataBehind(w, {"H", "N"})
    <2>1. "fastcgi" \in BackendKinds /\ WireOf("fastcgi") = Record
      BY DEF BackendKinds, WireOf
    <2> QED  BY <2>1, WireTyped, DataOfRecords
  <1> HIDE DEF w
  <1>2. CASE Where(w, "H") # 0
    <2>1. \A q \in {"H", "N"} \ {"H"} : Where(w, q) = 0
      BY <1>2 DEF w
    <2>2. DataIn(SubSeq(w, Where(w, "H") + 1, Len(w))) = DataIn(w)
      BY <1>1, <1>2, <2>1, BodyHasData
    <2> QED  BY <1>2, <2>2 DEF CgiResult, BodyOf, w
  <1>3. CASE Where(w, "H") = 0
    <2>1. Where(w, "N") # 0
      BY <1>3 DEF CgiResult, NoResult, w
    <2>2. DataIn(SubSeq(w, Where(w, "N") + 1, Len(w))) = DataIn(w)
      BY <1>1, <1>3, <2>1, BodyHasData
    <2> QED  BY <1>3, <2>1, <2>2 DEF CgiResult, w
  <1> QED  BY <1>2, <1>3

(* How much data the records of an application have.                       *)
SentIn(w) ==
  Cardinality(UNION {{<<k, i>> : i \in {j \in DOMAIN w[k].content : w[k].content[j] = "d"}} :
                       k \in {n \in DOMAIN w : w[n].type = "stdout"}})

(* While an answer is read: it is not complete yet.                        *)
Reading(e) ==
  LET w == e.msg.wire  part == SubSeq(w, 1, e.got) IN
  e.at = "read" =>
    /\ e.kind \in BackendKinds /\ e.msg \in Messages[e.kind]
    /\ e.got \in 0..Len(w) /\ e.come \in Nat
    /\ ~e.msg.endless => e.got + e.come <= Len(w)
    /\ e.kind = "proxy" => ~IsComplete(e.msg, part)
    /\ e.kind = "websocket" => Where(part, "H") = 0
    /\ e.kind = "fastcgi" => (e.got > 0 => w[e.got].type # "end")

(* When it has been taken: it is whole.                                    *)
Taken(e) ==
  LET w == e.msg.wire IN
  e.at = "ended" /\ e.result.ok /\ ~e.msg.endless =>
    /\ e.kind = "fastcgi" =>
         /\ e.got = Len(w)
         /\ 0 \in {Where(Stdout(w), "N"), Where(Stdout(w), "H")} => DataIn(e.result.body) = SentIn(w)
    /\ /\ e.kind = "proxy" /\ ~(e.end = "closed" /\ e.got < Len(w)) /\ Len(w) <= Cap
       /\ ~(e.msg.chunked /\ \E i \in 1..Len(w) - 2 : w[i] = "zero" /\ w[i + 1] = "crlf")
       /\ e.msg.length = None \/ e.msg.length >= Len(BodyOf(w))
       => DataIn(e.result.body) = DataIn(w)

OfExchange(e) ==
  /\ DOMAIN e = ExchangeFields
  /\ e.at \in {"none", "send", "write", "read", "ended"}
  /\ e.at \in {"send", "write"} => e.kind \in BackendKinds /\ e.got = 0 /\ e.come = 0
  /\ Reading(e) /\ Taken(e)
ExchangeInv == OfExchange(exchange)

(* An exchange that ends without an answer.                                *)
LEMMA EndedWithout ==
  ASSUME ExchangeInv, Ended(NoResult)
  PROVE  ExchangeInv'
  <1>1. /\ DOMAIN exchange' = ExchangeFields /\ exchange'.at = "ended"
        /\ exchange'.result = NoResult
    BY DEF ExchangeInv, OfExchange, Ended, ExchangeFields
  <1>2. ~NoResult.ok
    BY DEF NoResult
  <1> QED  BY <1>1, <1>2 DEF ExchangeInv, OfExchange, Reading, Taken

(* The request has been sent: nothing of the answer has come.              *)
LEMMA SentKeeps ==
  ASSUME ExchangeInv, exchange.at \in {"send", "write"}, NEW stdin, Sent(stdin)
  PROVE  ExchangeInv'
  <1> SUFFICES ASSUME NEW m \in Messages[exchange.kind],
                      exchange' = [exchange EXCEPT !.at = "read", !.msg = m, !.stdin = stdin]
               PROVE  ExchangeInv'
    BY DEF Sent
  <1>1. /\ DOMAIN exchange = ExchangeFields /\ exchange.kind \in BackendKinds
        /\ exchange.got = 0 /\ exchange.come = 0
    BY DEF ExchangeInv, OfExchange
  <1>2. /\ DOMAIN exchange' = ExchangeFields /\ exchange'.at = "read" /\ exchange'.msg = m
        /\ exchange'.kind = exchange.kind /\ exchange'.got = 0 /\ exchange'.come = 0
    BY <1>1 DEF ExchangeFields
  <1>3. Len(m.wire) \in Nat
    BY <1>1, WireTyped
  <1>4. SubSeq(m.wire, 1, 0) = <<>>
    BY SubSeqEmpty
  <1>5. \A p : Where(<<>>, p) = 0
    <2>1. <<>> \in Seq({}) /\ Len(<<>>) = 0
      OBVIOUS
    <2>2. \A p : Where(<<>>, p) \in 0..0
      BY <2>1, WhereFirst
    <2> QED  BY <2>2
  <1>6. Reading(exchange')
    <2>1. SubSeq(exchange'.msg.wire, 1, exchange'.got) = <<>>
      BY <1>2, <1>4
    <2>2. ~IsComplete(exchange'.msg, <<>>) /\ Where(<<>>, "H") = 0
      BY <1>5 DEF IsComplete
    <2>3. /\ exchange'.got \in 0..Len(exchange'.msg.wire) /\ exchange'.come \in Nat
          /\ exchange'.got + exchange'.come <= Len(exchange'.msg.wire)
          /\ ~(exchange'.got > 0)
      BY <1>2, <1>3
    <2> QED  BY <1>1, <1>2, <2>1, <2>2, <2>3 DEF Reading
  <1> QED  BY <1>2, <1>6 DEF ExchangeInv, OfExchange, Taken

(* A step of sending the request: nothing has come.                        *)
LEMMA SendKeeps ==
  ASSUME ExchangeInv, Send \/ Write
  PROVE  ExchangeInv'
  <1>1. exchange.at \in {"send", "write"}
    BY DEF Send, Write
  <1>2. CASE exchange' = [exchange EXCEPT !.at = "write"]
    <2>1. DOMAIN exchange = ExchangeFields
      BY DEF ExchangeInv, OfExchange
    <2>2. /\ DOMAIN exchange' = ExchangeFields /\ exchange'.at = "write"
          /\ exchange'.kind = exchange.kind /\ exchange'.got = exchange.got
          /\ exchange'.come = exchange.come
      BY <1>2, <2>1 DEF ExchangeFields
    <2> QED  BY <1>1, <2>2 DEF ExchangeInv, OfExchange, Reading, Taken
  <1>3. \/ Ended(NoResult)
        \/ \E n : Sent(n)
        \/ exchange' = [exchange EXCEPT !.at = "write"]
    <2> HIDE DEF Ended, Sent
    <2> QED  BY DEF Send, Write
  <1> QED  BY <1>1, <1>2, <1>3, EndedWithout, SentKeeps

(* An application that stops reading has not answered yet.                 *)
LEMMA StallKeeps ==
  ASSUME ExchangeInv, exchange.at = "write", BackendStep
  PROVE  ExchangeInv'
  <1>1. DOMAIN exchange = ExchangeFields /\ exchange' = [exchange EXCEPT !.end = "stalled"]
    BY DEF ExchangeInv, OfExchange, BackendStep, BackendSends, BackendCloses, BackendStalls, Silent
  <1>2. /\ DOMAIN exchange' = ExchangeFields /\ exchange'.at = "write"
        /\ exchange'.kind = exchange.kind /\ exchange'.got = exchange.got
        /\ exchange'.come = exchange.come
    BY <1>1 DEF ExchangeFields
  <1> QED  BY <1>2 DEF ExchangeInv, OfExchange, Reading, Taken

(* What the backend does changes nothing that was read.                    *)
LEMMA BackendKeeps ==
  ASSUME ExchangeInv, BackendStep
  PROVE  ExchangeInv'
  <1> SUFFICES ASSUME exchange.at # "write" PROVE ExchangeInv'
    BY StallKeeps
  <1>1. /\ DOMAIN exchange = ExchangeFields /\ exchange.at = "read" /\ Reading(exchange)
        /\ exchange.come = 0
    BY DEF ExchangeInv, OfExchange, BackendStep, BackendSends, BackendCloses, BackendStalls, Silent
  <1>2. Len(exchange.msg.wire) \in Nat /\ exchange.got \in 0..Len(exchange.msg.wire)
    BY <1>1, WireTyped DEF Reading
  <1>3. /\ DOMAIN exchange' = ExchangeFields /\ exchange'.at = "read"
        /\ exchange'.msg = exchange.msg /\ exchange'.kind = exchange.kind
        /\ exchange'.got = exchange.got /\ exchange'.come \in Nat
        /\ ~exchange.msg.endless => exchange.got + exchange'.come <= Len(exchange.msg.wire)
    <2>1. CASE BackendCloses \/ BackendStalls
      <3>1. /\ DOMAIN exchange' = ExchangeFields /\ exchange'.at = "read"
            /\ exchange'.msg = exchange.msg /\ exchange'.kind = exchange.kind
            /\ exchange'.got = exchange.got /\ exchange'.come = 0
        BY <1>1, <2>1 DEF BackendCloses, BackendStalls, ExchangeFields
      <3> QED  BY <1>2, <3>1
    <2>2. CASE BackendSends
      <3> DEFINE rest == Len(exchange.msg.wire) - exchange.got
                 most == IF exchange.kind = "fastcgi" \/ exchange.msg.endless THEN 1 ELSE rest
      <3>1. PICK n \in 1..most : exchange' = [exchange EXCEPT !.come = n]
        BY <2>2 DEF BackendSends
      <3>2. rest > 0 \/ exchange.msg.endless
        BY <2>2 DEF BackendSends
      <3>3. n \in Nat /\ (~exchange.msg.endless => n <= rest)
        BY <1>2, <3>2
      <3> HIDE DEF most
      <3>4. /\ DOMAIN exchange' = ExchangeFields /\ exchange'.at = "read"
            /\ exchange'.msg = exchange.msg /\ exchange'.kind = exchange.kind
            /\ exchange'.got = exchange.got /\ exchange'.come = n
        BY <1>1, <3>1 DEF ExchangeFields
      <3> QED  BY <1>2, <3>3, <3>4
    <2> QED  BY <2>1, <2>2 DEF BackendStep
  <1>4. Reading(exchange')
    BY <1>1, <1>3 DEF Reading
  <1> QED  BY <1>3, <1>4 DEF ExchangeInv, OfExchange, Taken

(* What has been read when what came has been.                             *)
LEMMA PartRead ==
  ASSUME ExchangeInv, exchange.at = "read", exchange.come > 0
  PROVE  LET w == exchange.msg.wire  n == Len(GotNow) IN
         /\ n \in 0..Len(w) /\ Len(w) \in Nat /\ GotNow = SubSeq(w, 1, n)
         /\ ~exchange.msg.endless => n > 0
         /\ n > 0 => Last(GotNow) = w[n]
  <1> DEFINE w == exchange.msg.wire
             S == WireOf(exchange.kind)
             k == Least(exchange.got + exchange.come, Len(w))
  <1>1. /\ exchange.got \in 0..Len(w) /\ exchange.come \in Nat \ {0}
        /\ ~exchange.msg.endless => exchange.got + exchange.come <= Len(w)
        /\ w \in Seq(S) /\ Len(w) \in Nat
    <2>1. Reading(exchange)
      BY DEF ExchangeInv, OfExchange
    <2> QED  BY <2>1, WireTyped DEF Reading
  <1> HIDE DEF w, S
  <1>2. k \in 0..Len(w) /\ (~exchange.msg.endless => k > 0)
    BY <1>1 DEF Least
  <1> HIDE DEF k
  <1>3. GotNow = SubSeq(w, 1, k)
    BY DEF GotNow, w, k
  <1>4. Len(SubSeq(w, 1, k)) = k /\ \A i \in 1..k : SubSeq(w, 1, k)[i] = w[i]
    BY <1>1, <1>2
  <1>5. Len(GotNow) = k /\ (k > 0 => Last(GotNow) = w[k])
    BY <1>2, <1>3, <1>4 DEF Last
  <1> HIDE DEF GotNow
  <1> QED  BY <1>1, <1>2, <1>3, <1>5 DEF w

(* The loop goes on: what was read is not complete.                        *)
LEMMA MoreKeeps ==
  ASSUME ExchangeInv, exchange.at = "read", exchange.come > 0, MoreToRead,
         exchange.kind = "proxy" => ~IsComplete(exchange.msg, GotNow),
         exchange.kind = "websocket" => Where(GotNow, "H") = 0,
         exchange.kind = "fastcgi" => Last(GotNow).type # "end"
  PROVE  ExchangeInv'
  <1> DEFINE w == exchange.msg.wire
             n == Len(GotNow)
  <1>1. /\ n \in 0..Len(w) /\ Len(w) \in Nat /\ GotNow = SubSeq(w, 1, n)
        /\ n > 0 => Last(GotNow) = w[n]
    BY PartRead
  <1>2. /\ DOMAIN exchange = ExchangeFields /\ exchange.kind \in BackendKinds
        /\ exchange.msg \in Messages[exchange.kind]
    BY DEF ExchangeInv, OfExchange, Reading
  <1>3. exchange' = [exchange EXCEPT !.got = n, !.come = 0]
    BY DEF MoreToRead
  <1> HIDE DEF n
  <1>4. /\ DOMAIN exchange' = ExchangeFields /\ exchange'.at = "read"
        /\ exchange'.msg = exchange.msg /\ exchange'.kind = exchange.kind
        /\ exchange'.got = n /\ exchange'.come = 0
    BY <1>2, <1>3 DEF ExchangeFields
  <1>5. Reading(exchange')
    <2>1. n + 0 <= Len(w) /\ 0 \in Nat
      BY <1>1
    <2> HIDE DEF GotNow
    <2> QED  BY <1>1, <1>2, <1>4, <2>1 DEF Reading
  <1> QED  BY <1>4, <1>5 DEF ExchangeInv, OfExchange, Taken

(* The loop ends, with a result.                                           *)
LEMMA EndsFields ==
  ASSUME ExchangeInv, exchange.at = "read", NEW r, EndsWith(r)
  PROVE  /\ DOMAIN exchange' = ExchangeFields /\ exchange'.at = "ended"
         /\ exchange'.msg = exchange.msg /\ exchange'.kind = exchange.kind
         /\ exchange'.end = exchange.end /\ exchange'.got = Len(GotNow) /\ exchange'.result = r
         /\ exchange.kind \in BackendKinds /\ exchange.msg \in Messages[exchange.kind]
  <1>1. /\ DOMAIN exchange = ExchangeFields
        /\ exchange.kind \in BackendKinds /\ exchange.msg \in Messages[exchange.kind]
    BY DEF ExchangeInv, OfExchange, Reading
  <1>2. exchange' = [exchange EXCEPT !.got = Len(GotNow), !.come = 0, !.at = "ended", !.result = r]
    BY DEF EndsWith
  <1> HIDE DEF GotNow
  <1> QED  BY <1>1, <1>2 DEF ExchangeFields

(* An exchange that has ended.                                             *)
LEMMA TakenKeeps ==
  ASSUME DOMAIN exchange' = ExchangeFields, exchange'.at = "ended", Taken(exchange')
  PROVE  ExchangeInv'
  BY DEF ExchangeInv, OfExchange, Reading

(* read_response: what is read so far is a part of what was sent.          *)
LEMMA ReadProxyKeeps == ExchangeInv /\ exchange.at = "read" /\ ReadProxy => ExchangeInv'
  <1> SUFFICES ASSUME ExchangeInv, exchange.at = "read", ReadProxy PROVE ExchangeInv'
    OBVIOUS
  <1> DEFINE w == exchange.msg.wire
             m == exchange.msg
             n == Len(GotNow)
             r == ProxyResult(m, GotNow)
  <1>1. exchange.kind = "proxy" /\ exchange.come > 0
    BY DEF ReadProxy
  <1>2. n \in 0..Len(w) /\ Len(w) \in Nat /\ GotNow = SubSeq(w, 1, n)
    BY <1>1, PartRead
  <1>3. CASE ~(IsComplete(m, GotNow) \/ n > Cap)
    <2>1. MoreToRead
      BY <1>3 DEF ReadProxy
    <2> QED  BY <1>1, <1>3, <2>1, MoreKeeps
  <1>4. CASE IsComplete(m, GotNow) \/ n > Cap
    <2>1. EndsWith(r)
      BY <1>4 DEF ReadProxy
    <2>2. /\ DOMAIN exchange' = ExchangeFields /\ exchange'.at = "ended"
          /\ exchange'.msg = m /\ exchange'.kind = "proxy"
          /\ exchange'.end = exchange.end /\ exchange'.got = n /\ exchange'.result = r
          /\ m \in Messages["proxy"]
      BY <1>1, <2>1, EndsFields
    <2>3. ASSUME r.ok, Len(w) <= Cap,
                 ~(m.chunked /\ \E i \in 1..Len(w) - 2 : w[i] = "zero" /\ w[i + 1] = "crlf"),
                 m.length = None \/ m.length >= Len(BodyOf(w))
          PROVE  DataIn(r.body) = DataIn(w)
      <3>1. IsComplete(m, GotNow)
        <4> HIDE DEF n
        <4>1. Cap \in Nat
          BY ExchangeAssumption
        <4> QED  BY <1>2, <1>4, <2>3, <4>1
      <3>2. Where(GotNow, "H") # 0 /\ r.body = BodyOf(GotNow)
        BY <2>3 DEF ProxyResult, NoResult
      <3>3. DataIn(BodyOf(SubSeq(m.wire, 1, n))) = DataIn(m.wire)
        <4> HIDE DEF n, GotNow
        <4> QED  BY <1>2, <2>2, <2>3, <3>1, <3>2, ProxyWhole
      <3> HIDE DEF n, r
      <3> QED  BY <1>2, <3>2, <3>3
    <2> HIDE DEF r, n
    <2>4. Taken(exchange')
      BY <2>2, <2>3 DEF Taken
    <2> QED  BY <2>2, <2>4, TakenKeeps
  <1> QED  BY <1>3, <1>4

(* So it is while the head of the answer to a handshake is read.           *)
LEMMA ReadWebSocketKeeps == ExchangeInv /\ exchange.at = "read" /\ ReadWebSocket => ExchangeInv'
  <1> SUFFICES ASSUME ExchangeInv, exchange.at = "read", ReadWebSocket PROVE ExchangeInv'
    OBVIOUS
  <1>1. exchange.kind = "websocket" /\ exchange.come > 0
    BY DEF ReadWebSocket
  <1>2. (\E r : EndsWith(r)) \/ (Where(GotNow, "H") = 0 /\ MoreToRead)
    <2> HIDE DEF EndsWith, MoreToRead
    <2> QED  BY DEF ReadWebSocket
  <1>3. ASSUME NEW r, EndsWith(r) PROVE ExchangeInv'
    <2>1. /\ DOMAIN exchange' = ExchangeFields /\ exchange'.at = "ended"
          /\ exchange'.kind = "websocket"
      BY <1>1, <1>3, EndsFields
    <2> QED  BY <2>1, TakenKeeps DEF Taken
  <1> QED  BY <1>1, <1>2, <1>3, MoreKeeps

(* So it is with the records of a FastCGI answer.                          *)
LEMMA ReadRecordKeeps == ExchangeInv /\ exchange.at = "read" /\ ReadRecord => ExchangeInv'
  <1> SUFFICES ASSUME ExchangeInv, exchange.at = "read", ReadRecord PROVE ExchangeInv'
    OBVIOUS
  <1> DEFINE w == exchange.msg.wire
             m == exchange.msg
             n == Len(GotNow)
             r == CgiResult(m, Stdout(GotNow))
  <1>1. exchange.kind = "fastcgi" /\ exchange.come > 0
    BY DEF ReadRecord
  <1>2. /\ n \in 0..Len(w) /\ Len(w) \in Nat /\ GotNow = SubSeq(w, 1, n)
        /\ ~m.endless => n > 0
        /\ n > 0 => Last(GotNow) = w[n]
    BY <1>1, PartRead
  <1>3. CASE Last(GotNow).type # "end"
    <2>1. MoreToRead
      BY <1>3 DEF ReadRecord
    <2> QED  BY <1>1, <1>3, <2>1, MoreKeeps
  <1>4. CASE Last(GotNow).type = "end"
    <2>1. EndsWith(r)
      BY <1>4 DEF ReadRecord
    <2>2. /\ DOMAIN exchange' = ExchangeFields /\ exchange'.at = "ended"
          /\ exchange'.msg = m /\ exchange'.kind = "fastcgi"
          /\ exchange'.got = n /\ exchange'.result = r
          /\ m \in Messages["fastcgi"]
      BY <1>1, <2>1, EndsFields
    <2>3. /\ w \in Seq(Record)
          /\ \A k \in DOMAIN w : w[k].type = "end" => k = Len(w)
      <3>1. "fastcgi" \in BackendKinds /\ WireOf("fastcgi") = Record
        BY DEF BackendKinds, WireOf
      <3> QED  BY <2>2, <3>1, WireTyped
    <2>4. ASSUME ~m.endless PROVE n = Len(w) /\ GotNow = w
      <3>1. w[n].type = "end" /\ n \in 1..Len(w)
        <4> HIDE DEF n, GotNow
        <4> QED  BY <1>2, <1>4, <2>4
      <3>2. n = Len(w)
        <4> HIDE DEF n
        <4> QED  BY <2>3, <3>1, LenProperties
      <3> HIDE DEF n, GotNow, w
      <3> QED  BY <1>2, <2>3, <3>2, SubSeqFull
    <2>5. ASSUME r.ok, ~m.endless, 0 \in {Where(Stdout(w), "N"), Where(Stdout(w), "H")}
          PROVE  DataIn(r.body) = SentIn(w)
      <3>1. r = CgiResult(m, Stdout(m.wire))
        BY <2>4, <2>5
      <3>2. DataIn(r.body) = DataIn(Stdout(w))
        <4> HIDE DEF r
        <4> QED  BY <2>2, <2>5, <3>1, CgiWhole
      <3>3. DataIn(Stdout(w)) = SentIn(w)
        <4> HIDE DEF w
        <4> QED  BY <2>3, DataOfRecords DEF SentIn
      <3> QED  BY <3>2, <3>3
    <2> HIDE DEF r, n
    <2>6. Taken(exchange')
      BY <2>2, <2>4, <2>5 DEF Taken
    <2> QED  BY <2>2, <2>6, TakenKeeps
  <1> QED  BY <1>3, <1>4

(* The end of the connection.                                              *)
LEMMA ReadEndKeeps == ExchangeInv /\ exchange.at = "read" /\ ReadEnd => ExchangeInv'
  <1> SUFFICES ASSUME ExchangeInv, exchange.at = "read", ReadEnd PROVE ExchangeInv'
    OBVIOUS
  <1>1. CASE exchange.kind # "proxy"
    BY <1>1, EndedWithout DEF ReadEnd
  <1>2. CASE exchange.kind = "proxy"
    <2> DEFINE w == exchange.msg.wire
               m == exchange.msg
               r == ProxyResult(m, Got)
    <2>1. exchange' = [exchange EXCEPT !.at = "ended", !.result = r]
      BY <1>2 DEF ReadEnd, Ended
    <2>2. /\ DOMAIN exchange = ExchangeFields /\ m \in Messages["proxy"]
          /\ exchange.got \in 0..Len(w) /\ Len(w) \in Nat
      <3>1. Reading(exchange) /\ DOMAIN exchange = ExchangeFields
        BY DEF ExchangeInv, OfExchange
      <3> QED  BY <1>2, <3>1, WireTyped DEF Reading
    <2> HIDE DEF r
    <2>3. /\ DOMAIN exchange' = ExchangeFields /\ exchange'.at = "ended"
          /\ exchange'.msg = m /\ exchange'.kind = "proxy" /\ exchange'.end = "closed"
          /\ exchange'.got = exchange.got /\ exchange'.result = r
      BY <1>2, <2>1, <2>2 DEF ExchangeFields, ReadEnd
    <2>4. ASSUME r.ok, ~(exchange.got < Len(w)),
                 ~(m.chunked /\ \E i \in 1..Len(w) - 2 : w[i] = "zero" /\ w[i + 1] = "crlf"),
                 m.length = None \/ m.length >= Len(BodyOf(w))
          PROVE  DataIn(r.body) = DataIn(w)
      <3>1. exchange.got = Len(w)
        BY <2>2, <2>4
      <3>2. Got = SubSeq(m.wire, 1, Len(m.wire))
        BY <3>1 DEF Got
      <3>3. Where(Got, "H") # 0 /\ r.body = BodyOf(Got)
        BY <2>4 DEF ProxyResult, NoResult, r
      <3>4. Len(m.wire) \in 0..Len(m.wire)
        BY <2>2
      <3>5. DataIn(BodyOf(SubSeq(m.wire, 1, Len(m.wire)))) = DataIn(m.wire)
        BY <2>2, <2>4, <3>2, <3>3, <3>4, ProxyWhole
      <3> QED  BY <3>2, <3>3, <3>5
    <2>5. Taken(exchange')
      BY <2>3, <2>4 DEF Taken
    <2> QED  BY <2>3, <2>5, TakenKeeps
  <1> QED  BY <1>1, <1>2

(* Every step keeps what is known of the exchange.                         *)
LEMMA NextExchangeInv == JobInv /\ ExchangeInv /\ [Next]_vars => ExchangeInv'
  <1> SUFFICES ASSUME JobInv, ExchangeInv, [Next]_vars PROVE ExchangeInv'
    OBVIOUS
  <1>1. CASE UNCHANGED exchange
    BY <1>1 DEF ExchangeInv
  <1>2. ASSUME NEW kind \in BackendKinds, NEW body \in Nat, exchange' = Begun(kind, body)
        PROVE  ExchangeInv'
    <2>1. /\ DOMAIN exchange' = ExchangeFields /\ exchange'.at = "send" /\ exchange'.kind = kind
          /\ exchange'.got = 0 /\ exchange'.come = 0
      BY <1>2, BegunFields
    <2> QED  BY <2>1 DEF ExchangeInv, OfExchange, Reading, Taken
  <1>3. CASE ExchangeStep
    <2>1. ReadTimeout => Ended(NoResult)
      BY DEF ReadTimeout
    <2> QED  BY <1>3, <2>1, SendKeeps, ReadProxyKeeps, ReadWebSocketKeeps, ReadRecordKeeps,
             ReadEndKeeps, EndedWithout DEF ExchangeStep
  <1> QED  BY <1>1, <1>2, <1>3, ExchangeMoves, BackendKeeps

(* What has all been read says nothing more of an end.                     *)
LEMMA EndIsSeen ==
  ASSUME ExchangeInv, exchange.at = "read", SelfDelimited
  PROVE  exchange.got < Len(exchange.msg.wire)
  <1> DEFINE w == exchange.msg.wire
             m == exchange.msg
             S == WireOf(exchange.kind)
  <1>1. /\ exchange.kind \in BackendKinds /\ exchange.got \in 0..Len(w)
        /\ w \in Seq(S) /\ Len(w) \in Nat /\ w # <<>>
        /\ m.length \in Nat \cup {None}
    <2>1. Reading(exchange) /\ w # <<>>
      BY DEF ExchangeInv, OfExchange, SelfDelimited
    <2> QED  BY <2>1, WireTyped DEF Reading
  <1> SUFFICES ASSUME exchange.got = Len(w) PROVE FALSE
    BY <1>1
  <1>2. SubSeq(w, 1, exchange.got) = w
    <2> HIDE DEF w
    <2> QED  BY <1>1, SubSeqFull
  <1>3. /\ exchange.kind = "proxy" => ~IsComplete(m, w)
        /\ exchange.kind = "websocket" => Where(w, "H") = 0
        /\ exchange.kind = "fastcgi" => (Len(w) > 0 => w[Len(w)].type # "end")
    BY <1>2 DEF ExchangeInv, OfExchange, Reading
  <1>4. Len(w) > 0
    <2> HIDE DEF w, S
    <2> QED  BY <1>1, EmptySeq
  <1>5. CASE exchange.kind = "proxy"
    <2>1. /\ Where(w, "H") # 0
          /\ IF m.length # None THEN m.length = Len(BodyOf(w))
             ELSE m.chunked /\ \E i \in 1..Len(w) - 1 :
                    i + 1 = Len(w) /\ w[i] = "zero" /\ w[i + 1] = "crlf"
      BY <1>5 DEF SelfDelimited
    <2>2. CASE m.length # None
      <3> DEFINE h == Where(w, "H")
      <3>1. h \in 0..Len(w)
        <4> HIDE DEF w, S
        <4> QED  BY <1>1, WhereFirst
      <3>2. m.length = Len(SubSeq(w, h + 1, Len(w)))
        BY <2>1, <2>2 DEF BodyOf
      <3> HIDE DEF h, w, S
      <3>3. Len(SubSeq(w, h + 1, Len(w))) = Len(w) - h
        BY <1>1, <3>1
      <3>4. Len(w) >= h + m.length
        BY <1>1, <3>1, <3>2, <3>3
      <3> QED  BY <1>3, <1>5, <2>1, <2>2, <3>4 DEF IsComplete, h
    <2>3. CASE m.length = None
      <3> HIDE DEF w
      <3> QED  BY <1>3, <1>5, <2>1, <2>3 DEF IsComplete
    <2> QED  BY <2>2, <2>3
  <1>6. CASE exchange.kind = "fastcgi"
    BY <1>3, <1>4, <1>6 DEF SelfDelimited, Last
  <1>7. CASE exchange.kind = "websocket"
    <2>1. w[Len(w)] = "H" /\ Len(w) \in 1..Len(w)
      BY <1>1, <1>4, <1>7 DEF SelfDelimited, Last
    <2> HIDE DEF w, S
    <2> QED  BY <1>1, <1>3, <1>7, <2>1, WhereFirst
  <1> QED  BY <1>1, <1>5, <1>6, <1>7 DEF BackendKinds

(* proxy/mod.rs, fastcgi/mod.rs: an answer that is taken is all that the   *)
(* backend sent, and nobody waits for more of one that says where it ends. *)
THEOREM AnswerIsWholeHolds == Spec => []AnswerIsWhole
  <1>1. Init => ExchangeInv
    <2> SUFFICES ASSUME Init PROVE ExchangeInv
      OBVIOUS
    <2>1. exchange = NoExchange
      BY DEF Init
    <2>2. DOMAIN NoExchange = ExchangeFields /\ NoExchange.at = "none"
      BY DEF NoExchange, ExchangeFields
    <2> HIDE DEF NoExchange
    <2> QED  BY <2>1, <2>2 DEF ExchangeInv, OfExchange, Reading, Taken
  <1>2. ExchangeInv => AnswerIsWhole
    <2> SUFFICES ASSUME ExchangeInv PROVE AnswerIsWhole
      OBVIOUS
    <2>1. ASSUME exchange.at = "read", SelfDelimited
          PROVE  exchange.got < Len(exchange.msg.wire)
      BY <2>1, EndIsSeen
    <2> DEFINE w == exchange.msg.wire
    <2>2. ASSUME exchange.at = "ended", exchange.result.ok, ~exchange.msg.endless
          PROVE  CASE exchange.kind = "fastcgi" ->
                        exchange.got = Len(w) /\ (~TwoEnds => DataIn(exchange.result.body) = DataSent)
                   [] exchange.kind = "proxy" /\ ~CutShort /\ Len(w) <= Cap /\ ~LooksLikeEnd ->
                        exchange.msg.length = None \/ exchange.msg.length >= Len(BodyOf(w)) =>
                          DataIn(exchange.result.body) = DataSent
                   [] OTHER -> TRUE
      <3>1. Taken(exchange)
        BY DEF ExchangeInv, OfExchange
      <3>2. CASE exchange.kind = "fastcgi"
        <4>1. DataSent = SentIn(w)
          BY <3>2 DEF DataSent, SentIn
        <4>2. ~TwoEnds => 0 \in {Where(Stdout(w), "N"), Where(Stdout(w), "H")}
          BY DEF TwoEnds
        <4>3. exchange.got = Len(w) /\ (~TwoEnds => DataIn(exchange.result.body) = DataSent)
          BY <2>2, <3>1, <3>2, <4>1, <4>2 DEF Taken
        <4> QED  BY <3>2, <4>3
      <3>3. CASE exchange.kind = "proxy"
        <4>1. DataSent = DataIn(w)
          BY <3>3 DEF DataSent
        <4>2. ASSUME ~CutShort, Len(w) <= Cap, ~LooksLikeEnd,
                     exchange.msg.length = None \/ exchange.msg.length >= Len(BodyOf(w))
              PROVE  DataIn(exchange.result.body) = DataSent
          BY <2>2, <3>1, <3>3, <4>1, <4>2 DEF Taken, CutShort, LooksLikeEnd
        <4> QED  BY <3>3, <4>2
      <3>4. CASE exchange.kind \notin {"fastcgi", "proxy"}
        BY <3>4
      <3> QED  BY <3>2, <3>3, <3>4
    <2> QED  BY <2>1, <2>2 DEF AnswerIsWhole
  <1> QED  BY <1>1, <1>2, InitJobInv, NextJobInv, NextExchangeInv, PTL DEF Spec

-----------------------------------------------------------------------------
(***************************************************************************)
(* The location: the pass over the locations finds the preferred one       *)
(***************************************************************************)

(* The best, so far, of the locations of one rank: 0 when there is none.   *)
IsBest(L, path, k, r, m) ==
  /\ m \in 0..k
  /\ m = 0 => \A i \in 1..k : ~(Fits(L[i], path) /\ Rank(L[i]) = r)
  /\ m # 0 => /\ Fits(L[m], path) /\ Rank(L[m]) = r
              /\ \A i \in (1..k) \ {m} :
                   Fits(L[i], path) /\ Rank(L[i]) = r => Beats(L, m, i)

(* A location that fits by a prefix has a length.                          *)
LEMMA SizeKnown ==
  ASSUME NEW a, NEW path, Fits(a, path), Rank(a) \in {1, 3}
  PROVE  Size(a) \in Nat
  <1>1. KindOf(a) # "=" /\ KindOf(a) \notin {"~", "~*"}
    BY DEF Rank
  <1>2. Pattern(a) \in DOMAIN Spell
    BY <1>1 DEF Fits
  <1> QED  BY <1>2, RoutingAssumption, LenProperties DEF Size

(* Which kinds of location have which rank.                                *)
LEMMA RankRange ==
  ASSUME NEW a
  PROVE  /\ Rank(a) \in 1..4
         /\ Rank(a) = 4 <=> KindOf(a) = "="
         /\ Rank(a) = 3 <=> KindOf(a) = "^~"
         /\ Rank(a) = 2 <=> KindOf(a) \in {"~", "~*"}
  BY DEF Rank

(* A location that does not fit, or is of another rank, changes nothing.   *)
LEMMA OtherRank ==
  ASSUME NEW L, NEW path, NEW k \in Nat, NEW r, NEW m, IsBest(L, path, k, r, m),
         ~(Fits(L[k + 1], path) /\ Rank(L[k + 1]) = r)
  PROVE  IsBest(L, path, k + 1, r, m)
  <1>1. \A i \in 1..k + 1 : i \in 1..k \/ i = k + 1
    OBVIOUS
  <1>2. m \in 0..k + 1
    BY DEF IsBest
  <1> QED  BY <1>1, <1>2 DEF IsBest

(* The first stays the best, where lengths do not count.                   *)
LEMMA FirstWins ==
  ASSUME NEW L, NEW path, NEW k \in Nat, NEW r \in {2, 4}, NEW m, IsBest(L, path, k, r, m),
         Fits(L[k + 1], path), Rank(L[k + 1]) = r
  PROVE  IsBest(L, path, k + 1, r, IF m = 0 THEN k + 1 ELSE m)
  <1>1. \A i \in 1..k + 1 : i \in 1..k \/ i = k + 1
    OBVIOUS
  <1>2. m \in 0..k
    BY DEF IsBest
  <1>3. CASE m = 0
    BY <1>1, <1>3 DEF IsBest
  <1>4. CASE m # 0
    <2>1. Beats(L, m, k + 1)
      BY <1>2, <1>4 DEF Beats, IsBest
    <2> QED  BY <1>1, <1>2, <1>4, <2>1 DEF IsBest
  <1> QED  BY <1>3, <1>4

(* The longest wins, and of those the first.                               *)
LEMMA LongestWins ==
  ASSUME NEW L, NEW path, NEW k \in Nat, NEW r \in {1, 3}, NEW m, IsBest(L, path, k, r, m),
         Fits(L[k + 1], path), Rank(L[k + 1]) = r
  PROVE  IsBest(L, path, k + 1, r, IF Better(L, k + 1, m) THEN k + 1 ELSE m)
  <1>1. \A i \in 1..k + 1 : i \in 1..k \/ i = k + 1
    OBVIOUS
  <1>2. m \in 0..k /\ Size(L[k + 1]) \in Nat
    BY SizeKnown DEF IsBest
  <1>3. CASE m = 0
    BY <1>1, <1>3 DEF IsBest, Better
  <1>4. CASE m # 0 /\ ~(Size(L[k + 1]) > Size(L[m]))
    <2>1. Rank(L[m]) = r /\ Size(L[m]) \in Nat
      BY <1>4, SizeKnown DEF IsBest
    <2>2. Beats(L, m, k + 1)
      BY <1>2, <1>4, <2>1 DEF Beats
    <2>3. ~Better(L, k + 1, m)
      BY <1>4 DEF Better
    <2> QED  BY <1>1, <1>2, <1>4, <2>2, <2>3 DEF IsBest
  <1>5. CASE m # 0 /\ Size(L[k + 1]) > Size(L[m])
    <2>1. Rank(L[m]) = r /\ Size(L[m]) \in Nat
      BY <1>5, SizeKnown DEF IsBest
    <2>2. ASSUME NEW i \in 1..k, Fits(L[i], path), Rank(L[i]) = r
          PROVE  Beats(L, k + 1, i)
      <3>1. Size(L[i]) \in Nat
        BY <2>2, SizeKnown
      <3>2. CASE i = m
        BY <1>5, <2>1, <3>2 DEF Beats
      <3>3. CASE i # m
        <4>1. Beats(L, m, i)
          BY <1>5, <2>2, <3>3 DEF IsBest
        <4>2. Size(L[m]) >= Size(L[i])
          BY <2>1, <2>2, <3>1, <4>1 DEF Beats
        <4>3. Size(L[k + 1]) > Size(L[i])
          BY <1>2, <1>5, <2>1, <3>1, <4>2
        <4> QED  BY <2>2, <4>3 DEF Beats
      <3> QED  BY <3>2, <3>3
    <2>3. Better(L, k + 1, m)
      BY <1>5 DEF Better
    <2>4. k + 1 # 0 /\ k + 1 \in 0..k + 1
      OBVIOUS
    <2> QED  BY <1>1, <2>2, <2>3, <2>4 DEF IsBest
  <1> QED  BY <1>3, <1>4, <1>5

(* Of two locations that fit at most one beats the other.                  *)
LEMMA BeatsOneWay ==
  ASSUME NEW L, NEW path, NEW i \in Nat, NEW j \in Nat, Fits(L[i], path), Fits(L[j], path),
         Beats(L, i, j)
  PROVE  ~Beats(L, j, i)
  <1>1. Rank(L[i]) \in 1..4 /\ Rank(L[j]) \in 1..4
    BY RankRange
  <1>2. CASE Rank(L[i]) # Rank(L[j])
    BY <1>1, <1>2 DEF Beats
  <1>3. CASE Rank(L[i]) = Rank(L[j]) /\ Rank(L[i]) \in {1, 3}
    <2>1. Size(L[i]) \in Nat /\ Size(L[j]) \in Nat
      BY <1>3, SizeKnown
    <2> QED  BY <1>1, <1>3, <2>1 DEF Beats
  <1>4. CASE Rank(L[i]) = Rank(L[j]) /\ Rank(L[i]) \notin {1, 3}
    BY <1>1, <1>4 DEF Beats
  <1> QED  BY <1>2, <1>3, <1>4

(* One location of the pass, as in Best.                                   *)
PassOver(L, path, best, n) ==
  LET kind == KindOf(L[n]) IN
  IF best.exact # 0 \/ ~Fits(L[n], path) THEN best
  ELSE CASE kind = "=" -> [best EXCEPT !.exact = n]
         [] kind = "^~" -> [best EXCEPT !.no_regex = IF Better(L, n, @) THEN n ELSE @]
         [] kind \in {"~", "~*"} -> [best EXCEPT !.regex = IF @ = 0 THEN n ELSE @]
         [] OTHER -> [best EXCEPT !.prefix = IF Better(L, n, @) THEN n ELSE @]
Bests(n) == [exact : 0..n, no_regex : 0..n, regex : 0..n, prefix : 0..n]

(* What a location of the pass does, one kind at a time.                   *)
LEMMA PassOverCases ==
  ASSUME NEW n \in Nat, NEW best \in Bests(n), NEW L, NEW path, NEW k \in 1..n
  PROVE  LET to == PassOver(L, path, best, k)  r == Rank(L[k]) IN
         /\ to \in Bests(n)
         /\ best.exact # 0 \/ ~Fits(L[k], path) => to = best
         /\ best.exact = 0 /\ Fits(L[k], path) =>
              /\ to.exact = IF r = 4 THEN k ELSE 0
              /\ to.no_regex = IF r = 3 /\ Better(L, k, best.no_regex) THEN k ELSE best.no_regex
              /\ to.regex = IF r = 2 /\ best.regex = 0 THEN k ELSE best.regex
              /\ to.prefix = IF r = 1 /\ Better(L, k, best.prefix) THEN k ELSE best.prefix
  <1> DEFINE to == PassOver(L, path, best, k)
             r == Rank(L[k])
             kind == KindOf(L[k])
  <1>1. r \in 1..4 /\ (r = 4 <=> kind = "=") /\ (r = 3 <=> kind = "^~")
        /\ (r = 2 <=> kind \in {"~", "~*"})
    BY RankRange
  <1> HIDE DEF r
  <1>2. CASE best.exact # 0 \/ ~Fits(L[k], path)
    BY <1>2 DEF PassOver
  <1>3. CASE best.exact = 0 /\ Fits(L[k], path) /\ r = 4
    <2>1. to = [best EXCEPT !.exact = k]
      BY <1>1, <1>3 DEF PassOver
    <2> HIDE DEF to
    <2> QED  BY <1>1, <1>3, <2>1 DEF Bests, to, r
  <1>4. CASE best.exact = 0 /\ Fits(L[k], path) /\ r = 3
    <2>1. to = [best EXCEPT !.no_regex = IF Better(L, k, best.no_regex) THEN k ELSE best.no_regex]
      BY <1>1, <1>4 DEF PassOver
    <2> HIDE DEF to
    <2> QED  BY <1>1, <1>4, <2>1 DEF Bests, to, r
  <1>5. CASE best.exact = 0 /\ Fits(L[k], path) /\ r = 2
    <2>1. to = [best EXCEPT !.regex = IF best.regex = 0 THEN k ELSE best.regex]
      BY <1>1, <1>5 DEF PassOver
    <2> HIDE DEF to
    <2> QED  BY <1>1, <1>5, <2>1 DEF Bests, to, r
  <1>6. CASE best.exact = 0 /\ Fits(L[k], path) /\ r = 1
    <2>1. to = [best EXCEPT !.prefix = IF Better(L, k, best.prefix) THEN k ELSE best.prefix]
      BY <1>1, <1>6 DEF PassOver
    <2> HIDE DEF to
    <2> QED  BY <1>1, <1>6, <2>1 DEF Bests, to, r
  <1> QED  BY <1>1, <1>2, <1>3, <1>4, <1>5, <1>6

(* The pass, from location to location.                                    *)
IsPass(b, n, L, path) ==
  /\ b \in [0..n -> Bests(n)] /\ b[0] = NoneBest
  /\ \A k \in 1..n : b[k] = PassOver(L, path, b[k - 1], k)
  /\ Best(L, path) = b[n]

(* Best is one pass over the locations, in the order they stand.           *)
LEMMA BestBySteps ==
  ASSUME NEW n \in Nat, NEW L, NEW path, DOMAIN L = 1..n
  PROVE  \E b : IsPass(b, n, L, path)
  <1> DEFINE seq == [k \in DOMAIN L |-> k]
             best == CHOOSE g : g = [s \in SUBSET DOMAIN seq |->
                       IF s = {} THEN NoneBest ELSE PassOver(L, path, g[s \ {Max(s)}], seq[Max(s)])]
             st == [p \in (1..n) \X Bests(n) |-> PassOver(L, path, p[2], p[1])]
  <1>1. Best(L, path) = best[DOMAIN seq]
    BY DEF Best, FoldLeft, MapThenFoldSet, PassOver
  <1>2. DOMAIN seq = 1..n /\ \A k \in 1..n : seq[k] = k
    OBVIOUS
  <1>3. PICK g \in [SUBSET (1..n) -> Bests(n)] : Folds(g, n, NoneBest, st)
    <2>1. st \in [(1..n) \X Bests(n) -> Bests(n)]
      <3>1. \A p \in (1..n) \X Bests(n) : PassOver(L, path, p[2], p[1]) \in Bests(n)
        BY PassOverCases
      <3> QED  BY <3>1
    <2>2. NoneBest \in Bests(n)
      BY DEF NoneBest, Bests
    <2> HIDE DEF st
    <2> QED  BY <2>1, <2>2, FoldExists
  <1>4. ASSUME NEW s \in SUBSET (1..n)
        PROVE  g[s] = IF s = {} THEN NoneBest ELSE PassOver(L, path, g[s \ {Max(s)}], seq[Max(s)])
    <2>1. CASE s = {}
      BY <1>3, <2>1 DEF Folds
    <2>2. CASE s # {}
      <3>1. Max(s) \in 1..n /\ s \ {Max(s)} \in SUBSET (1..n)
        BY <2>2, MaxBelongs
      <3>2. g[s \ {Max(s)}] \in Bests(n)
        BY <3>1
      <3>3. st[<<Max(s), g[s \ {Max(s)}]>>] = PassOver(L, path, g[s \ {Max(s)}], Max(s))
        BY <3>1, <3>2
      <3>4. g[s] = st[<<Max(s), g[s \ {Max(s)}]>>]
        BY <1>3, <2>2 DEF Folds
      <3>5. seq[Max(s)] = Max(s)
        BY <1>2, <3>1
      <3> QED  BY <2>2, <3>3, <3>4, <3>5
    <2> QED  BY <2>1, <2>2
  <1> HIDE DEF seq
  <1>5. g = [s \in SUBSET DOMAIN seq |->
               IF s = {} THEN NoneBest ELSE PassOver(L, path, g[s \ {Max(s)}], seq[Max(s)])]
    BY <1>2, <1>4
  <1>6. best = [s \in SUBSET (1..n) |->
                  IF s = {} THEN NoneBest ELSE PassOver(L, path, best[s \ {Max(s)}], seq[Max(s)])]
    BY <1>2, <1>5
  <1> HIDE DEF best, st
  <1> DEFINE b == [k \in 0..n |-> best[1..k]]
             Q == {k \in 0..n : b[k] \in Bests(n)}
  <1>7. b[0] = NoneBest
    <2>1. 1..0 = {} /\ 1..0 \in SUBSET (1..n)
      OBVIOUS
    <2> QED  BY <1>6, <2>1
  <1>8. ASSUME NEW k \in 1..n PROVE b[k] = PassOver(L, path, b[k - 1], k)
    <2>1. Max(1..k) = k
      BY MaxOfUpTo
    <2>2. (1..k) \ {k} = 1..k - 1 /\ 1..k # {} /\ 1..k \in SUBSET (1..n)
      OBVIOUS
    <2>3. best[1..k] = PassOver(L, path, best[(1..k) \ {Max(1..k)}], seq[Max(1..k)])
      BY <1>6, <2>2
    <2>4. best[1..k] = PassOver(L, path, best[1..k - 1], k)
      BY <1>2, <2>1, <2>2, <2>3
    <2> QED  BY <2>4
  <1>9. \A k \in 0..n : k \in Q
    <2>1. 0 \in Q
      <3>1. NoneBest \in Bests(n)
        BY DEF NoneBest, Bests
      <3> HIDE DEF b
      <3> QED  BY <1>7, <3>1
    <2>2. ASSUME NEW k \in 0..n - 1, k \in Q PROVE k + 1 \in Q
      <3>1. k + 1 \in 1..n /\ (k + 1) - 1 = k
        OBVIOUS
      <3>2. b[k + 1] = PassOver(L, path, b[k], k + 1)
        <4> HIDE DEF b
        <4> QED  BY <1>8, <3>1
      <3>3. b[k + 1] \in Bests(n)
        <4> HIDE DEF b
        <4> QED  BY <2>2, <3>1, <3>2, PassOverCases
      <3> HIDE DEF b
      <3> QED  BY <3>1, <3>3
    <2> HIDE DEF Q
    <2> QED  BY <2>1, <2>2, InductionUpTo
  <1>10. b \in [0..n -> Bests(n)]
    BY <1>9
  <1>11. b[n] = best[DOMAIN seq]
    BY <1>2
  <1> HIDE DEF b
  <1>12. IsPass(b, n, L, path)
    BY <1>1, <1>7, <1>8, <1>10, <1>11 DEF IsPass
  <1> QED  BY <1>12

(* The pass has, of each rank, the best there was.                         *)
HasBest(L, path, k, best) ==
  /\ IsBest(L, path, k, 4, best.exact)
  /\ best.exact = 0 => /\ IsBest(L, path, k, 3, best.no_regex)
                       /\ IsBest(L, path, k, 2, best.regex)
                       /\ IsBest(L, path, k, 1, best.prefix)

(* Each location on the way leaves the best so far of each rank.           *)
LEMMA PassKeepsBest ==
  ASSUME NEW n \in Nat, NEW best \in Bests(n), NEW L, NEW path, NEW k \in 0..n - 1,
         HasBest(L, path, k, best)
  PROVE  HasBest(L, path, k + 1, PassOver(L, path, best, k + 1))
  <1> DEFINE to == PassOver(L, path, best, k + 1)
             r == Rank(L[k + 1])
  <1>1. /\ to \in Bests(n)
        /\ best.exact # 0 \/ ~Fits(L[k + 1], path) => to = best
        /\ best.exact = 0 /\ Fits(L[k + 1], path) =>
              /\ to.exact = IF r = 4 THEN k + 1 ELSE 0
              /\ to.no_regex = IF r = 3 /\ Better(L, k + 1, best.no_regex) THEN k + 1 ELSE best.no_regex
              /\ to.regex = IF r = 2 /\ best.regex = 0 THEN k + 1 ELSE best.regex
              /\ to.prefix = IF r = 1 /\ Better(L, k + 1, best.prefix) THEN k + 1 ELSE best.prefix
    <2>1. k + 1 \in 1..n
      OBVIOUS
    <2> QED  BY <2>1, PassOverCases
  <1> HIDE DEF to
  <1>2. k \in Nat /\ k + 1 # 0
    OBVIOUS
  <1>3. r \in 1..4
    BY RankRange
  <1>4. CASE ~Fits(L[k + 1], path)
    BY <1>1, <1>2, <1>4, OtherRank DEF HasBest, to
  <1>5. CASE best.exact # 0 /\ Fits(L[k + 1], path)
    <2>1. to = best /\ IsBest(L, path, k, 4, best.exact)
      BY <1>1, <1>5 DEF HasBest
    <2>2. IsBest(L, path, k + 1, 4, best.exact)
      <3>1. CASE r = 4
        <4>1. IsBest(L, path, k + 1, 4, IF best.exact = 0 THEN k + 1 ELSE best.exact)
          BY <1>2, <1>5, <2>1, <3>1, FirstWins
        <4> QED  BY <1>5, <4>1
      <3>2. CASE r # 4
        BY <1>2, <2>1, <3>2, OtherRank
      <3> QED  BY <3>1, <3>2
    <2> QED  BY <1>5, <2>1, <2>2 DEF HasBest, to
  <1>6. CASE best.exact = 0 /\ Fits(L[k + 1], path)
    <2>1. /\ IsBest(L, path, k, 4, 0) /\ IsBest(L, path, k, 3, best.no_regex)
          /\ IsBest(L, path, k, 2, best.regex) /\ IsBest(L, path, k, 1, best.prefix)
      BY <1>6 DEF HasBest
    <2>2. IsBest(L, path, k + 1, 4, to.exact)
      <3>1. CASE r = 4
        <4>1. IsBest(L, path, k + 1, 4, IF 0 = 0 THEN k + 1 ELSE 0)
          BY <1>2, <1>6, <2>1, <3>1, FirstWins
        <4> QED  BY <1>1, <1>6, <3>1, <4>1
      <3>2. CASE r # 4
        BY <1>1, <1>2, <1>6, <2>1, <3>2, OtherRank
      <3> QED  BY <3>1, <3>2
    <2>3. IsBest(L, path, k + 1, 3, to.no_regex)
      <3>1. CASE r = 3
        <4>1. IsBest(L, path, k + 1, 3,
                IF Better(L, k + 1, best.no_regex) THEN k + 1 ELSE best.no_regex)
          BY <1>2, <1>6, <2>1, <3>1, LongestWins
        <4> QED  BY <1>1, <1>6, <3>1, <4>1
      <3>2. CASE r # 3
        BY <1>1, <1>2, <1>6, <2>1, <3>2, OtherRank
      <3> QED  BY <3>1, <3>2
    <2>4. IsBest(L, path, k + 1, 2, to.regex)
      <3>1. CASE r = 2
        <4>1. IsBest(L, path, k + 1, 2, IF best.regex = 0 THEN k + 1 ELSE best.regex)
          BY <1>2, <1>6, <2>1, <3>1, FirstWins
        <4> QED  BY <1>1, <1>6, <3>1, <4>1
      <3>2. CASE r # 2
        BY <1>1, <1>2, <1>6, <2>1, <3>2, OtherRank
      <3> QED  BY <3>1, <3>2
    <2>5. IsBest(L, path, k + 1, 1, to.prefix)
      <3>1. CASE r = 1
        <4>1. IsBest(L, path, k + 1, 1,
                IF Better(L, k + 1, best.prefix) THEN k + 1 ELSE best.prefix)
          BY <1>2, <1>6, <2>1, <3>1, LongestWins
        <4> QED  BY <1>1, <1>6, <3>1, <4>1
      <3>2. CASE r # 1
        BY <1>1, <1>2, <1>6, <2>1, <3>2, OtherRank
      <3> QED  BY <3>1, <3>2
    <2> QED  BY <2>2, <2>3, <2>4, <2>5 DEF HasBest, to
  <1> QED  BY <1>4, <1>5, <1>6 DEF to

(* router/mod.rs: one pass finds the location that the priorities name.    *)
LEMMA SelectedIsPreferred ==
  ASSUME NEW n \in Nat, NEW L, NEW path, DOMAIN L = 1..n
  PROVE  SelectLocation(L, path) = Preferred(L, path)
  <1> DEFINE best == Best(L, path)
             s == SelectLocation(L, path)
             fit == {i \in DOMAIN L : Fits(L[i], path)}
  <1>1. PICK b : IsPass(b, n, L, path)
    BY BestBySteps
  <1>2. HasBest(L, path, n, best)
    <2> DEFINE Q == {k \in 0..n : HasBest(L, path, k, b[k])}
    <2>1. 0 \in Q
      <3>1. \A r : IsBest(L, path, 0, r, 0)
        BY DEF IsBest
      <3>2. HasBest(L, path, 0, NoneBest)
        BY <3>1 DEF HasBest, NoneBest
      <3>3. b[0] = NoneBest /\ 0 \in 0..n
        BY <1>1 DEF IsPass
      <3> QED  BY <3>2, <3>3
    <2>2. ASSUME NEW k \in 0..n - 1, k \in Q PROVE k + 1 \in Q
      <3>1. k + 1 \in 1..n /\ (k + 1) - 1 = k /\ k \in 0..n
        OBVIOUS
      <3>2. b[k] \in Bests(n) /\ b[k + 1] = PassOver(L, path, b[k], k + 1)
        BY <1>1, <3>1 DEF IsPass
      <3> QED  BY <2>2, <3>1, <3>2, PassKeepsBest
    <2>3. \A k \in 0..n : k \in Q
      <3> HIDE DEF Q
      <3> QED  BY <2>1, <2>2, InductionUpTo
    <2>4. n \in Q
      BY <2>3
    <2> HIDE DEF best
    <2> QED  BY <1>1, <2>4 DEF IsPass, best
  <1>3. PICK r \in 0..4 :
          /\ IsBest(L, path, n, r, s) \/ r = 0
          /\ r = 0 => s = 0
          /\ r # 0 => s # 0
          /\ \A q \in r + 1..4 : IsBest(L, path, n, q, 0)
    <2> HIDE DEF best
    <2>1. /\ best.exact # 0 => s = best.exact
          /\ best.exact = 0 /\ best.no_regex # 0 => s = best.no_regex
          /\ best.exact = 0 /\ best.no_regex = 0 /\ best.regex # 0 => s = best.regex
          /\ best.exact = 0 /\ best.no_regex = 0 /\ best.regex = 0 => s = best.prefix
      BY DEF SelectLocation, best
    <2> HIDE DEF s
    <2>2. CASE best.exact # 0
      <3> WITNESS 4 \in 0..4
      <3> QED  BY <1>2, <2>1, <2>2 DEF HasBest
    <2>3. CASE best.exact = 0 /\ best.no_regex # 0
      <3> WITNESS 3 \in 0..4
      <3>1. \A q \in 4..4 : q = 4
        OBVIOUS
      <3> QED  BY <1>2, <2>1, <2>3, <3>1 DEF HasBest
    <2>4. CASE best.exact = 0 /\ best.no_regex = 0 /\ best.regex # 0
      <3> WITNESS 2 \in 0..4
      <3>1. \A q \in 3..4 : q \in {3, 4}
        OBVIOUS
      <3> QED  BY <1>2, <2>1, <2>4, <3>1 DEF HasBest
    <2>5. CASE best.exact = 0 /\ best.no_regex = 0 /\ best.regex = 0 /\ best.prefix # 0
      <3> WITNESS 1 \in 0..4
      <3>1. \A q \in 2..4 : q \in {2, 3, 4}
        OBVIOUS
      <3> QED  BY <1>2, <2>1, <2>5, <3>1 DEF HasBest
    <2>6. CASE best.exact = 0 /\ best.no_regex = 0 /\ best.regex = 0 /\ best.prefix = 0
      <3> WITNESS 0 \in 0..4
      <3>1. \A q \in 1..4 : q \in {1, 2, 3, 4}
        OBVIOUS
      <3> QED  BY <1>2, <2>1, <2>6, <3>1 DEF HasBest
    <2> QED  BY <2>2, <2>3, <2>4, <2>5, <2>6
  <1> HIDE DEF s
  <1>4. CASE r = 0
    <2>1. \A i \in 1..n : ~Fits(L[i], path)
      <3>1. \A i \in 1..n : Rank(L[i]) \in 1..4
        BY RankRange
      <3> QED  BY <1>3, <1>4, <3>1 DEF IsBest
    <2>2. fit = {}
      BY <2>1
    <2> QED  BY <1>3, <1>4, <2>2 DEF Preferred, s
  <1>5. CASE r # 0
    <2>1. s \in fit
      BY <1>3, <1>5 DEF IsBest
    <2>2. ASSUME NEW i \in fit \ {s} PROVE Beats(L, s, i)
      <3>1. i \in 1..n /\ Fits(L[i], path) /\ Rank(L[i]) \in 1..4 /\ Rank(L[s]) = r
        BY <1>3, <1>5, RankRange DEF IsBest
      <3>2. CASE Rank(L[i]) = r
        BY <1>3, <1>5, <2>2, <3>1, <3>2 DEF IsBest
      <3>3. CASE Rank(L[i]) > r
        <4>1. Rank(L[i]) \in r + 1..4
          BY <3>1, <3>3
        <4> QED  BY <1>3, <3>1, <4>1 DEF IsBest
      <3>4. CASE Rank(L[i]) < r
        BY <3>1, <3>4 DEF Beats
      <3> QED  BY <3>1, <3>2, <3>3, <3>4
    <2>3. ASSUME NEW i \in fit, \A m \in fit \ {i} : Beats(L, i, m) PROVE i = s
      <3> SUFFICES ASSUME i # s PROVE FALSE
        OBVIOUS
      <3>1. Beats(L, i, s) /\ Beats(L, s, i)
        BY <2>1, <2>2, <2>3
      <3>2. i \in Nat /\ s \in Nat /\ Fits(L[i], path) /\ Fits(L[s], path)
        BY <2>1
      <3> QED  BY <3>1, <3>2, BeatsOneWay
    <2>4. Preferred(L, path) = CHOOSE i \in fit : \A m \in fit \ {i} : Beats(L, i, m)
      BY <2>1 DEF Preferred
    <2> HIDE DEF fit
    <2>5. (CHOOSE i \in fit : \A m \in fit \ {i} : Beats(L, i, m)) = s
      BY <2>1, <2>2, <2>3
    <2> QED  BY <2>4, <2>5 DEF s
  <1> QED  BY <1>4, <1>5

-----------------------------------------------------------------------------
(***************************************************************************)
(* The configuration: parsers are nested as the blocks are                 *)
(***************************************************************************)

IsSeq(s) == \E S : s \in Seq(S)
BlockFields  == {"at", "head", "set", "inner", "handler", "realm", "user_file"}
ParserFields == {"ctx", "file", "pos", "depth", "queue", "block"}

(* A block with servers in it, each with a sequence of locations.          *)
HasServers(b) ==
  DOMAIN b = BlockFields /\ \E S : b.inner \in Seq(S) /\ \A server \in S : IsSeq(server.inner)

(* What a parser of each kind has built so far.                            *)
Built(ctx, b) ==
  /\ DOMAIN b = BlockFields
  /\ ctx = "root" => \E h : b.inner = <<h>> /\ HasServers(h)
  /\ ctx \in {"http", "included"} => HasServers(b)
  /\ ctx = "server" => IsSeq(b.inner)

IsParser(p) ==
  /\ DOMAIN p = ParserFields /\ Built(p.ctx, p.block)
  /\ p.queue # <<>> => p.ctx \in {"root", "http"}

(* Which parser calls which.                                               *)
Callees == {<<"root", "root">>, <<"root", "http">>, <<"root", "events">>, <<"root", "events end">>,
            <<"http", "upstream">>, <<"http", "server">>, <<"http", "included">>,
            <<"server", "location">>, <<"included", "server">>}
Nested(s) ==
  /\ IsSeq(s) /\ Len(s) >= 1 /\ s[1].ctx = "root"
  /\ \A k \in 1..Len(s) : IsParser(s[k])
  /\ \A k \in 2..Len(s) : <<s[k - 1].ctx, s[k].ctx>> \in Callees

(* One more behind the first k of a sequence.                              *)
LEMMA Behind ==
  ASSUME NEW s, IsSeq(s), NEW k \in 0..Len(s), NEW q
  PROVE  LET t == Append(SubSeq(s, 1, k), q) IN
         /\ IsSeq(t) /\ Len(t) = k + 1 /\ t[k + 1] = q /\ \A i \in 1..k : t[i] = s[i]
  <1> DEFINE t == Append(SubSeq(s, 1, k), q)
             v == SubSeq(s, 1, k)
  <1>1. PICK S : s \in Seq(S)
    BY DEF IsSeq
  <1>2. s \in Seq(S \cup {q}) /\ q \in S \cup {q}
    BY <1>1, SeqMonotonic
  <1>3. v \in Seq(S \cup {q}) /\ Len(v) = k /\ \A i \in 1..k : v[i] = s[i]
    BY <1>2
  <1> HIDE DEF v
  <1>4. /\ Append(v, q) \in Seq(S \cup {q}) /\ Len(Append(v, q)) = k + 1
        /\ Append(v, q)[k + 1] = q /\ \A i \in 1..k : Append(v, q)[i] = v[i]
    BY <1>2, <1>3, AppendProperties
  <1> QED  BY <1>3, <1>4 DEF IsSeq, v

(* Of a sequence, its length, its indices and the whole as a part.         *)
LEMMA SeqFacts ==
  ASSUME NEW s, IsSeq(s)
  PROVE  Len(s) \in Nat /\ DOMAIN s = 1..Len(s) /\ SubSeq(s, 1, Len(s)) = s
  <1>1. PICK S : s \in Seq(S)
    BY DEF IsSeq
  <1> QED  BY <1>1, LenProperties, SubSeqFull

(* A parser that has gone on: only an events block knows two kinds.        *)
InPlaceOf(q, p) == q.ctx = p.ctx \/ (p.ctx = "events" /\ q.ctx = "events end")

(* It is called by the same parsers.                                       *)
LEMMA InPlaceCalled ==
  ASSUME NEW c, NEW p, NEW q, <<c, p.ctx>> \in Callees, InPlaceOf(q, p)
  PROVE  <<c, q.ctx>> \in Callees
  BY DEF InPlaceOf, Callees

(* A parser goes on, or another one returns to it.                         *)
LEMMA NestedWith ==
  ASSUME NEW s, Nested(s), NEW k \in Nat, k + 1 <= Len(s), NEW q, IsParser(q),
         InPlaceOf(q, s[k + 1])
  PROVE  Nested(Append(SubSeq(s, 1, k), q))
  <1> DEFINE t == Append(SubSeq(s, 1, k), q)
  <1>1. Len(s) \in Nat /\ IsSeq(s) /\ k \in Nat /\ k + 1 <= Len(s) /\ k \in 0..Len(s)
    <2>1. IsSeq(s) /\ Len(s) \in Nat
      BY SeqFacts DEF Nested
    <2>2. k \in Nat /\ k + 1 <= Len(s) /\ k \in 0..Len(s)
      BY <2>1
    <2> QED  BY <2>1, <2>2
  <1>2. IsSeq(t) /\ Len(t) = k + 1 /\ t[k + 1] = q /\ \A i \in 1..k : t[i] = s[i]
    BY <1>1, Behind
  <1> HIDE DEF t
  <1>3. t[1].ctx = "root"
    <2>1. CASE k = 0
      <3>1. t[1] = q /\ s[k + 1] = s[1] /\ s[1].ctx = "root"
        BY <1>2, <2>1 DEF Nested
      <3>2. InPlaceOf(q, s[1])
        BY <3>1
      <3> QED  BY <3>1, <3>2 DEF InPlaceOf
    <2>2. CASE k # 0
      BY <1>2, <2>2 DEF Nested
    <2> QED  BY <2>1, <2>2
  <1>4. \A i \in 1..Len(t) : IsParser(t[i])
    <2>1. \A i \in 1..k + 1 : i \in 1..k \/ i = k + 1
      OBVIOUS
    <2>2. \A i \in 1..k : IsParser(s[i])
      BY <1>1 DEF Nested
    <2> QED  BY <1>2, <2>1, <2>2
  <1>5. ASSUME NEW i \in 2..Len(t) PROVE <<t[i - 1].ctx, t[i].ctx>> \in Callees
    <2>1. i \in 2..Len(s) /\ t[i - 1] = s[i - 1]
      BY <1>1, <1>2
    <2>2. <<s[i - 1].ctx, s[i].ctx>> \in Callees
      BY <2>1 DEF Nested
    <2>3. CASE i = k + 1
      <3>1. t[i] = q /\ InPlaceOf(q, s[i])
        BY <1>2, <2>3
      <3> QED  BY <2>1, <2>2, <3>1, InPlaceCalled
    <2>4. CASE i # k + 1
      <3>1. i \in 1..k
        BY <1>2, <2>4
      <3> QED  BY <1>2, <2>1, <2>2, <3>1
    <2> QED  BY <2>3, <2>4
  <1>6. Len(t) >= 1
    BY <1>2
  <1>7. Nested(t)
    BY <1>2, <1>3, <1>4, <1>5, <1>6 DEF Nested
  <1> QED  BY <1>7 DEF t

(* A parser calls another.                                                 *)
LEMMA NestedDeeper ==
  ASSUME NEW s, Nested(s), NEW p, IsParser(p), <<Last(s).ctx, p.ctx>> \in Callees
  PROVE  Nested(Append(s, p))
  <1> DEFINE t == Append(s, p)
             n == Len(s)
  <1>1. n \in Nat /\ IsSeq(s) /\ n >= 1
    BY SeqFacts DEF Nested
  <1>2. IsSeq(t) /\ Len(t) = n + 1 /\ t[n + 1] = p /\ \A i \in 1..n : t[i] = s[i]
    <2>1. SubSeq(s, 1, n) = s
      BY <1>1, SeqFacts
    <2>2. n \in 0..n
      BY <1>1
    <2>3. /\ IsSeq(Append(SubSeq(s, 1, n), p)) /\ Len(Append(SubSeq(s, 1, n), p)) = n + 1
          /\ Append(SubSeq(s, 1, n), p)[n + 1] = p
          /\ \A i \in 1..n : Append(SubSeq(s, 1, n), p)[i] = s[i]
      BY <1>1, <2>2, Behind
    <2> QED  BY <2>1, <2>3
  <1> HIDE DEF t
  <1>3. t[1].ctx = "root"
    <2>1. 1 \in 1..n
      BY <1>1
    <2> QED  BY <1>2, <2>1 DEF Nested
  <1>4. \A i \in 1..Len(t) : IsParser(t[i])
    <2>1. \A i \in 1..n + 1 : i \in 1..n \/ i = n + 1
      BY <1>1
    <2>2. \A i \in 1..n : IsParser(s[i])
      BY DEF Nested
    <2> HIDE DEF n
    <2> QED  BY <1>2, <2>1, <2>2
  <1>5. ASSUME NEW i \in 2..Len(t) PROVE <<t[i - 1].ctx, t[i].ctx>> \in Callees
    <2>1. i - 1 \in 1..n /\ t[i - 1] = s[i - 1]
      BY <1>1, <1>2
    <2>2. CASE i = n + 1
      <3>1. i - 1 = n /\ t[i] = p
        BY <1>1, <1>2, <2>2
      <3> QED  BY <2>1, <3>1 DEF Last
    <2>3. CASE i # n + 1
      <3>1. i \in 2..n /\ t[i] = s[i]
        BY <1>1, <1>2, <2>3
      <3> QED  BY <2>1, <3>1 DEF Nested
    <2> QED  BY <2>2, <2>3
  <1>6. Len(t) >= 1
    BY <1>1, <1>2
  <1>7. Nested(t)
    BY <1>2, <1>3, <1>4, <1>5, <1>6 DEF Nested
  <1> QED  BY <1>7 DEF t

(* What counts of a block is its fields and what is in it.                 *)
LEMMA SameBuilt ==
  ASSUME NEW ctx, NEW b, NEW c, Built(ctx, b), DOMAIN c = BlockFields, c.inner = b.inner
  PROVE  Built(ctx, c)
  BY DEF Built, HasServers

(* A block that has just been opened.                                      *)
LEMMA EmptyBuilt ==
  ASSUME NEW ctx, ctx # "root", NEW b, DOMAIN b = BlockFields, b.inner = <<>>
  PROVE  Built(ctx, b)
  <1>1. b.inner \in Seq({})
    OBVIOUS
  <1> QED  BY <1>1 DEF Built, HasServers, IsSeq

(* A block that has just been opened has all its fields.                   *)
LEMMA BlockEmpty ==
  ASSUME NEW at, NEW head
  PROVE  DOMAIN Block(at, head) = BlockFields /\ Block(at, head).inner = <<>>
  BY DEF Block, BlockFields

(* Apply: a directive leaves the blocks in its block as they are.          *)
LEMMA ApplyKeeps ==
  ASSUME NEW ctx, NEW b, DOMAIN b = BlockFields, NEW d, NEW args
  PROVE  LET c == Apply(ctx, b, d, args) IN DOMAIN c = BlockFields /\ c.inner = b.inner
  <1> DEFINE Same(c) == DOMAIN c = BlockFields /\ c.inner = b.inner
  <1>1. Same(b)
    OBVIOUS
  <1>2. ASSUME NEW x PROVE Same([b EXCEPT !.set = x])
    BY DEF BlockFields
  <1>3. ASSUME NEW x PROVE Same([b EXCEPT !.handler = x])
    BY DEF BlockFields
  <1>4. ASSUME NEW x, NEW y PROVE Same([b EXCEPT !.realm = x, !.user_file = y])
    BY DEF BlockFields
  <1>5. ASSUME NEW x, NEW y PROVE Same([b EXCEPT !.user_file = x, !.realm = y])
    BY DEF BlockFields
  <1>6. ASSUME NEW x, NEW y PROVE Same([b EXCEPT !.set = x, !.handler = y])
    BY DEF BlockFields
  <1>7. CASE d = "auth_basic"
    BY <1>1, <1>4, <1>7 DEF Apply
  <1>8. CASE d = "auth_basic_user_file"
    BY <1>5, <1>8 DEF Apply
  <1>9. CASE d \in {"proxy_pass", "fastcgi_pass"}
    BY <1>3, <1>9 DEF Apply
  <1>10. CASE d \in ProxyDirectives \cup FastCgiDirectives
    BY <1>1, <1>10 DEF Apply, ProxyDirectives, FastCgiDirectives, BlockFields
  <1>11. CASE ctx = "location" /\ d = "return"
    BY <1>6, <1>11 DEF Apply, ProxyDirectives, FastCgiDirectives
  <1>12. CASE d = "error_page"
    BY <1>1, <1>2, <1>12 DEF Apply, ProxyDirectives, FastCgiDirectives
  <1>13. CASE /\ d \notin {"auth_basic", "auth_basic_user_file", "proxy_pass", "fastcgi_pass", "error_page"}
              /\ d \notin ProxyDirectives \cup FastCgiDirectives
              /\ ~(ctx = "location" /\ d = "return")
    BY <1>2, <1>13 DEF Apply
  <1> QED  BY <1>7, <1>8, <1>9, <1>10, <1>11, <1>12, <1>13

(* auth_basic without a user file is dropped: a field, no server.          *)
LEMMA FinishedKeeps ==
  ASSUME NEW ctx, NEW b, DOMAIN b = BlockFields
  PROVE  DOMAIN Finished(ctx, b) = BlockFields /\ Finished(ctx, b).inner = b.inner
  BY DEF Finished, BlockFields

(* A sequence of one with that one replaced.                               *)
LEMMA OnlyOne ==
  ASSUME NEW h, NEW k
  PROVE  [<<h>> EXCEPT ![1] = k] = <<k>>
  <1> DEFINE s == [<<h>> EXCEPT ![1] = k]
  <1>1. DOMAIN s = 1..1 /\ s[1] = k /\ s = [i \in 1..1 |-> s[i]]
    OBVIOUS
  <1>2. DOMAIN <<k>> = 1..1 /\ <<k>>[1] = k /\ <<k>> = [i \in 1..1 |-> <<k>>[i]]
    OBVIOUS
  <1>3. \A i \in 1..1 : i = 1
    OBVIOUS
  <1> HIDE DEF s
  <1>4. s = <<k>>
    BY <1>1, <1>2, <1>3
  <1> QED  BY <1>4 DEF s

(* Merge: what a block becomes with a block of a kind it may hold.         *)
LEMMA MergeKeeps ==
  ASSUME NEW ctx, NEW outer, Built(ctx, outer), NEW callee, NEW b, Built(callee, b),
         <<ctx, callee>> \in Callees, callee # "events end"
  PROVE  Built(ctx, Merge(outer, callee, b))
  <1>1. DOMAIN outer = BlockFields
    BY DEF Built
  <1>2. ASSUME NEW x PROVE LET c == [outer EXCEPT !.inner = x] IN DOMAIN c = BlockFields /\ c.inner = x
    BY <1>1 DEF BlockFields
  <1>3. ASSUME NEW x PROVE LET c == [outer EXCEPT !.set = x] IN DOMAIN c = BlockFields /\ c.inner = outer.inner
    BY <1>1 DEF BlockFields
  <1>4. CASE callee = "root"
    <2>1. ctx = "root"
      BY <1>4 DEF Callees
    <2>2. PICK h : outer.inner = <<h>> /\ HasServers(h)
      BY <2>1 DEF Built
    <2>3. PICK g : b.inner = <<g>> /\ HasServers(g)
      BY <1>4 DEF Built
    <2> DEFINE k == [h EXCEPT !.inner = h.inner \o g.inner]
    <2>4. DOMAIN k = BlockFields /\ k.inner = h.inner \o g.inner
      BY <2>2 DEF HasServers, BlockFields
    <2>5. PICK S : h.inner \in Seq(S) /\ \A server \in S : IsSeq(server.inner)
      BY <2>2 DEF HasServers
    <2>6. PICK T : g.inner \in Seq(T) /\ \A server \in T : IsSeq(server.inner)
      BY <2>3 DEF HasServers
    <2>7. h.inner \in Seq(S \cup T) /\ g.inner \in Seq(S \cup T)
      BY <2>5, <2>6, SeqMonotonic
    <2>8. k.inner \in Seq(S \cup T)
      BY <2>4, <2>7, ConcatProperties
    <2>9. HasServers(k)
      <3>1. \A server \in S \cup T : IsSeq(server.inner)
        BY <2>5, <2>6
      <3> HIDE DEF k
      <3> QED  BY <2>4, <2>8, <3>1 DEF HasServers
    <2>10. Merge(outer, callee, b) = [outer EXCEPT !.inner = <<k>>]
      <3>1. Merge(outer, callee, b) = [outer EXCEPT !.inner[1].inner = @ \o b.inner[1].inner]
        BY <1>4 DEF Merge
      <3>2. outer.inner[1] = h /\ b.inner[1] = g
        <4>1. <<h>>[1] = h /\ <<g>>[1] = g
          OBVIOUS
        <4> HIDE DEF k
        <4> QED  BY <2>2, <2>3, <4>1
      <3>3. [outer EXCEPT !.inner[1].inner = @ \o b.inner[1].inner]
              = [outer EXCEPT !.inner = [outer.inner EXCEPT ![1] = [outer.inner[1] EXCEPT !.inner =
                   outer.inner[1].inner \o b.inner[1].inner]]]
        BY <1>1 DEF BlockFields
      <3>4. [<<h>> EXCEPT ![1] = k] = <<k>>
        BY OnlyOne
      <3> QED  BY <2>2, <3>1, <3>2, <3>3, <3>4
    <2> HIDE DEF k
    <2> QED  BY <1>2, <2>1, <2>9, <2>10 DEF Built
  <1>5. CASE callee = "http"
    <2>1. ctx = "root" /\ HasServers(b)
      BY <1>5 DEF Callees, Built
    <2>2. Merge(outer, callee, b) = [outer EXCEPT !.inner = <<b>>]
      BY <1>5 DEF Merge
    <2> QED  BY <1>2, <2>1, <2>2 DEF Built
  <1>6. CASE callee = "events"
    <2>1. Merge(outer, callee, b) = [outer EXCEPT !.set = b.set]
      BY <1>6 DEF Merge
    <2> QED  BY <1>3, <2>1, SameBuilt
  <1>7. CASE callee = "included"
    <2>1. ctx = "http" /\ HasServers(b)
      BY <1>7 DEF Callees, Built
    <2>2. Merge(outer, callee, b) = [outer EXCEPT !.inner = b.inner]
      BY <1>7 DEF Merge
    <2> QED  BY <1>2, <2>1, <2>2 DEF Built, HasServers
  <1>8. CASE callee = "upstream"
    <2> DEFINE x == Append(outer.set, <<"upstream", b>>)
    <2>1. Merge(outer, callee, b) = [outer EXCEPT !.set = x]
      BY <1>8 DEF Merge
    <2> HIDE DEF x
    <2> QED  BY <1>3, <2>1, SameBuilt
  <1>9. CASE callee \in {"server", "location"}
    <2> DEFINE x == Append(outer.inner, b)
    <2>1. Merge(outer, callee, b) = [outer EXCEPT !.inner = x]
      BY <1>9 DEF Merge
    <2>2. ASSUME NEW S, outer.inner \in Seq(S) PROVE x \in Seq(S \cup {b})
      <3>1. outer.inner \in Seq(S \cup {b})
        BY <2>2, SeqMonotonic
      <3> QED  BY <3>1, AppendProperties
    <2>3. CASE callee = "server"
      <3>1. ctx \in {"http", "included"} /\ IsSeq(b.inner)
        BY <2>3 DEF Callees, Built
      <3>2. PICK S : outer.inner \in Seq(S) /\ \A server \in S : IsSeq(server.inner)
        BY <3>1 DEF Built, HasServers
      <3>3. x \in Seq(S \cup {b}) /\ \A server \in S \cup {b} : IsSeq(server.inner)
        BY <2>2, <3>1, <3>2
      <3> HIDE DEF x
      <3>4. HasServers([outer EXCEPT !.inner = x])
        BY <1>2, <3>3 DEF HasServers
      <3> QED  BY <1>2, <2>1, <3>1, <3>4 DEF Built
    <2>4. CASE callee = "location"
      <3>1. ctx = "server"
        BY <2>4 DEF Callees
      <3>2. PICK S : outer.inner \in Seq(S)
        BY <3>1 DEF Built, IsSeq
      <3>3. IsSeq(x)
        BY <2>2, <3>2 DEF IsSeq
      <3> HIDE DEF x
      <3> QED  BY <1>2, <2>1, <3>1, <3>3 DEF Built
    <2> QED  BY <1>9, <2>3, <2>4
  <1> QED  BY <1>4, <1>5, <1>6, <1>7, <1>8, <1>9 DEF Callees

(* The parser on top goes on, calls another, or returns.                   *)
LEMMA GoesOn ==
  ASSUME NEW s, Nested(s), NEW q, IsParser(q), InPlaceOf(q, Last(s))
  PROVE  Nested(Append(Front(s), q))
  <1> DEFINE k == Len(s) - 1
  <1>1. k \in Nat /\ k + 1 <= Len(s) /\ k + 1 = Len(s)
    <2>1. Len(s) \in Nat /\ Len(s) >= 1
      BY SeqFacts DEF Nested
    <2> QED  BY <2>1
  <1>2. Last(s) = s[k + 1] /\ Front(s) = SubSeq(s, 1, k)
    BY <1>1 DEF Last, Front
  <1> HIDE DEF k
  <1>3. InPlaceOf(q, s[k + 1])
    BY <1>2
  <1> QED  BY <1>1, <1>2, <1>3, NestedWith

(* The parser on top calls another.                                        *)
LEMMA CallsAnother ==
  ASSUME NEW s, Nested(s), NEW q, IsParser(q), InPlaceOf(q, Last(s)),
         NEW p, IsParser(p), <<q.ctx, p.ctx>> \in Callees
  PROVE  Nested(Append(Append(Front(s), q), p))
  <1> DEFINE t == Append(Front(s), q)
             k == Len(s) - 1
  <1>1. Nested(t)
    BY GoesOn
  <1>2. IsSeq(s) /\ k \in 0..Len(s) /\ Front(s) = SubSeq(s, 1, k)
    <2>1. IsSeq(s) /\ Len(s) \in Nat /\ Len(s) >= 1
      BY SeqFacts DEF Nested
    <2> QED  BY <2>1 DEF Front
  <1>3. Last(t) = q
    <2> HIDE DEF k
    <2>1. /\ Len(Append(SubSeq(s, 1, k), q)) = k + 1
          /\ Append(SubSeq(s, 1, k), q)[k + 1] = q
      BY <1>2, Behind
    <2> QED  BY <1>2, <2>1 DEF Last
  <1> HIDE DEF t
  <1>4. Nested(Append(t, p))
    BY <1>1, <1>3, NestedDeeper
  <1> QED  BY <1>4 DEF t

(* The parser on top returns: its caller goes on, on top now.              *)
LEMMA ReturnsTo ==
  ASSUME NEW s, Nested(s), Len(s) >= 2, NEW q, IsParser(q), InPlaceOf(q, s[Len(s) - 1])
  PROVE  Nested(Append(SubSeq(s, 1, Len(s) - 2), q))
  <1> DEFINE k == Len(s) - 2
  <1>1. k \in Nat /\ k + 1 <= Len(s) /\ k + 1 = Len(s) - 1
    <2>1. Len(s) \in Nat
      BY SeqFacts DEF Nested
    <2> QED  BY <2>1
  <1> HIDE DEF k
  <1>2. InPlaceOf(q, s[k + 1])
    BY <1>1
  <1>3. Nested(Append(SubSeq(s, 1, k), q))
    BY <1>1, <1>2, NestedWith
  <1> QED  BY <1>3 DEF k

(* The parsers at the top of the stack.                                    *)
LEMMA TheTop ==
  ASSUME NEW s, Nested(s)
  PROVE  /\ IsParser(Last(s))
         /\ Last(s).ctx # "root" => Len(s) >= 2
         /\ Len(s) # 1 => Len(s) >= 2
         /\ Len(s) >= 2 => /\ IsParser(s[Len(s) - 1])
                           /\ <<s[Len(s) - 1].ctx, Last(s).ctx>> \in Callees
  <1> DEFINE n == Len(s)
  <1>1. n \in Nat /\ n >= 1
    BY SeqFacts DEF Nested
  <1>2. Last(s) = s[n] /\ s[1].ctx = "root"
    BY DEF Last, Nested
  <1>3. \A k \in 1..n : IsParser(s[k])
    BY DEF Nested
  <1>4. \A k \in 2..n : <<s[k - 1].ctx, s[k].ctx>> \in Callees
    BY DEF Nested
  <1> HIDE DEF n
  <1>5. IsParser(Last(s))
    BY <1>1, <1>2, <1>3
  <1>6. Last(s).ctx # "root" => n >= 2
    <2>1. n = 1 \/ n >= 2
      BY <1>1
    <2> QED  BY <1>2, <2>1
  <1>7. n # 1 => n >= 2
    BY <1>1
  <1>8. n >= 2 => IsParser(s[n - 1]) /\ <<s[n - 1].ctx, Last(s).ctx>> \in Callees
    <2>1. n >= 2 => n - 1 \in 1..n /\ n \in 2..n
      BY <1>1
    <2> QED  BY <1>2, <1>3, <1>4, <2>1
  <1> QED  BY <1>5, <1>6, <1>7, <1>8 DEF n

(* A parser with another position and a block as good.                     *)
LEMMA ParserMoved ==
  ASSUME NEW p, IsParser(p), NEW i, NEW b, Built(p.ctx, b)
  PROVE  LET q == [p EXCEPT !.pos = i, !.block = b] IN IsParser(q) /\ InPlaceOf(q, p)
  <1> DEFINE q == [p EXCEPT !.pos = i, !.block = b]
  <1>1. DOMAIN q = ParserFields /\ q.block = b /\ q.ctx = p.ctx /\ q.queue = p.queue
    BY DEF IsParser, ParserFields
  <1> HIDE DEF q
  <1>2. IsParser(q) /\ InPlaceOf(q, p)
    BY <1>1 DEF IsParser, InPlaceOf
  <1> QED  BY <1>2 DEF q

(* A parser at another place is a parser of the same kind.                 *)
LEMMA ParserAt ==
  ASSUME NEW p, IsParser(p), NEW i
  PROVE  LET q == [p EXCEPT !.pos = i] IN IsParser(q) /\ InPlaceOf(q, p) /\ q.ctx = p.ctx
  <1> DEFINE q == [p EXCEPT !.pos = i]
  <1>1. DOMAIN q = ParserFields /\ q.block = p.block /\ q.ctx = p.ctx /\ q.queue = p.queue
    BY DEF IsParser, ParserFields
  <1> HIDE DEF q
  <1>2. IsParser(q) /\ InPlaceOf(q, p) /\ q.ctx = p.ctx
    BY <1>1 DEF IsParser, InPlaceOf
  <1> QED  BY <1>2 DEF q

(* A parser that is called starts with a block of its kind.                *)
LEMMA NewParser ==
  ASSUME NEW ctx, NEW f, NEW i, NEW depth, NEW b, Built(ctx, b)
  PROVE  IsParser(Parser(ctx, f, i, depth, b)) /\ Parser(ctx, f, i, depth, b).ctx = ctx
  BY DEF Parser, IsParser, ParserFields

(* parse_root starts with one empty http block.                            *)
LEMMA NewRoot ==
  ASSUME NEW f, NEW depth
  PROVE  IsParser(Root(f, depth)) /\ Root(f, depth).ctx = "root"
  <1> DEFINE h == Block(<<f, 0>>, <<>>)
             b == [h EXCEPT !.inner = <<h>>]
  <1>1. DOMAIN h = BlockFields /\ h.inner = <<>>
    BY BlockEmpty
  <1> HIDE DEF h
  <1>2. h.inner \in Seq({})
    BY <1>1
  <1>3. HasServers(h)
    BY <1>1, <1>2 DEF HasServers
  <1>4. DOMAIN b = BlockFields /\ b.inner = <<h>>
    BY <1>1 DEF BlockFields
  <1> HIDE DEF b
  <1>5. Built("root", b)
    BY <1>3, <1>4 DEF Built
  <1>6. Root(f, depth) = Parser("root", f, 1, depth, b)
    BY DEF Root, b, h
  <1> QED  BY <1>5, <1>6, NewParser

(* The parser on top at another position.                                  *)
LEMMA MoveKeeps ==
  ASSUME Nested(stack), NEW i, MoveTo(i)
  PROVE  Nested(stack')
  <1>1. IsParser(Top)
    BY TheTop DEF Top
  <1> DEFINE q == [Top EXCEPT !.pos = i]
  <1>2. IsParser(q) /\ InPlaceOf(q, Top)
    BY <1>1, ParserAt
  <1>3. stack' = Append(Front(stack), q)
    BY DEF MoveTo, Continue
  <1> HIDE DEF q
  <1> QED  BY <1>2, <1>3, GoesOn DEF Top

(* Calls keep the nesting.                                                 *)
LEMMA CallKeeps ==
  ASSUME Nested(stack), NEW p, NEW i, Call(p, i), IsParser(p), <<Top.ctx, p.ctx>> \in Callees
  PROVE  Nested(stack')
  <1>1. IsParser(Top)
    BY TheTop DEF Top
  <1> DEFINE q == [Top EXCEPT !.pos = i]
  <1>2. IsParser(q) /\ InPlaceOf(q, Top) /\ q.ctx = Top.ctx
    BY <1>1, ParserAt
  <1>3. stack' = Append(Append(Front(stack), q), p)
    BY DEF Call
  <1> HIDE DEF q
  <1> QED  BY <1>2, <1>3, CallsAnother DEF Top

(* A block is given to the parser that waits for it.                       *)
LEMMA GivenBack ==
  ASSUME Nested(stack), Top.ctx # "root" \/ Len(stack) # 1, NEW callee, NEW b, Built(callee, b),
         <<Caller.ctx, callee>> \in Callees, callee # "events end", NEW i,
         stack' = Append(SubSeq(stack, 1, Len(stack) - 2),
                         [Caller EXCEPT !.pos = i, !.block = Merge(Caller.block, callee, b)])
  PROVE  Nested(stack')
  <1>1. Len(stack) >= 2 /\ IsParser(Caller)
    BY TheTop DEF Top, Caller
  <1> DEFINE m == Merge(Caller.block, callee, b)
             q == [Caller EXCEPT !.pos = i, !.block = m]
  <1>2. Built(Caller.ctx, m)
    BY <1>1, MergeKeeps DEF IsParser
  <1>3. stack' = Append(SubSeq(stack, 1, Len(stack) - 2), q)
    OBVIOUS
  <1> HIDE DEF m
  <1>4. IsParser(q) /\ InPlaceOf(q, Caller)
    BY <1>1, <1>2, ParserMoved
  <1> HIDE DEF q
  <1> QED  BY <1>1, <1>3, <1>4, ReturnsTo DEF Caller

(* Returns keep the nesting.                                               *)
LEMMA ReturnKeeps ==
  ASSUME Nested(stack), Top.ctx # "root" \/ Len(stack) # 1, Top.ctx \notin {"events", "events end"},
         NEW i, Return(i)
  PROVE  Nested(stack')
  <1>1. IsParser(Top) /\ <<Caller.ctx, Top.ctx>> \in Callees
    BY TheTop DEF Top, Caller
  <1> DEFINE b == Finished(Top.ctx, Top.block)
             j == IF Caller.file = Top.file /\ Top.ctx \notin {"root", "included"} THEN i ELSE Caller.pos
  <1>2. Built(Top.ctx, b)
    <2>1. Built(Top.ctx, Top.block) /\ DOMAIN Top.block = BlockFields
      BY <1>1 DEF IsParser, Built
    <2>2. DOMAIN b = BlockFields /\ b.inner = Top.block.inner
      BY <2>1, FinishedKeeps
    <2> HIDE DEF b
    <2> QED  BY <2>1, <2>2, SameBuilt
  <1>3. stack' = Append(SubSeq(stack, 1, Len(stack) - 2),
                   [Caller EXCEPT !.pos = j, !.block = Merge(Caller.block, Top.ctx, b)])
    BY DEF Return
  <1>4. Top.ctx # "events end"
    OBVIOUS
  <1> HIDE DEF b, j
  <1> QED  BY <1>1, <1>2, <1>3, <1>4, GivenBack

(* A directive changes the settings of the block on top.                   *)
LEMMA DirectiveKeeps ==
  ASSUME Nested(stack), Directive
  PROVE  Nested(stack')
  <1> DEFINE b == Apply(Top.ctx, Top.block, Plain(Peek), Args)
             q == [Top EXCEPT !.pos = Stop + 1, !.block = b]
  <1>1. IsParser(Top)
    BY TheTop DEF Top
  <1>2. stack' = stack \/ stack' = Append(Front(stack), q)
    BY DEF Directive, Bail, Continue
  <1>3. Built(Top.ctx, b)
    <2>1. Built(Top.ctx, Top.block) /\ DOMAIN Top.block = BlockFields
      BY <1>1 DEF IsParser, Built
    <2>2. DOMAIN b = BlockFields /\ b.inner = Top.block.inner
      BY <2>1, ApplyKeeps
    <2> HIDE DEF b
    <2> QED  BY <2>1, <2>2, SameBuilt
  <1> HIDE DEF b
  <1>4. IsParser(q) /\ InPlaceOf(q, Top)
    BY <1>1, <1>3, ParserMoved
  <1> HIDE DEF q
  <1> QED  BY <1>2, <1>4, GoesOn DEF Top

(* The head of a block calls the parser for it.                            *)
LEMMA OpenKeeps ==
  ASSUME Nested(stack), Open
  PROVE  Nested(stack')
  <1> DEFINE b == Fresh(Peek)
             p == Parser(Peek, Top.file, Stop + 1, Top.depth, b)
  <1>1. <<Top.ctx, Peek>> \in Callees /\ Peek # "root"
    <2>1. Top.ctx \in {"root", "http", "server"} /\ Peek \in Opens[Top.ctx]
      BY DEF Open, Opens
    <2>2. CASE Top.ctx = "root"
      <3>1. Peek \in {"events", "http"}
        BY <2>1, <2>2 DEF Opens
      <3> QED  BY <2>2, <3>1 DEF Callees
    <2>3. CASE Top.ctx = "http"
      <3>1. Peek \in {"upstream", "server"}
        BY <2>1, <2>3 DEF Opens
      <3> QED  BY <2>3, <3>1 DEF Callees
    <2>4. CASE Top.ctx = "server"
      <3>1. Peek = "location"
        BY <2>1, <2>4 DEF Opens
      <3> QED  BY <2>4, <3>1 DEF Callees
    <2> QED  BY <2>1, <2>2, <2>3, <2>4
  <1>2. stack' = stack \/ Call(p, Top.pos)
    BY DEF Open, Bail
  <1>3. DOMAIN b = BlockFields /\ b.inner = <<>>
    BY BlockEmpty DEF Fresh, BlockFields
  <1> HIDE DEF b
  <1>4. Built(Peek, b)
    BY <1>1, <1>3, EmptyBuilt
  <1>5. IsParser(p) /\ p.ctx = Peek
    BY <1>4, NewParser
  <1> HIDE DEF p
  <1> QED  BY <1>1, <1>2, <1>5, CallKeeps

(* A turn of the loop over an events block.                                *)
LEMMA EventKeeps ==
  ASSUME Nested(stack), Event
  PROVE  Nested(stack')
  <1> DEFINE b == IF Peek = "worker_connections" THEN Apply("events", Top.block, Peek, Args)
                  ELSE Top.block
             c == IF Token(Top.file, AfterEvent) = "}" THEN "events end" ELSE Top.ctx
             q == [Top EXCEPT !.pos = AfterEvent, !.block = b, !.ctx = c]
  <1>1. IsParser(Top) /\ Top.ctx = "events"
    BY TheTop DEF Top, Event
  <1>2. stack' = stack \/ stack' = Append(Front(stack), q)
    BY DEF Event, Bail, Continue
  <1>3. DOMAIN b = BlockFields
    BY <1>1, ApplyKeeps DEF IsParser, Built
  <1>4. c \in {"events", "events end"}
    BY <1>1
  <1> HIDE DEF b, c
  <1>5. DOMAIN q = ParserFields /\ q.ctx = c /\ q.block = b /\ q.queue = Top.queue
    BY <1>1 DEF IsParser, ParserFields
  <1> HIDE DEF q
  <1>6. IsParser(q) /\ InPlaceOf(q, Top)
    BY <1>1, <1>3, <1>4, <1>5 DEF IsParser, Built, InPlaceOf
  <1> QED  BY <1>2, <1>6, GoesOn DEF Top

(* The end of an events block gives its settings to the root.              *)
LEMMA EventsEndKeeps ==
  ASSUME Nested(stack), EventsEnd
  PROVE  Nested(stack')
  <1>1. IsParser(Top) /\ Top.ctx \in {"events", "events end"}
    BY TheTop DEF Top, EventsEnd
  <1>2. <<Caller.ctx, Top.ctx>> \in Callees
    BY <1>1, TheTop DEF Top, Caller
  <1>3. <<Caller.ctx, "events">> \in Callees
    BY <1>1, <1>2 DEF Callees
  <1>4. Built("events", Top.block)
    BY <1>1 DEF IsParser, Built
  <1> DEFINE j == IF Top.ctx = "events" THEN Top.pos ELSE Top.pos + 1
  <1>5. stack' = Append(SubSeq(stack, 1, Len(stack) - 2),
                   [Caller EXCEPT !.pos = j, !.block = Merge(Caller.block, "events", Top.block)])
    BY DEF EventsEnd
  <1>6. Top.ctx # "root"
    BY <1>1
  <1> HIDE DEF j
  <1> QED  BY <1>3, <1>4, <1>5, <1>6, GivenBack

(* include: the parser on top notes the files to read.                     *)
LEMMA IncludeKeeps ==
  ASSUME Nested(stack), Include
  PROVE  Nested(stack')
  <1> DEFINE w == Matches(Args[1])
             q == [Top EXCEPT !.pos = Stop + 1, !.queue = w]
  <1>1. IsParser(Top) /\ Top.ctx \in {"root", "http"}
    BY TheTop DEF Top, Include
  <1>2. stack' = stack \/ stack' = Append(Front(stack), q)
    BY DEF Include, Bail, Continue
  <1> HIDE DEF w
  <1>3. DOMAIN q = ParserFields /\ q.ctx = Top.ctx /\ q.block = Top.block
    BY <1>1 DEF IsParser, ParserFields
  <1> HIDE DEF q
  <1>4. IsParser(q) /\ InPlaceOf(q, Top)
    BY <1>1, <1>3 DEF IsParser, InPlaceOf
  <1> QED  BY <1>2, <1>4, GoesOn DEF Top

(* The next of them is read by a parser of its own.                        *)
LEMMA NextFileKeeps ==
  ASSUME Nested(stack), NextFile
  PROVE  Nested(stack')
  <1> DEFINE f == Head(Top.queue)
             w == Tail(Top.queue)
             c == Block(<<f, 0>>, <<>>)
             b == [c EXCEPT !.inner = Top.block.inner]
             p == IF Top.ctx = "root" THEN Root(f, Top.depth + 1)
                  ELSE Parser("included", f, 1, Top.depth + 1, b)
             q == [Top EXCEPT !.queue = w]
  <1>1. IsParser(Top) /\ Top.ctx \in {"root", "http"}
    BY TheTop DEF Top, NextFile, IsParser
  <1>2. stack' = stack \/ stack' = Append(Append(Front(stack), q), p)
    BY DEF NextFile, Bail
  <1>3. IsParser(p) /\ <<Top.ctx, p.ctx>> \in Callees
    <2>1. CASE Top.ctx = "root"
      <3>1. p = Root(f, Top.depth + 1)
        BY <2>1
      <3> HIDE DEF p
      <3> QED  BY <2>1, <3>1, NewRoot DEF Callees
    <2>2. CASE Top.ctx = "http"
      <3>1. p = Parser("included", f, 1, Top.depth + 1, b)
        BY <2>2
      <3>2. DOMAIN c = BlockFields
        BY BlockEmpty
      <3> HIDE DEF c
      <3>3. DOMAIN b = BlockFields /\ b.inner = Top.block.inner
        BY <3>2 DEF BlockFields
      <3> HIDE DEF b, p
      <3>4. Built("http", Top.block)
        BY <1>1, <2>2 DEF IsParser
      <3>5. Built("included", b)
        BY <3>3, <3>4 DEF Built, HasServers
      <3> QED  BY <2>2, <3>1, <3>5, NewParser DEF Callees
    <2> QED  BY <1>1, <2>1, <2>2
  <1> HIDE DEF p, w
  <1>4. DOMAIN q = ParserFields /\ q.ctx = Top.ctx /\ q.block = Top.block
    BY <1>1 DEF IsParser, ParserFields
  <1> HIDE DEF q
  <1>5. IsParser(q) /\ InPlaceOf(q, Top)
    BY <1>1, <1>4 DEF IsParser, InPlaceOf
  <1> QED  BY <1>2, <1>3, <1>4, <1>5, CallsAnother DEF Top

(* A file included in http is searched for servers.                        *)
LEMMA SearchKeeps ==
  ASSUME Nested(stack), Search
  PROVE  Nested(stack')
  <1> DEFINE b == Block(<<Top.file, Top.pos>>, <<>>)
             p == Parser("server", Top.file, Top.pos + 2, Top.depth, b)
  <1>1. Call(p, Top.pos) \/ MoveTo(Top.pos + 2) \/ MoveTo(Top.pos + 1)
    BY DEF Search
  <1>2. <<Top.ctx, "server">> \in Callees
    BY DEF Search, Callees
  <1>3. DOMAIN b = BlockFields /\ b.inner = <<>>
    BY BlockEmpty
  <1> HIDE DEF b
  <1>4. Built("server", b)
    BY <1>3, EmptyBuilt
  <1>5. IsParser(p) /\ p.ctx = "server"
    BY <1>4, NewParser
  <1> HIDE DEF p
  <1> QED  BY <1>1, <1>2, <1>5, CallKeeps, MoveKeeps

(* The parsers stay nested as the blocks are.                              *)
LEMMA ParseKeeps ==
  ASSUME Nested(stack), Parse
  PROVE  Nested(stack')
  <1>1. CASE Directive
    BY <1>1, DirectiveKeeps
  <1>2. CASE Open
    BY <1>2, OpenKeeps
  <1>3. CASE Close
    <2>1. Top.ctx # "root" /\ Top.ctx \notin {"events", "events end"} /\ Return(Top.pos + 1)
      BY <1>3 DEF Close
    <2> QED  BY <2>1, ReturnKeeps
  <1>4. CASE Stray
    BY <1>4 DEF Stray, Bail
  <1>5. CASE Unknown
    BY <1>5, MoveKeeps DEF Unknown
  <1>6. CASE UpstreamSkips
    BY <1>6, MoveKeeps DEF UpstreamSkips
  <1>7. CASE Event
    BY <1>7, EventKeeps
  <1>8. CASE EventsEnd
    BY <1>8, EventsEndKeeps
  <1>9. CASE Include
    BY <1>9, IncludeKeeps
  <1>10. CASE NextFile
    BY <1>10, NextFileKeeps
  <1>11. CASE Search
    BY <1>11, SearchKeeps
  <1>12. CASE EndOfFile
    <2>1. \/ stack' = stack
          \/ /\ Top.ctx # "root" \/ Len(stack) # 1
             /\ Top.ctx \notin {"events", "events end"} /\ Return(Top.pos)
      BY <1>12 DEF EndOfFile
    <2> QED  BY <2>1, ReturnKeeps
  <1> QED  BY <1>1, <1>2, <1>3, <1>4, <1>5, <1>6, <1>7, <1>8, <1>9, <1>10, <1>11, <1>12 DEF Parse

-----------------------------------------------------------------------------
(***************************************************************************)
(* The request is routed by the configuration that was read                *)
(***************************************************************************)

(* The servers read are a sequence, and so are the locations of each.      *)
LEMMA ServersRead ==
  ASSUME Nested(stack)
  PROVE  /\ Len(Servers) \in Nat /\ DOMAIN Servers = 1..Len(Servers)
         /\ Servers # <<>> => Len(Servers) >= 1
         /\ \A n \in DOMAIN Servers : IsSeq(Servers[n].inner)
  <1>1. IsParser(stack[1]) /\ stack[1].ctx = "root"
    <2>1. Len(stack) \in Nat /\ Len(stack) >= 1
      BY SeqFacts DEF Nested
    <2>2. 1 \in 1..Len(stack)
      BY <2>1
    <2> QED  BY <2>2 DEF Nested
  <1>2. PICK h : Config.inner = <<h>> /\ HasServers(h)
    BY <1>1 DEF IsParser, Built, Config
  <1>3. Config.inner[1] = h
    <2>1. <<h>>[1] = h
      OBVIOUS
    <2> QED  BY <1>2, <2>1
  <1>4. PICK S : Servers \in Seq(S) /\ \A server \in S : IsSeq(server.inner)
    BY <1>2, <1>3 DEF HasServers, Servers
  <1> HIDE DEF Servers
  <1>5. Len(Servers) \in Nat /\ DOMAIN Servers = 1..Len(Servers)
    BY <1>4, LenProperties
  <1>6. Servers # <<>> => Len(Servers) >= 1
    BY <1>4, EmptySeq
  <1>7. \A n \in DOMAIN Servers : Servers[n] \in S
    BY <1>4, <1>5, ElementOfSeq
  <1> QED  BY <1>4, <1>5, <1>6, <1>7

(* select_server names a server there is.                                  *)
LEMMA SelectServerIn ==
  ASSUME NEW n \in Nat, n >= 1, NEW servers, DOMAIN servers = 1..n, NEW host
  PROVE  SelectServer(servers, host) \in 1..n
  <1> DEFINE kinds == {k \in DOMAIN Kinds : Named(servers, Kinds[k], host) # {}}
             named == Named(servers, Kinds[Min(kinds)], host)
  <1>1. CASE kinds = {}
    BY <1>1 DEF SelectServer
  <1>2. CASE kinds # {}
    <2>1. kinds \subseteq Nat
      <3>1. DOMAIN Kinds \subseteq Nat
        BY DEF Kinds
      <3> QED  BY <3>1
    <2>2. Min(kinds) \in kinds
      <3> HIDE DEF kinds
      <3> QED  BY <1>2, <2>1, MinOf
    <2>3. named # {}
      BY <2>2
    <2>4. named \subseteq 1..n
      BY DEF Named
    <2>5. SelectServer(servers, host) = Min(named)
      BY <1>2 DEF SelectServer
    <2> HIDE DEF named, kinds
    <2>6. named \subseteq Nat
      BY <2>4
    <2> QED  BY <2>3, <2>4, <2>5, <2>6, MinOf
  <1> QED  BY <1>1, <1>2

(* Behind a request there is a configuration that has been read.           *)
RouteInv ==
  /\ Nested(stack)
  /\ job.at # "idle" => parsed = "ok" /\ Servers # <<>>
  /\ job.at = "route" => job.path = job.req.path
  /\ RoutedByPriority

(* At first no request has been routed.                                    *)
LEMMA InitRouteInv == Init => RouteInv
  <1> SUFFICES ASSUME Init PROVE RouteInv
    OBVIOUS
  <1> DEFINE p == Root("main", 0)
  <1>1. stack = <<p>> /\ job.at = "idle"
    BY DEF Init, ConfigInit, Idle
  <1>2. IsParser(p) /\ p.ctx = "root"
    BY NewRoot
  <1> HIDE DEF p
  <1>3. IsSeq(<<p>>) /\ Len(<<p>>) = 1 /\ <<p>>[1] = p
    <2>1. <<p>> \in Seq({p})
      OBVIOUS
    <2> QED  BY <2>1 DEF IsSeq
  <1>4. Nested(<<p>>)
    BY <1>2, <1>3 DEF Nested
  <1> QED  BY <1>1, <1>4 DEF RouteInv, RoutedByPriority

(* After the routing no handler comes back to it.                          *)
Beyond == Ats \ {"idle", "route", "authorize"}
Goes == job'.at \in Beyond /\ job'.server = job.server /\ UNCHANGED <<configVars, changes>>

(* An answer ends the handling.                                            *)
LEMMA FinishGoes ==
  ASSUME JobInv, NEW a, Finish(a)
  PROVE  Goes
  BY DEF Goes, Finish, Job, JobInv, Fine, Shape, JobFields, Beyond, Ats

(* A static answer is sent on, or its error page is looked up.             *)
LEMMA ServeGoes ==
  ASSUME JobInv, NEW a, Serve(a)
  PROVE  Goes
  <1>1. DOMAIN job = JobFields
    BY DEF JobInv, Fine, Shape
  <1>2. \/ \E x : Job([job EXCEPT !.at = "compress", !.answer = x])
        \/ \E x, y : Job([job EXCEPT !.at = "resolve", !.path = x, !.page = y, !.n = 1])
    <2> HIDE DEF Job
    <2> QED  BY DEF Serve
  <1> QED  BY <1>1, <1>2 DEF Goes, Job, JobFields, Beyond, Ats

(* Every look at a file leads to another or to an answer.                  *)
LEMMA LookupGoes ==
  ASSUME JobInv,
         Resolve \/ Try \/ Directory \/ Index \/ Exists \/ Within \/ Metadata \/ Read
  PROVE  Goes /\ job.at \notin {"idle", "route", "done"}
  <1>1. DOMAIN job = JobFields
    BY DEF JobInv, Fine, Shape
  <1>3. ASSUME NEW at \in Beyond, NEW file, NEW n,
               \/ Job([job EXCEPT !.at = at])
               \/ Job([job EXCEPT !.at = at, !.file = file])
               \/ Job([job EXCEPT !.at = at, !.file = file, !.n = n])
        PROVE  Goes
    BY <1>1, <1>3 DEF Goes, Job, JobFields
  <1>4. ASSUME NEW file, LookAt(file) PROVE Goes
    BY <1>1, <1>4 DEF Goes, LookAt, Job, JobFields, Beyond, Ats
  <1>5. ASSUME job.at \in Beyond, NEW n, Job([job EXCEPT !.n = n])
        PROVE  Goes
    BY <1>1, <1>5 DEF Goes, Job, JobFields
  <1>6. {"try", "index", "exists", "within", "metadata"} \subseteq Beyond
    BY DEF Beyond, Ats
  <1>7. CASE Resolve
    <2>1. (\E a : Serve(a)) \/ Job([job EXCEPT !.at = "try"]) \/ \E file : LookAt(file)
      <3> HIDE DEF Job, Serve, LookAt
      <3> QED  BY <1>7 DEF Resolve, Fail
    <2> QED  BY <1>3, <1>4, <1>6, <1>7, <2>1, ServeGoes DEF Resolve
  <1>8. CASE Try
    <2>1. (\E a : Serve(a)) \/ (\E file : LookAt(file)) \/ Job([job EXCEPT !.n = job.n + 1])
      <3> HIDE DEF Job, Serve, LookAt
      <3> QED  BY <1>8 DEF Try, Fail
    <2>2. job.at \in Beyond /\ job.at \notin {"idle", "route", "done"}
      BY <1>6, <1>8 DEF Try
    <2> QED  BY <1>4, <1>5, <2>1, <2>2, ServeGoes
  <1>9. CASE Directory \/ Exists \/ Within
    <2>1. (\E a : Serve(a)) \/ \E at \in Beyond : Job([job EXCEPT !.at = at])
      <3> HIDE DEF Job, Serve
      <3> QED  BY <1>6, <1>9 DEF Directory, Exists, Within, Fail
    <2> QED  BY <1>3, <1>9, <2>1, ServeGoes DEF Directory, Exists, Within
  <1>10. CASE Index
    <2>1. \/ \E a : Serve(a)
          \/ \E file : Job([job EXCEPT !.at = "exists", !.file = file])
          \/ Job([job EXCEPT !.n = job.n + 1])
      <3> HIDE DEF Job, Serve
      <3> QED  BY <1>10 DEF Index, Fail
    <2>2. job.at \in Beyond /\ job.at \notin {"idle", "route", "done"}
      BY <1>6, <1>10 DEF Index
    <2> QED  BY <1>3, <1>5, <1>6, <2>1, <2>2, ServeGoes
  <1>11. CASE Metadata \/ Read
    <2>1. \/ \E a : Serve(a)
          \/ \E e, part : Job([job EXCEPT !.at = "read", !.meta = e, !.part = part])
      <3> HIDE DEF Job, Serve
      <3> QED  BY <1>11 DEF Metadata, Read, Fail
    <2>2. ASSUME NEW e, NEW part, Job([job EXCEPT !.at = "read", !.meta = e, !.part = part])
          PROVE  Goes
      BY <1>1, <2>2 DEF Goes, Job, JobFields, Beyond, Ats
    <2> QED  BY <1>11, <2>1, <2>2, ServeGoes DEF Metadata, Read
  <1> QED  BY <1>7, <1>8, <1>9, <1>10, <1>11

(* So do the other steps of the handler.                                   *)
LEMMA OthersGo ==
  ASSUME JobInv, Authorize \/ Limit \/ Dispatch \/ FromBackend \/ Compress
  PROVE  Goes /\ job.at \notin {"idle", "route", "done"}
  <1>1. DOMAIN job = JobFields
    BY DEF JobInv, Fine, Shape
  <1>2. \/ \E a : Finish(a)
        \/ \E at \in {"limit", "dispatch", "resolve"} : Job([job EXCEPT !.at = at])
        \/ \E a : Job([job EXCEPT !.at = "compress", !.answer = a])
        \/ \E kind, body : Begin(kind, body)
    <2>1. CASE Authorize
      <3> HIDE DEF Finish, Job, Begin
      <3> QED  BY <2>1 DEF Authorize
    <2>2. CASE Limit
      <3> HIDE DEF Finish, Job, Begin
      <3> QED  BY <2>2 DEF Limit
    <2>3. CASE Dispatch
      <3>1. (\E a : Finish(a)) \/ Job([job EXCEPT !.at = "resolve"]) \/ Ask
        <4> HIDE DEF Finish, Job, Ask
        <4> QED  BY <2>3 DEF Dispatch
      <3>2. Ask => \/ \E kind, body : Begin(kind, body)
                   \/ \E a : Job([job EXCEPT !.at = "compress", !.answer = a])
        <4> HIDE DEF Begin, Job
        <4> QED  BY DEF Ask
      <3> HIDE DEF Finish, Job, Begin, Ask
      <3> QED  BY <3>1, <3>2
    <2>4. CASE FromBackend
      <3> HIDE DEF Finish, Job
      <3> QED  BY <2>4 DEF FromBackend
    <2>5. CASE Compress
      <3> HIDE DEF Finish, Job
      <3> QED  BY <2>5 DEF Compress
    <2> HIDE DEF Finish, Job, Begin
    <2> QED  BY <2>1, <2>2, <2>3, <2>4, <2>5
  <1>3. job.at \notin {"idle", "route", "done"}
    BY DEF Authorize, Limit, Dispatch, FromBackend, Compress
  <1>4. ASSUME NEW at \in {"limit", "dispatch", "resolve"}, Job([job EXCEPT !.at = at])
        PROVE  Goes
    BY <1>1, <1>4 DEF Goes, Job, JobFields, Beyond, Ats
  <1>5. ASSUME NEW a, Job([job EXCEPT !.at = "compress", !.answer = a])
        PROVE  Goes
    BY <1>1, <1>5 DEF Goes, Job, JobFields, Beyond, Ats
  <1>6. ASSUME NEW kind, NEW body, Begin(kind, body)
        PROVE  Goes
    BY <1>1, <1>6 DEF Goes, Begin, JobFields, Beyond, Ats
  <1> QED  BY <1>2, <1>3, <1>4, <1>5, <1>6, FinishGoes

(* The routing itself.                                                     *)
LEMMA RouteRoutes ==
  ASSUME JobInv, RouteInv, Route
  PROVE  RouteInv'
  <1> DEFINE s == SelectServer(Servers, job.req.host)
             srv == Servers[s]
             first == Rewrite(srv, job.path)
             l == SelectLocation(srv.inner, first.path)
  <1>1. DOMAIN job = JobFields /\ job.at = "route"
    BY DEF JobInv, Fine, Shape, Route
  <1>2. Nested(stack) /\ parsed = "ok" /\ Servers # <<>> /\ job.path = job.req.path
    BY <1>1 DEF RouteInv
  <1>3. \/ \E a : Finish(a)
        \/ \E p : Job([job EXCEPT !.at = "authorize", !.server = s, !.location = l, !.path = p])
    <2> HIDE DEF Finish, Job
    <2> QED  BY DEF Route
  <1>4. CASE \E a : Finish(a)
    <2>1. job'.at \in Beyond /\ UNCHANGED configVars
      BY <1>4, FinishGoes DEF Goes
    <2> QED  BY <1>2, <2>1
             DEF RouteInv, RoutedByPriority, configVars, Beyond, Servers, Config
  <1>5. ASSUME NEW p, Job([job EXCEPT !.at = "authorize", !.server = s, !.location = l, !.path = p])
        PROVE  RouteInv'
    <2>1. s \in DOMAIN Servers
      <3>1. Len(Servers) \in Nat /\ Len(Servers) >= 1 /\ DOMAIN Servers = 1..Len(Servers)
        BY <1>2, ServersRead
      <3> QED  BY <3>1, SelectServerIn
    <2>2. IsSeq(srv.inner)
      BY <1>2, <2>1, ServersRead
    <2>3. l = Preferred(srv.inner, first.path)
      <3>1. Len(srv.inner) \in Nat /\ DOMAIN srv.inner = 1..Len(srv.inner)
        BY <2>2, SeqFacts
      <3> QED  BY <3>1, SelectedIsPreferred
    <2>4. /\ job'.at = "authorize" /\ job'.server = s /\ job'.location = l /\ job'.req = job.req
          /\ UNCHANGED configVars
      <3> HIDE DEF s, l
      <3> QED  BY <1>1, <1>5 DEF Goes, Job, JobFields
    <2>5. UNCHANGED <<stack, parsed, Servers>>
      BY <2>4 DEF configVars, Servers, Config
    <2>6. Server' = srv
      BY <2>4, <2>5 DEF Server
    <2>7. first.path = Rewrite(srv, job.req.path).path
      BY <1>2
    <2> HIDE DEF s, srv, first, l
    <2>8. RoutedByPriority'
      BY <2>3, <2>4, <2>6, <2>7 DEF RoutedByPriority
    <2> QED  BY <1>2, <2>4, <2>5, <2>8 DEF RouteInv
  <1> QED  BY <1>3, <1>4, <1>5

(* Every step keeps what is known of the routing.                          *)
LEMMA NextRouteInv == JobInv /\ RouteInv /\ [Next]_vars => RouteInv'
  <1> SUFFICES ASSUME JobInv, RouteInv, [Next]_vars PROVE RouteInv'
    OBVIOUS
  <1>1. CASE Load
    <2>1. Nested(stack') /\ job.at = "idle" /\ job' = job
      BY <1>1, ParseKeeps DEF RouteInv, Load, Parse
    <2> QED  BY <2>1 DEF RouteInv, RoutedByPriority
  <1>2. CASE Arrive
    <2>1. /\ parsed = "ok" /\ Servers # <<>> /\ UNCHANGED configVars
          /\ job'.at = "route" /\ job'.path = job'.req.path
      BY <1>2 DEF Arrive, Job, Idle
    <2> QED  BY <2>1 DEF RouteInv, RoutedByPriority, configVars, Servers, Config
  <1>3. CASE Route
    BY <1>3, RouteRoutes
  <1>4. CASE Handle /\ ~Arrive /\ ~Route
    <2>1. job'.at \in Beyond /\ UNCHANGED configVars /\ job.at # "idle"
      BY <1>4, LookupGoes, OthersGo DEF Handle, Goes
    <2> QED  BY <2>1 DEF RouteInv, RoutedByPriority, configVars, Beyond, Servers, Config
  <1>5. CASE Change
    <2>1. /\ job.at \notin {"idle", "route", "authorize"} /\ UNCHANGED configVars
          /\ job'.at = job.at
      BY <1>5 DEF Change, JobInv, Fine, Shape, JobFields
    <2> QED  BY <2>1 DEF RouteInv, RoutedByPriority, configVars, Servers, Config
  <1>6. CASE Exchanging \/ Backend \/ Done \/ UNCHANGED vars
    <2>1. UNCHANGED <<configVars, job>>
      BY <1>6 DEF Exchanging, Backend, Done, vars
    <2> QED  BY <2>1 DEF RouteInv, RoutedByPriority, configVars, Servers, Config, Server
  <1> QED  BY <1>1, <1>2, <1>3, <1>4, <1>5, <1>6 DEF Next

(* router/mod.rs: the location that answers is the one its priorities      *)
(* name, whatever the configuration and the path.                          *)
THEOREM RoutedByPriorityHolds == Spec => []RoutedByPriority
  <1>1. RouteInv => RoutedByPriority
    BY DEF RouteInv
  <1> QED  BY <1>1, InitJobInv, NextJobInv, InitRouteInv, NextRouteInv, PTL DEF Spec

-----------------------------------------------------------------------------
(***************************************************************************)
(* Reading stays within its limits, whatever is written: how deep files    *)
(* are included, how many parsers wait, how long a block gets, where in a  *)
(* file a parser is.                                                       *)
(***************************************************************************)

Files == {"main"} \cup DOMAIN Included

(* How far behind the end of its file a parser of a kind may be: one for   *)
(* each block in it that the end closes.                                   *)
Slack(c) == CASE c = "root" -> 4
              [] c \in {"http", "included"} -> 3
              [] c = "server" -> 2
              [] c = "events end" -> 0
              [] OTHER -> 1

(* How many parsers there are up to one of its kind, besides the roots.    *)
Height(c) == CASE c = "root" -> 1
               [] c \in {"http", "events", "events end"} -> 2
               [] c \in {"upstream", "included"} -> 3
               [] c = "server" -> 4
               [] OTHER -> 5

(* The slack of each kind of parser.                                       *)
LEMMA SlackOf ==
  /\ Slack("root") = 4 /\ Slack("http") = 3 /\ Slack("included") = 3 /\ Slack("server") = 2
  /\ Slack("upstream") = 1 /\ Slack("location") = 1 /\ Slack("events") = 1
  /\ Slack("events end") = 0
  BY DEF Slack

(* The height of each kind of parser.                                      *)
LEMMA HeightOf ==
  /\ Height("root") = 1 /\ Height("http") = 2 /\ Height("events") = 2 /\ Height("events end") = 2
  /\ Height("upstream") = 3 /\ Height("included") = 3 /\ Height("server") = 4
  /\ Height("location") = 5
  BY DEF Height

Contexts == {"root", "http", "included", "server", "upstream", "location", "events", "events end"}

(* The parser at place k: where it is, how deep, how much it has built.    *)
Bounds(k, p) ==
  /\ p.ctx \in Contexts /\ p.file \in Files
  /\ p.pos \in Nat \ {0} /\ p.pos <= Len(Text(p.file)) + Slack(p.ctx)
  /\ p.depth \in Nat /\ p.depth <= MaxDepth + 1
  /\ p.ctx \in {"root", "http"} => p.depth <= MaxDepth
  /\ p.ctx = "root" => k = p.depth + 1 /\ (p.queue # <<>> => p.depth < MaxDepth)
  /\ k <= MaxDepth + Height(p.ctx)
  /\ p.ctx \in {"http", "included"} => Len(p.block.inner) <= MaxServers
  /\ p.ctx = "server" => Len(p.block.inner) <= MaxLocations

(* The parser c has room for what p reads.                                 *)
Room(c, p) ==
  /\ p.ctx \in {"events", "events end"} => c.file = p.file
  /\ p.ctx = "server" => Len(c.block.inner) < MaxServers
  /\ p.ctx = "location" => Len(c.block.inner) < MaxLocations

Bounded(s) ==
  /\ \A k \in 1..Len(s) : Bounds(k, s[k])
  /\ \A k \in 2..Len(s) : Room(s[k - 1], s[k])

(* The texts are sequences of words; behind the end is no word.            *)
LEMMA TextIs ==
  ASSUME text \in Texts, NEW f \in Files
  PROVE  /\ Len(Text(f)) \in Nat
         /\ \A i \in Nat : Token(f, i) # "end" => i <= Len(Text(f))
  <1>1. Text(f) \in Seq(STRING)
    BY ConfigAssumption DEF Text, Files
  <1>2. Len(Text(f)) \in Nat
    BY <1>1, LenProperties
  <1> QED  BY <1>2 DEF Token

(* collect_args stops at the end of the words, at the latest of the file.  *)
LEMMA AfterWordsIn ==
  ASSUME text \in Texts, NEW f \in Files, NEW i \in Nat, i <= Len(Text(f)) + 1
  PROVE  AfterWords(f, i) \in i..Len(Text(f)) + 1
  <1> DEFINE n == Len(Text(f)) + 1
             stops == {j \in i..n : ~IsWord(f, j)}
  <1>1. Len(Text(f)) \in Nat
    BY TextIs
  <1>2. n \in i..n /\ n \in Nat
    BY <1>1
  <1>3. ~IsWord(f, n)
    <2>1. Token(f, n) = "end"
      BY <1>1 DEF Token
    <2> QED  BY <2>1 DEF IsWord
  <1>4. stops \subseteq Nat /\ stops # {}
    BY <1>2, <1>3
  <1>5. PICK j \in stops : \A k \in stops : j <= k
    <2> HIDE DEF stops
    <2> QED  BY <1>4, HasLeast
  <1>6. j \in i..n /\ ~IsWord(f, j)
    BY <1>5
  <1>7. \A k \in i..j - 1 : IsWord(f, k)
    <2> SUFFICES ASSUME NEW k \in i..j - 1, ~IsWord(f, k) PROVE FALSE
      OBVIOUS
    <2>1. k \in i..n
      BY <1>2, <1>6
    <2>2. k \in stops
      BY <2>1
    <2>3. j <= k
      BY <1>5, <2>2
    <2> QED  BY <1>6, <2>3
  <1>8. \E m \in i..n : ~IsWord(f, m) /\ \A k \in i..m - 1 : IsWord(f, k)
    BY <1>6, <1>7
  <1> HIDE DEF n
  <1>9. AfterWords(f, i) = CHOOSE m \in i..n : ~IsWord(f, m) /\ \A k \in i..m - 1 : IsWord(f, k)
    BY DEF AfterWords, n
  <1>10. AfterWords(f, i) \in i..n
    BY <1>8, <1>9
  <1> QED  BY <1>10 DEF n

(* skip_block stops behind a brace, at the latest behind the file.         *)
LEMMA AfterBlockIn ==
  ASSUME text \in Texts, NEW f \in Files, NEW i \in Nat, i <= Len(Text(f)) + 1
  PROVE  AfterBlock(f, i) \in i..Len(Text(f)) + 1
  <1> DEFINE n == Len(Text(f))
             ends == {j \in i..n : HowMany(f, "}", i, j) > HowMany(f, "{", i, j)}
  <1>1. n \in Nat /\ i <= n + 1
    BY TextIs
  <1>2. AfterBlock(f, i) = 1 + IF ends = {} THEN n ELSE Min(ends)
    BY DEF AfterBlock
  <1>3. ends \subseteq i..n
    OBVIOUS
  <1> HIDE DEF n, ends
  <1>4. ends # {} => Min(ends) \in ends
    <2>1. ends \subseteq Nat
      BY <1>3
    <2> QED  BY <2>1, MinOf
  <1> QED
    <2>1. CASE ends = {}
      <3>1. AfterBlock(f, i) = 1 + n
        BY <1>2, <2>1
      <3> QED  BY <1>1, <3>1 DEF n
    <2>2. CASE ends # {}
      <3>1. AfterBlock(f, i) = 1 + Min(ends) /\ Min(ends) \in i..n
        BY <1>2, <1>3, <1>4, <2>2
      <3>2. AfterBlock(f, i) \in i..n + 1
        BY <1>1, <3>1
      <3> QED  BY <3>2 DEF n
    <2> QED  BY <2>1, <2>2

(* An unknown directive is passed over, with the block behind it, at the   *)
(* latest at the end of the file.                                          *)
LEMMA AfterUnknownIn ==
  ASSUME text \in Texts, NEW f \in Files, NEW i \in Nat, i <= Len(Text(f)), NEW blocks
  PROVE  AfterUnknown(f, i, blocks) \in i + 1..Len(Text(f)) + 1
  <1> DEFINE n == Len(Text(f))
             j == AfterWords(f, i + 1)
  <1>1. n \in Nat /\ \A k \in Nat : Token(f, k) # "end" => k <= n
    BY TextIs
  <1>2. j \in i + 1..n + 1
    <2>1. i + 1 \in Nat /\ i + 1 <= n + 1
      BY <1>1
    <2> QED  BY <2>1, AfterWordsIn
  <1>3. \/ Token(f, j) = ";" /\ AfterUnknown(f, i, blocks) = j + 1
        \/ Token(f, j) = "{" /\ AfterUnknown(f, i, blocks) = AfterBlock(f, j + 1)
        \/ AfterUnknown(f, i, blocks) = j
    BY DEF AfterUnknown
  <1> HIDE DEF j
  <1>4. j \in Nat /\ j + 1 \in Nat /\ j \in i + 1..n + 1
    BY <1>1, <1>2
  <1>6. Token(f, j) # "end" => j + 1 \in i + 1..n + 1
    <2> HIDE DEF n
    <2>1. ASSUME Token(f, j) # "end" PROVE j + 1 \in i + 1..n + 1
      <3>1. j <= n /\ j \in Nat /\ j >= i + 1 /\ n \in Nat
        BY <1>1, <1>4, <2>1
      <3> QED  BY <3>1
    <2> QED  BY <2>1
  <1>5. Token(f, j) = "{" => AfterBlock(f, j + 1) \in i + 1..n + 1
    <2>1. ASSUME Token(f, j) = "{" PROVE AfterBlock(f, j + 1) \in i + 1..n + 1
      <3>1. Token(f, j) # "end"
        BY <2>1
      <3>2. j + 1 <= n + 1 /\ j + 1 \in Nat
        BY <1>4, <1>6, <3>1
      <3>3. AfterBlock(f, j + 1) \in j + 1..n + 1
        BY <3>2, AfterBlockIn
      <3> HIDE DEF n
      <3> QED  BY <1>4, <3>2, <3>3
    <2> QED  BY <2>1
  <1> HIDE DEF n
  <1>7. AfterUnknown(f, i, blocks) \in i + 1..n + 1
    BY <1>3, <1>4, <1>5, <1>6
  <1> QED  BY <1>7 DEF n

(* A parser in the place of another is called by the same one.             *)
Replaces(q, p) == InPlaceOf(q, p) /\ q.file = p.file

(* It has the same room with its caller.                                   *)
LEMMA SameRoom ==
  ASSUME NEW c, NEW p, NEW q, Room(c, p), Replaces(q, p)
  PROVE  Room(c, q)
  BY DEF Room, InPlaceOf, Replaces

(* The first parsers and one that has gone on stay within the limits.      *)
LEMMA BoundedWith ==
  ASSUME NEW s, Nested(s), Bounded(s), NEW k \in Nat, k + 1 <= Len(s), NEW q, Bounds(k + 1, q),
         Replaces(q, s[k + 1])
  PROVE  Bounded(Append(SubSeq(s, 1, k), q))
  <1> DEFINE t == Append(SubSeq(s, 1, k), q)
  <1>1. Len(s) \in Nat /\ IsSeq(s) /\ k \in 0..Len(s)
    <2>1. IsSeq(s) /\ Len(s) \in Nat
      BY SeqFacts DEF Nested
    <2>2. k \in 0..Len(s)
      BY <2>1
    <2> QED  BY <2>1, <2>2
  <1>2. Len(t) = k + 1 /\ t[k + 1] = q /\ \A i \in 1..k : t[i] = s[i]
    BY <1>1, Behind
  <1> HIDE DEF t
  <1>3. \A i \in 1..Len(t) : Bounds(i, t[i])
    <2>1. \A i \in 1..k + 1 : i \in 1..k \/ i = k + 1
      OBVIOUS
    <2>2. \A i \in 1..k : Bounds(i, s[i])
      BY <1>1 DEF Bounded
    <2> QED  BY <1>2, <2>1, <2>2
  <1>4. ASSUME NEW i \in 2..Len(t) PROVE Room(t[i - 1], t[i])
    <2>1. i \in 2..Len(s) /\ t[i - 1] = s[i - 1]
      BY <1>1, <1>2
    <2>2. Room(s[i - 1], s[i])
      BY <2>1 DEF Bounded
    <2>3. CASE i = k + 1
      <3>1. t[i] = q /\ Replaces(q, s[i])
        BY <1>2, <2>3
      <3> QED  BY <2>1, <2>2, <3>1, SameRoom
    <2>4. CASE i # k + 1
      <3>1. i \in 1..k
        BY <1>2, <2>4
      <3> QED  BY <1>2, <2>1, <2>2, <3>1
    <2> QED  BY <2>3, <2>4
  <1>5. Bounded(t)
    BY <1>3, <1>4 DEF Bounded
  <1> QED  BY <1>5 DEF t

(* So does one more on top, where its caller has room.                     *)
LEMMA BoundedDeeper ==
  ASSUME NEW s, Nested(s), Bounded(s), NEW p, Bounds(Len(s) + 1, p), Room(Last(s), p)
  PROVE  Bounded(Append(s, p))
  <1> DEFINE t == Append(s, p)
             n == Len(s)
  <1>1. n \in Nat /\ IsSeq(s) /\ n >= 1
    BY SeqFacts DEF Nested
  <1>2. Len(t) = n + 1 /\ t[n + 1] = p /\ \A i \in 1..n : t[i] = s[i]
    <2>1. SubSeq(s, 1, n) = s
      BY <1>1, SeqFacts
    <2>2. n \in 0..n
      BY <1>1
    <2>3. /\ Len(Append(SubSeq(s, 1, n), p)) = n + 1
          /\ Append(SubSeq(s, 1, n), p)[n + 1] = p
          /\ \A i \in 1..n : Append(SubSeq(s, 1, n), p)[i] = s[i]
      BY <1>1, <2>2, Behind
    <2> QED  BY <2>1, <2>3
  <1> HIDE DEF t
  <1>3. \A i \in 1..Len(t) : Bounds(i, t[i])
    <2>1. \A i \in 1..n + 1 : i \in 1..n \/ i = n + 1
      BY <1>1
    <2>2. (\A i \in 1..n : Bounds(i, s[i])) /\ Bounds(n + 1, p)
      BY DEF Bounded
    <2> HIDE DEF n
    <2> QED  BY <1>2, <2>1, <2>2
  <1>4. ASSUME NEW i \in 2..Len(t) PROVE Room(t[i - 1], t[i])
    <2>1. i - 1 \in 1..n /\ t[i - 1] = s[i - 1]
      BY <1>1, <1>2
    <2>2. CASE i = n + 1
      <3>1. i - 1 = n /\ t[i] = p
        BY <1>1, <1>2, <2>2
      <3> QED  BY <2>1, <3>1 DEF Last
    <2>3. CASE i # n + 1
      <3>1. i \in 2..n /\ t[i] = s[i]
        BY <1>1, <1>2, <2>3
      <3> QED  BY <2>1, <3>1 DEF Bounded
    <2> QED  BY <2>2, <2>3
  <1>5. Bounded(t)
    BY <1>3, <1>4 DEF Bounded
  <1> QED  BY <1>5 DEF t

(* The parser on top goes on, calls another, or returns.                   *)
LEMMA GoesOnWithin ==
  ASSUME NEW s, Nested(s), Bounded(s), NEW q, Replaces(q, Last(s)), Bounds(Len(s), q)
  PROVE  Bounded(Append(Front(s), q))
  <1> DEFINE k == Len(s) - 1
  <1>1. k \in Nat /\ k + 1 <= Len(s) /\ k + 1 = Len(s)
    <2>1. Len(s) \in Nat /\ Len(s) >= 1
      BY SeqFacts DEF Nested
    <2> QED  BY <2>1
  <1>2. Last(s) = s[k + 1] /\ Front(s) = SubSeq(s, 1, k)
    BY <1>1 DEF Last, Front
  <1> HIDE DEF k
  <1>3. Replaces(q, s[k + 1]) /\ Bounds(k + 1, q)
    BY <1>1, <1>2
  <1> QED  BY <1>1, <1>2, <1>3, BoundedWith

(* So do the one that calls and the one that is called.                    *)
LEMMA CallsWithin ==
  ASSUME NEW s, Nested(s), Bounded(s), NEW q, IsParser(q), Replaces(q, Last(s)), Bounds(Len(s), q),
         NEW p, Bounds(Len(s) + 1, p), Room(q, p)
  PROVE  Bounded(Append(Append(Front(s), q), p))
  <1> DEFINE t == Append(Front(s), q)
             k == Len(s) - 1
  <1>1. Nested(t) /\ Bounded(t)
    BY GoesOn, GoesOnWithin DEF Replaces
  <1>2. IsSeq(s) /\ k \in 0..Len(s) /\ k + 1 = Len(s) /\ Front(s) = SubSeq(s, 1, k)
    <2>1. IsSeq(s) /\ Len(s) \in Nat /\ Len(s) >= 1
      BY SeqFacts DEF Nested
    <2> QED  BY <2>1 DEF Front
  <1>3. Last(t) = q /\ Len(t) = Len(s)
    <2> HIDE DEF k
    <2>1. /\ Len(Append(SubSeq(s, 1, k), q)) = k + 1
          /\ Append(SubSeq(s, 1, k), q)[k + 1] = q
      BY <1>2, Behind
    <2> QED  BY <1>2, <2>1 DEF Last
  <1> HIDE DEF t
  <1>4. Bounded(Append(t, p))
    BY <1>1, <1>3, BoundedDeeper
  <1> QED  BY <1>4 DEF t

(* So does the caller that goes on after a return.                         *)
LEMMA ReturnsWithin ==
  ASSUME NEW s, Nested(s), Bounded(s), Len(s) >= 2, NEW q, Replaces(q, s[Len(s) - 1]),
         Bounds(Len(s) - 1, q)
  PROVE  Bounded(Append(SubSeq(s, 1, Len(s) - 2), q))
  <1> DEFINE k == Len(s) - 2
  <1>1. k \in Nat /\ k + 1 <= Len(s) /\ k + 1 = Len(s) - 1
    <2>1. Len(s) \in Nat
      BY SeqFacts DEF Nested
    <2> QED  BY <2>1
  <1> HIDE DEF k
  <1>2. Replaces(q, s[k + 1]) /\ Bounds(k + 1, q)
    BY <1>1
  <1>3. Bounded(Append(SubSeq(s, 1, k), q))
    BY <1>1, <1>2, BoundedWith
  <1> QED  BY <1>3 DEF k

(* What holds of the parser on top and of its caller.                      *)
LEMMA TopWithin ==
  ASSUME NEW s, Nested(s), Bounded(s)
  PROVE  /\ Len(s) \in Nat /\ Bounds(Len(s), Last(s))
         /\ Len(s) >= 2 => Bounds(Len(s) - 1, s[Len(s) - 1]) /\ Room(s[Len(s) - 1], Last(s))
  <1> DEFINE n == Len(s)
  <1>1. n \in Nat /\ n >= 1 /\ Last(s) = s[n]
    BY SeqFacts DEF Nested, Last
  <1>2. (\A k \in 1..n : Bounds(k, s[k])) /\ (\A k \in 2..n : Room(s[k - 1], s[k]))
    BY DEF Bounded
  <1> HIDE DEF n
  <1>3. n \in 1..n /\ (n >= 2 => n - 1 \in 1..n /\ n \in 2..n)
    BY <1>1
  <1>4. n \in Nat /\ Bounds(n, Last(s)) /\ (n >= 2 => Bounds(n - 1, s[n - 1]) /\ Room(s[n - 1], Last(s)))
    BY <1>1, <1>2, <1>3
  <1> QED  BY <1>4 DEF n

(* The limits are natural numbers.                                         *)
LEMMA Limits == MaxDepth \in Nat /\ MaxServers \in Nat /\ MaxLocations \in Nat
  BY ConfigAssumption

(* Arithmetic on the few values of Slack, by itself.                       *)
LEMMA SomeSlack ==
  ASSUME NEW d, d = 4 \/ d = 3 \/ d = 2 \/ d = 1
  PROVE  d \in Nat /\ d >= 1
  OBVIOUS

(* All but the parser that closes an events block may be behind the end.   *)
LEMMA SlackAtLeast ==
  ASSUME NEW c \in Contexts, c # "events end"
  PROVE  Slack(c) \in Nat /\ Slack(c) >= 1
  <1>1. Slack(c) = 4 \/ Slack(c) = 3 \/ Slack(c) = 2 \/ Slack(c) = 1
    BY SlackOf DEF Contexts
  <1> HIDE DEF Slack
  <1> QED  BY <1>1, SomeSlack

(* A place up to just behind the end is one for a parser with slack.       *)
LEMMA WithSlack ==
  ASSUME NEW n \in Nat, NEW d \in Nat, d >= 1, NEW i \in 1..n + 1
  PROVE  i \in Nat \ {0} /\ i <= n + d
  OBVIOUS

(* A block that keeps within the limit on what is in it.                   *)
InLimits(ctx, b) ==
  /\ ctx \in {"http", "included"} => Len(b.inner) <= MaxServers
  /\ ctx = "server" => Len(b.inner) <= MaxLocations

(* A parser that has moved, and changed its block, within the limits.      *)
LEMMA BoundsMoved ==
  ASSUME NEW k, NEW p, IsParser(p), Bounds(k, p), NEW b, InLimits(p.ctx, b), NEW i \in Nat \ {0},
         i <= Len(Text(p.file)) + Slack(p.ctx)
  PROVE  LET q == [p EXCEPT !.pos = i, !.block = b] IN Bounds(k, q) /\ Replaces(q, p)
  <1> DEFINE q == [p EXCEPT !.pos = i, !.block = b]
  <1>1. /\ q.pos = i /\ q.block = b /\ q.ctx = p.ctx /\ q.queue = p.queue /\ q.file = p.file
        /\ q.depth = p.depth
    BY DEF IsParser, ParserFields
  <1> HIDE DEF q
  <1>2. Bounds(k, q)
    BY <1>1 DEF Bounds, InLimits
  <1>3. Replaces(q, p)
    BY <1>1 DEF Replaces, InPlaceOf
  <1> QED  BY <1>2, <1>3 DEF q

(* A parser that has moved within the limits, its block as it was.         *)
LEMMA BoundsAt ==
  ASSUME NEW k, NEW p, IsParser(p), Bounds(k, p), NEW i \in Nat \ {0},
         i <= Len(Text(p.file)) + Slack(p.ctx)
  PROVE  LET q == [p EXCEPT !.pos = i] IN
         Bounds(k, q) /\ Replaces(q, p) /\ IsParser(q) /\ q.block = p.block /\ q.file = p.file
  <1> DEFINE q == [p EXCEPT !.pos = i]
  <1>1. /\ q.pos = i /\ q.block = p.block /\ q.ctx = p.ctx /\ q.queue = p.queue
        /\ q.file = p.file /\ q.depth = p.depth
    BY DEF IsParser, ParserFields
  <1>2. IsParser(q)
    BY ParserAt
  <1> HIDE DEF q
  <1>3. Bounds(k, q)
    BY <1>1 DEF Bounds
  <1>4. Replaces(q, p)
    BY <1>1 DEF Replaces, InPlaceOf
  <1> QED  BY <1>1, <1>2, <1>3, <1>4 DEF q

(* Reading stays within its limits.                                        *)
InBounds == text \in Texts /\ Nested(stack) /\ Bounded(stack)

(* What is known of the parser on top and of its caller.                   *)
LEMMA TopIs ==
  ASSUME InBounds
  PROVE  /\ IsParser(Top) /\ Bounds(Len(stack), Top) /\ Len(stack) \in Nat
         /\ Len(Text(Top.file)) \in Nat /\ Top.ctx \in Contexts /\ Top.file \in Files
         /\ Top.ctx # "root" \/ Len(stack) # 1 =>
              /\ Len(stack) >= 2 /\ IsParser(Caller) /\ Bounds(Len(stack) - 1, Caller)
              /\ Room(Caller, Top) /\ <<Caller.ctx, Top.ctx>> \in Callees
  <1>1. Nested(stack) /\ Bounded(stack) /\ text \in Texts
    BY DEF InBounds
  <1>2. Bounds(Len(stack), Top) /\ IsParser(Top) /\ Len(stack) \in Nat
    BY <1>1, TheTop, TopWithin DEF Top
  <1>3. Top.ctx \in Contexts /\ Top.file \in Files
    BY <1>2 DEF Bounds
  <1>4. Len(Text(Top.file)) \in Nat
    BY <1>1, <1>3, TextIs
  <1>5. ASSUME Top.ctx # "root" \/ Len(stack) # 1
        PROVE  /\ Len(stack) >= 2 /\ IsParser(Caller) /\ Bounds(Len(stack) - 1, Caller)
               /\ Room(Caller, Top) /\ <<Caller.ctx, Top.ctx>> \in Callees
    <2>1. Len(stack) >= 2
      BY <1>1, <1>5, TheTop DEF Top
    <2> QED  BY <1>1, <2>1, TheTop, TopWithin DEF Top, Caller
  <1> QED  BY <1>2, <1>3, <1>4, <1>5

(* Where the words of a directive end.                                     *)
LEMMA AtAWord ==
  ASSUME InBounds, AtWord
  PROVE  LET n == Len(Text(Top.file)) IN
         /\ Top.pos \in 1..n /\ Stop \in 1..n + 1 /\ Top.pos < Stop
         /\ After # "end" => Stop \in 1..n /\ Stop + 1 \in 1..n + 1
  <1> DEFINE n == Len(Text(Top.file))
  <1>1. n \in Nat /\ Top.file \in Files /\ text \in Texts /\ Top.pos \in Nat \ {0}
    BY TopIs DEF InBounds, Bounds
  <1>2. \A i \in Nat : Token(Top.file, i) # "end" => i <= n
    BY <1>1, TextIs
  <1>3. Token(Top.file, Top.pos) # "end"
    BY DEF AtWord, IsWord
  <1>4. Top.pos \in 1..n
    BY <1>1, <1>2, <1>3
  <1>5. Stop \in Top.pos + 1..n + 1
    <2>1. Top.pos + 1 \in Nat /\ Top.pos + 1 <= n + 1
      BY <1>4
    <2> QED  BY <1>1, <2>1, AfterWordsIn DEF Stop
  <1>6. Stop \in 1..n + 1 /\ Stop \in Nat /\ Top.pos < Stop
    BY <1>4, <1>5
  <1>7. ASSUME After # "end" PROVE Stop \in 1..n /\ Stop + 1 \in 1..n + 1
    <2>1. Stop <= n
      BY <1>2, <1>6, <1>7 DEF After
    <2> QED  BY <1>1, <1>6, <2>1
  <1> QED  BY <1>4, <1>6, <1>7

(* The parser on top moves to a place up to just behind the end.           *)
LEMMA MoveWithin ==
  ASSUME InBounds, NEW i \in 1..Len(Text(Top.file)) + 1, Top.ctx # "events end", MoveTo(i)
  PROVE  Bounded(stack')
  <1> DEFINE q == [Top EXCEPT !.pos = i]
  <1>1. i \in Nat \ {0} /\ i <= Len(Text(Top.file)) + Slack(Top.ctx)
    <2>1. Len(Text(Top.file)) \in Nat /\ Slack(Top.ctx) \in Nat /\ Slack(Top.ctx) >= 1
      BY TopIs, SlackAtLeast
    <2> QED  BY <2>1, WithSlack
  <1>2. Bounds(Len(stack), q) /\ Replaces(q, Top)
    BY <1>1, TopIs, BoundsAt
  <1>3. stack' = Append(Front(stack), q)
    BY DEF MoveTo, Continue
  <1> HIDE DEF q
  <1> QED  BY <1>2, <1>3, GoesOnWithin DEF Top, InBounds

(* It calls another that is within the limits and has room.                *)
LEMMA CallWithin ==
  ASSUME InBounds, NEW p, Call(p, Top.pos), Bounds(Len(stack) + 1, p), Room(Top, p)
  PROVE  Bounded(stack')
  <1> DEFINE q == [Top EXCEPT !.pos = Top.pos]
  <1>1. Top.pos \in Nat \ {0} /\ Top.pos <= Len(Text(Top.file)) + Slack(Top.ctx)
    BY TopIs DEF Bounds
  <1>2. /\ Bounds(Len(stack), q) /\ Replaces(q, Top) /\ IsParser(q) /\ q.block = Top.block
        /\ q.file = Top.file
    BY <1>1, TopIs, BoundsAt
  <1>3. stack' = Append(Append(Front(stack), q), p)
    BY DEF Call
  <1> HIDE DEF q
  <1>4. Room(q, p)
    BY <1>2 DEF Room
  <1> QED  BY <1>2, <1>3, <1>4, CallsWithin DEF Top, InBounds

(* A block that is given back still fits.                                  *)
LEMMA MergeWithin ==
  ASSUME NEW ctx, NEW outer, Built(ctx, outer), InLimits(ctx, outer), NEW callee, NEW b,
         InLimits(callee, b), <<ctx, callee>> \in Callees, callee # "events end",
         callee = "server" => Len(outer.inner) < MaxServers,
         callee = "location" => Len(outer.inner) < MaxLocations
  PROVE  InLimits(ctx, Merge(outer, callee, b))
  <1>1. DOMAIN outer = BlockFields
    BY DEF Built
  <1>2. CASE ctx \in {"root"}
    BY <1>2 DEF InLimits
  <1>3. CASE callee = "upstream"
    <2> DEFINE x == Append(outer.set, <<"upstream", b>>)
    <2>1. Merge(outer, callee, b) = [outer EXCEPT !.set = x]
      BY <1>3 DEF Merge
    <2> HIDE DEF x
    <2>2. Merge(outer, callee, b).inner = outer.inner
      BY <1>1, <2>1 DEF BlockFields
    <2> QED  BY <2>2 DEF InLimits
  <1>4. CASE callee = "included"
    <2>1. Merge(outer, callee, b) = [outer EXCEPT !.inner = b.inner] /\ ctx = "http"
      BY <1>4 DEF Merge, Callees
    <2>2. Merge(outer, callee, b).inner = b.inner
      BY <1>1, <2>1 DEF BlockFields
    <2> QED  BY <1>4, <2>1, <2>2 DEF InLimits
  <1>5. CASE callee \in {"server", "location"} /\ ctx # "root"
    <2> DEFINE x == Append(outer.inner, b)
    <2>1. Merge(outer, callee, b) = [outer EXCEPT !.inner = x]
      BY <1>5 DEF Merge
    <2>2. ctx \in {"http", "included", "server"}
      BY <1>5 DEF Callees
    <2>3. PICK S : outer.inner \in Seq(S)
      BY <2>2 DEF Built, HasServers, IsSeq
    <2>4. outer.inner \in Seq(S \cup {b})
      BY <2>3, SeqMonotonic
    <2>5. Len(outer.inner) \in Nat /\ Len(x) = Len(outer.inner) + 1
      <3>1. b \in S \cup {b}
        OBVIOUS
      <3>2. Len(outer.inner) \in Nat
        BY <2>4, LenProperties
      <3> QED  BY <2>4, <3>1, <3>2, AppendProperties
    <2> HIDE DEF x
    <2>6. Merge(outer, callee, b).inner = x
      BY <1>1, <2>1 DEF BlockFields
    <2>7. CASE callee = "server"
      <3>1. ctx \in {"http", "included"}
        BY <2>7 DEF Callees
      <3>2. Len(x) <= MaxServers
        BY <2>5, <2>7, Limits
      <3> QED  BY <2>6, <3>1, <3>2 DEF InLimits
    <2>8. CASE callee = "location"
      <3>1. ctx = "server"
        BY <2>8 DEF Callees
      <3>2. Len(x) <= MaxLocations
        BY <2>5, <2>8, Limits
      <3> QED  BY <2>6, <3>1, <3>2 DEF InLimits
    <2> QED  BY <1>5, <2>7, <2>8
  <1>6. \/ ctx \in {"root"} \/ callee \in {"upstream", "included"}
        \/ callee \in {"server", "location"} /\ ctx # "root"
    BY DEF Callees
  <1> QED  BY <1>2, <1>3, <1>4, <1>5, <1>6

(* A caller may be one further behind the end than what it calls, which    *)
(* closes one block less.                                                  *)
LEMMA SlackGrows ==
  ASSUME NEW c, NEW p, <<c, p>> \in Callees, p \in {"http", "upstream", "server", "location"}
  PROVE  \E a, b \in Nat : Slack(c) = a /\ Slack(p) = b /\ b + 1 <= a
  <1>1. \/ Slack(c) = 4 /\ Slack(p) = 3
        \/ Slack(c) = 3 /\ Slack(p) = 1
        \/ Slack(c) = 3 /\ Slack(p) = 2
        \/ Slack(c) = 2 /\ Slack(p) = 1
    BY SlackOf DEF Callees
  <1> HIDE DEF Slack
  <1> QED  BY <1>1

(* A parser stands at least one higher than its caller.                    *)
LEMMA HeightGrows ==
  ASSUME NEW c, NEW p, <<c, p>> \in Callees, p # "root"
  PROVE  \E a, b \in Nat : Height(c) = a /\ Height(p) = b /\ a + 1 <= b
  <1>1. \/ Height(c) = 1 /\ Height(p) = 2
        \/ Height(c) = 2 /\ Height(p) = 3
        \/ Height(c) = 2 /\ Height(p) = 4
        \/ Height(c) = 3 /\ Height(p) = 4
        \/ Height(c) = 4 /\ Height(p) = 5
    BY HeightOf DEF Callees
  <1> HIDE DEF Height
  <1> QED  BY <1>1

(* The block of a parser within the limits keeps within its own.           *)
LEMMA BoundsLimits ==
  ASSUME NEW k, NEW p, Bounds(k, p)
  PROVE  InLimits(p.ctx, p.block)
  BY DEF Bounds, InLimits

(* Arithmetic on heights, by itself.                                       *)
LEMMA OneHigher ==
  ASSUME NEW n \in Nat, NEW m \in Nat, NEW a \in Nat, NEW c \in Nat, n <= m + a, a + 1 <= c
  PROVE  n + 1 <= m + c
  OBVIOUS

(* Arithmetic on the depth of includes, by itself.                         *)
LEMMA OneDeeper ==
  ASSUME NEW n \in Nat, NEW d \in Nat, d <= n, NEW e, e = d \/ e = d + 1
  PROVE  e \in Nat /\ e <= n + 1
  OBVIOUS

(* A parser that is called by the one on top.                              *)
LEMMA CalledBounds ==
  ASSUME InBounds, NEW ctx, <<Top.ctx, ctx>> \in Callees, ctx \notin {"root", "events end"},
         NEW f \in Files, NEW i \in 1..Len(Text(f)) + 1, NEW b, InLimits(ctx, b),
         NEW depth, depth = Top.depth \/ (ctx = "included" /\ depth = Top.depth + 1)
  PROVE  Bounds(Len(stack) + 1, Parser(ctx, f, i, depth, b))
  <1> DEFINE p == Parser(ctx, f, i, depth, b)
             k == Len(stack) + 1
  <1>1. /\ p.ctx = ctx /\ p.file = f /\ p.pos = i /\ p.depth = depth /\ p.queue = <<>>
        /\ p.block = b
    BY DEF Parser
  <1>2. ctx \in Contexts
    BY DEF Callees, Contexts
  <1>3. i \in Nat \ {0} /\ i <= Len(Text(f)) + Slack(ctx)
    <2>1. Len(Text(f)) \in Nat
      BY TextIs DEF InBounds
    <2>2. Slack(ctx) \in Nat /\ Slack(ctx) >= 1
      BY <1>2, SlackAtLeast
    <2> QED  BY <2>1, <2>2, WithSlack
  <1>4. Bounds(Len(stack), Top) /\ Len(stack) \in Nat
    BY TopIs
  <1>5. k <= MaxDepth + Height(ctx)
    <2>1. PICK a, c \in Nat : Height(Top.ctx) = a /\ Height(ctx) = c /\ a + 1 <= c
      BY HeightGrows
    <2> DEFINE n == Len(stack)
    <2>2. n \in Nat /\ n <= MaxDepth + a /\ MaxDepth \in Nat
      BY <1>4, <2>1, Limits DEF Bounds
    <2> HIDE DEF n
    <2>3. n + 1 <= MaxDepth + c
      BY <2>1, <2>2, OneHigher
    <2> QED  BY <2>1, <2>3 DEF n
  <1>6. depth \in Nat /\ depth <= MaxDepth + 1 /\ (ctx = "http" => depth <= MaxDepth)
    <2>1. Top.depth \in Nat /\ Top.depth <= MaxDepth + 1 /\ MaxDepth \in Nat
      BY <1>4, Limits DEF Bounds
    <2>2. Top.ctx \in {"root", "http"} => Top.depth <= MaxDepth
      BY <1>4 DEF Bounds
    <2>3. CASE ctx = "included"
      <3>1. Top.depth <= MaxDepth
        BY <2>2, <2>3 DEF Callees
      <3>2. depth = Top.depth \/ depth = Top.depth + 1
        OBVIOUS
      <3>3. depth \in Nat /\ depth <= MaxDepth + 1
        BY <2>1, <3>1, <3>2, OneDeeper
      <3> QED  BY <2>3, <3>3
    <2>4. CASE ctx # "included"
      <3>1. ctx = "http" => Top.ctx = "root"
        BY DEF Callees
      <3> QED  BY <2>1, <2>2, <2>4, <3>1
    <2> QED  BY <2>3, <2>4
  <1> HIDE DEF p, k
  <1>7. Bounds(k, p)
    BY <1>1, <1>2, <1>3, <1>5, <1>6 DEF Bounds, InLimits
  <1> QED  BY <1>7 DEF p, k

(* A block is given to the parser that waits for it.                       *)
LEMMA GivenBackWithin ==
  ASSUME InBounds, Top.ctx # "root" \/ Len(stack) # 1, NEW callee, NEW b, InLimits(callee, b),
         <<Caller.ctx, callee>> \in Callees, callee # "events end",
         callee = "server" => Len(Caller.block.inner) < MaxServers,
         callee = "location" => Len(Caller.block.inner) < MaxLocations,
         NEW i \in Nat \ {0}, i <= Len(Text(Caller.file)) + Slack(Caller.ctx),
         stack' = Append(SubSeq(stack, 1, Len(stack) - 2),
                         [Caller EXCEPT !.pos = i, !.block = Merge(Caller.block, callee, b)])
  PROVE  Bounded(stack')
  <1>1. Len(stack) >= 2 /\ IsParser(Caller) /\ Bounds(Len(stack) - 1, Caller)
    BY TopIs
  <1> DEFINE m == Merge(Caller.block, callee, b)
             q == [Caller EXCEPT !.pos = i, !.block = m]
  <1>2. InLimits(Caller.ctx, m)
    <2>1. InLimits(Caller.ctx, Caller.block) /\ Built(Caller.ctx, Caller.block)
      BY <1>1, BoundsLimits DEF IsParser
    <2> QED  BY <2>1, MergeWithin
  <1>3. stack' = Append(SubSeq(stack, 1, Len(stack) - 2), q)
    OBVIOUS
  <1> HIDE DEF m
  <1>4. Bounds(Len(stack) - 1, q) /\ Replaces(q, Caller)
    BY <1>1, <1>2, BoundsMoved
  <1> HIDE DEF q
  <1> QED  BY <1>1, <1>3, <1>4, ReturnsWithin DEF Caller, InBounds

(* The caller gets the place and what was read, within the limits.         *)
LEMMA ReturnWithin ==
  ASSUME InBounds, Top.ctx # "root" \/ Len(stack) # 1, Top.ctx \notin {"events", "events end"},
         NEW i, Return(i),
         Top.ctx \in {"root", "included"} \/
           (i \in Nat \ {0} /\ i <= Len(Text(Top.file)) + Slack(Caller.ctx))
  PROVE  Bounded(stack')
  <1>1. /\ IsParser(Top) /\ <<Caller.ctx, Top.ctx>> \in Callees /\ Room(Caller, Top)
        /\ Bounds(Len(stack), Top) /\ Bounds(Len(stack) - 1, Caller)
    BY TopIs
  <1> DEFINE b == Finished(Top.ctx, Top.block)
             j == IF Caller.file = Top.file /\ Top.ctx \notin {"root", "included"} THEN i ELSE Caller.pos
  <1>2. InLimits(Top.ctx, b)
    <2>1. InLimits(Top.ctx, Top.block) /\ DOMAIN Top.block = BlockFields
      BY <1>1, BoundsLimits DEF IsParser, Built
    <2>2. b.inner = Top.block.inner
      BY <2>1, FinishedKeeps
    <2> HIDE DEF b
    <2> QED  BY <2>1, <2>2 DEF InLimits
  <1>3. stack' = Append(SubSeq(stack, 1, Len(stack) - 2),
                   [Caller EXCEPT !.pos = j, !.block = Merge(Caller.block, Top.ctx, b)])
    BY DEF Return
  <1>4. j \in Nat \ {0} /\ j <= Len(Text(Caller.file)) + Slack(Caller.ctx)
    <2>1. Caller.pos \in Nat \ {0} /\ Caller.pos <= Len(Text(Caller.file)) + Slack(Caller.ctx)
      BY <1>1 DEF Bounds
    <2>2. CASE Caller.file = Top.file /\ Top.ctx \notin {"root", "included"}
      BY <2>2
    <2>3. CASE ~(Caller.file = Top.file /\ Top.ctx \notin {"root", "included"})
      <3>1. j = Caller.pos
        BY <2>3
      <3> HIDE DEF j
      <3> QED  BY <2>1, <3>1
    <2> QED  BY <2>2, <2>3
  <1>5. /\ Top.ctx = "server" => Len(Caller.block.inner) < MaxServers
        /\ Top.ctx = "location" => Len(Caller.block.inner) < MaxLocations
        /\ Top.ctx # "events end"
    BY <1>1 DEF Room
  <1> HIDE DEF b, j
  <1> QED  BY <1>1, <1>2, <1>3, <1>4, <1>5, GivenBackWithin

(* What opens a block of which kind.                                       *)
LEMMA OpensCalled ==
  ASSUME Open
  PROVE  /\ <<Top.ctx, Peek>> \in Callees /\ Peek \notin {"root", "events end", "included"}
         /\ Peek = "server" => Top.ctx = "http"
         /\ Peek = "location" => Top.ctx = "server"
  <1>1. Top.ctx \in {"root", "http", "server"} /\ Peek \in Opens[Top.ctx]
    BY DEF Open, Opens
  <1>2. CASE Top.ctx = "root"
    <2>1. Peek \in {"events", "http"}
      BY <1>1, <1>2 DEF Opens
    <2> QED  BY <1>2, <2>1 DEF Callees
  <1>3. CASE Top.ctx = "http"
    <2>1. Peek \in {"upstream", "server"}
      BY <1>1, <1>3 DEF Opens
    <2> QED  BY <1>3, <2>1 DEF Callees
  <1>4. CASE Top.ctx = "server"
    <2>1. Peek = "location"
      BY <1>1, <1>4 DEF Opens
    <2> QED  BY <1>4, <2>1 DEF Callees
  <1> QED  BY <1>1, <1>2, <1>3, <1>4

(* What is in a block has a length.                                        *)
LEMMA InnerLength ==
  ASSUME NEW ctx \in {"http", "included", "server"}, NEW b, Built(ctx, b)
  PROVE  Len(b.inner) \in Nat
  <1>1. PICK S : b.inner \in Seq(S)
    BY DEF Built, HasServers, IsSeq
  <1> QED  BY <1>1, LenProperties

(* A directive ends at a semicolon, which is within the file.              *)
LEMMA DirectiveWithin ==
  ASSUME InBounds, Directive
  PROVE  Bounded(stack')
  <1> DEFINE b == Apply(Top.ctx, Top.block, Plain(Peek), Args)
             q == [Top EXCEPT !.pos = Stop + 1, !.block = b]
  <1>1. IsParser(Top) /\ Bounds(Len(stack), Top) /\ AtWord /\ Top.ctx \in DOMAIN Known
    BY TopIs DEF Directive
  <1>2. \/ stack' = stack
        \/ After = ";" /\ stack' = Append(Front(stack), q)
    BY DEF Directive, Bail, Continue
  <1>3. InLimits(Top.ctx, b)
    <2>1. InLimits(Top.ctx, Top.block) /\ DOMAIN Top.block = BlockFields
      BY <1>1, BoundsLimits DEF IsParser, Built
    <2>2. b.inner = Top.block.inner
      BY <2>1, ApplyKeeps
    <2> HIDE DEF b
    <2> QED  BY <2>1, <2>2 DEF InLimits
  <1> HIDE DEF b
  <1>4. CASE After = ";" /\ stack' = Append(Front(stack), q)
    <2>1. Stop + 1 \in 1..Len(Text(Top.file)) + 1
      BY <1>1, <1>4, AtAWord
    <2>2. Top.ctx # "events end"
      BY <1>1 DEF Known
    <2>3. Stop + 1 \in Nat \ {0} /\ Stop + 1 <= Len(Text(Top.file)) + Slack(Top.ctx)
      BY <2>1, <2>2, TopIs, SlackAtLeast, WithSlack
    <2>4. Bounds(Len(stack), q) /\ Replaces(q, Top)
      BY <1>1, <1>3, <2>3, BoundsMoved
    <2> HIDE DEF q
    <2> QED  BY <1>4, <2>4, GoesOnWithin DEF InBounds, Top
  <1> QED  BY <1>2, <1>4 DEF InBounds

(* A block is opened where the limit on blocks allows one more.            *)
LEMMA OpenWithin ==
  ASSUME InBounds, Open
  PROVE  Bounded(stack')
  <1> DEFINE b == Fresh(Peek)
             p == Parser(Peek, Top.file, Stop + 1, Top.depth, b)
  <1>1. <<Top.ctx, Peek>> \in Callees /\ Peek \notin {"root", "events end", "included"}
    BY OpensCalled DEF Open
  <1>2. \/ stack' = stack
        \/ /\ After = "{" /\ Call(p, Top.pos)
           /\ Peek # "upstream" => ~Full(Top.ctx)
    BY DEF Open, Bail
  <1>3. b.inner = <<>>
    BY BlockEmpty DEF Fresh, BlockFields
  <1> HIDE DEF b
  <1>4. CASE /\ After = "{" /\ Call(p, Top.pos)
             /\ Peek # "upstream" => ~Full(Top.ctx)
    <2>1. Stop + 1 \in 1..Len(Text(Top.file)) + 1
      BY <1>4, AtAWord DEF Open
    <2>2. InLimits(Peek, b)
      BY <1>3, Limits DEF InLimits
    <2>3. Bounds(Len(stack) + 1, p)
      BY <1>1, <2>1, <2>2, TopIs, CalledBounds
    <2>4. Room(Top, p)
      <3>1. p.ctx = Peek /\ p.file = Top.file
        BY DEF Parser
      <3>2. Bounds(Len(stack), Top) /\ IsParser(Top)
        BY TopIs
      <3>3. CASE Peek = "server"
        <4>1. Top.ctx = "http"
          BY OpensCalled, <3>3 DEF Open
        <4>2. ~(Len(Top.block.inner) >= MaxServers)
          BY <1>4, <3>3, <4>1 DEF Full
        <4>3. Len(Top.block.inner) \in Nat
          BY <3>2, <4>1, InnerLength DEF IsParser
        <4>4. Len(Top.block.inner) < MaxServers
          BY <4>2, <4>3, Limits
        <4> HIDE DEF p
        <4> QED  BY <3>1, <3>3, <4>4 DEF Room
      <3>4. CASE Peek = "location"
        <4>1. Top.ctx = "server"
          BY OpensCalled, <3>4 DEF Open
        <4>2. ~(Len(Top.block.inner) >= MaxLocations)
          BY <1>4, <3>4, <4>1 DEF Full
        <4>3. Len(Top.block.inner) \in Nat
          BY <3>2, <4>1, InnerLength DEF IsParser
        <4>4. Len(Top.block.inner) < MaxLocations
          BY <4>2, <4>3, Limits
        <4> HIDE DEF p
        <4> QED  BY <3>1, <3>4, <4>4 DEF Room
      <3>5. CASE Peek \notin {"server", "location"}
        <4> HIDE DEF p
        <4> QED  BY <3>1, <3>5 DEF Room
      <3> QED  BY <3>3, <3>4, <3>5
    <2> HIDE DEF p
    <2> QED  BY <1>4, <2>3, <2>4, CallWithin
  <1> QED  BY <1>2, <1>4 DEF InBounds

(* A place within the file is one for a parser without slack.              *)
LEMMA NoSlack ==
  ASSUME NEW n \in Nat, NEW d, d = 0, NEW i \in 1..n + 1, i <= n
  PROVE  i \in Nat \ {0} /\ i <= n + d
  OBVIOUS

(* A turn of events that sees the closing brace sees it in the file.       *)
LEMMA EventWithin ==
  ASSUME InBounds, Event
  PROVE  Bounded(stack')
  <1> DEFINE b == IF Peek = "worker_connections" THEN Apply("events", Top.block, Peek, Args)
                  ELSE Top.block
             c == IF Token(Top.file, AfterEvent) = "}" THEN "events end" ELSE Top.ctx
             q == [Top EXCEPT !.pos = AfterEvent, !.block = b, !.ctx = c]
             n == Len(Text(Top.file))
  <1>1. IsParser(Top) /\ Top.ctx = "events" /\ Bounds(Len(stack), Top) /\ AtWord
    BY TopIs DEF Event
  <1>2. stack' = stack \/ stack' = Append(Front(stack), q)
    BY DEF Event, Bail, Continue
  <1>3. AfterEvent \in 1..n + 1
    BY <1>1, AtAWord DEF AfterEvent
  <1>4. c = "events end" => AfterEvent <= n
    <2>1. c = "events end" => Token(Top.file, AfterEvent) = "}"
      BY <1>1
    <2>2. n \in Nat /\ \A i \in Nat : Token(Top.file, i) # "end" => i <= n
      BY TopIs, TextIs DEF InBounds
    <2>3. AfterEvent \in Nat
      BY <1>3
    <2> HIDE DEF c, n
    <2> QED  BY <2>1, <2>2, <2>3
  <1>5. c \in {"events", "events end"}
    BY <1>1
  <1> HIDE DEF b, c
  <1>6. /\ q.ctx = c /\ q.pos = AfterEvent /\ q.file = Top.file /\ q.depth = Top.depth
    BY <1>1 DEF IsParser, ParserFields
  <1> HIDE DEF q
  <1>7. AfterEvent \in Nat \ {0} /\ AfterEvent <= n + Slack(c)
    <2>1. n \in Nat
      BY TopIs
    <2> HIDE DEF n
    <2>2. CASE c = "events end"
      <3>1. Slack(c) = 0 /\ AfterEvent <= n
        BY <1>4, <2>2, SlackOf
      <3> HIDE DEF Slack
      <3> QED  BY <1>3, <2>1, <3>1, NoSlack
    <2>3. CASE c = "events"
      <3>1. c \in Contexts /\ c # "events end"
        BY <2>3 DEF Contexts
      <3> QED  BY <1>3, <2>1, <3>1, SlackAtLeast, WithSlack
    <2> QED  BY <1>5, <2>2, <2>3
  <1>8. Bounds(Len(stack), q)
    <2>1. Height(c) = Height(Top.ctx)
      BY <1>1, <1>5, HeightOf
    <2>2. c \in Contexts /\ c \notin {"root", "http", "included", "server"}
      BY <1>5 DEF Contexts
    <2> HIDE DEF Slack, Height
    <2> QED  BY <1>1, <1>6, <1>7, <2>1, <2>2 DEF Bounds
  <1>9. Replaces(q, Top)
    BY <1>1, <1>5, <1>6 DEF Replaces, InPlaceOf
  <1> QED  BY <1>2, <1>8, <1>9, GoesOnWithin DEF Top, InBounds

(* The root goes on behind an events block.                                *)
LEMMA EventsEndWithin ==
  ASSUME InBounds, EventsEnd
  PROVE  Bounded(stack')
  <1> DEFINE j == IF Top.ctx = "events" THEN Top.pos ELSE Top.pos + 1
             n == Len(Text(Top.file))
  <1>1. /\ IsParser(Top) /\ Top.ctx \in {"events", "events end"}
        /\ <<Caller.ctx, Top.ctx>> \in Callees /\ Room(Caller, Top) /\ Bounds(Len(stack), Top)
    BY TopIs DEF EventsEnd
  <1>2. Caller.ctx = "root" /\ <<Caller.ctx, "events">> \in Callees /\ Caller.file = Top.file
    BY <1>1 DEF Callees, Room
  <1>3. InLimits("events", Top.block)
    BY DEF InLimits
  <1>4. stack' = Append(SubSeq(stack, 1, Len(stack) - 2),
                   [Caller EXCEPT !.pos = j, !.block = Merge(Caller.block, "events", Top.block)])
    BY DEF EventsEnd
  <1>5. j \in Nat \ {0} /\ j <= n + 4
    <2>1. Top.pos \in Nat \ {0} /\ Top.pos <= n + Slack(Top.ctx)
      BY <1>1 DEF Bounds
    <2>2. n \in Nat /\ (Slack(Top.ctx) = 0 \/ Slack(Top.ctx) = 1)
      BY <1>1, TopIs, SlackOf
    <2>3. j = Top.pos \/ j = Top.pos + 1
      OBVIOUS
    <2> HIDE DEF j, n, Slack
    <2> QED  BY <2>1, <2>2, <2>3
  <1>6. Caller.ctx = "root" => Slack(Caller.ctx) = 4
    BY SlackOf
  <1>7. Top.ctx # "root"
    BY <1>1
  <1> HIDE DEF j, Slack
  <1> QED  BY <1>2, <1>3, <1>4, <1>5, <1>6, <1>7, GivenBackWithin

(* include at the root: only where one more level is allowed.              *)
LEMMA IncludeWithin ==
  ASSUME InBounds, Include
  PROVE  Bounded(stack')
  <1> DEFINE w == Matches(Args[1])
             q == [Top EXCEPT !.pos = Stop + 1, !.queue = w]
  <1>1. /\ IsParser(Top) /\ Bounds(Len(stack), Top) /\ Top.ctx \in {"root", "http"}
        /\ Top.ctx \in Contexts
    BY TopIs DEF Include
  <1>2. \/ stack' = stack
        \/ /\ After = ";" /\ stack' = Append(Front(stack), q)
           /\ Top.ctx = "root" => Top.depth < MaxDepth
    BY DEF Include, Bail, Continue
  <1> HIDE DEF w
  <1>3. CASE /\ After = ";" /\ stack' = Append(Front(stack), q)
             /\ Top.ctx = "root" => Top.depth < MaxDepth
    <2>1. AtWord
      <3>1. Top.queue = <<>> /\ Peek = "include"
        BY DEF Include, Peek
      <3>2. Token(Top.file, Top.pos) = "include"
        BY <3>1 DEF Peek
      <3> QED  BY <3>1, <3>2 DEF AtWord, IsWord, Punctuation
    <2>2. Stop + 1 \in 1..Len(Text(Top.file)) + 1
      BY <1>3, <2>1, AtAWord
    <2>3. Stop + 1 \in Nat \ {0} /\ Stop + 1 <= Len(Text(Top.file)) + Slack(Top.ctx)
      BY <1>1, <2>2, TopIs, SlackAtLeast, WithSlack
    <2>4. /\ q.pos = Stop + 1 /\ q.ctx = Top.ctx /\ q.block = Top.block /\ q.file = Top.file
          /\ q.depth = Top.depth
      BY <1>1 DEF IsParser, ParserFields
    <2> HIDE DEF q
    <2>5. Bounds(Len(stack), q)
      BY <1>1, <1>3, <2>3, <2>4 DEF Bounds
    <2>6. Replaces(q, Top)
      BY <2>4 DEF Replaces, InPlaceOf
    <2> QED  BY <1>3, <2>5, <2>6, GoesOnWithin DEF Top, InBounds
  <1> QED  BY <1>2, <1>3 DEF InBounds

(* Arithmetic on the depth of roots, by itself.                            *)
LEMMA NextRoot ==
  ASSUME NEW n \in Nat, NEW d \in Nat, d < n
  PROVE  /\ d + 1 \in Nat /\ d + 1 <= n /\ d + 1 <= n + 1
         /\ (d + 1) + 1 <= n + 1
  OBVIOUS

(* A new parser stands at the start of its file.                           *)
LEMMA AtStart ==
  ASSUME NEW n \in Nat, NEW d, d = 4
  PROVE  1 \in Nat \ {0} /\ 1 <= n + d
  OBVIOUS

(* The next file is read one level deeper, with the servers so far.        *)
LEMMA NextFileWithin ==
  ASSUME InBounds, NextFile
  PROVE  Bounded(stack')
  <1> DEFINE f == Head(Top.queue)
             w == Tail(Top.queue)
             c == Block(<<f, 0>>, <<>>)
             b == [c EXCEPT !.inner = Top.block.inner]
             p == IF Top.ctx = "root" THEN Root(f, Top.depth + 1)
                  ELSE Parser("included", f, 1, Top.depth + 1, b)
             q == [Top EXCEPT !.queue = w]
  <1>1. /\ IsParser(Top) /\ Bounds(Len(stack), Top) /\ Top.ctx \in {"root", "http"}
        /\ Top.queue # <<>> /\ Len(stack) \in Nat
    BY TopIs DEF NextFile, IsParser
  <1>2. \/ stack' = stack
        \/ f \in Files /\ stack' = Append(Append(Front(stack), q), p)
    BY DEF NextFile, Bail, Files
  <1>3. /\ DOMAIN q = ParserFields /\ q.pos = Top.pos /\ q.ctx = Top.ctx /\ q.block = Top.block
        /\ q.file = Top.file /\ q.depth = Top.depth
    BY <1>1 DEF IsParser, ParserFields
  <1> HIDE DEF w, q
  <1>4. IsParser(q) /\ Replaces(q, Top)
    BY <1>1, <1>3 DEF IsParser, Replaces, InPlaceOf
  <1>5. Bounds(Len(stack), q)
    BY <1>1, <1>3 DEF Bounds
  <1>6. CASE f \in Files /\ stack' = Append(Append(Front(stack), q), p)
    <2> HIDE DEF f
    <2>1. Len(Text(f)) \in Nat
      BY <1>6, TextIs DEF InBounds
    <2>2. ASSUME Top.ctx = "root" PROVE Bounds(Len(stack) + 1, p) /\ p.ctx = "root"
      <3>1. p = Root(f, Top.depth + 1)
        BY <2>2
      <3>2. Len(stack) = Top.depth + 1 /\ Top.depth < MaxDepth /\ Top.depth \in Nat
        BY <1>1, <2>2 DEF Bounds
      <3>3. /\ Top.depth + 1 \in Nat /\ Top.depth + 1 <= MaxDepth /\ Top.depth + 1 <= MaxDepth + 1
            /\ (Top.depth + 1) + 1 <= MaxDepth + 1
        BY <3>2, Limits, NextRoot
      <3> HIDE DEF p
      <3>4. /\ p.ctx = "root" /\ p.file = f /\ p.pos = 1 /\ p.depth = Top.depth + 1
            /\ p.queue = <<>>
        BY <3>1 DEF Root, Parser
      <3>5. 1 \in Nat \ {0} /\ 1 <= Len(Text(f)) + Slack("root")
        BY <2>1, SlackOf, AtStart
      <3>6. Height("root") = 1 /\ "root" \in Contexts
        BY HeightOf DEF Contexts
      <3> HIDE DEF Slack, Height
      <3>7. Len(stack) + 1 <= MaxDepth + Height(p.ctx) /\ Len(stack) + 1 = p.depth + 1
        BY <3>2, <3>3, <3>4, <3>6
      <3> QED  BY <1>6, <3>3, <3>4, <3>5, <3>6, <3>7 DEF Bounds
    <2>3. ASSUME Top.ctx = "http" PROVE Bounds(Len(stack) + 1, p) /\ p.ctx = "included"
      <3>1. p = Parser("included", f, 1, Top.depth + 1, b)
        BY <2>3
      <3>2. DOMAIN c = BlockFields
        BY BlockEmpty
      <3> HIDE DEF c
      <3>3. b.inner = Top.block.inner
        BY <3>2 DEF BlockFields
      <3> HIDE DEF b, p
      <3>4. InLimits("included", b)
        BY <1>1, <2>3, <3>3 DEF Bounds, InLimits
      <3>5. <<Top.ctx, "included">> \in Callees
        BY <2>3 DEF Callees
      <3>6. 1 \in 1..Len(Text(f)) + 1
        BY <2>1
      <3>7. Bounds(Len(stack) + 1, Parser("included", f, 1, Top.depth + 1, b))
        BY <1>6, <3>4, <3>5, <3>6, CalledBounds
      <3> QED  BY <3>1, <3>7 DEF Parser
    <2> HIDE DEF p
    <2>4. Bounds(Len(stack) + 1, p) /\ Room(q, p)
      BY <1>1, <2>2, <2>3 DEF Room
    <2> QED  BY <1>4, <1>5, <1>6, <2>4, CallsWithin DEF Top, InBounds
  <1> QED  BY <1>2, <1>6 DEF InBounds

(* Arithmetic on the next place in a file, by itself.                      *)
LEMMA NextOne ==
  ASSUME NEW n \in Nat, NEW i \in Nat \ {0}
  PROVE  /\ i <= n => i \in 1..n /\ i + 1 \in 1..n + 1 /\ i + 1 \in Nat
         /\ i + 1 <= n => i + 2 \in 1..n + 1
  OBVIOUS

(* A server is taken from an included file while there is room for it.     *)
LEMMA SearchWithin ==
  ASSUME InBounds, Search
  PROVE  Bounded(stack')
  <1> DEFINE b == Block(<<Top.file, Top.pos>>, <<>>)
             p == Parser("server", Top.file, Top.pos + 2, Top.depth, b)
             n == Len(Text(Top.file))
  <1>1. /\ Top.ctx = "included" /\ IsParser(Top) /\ Top.file \in Files /\ n \in Nat
        /\ Top.pos \in Nat \ {0}
    BY TopIs DEF Search, Bounds
  <1>2. \/ /\ Token(Top.file, Top.pos + 1) = "{" /\ Len(Top.block.inner) < MaxServers
           /\ Call(p, Top.pos)
        \/ Token(Top.file, Top.pos + 1) = "{" /\ MoveTo(Top.pos + 2)
        \/ MoveTo(Top.pos + 1)
    BY DEF Search
  <1>3. \A i \in Nat : Token(Top.file, i) # "end" => i <= n
    BY <1>1, TextIs DEF InBounds
  <1>4. Top.pos <= n
    <2>1. Top.queue = <<>>
      BY <1>1 DEF IsParser
    <2>2. Token(Top.file, Top.pos) # "end"
      BY <2>1 DEF Search, Peek
    <2> QED  BY <1>1, <1>3, <2>2
  <1>5. Top.pos + 1 \in 1..n + 1 /\ Top.pos + 1 \in Nat
    BY <1>1, <1>4, NextOne
  <1>6. Token(Top.file, Top.pos + 1) = "{" => Top.pos + 2 \in 1..n + 1
    <2>1. Token(Top.file, Top.pos + 1) = "{" => Top.pos + 1 <= n
      BY <1>3, <1>5
    <2> HIDE DEF n
    <2> QED  BY <1>1, <2>1, NextOne
  <1>7. Top.ctx # "events end"
    BY <1>1
  <1>8. CASE MoveTo(Top.pos + 1)
    BY <1>5, <1>7, <1>8, MoveWithin
  <1>9. CASE Token(Top.file, Top.pos + 1) = "{" /\ MoveTo(Top.pos + 2)
    BY <1>6, <1>7, <1>9, MoveWithin
  <1>10. CASE /\ Token(Top.file, Top.pos + 1) = "{" /\ Len(Top.block.inner) < MaxServers
              /\ Call(p, Top.pos)
    <2>1. b.inner = <<>>
      BY BlockEmpty
    <2> HIDE DEF b
    <2>2. InLimits("server", b)
      BY <2>1, Limits DEF InLimits
    <2>3. <<Top.ctx, "server">> \in Callees
      BY <1>1 DEF Callees
    <2>4. Bounds(Len(stack) + 1, p)
      BY <1>1, <1>6, <1>10, <2>2, <2>3, CalledBounds
    <2>5. Room(Top, p)
      <3>1. p.ctx = "server"
        BY DEF Parser
      <3> HIDE DEF p
      <3> QED  BY <1>10, <3>1 DEF Room
    <2> HIDE DEF p
    <2> QED  BY <1>10, <2>4, <2>5, CallWithin
  <1> QED  BY <1>2, <1>8, <1>9, <1>10

(* Arithmetic on the place behind a closing brace, by itself.              *)
LEMMA OneMore ==
  ASSUME NEW n \in Nat, NEW a \in Nat, NEW c \in Nat, c + 1 <= a, NEW i \in Nat \ {0}, i <= n + c
  PROVE  i + 1 \in Nat \ {0} /\ i + 1 <= n + a
  OBVIOUS

(* A block that the end of the file closes leaves its caller one place     *)
(* further behind the end, and there is slack for that.                    *)
LEMMA CloseWithin ==
  ASSUME InBounds, Close
  PROVE  Bounded(stack')
  <1>1. /\ Top.ctx \in {"http", "upstream", "server", "location"} /\ Return(Top.pos + 1)
        /\ Top.ctx # "root" /\ Top.ctx \notin {"events", "events end"}
    BY DEF Close
  <1>2. /\ <<Caller.ctx, Top.ctx>> \in Callees /\ Bounds(Len(stack), Top)
        /\ Len(Text(Top.file)) \in Nat
    BY <1>1, TopIs
  <1>3. Top.pos + 1 \in Nat \ {0} /\ Top.pos + 1 <= Len(Text(Top.file)) + Slack(Caller.ctx)
    <2>1. PICK a, c \in Nat : Slack(Caller.ctx) = a /\ Slack(Top.ctx) = c /\ c + 1 <= a
      BY <1>1, <1>2, SlackGrows
    <2>2. Top.pos \in Nat \ {0} /\ Top.pos <= Len(Text(Top.file)) + c
      BY <1>2, <2>1 DEF Bounds
    <2> HIDE DEF Slack
    <2> QED  BY <1>2, <2>1, <2>2, OneMore
  <1> QED  BY <1>1, <1>3, ReturnWithin

(* Every turn of every loop of the parsers stays within the limits.        *)
LEMMA ParseWithin ==
  ASSUME InBounds, Parse
  PROVE  Bounded(stack')
  <1> DEFINE n == Len(Text(Top.file))
  <1>1. /\ Top.file \in Files /\ n \in Nat /\ text \in Texts /\ Top.pos \in Nat \ {0}
        /\ Bounded(stack)
    BY TopIs DEF Bounds, InBounds
  <1>2. CASE Directive
    BY <1>2, DirectiveWithin
  <1>3. CASE Open
    BY <1>3, OpenWithin
  <1>4. CASE Close
    BY <1>4, CloseWithin
  <1>5. CASE Stray
    BY <1>1, <1>5 DEF Stray, Bail
  <1>6. CASE Unknown
    <2> DEFINE blocks == Top.ctx # "upstream"
               i == AfterUnknown(Top.file, Top.pos, blocks)
    <2>1. AtWord /\ MoveTo(i) /\ Top.ctx # "events end"
      BY <1>6 DEF Unknown, Known
    <2>2. Top.pos \in 1..n
      BY <2>1, AtAWord
    <2> HIDE DEF blocks
    <2>3. i \in 1..n + 1
      <3>1. Top.pos \in Nat /\ Top.pos <= n
        BY <1>1, <2>2
      <3>2. i \in Top.pos + 1..n + 1
        BY <1>1, <3>1, AfterUnknownIn
      <3> QED  BY <2>2, <3>2
    <2> HIDE DEF i
    <2> QED  BY <2>1, <2>3, MoveWithin
  <1>7. CASE UpstreamSkips
    <2>1. Top.ctx # "events end" /\ MoveTo(Top.pos + 1) /\ Token(Top.file, Top.pos) # "end"
      BY <1>7 DEF UpstreamSkips, Peek
    <2>2. Top.pos <= n
      BY <1>1, <2>1, TextIs
    <2>3. Top.pos + 1 \in 1..n + 1
      BY <1>1, <2>2, NextOne
    <2> QED  BY <2>1, <2>3, MoveWithin
  <1>8. CASE Event
    BY <1>8, EventWithin
  <1>9. CASE EventsEnd
    BY <1>9, EventsEndWithin
  <1>10. CASE Include
    BY <1>10, IncludeWithin
  <1>11. CASE NextFile
    BY <1>11, NextFileWithin
  <1>12. CASE Search
    BY <1>12, SearchWithin
  <1>13. CASE EndOfFile
    <2>1. \/ stack' = stack
          \/ /\ Top.ctx # "root" \/ Len(stack) # 1
             /\ Top.ctx \in {"root", "included"} /\ Top.ctx \notin {"events", "events end"}
             /\ Return(Top.pos)
      BY <1>13 DEF EndOfFile
    <2> QED  BY <1>1, <2>1, ReturnWithin
  <1> QED  BY <1>2, <1>3, <1>4, <1>5, <1>6, <1>7, <1>8, <1>9, <1>10, <1>11, <1>12, <1>13 DEF Parse

(* How far a limit is known to reach.                                      *)
LEMMA DeepEnough ==
  ASSUME NEW n \in Nat, NEW h, h = 1 \/ h = 2 \/ h = 3 \/ h = 4 \/ h = 5, NEW k \in Nat, k >= 1,
         k <= n + h
  PROVE  k \in 1..n + 5
  OBVIOUS

(* Far behind the end is at most four places behind it.                    *)
LEMMA NearEnd ==
  ASSUME NEW n \in Nat, NEW d, d = 0 \/ d = 1 \/ d = 2 \/ d = 3 \/ d = 4, NEW i \in Nat \ {0},
         i <= n + d
  PROVE  i \in 1..n + 4
  OBVIOUS

(* The one parser at first is at the start of the main file.               *)
LEMMA InitInBounds == Init => InBounds
  <1> SUFFICES ASSUME Init PROVE InBounds
    OBVIOUS
  <1> DEFINE p == Root("main", 0)
             t == <<p>>
  <1>1. stack = t /\ text \in Texts /\ Nested(stack)
    BY InitRouteInv DEF Init, ConfigInit, RouteInv
  <1>2. /\ p.ctx = "root" /\ p.file = "main" /\ p.pos = 1 /\ p.depth = 0 /\ p.queue = <<>>
    BY DEF Root, Parser
  <1>3. "main" \in Files /\ "root" \in Contexts /\ Height("root") = 1 /\ Slack("root") = 4
    BY HeightOf, SlackOf DEF Files, Contexts
  <1>4. Len(Text("main")) \in Nat
    BY <1>1, <1>3, TextIs
  <1>5. MaxDepth \in Nat
    BY Limits
  <1> HIDE DEF p, Slack, Height
  <1>6. 1 \in Nat \ {0} /\ 1 <= Len(Text("main")) + Slack("root")
    BY <1>3, <1>4, AtStart
  <1>7. 0 \in Nat /\ 0 <= MaxDepth /\ 0 <= MaxDepth + 1 /\ 1 = 0 + 1 /\ 1 <= MaxDepth + 1
    BY <1>5
  <1>8. Bounds(1, p)
    BY <1>2, <1>3, <1>6, <1>7 DEF Bounds
  <1>9. Len(t) = 1 /\ t[1] = p
    OBVIOUS
  <1> HIDE DEF t
  <1>10. Bounded(t)
    <2>1. \A k \in 1..1 : k = 1
      OBVIOUS
    <2>2. 2..1 = {}
      OBVIOUS
    <2> QED  BY <1>8, <1>9, <2>1, <2>2 DEF Bounded
  <1> QED  BY <1>1, <1>10 DEF InBounds

(* Limits say nothing of how far the request is.                           *)
LEMMA SameText ==
  ASSUME NEW s, Bounded(s), UNCHANGED text, stack' = s
  PROVE  Bounded(stack)'
  BY DEF Bounded, Bounds, Text, Room, Files

(* So do the steps that leave the configuration alone.                     *)
LEMMA BoundsStay ==
  ASSUME InBounds, UNCHANGED configVars
  PROVE  InBounds'
  <1>1. stack' = stack /\ text' = text /\ text \in Texts /\ Nested(stack) /\ Bounded(stack)
    BY DEF InBounds, configVars
  <1>2. Bounded(stack)'
    BY <1>1, SameText
  <1> QED  BY <1>1, <1>2 DEF InBounds

(* Reading keeps within its limits, and goes on, ends or fails.            *)
LEMMA ParseBounded ==
  ASSUME InBounds, Parse
  PROVE  InBounds' /\ parsed' \in {"parsing", "ok", "error"} /\ text' = text
  <1>1. text' = text /\ text \in Texts /\ parsed' \in {"parsing", "ok", "error"}
    <2>1. \/ \E p : Continue(p)
          \/ \E p, i : Call(p, i)
          \/ \E i : Return(i)
          \/ Bail
          \/ UNCHANGED <<text, parsed>>
          \/ parsed' = "ok" /\ UNCHANGED <<text, stack>>
      <3> HIDE DEF Continue, Call, Return, Bail
      <3>1. CASE Directive \/ Open \/ Close \/ Stray \/ Unknown \/ UpstreamSkips
        BY <3>1 DEF Directive, Open, Close, Stray, Unknown, UpstreamSkips, MoveTo
      <3>2. CASE Event \/ EventsEnd \/ Include
        BY <3>2 DEF Event, EventsEnd, Include
      <3>3. CASE NextFile \/ Search \/ EndOfFile
        BY <3>3 DEF NextFile, Search, EndOfFile, MoveTo
      <3> QED  BY <3>1, <3>2, <3>3 DEF Parse
    <2>2. parsed = "parsing" /\ text \in Texts
      BY DEF InBounds, Parse
    <2> QED  BY <2>1, <2>2 DEF Continue, Call, Return, Bail
  <1>2. Nested(stack') /\ Bounded(stack')
    BY ParseKeeps, ParseWithin DEF InBounds
  <1>3. Bounded(stack)'
    BY <1>1, <1>2, SameText
  <1> QED  BY <1>1, <1>2, <1>3 DEF InBounds

(* What TypeOK says, strengthened so that every step keeps it.             *)
Loading == parsed \in {"parsing", "ok", "error"}
Counted == changes \in 0..MaxChanges
Assigned == job.at \notin {"idle", "route", "done"} => job.server \in DOMAIN Servers
TypeInv == InBounds /\ Loading /\ Counted /\ Assigned

(* What serves a request does not touch the configuration.                 *)
LEMMA ConfigStays ==
  ASSUME TypeInv, UNCHANGED configVars
  PROVE  InBounds' /\ Loading' /\ UNCHANGED Servers
  <1>1. InBounds'
    BY BoundsStay DEF TypeInv
  <1>2. Loading' /\ UNCHANGED Servers
    BY DEF TypeInv, Loading, configVars, Servers, Config
  <1> QED  BY <1>1, <1>2

(* A change of a file is counted, up to the bound.                         *)
LEMMA CountUp ==
  ASSUME NEW m \in Nat, NEW c \in 0..m, c < m
  PROVE  c + 1 \in 0..m
  OBVIOUS

(* At first one parser is at the start and no request has come.            *)
LEMMA InitTypeInv == Init => TypeInv
  <1> SUFFICES ASSUME Init PROVE TypeInv
    OBVIOUS
  <1>1. InBounds
    BY InitInBounds
  <1>2. parsed = "parsing" /\ changes = 0 /\ job.at = "idle"
    BY DEF Init, ConfigInit, Idle
  <1>3. 0 \in 0..MaxChanges
    <2>1. MaxChanges \in Nat
      BY ServingAssumption
    <2> QED  BY <2>1
  <1> QED  BY <1>1, <1>2, <1>3 DEF TypeInv, Loading, Counted, Assigned

(* The routing picks one of the servers there are.                         *)
LEMMA RouteTyped ==
  ASSUME JobInv, RouteInv, TypeInv, Route
  PROVE  TypeInv'
  <1> DEFINE s == SelectServer(Servers, job.req.host)
  <1>1. DOMAIN job = JobFields /\ job.at = "route"
    BY DEF JobInv, Fine, Shape, Route
  <1>2. s \in DOMAIN Servers
    <2>1. Nested(stack) /\ Servers # <<>>
      BY <1>1 DEF RouteInv
    <2>2. Len(Servers) \in Nat /\ Len(Servers) >= 1 /\ DOMAIN Servers = 1..Len(Servers)
      BY <2>1, ServersRead
    <2> QED  BY <2>2, SelectServerIn
  <1>3. \/ \E a : Finish(a)
        \/ \E l, p : Job([job EXCEPT !.at = "authorize", !.server = s, !.location = l, !.path = p])
    <2> HIDE DEF Finish, Job
    <2> QED  BY DEF Route
  <1> HIDE DEF s
  <1>4. (job'.at = "done" \/ job'.server = s) /\ UNCHANGED <<configVars, changes>>
    <2>1. ASSUME NEW a, Finish(a) PROVE job'.at = "done"
      BY <1>1, <2>1 DEF Finish, Job, JobFields
    <2>2. ASSUME NEW l, NEW p,
                 Job([job EXCEPT !.at = "authorize", !.server = s, !.location = l, !.path = p])
          PROVE  job'.server = s
      BY <1>1, <2>2 DEF Job, JobFields
    <2>3. UNCHANGED <<configVars, changes>>
      BY <1>3 DEF Finish, Job
    <2> QED  BY <1>3, <2>1, <2>2, <2>3
  <1>5. InBounds' /\ Loading' /\ UNCHANGED Servers
    BY <1>4, ConfigStays
  <1> QED  BY <1>2, <1>4, <1>5 DEF TypeInv, Counted, Assigned

(* Every step keeps the types.                                             *)
LEMMA NextTypeInv == JobInv /\ RouteInv /\ TypeInv /\ [Next]_vars => TypeInv'
  <1> SUFFICES ASSUME JobInv, RouteInv, TypeInv, [Next]_vars PROVE TypeInv'
    OBVIOUS
  <1>1. CASE Load
    <2>1. InBounds' /\ Loading'
      BY <1>1, ParseBounded DEF TypeInv, Loading, Load
    <2>2. UNCHANGED <<changes, job>> /\ job.at = "idle"
      BY <1>1 DEF RouteInv, Load, Parse
    <2> QED  BY <2>1, <2>2 DEF TypeInv, Counted, Assigned
  <1>2. CASE Arrive
    <2>1. UNCHANGED <<configVars, changes>> /\ job'.at = "route"
      BY <1>2 DEF Arrive, Job, Idle
    <2>2. InBounds' /\ Loading'
      BY <2>1, ConfigStays
    <2> QED  BY <2>1, <2>2 DEF TypeInv, Counted, Assigned
  <1>3. CASE Route
    BY <1>3, RouteTyped
  <1>4. CASE Handle /\ ~Arrive /\ ~Route
    <2>1. /\ job'.server = job.server /\ UNCHANGED <<configVars, changes>>
          /\ job.at \notin {"idle", "route", "done"}
      BY <1>4, LookupGoes, OthersGo DEF Handle, Goes
    <2>2. InBounds' /\ Loading' /\ UNCHANGED Servers
      BY <2>1, ConfigStays
    <2> QED  BY <2>1, <2>2 DEF TypeInv, Counted, Assigned
  <1>5. CASE Change
    <2>1. /\ UNCHANGED configVars /\ job'.at = job.at /\ job'.server = job.server
          /\ changes' = changes + 1 /\ changes < MaxChanges
      BY <1>5 DEF Change, JobInv, Fine, Shape, JobFields
    <2>2. InBounds' /\ Loading' /\ UNCHANGED Servers
      BY <2>1, ConfigStays
    <2>3. Counted'
      <3>1. MaxChanges \in Nat /\ changes \in 0..MaxChanges
        BY ServingAssumption DEF TypeInv, Counted
      <3> QED  BY <2>1, <3>1, CountUp DEF Counted
    <2> QED  BY <2>1, <2>2, <2>3 DEF TypeInv, Assigned
  <1>6. CASE Exchanging \/ Backend \/ Done \/ UNCHANGED vars
    <2>1. UNCHANGED <<configVars, changes, job>>
      BY <1>6 DEF Exchanging, Backend, Done, vars
    <2>2. InBounds' /\ Loading' /\ UNCHANGED Servers
      BY <2>1, ConfigStays
    <2> QED  BY <2>1, <2>2 DEF TypeInv, Counted, Assigned
  <1> QED  BY <1>1, <1>2, <1>3, <1>4, <1>5, <1>6 DEF Next

(* The limits hold of every parser there is.                               *)
LEMMA InBoundsTyped ==
  ASSUME InBounds, Loading
  PROVE  ConfigTypeOK
  <1>1. /\ Nested(stack) /\ Bounded(stack) /\ text \in Texts
        /\ Len(stack) \in Nat /\ Len(stack) >= 1 /\ DOMAIN stack = 1..Len(stack)
    BY SeqFacts DEF InBounds, Nested
  <1>2. Len(stack) \in 1..MaxDepth + 5
    <2>1. Top.ctx \in Contexts /\ Len(stack) <= MaxDepth + Height(Top.ctx)
      BY TopIs DEF Bounds
    <2>2. PICK h : /\ h = Height(Top.ctx)
                   /\ h = 1 \/ h = 2 \/ h = 3 \/ h = 4 \/ h = 5
      BY <2>1, HeightOf DEF Contexts
    <2> HIDE DEF Height
    <2> QED  BY <1>1, <2>1, <2>2, Limits, DeepEnough
  <1>3. ASSUME NEW k \in DOMAIN stack
        PROVE  LET p == stack[k] IN
               /\ p.depth <= MaxDepth + 1 /\ p.pos \in 1..Len(Text(p.file)) + 4
               /\ p.ctx \in {"http", "included"} => Len(p.block.inner) <= MaxServers
               /\ p.ctx = "server" => Len(p.block.inner) <= MaxLocations
    <2> DEFINE p == stack[k]
    <2>1. Bounds(k, p)
      BY <1>1 DEF Bounded
    <2> HIDE DEF p
    <2>2. /\ p.ctx \in Contexts /\ p.file \in Files /\ p.pos \in Nat \ {0}
          /\ p.pos <= Len(Text(p.file)) + Slack(p.ctx)
      BY <2>1 DEF Bounds
    <2>3. PICK d : /\ d = Slack(p.ctx)
                   /\ d = 0 \/ d = 1 \/ d = 2 \/ d = 3 \/ d = 4
      BY <2>2, SlackOf DEF Contexts
    <2>4. Len(Text(p.file)) \in Nat
      BY <1>1, <2>2, TextIs
    <2>5. p.pos \in 1..Len(Text(p.file)) + 4
      <3> HIDE DEF Slack
      <3> QED  BY <2>2, <2>3, <2>4, NearEnd
    <2>6. p.depth <= MaxDepth + 1
      BY <2>1 DEF Bounds
    <2>7. /\ p.ctx \in {"http", "included"} => Len(p.block.inner) <= MaxServers
          /\ p.ctx = "server" => Len(p.block.inner) <= MaxLocations
      BY <2>1 DEF Bounds
    <2>8. /\ p.depth <= MaxDepth + 1 /\ p.pos \in 1..Len(Text(p.file)) + 4
          /\ p.ctx \in {"http", "included"} => Len(p.block.inner) <= MaxServers
          /\ p.ctx = "server" => Len(p.block.inner) <= MaxLocations
      BY <2>5, <2>6, <2>7
    <2> QED  BY <2>8 DEF p
  <1> QED  BY <1>1, <1>2, <1>3 DEF ConfigTypeOK, Loading

(* TypeOK: however a configuration is written and nested, the parsers that *)
(* read it, their depth, their places and their blocks stay within the     *)
(* limits of parser.rs, a request waits for a configuration, and the       *)
(* server it is routed to is one of those.                                 *)
THEOREM TypeCorrect == Spec => []TypeOK
  <1>1. JobInv /\ RouteInv /\ TypeInv => TypeOK
    <2> SUFFICES ASSUME JobInv, RouteInv, TypeInv PROVE TypeOK
      OBVIOUS
    <2>1. ConfigTypeOK
      BY InBoundsTyped DEF TypeInv
    <2>2. job.at \in Ats
      BY DEF JobInv, Fine, Shape
    <2>3. changes \in 0..MaxChanges /\ (job.at # "idle" => parsed = "ok")
      BY DEF TypeInv, Counted, RouteInv
    <2>4. job.at \notin {"idle", "route", "done"} => job.server \in DOMAIN Servers
      BY DEF TypeInv, Assigned
    <2> QED  BY <2>1, <2>2, <2>3, <2>4 DEF TypeOK
  <1> QED
    BY <1>1, InitJobInv, NextJobInv, InitRouteInv, NextRouteInv, InitTypeInv, NextTypeInv, PTL
    DEF Spec

-----------------------------------------------------------------------------
(***************************************************************************)
(* Reading comes to an end: every turn of every loop of the parsers makes  *)
(* what is left to read less, in an order that has no infinite descent.    *)
(***************************************************************************)

OfFile(p) == p.ctx \in {"root", "included"}

(* A parser of a block is ahead of its caller, in the same file.           *)
Ahead(s) ==
  /\ \A k \in 1..Len(s) : s[k].queue \in Seq(STRING)
  /\ \A k \in 2..Len(s) : ~OfFile(s[k]) => s[k].file = s[k - 1].file /\ s[k - 1].pos < s[k].pos

(* What a turn may do: the parser on top goes on; it calls one for a block *)
(* behind it, or for the next file it includes; it returns, and its caller *)
(* goes on behind the block, or after the file; or reading stops.          *)
Onward == \E q : /\ stack' = Append(Front(stack), q)
                 /\ InPlaceOf(q, Top) /\ q.file = Top.file /\ q.queue \in Seq(STRING)
                 /\ Top.pos < q.pos
Down == \E q, p : /\ stack' = Append(Append(Front(stack), q), p)
                  /\ q.ctx = Top.ctx /\ q.file = Top.file /\ q.pos = Top.pos /\ p.queue = <<>>
                  /\ \/ ~OfFile(p) /\ q.queue = Top.queue /\ p.file = q.file /\ q.pos < p.pos
                     \/ OfFile(p) /\ Top.queue # <<>> /\ q.queue = Tail(Top.queue)
Back == \E q : /\ Len(stack) >= 2 /\ stack' = Append(SubSeq(stack, 1, Len(stack) - 2), q)
               /\ q.ctx = Caller.ctx /\ q.file = Caller.file /\ q.queue = Caller.queue
               /\ OfFile(Top) => q.pos = Caller.pos
               /\ ~OfFile(Top) => Caller.pos < q.pos
Stops == stack' = stack /\ parsed' # "parsing"

(* Arithmetic on places, by itself.                                        *)
LEMMA Further ==
  ASSUME NEW a \in Nat, NEW b \in Nat, a < b
  PROVE  a < b + 1 /\ b < b + 1
  OBVIOUS

(* One or two places on is behind.                                         *)
LEMMA OneOrTwo ==
  ASSUME NEW a \in Nat
  PROVE  a < a + 1 /\ a < a + 2
  OBVIOUS

(* Places are numbers, and a block on top is ahead of its caller.          *)
LEMMA TopAhead ==
  ASSUME InBounds, Ahead(stack)
  PROVE  /\ Top.pos \in Nat /\ Top.queue \in Seq(STRING)
         /\ Top.ctx # "root" \/ Len(stack) # 1 =>
              /\ Len(stack) >= 2 /\ Caller.pos \in Nat /\ Caller.queue \in Seq(STRING)
              /\ ~OfFile(Top) => Top.file = Caller.file /\ Caller.pos < Top.pos
  <1> DEFINE n == Len(stack)
  <1>1. n \in Nat /\ n >= 1 /\ Top = stack[n] /\ Top.pos \in Nat
    BY TopIs, SeqFacts DEF Top, Last, InBounds, Nested, Bounds
  <1>2. Top.ctx # "root" \/ n # 1 => n >= 2 /\ Caller.pos \in Nat /\ Caller = stack[n - 1]
    BY TopIs DEF Bounds, Caller
  <1>3. /\ \A k \in 1..n : stack[k].queue \in Seq(STRING)
        /\ \A k \in 2..n : ~OfFile(stack[k]) =>
             stack[k].file = stack[k - 1].file /\ stack[k - 1].pos < stack[k].pos
    BY DEF Ahead
  <1> HIDE DEF n
  <1>4. n \in 1..n /\ (n >= 2 => n - 1 \in 1..n /\ n \in 2..n)
    BY <1>1
  <1>5. Top.queue \in Seq(STRING)
    BY <1>1, <1>3, <1>4
  <1>6. ASSUME n >= 2, Caller = stack[n - 1]
        PROVE  /\ Caller.queue \in Seq(STRING)
               /\ ~OfFile(Top) => Top.file = Caller.file /\ Caller.pos < Top.pos
    BY <1>1, <1>3, <1>4, <1>6
  <1> QED  BY <1>1, <1>2, <1>5, <1>6 DEF n

(* A move to a place behind, and a call of a parser for a block there.     *)
LEMMA MovesOnward ==
  ASSUME InBounds, Ahead(stack), NEW i, Top.pos < i, MoveTo(i)
  PROVE  Onward
  <1> DEFINE q == [Top EXCEPT !.pos = i]
  <1>1. DOMAIN Top = ParserFields
    BY TopIs DEF IsParser
  <1>2. q.ctx = Top.ctx /\ q.file = Top.file /\ q.queue = Top.queue /\ q.pos = i
    BY <1>1 DEF ParserFields
  <1>3. stack' = Append(Front(stack), q)
    BY DEF MoveTo, Continue
  <1> HIDE DEF q
  <1>4. Top.queue \in Seq(STRING)
    BY TopAhead
  <1> QED  BY <1>2, <1>3, <1>4 DEF Onward, InPlaceOf

(* A call of a parser for a block behind the caller's place.               *)
LEMMA CallsDown ==
  ASSUME InBounds, NEW p, Call(p, Top.pos), ~OfFile(p), p.queue = <<>>, p.file = Top.file,
         Top.pos < p.pos
  PROVE  Down
  <1> DEFINE q == [Top EXCEPT !.pos = Top.pos]
  <1>1. DOMAIN Top = ParserFields
    BY TopIs DEF IsParser
  <1>2. q.ctx = Top.ctx /\ q.file = Top.file /\ q.queue = Top.queue /\ q.pos = Top.pos
    BY <1>1 DEF ParserFields
  <1>3. stack' = Append(Append(Front(stack), q), p)
    BY DEF Call
  <1> HIDE DEF q
  <1> QED  BY <1>2, <1>3 DEF Down

(* A return of a parser, with the place it gives.                          *)
LEMMA ReturnsBack ==
  ASSUME InBounds, Ahead(stack), Top.ctx # "root" \/ Len(stack) # 1, NEW i, Return(i),
         ~OfFile(Top) => Top.pos <= i /\ i \in Nat
  PROVE  Back
  <1> DEFINE j == IF Caller.file = Top.file /\ Top.ctx \notin {"root", "included"} THEN i
                  ELSE Caller.pos
             m == Merge(Caller.block, Top.ctx, Finished(Top.ctx, Top.block))
             q == [Caller EXCEPT !.pos = j, !.block = m]
  <1>1. DOMAIN Caller = ParserFields /\ Len(stack) >= 2
    BY TopIs DEF IsParser
  <1>2. stack' = Append(SubSeq(stack, 1, Len(stack) - 2), q)
    BY DEF Return
  <1>3. OfFile(Top) => j = Caller.pos
    BY DEF OfFile
  <1>4. ~OfFile(Top) => Caller.pos < j
    <2>1. ASSUME ~OfFile(Top) PROVE j = i /\ Caller.pos < Top.pos
      BY <2>1, TopAhead DEF OfFile
    <2>2. Caller.pos \in Nat /\ Top.pos \in Nat
      BY TopAhead
    <2> HIDE DEF j
    <2>3. ASSUME ~OfFile(Top) PROVE Caller.pos < j
      <3>1. j = i /\ Caller.pos < Top.pos /\ Top.pos <= i /\ i \in Nat
        BY <2>1, <2>3
      <3> QED  BY <2>2, <3>1
    <2> QED  BY <2>3
  <1> HIDE DEF j, m
  <1>5. q.ctx = Caller.ctx /\ q.file = Caller.file /\ q.queue = Caller.queue /\ q.pos = j
    BY <1>1 DEF ParserFields
  <1> HIDE DEF q
  <1> QED  BY <1>1, <1>2, <1>3, <1>4, <1>5 DEF Back

(* A word at the parser's place, and the places behind it.                 *)
LEMMA WordAhead ==
  ASSUME InBounds, AtWord
  PROVE  Top.pos < Stop /\ Top.pos < Stop + 1
  <1>1. Top.pos \in Nat /\ Stop \in Nat /\ Top.pos < Stop
    BY AtAWord
  <1> QED  BY <1>1, Further

(* A directive with its arguments is read, or is an error.                 *)
LEMMA DirectiveMoves ==
  ASSUME InBounds, Ahead(stack), Directive
  PROVE  Onward \/ Stops
  <1> DEFINE b == Apply(Top.ctx, Top.block, Plain(Peek), Args)
             q == [Top EXCEPT !.pos = Stop + 1, !.block = b]
  <1>1. AtWord /\ DOMAIN Top = ParserFields /\ Top.queue \in Seq(STRING)
    BY TopIs, TopAhead DEF Directive, IsParser
  <1>2. Bail \/ stack' = Append(Front(stack), q)
    BY DEF Directive, Continue
  <1> HIDE DEF b
  <1>3. q.ctx = Top.ctx /\ q.file = Top.file /\ q.queue = Top.queue /\ q.pos = Stop + 1
    BY <1>1 DEF ParserFields
  <1> HIDE DEF q
  <1>4. Top.pos < Stop + 1
    BY <1>1, WordAhead
  <1>5. Bail => Stops
    BY DEF Bail, Stops
  <1> QED  BY <1>1, <1>2, <1>3, <1>4, <1>5 DEF Onward, InPlaceOf

(* A block is entered behind its name and brace.                           *)
LEMMA OpenMoves ==
  ASSUME InBounds, Ahead(stack), Open
  PROVE  Down \/ Stops
  <1> DEFINE p == Parser(Peek, Top.file, Stop + 1, Top.depth, Fresh(Peek))
  <1>1. AtWord /\ Peek \notin {"root", "included"}
    BY OpensCalled DEF Open
  <1>2. Bail \/ Call(p, Top.pos)
    BY DEF Open
  <1>3. p.ctx = Peek /\ p.file = Top.file /\ p.pos = Stop + 1 /\ p.queue = <<>>
    BY DEF Parser
  <1> HIDE DEF p
  <1>4. ~OfFile(p)
    BY <1>1, <1>3 DEF OfFile
  <1>5. Top.pos < Stop + 1
    BY <1>1, WordAhead
  <1>6. Bail => Stops
    BY DEF Bail, Stops
  <1> QED  BY <1>2, <1>3, <1>4, <1>5, <1>6, CallsDown

(* A word of an events block is read.                                      *)
LEMMA EventMoves ==
  ASSUME InBounds, Ahead(stack), Event
  PROVE  Onward \/ Stops
  <1> DEFINE b == IF Peek = "worker_connections" THEN Apply("events", Top.block, Peek, Args)
                  ELSE Top.block
             c == IF Token(Top.file, AfterEvent) = "}" THEN "events end" ELSE Top.ctx
             q == [Top EXCEPT !.pos = AfterEvent, !.block = b, !.ctx = c]
  <1>1. AtWord /\ DOMAIN Top = ParserFields /\ Top.queue \in Seq(STRING) /\ Top.ctx = "events"
    BY TopIs, TopAhead DEF Event, IsParser
  <1>2. Bail \/ stack' = Append(Front(stack), q)
    BY DEF Event, Continue
  <1>3. c = Top.ctx \/ (Top.ctx = "events" /\ c = "events end")
    BY <1>1
  <1> HIDE DEF b, c
  <1>4. q.ctx = c /\ q.file = Top.file /\ q.queue = Top.queue /\ q.pos = AfterEvent
    BY <1>1 DEF ParserFields
  <1> HIDE DEF q
  <1>5. Top.pos < AfterEvent
    BY <1>1, WordAhead DEF AfterEvent
  <1>6. Bail => Stops
    BY DEF Bail, Stops
  <1> QED  BY <1>1, <1>2, <1>3, <1>4, <1>5, <1>6 DEF Onward, InPlaceOf

(* The events block ends, and its caller goes on behind it.                *)
LEMMA EventsEndMoves ==
  ASSUME InBounds, Ahead(stack), EventsEnd
  PROVE  Back
  <1> DEFINE j == IF Top.ctx = "events" THEN Top.pos ELSE Top.pos + 1
             m == Merge(Caller.block, "events", Top.block)
             q == [Caller EXCEPT !.pos = j, !.block = m]
  <1>1. Top.ctx \in {"events", "events end"}
    BY DEF EventsEnd
  <1>2. /\ DOMAIN Caller = ParserFields /\ Len(stack) >= 2 /\ ~OfFile(Top)
        /\ Caller.pos \in Nat /\ Top.pos \in Nat /\ Caller.pos < Top.pos
    BY <1>1, TopIs, TopAhead DEF IsParser, OfFile
  <1>3. stack' = Append(SubSeq(stack, 1, Len(stack) - 2), q)
    BY DEF EventsEnd
  <1>4. Caller.pos < j
    BY <1>2, Further
  <1> HIDE DEF j, m
  <1>5. q.ctx = Caller.ctx /\ q.file = Caller.file /\ q.queue = Caller.queue /\ q.pos = j
    BY <1>2 DEF ParserFields
  <1> HIDE DEF q
  <1> QED  BY <1>2, <1>3, <1>4, <1>5 DEF Back

(* An include is read, and its files queue up.                             *)
LEMMA IncludeMoves ==
  ASSUME InBounds, Ahead(stack), Include
  PROVE  Onward \/ Stops
  <1> DEFINE w == Matches(Args[1])
             q == [Top EXCEPT !.pos = Stop + 1, !.queue = w]
  <1>1. DOMAIN Top = ParserFields
    BY TopIs DEF IsParser
  <1>2. Bail \/ stack' = Append(Front(stack), q)
    BY DEF Include, Continue
  <1>3. w \in Seq(STRING)
    <2>1. <<>> \in Seq(STRING)
      OBVIOUS
    <2> QED  BY <2>1, ConfigAssumption DEF Matches
  <1> HIDE DEF w
  <1>4. q.ctx = Top.ctx /\ q.file = Top.file /\ q.queue = w /\ q.pos = Stop + 1
    BY <1>1 DEF ParserFields
  <1> HIDE DEF q
  <1>5. AtWord
    <2>1. Top.queue = <<>> /\ Peek = "include"
      BY DEF Include, Peek
    <2>2. Token(Top.file, Top.pos) = "include"
      BY <2>1 DEF Peek
    <2> QED  BY <2>1, <2>2 DEF AtWord, IsWord, Punctuation
  <1>6. Top.pos < Stop + 1
    BY <1>5, WordAhead
  <1>7. Bail => Stops
    BY DEF Bail, Stops
  <1> QED  BY <1>2, <1>3, <1>4, <1>6, <1>7 DEF Onward, InPlaceOf

(* The next of those files is entered, and the queue is shorter.           *)
LEMMA NextFileMoves ==
  ASSUME InBounds, Ahead(stack), NextFile
  PROVE  Down \/ Stops
  <1> DEFINE f == Head(Top.queue)
             w == Tail(Top.queue)
             b == [Block(<<f, 0>>, <<>>) EXCEPT !.inner = Top.block.inner]
             p == IF Top.ctx = "root" THEN Root(f, Top.depth + 1)
                  ELSE Parser("included", f, 1, Top.depth + 1, b)
             q == [Top EXCEPT !.queue = w]
  <1>1. DOMAIN Top = ParserFields /\ Top.queue # <<>>
    BY TopIs DEF IsParser, NextFile
  <1>2. Bail \/ stack' = Append(Append(Front(stack), q), p)
    BY DEF NextFile
  <1>3. p.ctx \in {"root", "included"} /\ p.queue = <<>>
    BY DEF Root, Parser
  <1>4. q.ctx = Top.ctx /\ q.file = Top.file /\ q.pos = Top.pos /\ q.queue = w
    <2> HIDE DEF w
    <2> QED  BY <1>1 DEF ParserFields
  <1>5. OfFile(p)
    BY <1>3 DEF OfFile
  <1>6. Bail => Stops
    BY DEF Bail, Stops
  <1> HIDE DEF p, q
  <1> QED  BY <1>1, <1>2, <1>3, <1>4, <1>5, <1>6 DEF Down

(* The search for a server in an included file enters one or goes on.      *)
LEMMA SearchMoves ==
  ASSUME InBounds, Ahead(stack), Search
  PROVE  Onward \/ Down
  <1> DEFINE p == Parser("server", Top.file, Top.pos + 2, Top.depth, Block(<<Top.file, Top.pos>>, <<>>))
  <1>1. Call(p, Top.pos) \/ MoveTo(Top.pos + 2) \/ MoveTo(Top.pos + 1)
    BY DEF Search
  <1>2. p.ctx = "server" /\ p.file = Top.file /\ p.pos = Top.pos + 2 /\ p.queue = <<>>
    BY DEF Parser
  <1>3. Top.pos < Top.pos + 1 /\ Top.pos < Top.pos + 2
    BY TopAhead, OneOrTwo
  <1> HIDE DEF p
  <1>4. ~OfFile(p)
    BY <1>2 DEF OfFile
  <1> QED  BY <1>1, <1>2, <1>3, <1>4, CallsDown, MovesOnward

(* Every turn is one of these.                                             *)
LEMMA ParseMoves ==
  ASSUME InBounds, Ahead(stack), Parse
  PROVE  Onward \/ Down \/ Back \/ Stops
  <1>1. CASE Directive \/ Open \/ Event \/ EventsEnd \/ Include \/ NextFile \/ Search
    BY <1>1, DirectiveMoves, OpenMoves, EventMoves, EventsEndMoves, IncludeMoves, NextFileMoves,
       SearchMoves
  <1>2. CASE Close
    <2>1. Top.ctx # "root" /\ ~OfFile(Top) /\ Return(Top.pos + 1)
      BY <1>2 DEF Close, OfFile
    <2>2. Top.pos <= Top.pos + 1 /\ Top.pos + 1 \in Nat
      <3>1. Top.pos \in Nat
        BY TopAhead
      <3> QED  BY <3>1
    <2> QED  BY <2>1, <2>2, ReturnsBack
  <1>3. CASE Stray
    BY <1>3 DEF Stray, Bail, Stops
  <1>4. CASE Unknown
    <2> DEFINE i == AfterUnknown(Top.file, Top.pos, Top.ctx # "upstream")
    <2>1. AtWord /\ MoveTo(i)
      BY <1>4 DEF Unknown
    <2>2. Top.pos \in 1..Len(Text(Top.file)) /\ text \in Texts /\ Top.file \in Files
      BY <2>1, AtAWord, TopIs DEF InBounds
    <2>3. Top.pos \in Nat /\ Top.pos <= Len(Text(Top.file))
      BY <2>2
    <2>4. i \in Top.pos + 1..Len(Text(Top.file)) + 1
      BY <2>2, <2>3, AfterUnknownIn
    <2>5. Top.pos < i
      <3> HIDE DEF i
      <3> QED  BY <2>3, <2>4
    <2> HIDE DEF i
    <2> QED  BY <2>1, <2>5, MovesOnward
  <1>5. CASE UpstreamSkips
    <2>1. MoveTo(Top.pos + 1) /\ Top.pos < Top.pos + 1
      BY <1>5, TopAhead, OneOrTwo DEF UpstreamSkips
    <2> QED  BY <2>1, MovesOnward
  <1>6. CASE EndOfFile
    <2>1. \/ parsed' = "ok" /\ stack' = stack
          \/ /\ Top.ctx # "root" \/ Len(stack) # 1
             /\ OfFile(Top) /\ Return(Top.pos)
      BY <1>6 DEF EndOfFile, OfFile
    <2> QED  BY <2>1, ReturnsBack DEF Stops
  <1> QED  BY <1>1, <1>2, <1>3, <1>4, <1>5, <1>6 DEF Parse

(* What a turn does to the parsers, one by one: n is how deep the parser   *)
(* is that goes on.                                                        *)
Same(q, p) == (OfFile(q) <=> OfFile(p)) /\ q.file = p.file
Kept(s, t, n) == n \in Nat /\ n >= 1 /\ \A k \in 1..n - 1 : t[k] = s[k]
MoveOn(s, t, n) ==
  /\ Kept(s, t, n) /\ Len(s) = n /\ Len(t) = n /\ Same(t[n], s[n])
  /\ t[n].queue \in Seq(STRING) /\ s[n].pos < t[n].pos
MoveDown(s, t, n) ==
  /\ Kept(s, t, n) /\ Len(s) = n /\ Len(t) = n + 1 /\ Same(t[n], s[n])
  /\ t[n].pos = s[n].pos /\ t[n + 1].queue = <<>>
  /\ \/ ~OfFile(t[n + 1]) /\ t[n].queue = s[n].queue /\ t[n + 1].file = t[n].file
        /\ t[n].pos < t[n + 1].pos
     \/ OfFile(t[n + 1]) /\ s[n].queue # <<>> /\ t[n].queue = Tail(s[n].queue)
MoveBack(s, t, n) ==
  /\ Kept(s, t, n) /\ Len(s) = n + 1 /\ Len(t) = n /\ Same(t[n], s[n])
  /\ t[n].queue = s[n].queue
  /\ OfFile(s[n + 1]) => t[n].pos = s[n].pos
  /\ ~OfFile(s[n + 1]) => s[n].pos < t[n].pos

(* The sequence that goes on with q in the place of the one behind k.      *)
LEMMA Replaced ==
  ASSUME NEW s, IsSeq(s), NEW k \in Nat, k + 1 <= Len(s), NEW q
  PROVE  /\ Len(Append(SubSeq(s, 1, k), q)) = k + 1
         /\ Append(SubSeq(s, 1, k), q)[k + 1] = q
         /\ Kept(s, Append(SubSeq(s, 1, k), q), k + 1)
         /\ IsSeq(Append(SubSeq(s, 1, k), q))
  <1>1. Len(s) \in Nat
    BY SeqFacts
  <1>2. k \in 0..Len(s) /\ k + 1 >= 1 /\ (k + 1) - 1 = k /\ k + 1 \in Nat
    BY <1>1
  <1> DEFINE t == Append(SubSeq(s, 1, k), q)
  <1>3. IsSeq(t) /\ Len(t) = k + 1 /\ t[k + 1] = q /\ \A i \in 1..k : t[i] = s[i]
    BY <1>2, Behind
  <1> HIDE DEF t
  <1>4. Kept(s, t, k + 1)
    BY <1>2, <1>3 DEF Kept
  <1> QED  BY <1>3, <1>4 DEF t

(* And one more on top.                                                    *)
LEMMA Topped ==
  ASSUME NEW s, NEW t, IsSeq(t), NEW p, Kept(s, t, Len(t))
  PROVE  /\ Len(Append(t, p)) = Len(t) + 1 /\ Append(t, p)[Len(t) + 1] = p
         /\ Append(t, p)[Len(t)] = t[Len(t)]
         /\ Kept(s, Append(t, p), Len(t))
  <1> DEFINE n == Len(t)
             u == Append(t, p)
  <1>1. n \in Nat /\ SubSeq(t, 1, n) = t /\ n >= 1
    BY SeqFacts DEF Kept
  <1>2. n \in 0..n /\ n \in 1..n
    BY <1>1
  <1>3. Len(u) = n + 1 /\ u[n + 1] = p /\ \A i \in 1..n : u[i] = t[i]
    <2>1. /\ Len(Append(SubSeq(t, 1, n), p)) = n + 1
          /\ Append(SubSeq(t, 1, n), p)[n + 1] = p
          /\ \A i \in 1..n : Append(SubSeq(t, 1, n), p)[i] = t[i]
      BY <1>2, Behind
    <2> QED  BY <1>1, <2>1
  <1>4. ASSUME NEW i \in 1..n - 1 PROVE u[i] = s[i]
    <2>1. i \in 1..n
      BY <1>1
    <2> QED  BY <1>3, <2>1 DEF Kept
  <1> HIDE DEF u, n
  <1>5. Kept(s, u, n)
    BY <1>1, <1>4 DEF Kept
  <1> QED  BY <1>2, <1>3, <1>5 DEF u, n

(* The parser on top, and those below it.                                  *)
LEMMA OnTop ==
  ASSUME InBounds
  PROVE  /\ IsSeq(stack) /\ Len(stack) \in Nat /\ Len(stack) >= 1
         /\ Top = stack[Len(stack)] /\ Front(stack) = SubSeq(stack, 1, Len(stack) - 1)
         /\ Len(stack) - 1 \in Nat /\ (Len(stack) - 1) + 1 = Len(stack)
  <1>1. IsSeq(stack) /\ Len(stack) \in Nat /\ Len(stack) >= 1
    BY SeqFacts DEF InBounds, Nested
  <1>2. Top = stack[Len(stack)] /\ Front(stack) = SubSeq(stack, 1, Len(stack) - 1)
    BY DEF Top, Last, Front
  <1> QED  BY <1>1, <1>2

(* The parser on top goes on at a later place.                             *)
LEMMA OnwardMoveOn ==
  ASSUME InBounds, Onward
  PROVE  MoveOn(stack, stack', Len(stack))
  <1>1. PICK q : /\ stack' = Append(Front(stack), q)
                 /\ InPlaceOf(q, Top) /\ q.file = Top.file /\ q.queue \in Seq(STRING)
                 /\ Top.pos < q.pos
    BY DEF Onward
  <1> DEFINE n == Len(stack)
             k == n - 1
  <1>2. /\ IsSeq(stack) /\ n \in Nat /\ Top = stack[n] /\ k \in Nat /\ k + 1 = n
        /\ stack' = Append(SubSeq(stack, 1, k), q)
    BY <1>1, OnTop
  <1>3. Same(q, Top)
    BY <1>1 DEF Same, OfFile, InPlaceOf
  <1> HIDE DEF k, n
  <1>4. k + 1 <= Len(stack)
    BY <1>2 DEF n
  <1>5. Len(stack') = k + 1 /\ stack'[k + 1] = q /\ Kept(stack, stack', k + 1)
    BY <1>2, <1>4, Replaced
  <1>6. Len(stack) = n /\ Len(stack') = n /\ stack'[n] = q /\ Kept(stack, stack', n)
    BY <1>2, <1>5 DEF n
  <1>7. MoveOn(stack, stack', n)
    BY <1>1, <1>2, <1>3, <1>6 DEF MoveOn
  <1> QED  BY <1>7 DEF n

(* It waits for another one, above it.                                     *)
LEMMA DownMoveDown ==
  ASSUME InBounds, Down
  PROVE  MoveDown(stack, stack', Len(stack))
  <1>1. PICK q, p :
          /\ stack' = Append(Append(Front(stack), q), p)
          /\ q.ctx = Top.ctx /\ q.file = Top.file /\ q.pos = Top.pos /\ p.queue = <<>>
          /\ \/ ~OfFile(p) /\ q.queue = Top.queue /\ p.file = q.file /\ q.pos < p.pos
             \/ OfFile(p) /\ Top.queue # <<>> /\ q.queue = Tail(Top.queue)
    BY DEF Down
  <1> DEFINE n == Len(stack)
             k == n - 1
             t == Append(SubSeq(stack, 1, k), q)
  <1>2. /\ IsSeq(stack) /\ n \in Nat /\ Top = stack[n] /\ k \in Nat /\ k + 1 = n
        /\ stack' = Append(t, p)
    BY <1>1, OnTop
  <1>3. Same(q, Top)
    BY <1>1 DEF Same, OfFile
  <1> HIDE DEF k, n
  <1>4. k + 1 <= Len(stack)
    BY <1>2 DEF n
  <1>5. Len(t) = k + 1 /\ t[k + 1] = q /\ Kept(stack, t, k + 1) /\ IsSeq(t)
    BY <1>2, <1>4, Replaced
  <1> HIDE DEF t
  <1>6. Len(t) = n /\ t[n] = q /\ Kept(stack, t, n) /\ IsSeq(t) /\ Len(stack) = n
    BY <1>2, <1>5 DEF n
  <1>7. /\ Len(stack') = n + 1 /\ stack'[n + 1] = p /\ stack'[n] = q
        /\ Kept(stack, stack', n)
    BY <1>2, <1>6, Topped
  <1>8. MoveDown(stack, stack', n)
    BY <1>1, <1>2, <1>3, <1>6, <1>7 DEF MoveDown
  <1> QED  BY <1>8 DEF n

(* Its caller goes on in the end.                                          *)
LEMMA BackMoveBack ==
  ASSUME InBounds, Back
  PROVE  MoveBack(stack, stack', Len(stack) - 1)
  <1>1. PICK q : /\ Len(stack) >= 2 /\ stack' = Append(SubSeq(stack, 1, Len(stack) - 2), q)
                 /\ q.ctx = Caller.ctx /\ q.file = Caller.file /\ q.queue = Caller.queue
                 /\ OfFile(Top) => q.pos = Caller.pos
                 /\ ~OfFile(Top) => Caller.pos < q.pos
    BY DEF Back
  <1> DEFINE n == Len(stack) - 1
             k == Len(stack) - 2
  <1>2. /\ IsSeq(stack) /\ n \in Nat /\ Top = stack[n + 1] /\ k \in Nat /\ k + 1 = n
        /\ Caller = stack[n] /\ k + 1 <= Len(stack) /\ Len(stack) = n + 1
        /\ stack' = Append(SubSeq(stack, 1, k), q)
    BY <1>1, OnTop DEF Caller
  <1>3. Same(q, Caller)
    BY <1>1 DEF Same, OfFile
  <1> HIDE DEF k, n
  <1>5. Len(stack') = k + 1 /\ stack'[k + 1] = q /\ Kept(stack, stack', k + 1)
    BY <1>2, Replaced
  <1>6. Len(stack') = n /\ stack'[n] = q /\ Kept(stack, stack', n)
    BY <1>2, <1>5
  <1>7. MoveBack(stack, stack', n)
    BY <1>1, <1>2, <1>3, <1>6 DEF MoveBack
  <1> QED  BY <1>7 DEF n

(* The rest of a queue is a queue.                                         *)
LEMMA RestIs ==
  ASSUME NEW s \in Seq(STRING), s # <<>>
  PROVE  Tail(s) \in Seq(STRING) /\ Len(s) \in Nat /\ Len(s) >= 1 /\ Len(Tail(s)) = Len(s) - 1
  <1>1. Tail(s) \in Seq(STRING) /\ Len(Tail(s)) = Len(s) - 1
    BY HeadTailProperties
  <1>2. Len(s) \in Nat /\ Len(s) # 0
    BY EmptySeq, LenProperties
  <1> QED  BY <1>1, <1>2

(* Places are numbers.                                                     *)
LEMMA Places ==
  ASSUME NEW s, Nested(s), Bounded(s)
  PROVE  Len(s) \in Nat /\ \A i \in 1..Len(s) : s[i].pos \in Nat
  BY SeqFacts DEF Nested, Bounded, Bounds

(* The parsers are ahead of their callers still when the first n are, with *)
(* the last of them where it was or behind.                                *)
LEMMA AheadSo ==
  ASSUME NEW s, NEW t, NEW n, Kept(s, t, n), Ahead(s), Len(s) \in Nat, n <= Len(s),
         Same(t[n], s[n]), t[n].queue \in Seq(STRING),
         s[n].pos = t[n].pos \/ s[n].pos < t[n].pos,
         s[n].pos \in Nat, t[n].pos \in Nat, \A i \in 1..Len(s) : s[i].pos \in Nat
  PROVE  /\ \A k \in 1..n : t[k].queue \in Seq(STRING)
         /\ \A k \in 2..n : ~OfFile(t[k]) =>
              t[k].file = t[k - 1].file /\ t[k - 1].pos < t[k].pos
  <1>1. n \in Nat /\ n >= 1
    BY DEF Kept
  <1>2. ASSUME NEW k \in 1..n PROVE t[k].queue \in Seq(STRING)
    <2>1. k = n \/ (k \in 1..n - 1 /\ k \in 1..Len(s))
      BY <1>1
    <2>2. CASE k = n
      BY <2>2
    <2>3. CASE k \in 1..n - 1 /\ k \in 1..Len(s)
      <3>1. t[k] = s[k] /\ s[k].queue \in Seq(STRING)
        BY <2>3 DEF Kept, Ahead
      <3> QED  BY <3>1
    <2> QED  BY <2>1, <2>2, <2>3
  <1>3. ASSUME NEW k \in 2..n, ~OfFile(t[k])
        PROVE  t[k].file = t[k - 1].file /\ t[k - 1].pos < t[k].pos
    <2>1. k - 1 \in 1..n - 1 /\ k \in 2..Len(s) /\ k - 1 \in 1..Len(s)
      BY <1>1
    <2>2. t[k - 1] = s[k - 1]
      BY <2>1 DEF Kept
    <2>3. ~OfFile(s[k]) => s[k].file = s[k - 1].file /\ s[k - 1].pos < s[k].pos
      BY <2>1 DEF Ahead
    <2>4. s[k - 1].pos \in Nat
      BY <2>1
    <2>5. CASE k # n
      <3>1. k \in 1..n - 1
        BY <1>1, <2>5
      <3>2. t[k] = s[k]
        BY <3>1 DEF Kept
      <3> QED  BY <1>3, <2>2, <2>3, <3>2
    <2>6. CASE k = n
      <3>1. t[n].file = s[n].file /\ ~OfFile(s[n])
        BY <1>3, <2>6 DEF Same
      <3>2. s[n].file = s[n - 1].file /\ s[n - 1].pos < s[n].pos
        BY <2>3, <2>6, <3>1
      <3>3. t[n - 1] = s[n - 1] /\ s[n - 1].pos \in Nat
        BY <2>2, <2>4, <2>6
      <3>4. s[n - 1].pos < t[n].pos
        <4> DEFINE a == s[n - 1].pos
                   b == s[n].pos
                   c == t[n].pos
        <4>1. a \in Nat /\ b \in Nat /\ c \in Nat /\ a < b /\ (b = c \/ b < c)
          BY <3>2, <3>3
        <4> HIDE DEF a, b, c
        <4>2. a < c
          BY <4>1
        <4> QED  BY <4>2 DEF a, c
      <3> QED  BY <2>6, <3>1, <3>2, <3>3, <3>4
    <2> QED  BY <2>5, <2>6
  <1> QED  BY <1>2, <1>3

(* Each turn leaves the parsers of blocks ahead of their callers.          *)
LEMMA AheadStays ==
  ASSUME NEW s, NEW t, NEW n, Nested(s), Bounded(s), Nested(t), Bounded(t), Ahead(s),
         MoveOn(s, t, n) \/ MoveDown(s, t, n) \/ MoveBack(s, t, n)
  PROVE  Ahead(t)
  <1>1. /\ Len(s) \in Nat /\ \A i \in 1..Len(s) : s[i].pos \in Nat
        /\ Len(t) \in Nat /\ \A i \in 1..Len(t) : t[i].pos \in Nat
    BY Places
  <1>2. Kept(s, t, n) /\ n \in Nat /\ n >= 1 /\ Same(t[n], s[n])
    BY DEF MoveOn, MoveDown, MoveBack, Kept
  <1>3. Len(s) \in {n, n + 1} /\ Len(t) \in {n, n + 1}
    BY DEF MoveOn, MoveDown, MoveBack
  <1>4. n \in 1..Len(s) /\ n \in 1..Len(t) /\ n <= Len(s)
    BY <1>2, <1>3
  <1>5. s[n].pos \in Nat /\ t[n].pos \in Nat /\ s[n].queue \in Seq(STRING)
    BY <1>1, <1>4 DEF Ahead
  <1>6. t[n].queue \in Seq(STRING)
    BY <1>5, RestIs DEF MoveOn, MoveDown, MoveBack
  <1>7. s[n].pos = t[n].pos \/ s[n].pos < t[n].pos
    BY DEF MoveOn, MoveDown, MoveBack
  <1>8. /\ \A k \in 1..n : t[k].queue \in Seq(STRING)
        /\ \A k \in 2..n : ~OfFile(t[k]) =>
             t[k].file = t[k - 1].file /\ t[k - 1].pos < t[k].pos
    BY <1>1, <1>2, <1>4, <1>5, <1>6, <1>7, AheadSo
  <1>9. CASE Len(t) = n
    BY <1>8, <1>9 DEF Ahead
  <1>10. CASE Len(t) = n + 1
    <2>1. /\ t[n + 1].queue = <<>>
          /\ ~OfFile(t[n + 1]) => t[n + 1].file = t[n].file /\ t[n].pos < t[n + 1].pos
      BY <1>2, <1>10 DEF MoveOn, MoveDown, MoveBack
    <2>2. <<>> \in Seq(STRING) /\ (n + 1) - 1 = n
      BY <1>2
    <2>3. \A k \in 1..n + 1 : k = n + 1 \/ k \in 1..n
      BY <1>2
    <2>4. \A k \in 2..n + 1 : k = n + 1 \/ k \in 2..n
      BY <1>2
    <2>5. \A k \in 1..n + 1 : t[k].queue \in Seq(STRING)
      BY <1>8, <2>1, <2>2, <2>3
    <2>6. \A k \in 2..n + 1 : ~OfFile(t[k]) =>
            t[k].file = t[k - 1].file /\ t[k - 1].pos < t[k].pos
      BY <1>8, <2>1, <2>2, <2>4
    <2> QED  BY <1>10, <2>5, <2>6 DEF Ahead
  <1> QED  BY <1>3, <1>9, <1>10

(* What is left to read of a parser's file, and how often its loop turns   *)
(* yet at the same place: thrice for each file it is to include, once or   *)
(* twice for itself, and never while it waits for a block of its own.      *)
Turns(s, k) == IF k = Len(s) THEN 1 ELSE IF OfFile(s[k + 1]) THEN 2 ELSE 0
Toll(s, k) == <<Len(Text(s[k].file)) + 4 - s[k].pos, 3 * Len(s[k].queue) + Turns(s, k)>>
Tolls(s) == [k \in 1..MaxDepth + 5 |-> IF k <= Len(s) THEN Toll(s, k) ELSE <<0, 0>>]
ToRead == Tolls(stack)

(* The outer parser counts before the inner one, the place before the rest *)
(* of a queue.                                                             *)
Pairs == Nat \X Nat
Less == LexPairOrdering(OpToRel(<, Nat), OpToRel(<, Nat), Nat, Nat)
Nearer == LexProductOrdering(Less, Pairs, MaxDepth + 5)

(* There is no infinite descent in that order.                             *)
LEMMA NearerEnds == IsWellFoundedOn(Nearer, [1..MaxDepth + 5 -> Pairs])
  <1>1. IsWellFoundedOn(OpToRel(<, Nat), Nat)
    BY NatLessThanWellFounded
  <1> DEFINE R == OpToRel(<, Nat)
  <1>2. IsWellFoundedOn(R, Nat)
    BY <1>1
  <1> HIDE DEF R
  <1>3. IsWellFoundedOn(LexPairOrdering(R, R, Nat, Nat), Nat \X Nat)
    BY <1>2, WFLexPairOrdering
  <1>4. IsWellFoundedOn(Less, Pairs)
    BY <1>3 DEF Less, Pairs, R
  <1>5. MaxDepth + 5 \in Nat
    <2>1. MaxDepth \in Nat
      BY ConfigAssumption
    <2> QED  BY <2>1
  <1> DEFINE n == MaxDepth + 5
  <1>6. n \in Nat
    BY <1>5
  <1> HIDE DEF n, Less, Pairs
  <1>7. IsWellFoundedOn(LexProductOrdering(Less, Pairs, n), [1..n -> Pairs])
    BY <1>4, <1>6, WFLexProductOrdering
  <1> QED  BY <1>7 DEF n, Nearer

(* Less by the place, or by the rest of the queue.                         *)
LEMMA LessBy ==
  ASSUME NEW a \in Nat, NEW b \in Nat, NEW c \in Nat, NEW d \in Nat,
         a < c \/ (a = c /\ b < d)
  PROVE  <<<<a, b>>, <<c, d>>>> \in Less
  <1>1. a < c => <<a, c>> \in OpToRel(<, Nat)
    BY DEF OpToRel
  <1>2. b < d => <<b, d>> \in OpToRel(<, Nat)
    BY DEF OpToRel
  <1> DEFINE R == OpToRel(<, Nat)
  <1>3. (a < c => <<a, c>> \in R) /\ (b < d => <<b, d>> \in R)
    BY <1>1, <1>2
  <1> HIDE DEF R
  <1>4. <<<<a, b>>, <<c, d>>>> \in LexPairOrdering(R, R, Nat, Nat)
    BY <1>3 DEF LexPairOrdering
  <1> QED  BY <1>4 DEF Less, R

(* Arithmetic on tolls, by itself.                                         *)
LEMMA TollNumbers ==
  ASSUME NEW l \in Nat, NEW p \in 1..l + 4, NEW q \in Nat, NEW w \in 0..2
  PROVE  l + 4 - p \in Nat /\ 3 * q + w \in Nat
  OBVIOUS

(* A toll is a pair of numbers.                                            *)
LEMMA TollIs ==
  ASSUME NEW s, Nested(s), Bounded(s), Ahead(s), text \in Texts, NEW k \in 1..Len(s)
  PROVE  /\ Len(Text(s[k].file)) \in Nat /\ s[k].pos \in 1..Len(Text(s[k].file)) + 4
         /\ Len(s[k].queue) \in Nat /\ s[k].queue \in Seq(STRING)
         /\ Toll(s, k) \in Pairs
  <1> DEFINE p == s[k]
             w == Turns(s, k)
  <1>1. Bounds(k, p)
    BY DEF Bounded
  <1>2. p.queue \in Seq(STRING)
    BY DEF Ahead
  <1>3. w \in 0..2
    BY DEF Turns
  <1> HIDE DEF p, w
  <1>4. /\ p.ctx \in Contexts /\ p.file \in Files /\ p.pos \in Nat \ {0}
        /\ p.pos <= Len(Text(p.file)) + Slack(p.ctx)
    BY <1>1 DEF Bounds
  <1>5. PICK d : /\ d = Slack(p.ctx)
                 /\ d = 0 \/ d = 1 \/ d = 2 \/ d = 3 \/ d = 4
    BY <1>4, SlackOf DEF Contexts
  <1>6. Len(Text(p.file)) \in Nat
    BY <1>4, TextIs
  <1>7. p.pos \in 1..Len(Text(p.file)) + 4
    <2> HIDE DEF Slack
    <2> QED  BY <1>4, <1>5, <1>6, NearEnd
  <1>8. Len(p.queue) \in Nat
    BY <1>2, LenProperties
  <1>9. Len(Text(p.file)) + 4 - p.pos \in Nat /\ 3 * Len(p.queue) + w \in Nat
    BY <1>3, <1>6, <1>7, <1>8, TollNumbers
  <1>10. Toll(s, k) = <<Len(Text(p.file)) + 4 - p.pos, 3 * Len(p.queue) + w>>
    BY DEF Toll, p, w
  <1>11. Toll(s, k) \in Pairs
    BY <1>9, <1>10 DEF Pairs
  <1> QED  BY <1>2, <1>6, <1>7, <1>8, <1>11 DEF p

(* There is a toll for each depth that is possible.                        *)
LEMMA TollsAre ==
  ASSUME NEW s, Nested(s), Bounded(s), Ahead(s), text \in Texts
  PROVE  /\ Tolls(s) \in [1..MaxDepth + 5 -> Pairs]
         /\ Len(s) \in Nat /\ Len(s) \in 1..MaxDepth + 5
  <1>1. IsSeq(s) /\ Len(s) \in Nat /\ Len(s) >= 1
    BY SeqFacts DEF Nested
  <1>2. Len(s) \in 1..MaxDepth + 5
    <2> DEFINE n == Len(s)
               p == s[n]
    <2>1. n \in 1..n /\ n \in Nat /\ n >= 1
      BY <1>1
    <2>2. Bounds(n, p)
      BY <2>1 DEF Bounded
    <2> HIDE DEF n, p
    <2>3. p.ctx \in Contexts /\ n <= MaxDepth + Height(p.ctx)
      BY <2>2 DEF Bounds
    <2>4. PICK h : /\ h = Height(p.ctx)
                   /\ h = 1 \/ h = 2 \/ h = 3 \/ h = 4 \/ h = 5
      BY <2>3, HeightOf DEF Contexts
    <2> HIDE DEF Height
    <2>5. n \in 1..MaxDepth + 5
      BY <2>1, <2>3, <2>4, Limits, DeepEnough
    <2> QED  BY <2>5 DEF n
  <1>3. ASSUME NEW k \in 1..MaxDepth + 5
        PROVE  (IF k <= Len(s) THEN Toll(s, k) ELSE <<0, 0>>) \in Pairs
    <2>1. MaxDepth \in Nat
      BY ConfigAssumption
    <2>2. k <= Len(s) => k \in 1..Len(s)
      BY <1>1, <2>1
    <2>3. k <= Len(s) => Toll(s, k) \in Pairs
      BY <2>2, TollIs
    <2>4. <<0, 0>> \in Pairs
      BY DEF Pairs
    <2> QED  BY <2>3, <2>4
  <1> QED  BY <1>1, <1>2, <1>3 DEF Tolls

(* More of those numbers: one place on, and one file off the queue.        *)
LEMMA PlaceOn ==
  ASSUME NEW l \in Nat, NEW p \in 1..l + 4, NEW q \in 1..l + 4, p < q
  PROVE  l + 4 - q < l + 4 - p
  OBVIOUS

(* With one file less to include, even waiting for that file is less.      *)
LEMMA FileOff ==
  ASSUME NEW a \in Nat, NEW b \in Nat, a >= 1, b = a - 1
  PROVE  3 * b + 2 < 3 * a + 1
  OBVIOUS

(* To wait for a block is less than to be at work, and that is less than   *)
(* to wait for a file.                                                     *)
LEMMA OneLess ==
  ASSUME NEW a \in Nat
  PROVE  3 * a + 0 < 3 * a + 1 /\ 3 * a + 1 < 3 * a + 2
  OBVIOUS

(* The two parts of a toll.                                                *)
LEMMA TollOf ==
  ASSUME NEW s, NEW k
  PROVE  Toll(s, k) = <<Len(Text(s[k].file)) + 4 - s[k].pos, 3 * Len(s[k].queue) + Turns(s, k)>>
  BY DEF Toll

(* The parsers below the one that goes on have their tolls still.          *)
LEMMA TollsBelow ==
  ASSUME NEW s, NEW t, NEW n, Kept(s, t, n), Len(s) \in {n, n + 1}, Len(t) \in {n, n + 1},
         Same(t[n], s[n]), NEW k \in 1..n - 1
  PROVE  Toll(t, k) = Toll(s, k)
  <1>1. n \in Nat /\ t[k] = s[k] /\ k # Len(s) /\ k # Len(t)
    BY DEF Kept
  <1>2. OfFile(t[k + 1]) <=> OfFile(s[k + 1])
    <2>1. k + 1 = n \/ k + 1 \in 1..n - 1
      BY <1>1
    <2>2. CASE k + 1 = n
      BY <2>2 DEF Same
    <2>3. CASE k + 1 \in 1..n - 1
      <3>1. t[k + 1] = s[k + 1]
        BY <2>3 DEF Kept
      <3> QED  BY <3>1
    <2> QED  BY <2>1, <2>2, <2>3
  <1>3. Turns(t, k) = Turns(s, k)
    BY <1>1, <1>2 DEF Turns
  <1> QED  BY <1>1, <1>3, TollOf

(* The one that goes on has less left, by its place or at it.              *)
LEMMA TollLess ==
  ASSUME NEW s, NEW t, NEW n, text \in Texts,
         Nested(s), Bounded(s), Ahead(s), Nested(t), Bounded(t), Ahead(t),
         MoveOn(s, t, n) \/ MoveDown(s, t, n) \/ MoveBack(s, t, n)
  PROVE  <<Toll(t, n), Toll(s, n)>> \in Less
  <1>1. /\ n \in Nat /\ n >= 1 /\ t[n].file = s[n].file
        /\ Len(s) \in {n, n + 1} /\ Len(t) \in {n, n + 1}
    BY DEF MoveOn, MoveDown, MoveBack, Kept, Same
  <1>2. n \in 1..Len(s) /\ n \in 1..Len(t)
    BY <1>1
  <1> DEFINE l == Len(Text(s[n].file))
             p == s[n].pos
             q == t[n].pos
             a == Len(s[n].queue)
             b == Len(t[n].queue)
             v == Turns(s, n)
             w == Turns(t, n)
  <1>3. l \in Nat /\ p \in 1..l + 4 /\ a \in Nat /\ s[n].queue \in Seq(STRING)
    BY <1>2, TollIs
  <1>4. q \in 1..l + 4 /\ b \in Nat
    <2>1. Len(Text(t[n].file)) = l
      BY <1>1
    <2>2. t[n].pos \in 1..Len(Text(t[n].file)) + 4 /\ Len(t[n].queue) \in Nat
      BY <1>2, TollIs
    <2> QED  BY <2>1, <2>2
  <1>5. v \in 0..2 /\ w \in 0..2
    BY DEF Turns
  <1>6. Toll(s, n) = <<l + 4 - p, 3 * a + v>> /\ Toll(t, n) = <<l + 4 - q, 3 * b + w>>
    BY <1>1, TollOf
  <1>7. \/ p < q
        \/ q = p /\ b = a /\ v = 1 /\ w = 0
        \/ q = p /\ a >= 1 /\ b = a - 1 /\ v = 1 /\ w = 2
        \/ q = p /\ b = a /\ v = 2 /\ w = 1
    <2>1. CASE MoveOn(s, t, n)
      BY <2>1 DEF MoveOn
    <2>2. CASE MoveDown(s, t, n)
      <3>1. Len(s) = n /\ Len(t) = n + 1 /\ n # n + 1 /\ q = p
        BY <1>1, <2>2 DEF MoveDown
      <3>2. v = 1
        BY <3>1 DEF Turns
      <3>3. w = IF OfFile(t[n + 1]) THEN 2 ELSE 0
        BY <3>1 DEF Turns
      <3>4. CASE ~OfFile(t[n + 1])
        BY <2>2, <3>1, <3>2, <3>3, <3>4 DEF MoveDown
      <3>5. CASE OfFile(t[n + 1])
        <4>1. s[n].queue # <<>> /\ t[n].queue = Tail(s[n].queue)
          BY <2>2, <3>5 DEF MoveDown
        <4>2. a >= 1 /\ b = a - 1
          BY <1>3, <4>1, RestIs
        <4> QED  BY <3>1, <3>2, <3>3, <3>5, <4>2
      <3> QED  BY <3>4, <3>5
    <2>3. CASE MoveBack(s, t, n)
      <3>1. Len(s) = n + 1 /\ Len(t) = n /\ n # n + 1 /\ t[n].queue = s[n].queue
        BY <1>1, <2>3 DEF MoveBack
      <3>2. w = 1
        BY <3>1 DEF Turns
      <3>3. OfFile(s[n + 1]) => v = 2
        BY <3>1 DEF Turns
      <3> QED  BY <2>3, <3>1, <3>2, <3>3 DEF MoveBack
    <2> QED  BY <2>1, <2>2, <2>3
  <1> HIDE DEF l, p, q, a, b, v, w
  <1>8. /\ l + 4 - q \in Nat /\ 3 * b + w \in Nat
        /\ l + 4 - p \in Nat /\ 3 * a + v \in Nat
    BY <1>3, <1>4, <1>5, TollNumbers
  <1>9. p < q => l + 4 - q < l + 4 - p
    BY <1>3, <1>4, PlaceOn
  <1>10. p < q \/ (q = p /\ 3 * b + w < 3 * a + v)
    BY <1>3, <1>4, <1>7, FileOff, OneLess
  <1>11. \/ l + 4 - q < l + 4 - p
         \/ l + 4 - q = l + 4 - p /\ 3 * b + w < 3 * a + v
    BY <1>9, <1>10
  <1>12. <<<<l + 4 - q, 3 * b + w>>, <<l + 4 - p, 3 * a + v>>>> \in Less
    BY <1>8, <1>11, LessBy
  <1> QED  BY <1>6, <1>12

(* So there is less left to read.                                          *)
LEMMA TollsLess ==
  ASSUME NEW s, NEW t, NEW n, text \in Texts,
         Nested(s), Bounded(s), Ahead(s), Nested(t), Bounded(t), Ahead(t),
         MoveOn(s, t, n) \/ MoveDown(s, t, n) \/ MoveBack(s, t, n)
  PROVE  <<Tolls(t), Tolls(s)>> \in Nearer
  <1> DEFINE m == MaxDepth + 5
             T == Tolls(t)
             S == Tolls(s)
  <1>1. /\ T \in [1..m -> Pairs] /\ S \in [1..m -> Pairs]
        /\ Len(s) \in 1..m /\ Len(t) \in 1..m /\ m \in Nat
    <2>1. m \in Nat
      <3>1. MaxDepth \in Nat
        BY ConfigAssumption
      <3> QED  BY <3>1
    <2> QED  BY <2>1, TollsAre
  <1>2. /\ Kept(s, t, n) /\ n \in Nat /\ n >= 1 /\ Same(t[n], s[n])
        /\ Len(s) \in {n, n + 1} /\ Len(t) \in {n, n + 1}
    BY DEF MoveOn, MoveDown, MoveBack, Kept
  <1>3. n \in 1..m /\ n <= Len(s) /\ n <= Len(t)
    BY <1>1, <1>2
  <1>4. \A k \in 1..m : k <= Len(s) => S[k] = Toll(s, k)
    BY DEF Tolls
  <1>5. \A k \in 1..m : k <= Len(t) => T[k] = Toll(t, k)
    BY DEF Tolls
  <1> HIDE DEF T, S, m
  <1>6. <<T[n], S[n]>> \in Less
    BY <1>3, <1>4, <1>5, TollLess
  <1>7. ASSUME NEW k \in 1..n - 1 PROVE T[k] = S[k]
    <2>1. k \in 1..m /\ k <= Len(s) /\ k <= Len(t)
      BY <1>1, <1>2, <1>3
    <2>2. Toll(t, k) = Toll(s, k)
      BY <1>2, TollsBelow
    <2> QED  BY <1>4, <1>5, <2>1, <2>2
  <1> DEFINE r == <<T, S>>
  <1>8. r \in [1..m -> Pairs] \X [1..m -> Pairs] /\ r[1] = T /\ r[2] = S
    BY <1>1
  <1> HIDE DEF r
  <1>9. r \in LexProductOrdering(Less, Pairs, m)
    BY <1>3, <1>6, <1>7, <1>8 DEF LexProductOrdering
  <1> QED  BY <1>9 DEF r, T, S, m, Nearer

(* At first nothing is behind the one parser, and only Load moves it.      *)
LEMMA InitAhead == Init => Ahead(stack)
  <1> SUFFICES ASSUME Init PROVE Ahead(stack)
    OBVIOUS
  <1> DEFINE p == Root("main", 0)
  <1>1. stack = <<p>> /\ p.queue = <<>>
    BY DEF Init, ConfigInit, Root, Parser
  <1> HIDE DEF p
  <1>2. Len(stack) = 1 /\ stack[1] = p
    BY <1>1
  <1>3. <<>> \in Seq(STRING)
    OBVIOUS
  <1>4. \A k \in 1..Len(stack) : stack[k].queue \in Seq(STRING)
    <2>1. \A k \in 1..1 : k = 1
      OBVIOUS
    <2>2. \A k \in 1..Len(stack) : stack[k] = p
      BY <1>2, <2>1
    <2> QED  BY <1>1, <1>3, <2>2
  <1>5. 2..Len(stack) = {}
    BY <1>2
  <1> QED  BY <1>4, <1>5 DEF Ahead

(* The parsers are moved by nothing but the reading.                       *)
LEMMA OnlyLoads ==
  ASSUME JobInv, RouteInv, TypeInv, [Next]_vars
  PROVE  Load \/ stack' = stack
  <1>1. CASE Arrive
    BY <1>1 DEF Arrive, Job, configVars
  <1>2. CASE Route
    <2>1. (\E a : Finish(a)) \/ \E j : Job(j)
      <3> HIDE DEF Finish, Job
      <3> QED  BY <1>2 DEF Route
    <2> QED  BY <2>1 DEF Finish, Job, configVars
  <1>3. CASE Handle /\ ~Arrive /\ ~Route
    BY <1>3, LookupGoes, OthersGo DEF Handle, Goes, configVars
  <1>4. CASE Exchanging \/ Backend \/ Change \/ Done \/ UNCHANGED vars
    BY <1>4 DEF Exchanging, Backend, Change, Done, vars, configVars
  <1> QED  BY <1>1, <1>2, <1>3, <1>4 DEF Next

(* A turn that is not the last brings the end nearer.                      *)
LEMMA LoadNears ==
  ASSUME InBounds, Ahead(stack), Parse
  PROVE  Ahead(stack') /\ (parsed' # "parsing" \/ <<ToRead', ToRead>> \in Nearer)
  <1>1. text \in Texts /\ Nested(stack) /\ Bounded(stack) /\ text' = text
    BY ParseBounded DEF InBounds
  <1>2. Nested(stack') /\ Bounded(stack)' /\ text' \in Texts
    BY ParseBounded DEF InBounds
  <1>3. Bounded(stack')
    BY <1>1, <1>2 DEF Bounded, Bounds, Text
  <1>4. ToRead' = Tolls(stack')
    BY <1>1 DEF ToRead, Tolls, Toll, Text, Turns
  <1>5. ASSUME NEW n, MoveOn(stack, stack', n) \/ MoveDown(stack, stack', n)
                      \/ MoveBack(stack, stack', n)
        PROVE  Ahead(stack') /\ <<ToRead', ToRead>> \in Nearer
    <2>1. Ahead(stack')
      BY <1>1, <1>2, <1>3, <1>5, AheadStays
    <2>2. <<Tolls(stack'), Tolls(stack)>> \in Nearer
      BY <1>1, <1>2, <1>3, <1>5, <2>1, TollsLess
    <2> QED  BY <1>4, <2>1, <2>2 DEF ToRead
  <1>6. CASE Stops
    BY <1>6 DEF Stops
  <1>7. Stops \/ \E n : MoveOn(stack, stack', n) \/ MoveDown(stack, stack', n)
                        \/ MoveBack(stack, stack', n)
    BY ParseMoves, OnwardMoveOn, DownMoveDown, BackMoveBack
  <1> QED  BY <1>5, <1>6, <1>7

(* LoadAdvances: however the files are written and include one another,    *)
(* every turn of the parsers' loops either ends the reading or leaves less *)
(* to read, in an order without infinite descent (NearerEnds): parse_main  *)
(* returns after finitely many turns.                                      *)
THEOREM LoadAdvances ==
  /\ IsWellFoundedOn(Nearer, [1..MaxDepth + 5 -> Pairs])
  /\ Spec => [][Load => \/ parsed' # "parsing"
                        \/ <<ToRead', ToRead>> \in Nearer]_vars
  <1>1. Init => Ahead(stack)
    BY InitAhead
  <1>2. JobInv /\ RouteInv /\ TypeInv /\ Ahead(stack) /\ [Next]_vars => Ahead(stack)'
    <2> SUFFICES ASSUME JobInv, RouteInv, TypeInv, Ahead(stack), [Next]_vars PROVE Ahead(stack)'
      OBVIOUS
    <2>1. CASE Load
      <3>1. Ahead(stack')
        BY <2>1, LoadNears DEF Load, TypeInv
      <3> QED  BY <3>1 DEF Ahead, OfFile
    <2>2. CASE stack' = stack
      BY <2>2 DEF Ahead, OfFile
    <2>3. Load \/ stack' = stack
      BY OnlyLoads
    <2> QED  BY <2>1, <2>2, <2>3
  <1>3. TypeInv /\ Ahead(stack) /\ [Next]_vars =>
          (Load => parsed' # "parsing" \/ <<ToRead', ToRead>> \in Nearer)
    BY LoadNears DEF Load, TypeInv
  <1>4. Spec => [][Load => parsed' # "parsing" \/ <<ToRead', ToRead>> \in Nearer]_vars
    BY <1>1, <1>2, <1>3, InitJobInv, NextJobInv, InitRouteInv, NextRouteInv, InitTypeInv,
       NextTypeInv, PTL DEF Spec
  <1>5. IsWellFoundedOn(Nearer, [1..MaxDepth + 5 -> Pairs])
    BY NearerEnds
  <1> QED  BY <1>4, <1>5, PTL
=============================================================================
