----------------------- MODULE HttpConnectionProofs -----------------------
(***************************************************************************)
(* The connection loop, its counters and the access log, for any number of *)
(* connections, any bodies, any limits and any histogram: the theorems     *)
(* about modules HttpConnection, Stats and AccessLog, each over an         *)
(* inductive invariant of its own.                                         *)
(*                                                                         *)
(* Typed         shapes and ranges                                         *)
(* ToldIsTrue    a connection that was told "close" is closed              *)
(* InOrder       what is on the wire and in the buffer is behind what was  *)
(*               answered                                                  *)
(* Counted       the counters balance                                      *)
(* ReaderSane    what the reader has read lies between what was there when *)
(*               it began and what is there now                            *)
(* Whole         requests are chained on the wire, and as long as the reads*)
(*               are exact each starts at the border of a request          *)
(* LineInv       the channel, the ring, the buffer and the file hold lines *)
(***************************************************************************)
EXTENDS HttpConnection, AccessLog, Integers, TLAPS, NaturalsInduction, WellFoundedInduction,
        FiniteSetTheorems, FunctionTheorems, SequenceTheorems

-----------------------------------------------------------------------------
(***************************************************************************)
(* Sums.  SumFunction of the community modules folds over a CHOOSE; what   *)
(* the proofs need of it is shown by induction on finite sets.             *)
(***************************************************************************)

OneOf(s) == CHOOSE x \in s : TRUE

(* What SumFunctionOnSet chooses.                                          *)
Sums(f, S) ==
  CHOOSE g : g = [s \in SUBSET S |-> IF s = {} THEN 0
                                     ELSE f[OneOf(s)] + g[s \ {OneOf(s)}]]

(* g gives the sums of f over the subsets of S, element by element.        *)
SumsUp(g, f, S) ==
  \A s \in SUBSET S : g[s] = IF s = {} THEN 0 ELSE f[OneOf(s)] + g[s \ {OneOf(s)}]

-----------------------------------------------------------------------------
(* A set of numbers that is not empty has a least one.                     *)
LEMMA HasLeast ==
  ASSUME NEW S, S \subseteq Nat, S # {}
  PROVE  \E x \in S : \A y \in S : x <= y
  <1> DEFINE less == OpToRel(<, Nat)
  <1>1. IsWellFoundedOn(less, Nat)
    BY NatLessThanWellFounded
  <1>2. \A x, y \in Nat : y < x => <<y, x>> \in less
    BY DEF OpToRel
  <1> HIDE DEF less
  <1>3. PICK x \in S : \A y \in S : ~ (<<y, x>> \in less)
    BY <1>1, WFMin
  <1>4. \A y \in S : ~(y < x)
    BY <1>2, <1>3, Zenon
  <1> QED  BY <1>4

(* Induction on finite sets: what holds of a set when it holds of its      *)
(* proper subsets holds of all subsets of S.                               *)
LEMMA SubsetInduction ==
  ASSUME NEW S, IsFiniteSet(S), NEW Q,
         \A T \in SUBSET S : (\A U \in SUBSET T : U # T => U \in Q) => T \in Q
  PROVE  \A T \in SUBSET S : T \in Q
  <1> DEFINE bad   == {T \in SUBSET S : T \notin Q}
             sizes == {Cardinality(T) : T \in bad}
  <1> SUFFICES ASSUME bad # {} PROVE FALSE
    OBVIOUS
  <1>1. \A T \in SUBSET S : IsFiniteSet(T) /\ Cardinality(T) \in Nat
    BY FS_Subset, FS_CardinalityType
  <1>2. sizes \in SUBSET Nat /\ sizes # {}
    BY <1>1
  <1>3. PICK T \in bad : \A U \in bad : ~(Cardinality(U) < Cardinality(T))
    <2> HIDE DEF sizes
    <2>1. PICK x \in sizes : \A y \in sizes : x <= y
      BY <1>2, HasLeast
    <2>2. \A y \in sizes : ~(y < x)
      BY <1>2, <2>1
    <2> QED  BY <2>2 DEF sizes
  <1>4. ASSUME NEW U \in SUBSET T, U # T PROVE U \in Q
    <2>1. U \in SUBSET S /\ IsFiniteSet(T)
      BY <1>1
    <2>2. Cardinality(U) <= Cardinality(T) /\ Cardinality(U) # Cardinality(T)
      BY <1>4, <2>1, FS_Subset
    <2>3. Cardinality(U) \in Nat /\ Cardinality(T) \in Nat
      BY <1>1, <2>1
    <2>4. Cardinality(U) < Cardinality(T)
      BY <2>2, <2>3
    <2> QED  BY <1>3, <2>1, <2>4
  <1>5. T \in Q
    BY <1>4
  <1> QED  BY <1>5

(* OneOf picks an element.                                                 *)
LEMMA OneOfBelongs == ASSUME NEW s, s # {} PROVE OneOf(s) \in s
  BY DEF OneOf

(* Two such functions agree.                                               *)
LEMMA SumsAgree ==
  ASSUME NEW S, IsFiniteSet(S), NEW f, NEW g, NEW h, SumsUp(g, f, S), SumsUp(h, f, S)
  PROVE  \A s \in SUBSET S : g[s] = h[s]
  <1> DEFINE Q == {s \in SUBSET S : g[s] = h[s]}
  <1>1. ASSUME NEW s \in SUBSET S, \A u \in SUBSET s : u # s => u \in Q
        PROVE  s \in Q
    <2>1. CASE s = {}
      BY <2>1 DEF SumsUp
    <2>2. CASE s # {}
      <3>1. s \ {OneOf(s)} \in Q
        BY <1>1, <2>2, OneOfBelongs
      <3> QED  BY <2>2, <3>1 DEF SumsUp
    <2> QED  BY <2>1, <2>2
  <1>2. \A s \in SUBSET S : s \in Q
    <2> HIDE DEF Q
    <2> QED  BY <1>1, SubsetInduction
  <1> QED  BY <1>2

(* There is one.                                                           *)
LEMMA SumsExist ==
  ASSUME NEW S, IsFiniteSet(S), NEW f
  PROVE  SumsUp(Sums(f, S), f, S)
  <1> DEFINE Q == {T \in SUBSET S : \E g : SumsUp(g, f, T)}
  <1>1. ASSUME NEW T \in SUBSET S, \A U \in SUBSET T : U # T => U \in Q
        PROVE  T \in Q
    <2> DEFINE G(U) == CHOOSE g : SumsUp(g, f, U)
               h == [s \in SUBSET T |-> IF s = {} THEN 0
                       ELSE f[OneOf(s)] + G(s \ {OneOf(s)})[s \ {OneOf(s)}]]
    <2>1. ASSUME NEW U \in SUBSET T, U # T PROVE SumsUp(G(U), f, U) /\ IsFiniteSet(U)
      <3>1. \E g : SumsUp(g, f, U)
        BY <1>1, <2>1
      <3>2. SumsUp(G(U), f, U)
        BY <3>1
      <3> QED  BY <3>2, FS_Subset
    <2>2. ASSUME NEW s \in SUBSET T, s # T, s # {} PROVE G(s)[s] = h[s]
      <3> DEFINE u == s \ {OneOf(s)}
      <3>1. u \in SUBSET s /\ u # s /\ u # T /\ u \in SUBSET T
        BY <2>2, OneOfBelongs
      <3>2. SumsUp(G(s), f, s) /\ SumsUp(G(u), f, u) /\ IsFiniteSet(u)
        BY <2>1, <2>2, <3>1
      <3> HIDE DEF G
      <3>3. SumsUp(G(s), f, u)
        BY <3>1, <3>2 DEF SumsUp
      <3>4. G(s)[u] = G(u)[u]
        <4> HIDE DEF u
        <4> QED  BY <3>2, <3>3, SumsAgree
      <3>5. G(s)[s] = f[OneOf(s)] + G(s)[u]
        BY <2>2, <3>2 DEF SumsUp
      <3> QED  BY <2>2, <3>4, <3>5
    <2>3. ASSUME NEW s \in SUBSET T
          PROVE  h[s] = IF s = {} THEN 0 ELSE f[OneOf(s)] + h[s \ {OneOf(s)}]
      <3> DEFINE u == s \ {OneOf(s)}
      <3>1. CASE s = {}
        BY <3>1
      <3>2. CASE s # {} /\ u = {}
        <4>1. SumsUp(G(u), f, u)
          BY <2>1, <3>2, OneOfBelongs
        <4> HIDE DEF G
        <4>2. G(u)[u] = 0 /\ h[u] = 0
          BY <3>2, <4>1 DEF SumsUp
        <4> QED  BY <3>2, <4>2
      <3>3. CASE s # {} /\ u # {}
        <4>1. u \in SUBSET T /\ u # T
          BY <3>3, OneOfBelongs
        <4> HIDE DEF G, u
        <4>2. G(u)[u] = h[u]
          <5> HIDE DEF h
          <5> QED  BY <2>2, <3>3, <4>1
        <4> QED  BY <3>3, <4>2 DEF u
      <3> QED  BY <3>1, <3>2, <3>3
    <2> HIDE DEF h
    <2>4. SumsUp(h, f, T)
      BY <2>3 DEF SumsUp
    <2> QED  BY <2>4
  <1>2. S \in Q
    <2>1. \A T \in SUBSET S : T \in Q
      <3> HIDE DEF Q
      <3> QED  BY <1>1, SubsetInduction
    <2> QED  BY <2>1
  <1>3. PICK g : SumsUp(g, f, S)
    BY <1>2
  <1> DEFINE h == [s \in SUBSET S |-> g[s]]
  <1>4. \A s \in SUBSET S : h[s] = IF s = {} THEN 0 ELSE f[OneOf(s)] + h[s \ {OneOf(s)}]
    BY <1>3 DEF SumsUp
  <1>5. h = [s \in SUBSET S |-> IF s = {} THEN 0 ELSE f[OneOf(s)] + h[s \ {OneOf(s)}]]
    <2>1. h = [s \in SUBSET S |-> h[s]]
      OBVIOUS
    <2> HIDE DEF h
    <2> QED  BY <1>4, <2>1
  <1> HIDE DEF h
  <1>6. Sums(f, S) = [s \in SUBSET S |-> IF s = {} THEN 0
                        ELSE f[OneOf(s)] + Sums(f, S)[s \ {OneOf(s)}]]
    BY <1>5 DEF Sums
  <1> QED  BY <1>6 DEF SumsUp

(* The sum over a set is that of an element and of the rest.               *)
LEMMA SumUnfold ==
  ASSUME NEW S, IsFiniteSet(S), NEW f
  PROVE  SumFunctionOnSet(f, S) = IF S = {} THEN 0
           ELSE f[OneOf(S)] + SumFunctionOnSet(f, S \ {OneOf(S)})
  <1>1. \A T : SumFunctionOnSet(f, T) = Sums(f, T)[T]
    BY DEF SumFunctionOnSet, FoldFunctionOnSet, MapThenFoldSet, OneOf, Sums
  <1>2. \A T \in SUBSET S : SumsUp(Sums(f, T), f, T)
    BY FS_Subset, SumsExist
  <1>3. CASE S = {}
    BY <1>1, <1>2, <1>3 DEF SumsUp
  <1>4. CASE S # {}
    <2> DEFINE U == S \ {OneOf(S)}
    <2>1. U \in SUBSET S /\ IsFiniteSet(U)
      BY FS_Subset
    <2>2. SumsUp(Sums(f, S), f, S) /\ SumsUp(Sums(f, U), f, U)
      BY <1>2, <2>1
    <2>3. SumsUp(Sums(f, S), f, U)
      BY <2>1, <2>2 DEF SumsUp
    <2>4. Sums(f, S)[U] = Sums(f, U)[U]
      <3> HIDE DEF U
      <3> QED  BY <2>1, <2>2, <2>3, SumsAgree
    <2>5. Sums(f, S)[S] = f[OneOf(S)] + Sums(f, S)[U]
      BY <1>4, <2>2 DEF SumsUp
    <2> QED  BY <1>1, <1>4, <2>4, <2>5
  <1> QED  BY <1>3, <1>4

(* The sum over nothing is 0.                                              *)
LEMMA SumEmpty == ASSUME NEW f PROVE SumFunctionOnSet(f, {}) = 0
  BY SumUnfold, FS_EmptySet

(* The sum of integers is an integer.                                      *)
LEMMA SumType ==
  ASSUME NEW S, IsFiniteSet(S), NEW f, \A x \in S : f[x] \in Int
  PROVE  SumFunctionOnSet(f, S) \in Int
  <1> DEFINE Q == {T \in SUBSET S : SumFunctionOnSet(f, T) \in Int}
  <1>1. ASSUME NEW T \in SUBSET S, \A U \in SUBSET T : U # T => U \in Q
        PROVE  T \in Q
    <2>1. CASE T = {}
      BY <2>1, SumEmpty
    <2>2. CASE T # {}
      <3> DEFINE U == T \ {OneOf(T)}
      <3>1. IsFiniteSet(T) /\ OneOf(T) \in T
        BY <2>2, FS_Subset, OneOfBelongs
      <3>2. SumFunctionOnSet(f, T) = f[OneOf(T)] + SumFunctionOnSet(f, U)
        BY <2>2, <3>1, SumUnfold
      <3>3. U \in Q
        BY <1>1, <3>1
      <3>4. SumFunctionOnSet(f, U) \in Int /\ f[OneOf(T)] \in Int
        BY <3>1, <3>3
      <3> QED  BY <3>2, <3>4
    <2> QED  BY <2>1, <2>2
  <1>2. \A T \in SUBSET S : T \in Q
    <2> HIDE DEF Q
    <2> QED  BY <1>1, SubsetInduction
  <1>3. S \in Q
    BY <1>2
  <1> QED  BY <1>3

(* An element can be taken out, whichever it is.                           *)
LEMMA SumAdd ==
  ASSUME NEW S, IsFiniteSet(S), NEW f, \A x \in S : f[x] \in Int
  PROVE  \A x \in S :
           SumFunctionOnSet(f, S) = f[x] + SumFunctionOnSet(f, S \ {x})
  <1> DEFINE Q == {T \in SUBSET S : \A x \in T :
                     SumFunctionOnSet(f, T) = f[x] + SumFunctionOnSet(f, T \ {x})}
  <1>1. ASSUME NEW T \in SUBSET S, \A U \in SUBSET T : U # T => U \in Q
        PROVE  T \in Q
    <2> SUFFICES ASSUME NEW x \in T
                 PROVE  SumFunctionOnSet(f, T) = f[x] + SumFunctionOnSet(f, T \ {x})
      OBVIOUS
    <2> DEFINE a == OneOf(T)
    <2>1. IsFiniteSet(T) /\ a \in T
      BY FS_Subset, OneOfBelongs
    <2>2. SumFunctionOnSet(f, T) = f[a] + SumFunctionOnSet(f, T \ {a})
      BY <2>1, SumUnfold
    <2> HIDE DEF a
    <2>3. CASE x # a
      <3> DEFINE U == (T \ {a}) \ {x}
      <3>1. U = (T \ {x}) \ {a}
        OBVIOUS
      <3>2. T \ {a} \in Q /\ T \ {x} \in Q
        BY <1>1, <2>1
      <3>3. x \in T \ {a} /\ a \in T \ {x}
        BY <2>1, <2>3
      <3>4. SumFunctionOnSet(f, T \ {a}) = f[x] + SumFunctionOnSet(f, U)
        BY <3>2, <3>3
      <3>5. SumFunctionOnSet(f, T \ {x}) = f[a] + SumFunctionOnSet(f, U)
        BY <3>1, <3>2, <3>3
      <3>6. IsFiniteSet(U) /\ \A y \in U : f[y] \in Int
        BY <2>1, FS_Subset
      <3> HIDE DEF U
      <3>7. SumFunctionOnSet(f, U) \in Int /\ f[x] \in Int /\ f[a] \in Int
        BY <2>1, <3>6, SumType
      <3> HIDE DEF Q
      <3> QED  BY <2>2, <3>4, <3>5, <3>7
    <2> QED  BY <2>2, <2>3
  <1>2. \A T \in SUBSET S : T \in Q
    <2> HIDE DEF Q
    <2> QED  BY <1>1, SubsetInduction
  <1>3. S \in Q
    BY <1>2
  <1> QED  BY <1>3

(* The sum depends on the values of the function on the set alone.         *)
LEMMA SumEqual ==
  ASSUME NEW S, IsFiniteSet(S), NEW f, NEW g, \A x \in S : f[x] = g[x]
  PROVE  SumFunctionOnSet(f, S) = SumFunctionOnSet(g, S)
  <1> DEFINE Q == {T \in SUBSET S : SumFunctionOnSet(f, T) = SumFunctionOnSet(g, T)}
  <1>1. ASSUME NEW T \in SUBSET S, \A U \in SUBSET T : U # T => U \in Q
        PROVE  T \in Q
    <2>1. CASE T = {}
      BY <2>1, SumEmpty
    <2>2. CASE T # {}
      <3> DEFINE U == T \ {OneOf(T)}
      <3>1. IsFiniteSet(T) /\ OneOf(T) \in T
        BY <2>2, FS_Subset, OneOfBelongs
      <3>2. /\ SumFunctionOnSet(f, T) = f[OneOf(T)] + SumFunctionOnSet(f, U)
            /\ SumFunctionOnSet(g, T) = g[OneOf(T)] + SumFunctionOnSet(g, U)
        BY <2>2, <3>1, SumUnfold
      <3>3. U \in Q
        BY <1>1, <3>1
      <3>4. SumFunctionOnSet(f, U) = SumFunctionOnSet(g, U)
        BY <3>3
      <3>5. f[OneOf(T)] = g[OneOf(T)]
        BY <3>1
      <3> QED  BY <3>2, <3>4, <3>5
    <2> QED  BY <2>1, <2>2
  <1>2. \A T \in SUBSET S : T \in Q
    <2> HIDE DEF Q
    <2> QED  BY <1>1, SubsetInduction
  <1>3. S \in Q
    BY <1>2
  <1> QED  BY <1>3

(* Where one value changes, the sum changes by as much.                    *)
LEMMA SumChange ==
  ASSUME NEW S, IsFiniteSet(S), NEW f, NEW g, NEW x \in S,
         \A y \in S : f[y] \in Int /\ g[y] \in Int,
         \A y \in S \ {x} : g[y] = f[y]
  PROVE  SumFunctionOnSet(g, S) = SumFunctionOnSet(f, S) + (g[x] - f[x])
  <1> DEFINE U == S \ {x}
  <1>1. IsFiniteSet(U)
    BY FS_Subset
  <1>2. SumFunctionOnSet(f, S) = f[x] + SumFunctionOnSet(f, U)
    BY SumAdd
  <1>3. SumFunctionOnSet(g, S) = g[x] + SumFunctionOnSet(g, U)
    BY SumAdd
  <1>4. SumFunctionOnSet(g, U) = SumFunctionOnSet(f, U)
    <2> \A y \in U : g[y] = f[y]
      OBVIOUS
    <2> HIDE DEF U
    <2> QED  BY <1>1, SumEqual
  <1>5. SumFunctionOnSet(f, U) \in Int
    <2> \A y \in U : f[y] \in Int
      OBVIOUS
    <2> HIDE DEF U
    <2> QED  BY <1>1, SumType
  <1> QED  BY <1>2, <1>3, <1>4, <1>5

(* A sum of zeros is 0.                                                    *)
LEMMA SumZero ==
  ASSUME NEW S, IsFiniteSet(S), NEW f, \A x \in S : f[x] = 0
  PROVE  SumFunctionOnSet(f, S) = 0
  <1> DEFINE Q == {T \in SUBSET S : SumFunctionOnSet(f, T) = 0}
  <1>1. ASSUME NEW T \in SUBSET S, \A U \in SUBSET T : U # T => U \in Q
        PROVE  T \in Q
    <2>1. CASE T = {}
      BY <2>1, SumEmpty
    <2>2. CASE T # {}
      <3> DEFINE U == T \ {OneOf(T)}
      <3>1. IsFiniteSet(T) /\ OneOf(T) \in T
        BY <2>2, FS_Subset, OneOfBelongs
      <3>2. SumFunctionOnSet(f, T) = f[OneOf(T)] + SumFunctionOnSet(f, U)
        BY <2>2, <3>1, SumUnfold
      <3>3. U \in Q
        BY <1>1, <3>1
      <3>4. SumFunctionOnSet(f, U) = 0 /\ f[OneOf(T)] = 0
        BY <3>1, <3>3
      <3> QED  BY <3>2, <3>4
    <2> QED  BY <2>1, <2>2
  <1>2. \A T \in SUBSET S : T \in Q
    <2> HIDE DEF Q
    <2> QED  BY <1>1, SubsetInduction
  <1>3. S \in Q
    BY <1>2
  <1> QED  BY <1>3

(* SumFunction: the sum over the domain.                                   *)
LEMMA SumOfAll ==
  ASSUME NEW S, NEW f, DOMAIN f = S
  PROVE  SumFunction(f) = SumFunctionOnSet(f, S)
  BY DEF SumFunction, SumFunctionOnSet, FoldFunction

-----------------------------------------------------------------------------
(***************************************************************************)
(* Shapes: what each variable of a connection holds.                       *)
(***************************************************************************)

AnswerType == [request : Nat, own : BOOLEAN, body : Nat]

(* What every variable holds; the wire, the buffer and the answers of a    *)
(* connection name requests that were sent on it.                          *)
Shapes ==
  /\ pc \in [Conns -> Stages]
  /\ sent \in [Conns -> Nat]
  /\ hung_up \in [Conns -> BOOLEAN]
  /\ wire \in [Conns -> Seq(Piece)]
  /\ requests \in [Conns -> 0..MaxKeepalive]
  /\ buf \in [Conns -> Seq(Piece)]
  /\ result \in [Conns -> Results \cup {BadRequest}]
  /\ answers \in [Conns -> Seq(AnswerType)]
  /\ told \in [Conns -> {"keep-alive", "close", "tunnel"}]
  /\ exact \in [Conns -> BOOLEAN]

Ranges(c) ==
  /\ sent[c] <= Len(Bodies[c])
  /\ \A i \in DOMAIN wire[c] : wire[c][i].request \in 1..sent[c]
  /\ \A i \in DOMAIN buf[c] : buf[c][i].request \in 1..sent[c]
  /\ \A k \in DOMAIN answers[c] : answers[c][k].request \in 0..sent[c]

(* In the handler and until the response is out there is something in the  *)
(* buffer, as long as the reads are exact from a request line on.          *)
Loaded(c) ==
  pc[c] \in {"handle", "write"} =>
    1 \in DOMAIN buf[c] /\ (exact[c] => buf[c][1].part = "line")

Typed == Shapes /\ \A c \in Conns : Ranges(c) /\ Loaded(c)

-----------------------------------------------------------------------------
(* The results one by one.                                                 *)
LEMMA ResultList ==
  /\ \A r \in Results : \E ka \in BOOLEAN :
       \/ r = BlockedResult \/ r = UserApiResult \/ r = RedirectResult(ka)
       \/ r = UnauthorizedResult(ka) \/ r = LimitedResult
       \/ r = BodyTooLargeResult(ka) \/ r = ReturnResult(ka)
       \/ r = LocationResult(ka) \/ r \in ApiResults \/ r \in WebSocketResults
  /\ BlockedResult \in Results
  <1> DEFINE For(ka) == {BlockedResult, UserApiResult, RedirectResult(ka),
                         UnauthorizedResult(ka), LimitedResult,
                         BodyTooLargeResult(ka), ReturnResult(ka), LocationResult(ka)}
  <1> DEFINE D == {For(ka) : ka \in BOOLEAN}
  <1>1. Results = (UNION D) \cup ApiResults \cup WebSocketResults
    BY DEF Results
  <1>2. \A ka : \A r \in For(ka) :
          \/ r = BlockedResult \/ r = UserApiResult \/ r = RedirectResult(ka)
          \/ r = UnauthorizedResult(ka) \/ r = LimitedResult
          \/ r = BodyTooLargeResult(ka) \/ r = ReturnResult(ka)
          \/ r = LocationResult(ka)
    OBVIOUS
  <1>3. BlockedResult \in For(TRUE)
    OBVIOUS
  <1> HIDE DEF For
  <1>4. \A r : r \in Results <=> \/ \E ka \in BOOLEAN : r \in For(ka)
                                \/ r \in ApiResults \/ r \in WebSocketResults
    <2>1. \A r : r \in UNION D <=> \E T \in D : r \in T
      OBVIOUS
    <2>2. \A r : (\E T \in D : r \in T) <=> \E ka \in BOOLEAN : r \in For(ka)
      OBVIOUS
    <2>3. \A r : r \in Results <=> r \in UNION D \/ r \in ApiResults \/ r \in WebSocketResults
      <3> HIDE DEF D
      <3> QED  BY <1>1
    <2> HIDE DEF D
    <2> QED  BY <2>1, <2>2, <2>3
  <1>5. BlockedResult \in Results
    BY <1>3, <1>4
  <1>6. ASSUME NEW r \in Results
        PROVE  \E ka \in BOOLEAN :
                 \/ r = BlockedResult \/ r = UserApiResult \/ r = RedirectResult(ka)
                 \/ r = UnauthorizedResult(ka) \/ r = LimitedResult
                 \/ r = BodyTooLargeResult(ka) \/ r = ReturnResult(ka)
                 \/ r = LocationResult(ka) \/ r \in ApiResults \/ r \in WebSocketResults
    <2>1. CASE \E ka \in BOOLEAN : r \in For(ka)
      BY <1>2, <2>1, Zenon
    <2>2. CASE r \in ApiResults \/ r \in WebSocketResults
      BY <2>2, Zenon
    <2> QED  BY <1>4, <2>1, <2>2
  <1> QED  BY <1>5, <1>6, Zenon

(* The results of the handler: the connection is kept only under a header  *)
(* that says so.                                                           *)
LEMMA ResultKinds ==
  \A r \in Results \cup {BadRequest} :
    /\ r.header \in {"keep-alive", "close", "tunnel"}
    /\ r.keep_alive \in BOOLEAN
    /\ r.keep_alive => r.header = "keep-alive"
    /\ r \in Results => r.handled
  <1>1. ASSUME NEW r \in Results
        PROVE  \E k \in BOOLEAN, h \in {"keep-alive", "close", "tunnel"} :
                 r = Result(k, h) /\ (k => h = "keep-alive")
    <2>1. PICK ka \in BOOLEAN :
            \/ r = BlockedResult \/ r = UserApiResult \/ r = RedirectResult(ka)
            \/ r = UnauthorizedResult(ka) \/ r = LimitedResult
            \/ r = BodyTooLargeResult(ka) \/ r = ReturnResult(ka)
            \/ r = LocationResult(ka) \/ r \in ApiResults \/ r \in WebSocketResults
      BY ResultList, Zenon
    <2>2. /\ ka => Header(ka) = "keep-alive"
          /\ Header(ka) \in {"keep-alive", "close"}
      BY DEF Header
    <2> QED
      BY <2>1, <2>2, Zenon DEF BlockedResult, UserApiResult, RedirectResult,
         UnauthorizedResult, LimitedResult, BodyTooLargeResult, ReturnResult,
         LocationResult, ApiResults, WebSocketResults
  <1>2. \A k, h : /\ Result(k, h).keep_alive = k /\ Result(k, h).header = h
                  /\ Result(k, h).handled
    BY DEF Result
  <1>3. BadRequest.keep_alive = FALSE /\ BadRequest.header = "close"
    BY DEF Result, BadRequest
  <1>4. ASSUME NEW r \in Results
        PROVE  /\ r.header \in {"keep-alive", "close", "tunnel"}
               /\ r.keep_alive \in BOOLEAN
               /\ r.keep_alive => r.header = "keep-alive"
               /\ r.handled
    <2>1. PICK k \in BOOLEAN, h \in {"keep-alive", "close", "tunnel"} :
            r = Result(k, h) /\ (k => h = "keep-alive")
      BY <1>1
    <2>2. r.keep_alive = k /\ r.header = h /\ r.handled
      BY <1>2, <2>1
    <2> QED  BY <2>1, <2>2
  <1> QED  BY <1>3, <1>4

(* What a refused connection is told.                                      *)
LEMMA BadRequestCloses ==
  ~BadRequest.keep_alive /\ BadRequest.header = "close" /\ ~BadRequest.handled
  BY DEF BadRequest, Result

(* The constants.                                                          *)
LEMMA Constants ==
  /\ \A c \in Conns : Bodies[c] \in Seq(Nat) /\ Len(Bodies[c]) \in Nat
  /\ MaxKeepalive \in Nat /\ HeaderBuffer \in Nat /\ Buckets \in Nat
  /\ MaxKeepalive > 0 /\ Buckets > 0
  <1>1. \A c \in Conns : Bodies[c] \in Seq(Nat)
    BY HttpConnectionAssumption
  <1> QED  BY <1>1, HttpConnectionAssumption

(* The pieces of a message.                                                *)
LEMMA MessagePieces ==
  ASSUME NEW c \in Conns, NEW i \in DOMAIN Bodies[c]
  PROVE  /\ i \in Nat \ {0} /\ i <= Len(Bodies[c]) /\ Bodies[c][i] \in Nat
         /\ Message(c, i) \in Seq(Piece)
         /\ Len(Message(c, i)) = Bodies[c][i] + 2
         /\ \A j \in DOMAIN Message(c, i) :
              /\ Message(c, i)[j].request = i
              /\ Message(c, i)[j].part = "line" <=> j = 1
  <1> DEFINE b == Bodies[c][i]
             head == <<[request |-> i, part |-> "line"],
                       [request |-> i, part |-> "headers"]>>
             tail == [j \in 1..b |-> [request |-> i, part |-> "body"]]
  <1>1. i \in Nat \ {0} /\ i <= Len(Bodies[c]) /\ b \in Nat
    BY Constants
  <1>2. head \in Seq(Piece) /\ Len(head) = 2
    BY <1>1 DEF Piece
  <1>3. tail \in Seq(Piece) /\ Len(tail) = b
    <2>1. [request |-> i, part |-> "body"] \in Piece
      BY <1>1 DEF Piece
    <2>2. tail \in [1..b -> Piece]
      BY <2>1
    <2> HIDE DEF tail
    <2>3. tail \in Seq(Piece)
      BY <1>1, <2>2, SeqDef
    <2> QED  BY <1>1, <2>2, <2>3
  <1>4. Message(c, i) = head \o tail
    BY DEF Message
  <1>5. Message(c, i) \in Seq(Piece) /\ Len(Message(c, i)) = b + 2
    BY <1>1, <1>2, <1>3, <1>4
  <1>6. ASSUME NEW j \in DOMAIN Message(c, i)
        PROVE  /\ Message(c, i)[j].request = i
               /\ Message(c, i)[j].part = "line" <=> j = 1
    <2>1. j \in 1..b + 2
      BY <1>5, <1>1
    <2>2. CASE j <= 2
      <3>1. Message(c, i)[j] = head[j]
        BY <1>2, <1>3, <1>4, <2>1, <2>2
      <3>2. j = 1 \/ j = 2
        BY <1>1, <2>1, <2>2
      <3> QED  BY <3>1, <3>2
    <2>3. CASE j > 2
      <3>1. Message(c, i)[j] = tail[j - 2] /\ j - 2 \in 1..b
        BY <1>1, <1>2, <1>3, <1>4, <2>1, <2>3
      <3>2. Message(c, i)[j] = [request |-> i, part |-> "body"]
        BY <3>1
      <3> QED  BY <2>3, <3>2
    <2> QED  BY <1>1, <2>1, <2>2, <2>3
  <1> QED  BY <1>1, <1>5, <1>6

(* The smaller of two numbers.                                             *)
LEMMA MinOfTwo ==
  ASSUME NEW a \in Int, NEW b \in Int
  PROVE  Min({a, b}) \in {a, b} /\ Min({a, b}) <= a /\ Min({a, b}) <= b
  <1>1. \E x \in {a, b} : \A y \in {a, b} : x <= y
    <2>1. CASE a <= b
      BY <2>1
    <2>2. CASE b <= a
      BY <2>2
    <2> QED  BY <2>1, <2>2
  <1> QED  BY <1>1 DEF Min

(* What is handled of the body of a request that parses: no more than it   *)
(* has.                                                                    *)
LEMMA BodyIsPart ==
  ASSUME NEW c \in Conns, buf \in [Conns -> Seq(Piece)], Ranges(c), Parses(c),
         sent[c] \in Nat
  PROVE  /\ Request(c) \in 1..sent[c] /\ Request(c) = buf[c][1].request
         /\ Request(c) \in DOMAIN Bodies[c]
         /\ Body(c) \in Nat /\ Body(c) <= Bodies[c][Request(c)]
  <1>1. buf[c] \in Seq(Piece) /\ Len(buf[c]) \in Nat /\ Len(buf[c]) >= 2
    BY DEF Parses
  <1>2. 1 \in DOMAIN buf[c] /\ Request(c) = buf[c][1].request
    BY <1>1 DEF Request
  <1>3. Request(c) \in 1..sent[c]
    BY <1>2 DEF Ranges
  <1>4. Request(c) \in DOMAIN Bodies[c] /\ Bodies[c][Request(c)] \in Nat
    BY <1>3, Constants DEF Ranges
  <1>5. Len(buf[c]) - 2 \in Nat
    BY <1>1
  <1>6. Body(c) \in Nat /\ Body(c) <= Bodies[c][Request(c)]
    <2> DEFINE x == Len(buf[c]) - 2
               y == Bodies[c][Request(c)]
    <2>1. Body(c) = Min({x, y})
      BY DEF Body
    <2>2. x \in Nat /\ y \in Nat /\ x \in Int /\ y \in Int
      BY <1>4, <1>5
    <2> HIDE DEF x, y
    <2>3. Min({x, y}) \in {x, y} /\ Min({x, y}) <= y
      BY <2>2, MinOfTwo
    <2>4. Body(c) \in Nat /\ Body(c) <= y
      BY <2>1, <2>2, <2>3
    <2> QED  BY <2>4 DEF y
  <1> QED  BY <1>2, <1>3, <1>4, <1>6

(* What is handled belongs to a request that was sent.                     *)
LEMMA LoadedRequest ==
  ASSUME NEW c \in Conns, buf \in [Conns -> Seq(Piece)], Ranges(c), Loaded(c),
         pc[c] \in {"handle", "write"}
  PROVE  Request(c) = buf[c][1].request /\ Request(c) \in 1..sent[c]
  <1>1. 1 \in DOMAIN buf[c] /\ buf[c] \in Seq(Piece)
    BY DEF Loaded
  <1>2. Request(c) = buf[c][1].request
    BY <1>1 DEF Request
  <1> QED  BY <1>1, <1>2 DEF Ranges

(* One read: what the loop gets and what stays.                            *)
LEMMA ReadCuts ==
  ASSUME NEW w \in Seq(Piece), NEW n \in 1..Len(w)
  PROVE  /\ SubSeq(w, 1, n) \in Seq(Piece) /\ Len(SubSeq(w, 1, n)) = n
         /\ \A i \in 1..n : SubSeq(w, 1, n)[i] = w[i]
         /\ SubSeq(w, n + 1, Len(w)) \in Seq(Piece)
         /\ Len(SubSeq(w, n + 1, Len(w))) = Len(w) - n
         /\ \A i \in 1..Len(w) - n : /\ SubSeq(w, n + 1, Len(w))[i] = w[n + i]
                                     /\ n + i \in DOMAIN w
  <1>1. Len(w) \in Nat /\ n \in Nat
    OBVIOUS
  <1>2. \A i \in 1..n : i \in DOMAIN w
    BY <1>1
  <1>3. \A i \in n + 1..Len(w) : i \in DOMAIN w
    BY <1>1
  <1>4. SubSeq(w, 1, n) \in Seq(Piece) /\ Len(SubSeq(w, 1, n)) = n
    BY <1>1, <1>2
  <1>5. \A i \in 1..n : SubSeq(w, 1, n)[i] = w[i]
    BY <1>1, <1>2
  <1>6. SubSeq(w, n + 1, Len(w)) \in Seq(Piece) /\ Len(SubSeq(w, n + 1, Len(w))) = Len(w) - n
    BY <1>1, <1>3
  <1>7. \A i \in 1..Len(w) - n : /\ SubSeq(w, n + 1, Len(w))[i] = w[n + i]
                                 /\ n + i \in DOMAIN w
    BY <1>1, <1>3
  <1> QED  BY <1>4, <1>5, <1>6, <1>7

(* A step of the task of c or of its client.                               *)
ConnStep(c) == ServerStep(c) \/ Send(c) \/ HangUp(c) \/ TunnelEnds(c)

(* Everything kept of connection d stays as it is.                         *)
Same(d) ==
  /\ pc'[d] = pc[d] /\ sent'[d] = sent[d] /\ hung_up'[d] = hung_up[d]
  /\ wire'[d] = wire[d] /\ requests'[d] = requests[d] /\ buf'[d] = buf[d]
  /\ result'[d] = result[d] /\ answers'[d] = answers[d]
  /\ told'[d] = told[d] /\ exact'[d] = exact[d]

(* A step of one connection changes nothing of another one.                *)
LEMMA Elsewhere ==
  ASSUME NEW c \in Conns, Shapes, ConnStep(c)
  PROVE  \A d \in Conns \ {c} : Same(d)
  <1>1. CASE Refuse(c)
    BY <1>1 DEF Refuse, Goto, client, Same, Shapes
  <1>2. CASE ReadEnd(c)
    BY <1>2 DEF ReadEnd, Goto, client, Same, Shapes
  <1>3. CASE Read(c)
    BY <1>3 DEF Read, Goto, client, Same, Shapes
  <1>4. CASE Handle(c)
    BY <1>4 DEF Handle, Goto, client, Same, Shapes
  <1>5. CASE Write(c)
    BY <1>5 DEF Write, client, Same, Shapes
  <1>6. CASE WriteFails(c)
    BY <1>6 DEF WriteFails, Goto, client, Same, Shapes
  <1>7. CASE Send(c)
    BY <1>7 DEF Send, client, Same, Shapes
  <1>8. CASE HangUp(c)
    BY <1>8 DEF HangUp, client, Same, Shapes
  <1>9. CASE TunnelEnds(c)
    BY <1>9 DEF TunnelEnds, Goto, client, Same, Shapes
  <1> QED
    BY <1>1, <1>2, <1>3, <1>4, <1>5, <1>6, <1>7, <1>8, <1>9
       DEF ConnStep, ServerStep, TooManyRequests, ReadTimeout

(* Every step is one of a connection, or leaves all connections alone.     *)
LEMMA StepOfOne ==
  ASSUME [Next]_vars
  PROVE  (\E c \in Conns : ConnStep(c)) \/ UNCHANGED Connections
  BY Zenon DEF Next, vars, ConnStep, Reader, Connections, client

(* What a client sends.                                                    *)
LEMMA SendShapes ==
  ASSUME Typed, NEW c \in Conns, Send(c)
  PROVE  /\ sent[c] + 1 \in DOMAIN Bodies[c] /\ sent[c] \in Nat
         /\ sent'[c] = sent[c] + 1 /\ wire'[c] = wire[c] \o Message(c, sent[c] + 1)
         /\ sent' \in [Conns -> Nat] /\ wire' \in [Conns -> Seq(Piece)]
  <1>1. sent[c] \in Nat /\ sent[c] < Len(Bodies[c])
    BY DEF Typed, Shapes, Send
  <1>2. sent[c] + 1 \in DOMAIN Bodies[c]
    BY <1>1, Constants
  <1>3. Message(c, sent[c] + 1) \in Seq(Piece)
    BY <1>2, MessagePieces
  <1>4. wire[c] \o Message(c, sent[c] + 1) \in Seq(Piece)
    BY <1>3 DEF Typed, Shapes
  <1>5. sent'[c] = sent[c] + 1 /\ wire'[c] = wire[c] \o Message(c, sent[c] + 1)
    BY DEF Typed, Shapes, Send
  <1>6. sent' \in [Conns -> Nat]
    BY <1>1 DEF Typed, Shapes, Send
  <1>7. wire' \in [Conns -> Seq(Piece)]
    BY <1>4 DEF Typed, Shapes, Send
  <1> QED  BY <1>1, <1>2, <1>5, <1>6, <1>7

(* What a read takes.                                                      *)
LEMMA ReadShapes ==
  ASSUME Typed, NEW c \in Conns, Read(c)
  PROVE  /\ \E n \in 1..Len(wire[c]) :
              /\ buf'[c] = SubSeq(wire[c], 1, n)
              /\ wire'[c] = SubSeq(wire[c], n + 1, Len(wire[c]))
         /\ buf' \in [Conns -> Seq(Piece)] /\ wire' \in [Conns -> Seq(Piece)]
  <1>1. PICK n \in 1..Len(wire[c]) :
          /\ buf' = [buf EXCEPT ![c] = SubSeq(wire[c], 1, n)]
          /\ wire' = [wire EXCEPT ![c] = SubSeq(wire[c], n + 1, Len(wire[c]))]
    BY DEF Read
  <1>2. wire[c] \in Seq(Piece)
    BY DEF Typed, Shapes
  <1>3. /\ SubSeq(wire[c], 1, n) \in Seq(Piece)
        /\ SubSeq(wire[c], n + 1, Len(wire[c])) \in Seq(Piece)
    BY <1>2, ReadCuts
  <1> QED  BY <1>1, <1>3 DEF Typed, Shapes

(* It answers a request that was sent, or none.                            *)
LEMMA WriteShapes ==
  ASSUME Typed, NEW c \in Conns, Write(c)
  PROVE  /\ Answer(c) \in AnswerType /\ Answer(c).request \in 0..sent[c]
         /\ answers'[c] = Append(answers[c], Answer(c))
         /\ answers' \in [Conns -> Seq(AnswerType)]
  <1>1. sent[c] \in Nat /\ Ranges(c) /\ Loaded(c) /\ buf \in [Conns -> Seq(Piece)]
    BY DEF Typed, Shapes
  <1>2. Answer(c) \in AnswerType /\ Answer(c).request \in 0..sent[c]
    <2>1. CASE ~result[c].handled
      BY <1>1, <2>1 DEF Answer, AnswerType, NoAnswer
    <2>2. CASE result[c].handled /\ Parses(c)
      <3>1. Request(c) \in 1..sent[c] /\ Body(c) \in Nat
        BY <1>1, <2>2, BodyIsPart
      <3>2. Answer(c) = [request |-> Request(c), own |-> TRUE, body |-> Body(c)]
        BY <2>2 DEF Answer
      <3> QED  BY <1>1, <3>1, <3>2 DEF AnswerType
    <2>3. CASE result[c].handled /\ ~Parses(c)
      <3>1. Request(c) \in 1..sent[c]
        BY <1>1, LoadedRequest DEF Write
      <3>2. Answer(c) = [request |-> Request(c), own |-> Parses(c), body |-> 0]
        BY <2>3, Zenon DEF Answer
      <3>3. Parses(c) = FALSE
        BY <2>3
      <3>4. Answer(c) = [request |-> Request(c), own |-> FALSE, body |-> 0]
        BY <3>2, <3>3
      <3> QED  BY <1>1, <3>1, <3>4 DEF AnswerType
    <2> QED  BY <2>1, <2>2, <2>3
  <1>3. answers' = [answers EXCEPT ![c] = Append(@, Answer(c))]
    BY DEF Write
  <1>4. Append(answers[c], Answer(c)) \in Seq(AnswerType)
    BY <1>2 DEF Typed, Shapes
  <1> QED  BY <1>2, <1>3, <1>4 DEF Typed, Shapes

(* The loop starts with nothing sent and nothing read.                     *)
LEMMA InitTyped == Init => Typed
  <1> SUFFICES ASSUME Init PROVE Typed
    OBVIOUS
  <1>1. <<>> \in Seq(Piece) /\ <<>> \in Seq(AnswerType)
    BY EmptySeq
  <1>2. 0 \in 0..MaxKeepalive /\ "loop" \in Stages
    BY Constants DEF Stages
  <1>3. Shapes
    BY <1>1, <1>2 DEF Init, Shapes
  <1>4. ASSUME NEW c \in Conns PROVE Ranges(c) /\ Loaded(c)
    BY <1>4, Constants DEF Init, Ranges, Loaded
  <1> QED  BY <1>3, <1>4 DEF Typed

(* No step gives a variable another shape.                                 *)
LEMMA NextShapes ==
  ASSUME Typed, NEW c \in Conns, ConnStep(c)
  PROVE  Shapes'
  <1> USE DEF Shapes
  <1>0. Shapes /\ Stages = {"loop", "handle", "write", "tunnel", "closed"}
    BY DEF Typed, Stages
  <1>1. CASE Refuse(c)
    <2>1. Append(answers[c], NoAnswer) \in Seq(AnswerType)
      BY <1>0 DEF AnswerType, NoAnswer
    <2> QED  BY <1>0, <1>1, <2>1 DEF Refuse, Goto, client
  <1>2. CASE ReadEnd(c)
    BY <1>0, <1>2 DEF ReadEnd, Goto, client
  <1>3. CASE Read(c)
    <2>1. requests' \in [Conns -> 0..MaxKeepalive]
      BY <1>0, <1>3, Constants DEF Read
    <2>2. exact' \in [Conns -> BOOLEAN]
      <3>1. \E x \in BOOLEAN : exact' = [exact EXCEPT ![c] = x]
        BY <1>0, <1>3 DEF Read
      <3> QED  BY <1>0, <3>1
    <2>3. pc' \in [Conns -> Stages]
      BY <1>0, <1>3 DEF Read, Goto
    <2>4. UNCHANGED <<sent, hung_up, result, answers, told>>
      BY <1>3 DEF Read, client
    <2> QED  BY <1>0, <1>3, <2>1, <2>2, <2>3, <2>4, ReadShapes
  <1>4. CASE Handle(c)
    <2>1. \E r \in Results \cup {BadRequest} : result' = [result EXCEPT ![c] = r]
      BY <1>4 DEF Handle, Outcomes
    <2>2. pc' \in [Conns -> Stages]
      BY <1>0, <1>4 DEF Handle, Goto
    <2>3. UNCHANGED <<sent, hung_up, wire, requests, buf, answers, told, exact>>
      BY <1>4 DEF Handle, client
    <2>4. result' \in [Conns -> Results \cup {BadRequest}]
      BY <1>0, <2>1
    <2> QED  BY <1>0, <2>2, <2>3, <2>4
  <1>5. CASE Write(c)
    <2>1. pc' \in [Conns -> Stages]
      BY <1>0, <1>5 DEF Write
    <2>2. told' \in [Conns -> {"keep-alive", "close", "tunnel"}]
      <3>1. result[c].header \in {"keep-alive", "close", "tunnel"}
        BY <1>0, ResultKinds
      <3> QED  BY <1>0, <1>5, <3>1 DEF Write
    <2>3. buf' \in [Conns -> Seq(Piece)]
      BY <1>0, <1>5, EmptySeq DEF Write
    <2>4. result' \in [Conns -> Results \cup {BadRequest}]
      BY <1>0, <1>5 DEF Write
    <2>5. UNCHANGED <<sent, hung_up, wire, requests, exact>>
      BY <1>5 DEF Write, client
    <2> QED  BY <1>0, <1>5, <2>1, <2>2, <2>3, <2>4, <2>5, WriteShapes
  <1>6. CASE WriteFails(c)
    <2>1. pc' \in [Conns -> Stages]
      BY <1>0, <1>6 DEF WriteFails, Goto
    <2>2. buf' \in [Conns -> Seq(Piece)]
      BY <1>0, <1>6, EmptySeq DEF WriteFails
    <2>3. result' \in [Conns -> Results \cup {BadRequest}]
      BY <1>0, <1>6 DEF WriteFails
    <2>4. UNCHANGED <<sent, hung_up, wire, requests, answers, told, exact>>
      BY <1>6 DEF WriteFails, client
    <2> QED  BY <1>0, <2>1, <2>2, <2>3, <2>4
  <1>7. CASE Send(c)
    <2>1. UNCHANGED <<pc, hung_up, requests, buf, result, answers, told, exact>>
      BY <1>7 DEF Send
    <2> QED  BY <1>0, <1>7, <2>1, SendShapes
  <1>8. CASE HangUp(c)
    BY <1>0, <1>8 DEF HangUp
  <1>9. CASE TunnelEnds(c)
    BY <1>0, <1>9 DEF TunnelEnds, Goto, client
  <1> QED
    BY <1>1, <1>2, <1>3, <1>4, <1>5, <1>6, <1>7, <1>8, <1>9
       DEF ConnStep, ServerStep, TooManyRequests, ReadTimeout

(* What a read leaves in the buffer for the handler.                       *)
LEMMA StepLoaded ==
  ASSUME Shapes, NEW c \in Conns, Loaded(c), ConnStep(c)
  PROVE  Loaded(c)'
  <1>1. CASE Read(c)
    <2>1. PICK n \in 1..Len(wire[c]) : buf' = [buf EXCEPT ![c] = SubSeq(wire[c], 1, n)]
      BY <1>1 DEF Read
    <2>2. wire[c] \in Seq(Piece) /\ buf'[c] = SubSeq(wire[c], 1, n)
      BY <2>1 DEF Shapes
    <2>3. 1 \in DOMAIN buf'[c]
      <3>1. buf'[c] \in Seq(Piece) /\ Len(buf'[c]) = n
        BY <2>2, ReadCuts
      <3> QED  BY <3>1
    <2>4. exact'[c] => \E i \in DOMAIN Bodies[c] : buf'[c] = Message(c, i)
      BY <1>1 DEF Read, Shapes
    <2>5. ASSUME NEW i \in DOMAIN Bodies[c], buf'[c] = Message(c, i)
          PROVE  buf'[c][1].part = "line"
      BY <2>3, <2>5, MessagePieces
    <2> QED  BY <2>3, <2>4, <2>5 DEF Loaded
  <1>2. CASE Handle(c)
    <2>1. pc[c] = "handle" /\ UNCHANGED <<buf, exact>>
      BY <1>2 DEF Handle, Goto
    <2> QED  BY <2>1 DEF Loaded
  <1>3. CASE Send(c) \/ HangUp(c)
    <2>1. UNCHANGED <<pc, buf, exact>>
      BY <1>3 DEF Send, HangUp
    <2> QED  BY <2>1 DEF Loaded
  <1>4. CASE Refuse(c) \/ ReadEnd(c) \/ WriteFails(c) \/ TunnelEnds(c)
    <2>1. pc'[c] = "closed"
      BY <1>4 DEF Refuse, ReadEnd, WriteFails, TunnelEnds, Goto, Shapes
    <2> QED  BY <2>1 DEF Loaded
  <1>5. CASE Write(c)
    <2>1. pc'[c] \in {"tunnel", "loop", "closed"}
      BY <1>5 DEF Write, Shapes
    <2> QED  BY <2>1 DEF Loaded
  <1> QED
    BY <1>1, <1>2, <1>3, <1>4, <1>5
       DEF ConnStep, ServerStep, TooManyRequests, ReadTimeout

(* Nor does it name a request that was not sent.                           *)
LEMMA NextTyped == Typed /\ [Next]_vars => Typed'
  <1> SUFFICES ASSUME Typed, [Next]_vars PROVE Typed'
    OBVIOUS
  <1>1. ASSUME NEW c \in Conns, ConnStep(c) PROVE Typed'
    <2>0. /\ Shapes /\ Shapes' /\ \A d \in Conns : Ranges(d) /\ Loaded(d)
          /\ \A d \in Conns \ {c} : Same(d)
      BY <1>1, NextShapes, Elsewhere DEF Typed
    <2>1. ASSUME NEW d \in Conns \ {c} PROVE Ranges(d)' /\ Loaded(d)'
      <3>1. Same(d) /\ Ranges(d) /\ Loaded(d)
        BY <2>0
      <3>2. Ranges(d)'
        BY <3>1 DEF Same, Ranges
      <3>3. Loaded(d)'
        BY <3>1 DEF Same, Loaded
      <3> QED  BY <3>2, <3>3
    <2>2. Ranges(c)'
      <3>1. CASE Refuse(c)
        <4>1. /\ answers'[c] = Append(answers[c], NoAnswer)
              /\ UNCHANGED <<sent, wire, buf>>
          BY <2>0, <3>1 DEF Refuse, client, Shapes
        <4>2. answers[c] \in Seq(AnswerType) /\ Len(answers[c]) \in Nat /\ sent[c] \in Nat
          BY <2>0 DEF Shapes
        <4>3. \A k \in DOMAIN answers'[c] : answers'[c][k].request \in 0..sent[c]
          BY <2>0, <4>1, <4>2 DEF Ranges, NoAnswer
        <4> QED  BY <2>0, <4>1, <4>3 DEF Ranges
      <3>2. CASE Read(c)
        <4>1. PICK n \in 1..Len(wire[c]) :
                /\ buf'[c] = SubSeq(wire[c], 1, n)
                /\ wire'[c] = SubSeq(wire[c], n + 1, Len(wire[c]))
          BY <3>2, ReadShapes
        <4>2. wire[c] \in Seq(Piece) /\ Ranges(c)
          BY <2>0 DEF Shapes
        <4>3. UNCHANGED <<sent, answers>>
          BY <3>2 DEF Read, client
        <4>4. \A i \in DOMAIN buf'[c] : buf'[c][i].request \in 1..sent[c]
          <5> TAKE i \in DOMAIN buf'[c]
          <5>1. i \in 1..n /\ i \in DOMAIN wire[c]
            BY <4>1, <4>2, ReadCuts
          <5>2. buf'[c][i] = wire[c][i]
            BY <4>1, <4>2, <5>1, ReadCuts
          <5> QED  BY <4>2, <5>1, <5>2 DEF Ranges
        <4>5. \A i \in DOMAIN wire'[c] : wire'[c][i].request \in 1..sent[c]
          <5> TAKE i \in DOMAIN wire'[c]
          <5>1. i \in 1..Len(wire[c]) - n
            BY <4>1, <4>2, ReadCuts
          <5>2. wire'[c][i] = wire[c][n + i] /\ n + i \in DOMAIN wire[c]
            BY <4>1, <4>2, <5>1, ReadCuts
          <5> QED  BY <4>2, <5>2 DEF Ranges
        <4> QED  BY <4>2, <4>3, <4>4, <4>5 DEF Ranges
      <3>3. CASE Write(c)
        <4>1. /\ answers'[c] = Append(answers[c], Answer(c))
              /\ Answer(c).request \in 0..sent[c]
          BY <3>3, WriteShapes
        <4>2. answers[c] \in Seq(AnswerType) /\ Len(answers[c]) \in Nat
          BY <2>0 DEF Shapes
        <4>3. UNCHANGED <<sent, wire>> /\ buf'[c] = <<>>
          BY <2>0, <3>3 DEF Write, client, Shapes
        <4>4. \A k \in DOMAIN answers'[c] : answers'[c][k].request \in 0..sent[c]
          BY <2>0, <4>1, <4>2 DEF Ranges
        <4> QED  BY <2>0, <4>3, <4>4 DEF Ranges
      <3>4. CASE WriteFails(c)
        <4>1. UNCHANGED <<sent, wire, answers>> /\ buf'[c] = <<>>
          BY <2>0, <3>4 DEF WriteFails, client, Shapes
        <4> QED  BY <2>0, <4>1 DEF Ranges
      <3>5. CASE Send(c)
        <4>1. /\ sent[c] + 1 \in DOMAIN Bodies[c] /\ sent[c] \in Nat
              /\ sent'[c] = sent[c] + 1
              /\ wire'[c] = wire[c] \o Message(c, sent[c] + 1)
          BY <3>5, SendShapes
        <4>2. UNCHANGED <<buf, answers>>
          BY <3>5 DEF Send
        <4>3. wire[c] \in Seq(Piece) /\ Message(c, sent[c] + 1) \in Seq(Piece)
          BY <2>0, <4>1, MessagePieces DEF Shapes
        <4>4. \A i \in DOMAIN wire'[c] : wire'[c][i].request \in 1..sent'[c]
          <5> TAKE i \in DOMAIN wire'[c]
          <5> DEFINE m == Message(c, sent[c] + 1)
          <5>1. \A j \in DOMAIN m : m[j].request = sent[c] + 1
            BY <4>1, MessagePieces
          <5> HIDE DEF m
          <5>2. CASE i \in DOMAIN wire[c]
            <6>1. wire'[c][i] = wire[c][i]
              BY <4>1, <4>3, <5>2
            <6> QED  BY <2>0, <4>1, <5>2, <6>1 DEF Ranges
          <5>3. CASE i \notin DOMAIN wire[c]
            <6>1. m \in Seq(Piece) /\ wire'[c] = wire[c] \o m
              BY <4>1, <4>3 DEF m
            <6>2. i - Len(wire[c]) \in DOMAIN m /\ wire'[c][i] = m[i - Len(wire[c])]
              BY <4>3, <5>3, <6>1
            <6> QED  BY <4>1, <5>1, <6>2
          <5> QED  BY <5>2, <5>3
        <4>5. sent[c] + 1 <= Len(Bodies[c])
          BY <4>1, MessagePieces
        <4>6. \A i \in DOMAIN buf'[c] : buf'[c][i].request \in 1..sent'[c]
          <5>1. \A i \in DOMAIN buf[c] : buf[c][i].request \in 1..sent[c]
            BY <2>0 DEF Ranges
          <5> QED  BY <4>1, <4>2, <5>1
        <4>7. \A k \in DOMAIN answers'[c] : answers'[c][k].request \in 0..sent'[c]
          <5>1. \A k \in DOMAIN answers[c] : answers[c][k].request \in 0..sent[c]
            BY <2>0 DEF Ranges
          <5> QED  BY <4>1, <4>2, <5>1
        <4>8. sent'[c] <= Len(Bodies[c])
          BY <4>1, <4>5
        <4> QED  BY <4>4, <4>6, <4>7, <4>8 DEF Ranges
      <3>6. CASE ReadEnd(c) \/ Handle(c) \/ HangUp(c) \/ TunnelEnds(c)
        <4>1. UNCHANGED <<sent, wire, buf, answers>>
          BY <3>6 DEF ReadEnd, Handle, HangUp, TunnelEnds, client
        <4> QED  BY <2>0, <4>1 DEF Ranges
      <3> QED
        BY <1>1, <3>1, <3>2, <3>3, <3>4, <3>5, <3>6
           DEF ConnStep, ServerStep, TooManyRequests, ReadTimeout
    <2>3. Loaded(c)'
      BY <1>1, <2>0, StepLoaded
    <2> QED  BY <2>0, <2>1, <2>2, <2>3 DEF Typed
  <1>2. CASE UNCHANGED Connections
    <2>1. Shapes'
      BY <1>2 DEF Connections, client, Typed, Shapes
    <2>2. \A c \in Conns : Ranges(c)' /\ Loaded(c)'
      BY <1>2 DEF Connections, client, Typed, Ranges, Loaded
    <2> QED  BY <2>1, <2>2 DEF Typed
  <1> QED  BY <1>1, <1>2, StepOfOne

-----------------------------------------------------------------------------
(***************************************************************************)
(* A connection that said "close", and the order of the answers.           *)
(***************************************************************************)

(* A connection that was told "close" is closed.                           *)
ToldIsTrue == \A c \in Conns : told[c] = "close" => pc[c] = "closed"

(* A response that says "close" closes, and nothing reads afterwards.      *)
LEMMA NextToldIsTrue ==
  ASSUME Typed, ToldIsTrue, [Next]_vars
  PROVE  /\ ToldIsTrue'
         /\ \A c \in Conns : told[c] = "close" => requests'[c] = requests[c]
  <1>1. ASSUME NEW c \in Conns, ConnStep(c)
        PROVE  /\ told'[c] = "close" => pc'[c] = "closed"
               /\ told[c] = "close" => requests'[c] = requests[c]
    <2>0. Shapes /\ (told[c] = "close" => pc[c] = "closed")
      BY DEF Typed, ToldIsTrue
    <2>1. CASE Refuse(c)
      BY <2>0, <2>1 DEF Refuse, Goto, Shapes
    <2>2. CASE ReadEnd(c)
      BY <2>0, <2>2 DEF ReadEnd, Goto, Shapes
    <2>3. CASE Read(c)
      BY <2>0, <2>3 DEF Read, Goto, Shapes
    <2>4. CASE Handle(c)
      BY <2>0, <2>4 DEF Handle, Goto, Shapes
    <2>5. CASE Write(c)
      <3>1. result[c] \in Results \cup {BadRequest}
        BY <2>0 DEF Shapes
      <3>2. result[c].keep_alive => result[c].header = "keep-alive"
        BY <3>1, ResultKinds
      <3>3. /\ told'[c] = result[c].header
            /\ pc'[c] = IF result[c].header = "tunnel" THEN "tunnel"
                        ELSE IF result[c].keep_alive THEN "loop" ELSE "closed"
        BY <2>0, <2>5 DEF Write, Shapes
      <3>4. requests'[c] = requests[c]
        BY <2>5 DEF Write
      <3> QED  BY <3>2, <3>3, <3>4
    <2>6. CASE WriteFails(c)
      BY <2>0, <2>6 DEF WriteFails, Goto, Shapes
    <2>7. CASE Send(c) \/ HangUp(c)
      BY <2>0, <2>7 DEF Send, HangUp
    <2>8. CASE TunnelEnds(c)
      BY <2>0, <2>8 DEF TunnelEnds, Goto, Shapes
    <2> QED
      BY <1>1, <2>1, <2>2, <2>3, <2>4, <2>5, <2>6, <2>7, <2>8
         DEF ConnStep, ServerStep, TooManyRequests, ReadTimeout
  <1>2. ASSUME NEW c \in Conns, ConnStep(c)
        PROVE  /\ ToldIsTrue'
               /\ \A d \in Conns : told[d] = "close" => requests'[d] = requests[d]
    <2>1. \A d \in Conns \ {c} : Same(d)
      BY <1>2, Elsewhere DEF Typed
    <2>2. \A d \in Conns : /\ told'[d] = "close" => pc'[d] = "closed"
                           /\ told[d] = "close" => requests'[d] = requests[d]
      <3> TAKE d \in Conns
      <3>1. CASE d = c
        BY <1>1, <1>2, <3>1
      <3>2. CASE d # c
        BY <2>1, <3>2 DEF Same, ToldIsTrue
      <3> QED  BY <3>1, <3>2
    <2> QED  BY <2>2 DEF ToldIsTrue
  <1>3. CASE UNCHANGED Connections
    BY <1>3 DEF Connections, ToldIsTrue
  <1> QED  BY <1>2, <1>3, StepOfOne

(* HTTP/1.1 persistence: a response that says "Connection: close" is the   *)
(* last one of its connection, whichever exit of the handler it comes from *)
(* and whatever the client sends after it.                                 *)
THEOREM CloseIsKeptHolds == Spec => CloseIsKept
  <1>1. Init => Typed /\ ToldIsTrue
    <2>1. Init => ToldIsTrue
      BY DEF Init, ToldIsTrue
    <2> QED  BY <2>1, InitTyped
  <1>2. Typed /\ ToldIsTrue /\ [Next]_vars => (Typed /\ ToldIsTrue)'
    BY NextTyped, NextToldIsTrue
  <1>3. Typed /\ ToldIsTrue /\ [Next]_vars =>
          [\A c \in Conns : told[c] = "close" => requests'[c] = requests[c]]_vars
    BY NextToldIsTrue
  <1> QED  BY <1>1, <1>2, <1>3, PTL DEF Spec, CloseIsKept

-----------------------------------------------------------------------------
(* A piece that comes after one of request n: of the same or of a later    *)
(* request, and a request line of a later one.                             *)
Follows(piece, n) ==
  n <= piece.request /\ (piece.part = "line" => n < piece.request)

Rising(s) == \A i, j \in DOMAIN s : i < j => Follows(s[j], s[i].request)

(* Everything that is still to come is behind what was answered.           *)
Behind(c) ==
  /\ Rising(wire[c])
  /\ Rising(buf[c])
  /\ \A j \in DOMAIN wire[c] :
       /\ \A i \in DOMAIN buf[c] : Follows(wire[c][j], buf[c][i].request)
       /\ \A k \in DOMAIN answers[c] : Follows(wire[c][j], answers[c][k].request)
  /\ \A j \in DOMAIN buf[c], k \in DOMAIN answers[c] :
       Follows(buf[c][j], answers[c][k].request)

(* What is handled starts with a request line or in the middle of a        *)
(* request; the result of a buffer that holds no request ends the          *)
(* connection.                                                             *)
Decided(c) ==
  pc[c] = "write" =>
    \/ result[c].handled /\ (Parses(c) \/ buf[c][1].part # "line")
    \/ /\ ~result[c].handled
       /\ ~result[c].keep_alive /\ result[c].header = "close"

AnsweredInOrder(c) ==
  \A k \in DOMAIN answers[c] :
    /\ answers[c][k].request = 0 =>
         answers[c][k] = NoAnswer /\ k = Len(answers[c]) /\ pc[c] = "closed"
    /\ answers[c][k].request > 0 =>
         /\ \A j \in 1..k - 1 : answers[c][j].request <= answers[c][k].request
         /\ ~answers[c][k].own => ~exact[c]
         /\ answers[c][k].own =>
              /\ answers[c][k].body <= Bodies[c][answers[c][k].request]
              /\ \A j \in 1..k - 1 : answers[c][j].request < answers[c][k].request

InOrder(c) == Behind(c) /\ Decided(c) /\ AnsweredInOrder(c)

(* A prefix and a suffix of a rising sequence rise.                        *)
LEMMA RisingCut ==
  ASSUME NEW w \in Seq(Piece), Rising(w), NEW n \in 1..Len(w)
  PROVE  /\ Rising(SubSeq(w, 1, n)) /\ Rising(SubSeq(w, n + 1, Len(w)))
         /\ \A i \in DOMAIN SubSeq(w, 1, n), j \in DOMAIN SubSeq(w, n + 1, Len(w)) :
              Follows(SubSeq(w, n + 1, Len(w))[j], SubSeq(w, 1, n)[i].request)
  <1> DEFINE u == SubSeq(w, 1, n)
             v == SubSeq(w, n + 1, Len(w))
  <1>1. /\ Len(w) \in Nat /\ n \in Nat
        /\ DOMAIN u = 1..n /\ DOMAIN v = 1..Len(w) - n /\ DOMAIN w = 1..Len(w)
    BY ReadCuts
  <1>2. /\ \A i \in 1..n : u[i] = w[i] /\ i \in DOMAIN w
        /\ \A i \in 1..Len(w) - n : v[i] = w[n + i] /\ n + i \in DOMAIN w
    BY <1>1, ReadCuts
  <1> HIDE DEF u, v
  <1>3. \A i, j \in DOMAIN w : i < j => Follows(w[j], w[i].request)
    BY DEF Rising
  <1>4. Rising(u)
    BY <1>1, <1>2, <1>3 DEF Rising
  <1>5. Rising(v)
    <2> SUFFICES ASSUME NEW i \in DOMAIN v, NEW j \in DOMAIN v, i < j
                 PROVE  Follows(v[j], v[i].request)
      BY DEF Rising
    <2>1. /\ v[i] = w[n + i] /\ n + i \in DOMAIN w
          /\ v[j] = w[n + j] /\ n + j \in DOMAIN w
      BY <1>1, <1>2
    <2>2. n + i < n + j
      BY <1>1
    <2> QED  BY <1>3, <2>1, <2>2
  <1>6. \A i \in DOMAIN u, j \in DOMAIN v : Follows(v[j], u[i].request)
    <2> SUFFICES ASSUME NEW i \in DOMAIN u, NEW j \in DOMAIN v
                 PROVE  Follows(v[j], u[i].request)
      OBVIOUS
    <2>1. /\ u[i] = w[i] /\ i \in DOMAIN w
          /\ v[j] = w[n + j] /\ n + j \in DOMAIN w
      BY <1>1, <1>2
    <2>2. i < n + j
      BY <1>1
    <2> QED  BY <1>3, <2>1, <2>2
  <1> QED  BY <1>4, <1>5, <1>6 DEF u, v

(* What a client sends next is behind all it has sent.                     *)
LEMMA SendBehind ==
  ASSUME Typed, NEW c \in Conns, InOrder(c), Send(c)
  PROVE  Behind(c)'
  <1> DEFINE n == sent[c] + 1
             m == Message(c, n)
             w == wire[c]
  <1>1. /\ n \in DOMAIN Bodies[c] /\ sent[c] \in Nat /\ wire'[c] = w \o m
    BY SendShapes
  <1>2. /\ m \in Seq(Piece) /\ w \in Seq(Piece)
        /\ \A j \in DOMAIN m : m[j].request = n /\ (m[j].part = "line" <=> j = 1)
    BY <1>1, MessagePieces DEF Typed, Shapes
  <1>3. UNCHANGED <<buf, answers>> /\ Behind(c) /\ Ranges(c)
    BY DEF Send, InOrder, Typed
  <1>4. /\ \A i \in DOMAIN w : w[i].request \in 1..sent[c]
        /\ \A i \in DOMAIN buf[c] : buf[c][i].request \in 1..sent[c]
        /\ \A k \in DOMAIN answers[c] : answers[c][k].request \in 0..sent[c]
    BY <1>3 DEF Ranges
  <1> HIDE DEF m, w
  <1>5. \A j \in DOMAIN wire'[c] :
          \/ j \in DOMAIN w /\ wire'[c][j] = w[j]
          \/ j - Len(w) \in DOMAIN m /\ wire'[c][j] = m[j - Len(w)]
    BY <1>1, <1>2
  <1>6. Rising(wire'[c])
    <2> SUFFICES ASSUME NEW i \in DOMAIN wire'[c], NEW j \in DOMAIN wire'[c],
                        i < j
                 PROVE  Follows(wire'[c][j], wire'[c][i].request)
      BY DEF Rising
    <2>0. i \in Nat /\ i >= 1 /\ j \in Nat /\ Len(w) \in Nat /\ DOMAIN w = 1..Len(w)
          /\ DOMAIN m = 1..Len(m) /\ Len(m) \in Nat
      <3>1. wire'[c] \in Seq(Piece)
        BY <1>1, <1>2
      <3> QED  BY <1>2, <3>1
    <2>1. CASE j \in DOMAIN w /\ wire'[c][j] = w[j]
      <3>1. i \in DOMAIN w
        BY <2>0, <2>1
      <3>2. wire'[c][i] = w[i]
        BY <1>1, <1>2, <3>1
      <3> QED  BY <1>3, <2>1, <3>1, <3>2 DEF Behind, Rising, w
    <2>2. CASE j - Len(w) \in DOMAIN m /\ wire'[c][j] = m[j - Len(w)]
      <3>1. wire'[c][j].request = n /\ (wire'[c][j].part = "line" => j - Len(w) = 1)
        BY <1>2, <2>2
      <3>2. CASE i \in DOMAIN w
        <4>1. wire'[c][i] = w[i]
          BY <1>1, <1>2, <3>2
        <4>2. w[i].request \in 1..sent[c]
          BY <1>4, <3>2
        <4> QED  BY <1>1, <3>1, <4>1, <4>2 DEF Follows
      <3>3. CASE i \notin DOMAIN w
        <4>1. i - Len(w) \in DOMAIN m /\ wire'[c][i] = m[i - Len(w)]
          BY <1>5, <3>3
        <4>2. wire'[c][i].request = n
          BY <1>2, <4>1
        <4>3. j - Len(w) # 1
          BY <2>0, <4>1
        <4>4. n <= n
          BY <1>1
        <4> QED  BY <3>1, <4>2, <4>3, <4>4 DEF Follows
      <3> QED  BY <3>2, <3>3
    <2> QED  BY <1>5, <2>1, <2>2
  <1>7. ASSUME NEW j \in DOMAIN wire'[c]
        PROVE  /\ \A i \in DOMAIN buf[c] : Follows(wire'[c][j], buf[c][i].request)
               /\ \A k \in DOMAIN answers[c] : Follows(wire'[c][j], answers[c][k].request)
    <2>1. CASE j \in DOMAIN w /\ wire'[c][j] = w[j]
      BY <1>3, <1>7, <2>1 DEF Behind, w
    <2>2. CASE j - Len(w) \in DOMAIN m /\ wire'[c][j] = m[j - Len(w)]
      <3>1. wire'[c][j].request = n
        BY <1>2, <2>2
      <3>2. \A i \in DOMAIN buf[c] : buf[c][i].request <= n /\ buf[c][i].request < n
        BY <1>1, <1>4
      <3>3. \A k \in DOMAIN answers[c] :
              answers[c][k].request <= n /\ answers[c][k].request < n
        BY <1>1, <1>4
      <3> QED  BY <3>1, <3>2, <3>3 DEF Follows
    <2> QED  BY <1>5, <2>1, <2>2
  <1> QED  BY <1>3, <1>6, <1>7 DEF Behind

(* A read cuts the stream in two.                                          *)
LEMMA ReadBehind ==
  ASSUME Typed, NEW c \in Conns, InOrder(c), Read(c)
  PROVE  Behind(c)'
  <1> DEFINE w == wire[c]
  <1>1. PICK n \in 1..Len(w) : /\ buf'[c] = SubSeq(w, 1, n)
                               /\ wire'[c] = SubSeq(w, n + 1, Len(w))
    BY ReadShapes
  <1>2. w \in Seq(Piece) /\ Behind(c) /\ answers' = answers
    BY DEF Typed, Shapes, InOrder, Read
  <1>3. \A j \in DOMAIN w, k \in DOMAIN answers[c] : Follows(w[j], answers[c][k].request)
    BY <1>2 DEF Behind
  <1>4. Rising(w)
    BY <1>2 DEF Behind
  <1> HIDE DEF w
  <1>5. /\ Rising(buf'[c]) /\ Rising(wire'[c])
        /\ \A i \in DOMAIN buf'[c], j \in DOMAIN wire'[c] :
             Follows(wire'[c][j], buf'[c][i].request)
    BY <1>1, <1>2, <1>4, RisingCut
  <1>6. ASSUME NEW j \in DOMAIN wire'[c]
        PROVE  \A k \in DOMAIN answers[c] : Follows(wire'[c][j], answers[c][k].request)
    <2>1. j \in 1..Len(w) - n
      BY <1>1, <1>2, ReadCuts
    <2>2. wire'[c][j] = w[n + j] /\ n + j \in DOMAIN w
      BY <1>1, <1>2, <2>1, ReadCuts
    <2> QED  BY <1>3, <1>6, <2>2
  <1>7. ASSUME NEW j \in DOMAIN buf'[c]
        PROVE  \A k \in DOMAIN answers[c] : Follows(buf'[c][j], answers[c][k].request)
    <2>1. j \in 1..n /\ j \in DOMAIN w
      BY <1>1, <1>2, ReadCuts
    <2>2. buf'[c][j] = w[j]
      BY <1>1, <1>2, <2>1, ReadCuts
    <2> QED  BY <1>3, <1>7, <2>1, <2>2
  <1> QED  BY <1>2, <1>5, <1>6, <1>7 DEF Behind

(* One more answer, to a request behind all that were answered or to none  *)
(* and the last, leaves the answers in order.                              *)
LEMMA AppendInOrder ==
  ASSUME Typed, NEW c \in Conns, InOrder(c), pc[c] # "closed", NEW x \in AnswerType,
         answers'[c] = Append(answers[c], x), exact'[c] = exact[c],
         \/ x = NoAnswer /\ pc'[c] = "closed"
         \/ /\ x.request > 0
            /\ \A k \in DOMAIN answers[c] : answers[c][k].request <= x.request
            /\ ~x.own => ~exact[c]
            /\ x.own => /\ x.body <= Bodies[c][x.request]
                        /\ \A k \in DOMAIN answers[c] : answers[c][k].request < x.request
  PROVE  AnsweredInOrder(c)'
  <1> DEFINE a == answers[c]
  <1>1. /\ answers'[c] = Append(a, x) /\ a \in Seq(AnswerType) /\ Len(a) \in Nat
        /\ exact'[c] = exact[c] /\ pc[c] # "closed"
    BY DEF Typed, Shapes
  <1>2. /\ \A k \in DOMAIN a : a[k].request \in Nat /\ a[k].request # 0
        /\ \A k \in DOMAIN a :
             /\ \A j \in 1..k - 1 : a[j].request <= a[k].request
             /\ ~a[k].own => ~exact[c]
             /\ a[k].own => /\ a[k].body <= Bodies[c][a[k].request]
                            /\ \A j \in 1..k - 1 : a[j].request < a[k].request
    <2>1. \A k \in DOMAIN a : a[k].request \in Nat
      <3> HIDE DEF a
      <3>1. \A k \in DOMAIN a : a[k] \in AnswerType
        BY <1>1
      <3> QED  BY <3>1 DEF AnswerType
    <2>2. \A k \in DOMAIN a : a[k].request # 0
      BY <1>1 DEF InOrder, AnsweredInOrder
    <2>3. \A k \in DOMAIN a : a[k].request > 0
      BY <2>1, <2>2
    <2> QED  BY <2>1, <2>2, <2>3 DEF InOrder, AnsweredInOrder
  <1>3. \/ x = NoAnswer /\ pc'[c] = "closed"
        \/ /\ x.request > 0
           /\ \A k \in DOMAIN a : a[k].request <= x.request
           /\ ~x.own => ~exact[c]
           /\ x.own => /\ x.body <= Bodies[c][x.request]
                       /\ \A k \in DOMAIN a : a[k].request < x.request
    OBVIOUS
  <1> HIDE DEF a
  <1>4. \A k \in DOMAIN answers'[c] :
          \/ k \in DOMAIN a /\ answers'[c][k] = a[k]
          \/ k = Len(a) + 1 /\ answers'[c][k] = x
    BY <1>1
  <1>5. \A k \in DOMAIN answers'[c] : \A j \in 1..k - 1 :
          j \in DOMAIN a /\ answers'[c][j] = a[j]
    BY <1>1
  <1>6. Len(answers'[c]) = Len(a) + 1
    BY <1>1
  <1>7. NoAnswer.request = 0
    BY DEF NoAnswer
  <1> SUFFICES ASSUME NEW k \in DOMAIN answers'[c]
               PROVE  /\ answers'[c][k].request = 0 =>
                           /\ answers'[c][k] = NoAnswer
                           /\ k = Len(answers'[c]) /\ pc'[c] = "closed"
                      /\ answers'[c][k].request > 0 =>
                           /\ \A j \in 1..k - 1 :
                                answers'[c][j].request <= answers'[c][k].request
                           /\ ~answers'[c][k].own => ~exact'[c]
                           /\ answers'[c][k].own =>
                                /\ answers'[c][k].body
                                     <= Bodies[c][answers'[c][k].request]
                                /\ \A j \in 1..k - 1 :
                                     answers'[c][j].request < answers'[c][k].request
    BY DEF AnsweredInOrder
  <1>8. CASE k \in DOMAIN a /\ answers'[c][k] = a[k]
    <2>1. \A j \in 1..k - 1 : answers'[c][j] = a[j]
      BY <1>5
    <2> QED  BY <1>1, <1>2, <1>8, <2>1
  <1>9. CASE k = Len(a) + 1 /\ answers'[c][k] = x
    <2>1. \A j \in 1..k - 1 : j \in DOMAIN a /\ answers'[c][j] = a[j]
      BY <1>5
    <2>2. CASE x = NoAnswer /\ pc'[c] = "closed"
      <3>1. ~(x.request > 0)
        BY <1>7, <2>2
      <3> QED  BY <1>6, <1>9, <2>2, <3>1
    <2>3. CASE /\ x.request > 0
               /\ \A i \in DOMAIN a : a[i].request <= x.request
               /\ ~x.own => ~exact[c]
               /\ x.own => /\ x.body <= Bodies[c][x.request]
                           /\ \A i \in DOMAIN a : a[i].request < x.request
      <3>1. x.request # 0
        BY <2>3
      <3> QED  BY <1>1, <1>9, <2>1, <2>3, <3>1
    <2> QED  BY <1>3, <2>2, <2>3
  <1> QED  BY <1>4, <1>8, <1>9

(* What is still to come is behind the new answer as well.                 *)
LEMMA AppendBehind ==
  ASSUME Typed, NEW c \in Conns, InOrder(c), NEW x \in AnswerType,
         answers'[c] = Append(answers[c], x), wire'[c] = wire[c],
         buf'[c] \in {buf[c], <<>>},
         \A j \in DOMAIN wire[c] : Follows(wire[c][j], x.request),
         buf'[c] = buf[c] => \A j \in DOMAIN buf[c] : Follows(buf[c][j], x.request)
  PROVE  Behind(c)'
  <1>1. answers[c] \in Seq(AnswerType) /\ Behind(c)
    BY DEF Typed, Shapes, InOrder
  <1>2. \A k \in DOMAIN answers'[c] :
          \/ k \in DOMAIN answers[c] /\ answers'[c][k] = answers[c][k]
          \/ answers'[c][k] = x
    BY <1>1
  <1>3. \A j \in DOMAIN wire[c], k \in DOMAIN answers'[c] :
          Follows(wire[c][j], answers'[c][k].request)
    BY <1>1, <1>2 DEF Behind
  <1>4. CASE buf'[c] = buf[c]
    <2>1. \A j \in DOMAIN buf[c], k \in DOMAIN answers'[c] :
            Follows(buf[c][j], answers'[c][k].request)
      BY <1>1, <1>2, <1>4 DEF Behind
    <2> QED  BY <1>1, <1>3, <1>4, <2>1 DEF Behind
  <1>5. CASE buf'[c] = <<>>
    <2>1. Rising(<<>>)
      BY DEF Rising
    <2> QED  BY <1>1, <1>3, <1>5, <2>1 DEF Behind
  <1> QED  BY <1>4, <1>5

(* A last answer to no request ends a connection in order.                 *)
LEMMA EndsInOrder ==
  ASSUME Typed, NEW c \in Conns, InOrder(c), pc[c] # "closed", pc'[c] = "closed",
         answers'[c] = Append(answers[c], NoAnswer), exact'[c] = exact[c],
         wire'[c] = wire[c], buf'[c] \in {buf[c], <<>>}
  PROVE  InOrder(c)'
  <1>1. NoAnswer \in AnswerType /\ NoAnswer.request = 0
    BY DEF NoAnswer, AnswerType
  <1>2. /\ \A j \in DOMAIN wire[c] : wire[c][j].request \in 1..sent[c]
        /\ \A j \in DOMAIN buf[c] : buf[c][j].request \in 1..sent[c]
    BY DEF Typed, Ranges
  <1>3. /\ \A j \in DOMAIN wire[c] : Follows(wire[c][j], 0)
        /\ \A j \in DOMAIN buf[c] : Follows(buf[c][j], 0)
    <2>1. \A n \in 1..sent[c] : 0 <= n /\ 0 < n
      OBVIOUS
    <2> QED  BY <1>2, <2>1 DEF Follows
  <1>4. Behind(c)'
    BY <1>1, <1>3, AppendBehind
  <1>5. AnsweredInOrder(c)'
    BY <1>1, AppendInOrder
  <1>6. Decided(c)'
    BY DEF Decided
  <1> QED  BY <1>4, <1>5, <1>6 DEF InOrder

(* The response: to what is in the buffer, or to no request and the last.  *)
LEMMA WriteInOrder ==
  ASSUME Typed, NEW c \in Conns, InOrder(c), Write(c)
  PROVE  InOrder(c)'
  <1> DEFINE x == Answer(c)
  <1>1. x \in AnswerType /\ answers'[c] = Append(answers[c], x)
    BY WriteShapes
  <1>2. /\ pc[c] = "write" /\ buf'[c] = <<>> /\ wire' = wire /\ exact' = exact
        /\ pc'[c] = IF result[c].header = "tunnel" THEN "tunnel"
                    ELSE IF result[c].keep_alive THEN "loop" ELSE "closed"
    BY DEF Write, Typed, Shapes
  <1>3. /\ Behind(c) /\ Decided(c) /\ Ranges(c) /\ Loaded(c) /\ sent[c] \in Nat
        /\ buf \in [Conns -> Seq(Piece)]
    BY DEF InOrder, Typed, Shapes
  <1>4. CASE result[c].handled
    <2>1. /\ exact[c] => buf[c][1].part = "line"
          /\ Request(c) = buf[c][1].request /\ Request(c) \in 1..sent[c]
      BY <1>2, <1>3, LoadedRequest DEF Loaded
    <2>2. /\ x.request = Request(c) /\ x.own = Parses(c)
          /\ x.body = IF Parses(c) THEN Body(c) ELSE 0
      BY <1>4 DEF Answer
    <2>3. 1 \in DOMAIN buf[c] /\ x.request = buf[c][1].request /\ x.request > 0
      BY <1>2, <1>3, <2>1, <2>2 DEF Loaded
    <2> HIDE DEF x
    <2>4. \A k \in DOMAIN answers[c] : Follows(buf[c][1], answers[c][k].request)
      BY <1>3, <2>3 DEF Behind
    <2>5. \A j \in DOMAIN wire[c] : Follows(wire[c][j], x.request)
      BY <1>3, <2>3 DEF Behind
    <2>6. CASE Parses(c)
      <3>1. buf[c][1].part = "line"
        BY <2>6 DEF Parses
      <3>2. \A k \in DOMAIN answers[c] :
              /\ answers[c][k].request <= x.request
              /\ answers[c][k].request < x.request
        BY <2>3, <2>4, <3>1 DEF Follows
      <3>3. x.body <= Bodies[c][x.request] /\ x.own
        BY <1>3, <2>2, <2>6, BodyIsPart
      <3>4. AnsweredInOrder(c)'
        BY <1>1, <1>2, <2>3, <3>2, <3>3, AppendInOrder
      <3> QED  BY <1>1, <1>2, <2>5, <3>4, AppendBehind DEF InOrder, Decided
    <2>7. CASE ~Parses(c)
      <3>1. buf[c][1].part # "line" /\ ~exact[c]
        BY <1>2, <1>3, <1>4, <2>1, <2>7 DEF Decided
      <3>2. \A k \in DOMAIN answers[c] : answers[c][k].request <= x.request
        BY <2>3, <2>4 DEF Follows
      <3>3. AnsweredInOrder(c)'
        BY <1>1, <1>2, <2>2, <2>3, <2>7, <3>1, <3>2, AppendInOrder
      <3> QED  BY <1>1, <1>2, <2>5, <3>3, AppendBehind DEF InOrder, Decided
    <2> QED  BY <2>6, <2>7
  <1>5. CASE ~result[c].handled
    <2>1. x = NoAnswer /\ pc'[c] = "closed"
      BY <1>2, <1>3, <1>5 DEF Answer, Decided
    <2> QED  BY <1>1, <1>2, <2>1, EndsInOrder
  <1> QED  BY <1>4, <1>5

(* The results of the handler: no request, no connection.                  *)
LEMMA HandleDecides ==
  ASSUME Typed, NEW c \in Conns, Handle(c)
  PROVE  Decided(c)'
  <1>1. PICK r \in Outcomes(c) : result' = [result EXCEPT ![c] = r]
    BY DEF Handle
  <1>2. result'[c] = r /\ buf' = buf
    BY <1>1 DEF Typed, Shapes, Handle
  <1>3. Parses(c) <=> Parses(c)'
    BY <1>2 DEF Parses
  <1>4. CASE r \in Results
    <2>1. r.handled
      BY <1>4, ResultKinds
    <2>2. Parses(c) \/ MayParse(c) \/ r = BadRequest
      BY <1>1 DEF Outcomes
    <2>3. r # BadRequest
      BY <2>1, BadRequestCloses
    <2> QED  BY <1>2, <1>3, <2>1, <2>2, <2>3 DEF Decided, MayParse
  <1>5. CASE r = BadRequest
    BY <1>2, <1>5, BadRequestCloses DEF Decided
  <1> QED  BY <1>1, <1>4, <1>5 DEF Outcomes

(* No step disturbs the order.                                             *)
LEMMA NextInOrder ==
  ASSUME Typed, \A c \in Conns : InOrder(c), [Next]_vars
  PROVE  (\A c \in Conns : InOrder(c))'
  <1>1. ASSUME NEW c \in Conns, ConnStep(c)
        PROVE  (\A d \in Conns : InOrder(d))'
    <2>0. /\ Shapes /\ InOrder(c) /\ \A d \in Conns \ {c} : Same(d)
      BY <1>1, Elsewhere DEF Typed
    <2>1. ASSUME NEW d \in Conns \ {c} PROVE InOrder(d)'
      <3>1. Same(d) /\ InOrder(d)
        BY <2>0
      <3>2. Parses(d)' <=> Parses(d)
        BY <3>1 DEF Same, Parses
      <3>3. Behind(d)'
        BY <3>1 DEF Same, InOrder, Behind
      <3>4. AnsweredInOrder(d)' /\ Decided(d)'
        BY <3>1, <3>2 DEF Same, InOrder, AnsweredInOrder, Decided
      <3> QED  BY <3>3, <3>4 DEF InOrder
    <2>2. InOrder(c)'
      <3>1. CASE Refuse(c)
        <4>1. /\ pc[c] = "loop" /\ pc'[c] = "closed"
              /\ answers'[c] = Append(answers[c], NoAnswer)
              /\ UNCHANGED <<wire, buf, exact>>
          BY <2>0, <3>1 DEF Refuse, Goto, client, Shapes
        <4> QED  BY <2>0, <4>1, EndsInOrder
      <3>2. CASE ReadEnd(c) \/ HangUp(c) \/ TunnelEnds(c)
        <4>1. UNCHANGED <<wire, buf, answers, result, exact>>
          BY <3>2 DEF ReadEnd, HangUp, TunnelEnds, client
        <4>2. /\ pc[c] = "closed" => pc'[c] = "closed"
              /\ pc'[c] = "write" => pc[c] = "write"
          BY <2>0, <3>2 DEF ReadEnd, HangUp, TunnelEnds, Goto, Shapes
        <4>3. Behind(c)'
          BY <2>0, <4>1 DEF InOrder, Behind
        <4>4. Decided(c)'
          BY <2>0, <4>1, <4>2 DEF InOrder, Decided, Parses
        <4>5. AnsweredInOrder(c)'
          BY <2>0, <4>1, <4>2 DEF InOrder, AnsweredInOrder
        <4> QED  BY <4>3, <4>4, <4>5 DEF InOrder
      <3>3. CASE Read(c)
        <4>1. /\ pc[c] = "loop" /\ pc'[c] = "handle" /\ answers' = answers
              /\ ~exact[c] => ~exact'[c]
          BY <2>0, <3>3 DEF Read, Goto, Shapes
        <4>2. AnsweredInOrder(c)'
          BY <2>0, <4>1 DEF InOrder, AnsweredInOrder
        <4>3. Decided(c)'
          BY <4>1 DEF Decided
        <4> QED  BY <2>0, <3>3, <4>2, <4>3, ReadBehind DEF InOrder
      <3>4. CASE Handle(c)
        <4>1. /\ pc[c] = "handle" /\ UNCHANGED <<answers, wire, buf, exact>>
          BY <2>0, <3>4 DEF Handle, Goto, Shapes
        <4>2. AnsweredInOrder(c)'
          BY <2>0, <4>1 DEF InOrder, AnsweredInOrder
        <4>3. Behind(c)'
          BY <2>0, <4>1 DEF InOrder, Behind
        <4> QED  BY <3>4, <4>2, <4>3, HandleDecides DEF InOrder
      <3>5. CASE Write(c)
        BY <2>0, <3>5, WriteInOrder
      <3>6. CASE WriteFails(c)
        <4>1. /\ UNCHANGED <<wire, answers, exact>> /\ buf'[c] = <<>>
              /\ pc[c] = "write" /\ pc'[c] = "closed"
          BY <2>0, <3>6 DEF WriteFails, Goto, client, Shapes
        <4>2. Rising(<<>>)
          BY DEF Rising
        <4>3. Behind(c)'
          BY <2>0, <4>1, <4>2 DEF InOrder, Behind
        <4>4. AnsweredInOrder(c)' /\ Decided(c)'
          BY <2>0, <4>1 DEF InOrder, AnsweredInOrder, Decided
        <4> QED  BY <4>3, <4>4 DEF InOrder
      <3>7. CASE Send(c)
        <4>1. UNCHANGED <<pc, buf, answers, result, exact>>
          BY <3>7 DEF Send
        <4>2. Decided(c)' /\ AnsweredInOrder(c)'
          BY <2>0, <4>1 DEF InOrder, Decided, AnsweredInOrder, Parses
        <4> QED  BY <2>0, <3>7, <4>2, SendBehind DEF InOrder
      <3> QED
        BY <1>1, <3>1, <3>2, <3>3, <3>4, <3>5, <3>6, <3>7
           DEF ConnStep, ServerStep, TooManyRequests, ReadTimeout
    <2> QED  BY <2>1, <2>2
  <1>2. CASE UNCHANGED Connections
    BY <1>2 DEF Connections, InOrder, Behind, Decided, AnsweredInOrder, Parses
  <1> QED  BY <1>1, <1>2, StepOfOne

(* However the stream is cut into reads - and a read may hold two requests *)
(* or half of one, or begin with the rest of a body - each request is      *)
(* handled at most once as what it is, in the order of the requests and    *)
(* with no body but its own; bytes from the middle of a request are        *)
(* answered as a request only if some read was not exactly one; and after  *)
(* a buffer that is no request (the handler's 400) there is nothing more.  *)
THEOREM AnswersInOrderHolds == Spec => []AnswersInOrder
  <1> DEFINE Inv == Typed /\ \A c \in Conns : InOrder(c)
  <1>1. Init => Inv
    <2> SUFFICES ASSUME Init, NEW c \in Conns PROVE InOrder(c)
      BY InitTyped
    <2>1. pc[c] = "loop" /\ wire[c] = <<>> /\ buf[c] = <<>> /\ answers[c] = <<>>
      BY DEF Init
    <2> QED  BY <2>1 DEF InOrder, Behind, Decided, AnsweredInOrder, Rising
  <1>2. Inv /\ [Next]_vars => Inv'
    BY NextTyped, NextInOrder
  <1>3. Inv => AnswersInOrder
    <2> SUFFICES ASSUME Inv, NEW c \in Conns, NEW k \in DOMAIN answers[c]
                 PROVE  \/ answers[c][k] = NoAnswer /\ k = Len(answers[c])
                        \/ /\ answers[c][k].request > 0
                           /\ \A j \in 1..k - 1 :
                                answers[c][j].request <= answers[c][k].request
                           /\ ~answers[c][k].own => ~exact[c]
                           /\ answers[c][k].own =>
                                /\ answers[c][k].body
                                     <= Bodies[c][answers[c][k].request]
                                /\ \A j \in 1..k - 1 :
                                     answers[c][j].request < answers[c][k].request
      BY DEF AnswersInOrder
    <2>1. AnsweredInOrder(c) /\ answers[c] \in Seq(AnswerType)
      BY DEF InOrder, Typed, Shapes
    <2>2. answers[c][k].request \in Nat
      <3>1. answers[c][k] \in AnswerType
        BY <2>1
      <3> QED  BY <3>1 DEF AnswerType
    <2> QED  BY <2>1, <2>2 DEF AnsweredInOrder
  <1> QED  BY <1>1, <1>2, <1>3, PTL DEF Spec

-----------------------------------------------------------------------------
(***************************************************************************)
(* The counters that all connections share.                                *)
(***************************************************************************)

(* Counting one more at c adds one to the sum.                             *)
LEMMA SumIncrement ==
  ASSUME NEW S, IsFiniteSet(S), NEW f \in [S -> Nat], NEW c \in S
  PROVE  /\ SumFunction([f EXCEPT ![c] = @ + 1]) = SumFunction(f) + 1
         /\ SumFunction(f) \in Int
  <1> DEFINE g == [f EXCEPT ![c] = @ + 1]
  <1>1. /\ DOMAIN g = S /\ DOMAIN f = S
        /\ \A y \in S : f[y] \in Int /\ g[y] \in Int
        /\ \A y \in S \ {c} : g[y] = f[y]
        /\ g[c] = f[c] + 1
    OBVIOUS
  <1> HIDE DEF g
  <1>2. SumFunctionOnSet(g, S) = SumFunctionOnSet(f, S) + (g[c] - f[c])
    BY <1>1, SumChange
  <1>3. SumFunctionOnSet(f, S) \in Int
    BY <1>1, SumType
  <1>4. g[c] - f[c] = 1
    BY <1>1
  <1>5. SumFunction(g) = SumFunctionOnSet(g, S) /\ SumFunction(f) = SumFunctionOnSet(f, S)
    BY <1>1, SumOfAll
  <1>6. SumFunction(g) = SumFunction(f) + 1 /\ SumFunction(f) \in Int
    BY <1>2, <1>3, <1>4, <1>5
  <1> QED  BY <1>6 DEF g

(* A sum of zeros.                                                         *)
LEMMA SumStart ==
  ASSUME NEW S, IsFiniteSet(S)
  PROVE  SumFunction([x \in S |-> 0]) = 0
  <1> DEFINE f == [x \in S |-> 0]
  <1>1. DOMAIN f = S /\ \A x \in S : f[x] = 0
    OBVIOUS
  <1> HIDE DEF f
  <1>2. SumFunction(f) = SumFunctionOnSet(f, S)
    BY <1>1, SumOfAll
  <1>3. SumFunctionOnSet(f, S) = 0
    BY <1>1, SumZero
  <1>4. SumFunction(f) = 0
    BY <1>2, <1>3
  <1> QED  BY <1>4 DEF f

(* The buckets.                                                            *)
LEMMA BucketsFinite == IsFiniteSet(BucketSet) /\ BucketSet \subseteq Nat /\ 0 \in BucketSet
  <1>1. IsFiniteSet(0..Buckets - 1)
    BY Constants, FS_Interval
  <1> QED  BY <1>1, Constants DEF BucketSet

(* Every latency has its bucket.                                           *)
LEMMA BucketOfLatency == \A us : LatencyBucket(us) \in BucketSet
  <1> SUFFICES ASSUME NEW us PROVE LatencyBucket(us) \in BucketSet
    OBVIOUS
  <1> DEFINE low == {b \in 1..Buckets - 1 : 2^b <= us}
             all == 1..Buckets - 1
  <1>1. Buckets \in Nat /\ Buckets > 0 /\ Buckets - 1 \in Nat
    BY Constants
  <1>2. IsFiniteSet(all) /\ Cardinality(all) = Buckets - 1
    <2>1. IsFiniteSet(all)
      BY <1>1, FS_Interval
    <2>2. Cardinality(all) = IF 1 > Buckets - 1 THEN 0 ELSE Buckets - 1 - 1 + 1
      BY <1>1, FS_Interval
    <2> QED  BY <1>1, <2>1, <2>2
  <1>3. low \subseteq all
    OBVIOUS
  <1> HIDE DEF low, all
  <1>4. IsFiniteSet(low) /\ Cardinality(low) <= Cardinality(all)
    BY <1>2, <1>3, FS_Subset
  <1>5. Cardinality(low) \in Nat
    BY <1>4, FS_CardinalityType
  <1>6. Cardinality(low) \in 0..Buckets - 1
    BY <1>1, <1>2, <1>4, <1>5
  <1> QED  BY <1>6 DEF LatencyBucket, BucketSet, low

(* How many connections are at stage s.                                    *)
Count(p, s) == Cardinality({c \in Conns : p[c] = s})

(* From p to q, connection c moves.                                        *)
Moves(p, q, c, from, to) ==
  /\ p \in [Conns -> Stages] /\ c \in Conns /\ from # to
  /\ p[c] = from /\ q = [p EXCEPT ![c] = to]

(* One stage has one more, one has one less.                               *)
LEMMA OneMoves ==
  ASSUME NEW p, NEW q, NEW c, NEW from, NEW to, Moves(p, q, c, from, to)
  PROVE  /\ Count(q, to) = Count(p, to) + 1
         /\ Count(q, from) = Count(p, from) - 1
         /\ \A s : s # to /\ s # from => Count(q, s) = Count(p, s)
  <1> DEFINE P(s) == {d \in Conns : p[d] = s}
             Q(s) == {d \in Conns : q[d] = s}
  <1>1. \A s : IsFiniteSet(P(s)) /\ IsFiniteSet(Q(s))
    BY HttpConnectionAssumption, FS_Subset
  <1>2. /\ q[c] = to /\ p[c] = from /\ from # to /\ c \in Conns
        /\ \A d \in Conns \ {c} : q[d] = p[d]
    BY DEF Moves
  <1>3. Q(to) = P(to) \cup {c} /\ c \notin P(to)
    BY <1>2
  <1>4. Q(from) = P(from) \ {c} /\ c \in P(from)
    BY <1>2
  <1>5. \A s : s # to /\ s # from => Q(s) = P(s)
    BY <1>2
  <1>6. \A s : Count(p, s) = Cardinality(P(s)) /\ Count(q, s) = Cardinality(Q(s))
    BY DEF Count
  <1> HIDE DEF P, Q
  <1>7. Cardinality(Q(to)) = Cardinality(P(to)) + 1
    BY <1>1, <1>3, FS_AddElement
  <1>8. Cardinality(Q(from)) = Cardinality(P(from)) - 1
    BY <1>1, <1>4, FS_RemoveElement
  <1> QED  BY <1>5, <1>6, <1>7, <1>8

(* The connections at a stage can be counted.                              *)
LEMMA CountType == ASSUME NEW p, NEW s PROVE Count(p, s) \in Nat
  <1>1. IsFiniteSet({c \in Conns : p[c] = s})
    BY HttpConnectionAssumption, FS_Subset
  <1> QED  BY <1>1, FS_CardinalityType DEF Count

-----------------------------------------------------------------------------
(* The counters and their types.                                           *)
Counted ==
  /\ requests_total \in Nat
  /\ latency \in [BucketSet -> Nat]
  /\ active = Count(pc, "handle")
  /\ requests_total + Count(pc, "handle") = SumFunction(requests)
  /\ SumFunction(latency) + Count(pc, "write") = requests_total

(* At the start all counters are 0.                                        *)
LEMMA InitCounted == Init => Counted
  <1> SUFFICES ASSUME Init PROVE Counted
    OBVIOUS
  <1>1. \A s \in {"handle", "write"} : Count(pc, s) = 0
    <2>1. \A s \in {"handle", "write"} : {c \in Conns : pc[c] = s} = {}
      BY DEF Init
    <2> QED  BY <2>1, FS_EmptySet DEF Count
  <1>2. SumFunction(requests) = 0
    BY SumStart, HttpConnectionAssumption DEF Init
  <1>3. SumFunction(latency) = 0
    BY SumStart, BucketsFinite DEF Init, StatsInit, Empty
  <1>4. latency \in [BucketSet -> Nat] /\ requests_total = 0 /\ active = 0
    BY DEF Init, StatsInit, Empty
  <1> QED  BY <1>1, <1>2, <1>3, <1>4 DEF Counted

(* Each access of a request moves its connection to the next stage.        *)
LEMMA NextCounted ==
  ASSUME Typed, Counted, [Next]_vars
  PROVE  Counted'
  <1>0. /\ pc \in [Conns -> Stages] /\ requests \in [Conns -> 0..MaxKeepalive]
        /\ IsFiniteSet(Conns) /\ IsFiniteSet(BucketSet)
        /\ {"loop", "handle", "write", "tunnel", "closed"} \subseteq Stages
        /\ requests_total \in Nat /\ latency \in [BucketSet -> Nat]
    BY HttpConnectionAssumption, BucketsFinite DEF Typed, Shapes, Stages, Counted
  <1>1. ASSUME NEW c \in Conns, NEW from, NEW to, from # to,
               Goto(c, from, to)
        PROVE  /\ Count(pc', to) = Count(pc, to) + 1
               /\ Count(pc', from) = Count(pc, from) - 1
               /\ \A s : s # to /\ s # from => Count(pc', s) = Count(pc, s)
    <2>1. Moves(pc, pc', c, from, to)
      BY <1>0, <1>1 DEF Moves, Goto
    <2> QED  BY <2>1, OneMoves
  <1>2. \A s : Count(pc, s) \in Nat
    BY CountType
  <1>3. ASSUME NEW c \in Conns, ConnStep(c) PROVE Counted'
    <2>1. CASE Refuse(c) \/ ReadEnd(c)
      <3>1. Goto(c, "loop", "closed") /\ UNCHANGED <<stats, requests>>
        BY <2>1 DEF Refuse, ReadEnd
      <3>2. \A s \in {"handle", "write"} : Count(pc', s) = Count(pc, s)
        BY <1>0, <1>1, <3>1
      <3> QED  BY <3>1, <3>2 DEF Counted, stats
    <2>2. CASE Read(c)
      <3>1. /\ Goto(c, "loop", "handle")
            /\ requests' = [requests EXCEPT ![c] = @ + 1]
            /\ active' = active + 1 /\ UNCHANGED <<requests_total, latency>>
        BY <2>2 DEF Read, RequestBegins
      <3>2. Count(pc', "handle") = Count(pc, "handle") + 1
        BY <1>0, <1>1, <3>1
      <3>3. Count(pc', "write") = Count(pc, "write")
        BY <1>0, <1>1, <3>1
      <3>4. requests \in [Conns -> Nat]
        BY <1>0, Constants
      <3>5. SumFunction(requests') = SumFunction(requests) + 1
        BY <1>0, <3>1, <3>4, SumIncrement
      <3> QED  BY <1>2, <3>1, <3>2, <3>3, <3>5 DEF Counted
    <2>3. CASE Handle(c)
      <3>1. /\ Goto(c, "handle", "write")
            /\ UNCHANGED <<requests, latency>>
            /\ active' = active - 1 /\ requests_total' = requests_total + 1
        BY <2>3 DEF Handle, RequestEnds
      <3>2. Count(pc', "handle") = Count(pc, "handle") - 1
        BY <1>0, <1>1, <3>1
      <3>3. Count(pc', "write") = Count(pc, "write") + 1
        BY <1>0, <1>1, <3>1
      <3>4. SumFunction(latency) \in Int /\ SumFunction(requests) \in Int
        <4>1. requests \in [Conns -> Nat]
          BY <1>0, Constants
        <4>2. ASSUME NEW f, NEW S, IsFiniteSet(S), f \in [S -> Nat]
              PROVE  SumFunction(f) \in Int
          <5>1. DOMAIN f = S /\ \A x \in S : f[x] \in Int
            BY <4>2
          <5> QED  BY <4>2, <5>1, SumOfAll, SumType
        <4> QED  BY <1>0, <4>1, <4>2
      <3>5. requests_total' + Count(pc', "handle") = SumFunction(requests')
        BY <1>0, <1>2, <3>1, <3>2, <3>4 DEF Counted
      <3>6. SumFunction(latency') + Count(pc', "write") = requests_total'
        BY <1>0, <1>2, <3>1, <3>3, <3>4 DEF Counted
      <3> QED  BY <1>0, <1>2, <3>1, <3>2, <3>5, <3>6 DEF Counted
    <2>4. CASE Write(c) \/ WriteFails(c)
      <3>0. PICK us \in Latencies : CountLatency(us)
        BY <2>4 DEF Write, WriteFails
      <3> DEFINE bucket == LatencyBucket(us)
      <3>1. bucket \in BucketSet
        BY BucketOfLatency
      <3>2. /\ requests' = requests
            /\ \E to \in {"tunnel", "loop", "closed"} : Goto(c, "write", to)
        BY <2>4 DEF Write, WriteFails, Goto
      <3>3. /\ Count(pc', "write") = Count(pc, "write") - 1
            /\ Count(pc', "handle") = Count(pc, "handle")
        <4>1. PICK to \in {"tunnel", "loop", "closed"} : Goto(c, "write", to)
          BY <3>2
        <4> QED  BY <1>0, <1>1, <3>2, <4>1
      <3>4. latency' = [latency EXCEPT ![bucket] = @ + 1]
        BY <3>0 DEF CountLatency
      <3> HIDE DEF bucket
      <3>5. SumFunction(latency') = SumFunction(latency) + 1 /\ SumFunction(latency) \in Int
        BY <1>0, <3>1, <3>4, SumIncrement
      <3>6. latency' \in [BucketSet -> Nat]
        BY <1>0, <3>1, <3>4
      <3>7. active' = active /\ requests_total' = requests_total
        BY <3>0 DEF CountLatency
      <3> QED  BY <1>0, <1>2, <3>2, <3>3, <3>5, <3>6, <3>7 DEF Counted
    <2>5. CASE Send(c) \/ HangUp(c)
      BY <2>5 DEF Send, HangUp, Counted, stats
    <2>6. CASE TunnelEnds(c)
      <3>1. Goto(c, "tunnel", "closed") /\ UNCHANGED <<stats, requests>>
        BY <2>6 DEF TunnelEnds
      <3>2. \A s \in {"handle", "write"} : Count(pc', s) = Count(pc, s)
        BY <1>0, <1>1, <3>1
      <3> QED  BY <3>1, <3>2 DEF Counted, stats
    <2> QED
      BY <1>3, <2>1, <2>2, <2>3, <2>4, <2>5, <2>6
         DEF ConnStep, ServerStep, TooManyRequests, ReadTimeout
  <1>4. CASE Reader
    <2>1. UNCHANGED <<active, requests_total, latency, pc, requests>>
      BY <1>4 DEF Reader, ReadTotal, ReadBucket, Report, Connections
    <2> QED  BY <2>1 DEF Counted
  <1>5. CASE UNCHANGED vars
    BY <1>5 DEF vars, stats, Counted
  <1> QED  BY <1>3, <1>4, <1>5 DEF Next, ConnStep

(* However the requests of all connections interleave and whatever ends    *)
(* them - an early return of the handler, a client that hangs up before    *)
(* its response - none is counted twice and none is missed by `active',    *)
(* the total and the histogram.                                            *)
THEOREM EveryRequestCountedHolds == Spec => []EveryRequestCounted
  <1>1. Init => Typed /\ Counted
    BY InitTyped, InitCounted
  <1>2. Typed /\ Counted /\ [Next]_vars => (Typed /\ Counted)'
    BY NextTyped, NextCounted
  <1>3. Counted => EveryRequestCounted
    BY DEF Counted, EveryRequestCounted, At, Count
  <1> QED  BY <1>1, <1>2, <1>3, PTL DEF Spec

-----------------------------------------------------------------------------
(***************************************************************************)
(* The reader of the counters.                                             *)
(***************************************************************************)

Histogram == [BucketSet -> Nat]

Snapshots == [total : Nat, latency : Histogram, before : Histogram]

(* Bucket by bucket, what the reader has read lies between what was there  *)
(* when it began and what is there now.                                    *)
ReaderSane ==
  /\ reader \in 0..Idle
  /\ seen \in Snapshots
  /\ reader # Idle =>
       \A b \in BucketSet :
         /\ seen.before[b] <= latency[b]
         /\ b < reader => /\ seen.before[b] <= seen.latency[b]
                          /\ seen.latency[b] <= latency[b]

(* The accesses of a request: the reader is left alone, and no bucket ever *)
(* holds less than before.                                                 *)
LEMMA RequestsAndReader ==
  ASSUME Counted, NEW c \in Conns, ConnStep(c)
  PROVE  /\ UNCHANGED <<reader, seen>>
         /\ \A b \in BucketSet : latency[b] <= latency'[b]
  <1>0. latency \in Histogram
    BY DEF Counted, Histogram
  <1>1. CASE Refuse(c) \/ ReadEnd(c) \/ Send(c) \/ HangUp(c) \/ TunnelEnds(c)
    <2>1. UNCHANGED <<reader, seen, latency>>
      BY <1>1 DEF Refuse, ReadEnd, Send, HangUp, TunnelEnds, stats
    <2> QED  BY <1>0, <2>1 DEF Histogram
  <1>2. CASE Read(c) \/ Handle(c)
    <2>1. UNCHANGED <<reader, seen, latency>>
      BY <1>2 DEF Read, Handle, RequestBegins, RequestEnds
    <2> QED  BY <1>0, <2>1 DEF Histogram
  <1>3. CASE Write(c) \/ WriteFails(c)
    <2>1. PICK us \in Latencies : CountLatency(us)
      BY <1>3 DEF Write, WriteFails
    <2> DEFINE bucket == LatencyBucket(us)
    <2>2. /\ bucket \in BucketSet /\ UNCHANGED <<reader, seen>>
          /\ latency' = [latency EXCEPT ![bucket] = @ + 1]
      BY <2>1, BucketOfLatency DEF CountLatency
    <2> HIDE DEF bucket
    <2> QED  BY <1>0, <2>2 DEF Histogram
  <1> QED  BY <1>1, <1>2, <1>3 DEF ConnStep, ServerStep, TooManyRequests, ReadTimeout

(* At the start nobody reads.                                              *)
LEMMA InitReaderSane == Init => ReaderSane
  BY Constants DEF Init, StatsInit, ReaderSane, Snapshots, Histogram, Nothing, Empty, Idle

(* Recording while the reader reads keeps what it has read in between.     *)
LEMMA NextReaderSane ==
  ASSUME Counted, Counted', ReaderSane, [Next]_vars
  PROVE  ReaderSane'
  <1>0. /\ latency \in Histogram /\ latency' \in Histogram
        /\ seen.total \in Nat /\ seen.before \in Histogram /\ seen.latency \in Histogram
        /\ reader \in 0..Idle /\ seen \in Snapshots
        /\ Buckets \in Nat /\ BucketSet = 0..Buckets - 1 /\ Idle = Buckets + 1
    BY Constants DEF Counted, ReaderSane, Snapshots, Histogram, BucketSet, Idle
  <1>1. \A b \in BucketSet : /\ latency[b] \in Nat /\ latency'[b] \in Nat
                             /\ seen.before[b] \in Nat /\ seen.latency[b] \in Nat
    BY <1>0 DEF Histogram
  <1>2. ASSUME NEW c \in Conns, ConnStep(c) PROVE ReaderSane'
    <2>1. UNCHANGED <<reader, seen>> /\ \A b \in BucketSet : latency[b] <= latency'[b]
      BY <1>2, RequestsAndReader
    <2>2. ASSUME reader # Idle, NEW b \in BucketSet
          PROVE  /\ seen.before[b] <= latency'[b]
                 /\ b < reader => /\ seen.before[b] <= seen.latency[b]
                                  /\ seen.latency[b] <= latency'[b]
      <3>1. /\ seen.before[b] <= latency[b] /\ latency[b] <= latency'[b]
            /\ b < reader => /\ seen.before[b] <= seen.latency[b]
                             /\ seen.latency[b] <= latency[b]
        BY <2>1, <2>2 DEF ReaderSane
      <3>2. /\ latency[b] \in Nat /\ latency'[b] \in Nat
            /\ seen.before[b] \in Nat /\ seen.latency[b] \in Nat
        BY <1>1
      <3> QED  BY <3>1, <3>2
    <2> QED  BY <1>0, <2>1, <2>2 DEF ReaderSane
  <1>3. CASE ReadTotal
    <2>1. /\ reader' = 0 /\ latency' = latency
          /\ seen' = [seen EXCEPT !.total = requests_total, !.before = latency]
      BY <1>3 DEF ReadTotal
    <2>2. seen' \in Snapshots /\ seen'.before = latency
      BY <1>0, <2>1 DEF Snapshots, Counted
    <2>3. \A b \in BucketSet : latency[b] <= latency[b] /\ ~(b < 0)
      BY <1>0, <1>1
    <2> QED  BY <1>0, <2>1, <2>2, <2>3 DEF ReaderSane
  <1>4. CASE ReadBucket
    <2> DEFINE read == [seen.latency EXCEPT ![reader] = latency[reader]]
    <2>1. /\ reader \in BucketSet /\ reader' = reader + 1 /\ latency' = latency
          /\ seen' = [seen EXCEPT !.latency = read]
      BY <1>0, <1>4 DEF ReadBucket, Snapshots
    <2>2. /\ read \in Histogram /\ read[reader] = latency[reader]
          /\ \A b \in BucketSet : b # reader => read[b] = seen.latency[b]
      BY <1>0, <2>1 DEF Histogram
    <2> HIDE DEF read
    <2>3. seen' \in Snapshots /\ seen'.before = seen.before /\ seen'.latency = read
      BY <1>0, <2>1, <2>2 DEF Snapshots
    <2>4. reader # Idle /\ reader' \in 0..Idle
      BY <1>0, <2>1
    <2>5. ASSUME NEW b \in BucketSet
          PROVE  /\ seen.before[b] <= latency[b]
                 /\ b < reader + 1 => seen.before[b] <= read[b] /\ read[b] <= latency[b]
      <3>1. seen.before[b] <= latency[b]
        BY <2>4 DEF ReaderSane
      <3>2. CASE b = reader
        BY <1>1, <2>2, <3>1, <3>2
      <3>3. CASE b # reader
        <4>1. b < reader + 1 => b < reader
          BY <1>0, <2>1, <3>3
        <4> QED  BY <2>2, <2>4, <3>1, <3>3, <4>1 DEF ReaderSane
      <3> QED  BY <3>2, <3>3
    <2> QED  BY <2>1, <2>3, <2>4, <2>5 DEF ReaderSane
  <1>5. CASE Report
    <2>1. reader' = Idle /\ seen' = Nothing
      BY <1>5 DEF Report
    <2>2. Nothing \in Snapshots
      BY DEF Nothing, Empty, Snapshots, Histogram
    <2> QED  BY <1>0, <2>1, <2>2 DEF ReaderSane
  <1>6. CASE UNCHANGED vars
    BY <1>6 DEF vars, stats, ReaderSane
  <1> QED  BY <1>2, <1>3, <1>4, <1>5, <1>6 DEF Next, ConnStep, Reader

-----------------------------------------------------------------------------
(* Larger values have a larger sum.                                        *)
LEMMA SumLess ==
  ASSUME NEW S, IsFiniteSet(S), NEW f, NEW g,
         \A x \in S : f[x] \in Nat /\ g[x] \in Nat /\ f[x] <= g[x]
  PROVE  SumFunctionOnSet(f, S) <= SumFunctionOnSet(g, S)
  <1> DEFINE Q == {T \in SUBSET S : SumFunctionOnSet(f, T) <= SumFunctionOnSet(g, T)}
  <1>1. ASSUME NEW T \in SUBSET S, \A U \in SUBSET T : U # T => U \in Q
        PROVE  T \in Q
    <2>1. CASE T = {}
      <3>1. SumFunctionOnSet(f, T) = 0 /\ SumFunctionOnSet(g, T) = 0
        BY <2>1, SumEmpty
      <3> QED  BY <3>1
    <2>2. CASE T # {}
      <3> DEFINE x == OneOf(T)
                 U == T \ {x}
      <3>1. IsFiniteSet(T) /\ IsFiniteSet(U) /\ x \in T
        BY <2>2, FS_Subset, OneOfBelongs
      <3>2. /\ SumFunctionOnSet(f, T) = f[x] + SumFunctionOnSet(f, U)
            /\ SumFunctionOnSet(g, T) = g[x] + SumFunctionOnSet(g, U)
        BY <2>2, <3>1, SumUnfold
      <3>3. U \in Q
        BY <1>1, <3>1
      <3>4. /\ \A y \in U : f[y] \in Int /\ g[y] \in Int
            /\ f[x] \in Nat /\ g[x] \in Nat /\ f[x] <= g[x]
        BY <3>1
      <3>5. SumFunctionOnSet(f, U) <= SumFunctionOnSet(g, U)
        BY <3>3
      <3> HIDE DEF x, U, Q
      <3>6. SumFunctionOnSet(f, U) \in Int /\ SumFunctionOnSet(g, U) \in Int
        BY <3>1, <3>4, SumType
      <3>7. SumFunctionOnSet(f, T) <= SumFunctionOnSet(g, T)
        BY <3>2, <3>4, <3>5, <3>6
      <3> QED  BY <3>7 DEF Q
    <2> QED  BY <2>1, <2>2
  <1>2. \A T \in SUBSET S : T \in Q
    <2> HIDE DEF Q
    <2> QED  BY <1>1, SubsetInduction
  <1>3. S \in Q
    BY <1>2
  <1> QED  BY <1>3

(* The requests up to a bucket.                                            *)
LEMMA UpToBucket ==
  ASSUME NEW f \in Histogram, NEW b \in BucketSet
  PROVE  /\ 0..b \subseteq BucketSet /\ IsFiniteSet(0..b)
         /\ SumFunctionOnSet(f, 0..b) \in Int /\ SumFunctionOnSet(f, 0..b) >= 0
  <1>1. b \in Nat /\ 0..b \subseteq BucketSet
    BY Constants DEF BucketSet
  <1>2. IsFiniteSet(0..b) /\ \A x \in 0..b : f[x] \in Nat /\ f[x] \in Int
    BY <1>1, FS_Interval DEF Histogram
  <1>3. SumFunctionOnSet(f, 0..b) \in Int
    BY <1>2, SumType
  <1> DEFINE zero == [x \in 0..b |-> 0]
  <1>4. \A x \in 0..b : zero[x] = 0 /\ zero[x] \in Nat /\ zero[x] <= f[x]
    BY <1>2
  <1> HIDE DEF zero
  <1>5. SumFunctionOnSet(zero, 0..b) = 0
    BY <1>2, <1>4, SumZero
  <1>6. SumFunctionOnSet(zero, 0..b) <= SumFunctionOnSet(f, 0..b)
    BY <1>2, <1>4, SumLess
  <1> QED  BY <1>1, <1>2, <1>3, <1>5, <1>6

(* The targets of the four percentiles.                                    *)
LEMMA Targets ==
  ASSUME NEW t \in Nat, NEW name \in DOMAIN Permille
  PROVE  Target(t, Permille[name]) \in Nat /\ (t = 0 => Target(t, Permille[name]) = 0)
  <1>1. \A p \in {50, 90, 99, 999} : (t * p) \div 1000 \in Nat /\ (0 * p) \div 1000 = 0
    OBVIOUS
  <1>2. Permille[name] \in {50, 90, 99, 999}
    BY DEF Permille
  <1> QED  BY <1>1, <1>2 DEF Target

(* The first bucket with which the sum reaches the target.                 *)
LEMMA PercentileIsFirst ==
  ASSUME NEW f \in Histogram, NEW t, NEW p, Target(t, p) \in Nat
  PROVE  LET hit == {b \in BucketSet : SumFunctionOnSet(f, 0..b) >= Target(t, p)}
         IN  /\ hit = {} => Percentile(f, t, p) = Buckets
             /\ hit # {} => /\ Percentile(f, t, p) \in hit
                            /\ \A other \in hit : Percentile(f, t, p) <= other
  <1> DEFINE hit == {b \in BucketSet : SumFunctionOnSet(f, 0..b) >= Target(t, p)}
  <1>1. Percentile(f, t, p) = IF hit = {} THEN Buckets
                              ELSE CHOOSE b \in hit : \A other \in hit : b <= other
    BY DEF Percentile
  <1>2. hit \subseteq Nat
    BY BucketsFinite
  <1> HIDE DEF hit
  <1>3. hit # {} => \E b \in hit : \A other \in hit : b <= other
    BY <1>2, HasLeast
  <1>4. /\ hit = {} => Percentile(f, t, p) = Buckets
        /\ hit # {} => /\ Percentile(f, t, p) \in hit
                       /\ \A other \in hit : Percentile(f, t, p) <= other
    BY <1>1, <1>3
  <1> QED  BY <1>4 DEF hit

(* The bucket found: the target is not reached below it, and it is reached *)
(* with it unless no bucket reaches it.                                    *)
LEMMA PercentileCuts ==
  ASSUME NEW f \in Histogram, NEW t, NEW p, Target(t, p) \in Nat
  PROVE  /\ Percentile(f, t, p) \in 0..Buckets
         /\ Percentile(f, t, p) > 0 =>
              SumFunctionOnSet(f, 0..Percentile(f, t, p) - 1) < Target(t, p)
         /\ Percentile(f, t, p) < Buckets =>
              SumFunctionOnSet(f, 0..Percentile(f, t, p)) >= Target(t, p)
  <1> DEFINE b == Percentile(f, t, p)
             hit == {x \in BucketSet : SumFunctionOnSet(f, 0..x) >= Target(t, p)}
  <1>1. /\ Buckets \in Nat /\ Buckets > 0 /\ BucketSet = 0..Buckets - 1
    BY Constants DEF BucketSet
  <1>2. /\ hit = {} => b = Buckets
        /\ hit # {} => b \in hit /\ \A other \in hit : b <= other
    BY PercentileIsFirst
  <1> HIDE DEF b
  <1>3. \A x \in BucketSet : SumFunctionOnSet(f, 0..x) \in Int
    BY UpToBucket
  <1>4. ASSUME b \in 0..Buckets, b > 0 PROVE SumFunctionOnSet(f, 0..b - 1) < Target(t, p)
    <2>1. b - 1 \in BucketSet /\ ~(b <= b - 1)
      BY <1>1, <1>4
    <2>2. b - 1 \notin hit
      <3>1. CASE hit = {}
        BY <3>1
      <3>2. CASE hit # {}
        <4> HIDE DEF hit
        <4> QED  BY <1>2, <2>1, <3>2
      <3> QED  BY <3>1, <3>2
    <2>3. ~(SumFunctionOnSet(f, 0..b - 1) >= Target(t, p))
      BY <2>1, <2>2
    <2>4. SumFunctionOnSet(f, 0..b - 1) \in Int
      BY <1>3, <2>1
    <2> QED  BY <2>3, <2>4
  <1>5. CASE hit = {}
    BY <1>1, <1>2, <1>4, <1>5 DEF b
  <1>6. CASE hit # {}
    <2>1. b \in BucketSet /\ SumFunctionOnSet(f, 0..b) >= Target(t, p)
      BY <1>2, <1>6
    <2>2. b \in 0..Buckets
      BY <1>1, <2>1
    <2> QED  BY <1>4, <2>1, <2>2 DEF b
  <1> QED  BY <1>5, <1>6

Counters == Typed /\ Counted /\ ReaderSane

(* The counters and their reader, in all behaviours.                       *)
LEMMA CountersHold == Spec => []Counters
  <1>1. Init => Counters
    BY InitTyped, InitCounted, InitReaderSane DEF Counters
  <1>2. Counters /\ [Next]_vars => Counters'
    BY NextTyped, NextCounted, NextReaderSane DEF Counters
  <1> QED  BY <1>1, <1>2, PTL DEF Spec

(* GET /api/stats reads the total and then bucket after bucket while       *)
(* requests go on being recorded: what it shows for a percentile is a      *)
(* bucket between the one that was right when it began and the one that is *)
(* right when it ends, for any histogram and any interleaving.             *)
THEOREM ShownInTimeHolds == Spec => []ShownInTime
  <1>1. Counters => ShownInTime
    <2> SUFFICES ASSUME Counters, reader = Buckets, NEW name \in DOMAIN Permille
                 PROVE  /\ Shown(name) > 0 =>
                             SumFunctionOnSet(seen.before, 0..Shown(name) - 1)
                               < Target(seen.total, Permille[name])
                        /\ Shown(name) < Buckets =>
                             SumFunctionOnSet(latency, 0..Shown(name))
                               >= Target(seen.total, Permille[name])
      BY DEF ShownInTime
    <2> DEFINE b      == Shown(name)
               total  == seen.total
               target == Target(total, Permille[name])
    <2>1. /\ total \in Nat /\ seen.before \in Histogram /\ seen.latency \in Histogram
          /\ latency \in Histogram
          /\ Buckets \in Nat /\ Buckets > 0 /\ BucketSet = 0..Buckets - 1 /\ Idle = Buckets + 1
      BY Constants DEF Counters, Counted, ReaderSane, Snapshots, Histogram, Idle, BucketSet
    <2>2. \A x \in BucketSet : /\ seen.before[x] \in Nat /\ seen.latency[x] \in Nat
                               /\ latency[x] \in Nat
                               /\ seen.before[x] <= seen.latency[x]
                               /\ seen.latency[x] <= latency[x]
      <3>1. reader # Idle /\ \A x \in BucketSet : x < reader
        BY <2>1
      <3>2. \A x \in BucketSet : /\ seen.before[x] <= seen.latency[x]
                                 /\ seen.latency[x] <= latency[x]
        BY <3>1 DEF Counters, ReaderSane
      <3> QED  BY <2>1, <3>2 DEF Histogram
    <2>3. target \in Nat /\ (total = 0 => target = 0)
      BY <2>1, Targets
    <2>4. b = IF total = 0 THEN 0 ELSE Percentile(seen.latency, total, Permille[name])
      BY DEF Shown
    <2>5. CASE total = 0
      <3>1. b = 0 /\ 0 \in BucketSet
        BY <2>1, <2>4, <2>5
      <3>2. SumFunctionOnSet(latency, 0..0) \in Int /\ SumFunctionOnSet(latency, 0..0) >= 0
        BY <2>1, <3>1, UpToBucket
      <3> HIDE DEF b, target
      <3>3. ~(b > 0) /\ SumFunctionOnSet(latency, 0..b) >= target
        BY <2>3, <2>5, <3>1, <3>2
      <3> QED  BY <3>3 DEF b, target, total
    <2>6. CASE total # 0
      <3>1. /\ b \in 0..Buckets
            /\ b > 0 => SumFunctionOnSet(seen.latency, 0..b - 1) < target
            /\ b < Buckets => SumFunctionOnSet(seen.latency, 0..b) >= target
        BY <2>1, <2>3, <2>4, <2>6, PercentileCuts
      <3> HIDE DEF b, target, total
      <3>2. \A x \in BucketSet :
              /\ SumFunctionOnSet(seen.before, 0..x) <= SumFunctionOnSet(seen.latency, 0..x)
              /\ SumFunctionOnSet(seen.latency, 0..x) <= SumFunctionOnSet(latency, 0..x)
              /\ SumFunctionOnSet(seen.before, 0..x) \in Int
              /\ SumFunctionOnSet(seen.latency, 0..x) \in Int
              /\ SumFunctionOnSet(latency, 0..x) \in Int
        <4> TAKE x \in BucketSet
        <4>1. 0..x \subseteq BucketSet /\ IsFiniteSet(0..x)
          BY <2>1, UpToBucket
        <4>2. /\ SumFunctionOnSet(seen.before, 0..x) \in Int
              /\ SumFunctionOnSet(seen.latency, 0..x) \in Int
              /\ SumFunctionOnSet(latency, 0..x) \in Int
          BY <2>1, UpToBucket
        <4>3. SumFunctionOnSet(seen.before, 0..x) <= SumFunctionOnSet(seen.latency, 0..x)
          BY <2>2, <4>1, SumLess
        <4>4. SumFunctionOnSet(seen.latency, 0..x) <= SumFunctionOnSet(latency, 0..x)
          BY <2>2, <4>1, SumLess
        <4> QED  BY <4>2, <4>3, <4>4
      <3>3. ASSUME b > 0 PROVE SumFunctionOnSet(seen.before, 0..b - 1) < target
        <4>1. b - 1 \in BucketSet
          BY <2>1, <3>1, <3>3
        <4> QED  BY <2>3, <3>1, <3>2, <3>3, <4>1
      <3>4. ASSUME b < Buckets PROVE SumFunctionOnSet(latency, 0..b) >= target
        <4>1. b \in BucketSet
          BY <2>1, <3>1, <3>4
        <4> QED  BY <2>3, <3>1, <3>2, <3>4, <4>1
      <3> QED  BY <3>3, <3>4 DEF b, target, total
    <2> QED  BY <2>5, <2>6
  <1> QED  BY <1>1, CountersHold, PTL

(* Types and ranges: the loop counter stays within MAX_KEEPALIVE_REQUESTS, *)
(* no counter goes below zero, no answer names a request that was not sent.*)
THEOREM TypeOKHolds == Spec => []TypeOK
  <1>1. Counters => TypeOK
    <2> SUFFICES ASSUME Counters PROVE TypeOK
      OBVIOUS
    <2>1. StatsTypeOK
      <3>1. active \in Nat
        BY CountType DEF Counters, Counted
      <3> QED  BY <3>1 DEF Counters, Counted, ReaderSane, Snapshots, Histogram, StatsTypeOK
    <2>2. Shapes /\ \A c \in Conns : Ranges(c)
      BY DEF Counters, Typed
    <2>3. \A c \in Conns : sent[c] \in 0..Len(Bodies[c])
      BY <2>2, Constants DEF Shapes, Ranges
    <2>4. \A c \in Conns : {wire[c], buf[c]} \subseteq Seq(Piece)
      BY <2>2 DEF Shapes
    <2>5. \A c \in Conns : result[c] \in Results \cup {BadRequest}
      BY <2>2 DEF Shapes
    <2>6. ASSUME NEW c \in Conns
          PROVE  answers[c] \in Seq([request : 0..sent[c], own : BOOLEAN, body : Nat])
      <3>1. answers[c] \in Seq(AnswerType)
        BY <2>2 DEF Shapes
      <3>2. \A k \in 1..Len(answers[c]) :
              answers[c][k] \in [request : 0..sent[c], own : BOOLEAN, body : Nat]
        <4> TAKE k \in 1..Len(answers[c])
        <4>1. answers[c][k] \in AnswerType
          BY <3>1
        <4>2. answers[c][k].request \in 0..sent[c]
          BY <2>2, <3>1 DEF Ranges
        <4> QED  BY <4>1, <4>2 DEF AnswerType
      <3> DEFINE S == [request : 0..sent[c], own : BOOLEAN, body : Nat]
      <3>3. answers[c] \in [1..Len(answers[c]) -> S] /\ Len(answers[c]) \in Nat
        BY <3>1, <3>2
      <3> HIDE DEF S
      <3>4. answers[c] \in Seq(S)
        BY <3>3, SeqDef
      <3> QED  BY <3>4 DEF S
    <2> QED  BY <2>1, <2>2, <2>3, <2>4, <2>5, <2>6 DEF TypeOK, Shapes
  <1> QED  BY <1>1, CountersHold, PTL

-----------------------------------------------------------------------------
(***************************************************************************)
(* Requests that are read whole.                                           *)
(***************************************************************************)

(* How many pieces a request has.                                          *)
Size(c, i) == Bodies[c][i] + 2

(* On the wire every request line is followed by the rest of its request   *)
(* and then by the line of the next one, up to the last one sent.          *)
Chained(c) ==
  \A j \in DOMAIN wire[c] : wire[c][j].part = "line" =>
    LET i   == wire[c][j].request
        end == j + Size(c, i)
    IN  /\ end <= Len(wire[c]) + 1
        /\ end = Len(wire[c]) + 1 => i = sent[c]
        /\ end <= Len(wire[c]) => /\ wire[c][end].part = "line"
                                  /\ wire[c][end].request = i + 1

(* As long as the reads are exact, the next one starts at a request line,  *)
(* and the one in hand is the request that the loop counts.                *)
Aligned(c) ==
  exact[c] /\ pc[c] \in {"loop", "handle", "write"} =>
    /\ wire[c] = <<>> => requests[c] = sent[c]
    /\ wire[c] # <<>> => wire[c][1].part = "line" /\ wire[c][1].request = requests[c] + 1
    /\ pc[c] # "loop" =>
         requests[c] \in DOMAIN Bodies[c] /\ buf[c] = Message(c, requests[c])

(* One answer for each request read.                                       *)
Answering(c) ==
  /\ pc[c] \in {"loop", "tunnel"} => Len(answers[c]) = requests[c]
  /\ pc[c] \in {"handle", "write"} => Len(answers[c]) + 1 = requests[c]
  /\ pc[c] = "write" /\ Parses(c) => result[c].handled

AllHandled(c) ==
  exact[c] => \A k \in DOMAIN answers[c] \cap 1..requests[c] :
    1 + Bodies[c][k] <= HeaderBuffer =>
      answers[c][k] = [request |-> k, own |-> TRUE, body |-> Bodies[c][k]]

Whole(c) == Chained(c) /\ Aligned(c) /\ Answering(c) /\ AllHandled(c)

(* What is sent next is chained to what is on the wire.                    *)
LEMMA SendChained ==
  ASSUME Typed, NEW c \in Conns, Whole(c), Send(c)
  PROVE  Chained(c)' /\ Aligned(c)'
  <1> DEFINE n == sent[c] + 1
             m == Message(c, n)
             w == wire[c]
             v == wire'[c]
  <1>1. /\ n \in DOMAIN Bodies[c] /\ sent[c] \in Nat /\ v = w \o m /\ sent'[c] = n
    BY SendShapes
  <1>2. /\ m \in Seq(Piece) /\ w \in Seq(Piece) /\ Len(m) = Size(c, n) /\ Len(m) >= 2
        /\ m[1].part = "line" /\ m[1].request = n
        /\ \A j \in DOMAIN m : m[j].request = n /\ (m[j].part = "line" <=> j = 1)
    <2>1. /\ m \in Seq(Piece) /\ w \in Seq(Piece) /\ Len(m) = Bodies[c][n] + 2
          /\ Bodies[c][n] \in Nat
          /\ \A j \in DOMAIN m : m[j].request = n /\ (m[j].part = "line" <=> j = 1)
      BY <1>1, MessagePieces DEF Typed, Shapes
    <2> HIDE DEF m
    <2>2. 1 \in DOMAIN m
      BY <2>1
    <2> QED  BY <2>1, <2>2 DEF Size
  <1>3. /\ UNCHANGED <<pc, requests, buf, exact>>
        /\ Chained(c) /\ Aligned(c) /\ Ranges(c)
    BY DEF Send, Whole, Typed
  <1>4. \A j \in DOMAIN w : w[j].part = "line" =>
          /\ j + Size(c, w[j].request) <= Len(w) + 1
          /\ j + Size(c, w[j].request) = Len(w) + 1 => w[j].request = sent[c]
          /\ j + Size(c, w[j].request) <= Len(w) =>
               /\ w[j + Size(c, w[j].request)].part = "line"
               /\ w[j + Size(c, w[j].request)].request = w[j].request + 1
          /\ Size(c, w[j].request) \in Nat /\ Size(c, w[j].request) >= 2
    <2> TAKE j \in DOMAIN w
    <2>1. w[j].request \in DOMAIN Bodies[c]
      BY <1>1, <1>3, Constants DEF Ranges
    <2>2. Bodies[c][w[j].request] \in Nat
      BY <2>1, MessagePieces
    <2>3. Size(c, w[j].request) \in Nat /\ Size(c, w[j].request) >= 2
      BY <2>2 DEF Size
    <2> QED  BY <1>3, <2>3 DEF Chained
  <1> HIDE DEF m, w, v
  <1>5. /\ Len(v) = Len(w) + Len(m) /\ Len(w) \in Nat /\ Len(m) \in Nat
        /\ \A j \in 1..Len(w) : v[j] = w[j]
        /\ \A j \in 1..Len(m) : v[Len(w) + j] = m[j]
    <2>1. /\ Len(w \o m) = Len(w) + Len(m)
          /\ \A j \in 1..Len(w) + Len(m) :
               (w \o m)[j] = IF j <= Len(w) THEN w[j] ELSE m[j - Len(w)]
      BY <1>2, ConcatProperties
    <2>2. Len(w) \in Nat /\ Len(m) \in Nat
      BY <1>2
    <2>3. \A j \in 1..Len(w) : j \in 1..Len(w) + Len(m) /\ j <= Len(w)
      BY <2>2
    <2>4. \A j \in 1..Len(m) : /\ Len(w) + j \in 1..Len(w) + Len(m)
                              /\ ~(Len(w) + j <= Len(w)) /\ (Len(w) + j) - Len(w) = j
      BY <2>2
    <2>5. \A j \in 1..Len(w) : v[j] = w[j]
      BY <1>1, <2>1, <2>3
    <2>6. \A j \in 1..Len(m) : v[Len(w) + j] = m[j]
      BY <1>1, <2>1, <2>4
    <2> QED  BY <1>1, <2>1, <2>2, <2>5, <2>6
  <1>6. ASSUME NEW j \in DOMAIN v, v[j].part = "line"
        PROVE  /\ j + Size(c, v[j].request) <= Len(v) + 1
               /\ j + Size(c, v[j].request) = Len(v) + 1 => v[j].request = n
               /\ j + Size(c, v[j].request) <= Len(v) =>
                    /\ v[j + Size(c, v[j].request)].part = "line"
                    /\ v[j + Size(c, v[j].request)].request = v[j].request + 1
    <2>0. j \in 1..Len(w) + Len(m)
      <3>1. v \in Seq(Piece)
        BY <1>1, <1>2
      <3> QED  BY <1>5, <3>1
    <2>1. CASE j \in 1..Len(w)
      <3>1. j \in DOMAIN w /\ v[j] = w[j] /\ w[j].part = "line"
        BY <1>2, <1>5, <1>6, <2>1
      <3> DEFINE i == w[j].request
                 end == j + Size(c, i)
      <3>2. /\ end <= Len(w) + 1 /\ end \in Nat
            /\ end = Len(w) + 1 => i = sent[c]
            /\ end <= Len(w) => w[end].part = "line" /\ w[end].request = i + 1
        BY <1>4, <2>1, <3>1
      <3>3. end >= 1 /\ i = v[j].request
        BY <1>4, <2>1, <3>1
      <3> HIDE DEF i, end
      <3>4. end <= Len(v) /\ end # Len(v) + 1
        BY <1>2, <1>5, <3>2
      <3>5. v[end].part = "line" /\ v[end].request = i + 1
        <4>1. CASE end <= Len(w)
          <5>1. v[end] = w[end]
            BY <1>5, <3>2, <3>3, <4>1
          <5> QED  BY <3>2, <4>1, <5>1
        <4>2. CASE end = Len(w) + 1
          <5>1. v[end] = m[1] /\ i = sent[c]
            BY <1>2, <1>5, <3>2, <4>2
          <5> QED  BY <1>2, <5>1
        <4> QED  BY <1>5, <3>2, <4>1, <4>2
      <3>6. end <= Len(v) + 1
        BY <1>5, <3>2, <3>4
      <3> QED  BY <3>3, <3>4, <3>5, <3>6 DEF end
    <2>2. CASE j \notin 1..Len(w)
      <3>1. j - Len(w) \in 1..Len(m) /\ v[j] = m[j - Len(w)]
        <4>1. j - Len(w) \in 1..Len(m)
          BY <1>5, <2>0, <2>2
        <4>2. Len(w) + (j - Len(w)) = j
          BY <1>5, <2>0
        <4> QED  BY <1>5, <4>1, <4>2
      <3>2. j - Len(w) = 1 /\ v[j].request = n
        BY <1>2, <1>6, <3>1
      <3>3. j + Size(c, v[j].request) = Len(v) + 1
        BY <1>2, <1>5, <2>0, <3>2
      <3>4. ~(Len(v) + 1 <= Len(v))
        BY <1>5
      <3> QED  BY <1>5, <3>2, <3>3, <3>4
    <2> QED  BY <2>1, <2>2
  <1>7. Chained(c)'
    BY <1>1, <1>6 DEF Chained, v, Size
  <1>8. Aligned(c)'
    <2> SUFFICES ASSUME exact[c], pc[c] \in {"loop", "handle", "write"}
                 PROVE  /\ v # <<>> /\ v[1].part = "line" /\ v[1].request = requests[c] + 1
                        /\ pc[c] # "loop" => /\ requests[c] \in DOMAIN Bodies[c]
                                             /\ buf[c] = Message(c, requests[c])
      BY <1>3 DEF Aligned, v
    <2>1. /\ w = <<>> => requests[c] = sent[c]
          /\ w # <<>> => w[1].part = "line" /\ w[1].request = requests[c] + 1
          /\ pc[c] # "loop" =>
               requests[c] \in DOMAIN Bodies[c] /\ buf[c] = Message(c, requests[c])
      BY <1>3 DEF Aligned, w
    <2>2. v # <<>>
      BY <1>2, <1>5
    <2>3. CASE w = <<>>
      <3>1. v[1] = m[1]
        BY <1>2, <1>5, <2>3
      <3> QED  BY <1>2, <2>1, <2>2, <2>3, <3>1
    <2>4. CASE w # <<>>
      <3>1. v[1] = w[1]
        BY <1>2, <1>5, <2>4
      <3> QED  BY <2>1, <2>2, <2>4, <3>1
    <2> QED  BY <2>3, <2>4
  <1> QED  BY <1>7, <1>8

(* A read leaves the chain behind it, and when it is exact, the request    *)
(* that is next.                                                           *)
LEMMA ReadChained ==
  ASSUME Typed, NEW c \in Conns, Whole(c), Read(c)
  PROVE  Chained(c)' /\ Aligned(c)'
  <1> DEFINE w == wire[c]
             v == wire'[c]
             r == requests[c]
  <1>1. PICK n \in 1..Len(w) : buf'[c] = SubSeq(w, 1, n) /\ v = SubSeq(w, n + 1, Len(w))
    BY ReadShapes
  <1>2. /\ w \in Seq(Piece) /\ sent' = sent /\ requests'[c] = r + 1 /\ r \in Nat
        /\ pc[c] = "loop" /\ pc'[c] = "handle"
        /\ exact'[c] => exact[c] /\ \E i \in DOMAIN Bodies[c] : buf'[c] = Message(c, i)
        /\ Chained(c) /\ Aligned(c) /\ Ranges(c) /\ sent[c] \in Nat
    <2>1. /\ pc \in [Conns -> Stages] /\ requests \in [Conns -> 0..MaxKeepalive]
          /\ exact \in [Conns -> BOOLEAN] /\ w \in Seq(Piece) /\ sent[c] \in Nat
          /\ Chained(c) /\ Aligned(c) /\ Ranges(c)
      BY DEF Typed, Shapes, Whole
    <2>2. r \in Nat
      BY <2>1, Constants
    <2>3. pc[c] = "loop" /\ pc'[c] = "handle" /\ sent' = sent
      BY <2>1 DEF Read, client, Goto
    <2>4. requests'[c] = r + 1
      BY <2>1 DEF Read
    <2>5. exact'[c] => exact[c] /\ \E i \in DOMAIN Bodies[c] : buf'[c] = Message(c, i)
      BY <2>1 DEF Read
    <2> HIDE DEF r, w
    <2> QED  BY <2>1, <2>2, <2>3, <2>4, <2>5
  <1>3. \A j \in DOMAIN w : w[j].part = "line" =>
          /\ j + Size(c, w[j].request) <= Len(w) + 1
          /\ j + Size(c, w[j].request) = Len(w) + 1 => w[j].request = sent[c]
          /\ j + Size(c, w[j].request) <= Len(w) =>
               /\ w[j + Size(c, w[j].request)].part = "line"
               /\ w[j + Size(c, w[j].request)].request = w[j].request + 1
    BY <1>2 DEF Chained
  <1>4. \A j \in DOMAIN w : Size(c, w[j].request) \in Nat /\ Size(c, w[j].request) >= 2
    <2> TAKE j \in DOMAIN w
    <2>1. w[j].request \in DOMAIN Bodies[c]
      BY <1>2, Constants DEF Ranges
    <2>2. Bodies[c][w[j].request] \in Nat
      BY <2>1, MessagePieces
    <2> QED  BY <2>2 DEF Size
  <1>5. w # <<>> /\ (exact[c] => w[1].part = "line" /\ w[1].request = r + 1)
    <2>1. Len(w) # 0
      BY <1>1, <1>2
    <2>2. w # <<>>
      BY <2>1
    <2> QED  BY <1>2, <2>2 DEF Aligned
  <1> HIDE DEF w, v, r
  <1>6. /\ Len(w) \in Nat /\ n \in Nat /\ Len(v) = Len(w) - n /\ v \in Seq(Piece)
        /\ Len(buf'[c]) = n /\ 1 <= n /\ n <= Len(w)
        /\ \A j \in 1..n : buf'[c][j] = w[j]
        /\ \A j \in 1..Len(w) - n : v[j] = w[n + j] /\ n + j \in DOMAIN w
    BY <1>1, <1>2, ReadCuts
  <1>7. ASSUME NEW j \in DOMAIN v, v[j].part = "line"
        PROVE  /\ j + Size(c, v[j].request) <= Len(v) + 1
               /\ j + Size(c, v[j].request) = Len(v) + 1 => v[j].request = sent[c]
               /\ j + Size(c, v[j].request) <= Len(v) =>
                    /\ v[j + Size(c, v[j].request)].part = "line"
                    /\ v[j + Size(c, v[j].request)].request = v[j].request + 1
    <2>1. j \in 1..Len(w) - n /\ j \in Nat
      BY <1>6
    <2>2. v[j] = w[n + j] /\ n + j \in DOMAIN w
      BY <1>6, <2>1
    <2> DEFINE i == v[j].request
               s == Size(c, i)
    <2>3. /\ n + j + s <= Len(w) + 1
          /\ n + j + s = Len(w) + 1 => i = sent[c]
          /\ n + j + s <= Len(w) => w[n + j + s].part = "line" /\ w[n + j + s].request = i + 1
          /\ s \in Nat
      BY <1>3, <1>4, <1>7, <2>2
    <2> HIDE DEF i, s
    <2>4. /\ j + s <= Len(v) + 1 /\ (j + s = Len(v) + 1 => i = sent[c])
      <3>1. j + s <= Len(v) + 1
        BY <1>6, <2>1, <2>3
      <3>2. ASSUME j + s = Len(v) + 1 PROVE n + j + s = Len(w) + 1
        <4>1. n + j + s = n + (j + s) /\ n + (j + s) \in Int
          BY <1>6, <2>1, <2>3
        <4>2. n + (Len(v) + 1) = Len(w) + 1
          BY <1>6
        <4> QED  BY <3>2, <4>1, <4>2
      <3> QED  BY <2>3, <3>1, <3>2
    <2>5. ASSUME j + s <= Len(v) PROVE v[j + s].part = "line" /\ v[j + s].request = i + 1
      <3>1. j + s \in 1..Len(w) - n
        BY <1>6, <2>1, <2>3, <2>5
      <3>2. n + (j + s) = n + j + s /\ n + j + s <= Len(w)
        BY <1>6, <2>1, <2>3, <2>5
      <3>3. v[j + s] = w[n + j + s]
        BY <1>6, <3>1, <3>2
      <3> QED  BY <2>3, <3>2, <3>3
    <2> QED  BY <2>4, <2>5 DEF i, s
  <1>8. Chained(c)'
    BY <1>2, <1>7 DEF Chained, v, Size
  <1>9. ASSUME exact'[c]
        PROVE  /\ v = <<>> => r + 1 = sent[c]
               /\ v # <<>> => v[1].part = "line" /\ v[1].request = r + 1 + 1
               /\ r + 1 \in DOMAIN Bodies[c] /\ buf'[c] = Message(c, r + 1)
    <2>1. PICK i \in DOMAIN Bodies[c] : buf'[c] = Message(c, i)
      BY <1>2, <1>9
    <2>2. /\ Len(Message(c, i)) = Size(c, i) /\ Message(c, i)[1].request = i
      <3>1. Message(c, i) \in Seq(Piece) /\ Len(Message(c, i)) = Bodies[c][i] + 2
            /\ Bodies[c][i] \in Nat
            /\ \A j \in DOMAIN Message(c, i) : Message(c, i)[j].request = i
        BY MessagePieces
      <3>2. 1 \in DOMAIN Message(c, i)
        BY <3>1
      <3> QED  BY <3>1, <3>2 DEF Size
    <2>3. 1 \in DOMAIN w /\ buf'[c][1] = w[1]
      BY <1>2, <1>6
    <2>4. i = r + 1 /\ n = Size(c, i) /\ w[1].request = i /\ w[1].part = "line"
      BY <1>2, <1>5, <1>6, <1>9, <2>1, <2>2, <2>3
    <2>5. /\ 1 + n = Len(w) + 1 => i = sent[c]
          /\ 1 + n <= Len(w) => w[1 + n].part = "line" /\ w[1 + n].request = i + 1
      BY <1>3, <2>3, <2>4
    <2>6. ASSUME v = <<>> PROVE i = sent[c]
      <3>1. Len(v) = 0
        BY <2>6
      <3>2. 1 + n = Len(w) + 1
        BY <1>6, <3>1
      <3> QED  BY <2>5, <3>2
    <2>7. ASSUME v # <<>> PROVE v[1].part = "line" /\ v[1].request = i + 1
      <3>1. Len(v) # 0
        BY <1>6, <2>7
      <3>2. 1 + n <= Len(w) /\ 1 \in 1..Len(w) - n /\ n + 1 = 1 + n
        BY <1>6, <3>1
      <3>3. v[1] = w[1 + n]
        BY <1>6, <3>2
      <3> QED  BY <2>5, <3>2, <3>3
    <2> QED  BY <2>1, <2>4, <2>6, <2>7
  <1>10. Aligned(c)'
    BY <1>2, <1>9 DEF Aligned, v
  <1> QED  BY <1>8, <1>10

(* The response to a request that was read whole.                          *)
LEMMA WriteWhole ==
  ASSUME Typed, NEW c \in Conns, InOrder(c), Whole(c), Write(c)
  PROVE  Whole(c)'
  <1> DEFINE a == answers[c]
             x == Answer(c)
             r == requests[c]
  <1>1. /\ x \in AnswerType /\ answers'[c] = Append(a, x) /\ a \in Seq(AnswerType)
        /\ Len(a) \in Nat
    BY WriteShapes DEF Typed, Shapes
  <1>2. /\ pc[c] = "write" /\ UNCHANGED <<sent, wire, requests, exact>>
        /\ pc'[c] = IF result[c].header = "tunnel" THEN "tunnel"
                    ELSE IF result[c].keep_alive THEN "loop" ELSE "closed"
    BY DEF Write, client, Typed, Shapes
  <1>3. /\ Chained(c) /\ Aligned(c) /\ Answering(c) /\ AllHandled(c)
        /\ r \in Nat /\ r \in 0..MaxKeepalive /\ HeaderBuffer \in Nat
    BY Constants DEF Whole, Typed, Shapes
  <1>4. Len(a) + 1 = r /\ (Parses(c) => result[c].handled)
    BY <1>2, <1>3 DEF Answering
  <1>5. Len(answers'[c]) = r
    BY <1>1, <1>4
  <1>6. Chained(c)'
    BY <1>2, <1>3 DEF Chained, Size
  <1>7. Aligned(c)'
    <2> SUFFICES ASSUME exact[c], pc'[c] = "loop"
                 PROVE  /\ wire[c] = <<>> => r = sent[c]
                        /\ wire[c] # <<>> =>
                             wire[c][1].part = "line" /\ wire[c][1].request = r + 1
      BY <1>2 DEF Aligned
    <2> QED  BY <1>2, <1>3 DEF Aligned
  <1>8. Answering(c)'
    <2>1. pc'[c] \in {"tunnel", "loop", "closed"}
      BY <1>2
    <2> QED  BY <1>2, <1>5, <2>1 DEF Answering
  <1>9. ASSUME exact[c], 1 + Bodies[c][r] <= HeaderBuffer
        PROVE  x = [request |-> r, own |-> TRUE, body |-> Bodies[c][r]]
    <2>1. r \in DOMAIN Bodies[c] /\ buf[c] = Message(c, r)
      BY <1>2, <1>3, <1>9 DEF Aligned
    <2>2. /\ buf[c] \in Seq(Piece) /\ Len(buf[c]) = Bodies[c][r] + 2 /\ Bodies[c][r] \in Nat
          /\ \A j \in DOMAIN buf[c] : /\ buf[c][j].request = r
                                      /\ buf[c][j].part = "line" <=> j = 1
      BY <2>1, MessagePieces
    <2>3. 1 \in DOMAIN buf[c] /\ Head(buf[c]) = buf[c][1] /\ Len(buf[c]) >= 2
      BY <2>2
    <2>4. Len(buf[c]) - 1 <= HeaderBuffer /\ Len(buf[c]) - 2 = Bodies[c][r]
      <3> DEFINE b == Bodies[c][r]
                 l == Len(buf[c])
      <3>1. b \in Nat /\ l = b + 2 /\ 1 + b <= HeaderBuffer /\ HeaderBuffer \in Nat
        BY <1>3, <1>9, <2>2
      <3> HIDE DEF b, l
      <3>2. l - 1 <= HeaderBuffer /\ l - 2 = b
        BY <3>1
      <3> QED  BY <3>2 DEF b, l
    <2>5. Parses(c)
      BY <2>2, <2>3, <2>4 DEF Parses
    <2>6. Request(c) = r
      BY <2>2, <2>3 DEF Request
    <2>7. Body(c) = Bodies[c][r]
      <3> DEFINE b == Bodies[c][r]
      <3>1. Body(c) = Min({b, b})
        BY <2>4, <2>6 DEF Body
      <3>2. b \in Int
        BY <2>2
      <3> HIDE DEF b
      <3>3. Min({b, b}) = b
        BY <3>2, MinOfTwo
      <3> QED  BY <3>1, <3>3 DEF b
    <2> QED  BY <1>4, <2>5, <2>6, <2>7 DEF Answer
  <1>10. AllHandled(c)'
    <2> SUFFICES ASSUME exact[c], NEW k \in DOMAIN answers'[c] \cap 1..r,
                        1 + Bodies[c][k] <= HeaderBuffer
                 PROVE  answers'[c][k] = [request |-> k, own |-> TRUE, body |-> Bodies[c][k]]
      BY <1>2 DEF AllHandled
    <2> HIDE DEF a, x, r
    <2>1. \/ k \in DOMAIN a /\ k \in 1..r /\ answers'[c][k] = a[k]
          \/ k = r /\ answers'[c][k] = x
      BY <1>1, <1>4
    <2>2. CASE k \in DOMAIN a /\ k \in 1..r /\ answers'[c][k] = a[k]
      BY <1>3, <2>2 DEF AllHandled, a, r
    <2>3. CASE k = r /\ answers'[c][k] = x
      BY <1>9, <2>3
    <2> QED  BY <2>1, <2>2, <2>3
  <1> QED  BY <1>6, <1>7, <1>8, <1>10 DEF Whole

(* No step breaks the chain or the alignment.                              *)
LEMMA NextWhole ==
  ASSUME Typed, \A c \in Conns : InOrder(c) /\ Whole(c), [Next]_vars
  PROVE  (\A c \in Conns : Whole(c))'
  <1>1. ASSUME NEW c \in Conns, ConnStep(c)
        PROVE  (\A d \in Conns : Whole(d))'
    <2>0. /\ Shapes /\ InOrder(c) /\ Whole(c) /\ \A d \in Conns \ {c} : Same(d)
      BY <1>1, Elsewhere DEF Typed
    <2>1. ASSUME NEW d \in Conns \ {c} PROVE Whole(d)'
      <3>1. Same(d) /\ Whole(d)
        BY <2>0
      <3>2. Parses(d)' <=> Parses(d)
        BY <3>1 DEF Same, Parses
      <3>3. Chained(d)'
        BY <3>1 DEF Same, Whole, Chained, Size
      <3>4. Aligned(d)'
        BY <3>1 DEF Same, Whole, Aligned, Message
      <3>5. Answering(d)' /\ AllHandled(d)'
        BY <3>1, <3>2 DEF Same, Whole, Answering, AllHandled
      <3> QED  BY <3>3, <3>4, <3>5 DEF Whole
    <2>2. Whole(c)'
      <3>1. CASE Refuse(c)
        <4> DEFINE a == answers[c]
                   x == NoAnswer
        <4>1. /\ pc[c] = "loop" /\ pc'[c] = "closed"
              /\ answers'[c] = Append(a, x)
              /\ UNCHANGED <<sent, wire, requests, buf, result, exact>>
          BY <2>0, <3>1 DEF Refuse, Goto, client, Shapes
        <4>2. a \in Seq(AnswerType) /\ Len(a) \in Nat /\ requests[c] \in Nat
          BY <2>0, Constants DEF Shapes
        <4>3. Len(a) = requests[c]
          BY <2>0, <4>1 DEF Whole, Answering
        <4>4. Chained(c)' /\ Aligned(c)' /\ Answering(c)'
          BY <2>0, <4>1 DEF Whole, Chained, Size, Aligned, Answering
        <4>5. AllHandled(c)'
          <5> SUFFICES ASSUME exact[c], NEW k \in DOMAIN answers'[c] \cap 1..requests[c],
                              1 + Bodies[c][k] <= HeaderBuffer
                       PROVE  answers'[c][k] = [request |-> k, own |-> TRUE, body |-> Bodies[c][k]]
            BY <4>1 DEF AllHandled
          <5> HIDE DEF x, a
          <5>1. k \in 1..Len(a)
            BY <4>3
          <5>2. k \in DOMAIN a /\ Append(a, x)[k] = a[k]
            BY <4>2, <5>1
          <5>3. answers'[c][k] = a[k]
            BY <4>1, <5>2
          <5> QED  BY <2>0, <5>2, <5>3 DEF Whole, AllHandled, a
        <4> QED  BY <4>4, <4>5 DEF Whole
      <3>2. CASE ReadEnd(c) \/ HangUp(c) \/ TunnelEnds(c)
        <4>1. UNCHANGED <<sent, wire, requests, buf, answers, result, exact>>
          BY <3>2 DEF ReadEnd, HangUp, TunnelEnds, client
        <4>2. pc'[c] \in {pc[c], "closed"}
          BY <2>0, <3>2 DEF ReadEnd, HangUp, TunnelEnds, Goto, Shapes
        <4>3. Chained(c)' /\ AllHandled(c)'
          BY <2>0, <4>1 DEF Whole, Chained, Size, AllHandled
        <4>4. Aligned(c)'
          BY <2>0, <4>1, <4>2 DEF Whole, Aligned, Message
        <4>5. Answering(c)'
          BY <2>0, <4>1, <4>2 DEF Whole, Answering, Parses
        <4> QED  BY <4>3, <4>4, <4>5 DEF Whole
      <3>3. CASE Read(c)
        <4>1. /\ pc[c] = "loop" /\ pc'[c] = "handle" /\ answers' = answers
              /\ requests'[c] = requests[c] + 1 /\ (exact'[c] => exact[c])
          BY <2>0, <3>3 DEF Read, Goto, Shapes
        <4>2. Len(answers[c]) = requests[c] /\ answers[c] \in Seq(AnswerType)
              /\ requests[c] \in Nat
          BY <2>0, <4>1, Constants DEF Whole, Answering, Shapes
        <4>3. Answering(c)'
          BY <4>1, <4>2 DEF Answering
        <4>4. AllHandled(c)'
          <5> SUFFICES ASSUME exact'[c],
                              NEW k \in DOMAIN answers[c] \cap 1..requests[c] + 1,
                              1 + Bodies[c][k] <= HeaderBuffer
                       PROVE  answers[c][k] = [request |-> k, own |-> TRUE, body |-> Bodies[c][k]]
            BY <4>1 DEF AllHandled
          <5>1. k \in DOMAIN answers[c] \cap 1..requests[c]
            BY <4>2
          <5> QED  BY <2>0, <4>1, <5>1 DEF Whole, AllHandled
        <4> QED  BY <2>0, <3>3, <4>3, <4>4, ReadChained DEF Whole
      <3>4. CASE Handle(c)
        <4>1. /\ pc[c] = "handle" /\ pc'[c] = "write"
              /\ UNCHANGED <<sent, wire, requests, buf, answers, exact>>
          BY <2>0, <3>4 DEF Handle, Goto, client, Shapes
        <4>2. Chained(c)' /\ AllHandled(c)'
          BY <2>0, <4>1 DEF Whole, Chained, Size, AllHandled
        <4>3. Aligned(c)'
          BY <2>0, <4>1 DEF Whole, Aligned, Message
        <4>4. ASSUME Parses(c)' PROVE result'[c].handled
          <5>1. Parses(c)
            BY <4>1, <4>4 DEF Parses
          <5>2. PICK x \in Results : result' = [result EXCEPT ![c] = x]
            BY <3>4, <5>1 DEF Handle, Outcomes
          <5>3. result'[c] = x /\ x.handled
            BY <2>0, <5>2, ResultKinds DEF Shapes
          <5> QED  BY <5>3
        <4>5. Answering(c)'
          BY <2>0, <4>1, <4>4 DEF Whole, Answering
        <4> QED  BY <4>2, <4>3, <4>5 DEF Whole
      <3>5. CASE Write(c)
        BY <2>0, <3>5, WriteWhole
      <3>6. CASE WriteFails(c)
        <4>1. /\ pc'[c] = "closed"
              /\ UNCHANGED <<sent, wire, requests, answers, exact>>
          BY <2>0, <3>6 DEF WriteFails, Goto, client, Shapes
        <4>2. Chained(c)' /\ AllHandled(c)'
          BY <2>0, <4>1 DEF Whole, Chained, Size, AllHandled
        <4>3. Aligned(c)' /\ Answering(c)'
          BY <4>1 DEF Aligned, Answering
        <4> QED  BY <4>2, <4>3 DEF Whole
      <3>7. CASE Send(c)
        <4>1. UNCHANGED <<pc, requests, buf, answers, result, exact>>
          BY <3>7 DEF Send
        <4>2. Answering(c)' /\ AllHandled(c)'
          BY <2>0, <4>1 DEF Whole, Answering, AllHandled, Parses
        <4> QED  BY <2>0, <3>7, <4>2, SendChained DEF Whole
      <3> QED
        BY <1>1, <3>1, <3>2, <3>3, <3>4, <3>5, <3>6, <3>7
           DEF ConnStep, ServerStep, TooManyRequests, ReadTimeout
    <2> QED  BY <2>1, <2>2
  <1>2. CASE UNCHANGED Connections
    <2>1. \A d \in Conns : Same(d)
      BY <1>2 DEF Connections, client, Same
    <2>2. ASSUME NEW d \in Conns PROVE Whole(d)'
      <3>1. Same(d) /\ Whole(d)
        BY <2>1
      <3>2. Parses(d)' <=> Parses(d)
        BY <3>1 DEF Same, Parses
      <3>3. Chained(d)'
        BY <3>1 DEF Same, Whole, Chained, Size
      <3>4. Aligned(d)'
        BY <3>1 DEF Same, Whole, Aligned, Message
      <3>5. Answering(d)' /\ AllHandled(d)'
        BY <3>1, <3>2 DEF Same, Whole, Answering, AllHandled
      <3> QED  BY <3>3, <3>4, <3>5 DEF Whole
    <2> QED  BY <2>2
  <1> QED  BY <1>1, <1>2, StepOfOne

(* The reads of the loop know nothing of the borders of requests; as long  *)
(* as each happens to return one whole request, each request is handled    *)
(* with its whole body, however many are on the way meanwhile, up to       *)
(* MAX_HEADER_BUFFER of headers and body.                                  *)
THEOREM WholeRequestsHandledHolds == Spec => []WholeRequestsHandled
  <1> DEFINE Inv == Typed /\ \A c \in Conns : InOrder(c) /\ Whole(c)
  <1>1. Init => Inv
    <2> SUFFICES ASSUME Init, NEW c \in Conns PROVE InOrder(c) /\ Whole(c)
      BY InitTyped
    <2>1. /\ pc[c] = "loop" /\ wire[c] = <<>> /\ buf[c] = <<>> /\ answers[c] = <<>>
          /\ requests[c] = 0 /\ sent[c] = 0
      BY DEF Init
    <2>2. InOrder(c)
      BY <2>1 DEF InOrder, Behind, Decided, AnsweredInOrder, Rising
    <2>3. Whole(c)
      BY <2>1 DEF Whole, Chained, Aligned, Answering, AllHandled
    <2> QED  BY <2>2, <2>3
  <1>2. Inv /\ [Next]_vars => Inv'
    <2> SUFFICES ASSUME Inv, [Next]_vars PROVE Inv'
      OBVIOUS
    <2>1. Typed' /\ (\A c \in Conns : InOrder(c))'
      BY NextTyped, NextInOrder
    <2>2. (\A c \in Conns : Whole(c))'
      BY NextWhole
    <2> QED  BY <2>1, <2>2
  <1>3. Inv => WholeRequestsHandled
    BY DEF WholeRequestsHandled, Whole, AllHandled
  <1> QED  BY <1>1, <1>2, <1>3, PTL DEF Spec

-----------------------------------------------------------------------------
(***************************************************************************)
(* The access log, for any entries, any size of the ring and of the        *)
(* buffer, whether or not the disk fails.  A request is logged when it is  *)
(* answered, and the writer has no other part in the connection: its       *)
(* invariant stands by itself.                                             *)
(***************************************************************************)

(* The last n elements of s, or all when there are fewer.                  *)
Recent(s, n) == SubSeq(s, IF Len(s) > n THEN Len(s) - n + 1 ELSE 1, Len(s))

(* The writer has a line in hand while it writes.                          *)
LineInv == LogTypeOK /\ (writer = "write" => line # <<>>)

-----------------------------------------------------------------------------
(* Lists of lines                                                          *)

(* The most recent elements, one by one.                                   *)
LEMMA RecentProperties ==
  ASSUME NEW S, NEW s \in Seq(S), NEW n \in Nat
  PROVE  /\ Recent(s, n) \in Seq(S)
         /\ Len(Recent(s, n)) = IF Len(s) > n THEN n ELSE Len(s)
         /\ \A i \in 1..Len(Recent(s, n)) :
              Recent(s, n)[i] = s[i + (Len(s) - Len(Recent(s, n)))]
  <1> DEFINE m == IF Len(s) > n THEN Len(s) - n + 1 ELSE 1
             r == SubSeq(s, m, Len(s))
  <1>1. Len(s) \in Nat /\ m \in Int /\ m >= 1 /\ \A i \in m..Len(s) : s[i] \in S
    OBVIOUS
  <1>2. Recent(s, n) = r
    BY DEF Recent
  <1>3. /\ r \in Seq(S)
        /\ Len(r) = IF m <= Len(s) THEN Len(s) - m + 1 ELSE 0
        /\ \A i \in 1..Len(s) - m + 1 : r[i] = s[m + i - 1]
    <2> HIDE DEF m
    <2> QED  BY <1>1, SubSeqProperties
  <1>4. /\ m <= Len(s) => Len(s) - m + 1 = IF Len(s) > n THEN n ELSE Len(s)
        /\ ~(m <= Len(s)) => 0 = IF Len(s) > n THEN n ELSE Len(s)
    BY <1>1
  <1>5. Len(r) = IF Len(s) > n THEN n ELSE Len(s)
    <2> HIDE DEF m, r
    <2> QED  BY <1>3, <1>4
  <1>6. ASSUME NEW i \in 1..Len(r) PROVE r[i] = s[i + (Len(s) - Len(r))]
    <2>1. i \in 1..Len(s) - m + 1 /\ m + i - 1 = i + (Len(s) - Len(r))
      <3> HIDE DEF r
      <3> QED  BY <1>1, <1>5
    <2> QED  BY <1>3, <2>1
  <1> HIDE DEF m, r
  <1> QED  BY <1>2, <1>3, <1>5, <1>6

(* A line that is pushed onto the most recent ones makes the most recent   *)
(* ones with it.                                                           *)
LEMMA PushedIsRecent ==
  ASSUME NEW S, NEW s \in Seq(S), NEW e \in S, NEW n \in Nat \ {0}
  PROVE  Append(IF Len(Recent(s, n)) >= n THEN Tail(Recent(s, n)) ELSE Recent(s, n), e)
           = Recent(Append(s, e), n)
  <1> DEFINE r == Recent(s, n)
             kept == IF Len(r) >= n THEN Tail(r) ELSE r
             t == Append(s, e)
             q == Recent(t, n)
  <1>1. /\ r \in Seq(S)
        /\ Len(r) = IF Len(s) > n THEN n ELSE Len(s)
        /\ \A i \in 1..Len(r) : r[i] = s[i + (Len(s) - Len(r))]
    BY RecentProperties
  <1>2. Len(s) \in Nat /\ Len(r) \in Nat
    BY <1>1
  <1>3. /\ t \in Seq(S) /\ Len(t) = Len(s) + 1
        /\ \A i \in 1..Len(s) : t[i] = s[i]
        /\ t[Len(s) + 1] = e
    BY <1>2, AppendProperties
  <1>4. /\ q \in Seq(S)
        /\ Len(q) = IF Len(t) > n THEN n ELSE Len(t)
        /\ \A i \in 1..Len(q) : q[i] = t[i + (Len(t) - Len(q))]
    <2> HIDE DEF t
    <2> QED  BY <1>3, RecentProperties
  <1> HIDE DEF r, t, q
  <1>5. /\ kept \in Seq(S)
        /\ Len(kept) = IF Len(r) >= n THEN n - 1 ELSE Len(r)
        /\ \A i \in 1..Len(kept) : kept[i] = s[i + (Len(s) - Len(kept))]
    <2>1. CASE Len(r) >= n
      <3>1. r # <<>> /\ Len(r) = n
        BY <1>1, <1>2, <2>1
      <3>2. /\ Tail(r) \in Seq(S) /\ Len(Tail(r)) = n - 1
            /\ \A i \in 1..Len(Tail(r)) : Tail(r)[i] = r[i + 1]
        BY <1>1, <3>1, HeadTailProperties
      <3>3. ASSUME NEW i \in 1..n - 1
            PROVE  Tail(r)[i] = s[i + (Len(s) - (n - 1))]
        <4>1. Tail(r)[i] = r[i + 1] /\ i + 1 \in 1..Len(r)
          BY <1>2, <3>1, <3>2, <3>3
        <4>2. r[i + 1] = s[(i + 1) + (Len(s) - n)]
          BY <1>1, <3>1, <4>1
        <4>3. (i + 1) + (Len(s) - n) = i + (Len(s) - (n - 1))
          BY <1>2
        <4> QED  BY <4>1, <4>2, <4>3
      <3> QED  BY <2>1, <3>2, <3>3
    <2>2. CASE ~(Len(r) >= n)
      BY <1>1, <2>2
    <2> QED  BY <2>1, <2>2
  <1> HIDE DEF kept
  <1>6. /\ Append(kept, e) \in Seq(S)
        /\ Len(Append(kept, e)) = Len(kept) + 1
        /\ \A i \in 1..Len(kept) : Append(kept, e)[i] = kept[i]
        /\ Append(kept, e)[Len(kept) + 1] = e
    BY <1>5, AppendProperties
  <1>7. Len(kept) \in Nat /\ Len(q) = Len(kept) + 1
    BY <1>1, <1>2, <1>3, <1>4, <1>5
  <1>8. ASSUME NEW i \in 1..Len(q) PROVE Append(kept, e)[i] = q[i]
    <2>1. q[i] = t[i + (Len(t) - Len(q))]
      BY <1>4
    <2>2. CASE i <= Len(kept)
      <3>1. i \in 1..Len(kept) /\ i + (Len(t) - Len(q)) = i + (Len(s) - Len(kept))
        BY <1>2, <1>3, <1>7, <2>2
      <3>2. i + (Len(s) - Len(kept)) \in 1..Len(s)
        BY <1>1, <1>2, <1>5, <1>7, <3>1
      <3>3. t[i + (Len(s) - Len(kept))] = s[i + (Len(s) - Len(kept))]
        BY <1>3, <3>2
      <3> QED  BY <1>5, <1>6, <2>1, <3>1, <3>3
    <2>3. CASE ~(i <= Len(kept))
      <3>1. i = Len(kept) + 1 /\ i + (Len(t) - Len(q)) = Len(s) + 1
        BY <1>2, <1>3, <1>7, <2>3
      <3> QED  BY <1>3, <1>6, <2>1, <3>1
    <2> QED  BY <2>2, <2>3
  <1>9. Append(kept, e) = q
    BY <1>4, <1>6, <1>7, <1>8, SeqEqual
  <1> QED  BY <1>9 DEF kept, q, r, t

(* All but the last line, and the last, make the whole.                    *)
LEMMA FrontAndLast ==
  ASSUME NEW S, NEW s \in Seq(S)
  PROVE  /\ \A e \in S : Front(Append(s, e)) = s
         /\ s # <<>> => /\ Front(s) \in Seq(S) /\ Last(s) \in S
                        /\ Append(Front(s), Last(s)) = s
  <1>1. ASSUME NEW t \in Seq(S), t # <<>>
        PROVE  /\ Front(t) \in Seq(S) /\ Len(Front(t)) = Len(t) - 1
               /\ \A i \in 1..Len(t) - 1 : Front(t)[i] = t[i]
               /\ Len(t) \in Nat \ {0}
    <2>1. Len(t) \in Nat \ {0}
      BY <1>1, EmptySeq
    <2>2. 1 \in Int /\ Len(t) - 1 \in Int /\ \A i \in 1..Len(t) - 1 : t[i] \in S
      BY <2>1
    <2> DEFINE f == SubSeq(t, 1, Len(t) - 1)
    <2>3. /\ f \in Seq(S)
          /\ Len(f) = IF 1 <= Len(t) - 1 THEN Len(t) - 1 - 1 + 1 ELSE 0
          /\ \A i \in 1..Len(t) - 1 - 1 + 1 : f[i] = t[1 + i - 1]
      BY <2>2, SubSeqProperties
    <2> HIDE DEF f
    <2>4. Len(f) = Len(t) - 1
      <3>1. Len(f) = IF 1 <= Len(t) - 1 THEN Len(t) - 1 - 1 + 1 ELSE 0
        BY <2>3
      <3>2. PICK k \in Nat \ {0} : k = Len(t)
        BY <2>1
      <3>3. (IF 1 <= k - 1 THEN k - 1 - 1 + 1 ELSE 0) = k - 1
        OBVIOUS
      <3> QED  BY <3>1, <3>2, <3>3, Zenon
    <2>5. ASSUME NEW i \in 1..Len(t) - 1 PROVE f[i] = t[i]
      <3>1. i \in 1..Len(t) - 1 - 1 + 1 /\ 1 + i - 1 = i
        BY <2>1
      <3>2. f[i] = t[1 + i - 1]
        BY <2>3, <3>1
      <3> QED  BY <3>1, <3>2
    <2> QED  BY <2>1, <2>3, <2>4, <2>5 DEF Front, f
  <1>2. ASSUME NEW e \in S PROVE Front(Append(s, e)) = s
    <2> DEFINE t == Append(s, e)
    <2>1. /\ t \in Seq(S) /\ Len(t) = Len(s) + 1 /\ Len(s) \in Nat
          /\ \A i \in 1..Len(s) : t[i] = s[i]
      BY AppendProperties
    <2> HIDE DEF t
    <2>2. t # <<>>
      BY <2>1
    <2>3. Front(t) \in Seq(S) /\ Len(Front(t)) = Len(s) /\ \A i \in 1..Len(s) : Front(t)[i] = s[i]
      BY <1>1, <2>1, <2>2
    <2>4. Front(t) = s
      BY <2>3, SeqEqual
    <2> QED  BY <2>4 DEF t
  <1>3. ASSUME s # <<>>
        PROVE  /\ Front(s) \in Seq(S) /\ Last(s) \in S
               /\ Append(Front(s), Last(s)) = s
    <2> DEFINE f == Front(s)
    <2>1. /\ f \in Seq(S) /\ Len(f) = Len(s) - 1 /\ Len(s) \in Nat \ {0}
          /\ \A i \in 1..Len(s) - 1 : f[i] = s[i]
      BY <1>1, <1>3
    <2>2. Last(s) = s[Len(s)] /\ Last(s) \in S
      BY <2>1 DEF Last
    <2> HIDE DEF f
    <2>3. /\ Append(f, Last(s)) \in Seq(S) /\ Len(Append(f, Last(s))) = Len(s)
          /\ \A i \in 1..Len(s) - 1 : Append(f, Last(s))[i] = f[i]
          /\ Append(f, Last(s))[Len(s)] = Last(s)
      BY <2>1, <2>2, AppendProperties
    <2>4. \A i \in 1..Len(s) : Append(f, Last(s))[i] = s[i]
      BY <2>1, <2>2, <2>3
    <2>5. Append(f, Last(s)) = s
      BY <2>3, <2>4, SeqEqual
    <2> QED  BY <2>1, <2>2, <2>5 DEF f
  <1> QED  BY <1>2, <1>3

(* A line behind the buffer is a line behind all.                          *)
LEMMA ConcatAppend ==
  ASSUME NEW S, NEW s \in Seq(S), NEW t \in Seq(S), NEW e \in S
  PROVE  /\ s \o Append(t, e) = Append(s \o t, e)
         /\ (s \o t) \o <<e>> = Append(s \o t, e)
         /\ s \o t \in Seq(S)
  <1>1. <<e>> \in Seq(S) /\ s \o t \in Seq(S)
    BY ConcatProperties
  <1>2. Append(t, e) = t \o <<e>>
    BY AppendIsConcat
  <1>3. Append(s \o t, e) = (s \o t) \o <<e>>
    BY <1>1, AppendIsConcat
  <1>4. (s \o t) \o <<e>> = s \o (t \o <<e>>)
    BY <1>1, ConcatAssociative
  <1> QED  BY <1>1, <1>2, <1>3, <1>4

-----------------------------------------------------------------------------
(* Invariants                                                              *)

(* Each step leaves lines in the channel, the ring, the buffer and the     *)
(* file, and no more in the buffer than fit.                               *)
LEMMA NextLineInv == LineInv /\ [LogNext]_logVars => LineInv'
  <1> SUFFICES ASSUME LineInv, [LogNext]_logVars PROVE LineInv'
    OBVIOUS
  <1>0. /\ logged \subseteq Entries
        /\ channel \in Seq(Entries) /\ line \in Seq(Entries) /\ ring \in Seq(Entries)
        /\ buffer \in Seq(Entries) /\ file \in Seq(Entries) /\ lost \in Seq(Entries)
        /\ writer \in {"open", "recv", "write", "flush", "ended"}
        /\ Len(buffer) <= BufSize /\ Len(buffer) \in Nat
        /\ BufSize \in Nat \ {0}
        /\ writer = "write" => line # <<>>
        /\ <<>> \in Seq(Entries)
    BY AccessLogAssumption DEF LineInv, LogTypeOK
  <1>1. ASSUME NEW s \in Seq(Entries), NEW e \in Entries
        PROVE  /\ Append(s, e) \in Seq(Entries) /\ Len(Append(s, e)) = Len(s) + 1
               /\ Append(s, e) # <<>>
    BY AppendProperties
  <1>2. ASSUME NEW e \in Entries, Log(e) PROVE LineInv'
    BY <1>0, <1>1, <1>2 DEF Log, LineInv, LogTypeOK
  <1>3. CASE Open
    <2>1. channel' \in Seq(Entries) /\ writer' \in {"recv", "ended"}
      BY <1>0, <1>3 DEF Open, End
    <2> QED  BY <1>0, <1>3, <2>1 DEF Open, LineInv, LogTypeOK
  <1>4. CASE Receive
    <2>1. Head(channel) \in Entries /\ Tail(channel) \in Seq(Entries)
      BY <1>0, <1>4, HeadTailProperties DEF Receive
    <2>2. ring' \in Seq(Entries)
      <3>1. Tail(ring) \in Seq(Entries) \/ ring = <<>>
        BY <1>0, HeadTailProperties
      <3>2. ring = <<>> => ~(Len(ring) >= RingSize)
        BY AccessLogAssumption
      <3>3. (IF Len(ring) >= RingSize THEN Tail(ring) ELSE ring) \in Seq(Entries)
        BY <1>0, <3>1, <3>2
      <3> QED  BY <1>1, <1>4, <2>1, <3>3 DEF Receive, Pushed
    <2>3. line' \in Seq(Entries) /\ line' # <<>> /\ channel' \in Seq(Entries)
      BY <1>0, <1>1, <1>4, <2>1 DEF Receive
    <2> QED  BY <1>0, <1>4, <2>2, <2>3 DEF Receive, LineInv, LogTypeOK
  <1>5. CASE WriteLine
    <2>1. Last(line) \in Entries
      BY <1>0, <1>5, FrontAndLast DEF WriteLine
    <2>2. buffer' \in Seq(Entries) /\ Len(buffer') <= BufSize
      <3>1. /\ Append(buffer, Last(line)) \in Seq(Entries)
            /\ Len(Append(buffer, Last(line))) = Len(buffer) + 1
            /\ <<Last(line)>> \in Seq(Entries) /\ Len(<<Last(line)>>) = 1
        BY <1>0, <1>1, <2>1
      <3>2. CASE Len(buffer) < BufSize
        <4>1. buffer' = Append(buffer, Last(line))
          BY <1>5, <3>2 DEF WriteLine
        <4>2. Len(buffer) + 1 <= BufSize
          BY <1>0, <3>2
        <4> QED  BY <3>1, <4>1, <4>2, Zenon
      <3>3. CASE ~(Len(buffer) < BufSize)
        <4>1. buffer' = <<Last(line)>>
          BY <1>5, <3>3 DEF WriteLine
        <4>2. 1 <= BufSize
          BY <1>0
        <4> QED  BY <3>1, <4>1, <4>2, Zenon
      <3> QED  BY <3>2, <3>3
    <2>3. file' \in Seq(Entries)
      <3>1. file \o buffer \in Seq(Entries)
        BY <1>0, ConcatProperties
      <3>2. file' = file \/ file' = file \o buffer
        BY <1>5 DEF WriteLine
      <3> QED  BY <1>0, <3>1, <3>2, Zenon
    <2> QED  BY <1>0, <1>5, <2>2, <2>3 DEF WriteLine, LineInv, LogTypeOK
  <1>6. CASE LineFails
    BY <1>0, <1>6 DEF LineFails, LineInv, LogTypeOK
  <1>9. CASE LineLost
    <2>1. PICK n \in 0..Len(buffer) - 1 :
            /\ file' = file \o SubSeq(buffer, 1, n)
            /\ lost' = SubSeq(buffer, n + 1, Len(buffer))
      BY <1>9 DEF LineLost
    <2>2. /\ SubSeq(buffer, 1, n) \in Seq(Entries)
          /\ SubSeq(buffer, n + 1, Len(buffer)) \in Seq(Entries)
          /\ file \o SubSeq(buffer, 1, n) \in Seq(Entries)
      <3>1. \A i \in 1..n : i \in 1..Len(buffer)
        BY <1>0
      <3>2. \A i \in (n + 1)..Len(buffer) : i \in 1..Len(buffer)
        BY <1>0
      <3>3. n \in Nat
        BY <1>0
      <3> QED  BY <1>0, <3>1, <3>2, <3>3, SubSeqProperties, ConcatProperties
    <2>3. /\ writer' = "recv" /\ buffer' = <<Last(line)>>
          /\ UNCHANGED <<logged, channel, line, ring>> /\ writer = "write"
      BY <1>9 DEF LineLost
    <2>4. Last(line) \in Entries
      BY <1>0, <2>3, FrontAndLast
    <2>5. <<Last(line)>> \in Seq(Entries) /\ Len(<<Last(line)>>) <= BufSize
      BY <1>0, <2>4
    <2> QED  BY <1>0, <2>1, <2>2, <2>3, <2>5 DEF LineInv, LogTypeOK
  <1>7. CASE LastFlush
    <2>1. file' \in Seq(Entries) /\ buffer' \in Seq(Entries) /\ Len(buffer') <= BufSize
      <3>1. \/ file' = file \o buffer /\ buffer' = <<>>
            \/ UNCHANGED <<file, buffer>>
        BY <1>7 DEF LastFlush
      <3>2. file \o buffer \in Seq(Entries)
        BY <1>0, ConcatProperties
      <3>3. Len(<<>>) <= BufSize
        BY <1>0
      <3> QED  BY <1>0, <3>1, <3>2, <3>3, Zenon
    <2> QED  BY <1>0, <1>7, <2>1 DEF LastFlush, End, LineInv, LogTypeOK
  <1>8. CASE UNCHANGED logVars
    BY <1>8 DEF logVars, LineInv, LogTypeOK
  <1> QED
    BY <1>2, <1>3, <1>4, <1>5, <1>6, <1>7, <1>8, <1>9 DEF LogNext, WriterStep

(* Nothing is logged yet.                                                  *)
LEMMA InitLineInv == LogInit => LineInv
  BY AccessLogAssumption DEF LogInit, LineInv, LogTypeOK

(* GET /api/logs answers from the ring: it holds exactly the most recent   *)
(* lines, oldest first, for every size of the ring and however the file    *)
(* fares (ring_push comes before the write).                               *)
THEOREM RingIsRecentHolds == LogSpec => []RingIsRecent
  <1>1. RingIsRecent <=> ring = Recent(line, RingSize)
    BY DEF RingIsRecent, Recent
  <1>2. LogInit => RingIsRecent
    <2> SUFFICES ASSUME LogInit PROVE RingIsRecent
      OBVIOUS
    <2>1. line = <<>> /\ ring = <<>> /\ line \in Seq(Entries) /\ RingSize \in Nat
      BY AccessLogAssumption DEF LogInit
    <2>2. Recent(line, RingSize) \in Seq(Entries) /\ Len(Recent(line, RingSize)) = 0
      <3>1. Len(line) = 0
        BY <2>1
      <3>2. /\ Recent(line, RingSize) \in Seq(Entries)
            /\ Len(Recent(line, RingSize)) = IF Len(line) > RingSize THEN RingSize ELSE Len(line)
        BY <2>1, RecentProperties
      <3> QED  BY <2>1, <3>1, <3>2
    <2>3. Recent(line, RingSize) = <<>>
      BY <2>2, EmptySeq
    <2> QED  BY <1>1, <2>1, <2>3
  <1>3. LineInv /\ RingIsRecent /\ [LogNext]_logVars => RingIsRecent'
    <2> SUFFICES ASSUME LineInv, RingIsRecent, [LogNext]_logVars PROVE RingIsRecent'
      OBVIOUS
    <2>1. CASE Receive
      <3>1. channel \in Seq(Entries) /\ channel # <<>> /\ line \in Seq(Entries)
        BY <2>1 DEF Receive, LineInv, LogTypeOK
      <3> DEFINE e == Head(channel)
      <3>2. e \in Entries
        BY <3>1, HeadTailProperties
      <3>3. ring' = Append(IF Len(ring) >= RingSize THEN Tail(ring) ELSE ring, e)
            /\ line' = Append(line, e)
        BY <2>1 DEF Receive, Pushed
      <3> HIDE DEF e
      <3>4. ring = Recent(line, RingSize) /\ RingSize \in Nat \ {0}
        BY AccessLogAssumption DEF RingIsRecent, Recent
      <3>5. ring' = Recent(line', RingSize)
        BY <3>1, <3>2, <3>3, <3>4, PushedIsRecent
      <3> QED  BY <3>5 DEF RingIsRecent, Recent
    <2>2. CASE ~Receive
      <3>1. UNCHANGED <<ring, line>>
        BY <2>2 DEF LogNext, WriterStep, Log, Open, WriteLine, LineLost, LineFails, LastFlush, logVars
      <3> QED  BY <3>1 DEF RingIsRecent
    <2> QED  BY <2>1, <2>2
  <1> QED  BY <1>2, <1>3, InitLineInv, NextLineInv, PTL DEF LogSpec

(* Between the channel and the file nothing is repeated or reordered,      *)
(* whatever the size of the BufWriter and wherever it spills, and the disk *)
(* loses the lines of one write at most: the file, that write and the      *)
(* buffer are the lines taken out, up to the one in hand.                  *)
THEOREM FileInOrderHolds == LogSpec => []FileInOrder
  <1>1. LogInit => FileInOrder
    <2> SUFFICES ASSUME LogInit PROVE FileInOrder
      OBVIOUS
    <2>1. <<>> \o <<>> = <<>> /\ <<>> \o <<>> \o <<>> = <<>>
      BY EmptySeq, ConcatEmptySeq
    <2> QED  BY <2>1 DEF LogInit, FileInOrder
  <1>2. LineInv /\ FileInOrder /\ [LogNext]_logVars => FileInOrder'
    <2> SUFFICES ASSUME LineInv, FileInOrder, [LogNext]_logVars PROVE FileInOrder'
      OBVIOUS
    <2>0. /\ channel \in Seq(Entries) /\ line \in Seq(Entries)
          /\ buffer \in Seq(Entries) /\ file \in Seq(Entries) /\ lost \in Seq(Entries)
          /\ file \o lost \in Seq(Entries)
      BY ConcatProperties DEF LineInv, LogTypeOK
    <2>1. CASE Receive
      <3>1. Head(channel) \in Entries /\ line' = Append(line, Head(channel))
            /\ writer = "recv" /\ writer' = "write" /\ UNCHANGED <<file, lost, buffer>>
        BY <2>0, <2>1, HeadTailProperties DEF Receive
      <3>2. Front(line') = line
        BY <2>0, <3>1, FrontAndLast
      <3> QED  BY <3>1, <3>2 DEF FileInOrder
    <2>2. CASE WriteLine
      <3> DEFINE e == Last(line)
                 f == Front(line)
      <3>1. writer = "write" /\ writer' = "recv" /\ line' = line /\ line # <<>>
        BY <2>2 DEF WriteLine, LineInv
      <3>2. file \o lost \o buffer = f /\ lost' = lost
        BY <2>2, <3>1 DEF FileInOrder, WriteLine
      <3>3. e \in Entries /\ Append(f, e) = line
        BY <2>0, <3>1, FrontAndLast
      <3>4. \/ buffer' = Append(buffer, e) /\ file' = file
            \/ lost = <<>> /\ buffer' = <<e>> /\ file' = file \o buffer
        BY <2>2 DEF WriteLine
      <3> HIDE DEF e, f
      <3>5. file' \o lost' \o buffer' = Append(file \o lost \o buffer, e)
        <4>1. CASE buffer' = Append(buffer, e) /\ file' = file
          <5>1. (file \o lost) \o Append(buffer, e) = Append((file \o lost) \o buffer, e)
            BY <2>0, <3>3, ConcatAppend
          <5> QED  BY <3>2, <4>1, <5>1, Zenon
        <4>2. CASE lost = <<>> /\ buffer' = <<e>> /\ file' = file \o buffer
          <5>1. (file \o buffer) \o <<e>> = Append(file \o buffer, e)
            BY <2>0, <3>3, ConcatAppend
          <5>2. file \o lost = file /\ (file \o buffer) \o lost = file \o buffer
            BY <2>0, <4>2, ConcatProperties, ConcatEmptySeq
          <5> QED  BY <3>2, <4>2, <5>1, <5>2, Zenon
        <4> QED  BY <3>4, <4>1, <4>2
      <3> QED  BY <3>1, <3>2, <3>3, <3>5 DEF FileInOrder
    <2>4. CASE LineLost
      <3> DEFINE e == Last(line)
                 f == Front(line)
      <3>1. writer = "write" /\ writer' = "recv" /\ line' = line /\ line # <<>>
            /\ lost = <<>> /\ buffer' = <<e>>
        BY <2>4 DEF LineLost, LineInv
      <3>2. file \o lost \o buffer = f
        BY <3>1 DEF FileInOrder
      <3>3. e \in Entries /\ Append(f, e) = line
        BY <2>0, <3>1, FrontAndLast
      <3>4. PICK n \in 0..Len(buffer) - 1 :
              /\ file' = file \o SubSeq(buffer, 1, n)
              /\ lost' = SubSeq(buffer, n + 1, Len(buffer))
        BY <2>4 DEF LineLost
      <3> DEFINE b == SubSeq(buffer, 1, n)
                 c == SubSeq(buffer, n + 1, Len(buffer))
      <3>5. b \in Seq(Entries) /\ c \in Seq(Entries) /\ b \o c = buffer
        <4>1. /\ 1 \in 1..Len(buffer) + 1 /\ n \in 0..Len(buffer)
              /\ Len(buffer) \in n..Len(buffer) /\ n \in Nat
          BY <2>0
        <4>2. SubSeq(buffer, 1, n) \o SubSeq(buffer, n + 1, Len(buffer))
                = SubSeq(buffer, 1, Len(buffer))
          BY <2>0, <4>1, ConcatAdjacentSubSeq
        <4>3. SubSeq(buffer, 1, Len(buffer)) = buffer
          BY <2>0, SubSeqFull
        <4>4. /\ \A i \in 1..n : i \in 1..Len(buffer)
              /\ \A i \in (n + 1)..Len(buffer) : i \in 1..Len(buffer)
          BY <2>0, <4>1
        <4>5. b \in Seq(Entries) /\ c \in Seq(Entries)
          BY <2>0, <4>1, <4>4, SubSeqProperties
        <4> QED  BY <4>2, <4>3, <4>5
      <3> HIDE DEF e, f, b, c
      <3>6. file' \o lost' = file \o buffer
        <4>1. (file \o b) \o c = file \o (b \o c)
          <5>1. file \in Seq(Entries) /\ b \in Seq(Entries) /\ c \in Seq(Entries)
            BY <2>0, <3>5
          <5> QED  BY <5>1, ConcatAssociative
        <4>2. file' = file \o b /\ lost' = c
          BY <3>4 DEF b, c
        <4> QED  BY <3>5, <4>1, <4>2, Zenon
      <3>7. file \o lost = file
        BY <2>0, <3>1, ConcatEmptySeq
      <3>8. (file \o buffer) \o <<e>> = Append(file \o buffer, e)
        BY <2>0, <3>3, ConcatAppend
      <3>9. file' \o lost' \o buffer' = line'
        BY <3>1, <3>2, <3>3, <3>6, <3>7, <3>8, Zenon
      <3> QED  BY <3>1, <3>9 DEF FileInOrder
    <2>3. CASE ~Receive /\ ~WriteLine /\ ~LineLost
      BY <2>3
         DEF LogNext, WriterStep, Log, Open, End, LineFails, LastFlush, logVars, FileInOrder
    <2> QED  BY <2>1, <2>2, <2>3, <2>4
  <1> QED  BY <1>1, <1>2, InitLineInv, NextLineInv, PTL DEF LogSpec
=============================================================================
