-------------------------- MODULE LifecycleProofs --------------------------
(***************************************************************************)
(* Proofs about Lifecycle, for any number of runs, ports, pids, kills and  *)
(* failures, and every host: its types, that the pid file admits one owner *)
(* of the ICMP rules, and that rules and open ports outlive what the other *)
(* runs remove.                                                            *)
(***************************************************************************)
EXTENDS Lifecycle, TLAPS, NaturalsInduction, SequenceTheorems, FiniteSetTheorems,
        FunctionTheorems

(* Rules are set up where there is a tool for it.                          *)
ToolOK == \A r \in Runs : run[r].pc = "apply" => IcmpBackend # "none"

(* What a run has at each stage: an owner has set up its rules, a teardown *)
(* is an owner's, ports are opened once, and closed all at once.           *)
Stage(r) ==
  /\ run[r].pid = NoPid <=> run[r].pc \in {"off", "gone"}
  /\ run[r].owner => run[r].pc \in {"spawn", "open", "serve", "teardown", "returned"}
  /\ run[r].pc = "teardown" => run[r].owner
  /\ run[r].seen # {} => run[r].pc = "teardown"
  /\ run[r].sig # "none" => run[r].pc \in {"serve", "teardown", "returned"}
  /\ run[r].opened # {} => run[r].pc \in {"open", "serve", "teardown", "returned"}
  /\ run[r].pc = "open" => run[r].opened \cap run[r].todo = {}
  /\ run[r].sig = "closing" => run[r].opened = {}

StageInv == TypeOK /\ ToolOK /\ \A r \in Runs : Stage(r)

(* The rules are a tool's, and the rules a teardown lists are nft's.       *)
ToolUse ==
  \A r \in Runs :
    /\ run[r].owner => IcmpBackend # "none"
    /\ run[r].seen # {} => IcmpBackend = "nft"

(* Two processes have two pids.                                            *)
OnePid == \A r, s \in Runs : run[r].pid = run[s].pid => run[r].pid = NoPid \/ r = s

(* The pid file did its work so far.                                       *)
Exclusive == ~past.raced /\ ~past.unlocked

(* One setup at a time; and while a run owns the rules the pid file names  *)
(* it, and nobody sets up rules.                                           *)
OwnerInv ==
  /\ ~past.raced =>
       \A r, s \in Runs : run[r].pc = "apply" /\ run[s].pc = "apply" => r = s
  /\ Exclusive =>
       \A r \in Runs : run[r].owner /\ run[r].pc # "returned" =>
         /\ pid_file = run[r].pid
         /\ \A s \in Runs : run[s].pc # "apply"

(* Run r has inserted its n-th rule and has not removed it yet.            *)
HasRule(r, n) ==
  \/ run[r].pc = "apply" /\ run[r].at > n
  \/ Guards(r)
  \/ run[r].pc = "teardown" /\ run[r].at <= n

WithRule(n) == {r \in Runs : HasRule(r, n)}

(* How many elements of list s are in Q.                                   *)
Occurrences(s, Q) == Cardinality({i \in 1..Len(s) : s[i] \in Q})

ReadsLike(n) == {rule \in Rule : rule.verdict = Cmds[n]}

(* With iptables there are at least as many rules of each text as runs     *)
(* that have one.                                                          *)
TextInv ==
  IcmpBackend = "iptables" =>
    \A n \in 1..2 : Cardinality(WithRule(n)) <= Occurrences(chain, ReadsLike(n))

(* With nft what a setup or an owner has inserted is there.                *)
HandleInv ==
  IcmpBackend = "nft" /\ Exclusive =>
    \A r \in Runs, n \in 1..2 :
      Guards(r) \/ (run[r].pc = "apply" /\ run[r].at > n) =>
        \E i \in 1..Len(chain) : chain[i].verdict = Cmds[n]

GuardInv ==
  /\ StageInv
  /\ ToolUse
  /\ OnePid
  /\ OwnerInv
  /\ TextInv
  /\ HandleInv

(* The runs that have port p open.                                         *)
Keepers(p) == {r \in Runs : Holds(r, p)}

(* Where each open port has a rule of its own: no run lacks one.           *)
EnoughRules(p) ==
  ~host.dry_run /\ FwBackend # "ufw" =>
    Cardinality(Keepers(p)) <= Occurrences(rules, {p})

(* Where rules can be removed: none is left over.                          *)
NoRuleLeft(p) ==
  ~host.dry_run /\ FwBackend \notin {"ufw", "nftables"} /\ ~past.dirty =>
    Occurrences(rules, {p}) <= Cardinality(Keepers(p))

(* With ufw a port has one rule: it is there while its only run keeps the  *)
(* port open, and goes with the last run.                                  *)
OneUfwRule(p) ==
  ~host.dry_run /\ FwBackend = "ufw" =>
    /\ Occurrences(rules, {p}) <= 1
    /\ Keepers(p) = {} /\ ~past.dirty => Occurrences(rules, {p}) = 0
    /\ Keepers(p) # {} /\ p \notin past.shared => Occurrences(rules, {p}) = 1

NotShared(p) == p \notin past.shared => \A r, s \in Keepers(p) : r = s

PortInv(p) ==
  /\ EnoughRules(p)
  /\ NoRuleLeft(p)
  /\ OneUfwRule(p)
  /\ NotShared(p)

FirewallInv ==
  /\ StageInv
  /\ host.dry_run => rules = <<>>
  /\ \A p \in Ports : PortInv(p)

-----------------------------------------------------------------------------
(* Lists of rules                                                          *)

(* A rule is deleted by its place: what follows moves up.                  *)
LEMMA RemoveAtProperties ==
  ASSUME NEW S, NEW s \in Seq(S), NEW k \in 1..Len(s)
  PROVE  /\ RemoveAt(s, k) \in Seq(S)
         /\ Len(RemoveAt(s, k)) = Len(s) - 1
         /\ \A i \in 1..Len(s) - 1 :
              RemoveAt(s, k)[i] = IF i < k THEN s[i] ELSE s[i + 1]
  <1> DEFINE before == SubSeq(s, 1, k - 1)
             after  == SubSeq(s, k + 1, Len(s))
  <1>1. Len(s) \in Nat /\ \A i \in 1..Len(s) : s[i] \in S
    OBVIOUS
  <1>2. /\ before \in Seq(S)
        /\ Len(before) = k - 1
        /\ \A i \in 1..k - 1 : before[i] = s[i]
    BY <1>1, SubSeqProperties
  <1>3. /\ after \in Seq(S)
        /\ Len(after) = Len(s) - k
        /\ \A i \in 1..Len(s) - k : after[i] = s[k + i]
    BY <1>1, SubSeqProperties
  <1>4. RemoveAt(s, k) = before \o after
    BY DEF RemoveAt
  <1> HIDE DEF before, after
  <1>5. /\ before \o after \in Seq(S)
        /\ Len(before \o after) = Len(s) - 1
        /\ \A i \in 1..Len(s) - 1 : (before \o after)[i] =
             IF i <= k - 1 THEN before[i] ELSE after[i - (k - 1)]
    <2>1. /\ before \o after \in Seq(S)
          /\ Len(before \o after) = Len(before) + Len(after)
          /\ \A i \in 1..Len(before) + Len(after) : (before \o after)[i] =
               IF i <= Len(before) THEN before[i] ELSE after[i - Len(before)]
      BY <1>2, <1>3, ConcatProperties
    <2>2. Len(before) + Len(after) = Len(s) - 1
      BY <1>1, <1>2, <1>3
    <2> QED  BY <1>2, <2>1, <2>2
  <1>6. \A i \in 1..Len(s) - 1 : (before \o after)[i] =
          IF i < k THEN s[i] ELSE s[i + 1]
    <2> TAKE i \in 1..Len(s) - 1
    <2>1. CASE i < k
      BY <1>1, <1>2, <1>5, <2>1
    <2>2. CASE ~(i < k)
      <3>1. i - (k - 1) \in 1..Len(s) - k /\ k + (i - (k - 1)) = i + 1
        BY <1>1, <2>2
      <3> QED  BY <1>1, <1>3, <1>5, <2>2, <3>1
    <2> QED  BY <2>1, <2>2
  <1> QED  BY <1>4, <1>5, <1>6

(* A set of natural numbers that is not empty has a smallest element.      *)
LEMMA MinBelongs ==
  ASSUME NEW S \in SUBSET Nat, S # {}
  PROVE  /\ Min(S) \in S
         /\ \A x \in S : Min(S) <= x
  <1> DEFINE less == OpToRel(<, Nat)
  <1>1. IsWellFoundedOn(less, Nat)
    BY NatLessThanWellFounded
  <1>2. \A x, y \in Nat : y < x => <<y, x>> \in less
    BY DEF OpToRel
  <1> HIDE DEF less
  <1>3. PICK x \in S : \A y \in S : ~ (<<y, x>> \in less)
    BY <1>1, WFMin
  <1>4. ASSUME NEW y \in S
        PROVE  x <= y
    <2>1. x \in Nat /\ y \in Nat
      OBVIOUS
    <2>2. ~ (y < x)
      <3>1. ~ (<<y, x>> \in less)
        BY <1>3
      <3> QED
        BY <1>2, <2>1, <3>1, Zenon
    <2> QED
      BY <2>1, <2>2
  <1> QED
    BY <1>4 DEF Min

(* A rule is deleted by its text: the first that reads like it goes.       *)
LEMMA RemoveFirstProperties ==
  ASSUME NEW s, Len(s) \in Nat, NEW e
  PROVE  \/ (\A i \in 1..Len(s) : s[i] # e) /\ RemoveFirst(s, e) = s
         \/ \E k \in 1..Len(s) : s[k] = e /\ RemoveFirst(s, e) = RemoveAt(s, k)
  <1>1. CASE \A i \in 1..Len(s) : s[i] # e
    BY <1>1 DEF RemoveFirst
  <1>2. CASE \E i \in 1..Len(s) : s[i] = e
    <2> DEFINE places == {i \in 1..Len(s) : s[i] = e}
    <2>1. RemoveFirst(s, e) = RemoveAt(s, Min(places))
      BY <1>2 DEF RemoveFirst, SelectInSeq
    <2>2. places \in SUBSET Nat /\ places # {}
      BY <1>2
    <2>3. Min(places) \in places
      <3> HIDE DEF places
      <3> QED  BY <2>2, MinBelongs
    <2> QED  BY <2>1, <2>3
  <1> QED  BY <1>1, <1>2

(* A teardown with iptables deletes a rule of the verdict it is at, or none. *)
LEMMA RemoveByTextRemoves ==
  ASSUME Len(chain) \in Nat, NEW r, RemoveByText(r)
  PROVE  \/ chain' = chain
         \/ \E k \in 1..Len(chain) : /\ chain[k].verdict = Cmds[run[r].at]
                                      /\ chain' = RemoveAt(chain, k)
  <1> DEFINE places == {i \in 1..Len(chain) : chain[i].verdict = Cmds[run[r].at]}
  <1>1. chain' = chain \/ (places # {} /\ chain' = RemoveAt(chain, Min(places)))
    BY DEF RemoveByText, RemoveFirstMatch, SelectInSeq
  <1>2. places \in SUBSET Nat
    OBVIOUS
  <1>3. places # {} => Min(places) \in places
    <2> HIDE DEF places
    <2> QED  BY <1>2, MinBelongs
  <1> QED  BY <1>1, <1>3

-----------------------------------------------------------------------------
(* How many there are                                                      *)

(* A one-to-one renaming does not change how many there are.               *)
LEMMA SameSize ==
  ASSUME NEW S, NEW T, IsFiniteSet(S), NEW f \in [S -> T],
         \A a, b \in S : f[a] = f[b] => a = b,
         \A t \in T : \E a \in S : f[a] = t
  PROVE  Cardinality(T) = Cardinality(S)
  <1>1. f \in Bijection(S, T)
    BY Fun_IsBij
  <1>2. ExistsBijection(S, T)
    BY <1>1 DEF ExistsBijection
  <1> QED  BY <1>2, FS_Bijection

(* A list has finitely many places, and one when there is an element.      *)
LEMMA OccurrencesType ==
  ASSUME NEW s, Len(s) \in Nat, NEW Q
  PROVE  /\ IsFiniteSet({i \in 1..Len(s) : s[i] \in Q})
         /\ Occurrences(s, Q) \in Nat
         /\ Occurrences(s, Q) = 0 <=> \A i \in 1..Len(s) : s[i] \notin Q
  <1> DEFINE I == {i \in 1..Len(s) : s[i] \in Q}
  <1>1. I \in SUBSET (1..Len(s)) /\ IsFiniteSet(1..Len(s))
    BY FS_Interval
  <1>2. IsFiniteSet(I)
    <2> HIDE DEF I
    <2> QED  BY <1>1, FS_Subset
  <1>3. Cardinality(I) \in Nat /\ (Cardinality(I) = 0 <=> I = {})
    <2> HIDE DEF I
    <2> QED  BY <1>2, FS_CardinalityType, FS_EmptySet
  <1> QED  BY <1>2, <1>3 DEF Occurrences

(* A rule that is appended is one more.                                    *)
LEMMA AppendOccurrences ==
  ASSUME NEW S, NEW s \in Seq(S), NEW e \in S, NEW Q
  PROVE  Occurrences(Append(s, e), Q)
           = IF e \in Q THEN Occurrences(s, Q) + 1 ELSE Occurrences(s, Q)
  <1> DEFINE I == {i \in 1..Len(s) : s[i] \in Q}
             J == {i \in 1..Len(Append(s, e)) : Append(s, e)[i] \in Q}
  <1>1. Len(s) \in Nat /\ Len(s) + 1 \notin I
    OBVIOUS
  <1>2. J = IF e \in Q THEN I \cup {Len(s) + 1} ELSE I
    BY AppendProperties
  <1>3. IsFiniteSet(I)
    BY <1>1, OccurrencesType
  <1> HIDE DEF I, J
  <1>4. Cardinality(J) = IF e \in Q THEN Cardinality(I) + 1 ELSE Cardinality(I)
    BY <1>1, <1>2, <1>3, FS_AddElement
  <1> QED  BY <1>4 DEF Occurrences, I, J

(* So is one that is inserted in front.                                    *)
LEMMA PrependOccurrences ==
  ASSUME NEW S, NEW s \in Seq(S), NEW e \in S, NEW Q
  PROVE  Occurrences(<<e>> \o s, Q)
           = IF e \in Q THEN Occurrences(s, Q) + 1 ELSE Occurrences(s, Q)
  <1> DEFINE t == <<e>> \o s
             I == {i \in 1..Len(s) : s[i] \in Q}
             J == {i \in 1..Len(t) : t[i] \in Q}
             K == {i \in 2..Len(t) : t[i] \in Q}
             f == [i \in I |-> i + 1]
  <1>1. Len(s) \in Nat /\ <<e>> \in Seq(S) /\ Len(<<e>>) = 1 /\ <<e>>[1] = e
    OBVIOUS
  <1>2. /\ Len(t) = Len(s) + 1
        /\ t[1] = e
        /\ \A i \in 2..Len(t) : t[i] = s[i - 1]
    BY <1>1, ConcatProperties
  <1> HIDE DEF t
  <1>3. f \in [I -> K] /\ \A a, b \in I : f[a] = f[b] => a = b
    BY <1>1, <1>2
  <1>4. \A k \in K : k - 1 \in I /\ f[k - 1] = k
    BY <1>1, <1>2
  <1>5. IsFiniteSet(I)
    BY <1>1, OccurrencesType
  <1>6. J = (IF e \in Q THEN K \cup {1} ELSE K) /\ 1 \notin K
    BY <1>1, <1>2
  <1> HIDE DEF I, J, K, f
  <1>7. Cardinality(K) = Cardinality(I)
    BY <1>3, <1>4, <1>5, SameSize
  <1>8. IsFiniteSet(K)
    <2>1. f \in Bijection(I, K)
      BY <1>3, <1>4, Fun_IsBij
    <2> QED  BY <1>5, <2>1, FS_Bijection DEF ExistsBijection
  <1>9. Cardinality(J) = IF e \in Q THEN Cardinality(I) + 1 ELSE Cardinality(I)
    BY <1>6, <1>7, <1>8, FS_AddElement
  <1> QED  BY <1>9 DEF Occurrences, I, J, t

(* A rule that is removed is one less.                                     *)
LEMMA RemoveAtOccurrences ==
  ASSUME NEW S, NEW s \in Seq(S), NEW k \in 1..Len(s), NEW Q
  PROVE  Occurrences(RemoveAt(s, k), Q)
           = IF s[k] \in Q THEN Occurrences(s, Q) - 1 ELSE Occurrences(s, Q)
  <1> DEFINE t == RemoveAt(s, k)
             I == {i \in 1..Len(s) : s[i] \in Q}
             J == {i \in 1..Len(t) : t[i] \in Q}
             f == [j \in J |-> IF j < k THEN j ELSE j + 1]
  <1>1. Len(s) \in Nat
    OBVIOUS
  <1>2. /\ Len(t) = Len(s) - 1
        /\ \A i \in 1..Len(s) - 1 : t[i] = IF i < k THEN s[i] ELSE s[i + 1]
    BY RemoveAtProperties
  <1> HIDE DEF t
  <1>3. f \in [J -> I \ {k}] /\ \A a, b \in J : f[a] = f[b] => a = b
    <2>1. ASSUME NEW j \in J PROVE f[j] \in I \ {k}
      <3>1. CASE j < k
        BY <1>1, <1>2, <3>1
      <3>2. CASE ~(j < k)
        BY <1>1, <1>2, <3>2
      <3> QED  BY <3>1, <3>2
    <2>2. ASSUME NEW a \in J, NEW b \in J, f[a] = f[b] PROVE a = b
      BY <1>1, <1>2, <2>2
    <2> HIDE DEF I, J
    <2> QED  BY <2>1, <2>2
  <1>4. \A i \in I \ {k} : \E j \in J : f[j] = i
    <2> TAKE i \in I \ {k}
    <2>1. CASE i < k
      BY <1>1, <1>2, <2>1
    <2>2. CASE i > k
      <3>1. i - 1 \in J /\ f[i - 1] = i
        BY <1>1, <1>2, <2>2
      <3> QED  BY <3>1
    <2> QED  BY <2>1, <2>2
  <1>5. IsFiniteSet(I) /\ IsFiniteSet(J)
    <2>1. Len(t) \in Nat
      BY <1>1, <1>2
    <2> QED  BY <1>1, <2>1, OccurrencesType
  <1>6. k \in I <=> s[k] \in Q
    OBVIOUS
  <1> HIDE DEF I, J, f
  <1>7. Cardinality(I \ {k}) = Cardinality(J)
    BY <1>3, <1>4, <1>5, SameSize
  <1>8. Cardinality(J) = IF s[k] \in Q THEN Cardinality(I) - 1 ELSE Cardinality(I)
    BY <1>5, <1>6, <1>7, FS_RemoveElement
  <1> QED  BY <1>8 DEF Occurrences, I, J, t

-----------------------------------------------------------------------------
(* Types                                                                   *)

(* The text of each rule, by its number.                                   *)
LEMMA CmdsType ==
  Len(Cmds) = 2 /\ \A n \in 1..2 : Cmds[n] \in {"accept", "drop"}
  BY DEF Cmds

(* A host has one backend or none.                                         *)
LEMMA IcmpBackendType == IcmpBackend \in {"nft", "iptables", "none"}
  BY DEF IcmpBackend

(* Every host starts with nothing of ours on it.                           *)
LEMMA InitTypeOK == Init => TypeOK
  BY LifecycleAssumption DEF Init, TypeOK, NotRunning, NoPast, RunState

(* How far the commands of a run are, at the stages where there are any.   *)
AtOK == \A r \in Runs : run[r].pc \in {"apply", "teardown", "returned"} \/ run[r].at = 1

(* The state of a run is replaced by one of the right kind.                *)
LEMMA RunUpdate ==
  ASSUME TypeOK, NEW r \in Runs, NEW x \in RunState, run' = [run EXCEPT ![r] = x]
  PROVE  run' \in [Runs -> RunState]
  BY DEF TypeOK

(* Each step of a run leaves it in a state of the right kind.              *)
LEMMA RunStates == TypeOK /\ [Next]_vars => run' \in [Runs -> RunState]
  <1> SUFFICES ASSUME TypeOK, [Next]_vars PROVE run' \in [Runs -> RunState]
    OBVIOUS
  <1>0. \A r \in Runs : run[r] \in RunState
    BY DEF TypeOK
  <1>1. ASSUME NEW r \in Runs, Start(r)
        PROVE  run' \in [Runs -> RunState]
    <2>1. PICK i \in Pids : run' = [run EXCEPT ![r] = [run[r] EXCEPT !.pc = "check", !.pid = i]]
      BY <1>1 DEF Start
    <2> DEFINE x == [run[r] EXCEPT !.pc = "check", !.pid = i]
    <2>2. x \in RunState
      BY <1>0, Zenon DEF RunState
    <2>3. run' = [run EXCEPT ![r] = x]
      BY <2>1
    <2> HIDE DEF x
    <2> QED  BY <2>2, <2>3, RunUpdate
  <1>2. ASSUME NEW r \in Runs, CheckLock(r)
        PROVE  run' \in [Runs -> RunState]
    <2> DEFINE x1 == [run[r] EXCEPT !.pc = "spawn"]
    <2> DEFINE x2 == [run[r] EXCEPT !.pc = "apply"]
    <2>1. x1 \in RunState
      BY <1>0, Zenon DEF RunState
    <2>2. x2 \in RunState
      BY <1>0, Zenon DEF RunState
    <2>3. run' = [run EXCEPT ![r] = x1] \/ run' = [run EXCEPT ![r] = x2]
      BY <1>2 DEF CheckLock
    <2> HIDE DEF x1, x2
    <2> QED  BY <2>1, <2>2, <2>3, RunUpdate
  <1>3. ASSUME NEW r \in Runs, Apply(r)
        PROVE  run' \in [Runs -> RunState]
    <2> DEFINE x1 == [run[r] EXCEPT !.at = @ + 1]
    <2> DEFINE x2 == [run[r] EXCEPT !.at = 1, !.pc = "spawn"]
    <2>1. run[r].at \in 1..2 /\ run[r].at + 1 \in 1..3
      BY <1>0, <1>3, CmdsType DEF Apply, RunState
    <2>2. x1 \in RunState
      BY <1>0, <2>1, Zenon DEF RunState
    <2>3. 1 \in 1..3
      OBVIOUS
    <2>4. x2 \in RunState
      BY <1>0, <2>3, Zenon DEF RunState
    <2>5. run' = [run EXCEPT ![r] = x1] \/ run' = [run EXCEPT ![r] = x2]
      BY <1>3 DEF Apply
    <2> HIDE DEF x1, x2
    <2> QED  BY <2>2, <2>4, <2>5, RunUpdate
  <1>4. ASSUME NEW r \in Runs, WriteLock(r)
        PROVE  run' \in [Runs -> RunState]
    <2> DEFINE x1 == [run[r] EXCEPT !.at = 1, !.pc = "spawn", !.owner = TRUE]
    <2>1. 1 \in 1..3
      OBVIOUS
    <2>2. x1 \in RunState
      BY <1>0, <2>1, Zenon DEF RunState
    <2>3. run' = [run EXCEPT ![r] = x1]
      BY <1>4 DEF WriteLock
    <2> HIDE DEF x1
    <2> QED  BY <2>2, <2>3, RunUpdate
  <1>5. ASSUME NEW r \in Runs, Serve(r)
        PROVE  run' \in [Runs -> RunState]
    <2> DEFINE x1 == [run[r] EXCEPT !.pc = "serve", !.sig = "spawned"]
    <2>1. x1 \in RunState
      BY <1>0, Zenon DEF RunState
    <2>2. run' = [run EXCEPT ![r] = x1]
      BY <1>5 DEF Serve
    <2> HIDE DEF x1
    <2> QED  BY <2>1, <2>2, RunUpdate
  <1>6. ASSUME NEW r \in Runs, Arm(r)
        PROVE  run' \in [Runs -> RunState]
    <2> DEFINE x1 == [run[r] EXCEPT !.sig = "armed"]
    <2>1. x1 \in RunState
      BY <1>0, Zenon DEF RunState
    <2>2. run' = [run EXCEPT ![r] = x1]
      BY <1>6 DEF Arm
    <2> HIDE DEF x1
    <2> QED  BY <2>1, <2>2, RunUpdate
  <1>7. ASSUME NEW r \in Runs, CtrlC(r)
        PROVE  run' \in [Runs -> RunState]
    <2> DEFINE x1 == [run[r] EXCEPT !.sig = "closing", !.todo = run[r].opened, !.opened = {}]
    <2>1. x1 \in RunState
      BY <1>0 DEF RunState
    <2>2. run' = [run EXCEPT ![r] = x1]
      BY <1>7 DEF CtrlC
    <2> HIDE DEF x1
    <2> QED  BY <2>1, <2>2, RunUpdate
  <1>8. ASSUME NEW r \in Runs, HandlesEnd(r)
        PROVE  run' \in [Runs -> RunState]
    <2> DEFINE x1 == [run[r] EXCEPT !.pc = "teardown"]
    <2> DEFINE x2 == [run[r] EXCEPT !.pc = "returned"]
    <2>1. x1 \in RunState
      BY <1>0, Zenon DEF RunState
    <2>2. x2 \in RunState
      BY <1>0, Zenon DEF RunState
    <2>3. run' = [run EXCEPT ![r] = x1] \/ run' = [run EXCEPT ![r] = x2]
      BY <1>8 DEF HandlesEnd
    <2> HIDE DEF x1, x2
    <2> QED  BY <2>1, <2>2, <2>3, RunUpdate
  <1>9. ASSUME NEW r \in Runs, RemoveByText(r)
        PROVE  run' \in [Runs -> RunState]
    <2> DEFINE x1 == [run[r] EXCEPT !.at = @ + 1]
    <2>1. run[r].at \in 1..2 /\ run[r].at + 1 \in 1..3
      BY <1>0, <1>9, CmdsType DEF RemoveByText, RunState
    <2>2. x1 \in RunState
      BY <1>0, <2>1, Zenon DEF RunState
    <2>3. run' = [run EXCEPT ![r] = x1]
      BY <1>9 DEF RemoveByText
    <2> HIDE DEF x1
    <2> QED  BY <2>2, <2>3, RunUpdate
  <1>10. ASSUME NEW r \in Runs, ListRules(r)
        PROVE  run' \in [Runs -> RunState]
    <2> DEFINE x1 == [run[r] EXCEPT !.at = 2, !.seen = ToSet(chain)]
    <2> DEFINE x2 == [run[r] EXCEPT !.at = 2, !.seen = {}]
    <2>1. 2 \in 1..3 /\ ToSet(chain) \in SUBSET Rule
      BY DEF ToSet, TypeOK
    <2>2. x1 \in RunState
      BY <1>0, <2>1, Zenon DEF RunState
    <2>3. 2 \in 1..3 /\ {} \in SUBSET Rule
      OBVIOUS
    <2>4. x2 \in RunState
      BY <1>0, <2>3, Zenon DEF RunState
    <2>5. run' = [run EXCEPT ![r] = x1] \/ run' = [run EXCEPT ![r] = x2]
      BY <1>10 DEF ListRules
    <2> HIDE DEF x1, x2
    <2> QED  BY <2>2, <2>4, <2>5, RunUpdate
  <1>11. ASSUME NEW r \in Runs, Unlock(r)
        PROVE  run' \in [Runs -> RunState]
    <2> DEFINE x1 == [run[r] EXCEPT !.pc = "returned"]
    <2>1. x1 \in RunState
      BY <1>0, Zenon DEF RunState
    <2>2. run' = [run EXCEPT ![r] = x1]
      BY <1>11 DEF Unlock
    <2> HIDE DEF x1
    <2> QED  BY <2>1, <2>2, RunUpdate
  <1>12. ASSUME NEW r \in Runs, RemoveByHandle(r)
        PROVE  run' \in [Runs -> RunState]
    <2>1. PICK rule : run' = [run EXCEPT ![r].seen = @ \ {rule}]
      BY <1>12 DEF RemoveByHandle
    <2> DEFINE x == [run[r] EXCEPT !.seen = @ \ {rule}]
    <2>2. x \in RunState
      BY <1>0 DEF RunState
    <2>3. run' = [run EXCEPT ![r] = x]
      BY <2>1
    <2> HIDE DEF x
    <2> QED  BY <2>2, <2>3, RunUpdate
  <1>13. ASSUME NEW r \in Runs, Spawn(r)
        PROVE  run' \in [Runs -> RunState]
    <2>1. Config[r] \in SUBSET Ports
      BY LifecycleAssumption
    <2> DEFINE tasks == [p \in Ports |-> IF p \in Config[r] THEN "spawned" ELSE "none"]
               ports == IF FwBackend = "none" THEN {} ELSE Config[r]
               x == [run[r] EXCEPT !.pc = "open", !.listener = tasks, !.todo = ports]
    <2>2. /\ tasks \in [Ports -> {"none", "spawned", "bound", "failed"}]
          /\ ports \in SUBSET Ports
      BY <2>1
    <2>3. run' = [run EXCEPT ![r] = x]
      BY <1>13 DEF Spawn
    <2> HIDE DEF tasks, ports
    <2>4. x \in RunState
      BY <1>0, <2>2, Zenon DEF RunState
    <2> HIDE DEF x
    <2> QED  BY <2>3, <2>4, RunUpdate
  <1>14. ASSUME NEW r \in Runs, NEW p \in Ports, Bind(r, p)
        PROVE  run' \in [Runs -> RunState]
    <2> DEFINE x1 == [run[r] EXCEPT !.listener[p] = "bound"]
    <2> DEFINE x2 == [run[r] EXCEPT !.listener[p] = "failed"]
    <2>1. x1 \in RunState
      BY <1>0, Zenon DEF RunState
    <2>2. x2 \in RunState
      BY <1>0, Zenon DEF RunState
    <2>3. run' = [run EXCEPT ![r] = x1] \/ run' = [run EXCEPT ![r] = x2]
      BY <1>14 DEF Bind
    <2> HIDE DEF x1, x2
    <2> QED  BY <2>1, <2>2, <2>3, RunUpdate
  <1>15. ASSUME NEW r \in Runs, NEW p \in Ports, OpenPort(r, p)
        PROVE  run' \in [Runs -> RunState]
    <2> DEFINE x1 == [run[r] EXCEPT !.todo = @ \ {p}, !.opened = @ \cup {p}]
    <2> DEFINE x2 == [run[r] EXCEPT !.todo = @ \ {p}]
    <2>1. x1 \in RunState
      BY <1>0 DEF RunState
    <2>2. x2 \in RunState
      BY <1>0 DEF RunState
    <2>3. run' = [run EXCEPT ![r] = x1] \/ run' = [run EXCEPT ![r] = x2]
      BY <1>15 DEF OpenPort
    <2> HIDE DEF x1, x2
    <2> QED  BY <2>1, <2>2, <2>3, RunUpdate
  <1>16. ASSUME NEW r \in Runs, NEW p \in Ports, ClosePort(r, p)
        PROVE  run' \in [Runs -> RunState]
    <2> DEFINE x1 == [run[r] EXCEPT !.todo = @ \ {p}]
    <2>1. x1 \in RunState
      BY <1>0 DEF RunState
    <2>2. run' = [run EXCEPT ![r] = x1]
      BY <1>16 DEF ClosePort
    <2> HIDE DEF x1
    <2> QED  BY <2>1, <2>2, RunUpdate
  <1>17. ASSUME NEW r \in Runs, Exit(r) \/ End(r) \/ Kill(r)
        PROVE  run' \in [Runs -> RunState]
    <2>1. NotRunning("gone") \in RunState
      BY DEF NotRunning, RunState
    <2>2. run' = [run EXCEPT ![r] = NotRunning("gone")]
      BY <1>17 DEF Exit, End, Kill, Dies
    <2> QED  BY <2>1, <2>2, RunUpdate
  <1>18. CASE Stranger \/ UNCHANGED vars
    BY <1>18 DEF Stranger, vars, TypeOK
  <1> QED
    BY <1>1, <1>2, <1>3, <1>4, <1>5, <1>6, <1>7, <1>8, <1>9, <1>10, <1>11, <1>12, <1>13, <1>14, <1>15, <1>16, <1>17, <1>18 DEF Next, MainStep, TaskStep

(* The steps of the guard keep the types.                                  *)
LEMMA GuardTypes ==
  ASSUME TypeOK, ToolOK, NEW r \in Runs,
         \/ CheckLock(r) \/ Apply(r) \/ WriteLock(r) \/ HandlesEnd(r)
         \/ RemoveByText(r) \/ ListRules(r) \/ RemoveByHandle(r) \/ Unlock(r)
  PROVE  TypeOK'
  <1>0. /\ run \in [Runs -> RunState] /\ run' \in [Runs -> RunState]
        /\ AtOK
    BY RunStates DEF TypeOK, AtOK, Next, MainStep
  <1>1. CASE CheckLock(r)
    <2>1. AtOK'
      BY <1>0, <1>1 DEF CheckLock, RunState, AtOK
    <2>2. past' \in [raced : BOOLEAN, unlocked : BOOLEAN, shared : SUBSET Ports,
                     dirty : BOOLEAN]
      BY <1>1 DEF CheckLock, TypeOK
    <2> QED  BY <1>0, <1>1, <2>1, <2>2 DEF CheckLock, AtOK, TypeOK
  <1>2. CASE Apply(r)
    <2>1. AtOK'
      BY <1>0, <1>2, CmdsType DEF Apply, RunState, AtOK
    <2>2. used' \in [failures : 0..MaxFailures, kills : 0..MaxKills]
      BY <1>2, LifecycleAssumption DEF Apply, Try, TypeOK
    <2>3. chain' \in Seq(Rule)
      <3>1. run[r].at \in 1..2 /\ Cmds[run[r].at] \in {"accept", "drop"}
        BY <1>2, CmdsType DEF Apply, RunState, TypeOK
      <3>2. \A h \in Runs \cup {"none"} :
              [verdict |-> Cmds[run[r].at], handle |-> h] \in Rule
        BY <3>1 DEF Rule, TypeOK
      <3>3. \/ chain' = chain
            \/ chain' = <<[verdict |-> Cmds[run[r].at], handle |-> "none"]>> \o chain
            \/ chain' = Append(chain, [verdict |-> Cmds[run[r].at], handle |-> r])
        BY <1>2, IcmpBackendType DEF Apply, ToolOK
      <3>4. ASSUME NEW rule \in Rule
            PROVE  <<rule>> \o chain \in Seq(Rule) /\ Append(chain, rule) \in Seq(Rule)
        BY ConcatProperties, AppendProperties DEF TypeOK
      <3> QED  BY <3>2, <3>3, <3>4 DEF TypeOK
    <2> QED  BY <1>0, <1>2, <2>1, <2>2, <2>3 DEF Apply, AtOK, TypeOK
  <1>3. CASE WriteLock(r)
    <2>1. AtOK'
      BY <1>0, <1>3 DEF WriteLock, RunState, AtOK
    <2>2. used' \in [failures : 0..MaxFailures, kills : 0..MaxKills]
      BY <1>3, LifecycleAssumption DEF WriteLock, Try, TypeOK
    <2>3. past' \in [raced : BOOLEAN, unlocked : BOOLEAN, shared : SUBSET Ports,
                     dirty : BOOLEAN]
      BY <1>3 DEF WriteLock, TypeOK
    <2>4. pid_file' \in Pids \cup {"empty", NoPid}
      BY <1>3 DEF WriteLock, RunState, TypeOK
    <2> QED  BY <1>0, <1>3, <2>1, <2>2, <2>3, <2>4 DEF WriteLock, AtOK, TypeOK
  <1>4. CASE HandlesEnd(r)
    <2>1. AtOK'
      BY <1>0, <1>4 DEF HandlesEnd, RunState, AtOK
    <2> QED  BY <1>0, <1>4, <2>1 DEF HandlesEnd, AtOK, TypeOK
  <1>5. CASE RemoveByText(r)
    <2>1. AtOK'
      BY <1>0, <1>5, CmdsType DEF RemoveByText, RunState, AtOK
    <2>2. used' \in [failures : 0..MaxFailures, kills : 0..MaxKills]
      BY <1>5, LifecycleAssumption DEF RemoveByText, Try, TypeOK
    <2>3. chain' \in Seq(Rule)
      BY <1>5, RemoveByTextRemoves, RemoveAtProperties DEF TypeOK
    <2> QED  BY <1>0, <1>5, <2>1, <2>2, <2>3 DEF RemoveByText, AtOK, TypeOK
  <1>6. CASE ListRules(r)
    <2>1. ToSet(chain) \in SUBSET Rule
      BY DEF ToSet, TypeOK
    <2>2. AtOK'
      <3>1. /\ run[r].pc = "teardown"
            /\ \E some : run' = [run EXCEPT ![r].at = 2, ![r].seen = some]
        BY <1>6 DEF ListRules
      <3> QED  BY <1>0, <3>1 DEF AtOK
    <2>3. used' \in [failures : 0..MaxFailures, kills : 0..MaxKills]
      <3>1. \E ok \in BOOLEAN : Try(ok)
        BY <1>6 DEF ListRules
      <3> QED  BY <3>1, LifecycleAssumption DEF Try, TypeOK
    <2> QED  BY <1>0, <1>6, <2>2, <2>3 DEF ListRules, AtOK, TypeOK
  <1>7. CASE RemoveByHandle(r)
    <2>1. AtOK'
      BY <1>0, <1>7 DEF RemoveByHandle, RunState, AtOK
    <2>2. used' \in [failures : 0..MaxFailures, kills : 0..MaxKills]
      BY <1>7, LifecycleAssumption DEF RemoveByHandle, Try, TypeOK
    <2>3. chain' \in Seq(Rule)
      <3>1. \/ chain' = chain
            \/ \E rule : chain' = RemoveFirst(chain, rule)
        BY <1>7 DEF RemoveByHandle, TypeOK
      <3>2. Len(chain) \in Nat
        BY DEF TypeOK
      <3> QED  BY <3>1, <3>2, RemoveFirstProperties, RemoveAtProperties DEF TypeOK
    <2> QED  BY <1>0, <1>7, <2>1, <2>2, <2>3 DEF RemoveByHandle, AtOK, TypeOK
  <1>8. CASE Unlock(r)
    <2>1. AtOK'
      BY <1>0, <1>8 DEF Unlock, RunState, AtOK
    <2> QED  BY <1>0, <1>8, <2>1 DEF Unlock, AtOK, TypeOK
  <1> QED  BY <1>1, <1>2, <1>3, <1>4, <1>5, <1>6, <1>7, <1>8

(* So do the steps of the listeners and of the firewall, a start, an end.  *)
LEMMA NextTypeOK == TypeOK /\ ToolOK /\ [Next]_vars => TypeOK'
  <1> SUFFICES ASSUME TypeOK, ToolOK, [Next]_vars PROVE TypeOK'
    OBVIOUS
  <1>0. /\ run \in [Runs -> RunState] /\ run' \in [Runs -> RunState]
        /\ AtOK
    BY RunStates DEF TypeOK, AtOK, Next, MainStep
  <1>1. ASSUME NEW r \in Runs, Start(r) PROVE TypeOK'
    <2>1. AtOK'
      BY <1>0, <1>1 DEF Start, RunState, AtOK
    <2> QED  BY <1>0, <1>1, <2>1 DEF Start, AtOK, TypeOK
  <1>2. ASSUME NEW r \in Runs, Spawn(r) PROVE TypeOK'
    <2>1. Config[r] \in SUBSET Ports
      BY LifecycleAssumption
    <2>2. AtOK'
      BY <1>0, <1>2, <2>1 DEF Spawn, RunState, AtOK
    <2> QED  BY <1>0, <1>2, <2>2 DEF Spawn, AtOK, TypeOK
  <1>3. ASSUME NEW r \in Runs, NEW p \in Ports, Bind(r, p) PROVE TypeOK'
    <2>1. AtOK'
      BY <1>0, <1>3 DEF Bind, RunState, AtOK
    <2>2. used' \in [failures : 0..MaxFailures, kills : 0..MaxKills]
      BY <1>3, LifecycleAssumption DEF Bind, Try, TypeOK
    <2> QED  BY <1>0, <1>3, <2>1, <2>2 DEF Bind, AtOK, TypeOK
  <1>4. ASSUME NEW r \in Runs, NEW p \in Ports, OpenPort(r, p) PROVE TypeOK'
    <2>1. AtOK'
      BY <1>0, <1>4 DEF OpenPort, RunState, AtOK
    <2>2. used' \in [failures : 0..MaxFailures, kills : 0..MaxKills]
      BY <1>4, LifecycleAssumption DEF OpenPort, Try, TypeOK
    <2>3. past' \in [raced : BOOLEAN, unlocked : BOOLEAN, shared : SUBSET Ports,
                     dirty : BOOLEAN]
      BY <1>4 DEF OpenPort, TypeOK
    <2>4. rules' \in Seq(Ports)
      <3>1. rules' = rules \/ rules' = Append(rules, p)
        BY <1>4 DEF OpenPort, TypeOK
      <3>2. Append(rules, p) \in Seq(Ports)
        BY AppendProperties DEF TypeOK
      <3> QED  BY <3>1, <3>2 DEF TypeOK
    <2> QED  BY <1>0, <1>4, <2>1, <2>2, <2>3, <2>4 DEF OpenPort, AtOK, TypeOK
  <1>5. ASSUME NEW r \in Runs, Serve(r) \/ Arm(r) \/ CtrlC(r) PROVE TypeOK'
    <2>1. AtOK'
      BY <1>0, <1>5 DEF Serve, Arm, CtrlC, RunState, AtOK
    <2> QED  BY <1>0, <1>5, <2>1 DEF Serve, Arm, CtrlC, AtOK, TypeOK
  <1>6. ASSUME NEW r \in Runs, NEW p \in Ports, ClosePort(r, p) PROVE TypeOK'
    <2>1. AtOK'
      BY <1>0, <1>6 DEF ClosePort, RunState, AtOK
    <2>2. used' \in [failures : 0..MaxFailures, kills : 0..MaxKills]
      BY <1>6, LifecycleAssumption DEF ClosePort, Try, TypeOK
    <2>3. past' \in [raced : BOOLEAN, unlocked : BOOLEAN, shared : SUBSET Ports,
                     dirty : BOOLEAN]
      BY <1>6 DEF ClosePort, TypeOK
    <2>4. rules' \in Seq(Ports)
      <3>1. rules' = rules \/ rules' = RemoveFirst(rules, p)
        BY <1>6 DEF ClosePort, TypeOK
      <3>2. Len(rules) \in Nat
        BY DEF TypeOK
      <3> QED  BY <3>1, <3>2, RemoveFirstProperties, RemoveAtProperties DEF TypeOK
    <2> QED  BY <1>0, <1>6, <2>1, <2>2, <2>3, <2>4 DEF ClosePort, AtOK, TypeOK
  <1>7. ASSUME NEW r \in Runs, Dies(r),
               used' \in [failures : 0..MaxFailures, kills : 0..MaxKills]
        PROVE  TypeOK'
    <2>1. AtOK'
      BY <1>0, <1>7 DEF Dies, NotRunning, RunState, AtOK
    <2>2. past' \in [raced : BOOLEAN, unlocked : BOOLEAN, shared : SUBSET Ports,
                     dirty : BOOLEAN]
      BY <1>7 DEF Dies, TypeOK
    <2> QED  BY <1>0, <1>7, <2>1, <2>2 DEF Dies, AtOK, TypeOK
  <1>8. ASSUME NEW r \in Runs, Exit(r) \/ End(r) \/ Kill(r) PROVE TypeOK'
    <2>1. used' \in [failures : 0..MaxFailures, kills : 0..MaxKills]
      BY <1>8, LifecycleAssumption DEF Exit, End, Kill, TypeOK
    <2>2. Dies(r)
      BY <1>8 DEF Exit, End, Kill, TypeOK
    <2> QED  BY <1>0, <1>7, <2>1, <2>2 DEF TypeOK
  <1>9. CASE Stranger
    BY <1>9 DEF Stranger, TypeOK
  <1>10. CASE UNCHANGED vars
    BY <1>10 DEF vars, TypeOK
  <1> QED
    BY <1>1, <1>2, <1>3, <1>4, <1>5, <1>6, <1>8, <1>9, <1>10, GuardTypes
       DEF Next, MainStep, TaskStep

-----------------------------------------------------------------------------
(* Stages                                                                  *)

(* No run has started.                                                     *)
LEMMA InitStageInv == Init => StageInv
  BY InitTypeOK DEF Init, StageInv, ToolOK, Stage, NotRunning

(* A step of a run leaves the others where they are.                       *)
LEMMA OthersStay ==
  ASSUME StageInv, NEW r \in Runs, Stage(r)',
         \A s \in Runs \ {r} : run'[s] = run[s],
         UNCHANGED host, run'[r].pc = "apply" => IcmpBackend # "none"
  PROVE  (ToolOK /\ \A s \in Runs : Stage(s))'
  <1>1. \A s \in Runs \ {r} : Stage(s)'
    BY DEF StageInv, Stage
  <1>2. IcmpBackend' = IcmpBackend
    BY DEF IcmpBackend
  <1>3. ToolOK'
    BY <1>2 DEF StageInv, ToolOK
  <1> QED  BY <1>1, <1>3

(* Each step leads to a stage that may follow.                             *)
LEMMA NextStageInv == StageInv /\ [Next]_vars => StageInv'
  <1> SUFFICES ASSUME StageInv, [Next]_vars
               PROVE  (ToolOK /\ \A s \in Runs : Stage(s))'
    BY NextTypeOK DEF StageInv
  <1>0. /\ \A r \in Runs : run[r] \in RunState /\ Stage(r)
        /\ \A r \in Runs : run[r].pc = "apply" => IcmpBackend # "none"
        /\ NoPid \notin Pids /\ DOMAIN run = Runs
    BY LifecycleAssumption DEF StageInv, TypeOK, ToolOK
  <1>1. ASSUME NEW r \in Runs, Start(r)
        PROVE  (ToolOK /\ \A s \in Runs : Stage(s))'
    <2>1. /\ \A s \in Runs \ {r} : run'[s] = run[s]
          /\ UNCHANGED host
          /\ run'[r].pc = "apply" => IcmpBackend # "none"
      BY <1>0, <1>1 DEF Start
    <2>2. Stage(r)'
      BY <1>0, <1>1 DEF Start, Stage, RunState
    <2> QED  BY <2>1, <2>2, OthersStay
  <1>2. ASSUME NEW r \in Runs, CheckLock(r)
        PROVE  (ToolOK /\ \A s \in Runs : Stage(s))'
    <2>1. /\ \A s \in Runs \ {r} : run'[s] = run[s]
          /\ UNCHANGED host
          /\ run'[r].pc = "apply" => IcmpBackend # "none"
      BY <1>0, <1>2 DEF CheckLock
    <2>2. Stage(r)'
      BY <1>0, <1>2 DEF CheckLock, Stage, RunState
    <2> QED  BY <2>1, <2>2, OthersStay
  <1>3. ASSUME NEW r \in Runs, Apply(r)
        PROVE  (ToolOK /\ \A s \in Runs : Stage(s))'
    <2>1. /\ \A s \in Runs \ {r} : run'[s] = run[s]
          /\ UNCHANGED host
          /\ run'[r].pc = "apply" => IcmpBackend # "none"
      BY <1>0, <1>3 DEF Apply
    <2>2. Stage(r)'
      BY <1>0, <1>3 DEF Apply, Stage, RunState
    <2> QED  BY <2>1, <2>2, OthersStay
  <1>4. ASSUME NEW r \in Runs, WriteLock(r)
        PROVE  (ToolOK /\ \A s \in Runs : Stage(s))'
    <2>1. /\ \A s \in Runs \ {r} : run'[s] = run[s]
          /\ UNCHANGED host
          /\ run'[r].pc = "apply" => IcmpBackend # "none"
      BY <1>0, <1>4 DEF WriteLock
    <2>2. Stage(r)'
      BY <1>0, <1>4 DEF WriteLock, Stage, RunState
    <2> QED  BY <2>1, <2>2, OthersStay
  <1>5. ASSUME NEW r \in Runs, Spawn(r)
        PROVE  (ToolOK /\ \A s \in Runs : Stage(s))'
    <2>1. /\ \A s \in Runs \ {r} : run'[s] = run[s]
          /\ UNCHANGED host
          /\ run'[r].pc = "apply" => IcmpBackend # "none"
      <3>1. \E tasks, ports :
              run' = [run EXCEPT ![r].pc = "open", ![r].listener = tasks,
                                 ![r].todo = ports]
        BY <1>5 DEF Spawn
      <3>2. UNCHANGED host
        BY <1>5 DEF Spawn
      <3> QED  BY <1>0, <3>1, <3>2
    <2>2. Stage(r)'
      <3>1. run'[r] = [run[r] EXCEPT !.pc = "open", !.listener = run'[r].listener,
                                     !.todo = run'[r].todo]
        BY <1>0, <1>5 DEF Spawn
      <3>2. Stage(r) /\ run[r].pc = "spawn" /\ run[r] \in RunState
        BY <1>0, <1>5 DEF Spawn
      <3> QED  BY <3>1, <3>2 DEF Stage, RunState
    <2> QED  BY <2>1, <2>2, OthersStay
  <1>6. ASSUME NEW r \in Runs, NEW p \in Ports, Bind(r, p)
        PROVE  (ToolOK /\ \A s \in Runs : Stage(s))'
    <2>1. /\ \A s \in Runs \ {r} : run'[s] = run[s]
          /\ UNCHANGED host
          /\ run'[r].pc = "apply" => IcmpBackend # "none"
      BY <1>0, <1>6 DEF Bind
    <2>2. Stage(r)'
      BY <1>0, <1>6 DEF Bind, Stage, RunState
    <2> QED  BY <2>1, <2>2, OthersStay
  <1>7. ASSUME NEW r \in Runs, NEW p \in Ports, OpenPort(r, p)
        PROVE  (ToolOK /\ \A s \in Runs : Stage(s))'
    <2>1. /\ \A s \in Runs \ {r} : run'[s] = run[s]
          /\ UNCHANGED host
          /\ run'[r].pc = "apply" => IcmpBackend # "none"
      BY <1>0, <1>7 DEF OpenPort
    <2>2. Stage(r)'
      BY <1>0, <1>7 DEF OpenPort, Stage, RunState
    <2> QED  BY <2>1, <2>2, OthersStay
  <1>8. ASSUME NEW r \in Runs, Serve(r)
        PROVE  (ToolOK /\ \A s \in Runs : Stage(s))'
    <2>1. /\ \A s \in Runs \ {r} : run'[s] = run[s]
          /\ UNCHANGED host
          /\ run'[r].pc = "apply" => IcmpBackend # "none"
      BY <1>0, <1>8 DEF Serve
    <2>2. Stage(r)'
      BY <1>0, <1>8 DEF Serve, Stage, RunState
    <2> QED  BY <2>1, <2>2, OthersStay
  <1>9. ASSUME NEW r \in Runs, Arm(r)
        PROVE  (ToolOK /\ \A s \in Runs : Stage(s))'
    <2>1. /\ \A s \in Runs \ {r} : run'[s] = run[s]
          /\ UNCHANGED host
          /\ run'[r].pc = "apply" => IcmpBackend # "none"
      BY <1>0, <1>9 DEF Arm
    <2>2. Stage(r)'
      BY <1>0, <1>9 DEF Arm, Stage, RunState
    <2> QED  BY <2>1, <2>2, OthersStay
  <1>10. ASSUME NEW r \in Runs, CtrlC(r)
        PROVE  (ToolOK /\ \A s \in Runs : Stage(s))'
    <2>1. /\ \A s \in Runs \ {r} : run'[s] = run[s]
          /\ UNCHANGED host
          /\ run'[r].pc = "apply" => IcmpBackend # "none"
      BY <1>0, <1>10 DEF CtrlC
    <2>2. Stage(r)'
      BY <1>0, <1>10 DEF CtrlC, Stage, RunState
    <2> QED  BY <2>1, <2>2, OthersStay
  <1>11. ASSUME NEW r \in Runs, NEW p \in Ports, ClosePort(r, p)
        PROVE  (ToolOK /\ \A s \in Runs : Stage(s))'
    <2>1. /\ \A s \in Runs \ {r} : run'[s] = run[s]
          /\ UNCHANGED host
          /\ run'[r].pc = "apply" => IcmpBackend # "none"
      BY <1>0, <1>11 DEF ClosePort
    <2>2. Stage(r)'
      BY <1>0, <1>11 DEF ClosePort, Stage, RunState
    <2> QED  BY <2>1, <2>2, OthersStay
  <1>12. ASSUME NEW r \in Runs, HandlesEnd(r)
        PROVE  (ToolOK /\ \A s \in Runs : Stage(s))'
    <2>1. /\ \A s \in Runs \ {r} : run'[s] = run[s]
          /\ UNCHANGED host
          /\ run'[r].pc = "apply" => IcmpBackend # "none"
      BY <1>0, <1>12 DEF HandlesEnd
    <2>2. Stage(r)'
      BY <1>0, <1>12 DEF HandlesEnd, Stage, RunState
    <2> QED  BY <2>1, <2>2, OthersStay
  <1>13. ASSUME NEW r \in Runs, RemoveByText(r)
        PROVE  (ToolOK /\ \A s \in Runs : Stage(s))'
    <2>1. /\ \A s \in Runs \ {r} : run'[s] = run[s]
          /\ UNCHANGED host
          /\ run'[r].pc = "apply" => IcmpBackend # "none"
      BY <1>0, <1>13 DEF RemoveByText
    <2>2. Stage(r)'
      BY <1>0, <1>13 DEF RemoveByText, Stage, RunState
    <2> QED  BY <2>1, <2>2, OthersStay
  <1>14. ASSUME NEW r \in Runs, ListRules(r)
        PROVE  (ToolOK /\ \A s \in Runs : Stage(s))'
    <2>1. /\ \A s \in Runs \ {r} : run'[s] = run[s]
          /\ UNCHANGED host
          /\ run'[r].pc = "apply" => IcmpBackend # "none"
      BY <1>0, <1>14 DEF ListRules
    <2>2. Stage(r)'
      BY <1>0, <1>14 DEF ListRules, Stage, RunState
    <2> QED  BY <2>1, <2>2, OthersStay
  <1>15. ASSUME NEW r \in Runs, RemoveByHandle(r)
        PROVE  (ToolOK /\ \A s \in Runs : Stage(s))'
    <2>1. /\ \A s \in Runs \ {r} : run'[s] = run[s]
          /\ UNCHANGED host
          /\ run'[r].pc = "apply" => IcmpBackend # "none"
      BY <1>0, <1>15 DEF RemoveByHandle
    <2>2. Stage(r)'
      BY <1>0, <1>15 DEF RemoveByHandle, Stage, RunState
    <2> QED  BY <2>1, <2>2, OthersStay
  <1>16. ASSUME NEW r \in Runs, Unlock(r)
        PROVE  (ToolOK /\ \A s \in Runs : Stage(s))'
    <2>1. /\ \A s \in Runs \ {r} : run'[s] = run[s]
          /\ UNCHANGED host
          /\ run'[r].pc = "apply" => IcmpBackend # "none"
      BY <1>0, <1>16 DEF Unlock
    <2>2. Stage(r)'
      BY <1>0, <1>16 DEF Unlock, Stage, RunState
    <2> QED  BY <2>1, <2>2, OthersStay
  <1>17. ASSUME NEW r \in Runs, Exit(r) \/ End(r) \/ Kill(r)
        PROVE  (ToolOK /\ \A s \in Runs : Stage(s))'
    <2>1. run' = [run EXCEPT ![r] = NotRunning("gone")] /\ UNCHANGED host
      BY <1>17 DEF Exit, End, Kill, Dies
    <2>2. run'[r] = NotRunning("gone")
      BY <1>0, <2>1
    <2>3. Stage(r)' /\ run'[r].pc # "apply"
      BY <2>2 DEF Stage, NotRunning
    <2> QED  BY <1>0, <2>1, <2>2, <2>3, OthersStay
  <1>18. CASE Stranger \/ UNCHANGED vars
    BY <1>0, <1>18 DEF Stranger, vars, ToolOK, Stage, IcmpBackend
  <1> QED
    BY <1>1, <1>2, <1>3, <1>4, <1>5, <1>6, <1>7, <1>8, <1>9, <1>10, <1>11, <1>12, <1>13, <1>14, <1>15, <1>16, <1>17, <1>18 DEF Next, MainStep, TaskStep

-----------------------------------------------------------------------------
(* One owner                                                               *)

(* The steps of the listeners and of the firewall.                         *)
PortStep ==
  \E r \in Runs :
    \/ Spawn(r) \/ Serve(r) \/ Arm(r) \/ CtrlC(r)
    \/ \E p \in Ports : Bind(r, p) \/ OpenPort(r, p) \/ ClosePort(r, p)

(* They do not concern the guard: a run that serves keeps its rules.       *)
LEMMA PortSteps ==
  ASSUME TypeOK, PortStep
  PROVE  /\ UNCHANGED <<host, chain, pid_file, stranger, past.raced, past.unlocked>>
         /\ \A s \in Runs :
              /\ UNCHANGED <<run[s].pid, run[s].owner, run[s].at, run[s].seen>>
              /\ \/ UNCHANGED run[s].pc
                 \/ {run[s].pc, run'[s].pc} \subseteq {"spawn", "open", "serve"}
  <1>0. /\ \A s \in Runs : run[s] \in RunState
        /\ DOMAIN run = Runs
        /\ past \in [raced : BOOLEAN, unlocked : BOOLEAN, shared : SUBSET Ports,
                     dirty : BOOLEAN]
    BY DEF TypeOK
  <1>1. ASSUME NEW r \in Runs,
               \/ Spawn(r) \/ Serve(r) \/ Arm(r) \/ CtrlC(r)
               \/ \E p \in Ports : Bind(r, p) \/ OpenPort(r, p) \/ ClosePort(r, p)
        PROVE  UNCHANGED <<host, chain, pid_file, stranger, past.raced, past.unlocked>>
    BY <1>0, <1>1 DEF Spawn, Serve, Arm, CtrlC, Bind, OpenPort, ClosePort
  <1>2. ASSUME NEW r \in Runs, Serve(r) \/ Arm(r) \/ CtrlC(r), NEW s \in Runs
        PROVE  /\ UNCHANGED <<run[s].pid, run[s].owner, run[s].at, run[s].seen>>
               /\ \/ UNCHANGED run[s].pc
                  \/ {run[s].pc, run'[s].pc} \subseteq {"spawn", "open", "serve"}
    BY <1>0, <1>2 DEF Serve, Arm, CtrlC, RunState
  <1>3. ASSUME NEW r \in Runs, Spawn(r), NEW s \in Runs
        PROVE  /\ UNCHANGED <<run[s].pid, run[s].owner, run[s].at, run[s].seen>>
               /\ \/ UNCHANGED run[s].pc
                  \/ {run[s].pc, run'[s].pc} \subseteq {"spawn", "open", "serve"}
    <2>1. /\ run[r].pc = "spawn"
          /\ \E tasks, ports :
               run' = [run EXCEPT ![r].pc = "open", ![r].listener = tasks,
                                  ![r].todo = ports]
      BY <1>3 DEF Spawn
    <2> QED  BY <1>0, <2>1 DEF RunState
  <1>4. ASSUME NEW r \in Runs, NEW p \in Ports,
               Bind(r, p) \/ OpenPort(r, p) \/ ClosePort(r, p), NEW s \in Runs
        PROVE  UNCHANGED <<run[s].pid, run[s].owner, run[s].at, run[s].seen, run[s].pc>>
    <2>1. CASE Bind(r, p)
      BY <1>0, <2>1 DEF Bind, RunState
    <2>2. CASE OpenPort(r, p)
      BY <1>0, <2>2 DEF OpenPort, RunState
    <2>3. CASE ClosePort(r, p)
      BY <1>0, <2>3 DEF ClosePort, RunState
    <2> QED  BY <1>4, <2>1, <2>2, <2>3
  <1> QED  BY <1>1, <1>2, <1>3, <1>4 DEF PortStep

(* The steps by what they do to the guard.                                 *)
LEMMA NextCases ==
  ASSUME Next
  PROVE  \/ PortStep
         \/ Stranger
         \/ \E r \in Runs :
              \/ Start(r) \/ CheckLock(r) \/ Apply(r) \/ WriteLock(r) \/ HandlesEnd(r)
              \/ RemoveByText(r) \/ ListRules(r) \/ RemoveByHandle(r) \/ Unlock(r)
              \/ Dies(r)
  BY DEF Next, MainStep, TaskStep, PortStep, Exit, Kill, End

(* What the steps of the guard do to a run.                                *)
LEMMA GuardSteps ==
  ASSUME TypeOK, NEW r \in Runs,
         \/ CheckLock(r) \/ Apply(r) \/ WriteLock(r) \/ HandlesEnd(r)
         \/ RemoveByText(r) \/ ListRules(r) \/ RemoveByHandle(r) \/ Unlock(r)
  PROVE  /\ \A s \in Runs \ {r} : run'[s] = run[s]
         /\ run'[r].pid = run[r].pid
         /\ WriteLock(r) \/ run'[r].owner = run[r].owner
         /\ UNCHANGED <<host, stranger>>
  <1>1. run \in [Runs -> RunState]
    BY DEF TypeOK
  <1>2. CASE CheckLock(r)
    BY <1>1, <1>2 DEF CheckLock, RunState
  <1>3. CASE Apply(r)
    BY <1>1, <1>3 DEF Apply, RunState
  <1>4. CASE WriteLock(r)
    BY <1>1, <1>4 DEF WriteLock, RunState
  <1>5. CASE HandlesEnd(r)
    BY <1>1, <1>5 DEF HandlesEnd, RunState
  <1>6. CASE RemoveByText(r)
    BY <1>1, <1>6 DEF RemoveByText, RunState
  <1>7. CASE ListRules(r)
    <2>1. \E some : run' = [run EXCEPT ![r].at = 2, ![r].seen = some]
      BY <1>7 DEF ListRules
    <2>2. UNCHANGED <<host, stranger>>
      BY <1>7 DEF ListRules
    <2> QED  BY <1>1, <2>1, <2>2 DEF RunState
  <1>8. CASE RemoveByHandle(r)
    BY <1>1, <1>8 DEF RemoveByHandle, RunState
  <1>9. CASE Unlock(r)
    BY <1>1, <1>9 DEF Unlock, RunState
  <1> QED  BY <1>2, <1>3, <1>4, <1>5, <1>6, <1>7, <1>8, <1>9

(* A pid is given to a process when no other has it.                       *)
LEMMA NextOnePid == StageInv /\ OnePid /\ [Next]_vars => OnePid'
  <1> SUFFICES ASSUME StageInv, OnePid, [Next]_vars PROVE OnePid'
    OBVIOUS
  <1>0. TypeOK /\ DOMAIN run = Runs /\ \A r \in Runs : run[r] \in RunState
    BY DEF StageInv, TypeOK
  <1>1. ASSUME NEW r \in Runs, Start(r) PROVE OnePid'
    <2>1. PICK i \in Pids \ AllPids :
            run' = [run EXCEPT ![r].pc = "check", ![r].pid = i]
      BY <1>1 DEF Start
    <2>2. run'[r].pid = i /\ \A s \in Runs \ {r} : run'[s] = run[s] /\ run[s].pid # i
      BY <1>0, <2>1 DEF AllPids, RunState
    <2> QED  BY <2>2 DEF OnePid
  <1>2. ASSUME NEW r \in Runs, Dies(r) PROVE OnePid'
    BY <1>0, <1>2 DEF Dies, NotRunning, OnePid
  <1>3. CASE UNCHANGED vars
    BY <1>3 DEF vars, OnePid
  <1>4. CASE PortStep
    BY <1>0, <1>4, PortSteps DEF OnePid
  <1>5. CASE Stranger
    BY <1>5 DEF Stranger, OnePid
  <1>6. ASSUME NEW r \in Runs,
               \/ CheckLock(r) \/ Apply(r) \/ WriteLock(r) \/ HandlesEnd(r)
               \/ RemoveByText(r) \/ ListRules(r) \/ RemoveByHandle(r) \/ Unlock(r)
        PROVE  OnePid'
    BY <1>0, <1>6, GuardSteps DEF OnePid
  <1> QED  BY <1>1, <1>2, <1>3, <1>4, <1>5, <1>6, NextCases

(* The lock is taken before the rules are an owner's, and whoever finds it *)
(* held sets none up; it is released by the run it names.                  *)
LEMMA NextOwnerInv == StageInv /\ OnePid /\ OwnerInv /\ [Next]_vars => OwnerInv'
  <1> SUFFICES ASSUME StageInv, OnePid, OwnerInv, [Next]_vars PROVE OwnerInv'
    OBVIOUS
  <1>0. /\ TypeOK /\ DOMAIN run = Runs
        /\ \A r \in Runs : run[r] \in RunState /\ Stage(r)
        /\ past \in [raced : BOOLEAN, unlocked : BOOLEAN, shared : SUBSET Ports,
                     dirty : BOOLEAN]
    BY DEF StageInv, TypeOK
  <1>1. ASSUME NEW r \in Runs, Start(r) PROVE OwnerInv'
    <2>1. /\ \A s \in Runs \ {r} : run'[s] = run[s]
          /\ run'[r].pc = "check" /\ run'[r].owner = run[r].owner /\ run[r].pc = "off"
          /\ UNCHANGED <<past, pid_file>>
      BY <1>0, <1>1 DEF Start, RunState
    <2>2. ~run'[r].owner
      BY <1>0, <2>1 DEF Stage
    <2> QED  BY <2>1, <2>2 DEF OwnerInv, Exclusive
  <1>2. ASSUME NEW r \in Runs, CheckLock(r) PROVE OwnerInv'
    <2>1. /\ \A s \in Runs \ {r} : run'[s] = run[s]
          /\ run'[r].pc \in {"apply", "spawn"}
          /\ run'[r].pc = "apply" => ~LockIsHeld
          /\ run'[r].owner = run[r].owner /\ run[r].pc = "check"
      BY <1>0, <1>2 DEF CheckLock, RunState
    <2>2. /\ UNCHANGED <<past.unlocked, pid_file>>
          /\ past'.raced <=> past.raced \/ \E s \in Runs : run[s].pc = "apply"
      BY <1>0, <1>2 DEF CheckLock
    <2>3. ~run'[r].owner
      BY <1>0, <2>1 DEF Stage
    <2>4. ASSUME NEW o \in Runs, run[o].owner, run[o].pc # "returned",
                 pid_file = run[o].pid
          PROVE  LockIsHeld
      <3>1. run[o].pid # NoPid
        BY <1>0, <2>4 DEF Stage
      <3> QED  BY <2>4, <3>1 DEF LockIsHeld, AllPids
    <2>5. ~past'.raced =>
            \A s, t \in Runs : run'[s].pc = "apply" /\ run'[t].pc = "apply" => s = t
      BY <2>1, <2>2
    <2>6. ASSUME Exclusive', NEW o \in Runs, run'[o].owner, run'[o].pc # "returned"
          PROVE  pid_file' = run'[o].pid /\ \A s \in Runs : run'[s].pc # "apply"
      <3>1. o # r /\ run'[o] = run[o]
        BY <2>1, <2>3, <2>6
      <3>2. Exclusive
        BY <2>2, <2>6 DEF Exclusive
      <3>3. pid_file = run[o].pid /\ \A s \in Runs : run[s].pc # "apply"
        BY <2>6, <3>1, <3>2 DEF OwnerInv
      <3>4. LockIsHeld
        BY <2>4, <2>6, <3>1, <3>3
      <3> QED  BY <2>1, <2>2, <3>1, <3>3, <3>4
    <2> QED  BY <2>5, <2>6 DEF OwnerInv
  <1>3. ASSUME NEW r \in Runs,
               \/ Apply(r) \/ RemoveByText(r) \/ ListRules(r) \/ RemoveByHandle(r)
        PROVE  OwnerInv'
    <2>1. /\ \A s \in Runs \ {r} : run'[s] = run[s]
          /\ run'[r].pid = run[r].pid
          /\ UNCHANGED <<past, pid_file>>
      BY <1>0, <1>3, GuardSteps
         DEF Apply, RemoveByText, ListRules, RemoveByHandle
    <2>2. /\ run'[r].owner = run[r].owner
          /\ \/ run'[r].pc = run[r].pc
             \/ run[r].pc = "apply" /\ run'[r].pc = "spawn"
      <3>1. CASE Apply(r)
        BY <1>0, <3>1 DEF Apply, RunState
      <3>2. CASE RemoveByText(r)
        BY <1>0, <3>2 DEF RemoveByText, RunState
      <3>3. CASE ListRules(r)
        <4>1. \E some : run' = [run EXCEPT ![r].at = 2, ![r].seen = some]
          BY <3>3 DEF ListRules
        <4> QED  BY <1>0, <4>1 DEF RunState
      <3>4. CASE RemoveByHandle(r)
        BY <1>0, <3>4 DEF RemoveByHandle, RunState
      <3> QED  BY <1>3, <3>1, <3>2, <3>3, <3>4
    <2>3. ~run[r].owner \/ run[r].pc # "apply"
      BY <1>0 DEF Stage
    <2> QED  BY <2>1, <2>2, <2>3 DEF OwnerInv, Exclusive
  <1>4. ASSUME NEW r \in Runs, WriteLock(r) PROVE OwnerInv'
    <2>1. /\ \A s \in Runs \ {r} : run'[s] = run[s]
          /\ run'[r].pc = "spawn" /\ run'[r].pid = run[r].pid /\ run[r].pc = "apply"
      BY <1>0, <1>4 DEF WriteLock, RunState
    <2>2. /\ past'.raced = past.raced
          /\ past.unlocked => past'.unlocked
          /\ ~past'.unlocked => pid_file' = run[r].pid
      BY <1>0, <1>4 DEF WriteLock
    <2>3. ~past'.raced =>
            \A s, t \in Runs : run'[s].pc = "apply" /\ run'[t].pc = "apply" => s = t
      BY <2>1, <2>2 DEF OwnerInv
    <2>4. ASSUME Exclusive', NEW o \in Runs, run'[o].owner, run'[o].pc # "returned"
          PROVE  pid_file' = run'[o].pid /\ \A s \in Runs : run'[s].pc # "apply"
      <3>1. Exclusive
        BY <2>2, <2>4 DEF Exclusive
      <3>2. o = r
        BY <2>1, <2>4, <3>1 DEF OwnerInv
      <3>3. \A s \in Runs \ {r} : run[s].pc # "apply"
        BY <2>1, <3>1 DEF OwnerInv, Exclusive
      <3> QED  BY <2>1, <2>2, <2>4, <3>2, <3>3 DEF Exclusive
    <2> QED  BY <2>3, <2>4 DEF OwnerInv
  <1>5. ASSUME NEW r \in Runs, Dies(r) PROVE OwnerInv'
    <2>1. /\ \A s \in Runs \ {r} : run'[s] = run[s]
          /\ run'[r].pc = "gone" /\ ~run'[r].owner
          /\ UNCHANGED <<past.raced, past.unlocked, pid_file>>
      BY <1>0, <1>5 DEF Dies, NotRunning
    <2> QED  BY <2>1 DEF OwnerInv, Exclusive
  <1>6. ASSUME NEW r \in Runs, HandlesEnd(r) PROVE OwnerInv'
    <2>1. /\ \A s \in Runs \ {r} : run'[s] = run[s]
          /\ run'[r].pc \in {"teardown", "returned"} /\ run[r].pc = "serve"
          /\ run'[r].owner = run[r].owner /\ run'[r].pid = run[r].pid
          /\ UNCHANGED <<past, pid_file>>
      BY <1>0, <1>6 DEF HandlesEnd, RunState
    <2> QED  BY <2>1 DEF OwnerInv, Exclusive
  <1>7. ASSUME NEW r \in Runs, Unlock(r) PROVE OwnerInv'
    <2>1. /\ \A s \in Runs \ {r} : run'[s] = run[s]
          /\ run'[r].pc = "returned" /\ run[r].pc = "teardown"
          /\ UNCHANGED past
      BY <1>0, <1>7 DEF Unlock, RunState
    <2>2. ASSUME Exclusive, NEW o \in Runs, run[o].owner, run[o].pc # "returned"
          PROVE  o = r
      <3>1. run[r].owner /\ run[r].pid # NoPid
        BY <1>0, <2>1 DEF Stage
      <3>2. run[o].pid = run[r].pid
        BY <2>1, <2>2, <3>1 DEF OwnerInv
      <3> QED  BY <3>1, <3>2 DEF OnePid
    <2> QED  BY <2>1, <2>2 DEF OwnerInv, Exclusive
  <1>8. CASE PortStep
    <2>1. /\ UNCHANGED <<pid_file, past.raced, past.unlocked>>
          /\ \A s \in Runs :
               /\ UNCHANGED <<run[s].pid, run[s].owner>>
               /\ \/ UNCHANGED run[s].pc
                  \/ {run[s].pc, run'[s].pc} \subseteq {"spawn", "open", "serve"}
      BY <1>0, <1>8, PortSteps
    <2> QED  BY <2>1 DEF OwnerInv, Exclusive
  <1>9. CASE Stranger \/ UNCHANGED vars
    BY <1>9 DEF Stranger, vars, OwnerInv, Exclusive
  <1> QED
    BY <1>1, <1>2, <1>3, <1>4, <1>5, <1>6, <1>7, <1>8, <1>9, NextCases

(* "only ONE process sets up rules at a time" (src/src/icmp_guard/mod.rs): *)
(* however many runs start, are killed and fail, and whichever pids come   *)
(* back, two live runs never own the rules, unless two setups overlapped   *)
(* or the pid file could not be written.                                   *)
THEOREM OneOwnerHolds == Spec => []OneOwner
  <1>1. Init => StageInv /\ OnePid /\ OwnerInv
    BY InitStageInv DEF Init, OnePid, OwnerInv, NotRunning
  <1>2. StageInv /\ OnePid /\ OwnerInv /\ [Next]_vars
          => (StageInv /\ OnePid /\ OwnerInv)'
    BY NextStageInv, NextOnePid, NextOwnerInv
  <1>3. StageInv /\ OnePid /\ OwnerInv => OneOwner
    <2> SUFFICES ASSUME StageInv, OnePid, OwnerInv, Exclusive,
                        NEW r \in Runs, NEW s \in Runs, run[r].owner, run[s].owner,
                        run[r].pc # "returned", run[s].pc # "returned"
                 PROVE  r = s
      BY DEF OneOwner, Exclusive
    <2>1. run[r].pid # NoPid
      BY DEF StageInv, Stage
    <2>2. run[r].pid = run[s].pid
      BY DEF OwnerInv
    <2> QED  BY <2>1, <2>2 DEF OnePid
  <1> QED  BY <1>1, <1>2, <1>3, PTL DEF Spec

-----------------------------------------------------------------------------
(* The rules of an owner                                                   *)

(* A rule is inserted, listed and removed with the tool of the host.       *)
LEMMA NextToolUse == StageInv /\ ToolUse /\ [Next]_vars => ToolUse'
  <1> SUFFICES ASSUME StageInv, ToolUse, [Next]_vars PROVE ToolUse'
    OBVIOUS
  <1>0. /\ TypeOK /\ DOMAIN run = Runs
        /\ \A r \in Runs : run[r] \in RunState /\ Stage(r)
    BY DEF StageInv, TypeOK
  <1>1. ASSUME NEW r \in Runs, Start(r) PROVE ToolUse'
    <2>1. /\ \A s \in Runs \ {r} : run'[s] = run[s]
          /\ UNCHANGED <<run[r].owner, run[r].seen, host>>
      BY <1>0, <1>1 DEF Start, RunState
    <2> QED  BY <2>1 DEF ToolUse, IcmpBackend
  <1>2. ASSUME NEW r \in Runs, Dies(r) PROVE ToolUse'
    <2>1. /\ \A s \in Runs \ {r} : run'[s] = run[s]
          /\ run'[r].owner = FALSE /\ run'[r].seen = {}
          /\ UNCHANGED host
      BY <1>0, <1>2 DEF Dies, NotRunning
    <2> QED  BY <2>1 DEF ToolUse, IcmpBackend
  <1>3. CASE PortStep
    <2>1. /\ \A s \in Runs : UNCHANGED <<run[s].owner, run[s].seen>>
          /\ UNCHANGED host
      BY <1>0, <1>3, PortSteps
    <2> QED  BY <2>1 DEF ToolUse, IcmpBackend
  <1>4. CASE Stranger \/ UNCHANGED vars
    BY <1>4 DEF Stranger, vars, ToolUse, IcmpBackend
  <1>5. ASSUME NEW r \in Runs, WriteLock(r) PROVE ToolUse'
    <2>1. /\ \A s \in Runs \ {r} : run'[s] = run[s]
          /\ run[r].pc = "apply"
          /\ UNCHANGED <<run[r].seen, host>>
      BY <1>0, <1>5 DEF WriteLock, RunState
    <2>2. IcmpBackend # "none"
      BY <2>1 DEF StageInv, ToolOK
    <2> QED  BY <2>1, <2>2 DEF ToolUse, IcmpBackend
  <1>6. ASSUME NEW r \in Runs,
               \/ CheckLock(r) \/ Apply(r) \/ HandlesEnd(r)
               \/ RemoveByText(r) \/ RemoveByHandle(r) \/ Unlock(r)
        PROVE  ToolUse'
    <2>1. /\ \A s \in Runs \ {r} : run'[s] = run[s]
          /\ UNCHANGED host
      BY <1>0, <1>6, GuardSteps
    <2>2. UNCHANGED run[r].owner /\ run'[r].seen \subseteq run[r].seen
      <3>1. CASE CheckLock(r) \/ HandlesEnd(r) \/ Unlock(r)
        BY <1>0, <3>1 DEF CheckLock, HandlesEnd, Unlock, RunState
      <3>2. CASE Apply(r)
        BY <1>0, <3>2 DEF Apply, RunState
      <3>3. CASE RemoveByText(r)
        BY <1>0, <3>3 DEF RemoveByText, RunState
      <3>4. CASE RemoveByHandle(r)
        BY <1>0, <3>4 DEF RemoveByHandle, RunState
      <3> QED  BY <1>6, <3>1, <3>2, <3>3, <3>4
    <2> QED  BY <2>1, <2>2 DEF ToolUse, IcmpBackend
  <1>7. ASSUME NEW r \in Runs, ListRules(r) PROVE ToolUse'
    <2>1. /\ IcmpBackend = "nft"
          /\ \E some : run' = [run EXCEPT ![r].at = 2, ![r].seen = some]
      BY <1>7 DEF ListRules
    <2>2. UNCHANGED host
      BY <1>7 DEF ListRules
    <2>3. \A s \in Runs : UNCHANGED run[s].owner
      BY <1>0, <2>1 DEF RunState
    <2> QED  BY <2>1, <2>2, <2>3 DEF ToolUse, IcmpBackend
  <1> QED  BY <1>1, <1>2, <1>3, <1>4, <1>5, <1>6, <1>7, NextCases

(* Only an insertion makes a run have a rule it had not.                   *)
LEMMA RulesFromApply ==
  ASSUME StageInv, Next, \A r \in Runs : ~Apply(r), NEW n \in 1..2, NEW s \in Runs
  PROVE  /\ HasRule(s, n)' => HasRule(s, n)
         /\ run[s].pc = "teardown" => ~Guards(s)' /\ run'[s].pc # "apply"
  <1>0. /\ TypeOK /\ DOMAIN run = Runs
        /\ \A r \in Runs : run[r] \in RunState /\ Stage(r)
        /\ \A r \in Runs : run[r].pc \in {"apply", "teardown", "returned"} \/ run[r].at = 1
    BY DEF StageInv, TypeOK
  <1> DEFINE Goal == /\ HasRule(s, n)' => HasRule(s, n)
                     /\ run[s].pc = "teardown" => ~Guards(s)' /\ run'[s].pc # "apply"
  <1>1. CASE UNCHANGED run[s]
    BY <1>1 DEF HasRule, Guards
  <1>2. ASSUME NEW r \in Runs, Start(r) PROVE Goal
    <2>1. /\ r # s => UNCHANGED run[s]
          /\ run'[r].pc = "check" /\ run[r].pc = "off"
      BY <1>0, <1>2 DEF Start, RunState
    <2> QED  BY <1>1, <2>1 DEF HasRule, Guards
  <1>3. ASSUME NEW r \in Runs, CheckLock(r) PROVE Goal
    <2>1. /\ r # s => UNCHANGED run[s]
          /\ run'[r].pc \in {"apply", "spawn"} /\ run[r].pc = "check"
          /\ run'[r].at = 1 /\ run'[r].owner = run[r].owner
      BY <1>0, <1>3 DEF CheckLock, RunState
    <2>2. ~run[r].owner
      BY <1>0, <2>1 DEF Stage
    <2> QED  BY <1>1, <2>1, <2>2 DEF HasRule, Guards
  <1>4. ASSUME NEW r \in Runs, WriteLock(r) PROVE Goal
    <2>1. /\ r # s => UNCHANGED run[s]
          /\ run'[r].pc = "spawn" /\ run[r].pc = "apply" /\ run[r].at > 2
      BY <1>0, <1>4, CmdsType DEF WriteLock, RunState
    <2> QED  BY <1>0, <1>1, <2>1 DEF HasRule, Guards, RunState
  <1>5. ASSUME NEW r \in Runs, HandlesEnd(r) PROVE Goal
    <2>1. /\ r # s => UNCHANGED run[s]
          /\ run[r].pc = "serve"
          /\ run'[r].pc = "teardown" => run[r].owner
          /\ run'[r].pc \in {"teardown", "returned"}
      BY <1>0, <1>5 DEF HandlesEnd, RunState
    <2> QED  BY <1>1, <2>1 DEF HasRule, Guards
  <1>6. ASSUME NEW r \in Runs, RemoveByText(r) PROVE Goal
    <2>1. /\ r # s => UNCHANGED run[s]
          /\ run[r].pc = "teardown" /\ run'[r].pc = "teardown"
          /\ run'[r].at = run[r].at + 1
      BY <1>0, <1>6 DEF RemoveByText, RunState
    <2> QED  BY <1>0, <1>1, <2>1 DEF HasRule, Guards, RunState
  <1>7. ASSUME NEW r \in Runs, ListRules(r) PROVE Goal
    <2>1. /\ run[r].pc = "teardown" /\ run[r].at = 1
          /\ \E some : run' = [run EXCEPT ![r].at = 2, ![r].seen = some]
      BY <1>7 DEF ListRules
    <2>2. /\ r # s => UNCHANGED run[s]
          /\ run[r].pc = "teardown" /\ run'[r].pc = "teardown"
          /\ run'[r].at = run[r].at + 1
      BY <1>0, <2>1 DEF RunState
    <2> QED  BY <1>0, <1>1, <2>2 DEF HasRule, Guards, RunState
  <1>8. ASSUME NEW r \in Runs, RemoveByHandle(r) PROVE Goal
    <2>1. /\ r # s => UNCHANGED run[s]
          /\ UNCHANGED <<run[r].pc, run[r].at, run[r].owner>>
      BY <1>0, <1>8 DEF RemoveByHandle, RunState
    <2> QED  BY <1>1, <2>1 DEF HasRule, Guards
  <1>9. ASSUME NEW r \in Runs, Unlock(r) PROVE Goal
    <2>1. /\ r # s => UNCHANGED run[s]
          /\ run'[r].pc = "returned"
      BY <1>0, <1>9 DEF Unlock, RunState
    <2> QED  BY <1>1, <2>1 DEF HasRule, Guards
  <1>10. ASSUME NEW r \in Runs, Dies(r) PROVE Goal
    <2>1. /\ r # s => UNCHANGED run[s]
          /\ run'[r].pc = "gone"
      BY <1>0, <1>10 DEF Dies, NotRunning
    <2> QED  BY <1>1, <2>1 DEF HasRule, Guards
  <1>11. CASE PortStep
    <2>1. /\ UNCHANGED <<run[s].owner, run[s].at>>
          /\ \/ UNCHANGED run[s].pc
             \/ {run[s].pc, run'[s].pc} \subseteq {"spawn", "open", "serve"}
      BY <1>0, <1>11, PortSteps
    <2> QED  BY <2>1 DEF HasRule, Guards
  <1>12. CASE Stranger
    BY <1>1, <1>12 DEF Stranger
  <1> QED
    BY <1>2, <1>3, <1>4, <1>5, <1>6, <1>7, <1>8, <1>9, <1>10, <1>11, <1>12, NextCases

(* What an insertion does.                                                 *)
LEMMA ApplyInserts ==
  ASSUME StageInv, NEW r \in Runs, Apply(r)
  PROVE  /\ \A s \in Runs \ {r} : run'[s] = run[s]
         /\ UNCHANGED <<host, past>>
         /\ run[r].pc = "apply" /\ run[r].at \in 1..2
         /\ UNCHANGED run[r].owner /\ ~run[r].owner
         /\ \/ UNCHANGED chain /\ run'[r].pc = "spawn"
            \/ /\ run'[r].pc = "apply" /\ run'[r].at = run[r].at + 1
               /\ \E rule \in ReadsLike(run[r].at) :
                    chain' = IF IcmpBackend = "iptables" THEN <<rule>> \o chain
                                                         ELSE Append(chain, rule)
  <1>0. /\ TypeOK /\ DOMAIN run = Runs /\ run[r] \in RunState /\ Stage(r)
    BY DEF StageInv, TypeOK
  <1>1. /\ \A s \in Runs \ {r} : run'[s] = run[s]
        /\ UNCHANGED <<host, past>>
        /\ run[r].pc = "apply" /\ run[r].at \in 1..2
        /\ UNCHANGED run[r].owner
    BY <1>0, CmdsType DEF Apply, RunState
  <1>2. ~run[r].owner
    BY <1>0, <1>1 DEF Stage
  <1>3. PICK ok \in BOOLEAN :
          /\ chain' =
               CASE ~ok -> chain
                 [] ok /\ IcmpBackend = "iptables" ->
                      << [verdict |-> Cmds[run[r].at], handle |-> "none"] >> \o chain
                 [] ok /\ IcmpBackend = "nft" ->
                      Append(chain, [verdict |-> Cmds[run[r].at], handle |-> r])
          /\ run' = IF ok THEN [run EXCEPT ![r].at = @ + 1]
                          ELSE [run EXCEPT ![r].at = 1, ![r].pc = "spawn"]
    BY DEF Apply
  <1>4. CASE ~ok
    BY <1>0, <1>1, <1>2, <1>3, <1>4 DEF RunState
  <1>5. CASE ok
    <2>1. run'[r].pc = "apply" /\ run'[r].at = run[r].at + 1
      BY <1>0, <1>1, <1>3, <1>5 DEF RunState
    <2>2. ASSUME NEW h \in Runs \cup {"none"}
          PROVE  [verdict |-> Cmds[run[r].at], handle |-> h] \in ReadsLike(run[r].at)
      BY <1>1, CmdsType DEF ReadsLike, Rule
    <2>3. IcmpBackend \in {"nft", "iptables"}
      BY <1>1, IcmpBackendType DEF StageInv, ToolOK
    <2>4. CASE IcmpBackend = "nft"
      <3>1. chain' = Append(chain, [verdict |-> Cmds[run[r].at], handle |-> r])
        BY <1>3, <1>5, <2>4
      <3> QED  BY <1>1, <1>2, <2>1, <2>2, <2>4, <3>1
    <2>5. CASE IcmpBackend = "iptables"
      <3>1. chain' = << [verdict |-> Cmds[run[r].at], handle |-> "none"] >> \o chain
        BY <1>3, <1>5, <2>5
      <3> QED  BY <1>1, <1>2, <2>1, <2>2, <2>5, <3>1
    <2> QED  BY <2>3, <2>4, <2>5
  <1> QED  BY <1>4, <1>5

(* The list of rules changes by an insertion, or in a teardown.            *)
LEMMA ChainStays ==
  ASSUME TypeOK, Next,
         \A r \in Runs : ~Apply(r) /\ ~RemoveByText(r) /\ ~RemoveByHandle(r)
  PROVE  UNCHANGED chain
  <1>1. CASE PortStep
    BY <1>1, PortSteps
  <1>2. CASE Stranger
    BY <1>2 DEF Stranger
  <1>3. ASSUME NEW r \in Runs,
               Start(r) \/ CheckLock(r) \/ WriteLock(r) \/ HandlesEnd(r)
                 \/ ListRules(r) \/ Unlock(r) \/ Dies(r)
        PROVE  UNCHANGED chain
    BY <1>3 DEF Start, CheckLock, WriteLock, HandlesEnd, ListRules, Unlock, Dies
  <1> QED  BY <1>1, <1>2, <1>3, NextCases

(* The runs with a rule, and the rules, are finitely many.                 *)
LEMMA CountTypes ==
  ASSUME TypeOK, NEW n \in 1..2
  PROVE  /\ IsFiniteSet(WithRule(n)) /\ Cardinality(WithRule(n)) \in Nat
         /\ chain \in Seq(Rule) /\ Len(chain) \in Nat
         /\ Occurrences(chain, ReadsLike(n)) \in Nat
  <1>1. chain \in Seq(Rule)
    BY DEF TypeOK
  <1>2. Len(chain) \in Nat
    BY <1>1
  <1>3. IsFiniteSet(Runs) /\ WithRule(n) \in SUBSET Runs
    BY LifecycleAssumption DEF WithRule
  <1>4. IsFiniteSet(WithRule(n))
    BY <1>3, FS_Subset
  <1> QED  BY <1>1, <1>2, <1>4, FS_CardinalityType, OccurrencesType

(* Two rules read alike only when they are the same command's.             *)
LEMMA TextsDiffer ==
  ASSUME NEW m \in 1..2, NEW n \in 1..2, NEW rule \in ReadsLike(m)
  PROVE  rule \in ReadsLike(n) <=> m = n
  BY DEF ReadsLike, Cmds

(* With iptables a setup adds a rule for each that a run has, and a        *)
(* teardown removes one rule for the one its run gives up.                 *)
LEMMA NextTextInv == StageInv /\ ToolUse /\ TextInv /\ [Next]_vars => TextInv'
  <1> SUFFICES ASSUME StageInv, ToolUse, TextInv, [Next]_vars PROVE TextInv'
    OBVIOUS
  <1>0. TypeOK
    BY DEF StageInv
  <1>1. CASE UNCHANGED vars
    <2>1. \A n \in 1..2 : WithRule(n)' = WithRule(n)
      BY <1>1 DEF vars, WithRule, HasRule, Guards
    <2> QED  BY <1>1, <2>1 DEF vars, TextInv, IcmpBackend
  <1> SUFFICES ASSUME Next, IcmpBackend' = "iptables", NEW n \in 1..2
               PROVE  Cardinality(WithRule(n)') <= Occurrences(chain', ReadsLike(n))
    BY <1>1 DEF TextInv, ReadsLike
  <1> DEFINE W == WithRule(n)
             V == WithRule(n)'
             Q == ReadsLike(n)
  <1>2. UNCHANGED host
    <2>1. CASE PortStep
      BY <1>0, <2>1, PortSteps
    <2>2. CASE Stranger
      BY <2>2 DEF Stranger
    <2>3. ASSUME NEW r \in Runs, Start(r) \/ Dies(r) PROVE UNCHANGED host
      BY <2>3 DEF Start, Dies
    <2>4. ASSUME NEW r \in Runs,
                 \/ CheckLock(r) \/ Apply(r) \/ WriteLock(r) \/ HandlesEnd(r)
                 \/ RemoveByText(r) \/ ListRules(r) \/ RemoveByHandle(r) \/ Unlock(r)
          PROVE  UNCHANGED host
      BY <1>0, <2>4, GuardSteps
    <2> QED  BY <2>1, <2>2, <2>3, <2>4, NextCases
  <1>3. IcmpBackend = "iptables"
    BY <1>2 DEF IcmpBackend
  <1>4. /\ IsFiniteSet(W) /\ Cardinality(W) \in Nat /\ Cardinality(W) <= Occurrences(chain, Q)
        /\ chain \in Seq(Rule) /\ Len(chain) \in Nat
        /\ Occurrences(chain, Q) \in Nat
    BY <1>0, <1>3, CountTypes DEF TextInv
  <1>5. ASSUME NEW r \in Runs, Apply(r)
        PROVE  Cardinality(V) <= Occurrences(chain', Q)
    <2>1. /\ \A s \in Runs \ {r} : run'[s] = run[s]
          /\ run[r].pc = "apply" /\ run[r].at \in 1..2
          /\ ~run'[r].owner
          /\ \/ UNCHANGED chain /\ run'[r].pc = "spawn"
             \/ /\ run'[r].pc = "apply" /\ run'[r].at = run[r].at + 1
                /\ \E rule \in ReadsLike(run[r].at) :
                     chain' = IF IcmpBackend = "iptables" THEN <<rule>> \o chain
                                                          ELSE Append(chain, rule)
      BY <1>5, ApplyInserts
    <2>2. CASE UNCHANGED chain /\ run'[r].pc = "spawn"
      <3>1. V \in SUBSET W
        BY <2>1, <2>2 DEF WithRule, HasRule, Guards
      <3> HIDE DEF W, V
      <3>2. Cardinality(V) \in Nat /\ Cardinality(V) <= Cardinality(W)
        BY <1>4, <3>1, FS_Subset, FS_CardinalityType
      <3> QED  BY <1>4, <2>2, <3>2
    <2>3. CASE run'[r].pc = "apply"
      <3>1. PICK rule \in ReadsLike(run[r].at) : chain' = <<rule>> \o chain
        BY <1>3, <2>1, <2>3
      <3>2. run'[r].at = run[r].at + 1
        BY <2>1, <2>3
      <3>3. Occurrences(chain', Q)
              = IF rule \in Q THEN Occurrences(chain, Q) + 1 ELSE Occurrences(chain, Q)
        <4>1. rule \in Rule
          BY <3>1 DEF ReadsLike
        <4> QED  BY <1>4, <3>1, <4>1, PrependOccurrences
      <3>4. rule \in Q <=> run[r].at = n
        BY <2>1, <3>1, TextsDiffer
      <3>5. V \in SUBSET (IF run[r].at = n THEN W \cup {r} ELSE W)
        BY <2>1, <2>3, <3>2 DEF WithRule, HasRule, Guards
      <3> HIDE DEF W, V, Q
      <3>6. /\ Cardinality(W \cup {r}) \in Nat
            /\ Cardinality(W \cup {r}) <= Cardinality(W) + 1
            /\ IsFiniteSet(W \cup {r})
        <4>1. /\ IsFiniteSet(W \cup {r})
              /\ Cardinality(W \cup {r}) = IF r \in W THEN Cardinality(W)
                                                    ELSE Cardinality(W) + 1
          BY <1>4, FS_AddElement
        <4> QED  BY <1>4, <4>1
      <3>7. Cardinality(V) \in Nat
            /\ Cardinality(V) <= IF run[r].at = n THEN Cardinality(W) + 1 ELSE Cardinality(W)
        <4>1. CASE run[r].at = n
          <5>1. V \in SUBSET (W \cup {r})
            BY <3>5, <4>1
          <5>2. Cardinality(V) \in Nat /\ Cardinality(V) <= Cardinality(W \cup {r})
            BY <3>6, <5>1, FS_Subset, FS_CardinalityType
          <5> QED  BY <1>4, <3>6, <4>1, <5>2
        <4>2. CASE run[r].at # n
          <5>1. V \in SUBSET W
            BY <3>5, <4>2
          <5>2. Cardinality(V) \in Nat /\ Cardinality(V) <= Cardinality(W)
            BY <1>4, <5>1, FS_Subset, FS_CardinalityType
          <5> QED  BY <4>2, <5>2
        <4> QED  BY <4>1, <4>2
      <3> QED  BY <1>4, <3>3, <3>4, <3>7
    <2> QED  BY <2>1, <2>2, <2>3
  <1>6. ASSUME NEW r \in Runs, RemoveByText(r)
        PROVE  Cardinality(V) <= Occurrences(chain', Q)
    <2>1. /\ \A s \in Runs \ {r} : run'[s] = run[s]
          /\ run[r].pc = "teardown" /\ run'[r].pc = "teardown"
          /\ run[r].at \in 1..2 /\ run'[r].at = run[r].at + 1
      BY <1>0, <1>6, CmdsType DEF RemoveByText, TypeOK, RunState
    <2>2. IF run[r].at = n THEN r \in W /\ V = W \ {r} ELSE V = W
      BY <2>1 DEF WithRule, HasRule, Guards
    <2>3. \/ chain' = chain
          \/ \E k \in 1..Len(chain) : /\ chain[k].verdict = Cmds[run[r].at]
                                      /\ chain' = RemoveAt(chain, k)
      BY <1>4, <1>6, RemoveByTextRemoves
    <2>4. /\ Occurrences(chain', Q) \in Nat
          /\ Occurrences(chain, Q) <= Occurrences(chain', Q) + 1
          /\ run[r].at # n => Occurrences(chain', Q) = Occurrences(chain, Q)
      <3>1. CASE chain' = chain
        BY <1>4, <3>1
      <3>2. ASSUME NEW k \in 1..Len(chain), chain[k].verdict = Cmds[run[r].at],
                   chain' = RemoveAt(chain, k)
            PROVE  <2>4
        <4>1. chain[k] \in ReadsLike(run[r].at)
          BY <1>4, <3>2 DEF ReadsLike
        <4>2. chain[k] \in Q <=> run[r].at = n
          BY <2>1, <4>1, TextsDiffer
        <4>3. Occurrences(chain', Q) = IF chain[k] \in Q THEN Occurrences(chain, Q) - 1
                                                         ELSE Occurrences(chain, Q)
          BY <1>4, <3>2, RemoveAtOccurrences
        <4>4. Occurrences(chain', Q) \in Nat
          <5>1. chain' \in Seq(Rule)
            BY <1>4, <3>2, RemoveAtProperties
          <5>2. Len(chain') \in Nat
            BY <5>1
          <5> QED  BY <5>2, OccurrencesType
        <4> HIDE DEF Q
        <4> QED  BY <1>4, <4>2, <4>3, <4>4
      <3> QED  BY <2>3, <3>1, <3>2
    <2> HIDE DEF W, V, Q
    <2>5. Cardinality(V) = IF run[r].at = n THEN Cardinality(W) - 1 ELSE Cardinality(W)
      BY <1>4, <2>2, FS_RemoveElement
    <2> QED  BY <1>4, <2>4, <2>5
  <1>7. ASSUME \A r \in Runs : ~Apply(r) /\ ~RemoveByText(r)
        PROVE  Cardinality(V) <= Occurrences(chain', Q)
    <2>1. \A r \in Runs : ~RemoveByHandle(r)
      BY <1>3 DEF ToolUse, RemoveByHandle
    <2>2. UNCHANGED chain
      BY <1>0, <1>7, <2>1, ChainStays
    <2>3. \A s \in Runs : HasRule(s, n)' => HasRule(s, n)
      BY <1>7, RulesFromApply
    <2>4. V \in SUBSET W
      BY <2>3 DEF WithRule
    <2> HIDE DEF W, V, Q
    <2>5. Cardinality(V) \in Nat /\ Cardinality(V) <= Cardinality(W)
      BY <1>4, <2>4, FS_Subset, FS_CardinalityType
    <2> QED  BY <1>4, <2>2, <2>5
  <1> QED  BY <1>5, <1>6, <1>7

(* With nft, while a run sets rules up or owns them nobody removes any.    *)
LEMMA NextHandleInv ==
  StageInv /\ ToolUse /\ OnePid /\ OwnerInv /\ HandleInv /\ [Next]_vars => HandleInv'
  <1> SUFFICES ASSUME StageInv, ToolUse, OnePid, OwnerInv, HandleInv, [Next]_vars
               PROVE  HandleInv'
    OBVIOUS
  <1>0. /\ TypeOK /\ \A r \in Runs : Stage(r)
        /\ chain \in Seq(Rule) /\ Len(chain) \in Nat
    BY DEF StageInv, TypeOK
  <1>1. CASE UNCHANGED vars
    BY <1>1 DEF vars, HandleInv, Guards, Exclusive, IcmpBackend
  <1> SUFFICES ASSUME Next, IcmpBackend' = "nft", Exclusive',
                      NEW s \in Runs, NEW n \in 1..2,
                      Guards(s)' \/ (run'[s].pc = "apply" /\ run'[s].at > n)
               PROVE  \E i \in 1..Len(chain') : chain'[i].verdict = Cmds[n]
    BY <1>1 DEF HandleInv
  <1>2. UNCHANGED host /\ Exclusive
    <2>1. CASE PortStep
      BY <1>0, <2>1, PortSteps DEF Exclusive
    <2>2. CASE Stranger
      BY <2>2 DEF Stranger, Exclusive
    <2>3. ASSUME NEW r \in Runs,
                 \/ Start(r) \/ HandlesEnd(r) \/ RemoveByText(r) \/ ListRules(r)
                 \/ RemoveByHandle(r) \/ Unlock(r) \/ Apply(r)
          PROVE  UNCHANGED <<host, past>>
      BY <2>3 DEF Start, HandlesEnd, RemoveByText, ListRules, RemoveByHandle, Unlock, Apply
    <2>4. ASSUME NEW r \in Runs, CheckLock(r) \/ WriteLock(r) \/ Dies(r)
          PROVE  UNCHANGED host /\ Exclusive
      BY <1>0, <2>4 DEF CheckLock, WriteLock, Dies, Exclusive, TypeOK
    <2> QED  BY <2>1, <2>2, <2>3, <2>4, NextCases DEF Exclusive
  <1>3. IcmpBackend = "nft"
    BY <1>2 DEF IcmpBackend
  <1>4. ASSUME NEW r \in Runs, Apply(r)
        PROVE  \E i \in 1..Len(chain') : chain'[i].verdict = Cmds[n]
    <2>1. /\ \A t \in Runs \ {r} : run'[t] = run[t]
          /\ run[r].pc = "apply" /\ run[r].at \in 1..2
          /\ ~run'[r].owner
          /\ \/ UNCHANGED chain /\ run'[r].pc = "spawn"
             \/ /\ run'[r].pc = "apply" /\ run'[r].at = run[r].at + 1
                /\ \E rule \in ReadsLike(run[r].at) : chain' = Append(chain, rule)
      BY <1>3, <1>4, ApplyInserts
    <2>2. \/ HasRule(s, n) /\ run[s].pc # "teardown"
          \/ s = r /\ run[r].at = n /\ run'[r].pc = "apply"
      BY <2>1 DEF HasRule, Guards
    <2>3. CASE HasRule(s, n) /\ run[s].pc # "teardown"
      <3>1. PICK i \in 1..Len(chain) : chain[i].verdict = Cmds[n]
        BY <1>2, <1>3, <2>3 DEF HandleInv, HasRule
      <3>2. CASE chain' = chain
        BY <3>1, <3>2
      <3>3. ASSUME NEW rule \in Rule, chain' = Append(chain, rule)
            PROVE  i \in 1..Len(chain') /\ chain'[i] = chain[i]
        BY <1>0, <3>3, AppendProperties
      <3> QED  BY <2>1, <3>1, <3>2, <3>3 DEF ReadsLike
    <2>4. CASE run[r].at = n /\ run'[r].pc = "apply"
      <3>1. PICK rule \in ReadsLike(n) : chain' = Append(chain, rule)
        BY <2>1, <2>4
      <3>2. Len(chain') = Len(chain) + 1 /\ chain'[Len(chain) + 1] = rule
        BY <1>0, <3>1, AppendProperties DEF ReadsLike
      <3> QED  BY <1>0, <3>1, <3>2 DEF ReadsLike
    <2> QED  BY <2>2, <2>3, <2>4
  <1>5. CASE \A r \in Runs : ~Apply(r)
    <2>1. HasRule(s, n) /\ run[s].pc # "teardown"
      BY <1>5, RulesFromApply DEF HasRule
    <2>2. \A r \in Runs : ~RemoveByText(r)
      BY <1>3 DEF RemoveByText
    <2>3. ASSUME NEW r \in Runs, RemoveByHandle(r)
          PROVE  FALSE
      <3>1. run[r].pc = "teardown" /\ run[r].owner
        BY <1>0, <2>3 DEF RemoveByHandle, Stage
      <3>2. pid_file = run[r].pid /\ run[s].pc # "apply" /\ run[r].pid # NoPid
        BY <1>0, <1>2, <3>1 DEF OwnerInv, Stage
      <3>3. run[s].owner /\ run[s].pc \in {"spawn", "open", "serve"}
        BY <2>1, <3>2 DEF HasRule, Guards
      <3>4. run[s].pid = run[r].pid
        BY <1>2, <3>2, <3>3 DEF OwnerInv
      <3> QED  BY <3>1, <3>2, <3>3, <3>4 DEF OnePid
    <2>4. UNCHANGED chain
      BY <1>0, <1>5, <2>2, <2>3, ChainStays
    <2> QED  BY <1>2, <1>3, <2>1, <2>4 DEF HandleInv, HasRule
  <1> QED  BY <1>4, <1>5

(* While a run guards the host both of its rules are in the chain,         *)
(* whatever the setups, teardowns, kills and failed commands of the other  *)
(* runs do: with iptables, where a teardown deletes the first rule that    *)
(* reads like its own (remove_rules), always; with nft, where it deletes   *)
(* all it lists, unless the pid file failed.                               *)
THEOREM OwnerProtectedHolds == Spec => []OwnerProtected
  <1>1. Init => GuardInv
    <2> SUFFICES ASSUME Init PROVE GuardInv
      OBVIOUS
    <2>1. run = [r \in Runs |-> NotRunning("off")] /\ chain = <<>> /\ past = NoPast
      BY DEF Init
    <2>2. StageInv
      BY InitStageInv
    <2>3. ToolUse /\ OnePid /\ OwnerInv
      BY <2>1 DEF ToolUse, OnePid, OwnerInv, NotRunning
    <2>4. \A n \in 1..2 : WithRule(n) = {}
      BY <2>1 DEF WithRule, HasRule, Guards, NotRunning
    <2>5. TextInv
      <3>1. \A n \in 1..2 : Cardinality(WithRule(n)) = 0
        BY <2>4, FS_EmptySet
      <3>2. TypeOK
        BY <2>2 DEF StageInv
      <3> QED  BY <3>1, <3>2, CountTypes DEF TextInv
    <2>6. HandleInv
      BY <2>1 DEF HandleInv, Guards, NotRunning
    <2> QED  BY <2>2, <2>3, <2>5, <2>6 DEF GuardInv
  <1>2. GuardInv /\ [Next]_vars => GuardInv'
    BY NextStageInv, NextToolUse, NextOnePid, NextOwnerInv, NextTextInv, NextHandleInv
       DEF GuardInv
  <1>3. GuardInv => OwnerProtected
    <2> SUFFICES ASSUME GuardInv, NEW r \in Runs, Guards(r),
                        IcmpBackend = "nft" => Exclusive
                 PROVE  {"accept", "drop"} \subseteq {rule.verdict : rule \in ToSet(chain)}
      BY DEF OwnerProtected, Exclusive
    <2>0. TypeOK /\ chain \in Seq(Rule) /\ Len(chain) \in Nat
      BY DEF GuardInv, StageInv, TypeOK
    <2>1. ASSUME NEW n \in 1..2
          PROVE  \E i \in 1..Len(chain) : chain[i].verdict = Cmds[n]
      <3>1. CASE IcmpBackend = "nft"
        BY <3>1 DEF GuardInv, HandleInv
      <3>2. CASE IcmpBackend = "iptables"
        <4>1. r \in WithRule(n)
          BY DEF WithRule, HasRule
        <4>2. Cardinality(WithRule(n)) # 0
          BY <2>0, <4>1, CountTypes, FS_EmptySet
        <4>3. Cardinality(WithRule(n)) <= Occurrences(chain, ReadsLike(n))
          BY <3>2 DEF GuardInv, TextInv
        <4>4. Occurrences(chain, ReadsLike(n)) # 0
          BY <2>0, <4>2, <4>3, CountTypes
        <4> QED  BY <2>0, <4>4, OccurrencesType DEF ReadsLike
      <3>3. IcmpBackend # "none"
        BY DEF GuardInv, ToolUse, Guards
      <3> QED  BY <3>1, <3>2, <3>3, IcmpBackendType
    <2>2. \A n \in 1..2 : Cmds[n] \in {rule.verdict : rule \in ToSet(chain)}
      BY <2>0, <2>1 DEF ToSet
    <2>3. Cmds[1] = "accept" /\ Cmds[2] = "drop"
      BY DEF Cmds
    <2> QED  BY <2>2, <2>3
  <1> QED  BY <1>1, <1>2, <1>3, PTL DEF Spec

-----------------------------------------------------------------------------
(* The firewall                                                            *)

(* The steps by what they do to the ports.                                 *)
LEMMA FirewallCases ==
  ASSUME Next
  PROVE  \/ Stranger
         \/ \E r \in Runs :
              \/ Start(r) \/ CheckLock(r) \/ Apply(r) \/ WriteLock(r) \/ HandlesEnd(r)
              \/ RemoveByText(r) \/ ListRules(r) \/ RemoveByHandle(r) \/ Unlock(r)
              \/ Spawn(r) \/ Serve(r) \/ Arm(r) \/ CtrlC(r) \/ (\E p \in Ports : Bind(r, p))
         \/ \E r \in Runs : Dies(r)
         \/ \E r \in Runs, p \in Ports : OpenPort(r, p) \/ ClosePort(r, p)
  BY DEF Next, MainStep, TaskStep, Exit, Kill, End

(* Only an opening, a closing or an end changes which ports a run has open. *)
LEMMA HoldsStays ==
  ASSUME StageInv, NEW r \in Runs,
         \/ Start(r) \/ CheckLock(r) \/ Apply(r) \/ WriteLock(r) \/ HandlesEnd(r)
         \/ RemoveByText(r) \/ ListRules(r) \/ RemoveByHandle(r) \/ Unlock(r)
         \/ Spawn(r) \/ Serve(r) \/ Arm(r) \/ CtrlC(r) \/ (\E p \in Ports : Bind(r, p))
  PROVE  /\ \A s \in Runs, p \in Ports : Holds(s, p)' <=> Holds(s, p)
         /\ UNCHANGED <<host, rules, past.shared, past.dirty>>
  <1>0. /\ DOMAIN run = Runs /\ run[r] \in RunState /\ Stage(r)
        /\ past \in [raced : BOOLEAN, unlocked : BOOLEAN, shared : SUBSET Ports,
                     dirty : BOOLEAN]
    BY DEF StageInv, TypeOK
  <1>1. UNCHANGED <<host, rules, past.shared, past.dirty>>
    <2>1. CASE CheckLock(r) \/ WriteLock(r)
      BY <1>0, <2>1 DEF CheckLock, WriteLock
    <2>2. CASE ~CheckLock(r) /\ ~WriteLock(r)
      BY <2>2 DEF Start, Apply, HandlesEnd, RemoveByText, ListRules, RemoveByHandle,
                  Unlock, Spawn, Serve, Arm, CtrlC, Bind
    <2> QED  BY <2>1, <2>2
  <1> DEFINE Same == /\ \A s \in Runs \ {r} : run'[s] = run[s]
                     /\ UNCHANGED <<run[r].opened, run[r].todo, run[r].sig>>
  <1>2. CASE Start(r)
    <2>1. Same
      <3>1. \E i : run' = [run EXCEPT ![r].pc = "check", ![r].pid = i]
        BY <1>2 DEF Start
      <3> QED  BY <1>0, <3>1 DEF RunState
    <2> QED  BY <1>1, <2>1 DEF Holds
  <1>3. CASE CheckLock(r) \/ HandlesEnd(r) \/ Unlock(r) \/ RemoveByText(r)
    <2>1. Same
      <3>1. CASE CheckLock(r)
        BY <1>0, <3>1 DEF CheckLock, RunState
      <3>2. CASE HandlesEnd(r)
        BY <1>0, <3>2 DEF HandlesEnd, RunState
      <3>3. CASE Unlock(r)
        BY <1>0, <3>3 DEF Unlock, RunState
      <3>4. CASE RemoveByText(r)
        BY <1>0, <3>4 DEF RemoveByText, RunState
      <3> QED  BY <1>3, <3>1, <3>2, <3>3, <3>4
    <2> QED  BY <1>1, <2>1 DEF Holds
  <1>4. CASE Apply(r)
    <2>1. Same
      BY <1>0, <1>4 DEF Apply, RunState
    <2> QED  BY <1>1, <2>1 DEF Holds
  <1>5. CASE WriteLock(r)
    <2>1. Same
      BY <1>0, <1>5 DEF WriteLock, RunState
    <2> QED  BY <1>1, <2>1 DEF Holds
  <1>6. CASE ListRules(r)
    <2>1. Same
      <3>1. \E some : run' = [run EXCEPT ![r].at = 2, ![r].seen = some]
        BY <1>6 DEF ListRules
      <3> QED  BY <1>0, <3>1 DEF RunState
    <2> QED  BY <1>1, <2>1 DEF Holds
  <1>7. CASE RemoveByHandle(r)
    <2>1. Same
      BY <1>0, <1>7 DEF RemoveByHandle, RunState
    <2> QED  BY <1>1, <2>1 DEF Holds
  <1>8. CASE Spawn(r)
    <2>1. /\ run[r].pc = "spawn"
          /\ \E tasks, ports :
               run' = [run EXCEPT ![r].pc = "open", ![r].listener = tasks,
                                  ![r].todo = ports]
      BY <1>8 DEF Spawn
    <2>2. /\ \A s \in Runs \ {r} : run'[s] = run[s]
          /\ UNCHANGED <<run[r].opened, run[r].sig>>
      BY <1>0, <2>1 DEF RunState
    <2>3. run[r].sig = "none"
      BY <1>0, <2>1 DEF Stage
    <2> QED  BY <1>1, <2>2, <2>3 DEF Holds
  <1>9. CASE Serve(r)
    <2>1. /\ \A s \in Runs \ {r} : run'[s] = run[s]
          /\ UNCHANGED <<run[r].opened, run[r].todo>>
          /\ run[r].pc = "open" /\ run'[r].sig = "spawned"
      BY <1>0, <1>9 DEF Serve, RunState
    <2>2. run[r].sig = "none"
      BY <1>0, <2>1 DEF Stage
    <2> QED  BY <1>1, <2>1, <2>2 DEF Holds
  <1>10. CASE Arm(r)
    <2>1. /\ \A s \in Runs \ {r} : run'[s] = run[s]
          /\ UNCHANGED <<run[r].opened, run[r].todo>>
          /\ run[r].sig = "spawned" /\ run'[r].sig = "armed"
      BY <1>0, <1>10 DEF Arm, RunState
    <2> QED  BY <1>1, <2>1 DEF Holds
  <1>11. CASE CtrlC(r)
    <2>1. /\ \A s \in Runs \ {r} : run'[s] = run[s]
          /\ run'[r].opened = {} /\ run'[r].todo = run[r].opened
          /\ run[r].sig = "armed" /\ run'[r].sig = "closing"
      BY <1>0, <1>11 DEF CtrlC, RunState
    <2> QED  BY <1>1, <2>1 DEF Holds
  <1>12. ASSUME NEW p \in Ports, Bind(r, p)
         PROVE  \A s \in Runs, q \in Ports : Holds(s, q)' <=> Holds(s, q)
    <2>1. Same
      BY <1>0, <1>12 DEF Bind, RunState
    <2> QED  BY <2>1 DEF Holds
  <1> QED
    BY <1>1, <1>2, <1>3, <1>4, <1>5, <1>6, <1>7, <1>8, <1>9, <1>10, <1>11, <1>12

(* The runs that have a port open, and its rules, are finitely many.       *)
LEMMA PortTypes ==
  ASSUME TypeOK, NEW p \in Ports
  PROVE  /\ IsFiniteSet(Keepers(p)) /\ Cardinality(Keepers(p)) \in Nat
         /\ Cardinality(Keepers(p)) = 0 <=> Keepers(p) = {}
         /\ rules \in Seq(Ports) /\ Len(rules) \in Nat
         /\ Occurrences(rules, {p}) \in Nat
         /\ Occurrences(rules, {p}) = 0 <=> ~Contains(rules, p)
  <1>1. rules \in Seq(Ports)
    BY DEF TypeOK
  <1>2. Len(rules) \in Nat
    BY <1>1
  <1>3. IsFiniteSet(Runs) /\ Keepers(p) \in SUBSET Runs
    BY LifecycleAssumption DEF Keepers
  <1>4. IsFiniteSet(Keepers(p))
    BY <1>3, FS_Subset
  <1>5. /\ Occurrences(rules, {p}) \in Nat
        /\ Occurrences(rules, {p}) = 0 <=> ~Contains(rules, p)
    BY <1>2, OccurrencesType DEF Contains
  <1> QED  BY <1>1, <1>2, <1>4, <1>5, FS_CardinalityType, FS_EmptySet

(* A rule that is removed by its text is one less, when there is one.      *)
LEMMA RemoveFirstOccurrences ==
  ASSUME NEW S, NEW s \in Seq(S), NEW e \in S, NEW q \in S
  PROVE  /\ q = e /\ Occurrences(s, {e}) # 0 =>
              Occurrences(RemoveFirst(s, e), {q}) = Occurrences(s, {q}) - 1
         /\ q # e \/ Occurrences(s, {e}) = 0 =>
              Occurrences(RemoveFirst(s, e), {q}) = Occurrences(s, {q})
  <1>1. Len(s) \in Nat
    OBVIOUS
  <1>2. Occurrences(s, {e}) = 0 <=> \A i \in 1..Len(s) : s[i] # e
    BY <1>1, OccurrencesType
  <1>3. \/ (\A i \in 1..Len(s) : s[i] # e) /\ RemoveFirst(s, e) = s
        \/ \E k \in 1..Len(s) : s[k] = e /\ RemoveFirst(s, e) = RemoveAt(s, k)
    BY <1>1, RemoveFirstProperties
  <1>4. ASSUME NEW k \in 1..Len(s), s[k] = e, RemoveFirst(s, e) = RemoveAt(s, k)
        PROVE  /\ Occurrences(s, {e}) # 0
               /\ Occurrences(RemoveFirst(s, e), {q})
                    = IF q = e THEN Occurrences(s, {q}) - 1 ELSE Occurrences(s, {q})
    <2>1. Occurrences(RemoveAt(s, k), {q})
            = IF s[k] \in {q} THEN Occurrences(s, {q}) - 1 ELSE Occurrences(s, {q})
      BY RemoveAtOccurrences
    <2>2. Occurrences(s, {e}) # 0
      BY <1>2, <1>4
    <2> QED  BY <1>4, <2>1, <2>2
  <1> QED  BY <1>2, <1>3, <1>4

(* A port is opened for one more run, and gets a rule where each has one.  *)
LEMMA OpenPortInv ==
  ASSUME FirewallInv, NEW r \in Runs, NEW p \in Ports, OpenPort(r, p)
  PROVE  /\ (host.dry_run => rules = <<>>)'
         /\ \A q \in Ports : PortInv(q)'
  <1>0. /\ TypeOK /\ DOMAIN run = Runs /\ run[r] \in RunState /\ Stage(r)
        /\ past \in [raced : BOOLEAN, unlocked : BOOLEAN, shared : SUBSET Ports,
                     dirty : BOOLEAN]
        /\ UNCHANGED host
    BY DEF FirewallInv, StageInv, TypeOK, OpenPort
  <1>1. PICK ok \in BOOLEAN :
          /\ run' = [run EXCEPT ![r].todo = @ \ {p},
                                ![r].opened = IF ok THEN @ \cup {p} ELSE @]
          /\ rules' = IF \/ ~ok
                         \/ host.dry_run
                         \/ FwBackend = "ufw" /\ Contains(rules, p)
                      THEN rules ELSE Append(rules, p)
          /\ past' = IF ok /\ \E s \in Runs \ {r} : Holds(s, p)
                     THEN [past EXCEPT !.shared = @ \cup {p}] ELSE past
    BY DEF OpenPort
  <1>2. /\ \A s \in Runs \ {r} : run'[s] = run[s]
        /\ run'[r].opened = IF ok THEN run[r].opened \cup {p} ELSE run[r].opened
        /\ run'[r].sig = run[r].sig
    BY <1>0, <1>1 DEF RunState
  <1>3. run[r].sig = "none" /\ p \notin run[r].opened
    BY <1>0 DEF Stage, OpenPort
  <1>4. (host.dry_run => rules = <<>>)'
    BY <1>0, <1>1 DEF FirewallInv
  <1>5. ASSUME NEW q \in Ports PROVE PortInv(q)'
    <2> DEFINE K == Keepers(q)
               L == Keepers(q)'
               m == Occurrences(rules, {q})
               n == Occurrences(rules', {q})
    <2>1. /\ IsFiniteSet(K) /\ Cardinality(K) \in Nat /\ (Cardinality(K) = 0 <=> K = {})
          /\ rules \in Seq(Ports) /\ m \in Nat /\ (m = 0 <=> ~Contains(rules, q))
      BY <1>0, PortTypes
    <2>2. PortInv(q)
      BY DEF FirewallInv
    <2>3. FwBackend' = FwBackend
      BY <1>0 DEF FwBackend
    <2>4. CASE ~ok \/ q # p
      <3>1. L = K
        BY <1>2, <1>3, <2>4 DEF Keepers, Holds
      <3>2. n = m
        <4>1. Occurrences(Append(rules, p), {q}) = m \/ q = p
          BY <2>1, AppendOccurrences
        <4> QED  BY <1>1, <2>4, <4>1
      <3>3. past'.dirty = past.dirty /\ (q \in past'.shared <=> q \in past.shared)
        BY <1>0, <1>1, <2>4
      <3> HIDE DEF K, L, m, n
      <3>4. Keepers(q)' = Keepers(q) /\ Occurrences(rules', {q}) = Occurrences(rules, {q})
        BY <3>1, <3>2 DEF K, L, m, n
      <3> QED
        BY <1>0, <2>2, <2>3, <3>3, <3>4
           DEF PortInv, EnoughRules, NoRuleLeft, OneUfwRule, NotShared
    <2>5. CASE ok /\ q = p
      <3>1. L = K \cup {r} /\ r \notin K
        BY <1>2, <1>3, <2>5 DEF Keepers, Holds
      <3>2. past'.dirty = past.dirty /\ (q \notin past'.shared => K = {})
        BY <1>0, <1>1, <1>3, <2>5 DEF Keepers, Holds
      <3>3. Occurrences(Append(rules, p), {q}) = m + 1
        BY <2>1, <2>5, AppendOccurrences
      <3>4. ~host.dry_run /\ FwBackend # "ufw" => n = m + 1
        BY <1>1, <2>5, <3>3
      <3>5. ~host.dry_run /\ FwBackend = "ufw" => n = IF m = 0 THEN 1 ELSE m
        BY <1>1, <2>1, <2>5, <3>3
      <3> HIDE DEF K, L, m, n
      <3>6. Cardinality(L) = Cardinality(K) + 1
        BY <2>1, <3>1, FS_AddElement
      <3>7. EnoughRules(q)'
        <4>1. ~host.dry_run /\ FwBackend # "ufw" => Cardinality(K) <= m
          BY <2>2 DEF PortInv, EnoughRules, K, m
        <4>2. ~host.dry_run /\ FwBackend # "ufw" => Cardinality(L) <= n
          BY <2>1, <3>4, <3>6, <4>1
        <4> QED  BY <1>0, <2>3, <4>2 DEF EnoughRules, L, n
      <3>8. NoRuleLeft(q)'
        <4>1. ~host.dry_run /\ FwBackend \notin {"ufw", "nftables"} /\ ~past.dirty =>
                m <= Cardinality(K)
          BY <2>2 DEF PortInv, NoRuleLeft, K, m
        <4>2. ~host.dry_run /\ FwBackend \notin {"ufw", "nftables"} /\ ~past.dirty =>
                n <= Cardinality(L)
          BY <2>1, <3>4, <3>6, <4>1
        <4> QED  BY <1>0, <2>3, <3>2, <4>2 DEF NoRuleLeft, L, n
      <3>9. OneUfwRule(q)'
        <4>1. ~host.dry_run /\ FwBackend = "ufw" => m <= 1
          BY <2>2 DEF PortInv, OneUfwRule, m
        <4>2. ~host.dry_run /\ FwBackend = "ufw" => n = 1
          BY <2>1, <3>5, <4>1
        <4>3. L # {}
          BY <3>1
        <4> QED  BY <1>0, <2>3, <4>2, <4>3 DEF OneUfwRule, L, n
      <3>10. NotShared(q)'
        BY <3>1, <3>2 DEF NotShared, L
      <3> QED  BY <3>7, <3>8, <3>9, <3>10 DEF PortInv
    <2> QED  BY <2>4, <2>5
  <1> QED  BY <1>4, <1>5

(* A port is closed for one run, and loses one rule where each has one; it *)
(* keeps it when the command fails.                                        *)
LEMMA ClosePortInv ==
  ASSUME FirewallInv, NEW r \in Runs, NEW p \in Ports, ClosePort(r, p)
  PROVE  /\ (host.dry_run => rules = <<>>)'
         /\ \A q \in Ports : PortInv(q)'
  <1> DEFINE removes == ~host.dry_run /\ FwBackend # "nftables"
  <1>0. /\ TypeOK /\ DOMAIN run = Runs /\ run[r] \in RunState /\ Stage(r)
        /\ past \in [raced : BOOLEAN, unlocked : BOOLEAN, shared : SUBSET Ports,
                     dirty : BOOLEAN]
        /\ UNCHANGED host
    BY DEF FirewallInv, StageInv, TypeOK, ClosePort
  <1>1. PICK ok \in BOOLEAN :
          /\ removes \/ ok
          /\ rules' = IF ok /\ removes THEN RemoveFirst(rules, p) ELSE rules
          /\ past' = [past EXCEPT !.dirty = @ \/ ~ok]
    BY DEF ClosePort
  <1>2. /\ \A s \in Runs \ {r} : run'[s] = run[s]
        /\ run'[r].todo = run[r].todo \ {p} /\ p \in run[r].todo
        /\ run'[r].opened = run[r].opened
        /\ run[r].sig = "closing" /\ run'[r].sig = "closing"
    BY <1>0 DEF ClosePort, RunState
  <1>3. run[r].opened = {}
    BY <1>0, <1>2 DEF Stage
  <1>4. (host.dry_run => rules = <<>>)'
    BY <1>0, <1>1 DEF FirewallInv
  <1>5. ASSUME NEW q \in Ports PROVE PortInv(q)'
    <2> DEFINE K == Keepers(q)
               L == Keepers(q)'
               m == Occurrences(rules, {q})
               n == Occurrences(rules', {q})
    <2>1. /\ IsFiniteSet(K) /\ Cardinality(K) \in Nat /\ (Cardinality(K) = 0 <=> K = {})
          /\ rules \in Seq(Ports) /\ m \in Nat /\ (m = 0 <=> ~Contains(rules, q))
      BY <1>0, PortTypes
    <2>2. PortInv(q)
      BY DEF FirewallInv
    <2>3. FwBackend' = FwBackend
      BY <1>0 DEF FwBackend
    <2>4. /\ past'.shared = past.shared
          /\ past'.dirty <=> past.dirty \/ ~ok
      BY <1>0, <1>1
    <2>5. /\ q = p /\ Occurrences(rules, {p}) # 0 =>
               Occurrences(RemoveFirst(rules, p), {q}) = Occurrences(rules, {q}) - 1
          /\ q # p \/ Occurrences(rules, {p}) = 0 =>
               Occurrences(RemoveFirst(rules, p), {q}) = Occurrences(rules, {q})
      BY <2>1, RemoveFirstOccurrences
    <2>6. CASE q # p
      <3>1. L = K
        BY <1>2, <1>3, <2>6 DEF Keepers, Holds
      <3>2. n = m
        BY <1>1, <2>5, <2>6
      <3> HIDE DEF K, L, m, n
      <3>3. Keepers(q)' = Keepers(q) /\ Occurrences(rules', {q}) = Occurrences(rules, {q})
        BY <3>1, <3>2 DEF K, L, m, n
      <3> QED
        BY <1>0, <2>2, <2>3, <2>4, <3>3
           DEF PortInv, EnoughRules, NoRuleLeft, OneUfwRule, NotShared
    <2>7. CASE q = p
      <3>1. L = K \ {r} /\ r \in K
        BY <1>2, <1>3, <2>7 DEF Keepers, Holds
      <3>2. n = IF ok /\ removes /\ m # 0 THEN m - 1 ELSE m
        BY <1>1, <2>5, <2>7
      <3> HIDE DEF K, L, m, n
      <3>3. Cardinality(L) = Cardinality(K) - 1 /\ Cardinality(K) # 0
        BY <2>1, <3>1, FS_RemoveElement
      <3>4. ~host.dry_run /\ FwBackend # "ufw" => Cardinality(K) <= m
        BY <2>2 DEF PortInv, EnoughRules, K, m
      <3>5. EnoughRules(q)'
        <4>1. ~host.dry_run /\ FwBackend # "ufw" => Cardinality(L) <= n
          BY <2>1, <3>2, <3>3, <3>4
        <4> QED  BY <1>0, <2>3, <4>1 DEF EnoughRules, L, n
      <3>6. NoRuleLeft(q)'
        <4>1. ~host.dry_run /\ FwBackend \notin {"ufw", "nftables"} /\ ~past.dirty =>
                m <= Cardinality(K)
          BY <2>2 DEF PortInv, NoRuleLeft, K, m
        <4>2. ~host.dry_run /\ FwBackend \notin {"ufw", "nftables"} /\ ~past.dirty /\ ok =>
                n <= Cardinality(L)
          BY <2>1, <3>2, <3>3, <3>4, <4>1
        <4> QED  BY <1>0, <2>3, <2>4, <4>2 DEF NoRuleLeft, L, n
      <3>7. OneUfwRule(q)'
        <4>1. ~host.dry_run /\ FwBackend = "ufw" => m <= 1
          BY <2>2 DEF PortInv, OneUfwRule, m
        <4>2. ~host.dry_run /\ FwBackend = "ufw" => n <= 1 /\ (ok => n = 0)
          BY <2>1, <3>2, <4>1
        <4>3. q \notin past.shared => L = {}
          BY <2>2, <3>1 DEF PortInv, NotShared, K
        <4> QED  BY <1>0, <2>3, <2>4, <4>2, <4>3 DEF OneUfwRule, L, n
      <3>8. NotShared(q)'
        BY <2>2, <2>4, <3>1 DEF PortInv, NotShared, K, L
      <3> QED  BY <3>5, <3>6, <3>7, <3>8 DEF PortInv
    <2> QED  BY <2>6, <2>7
  <1> QED  BY <1>4, <1>5

(* A run that ends in another way leaves its rules behind.                 *)
LEMMA DiesInv ==
  ASSUME FirewallInv, NEW r \in Runs, Dies(r)
  PROVE  /\ (host.dry_run => rules = <<>>)'
         /\ \A q \in Ports : PortInv(q)'
  <1>0. /\ TypeOK /\ DOMAIN run = Runs
        /\ past \in [raced : BOOLEAN, unlocked : BOOLEAN, shared : SUBSET Ports,
                     dirty : BOOLEAN]
        /\ UNCHANGED <<host, rules>>
    BY DEF FirewallInv, StageInv, TypeOK, Dies
  <1>1. /\ \A s \in Runs \ {r} : run'[s] = run[s]
        /\ run'[r].opened = {} /\ run'[r].sig = "none"
    BY <1>0 DEF Dies, NotRunning
  <1>2. /\ past'.shared = past.shared
        /\ past'.dirty <=> past.dirty \/ \E p \in Ports : Holds(r, p)
    BY <1>0 DEF Dies
  <1>3. (host.dry_run => rules = <<>>)'
    BY <1>0 DEF FirewallInv
  <1>4. ASSUME NEW q \in Ports PROVE PortInv(q)'
    <2> DEFINE K == Keepers(q)
               L == Keepers(q)'
    <2>1. IsFiniteSet(K) /\ Cardinality(K) \in Nat /\ Occurrences(rules, {q}) \in Nat
      BY <1>0, PortTypes
    <2>2. PortInv(q)
      BY DEF FirewallInv
    <2>3. FwBackend' = FwBackend
      BY <1>0 DEF FwBackend
    <2>4. L \in SUBSET K
      BY <1>1 DEF Keepers, Holds
    <2>5. ~past'.dirty => L = K
      BY <1>1, <1>2 DEF Keepers, Holds
    <2> HIDE DEF K, L
    <2>6. Cardinality(L) \in Nat /\ Cardinality(L) <= Cardinality(K)
      BY <2>1, <2>4, FS_Subset, FS_CardinalityType
    <2>7. EnoughRules(q)'
      <3>1. ~host.dry_run /\ FwBackend # "ufw" => Cardinality(K) <= Occurrences(rules, {q})
        BY <2>2 DEF PortInv, EnoughRules, K
      <3>2. ~host.dry_run /\ FwBackend # "ufw" => Cardinality(L) <= Occurrences(rules, {q})
        BY <2>1, <2>6, <3>1
      <3> QED  BY <1>0, <2>3, <3>2 DEF EnoughRules, L
    <2>8. NoRuleLeft(q)'
      BY <1>0, <1>2, <2>2, <2>3, <2>5 DEF PortInv, NoRuleLeft, K, L
    <2>9. OneUfwRule(q)'
      <3>1. L # {} => K # {}
        BY <2>4
      <3>2. ~past'.dirty => ~past.dirty /\ L = K
        BY <1>2, <2>5
      <3> QED  BY <1>0, <1>2, <2>2, <2>3, <3>1, <3>2 DEF PortInv, OneUfwRule, K, L
    <2>10. NotShared(q)'
      BY <1>2, <2>2, <2>4 DEF PortInv, NotShared, K, L
    <2> QED  BY <2>7, <2>8, <2>9, <2>10 DEF PortInv
  <1> QED  BY <1>3, <1>4

(* Each step keeps the rules and the open ports in step.                  *)
LEMMA NextFirewallInv == FirewallInv /\ [Next]_vars => FirewallInv'
  <1> SUFFICES ASSUME FirewallInv, [Next]_vars
               PROVE  /\ (host.dry_run => rules = <<>>)'
                      /\ \A q \in Ports : PortInv(q)'
    BY NextStageInv DEF FirewallInv
  <1>1. ASSUME \A s \in Runs, p \in Ports : Holds(s, p)' <=> Holds(s, p),
               UNCHANGED <<host, rules, past.shared, past.dirty>>
        PROVE  /\ (host.dry_run => rules = <<>>)'
               /\ \A q \in Ports : PortInv(q)'
    <2>1. \A q \in Ports : Keepers(q)' = Keepers(q)
      BY <1>1 DEF Keepers
    <2>2. FwBackend' = FwBackend
      BY <1>1 DEF FwBackend
    <2> QED
      BY <1>1, <2>1, <2>2
         DEF FirewallInv, PortInv, EnoughRules, NoRuleLeft, OneUfwRule, NotShared
  <1>2. CASE Stranger \/ UNCHANGED vars
    BY <1>1, <1>2 DEF Stranger, vars, Holds
  <1>3. ASSUME NEW r \in Runs,
               \/ Start(r) \/ CheckLock(r) \/ Apply(r) \/ WriteLock(r) \/ HandlesEnd(r)
               \/ RemoveByText(r) \/ ListRules(r) \/ RemoveByHandle(r) \/ Unlock(r)
               \/ Spawn(r) \/ Serve(r) \/ Arm(r) \/ CtrlC(r) \/ (\E p \in Ports : Bind(r, p))
        PROVE  /\ (host.dry_run => rules = <<>>)'
               /\ \A q \in Ports : PortInv(q)'
    <2>1. StageInv
      BY DEF FirewallInv
    <2> QED  BY <1>1, <1>3, <2>1, HoldsStays
  <1> QED  BY <1>2, <1>3, OpenPortInv, ClosePortInv, DiesInv, FirewallCases

(* A port that a run opened (open_rule) keeps a rule until that run closes *)
(* it, however many runs open and close it: with ufw, which keeps one rule *)
(* for all, unless two shared it.  And a port nobody has open has no rule, *)
(* unless a run died, a removal (close_rule) failed or the rule is nft's.  *)
THEOREM FirewallFollowsRunsHolds == Spec => []FirewallFollowsRuns
  <1>1. Init => FirewallInv
    <2> SUFFICES ASSUME Init PROVE FirewallInv
      OBVIOUS
    <2>1. /\ run = [r \in Runs |-> NotRunning("off")] /\ rules = <<>> /\ past = NoPast
          /\ StageInv /\ TypeOK
      BY InitStageInv, InitTypeOK DEF Init
    <2>2. ASSUME NEW p \in Ports PROVE PortInv(p)
      <3>1. Keepers(p) = {}
        BY <2>1 DEF Keepers, Holds, NotRunning
      <3>2. ~Contains(rules, p)
        BY <2>1 DEF Contains
      <3>3. Cardinality(Keepers(p)) = 0 /\ Occurrences(rules, {p}) = 0
        BY <2>1, <3>1, <3>2, PortTypes
      <3> QED
        BY <3>1, <3>3 DEF PortInv, EnoughRules, NoRuleLeft, OneUfwRule, NotShared
    <2> QED  BY <2>1, <2>2 DEF FirewallInv
  <1>2. FirewallInv => FirewallFollowsRuns
    <2> SUFFICES ASSUME FirewallInv, NEW p \in Ports
                 PROVE  /\ \A r \in Runs :
                             p \in run[r].opened /\ ~host.dry_run
                               /\ (FwBackend = "ufw" => p \notin past.shared)
                             => Contains(rules, p)
                        /\ (\A r \in Runs : ~Holds(r, p)) /\ ~past.dirty
                             /\ FwBackend # "nftables"
                           => ~Contains(rules, p)
      BY DEF FirewallFollowsRuns
    <2>1. TypeOK /\ PortInv(p) /\ (host.dry_run => rules = <<>>)
      BY DEF FirewallInv, StageInv
    <2>2. /\ Cardinality(Keepers(p)) \in Nat
          /\ Cardinality(Keepers(p)) = 0 <=> Keepers(p) = {}
          /\ Occurrences(rules, {p}) \in Nat
          /\ Occurrences(rules, {p}) = 0 <=> ~Contains(rules, p)
      BY <2>1, PortTypes
    <2>3. ASSUME NEW r \in Runs, p \in run[r].opened, ~host.dry_run,
                 FwBackend = "ufw" => p \notin past.shared
          PROVE  Contains(rules, p)
      <3>1. Keepers(p) # {}
        BY <2>3 DEF Keepers, Holds
      <3>2. Occurrences(rules, {p}) # 0
        BY <2>1, <2>2, <2>3, <3>1 DEF PortInv, EnoughRules, OneUfwRule
      <3> QED  BY <2>2, <3>2
    <2>4. ASSUME \A r \in Runs : ~Holds(r, p), ~past.dirty, FwBackend # "nftables"
          PROVE  ~Contains(rules, p)
      <3>1. Keepers(p) = {}
        BY <2>4 DEF Keepers
      <3>2. CASE host.dry_run
        BY <2>1, <3>2 DEF Contains
      <3>3. CASE ~host.dry_run
        BY <2>1, <2>2, <2>4, <3>1, <3>3 DEF PortInv, NoRuleLeft, OneUfwRule
      <3> QED  BY <3>2, <3>3
    <2> QED  BY <2>3, <2>4
  <1> QED  BY <1>1, <1>2, NextFirewallInv, PTL DEF Spec
=============================================================================
