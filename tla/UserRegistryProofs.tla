------------------------- MODULE UserRegistryProofs -------------------------
(***************************************************************************)
(* Proofs about UserRegistry: its types, that an existing user can         *)
(* authenticate, and what holds while requests come one by one, for any    *)
(* number of users, domains and requests, any failing writes and crashes.  *)
(***************************************************************************)
EXTENDS UserRegistry, TLAPS

(* Nobody works while the process is down.                                 *)
DownIsIdle == ~running => \A t \in Tasks : ~Active(t)

(* Nothing is known yet of a user whose creation has not begun.            *)
Fresh ==
  \A t \in Tasks : Kind[t] = "create" /\ pc[t] = "new" =>
    /\ User[t] \notin by_id
    /\ User[t] \notin file
    /\ \A s \in Tasks : User[t] \notin snap[s]
    /\ \A s \in Tasks : Kind[s] = "delete" /\ pc[s] = "key" => User[s] # User[t]

(* A deletion that has yet to remove the key has removed the id.           *)
IdGoneFirst ==
  \A t \in Tasks : Kind[t] = "delete" /\ pc[t] = "key" => User[t] \notin by_id

(* A user without a key is one whose creation is about to insert it.       *)
KeyComes ==
  running => \A u \in by_id : \/ u \in by_key
                              \/ \E t \in Tasks : /\ Kind[t] = "create"
                                                  /\ User[t] = u
                                                  /\ pc[t] = "key"

KeyInv == TypeOK /\ DownIsIdle /\ Fresh /\ IdGoneFirst /\ KeyComes

-----------------------------------------------------------------------------
(* What holds besides while every request waits for the one before.        *)

(* A domain leads only to a user that has it.                              *)
Owned ==
  \A d \in Domains : by_domain[d] # NoUser =>
    \E i \in DOMAIN DomainsOf[by_domain[d]] : DomainsOf[by_domain[d]][i] = d

(* A request starts with its first domain.                                 *)
FirstDomain == \A t \in Tasks : pc[t] \in {"new", "key"} => dom[t] = 1

OneAtATime == in_turn => \A s, t \in Tasks : Active(s) /\ Active(t) => s = t

(* Nothing takes away the user that is being created.                      *)
CreatedIsThere ==
  in_turn => \A t \in Tasks : Kind[t] = "create" /\ Active(t) => User[t] \in by_id

(* The key of a user that is gone is the next thing its deletion removes.  *)
KeyGoes ==
  in_turn /\ running => \A u \in by_key :
    \/ u \in by_id
    \/ \E t \in Tasks : Kind[t] = "delete" /\ pc[t] = "key" /\ User[t] = u

(* The deletion t has yet to come to domain d.                             *)
WillRemove(t, d) ==
  /\ Kind[t] = "delete"
  /\ User[t] = by_domain[d]
  /\ \/ pc[t] = "key"
     \/ /\ pc[t] = "domains"
        /\ \E i \in DOMAIN DomainsOf[User[t]] :
             i >= dom[t] /\ DomainsOf[User[t]][i] = d

(* A domain of a user that is gone is one its deletion has yet to remove.  *)
DomainsGo ==
  in_turn /\ running => \A d \in Domains :
    by_domain[d] \in by_id \cup {NoUser} \/ \E t \in Tasks : WillRemove(t, d)

DanglingInv ==
  /\ TypeOK
  /\ DownIsIdle
  /\ Owned
  /\ FirstDomain
  /\ OneAtATime
  /\ CreatedIsThere
  /\ KeyGoes
  /\ DomainsGo

(* No write of the file has failed or been torn off.                       *)
NoFailure == \A t \in Tasks : pc[t] \notin {"error", "unsaved", "torn"}

(* A request that is not in persist has not begun its snapshot.            *)
NoSnapshotYet ==
  \A t \in Tasks : \/ pc[t] \in {"new", "key"}
                   \/ pc[t] = "domains" /\ dom[t] <= Len(DomainsOf[User[t]])
    => scan[t] = 1 /\ snap[t] = {}

(* What the snapshot has passed is what by_id says.                        *)
SnapshotIsTrue ==
  in_turn => \A t \in Tasks : pc[t] = "domains" =>
    snap[t] = {u \in by_id : u < scan[t]}

(* A request that writes writes all of by_id over an empty file.           *)
WritesAll ==
  in_turn => \A t \in Tasks : pc[t] = "write" => snap[t] = by_id /\ file = {}

(* Nobody has deleted a user whose creation has not ended.                 *)
NotYetDeleted ==
  in_turn => \A s, t \in Tasks :
    /\ Kind[t] = "create" /\ (pc[t] = "new" \/ Active(t))
    /\ Kind[s] = "delete" /\ User[s] = User[t]
    => pc[s] \in {"new", "not_found"}

(* Unless it is being written, the file says what the answers said ...     *)
FileSays ==
  in_turn /\ NoFailure /\ (\A t \in Tasks : pc[t] \notin {"write", "part"}) =>
    file = Survivors

(* ... and so do the maps, but for the user of the request under way.      *)
MapSays ==
  in_turn /\ NoFailure /\ running =>
    /\ AtRest => by_id = Survivors
    /\ \A t \in Tasks : Active(t) =>
         by_id = IF Kind[t] = "create" THEN Survivors \cup {User[t]}
                                       ELSE Survivors \ {User[t]}

FileInv ==
  /\ KeyInv
  /\ OneAtATime
  /\ NoSnapshotYet
  /\ SnapshotIsTrue
  /\ WritesAll
  /\ NotYetDeleted
  /\ FileSays
  /\ MapSays

-----------------------------------------------------------------------------
(* What a write leaves in the file is users of the old or of the new text, *)
(* or what does not parse.                                                 *)
LEMMA OverwriteProperties ==
  ASSUME NEW old \in (SUBSET Users) \cup {Garbled}, NEW new \in SUBSET Users,
         NEW text \in Overwrite(old, new)
  PROVE  /\ text \in (SUBSET Users) \cup {Garbled}
         /\ \A u \in Users : u \in text => u \in old \/ u \in new
         /\ old = {} => text = new
  <1>1. 0 \notin Users  BY UserRegistryAssumption DEF Users
  <1>2. CASE old = Garbled
    BY <1>1, <1>2 DEF Overwrite, Garbled
  <1>3. CASE old # Garbled
    BY <1>1, <1>3 DEF Overwrite, Garbled
  <1> QED  BY <1>2, <1>3

(* What a write that comes to no end leaves in the file.                   *)
LEMMA FailureProperties ==
  ASSUME TypeOK, NEW t \in Tasks, WritePart(t) \/ PersistFails(t)
  PROVE  /\ file' \in (SUBSET Users) \cup {Garbled}
         /\ \A u \in Users : u \in file' => u \in file \/ u \in snap[t]
  <1>1. Garbled \cap Users = {}
    BY UserRegistryAssumption DEF Users, Garbled
  <1>2. CASE UNCHANGED file
    BY <1>2 DEF TypeOK
  <1>3. CASE file' = Garbled
    BY <1>1, <1>3
  <1>4. CASE file' # file /\ file' # Garbled
    <2>1. PICK n \in 0..NumUsers : file' \in Overwrite(file, snap[t] \cap 1..n)
      BY <1>4 DEF WritePart, PersistFails, CutShort
    <2> DEFINE new == snap[t] \cap 1..n
    <2>2. new \in SUBSET Users /\ file' \in Overwrite(file, new)
      BY <2>1 DEF TypeOK
    <2>3. file \in (SUBSET Users) \cup {Garbled}
      BY DEF TypeOK
    <2>4. new \subseteq snap[t]
      OBVIOUS
    <2> HIDE DEF new
    <2> QED  BY <2>2, <2>3, <2>4, OverwriteProperties
  <1> QED  BY <1>2, <1>3, <1>4

(* An empty registry has it all.                                           *)
LEMMA InitKeyInv == Init => KeyInv
  BY UserRegistryAssumption
  DEF Init, KeyInv, TypeOK, DownIsIdle, Fresh, IdGoneFirst, KeyComes, Users,
      Garbled, Active, Ended

(* Each way to continue keeps the types.                                   *)
LEMMA NextTypeOK == TypeOK /\ [Next]_vars => TypeOK'
  <1> SUFFICES ASSUME TypeOK, [Next]_vars PROVE TypeOK'
    OBVIOUS
  <1> USE UserRegistryAssumption
  <1>1. ASSUME NEW t \in Tasks, InsertId(t) PROVE TypeOK'
    BY <1>1 DEF InsertId, Begin, Goto, TypeOK
  <1>2. ASSUME NEW t \in Tasks, RemoveId(t) PROVE TypeOK'
    BY <1>2 DEF RemoveId, Begin, Goto, TypeOK, Ended
  <1>3. ASSUME NEW t \in Tasks, InsertKey(t) PROVE TypeOK'
    BY <1>3 DEF InsertKey, Goto, TypeOK
  <1>4. ASSUME NEW t \in Tasks, RemoveKey(t) PROVE TypeOK'
    BY <1>4 DEF RemoveKey, Goto, TypeOK
  <1>5. ASSUME NEW t \in Tasks, Domain(t) PROVE TypeOK'
    BY <1>5 DEF Domain, TypeOK
  <1>6. ASSUME NEW t \in Tasks, Snapshot(t) PROVE TypeOK'
    <2>1. scan' \in [Tasks -> 1..NumUsers + 1]
      BY <1>6 DEF Snapshot, TypeOK
    <2>2. snap' \in [Tasks -> SUBSET Users]
      BY <1>6 DEF Snapshot, TypeOK
    <2> QED  BY <1>6, <2>1, <2>2 DEF Snapshot, maps, TypeOK
  <1>7. ASSUME NEW t \in Tasks, Truncate(t) PROVE TypeOK'
    BY <1>7 DEF Truncate, maps, TypeOK
  <1>8. ASSUME NEW t \in Tasks, Write(t) PROVE TypeOK'
    <2>1. file' \in (SUBSET Users) \cup {Garbled}
      BY <1>8, OverwriteProperties DEF Write, TypeOK
    <2> QED  BY <1>8, <2>1 DEF Write, Goto, maps, TypeOK, Ended
  <1>9. ASSUME NEW t \in Tasks, WritePart(t) \/ PersistFails(t) PROVE TypeOK'
    <2>1. file' \in (SUBSET Users) \cup {Garbled}
      BY <1>9, FailureProperties DEF TypeOK
    <2>2. pc' \in [Tasks -> Ended \cup {"new", "key", "domains", "write", "part"}]
      BY <1>9 DEF WritePart, PersistFails, Goto, TypeOK, Ended
    <2> QED  BY <1>9, <2>1, <2>2 DEF WritePart, PersistFails, maps, TypeOK
  <1>10. CASE Crash
    <2>1. pc' \in [Tasks -> Ended \cup {"new", "key", "domains", "write", "part"}]
      BY <1>10 DEF Crash, TypeOK, Ended
    <2>2. /\ dom' \in [Tasks -> Nat \ {0}]
          /\ scan' \in [Tasks -> 1..NumUsers + 1]
          /\ snap' \in [Tasks -> SUBSET Users]
      BY <1>10 DEF Crash
    <2> QED  BY <1>10, <2>1, <2>2 DEF Crash, maps, TypeOK
  <1>11. CASE Restart
    <2>1. Loaded \subseteq Users  BY DEF Loaded, TypeOK
    <2> QED  BY <1>11, <2>1 DEF Restart, TypeOK
  <1>12. CASE UNCHANGED vars
    BY <1>12 DEF vars, TypeOK
  <1> QED
    BY <1>1, <1>2, <1>3, <1>4, <1>5, <1>6, <1>7, <1>8, <1>9, <1>10, <1>11,
       <1>12 DEF Next, TaskStep

-----------------------------------------------------------------------------
(* Only requests of a process that is up do anything: what is down is idle. *)
LEMMA NextDownIsIdle == TypeOK /\ DownIsIdle /\ [Next]_vars => DownIsIdle'
  <1> SUFFICES ASSUME TypeOK, DownIsIdle, [Next]_vars, NEW s \in Tasks, ~running',
                      Active(s)'
               PROVE  FALSE
    BY DEF DownIsIdle
  <1> USE DEF TypeOK, DownIsIdle, Active, Ended
  <1>1. ASSUME NEW t \in Tasks, InsertId(t) \/ RemoveId(t) PROVE FALSE
    BY <1>1 DEF InsertId, RemoveId, Begin
  <1>2. ASSUME NEW t \in Tasks, TaskStep(t) PROVE FALSE
    <2>1. running' = running
      BY <1>2 DEF TaskStep, InsertKey, RemoveKey, Domain, Snapshot, Truncate,
                  Write, WritePart, PersistFails
    <2>2. Active(t)
      BY <1>2 DEF TaskStep, InsertKey, RemoveKey, Domain, Snapshot, Truncate,
                  Write, WritePart, PersistFails, Goto, InPersist
    <2> QED  BY <2>1, <2>2
  <1>3. CASE Crash
    BY <1>3 DEF Crash
  <1>4. CASE Restart
    BY <1>4 DEF Restart
  <1>5. CASE UNCHANGED vars
    BY <1>5 DEF vars
  <1> QED  BY <1>1, <1>2, <1>3, <1>4, <1>5 DEF Next

(* A write puts no user in the file that was neither there nor in the      *)
(* snapshot.                                                               *)
LEMMA FileFromSnapshot ==
  ASSUME TypeOK, NEW t \in Tasks,
         Truncate(t) \/ Write(t) \/ WritePart(t) \/ PersistFails(t)
  PROVE  \A u \in Users : u \in file' => u \in file \/ u \in snap[t]
  <1>1. CASE Truncate(t)
    BY <1>1 DEF Truncate
  <1>2. CASE Write(t)
    BY <1>2, OverwriteProperties DEF Write, TypeOK
  <1>3. CASE WritePart(t) \/ PersistFails(t)
    BY <1>3, FailureProperties
  <1> QED  BY <1>1, <1>2, <1>3

(* Each step keeps what the keys rest on.                                  *)
LEMMA NextKeyInv == KeyInv /\ [Next]_vars => KeyInv'
  <1> SUFFICES ASSUME KeyInv, [Next]_vars PROVE (Fresh /\ IdGoneFirst /\ KeyComes)'
    BY NextTypeOK, NextDownIsIdle DEF KeyInv
  <1> USE UserRegistryAssumption DEF KeyInv, TypeOK
  <1>1. ASSUME NEW t \in Tasks, InsertId(t)
        PROVE  (Fresh /\ IdGoneFirst /\ KeyComes)'
    <2>1. Fresh'
      BY <1>1, FreshIdsAssumption DEF InsertId, Goto, Fresh
    <2>2. IdGoneFirst'
      BY <1>1 DEF InsertId, Goto, Fresh, IdGoneFirst
    <2>3. KeyComes'
      BY <1>1 DEF InsertId, Goto, KeyComes
    <2> QED  BY <2>1, <2>2, <2>3
  <1>2. ASSUME NEW t \in Tasks, RemoveId(t)
        PROVE  (Fresh /\ IdGoneFirst /\ KeyComes)'
    <2>1. Fresh'
      BY <1>2 DEF RemoveId, Goto, Fresh
    <2>2. IdGoneFirst'
      BY <1>2 DEF RemoveId, Goto, IdGoneFirst
    <2>3. KeyComes'
      BY <1>2 DEF RemoveId, Goto, KeyComes
    <2> QED  BY <2>1, <2>2, <2>3
  <1>3. ASSUME NEW t \in Tasks, InsertKey(t)
        PROVE  (Fresh /\ IdGoneFirst /\ KeyComes)'
    BY <1>3 DEF InsertKey, Goto, Fresh, IdGoneFirst, KeyComes
  <1>4. ASSUME NEW t \in Tasks, RemoveKey(t)
        PROVE  (Fresh /\ IdGoneFirst /\ KeyComes)'
    BY <1>4 DEF RemoveKey, Goto, Fresh, IdGoneFirst, KeyComes
  <1>5. ASSUME NEW t \in Tasks, Domain(t)
        PROVE  (Fresh /\ IdGoneFirst /\ KeyComes)'
    BY <1>5 DEF Domain, Fresh, IdGoneFirst, KeyComes
  <1>6. ASSUME NEW t \in Tasks, Snapshot(t)
        PROVE  (Fresh /\ IdGoneFirst /\ KeyComes)'
    BY <1>6 DEF Snapshot, maps, Fresh, IdGoneFirst, KeyComes
  <1>7. ASSUME NEW t \in Tasks, Truncate(t) \/ Write(t) \/ WritePart(t) \/ PersistFails(t)
        PROVE  (Fresh /\ IdGoneFirst /\ KeyComes)'
    <2>1. \A u \in Users : u \in file' => u \in file \/ u \in snap[t]
      BY <1>7, FileFromSnapshot
    <2>2. /\ UNCHANGED <<running, by_id, by_key>>
          /\ \A s \in Tasks : snap'[s] \subseteq snap[s]
          /\ pc[t] \notin {"new", "key"}
          /\ \E to \in Ended \cup {"write", "part"} : pc' = [pc EXCEPT ![t] = to]
      BY <1>7 DEF Truncate, Write, WritePart, PersistFails, InPersist, Goto, maps,
                  Ended
    <2>3. Fresh'
      BY <2>1, <2>2 DEF Fresh, Ended
    <2>4. IdGoneFirst'
      BY <2>2 DEF IdGoneFirst, Ended
    <2>5. KeyComes'
      BY <2>2 DEF KeyComes, Ended
    <2> QED  BY <2>3, <2>4, <2>5
  <1>8. CASE Crash
    BY <1>8 DEF Crash, maps, Active, Ended, Fresh, IdGoneFirst, KeyComes
  <1>9. CASE Restart
    <2>1. \A t \in Tasks : pc[t] # "key"
      BY <1>9 DEF Restart, DownIsIdle, Active, Ended
    <2>2. Loaded \subseteq file
      BY DEF Loaded
    <2> QED  BY <1>9, <2>1, <2>2 DEF Restart, Fresh, IdGoneFirst, KeyComes
  <1>10. CASE UNCHANGED vars
    BY <1>10 DEF vars, Fresh, IdGoneFirst, KeyComes
  <1> QED
    BY <1>1, <1>2, <1>3, <1>4, <1>5, <1>6, <1>7, <1>8, <1>9, <1>10
       DEF Next, TaskStep

(* What a user needs to authenticate, at all times.                        *)
LEMMA SpecKeyInv == Spec => []KeyInv
  BY InitKeyInv, NextKeyInv, PTL DEF Spec

(* However the requests to create and delete users overlap, fail or are    *)
(* cut off by a crash: a user in by_id that no request is working on is    *)
(* found by its key.                                                       *)
THEOREM UserCanAuthenticateHolds == Spec => []UserCanAuthenticate
  <1>1. KeyInv => UserCanAuthenticate
    BY DEF KeyInv, KeyComes, UserCanAuthenticate, Busy, Active, Ended
  <1> QED  BY <1>1, SpecKeyInv, PTL

-----------------------------------------------------------------------------
(* The domains of a user are numbered from 1.                              *)
LEMMA DomainsOfType ==
  ASSUME NEW u \in Users
  PROVE  /\ Len(DomainsOf[u]) \in Nat
         /\ DOMAIN DomainsOf[u] = 1..Len(DomainsOf[u])
         /\ \A i \in DOMAIN DomainsOf[u] : DomainsOf[u][i] \in Domains
  BY UserRegistryAssumption

(* An empty registry leads nowhere.                                        *)
LEMMA InitDanglingInv == Init => DanglingInv
  <1> USE UserRegistryAssumption DEF Init
  <1>1. Init => TypeOK /\ DownIsIdle
    BY InitKeyInv DEF KeyInv
  <1>2. Init => Owned /\ FirstDomain
    BY DEF Owned, FirstDomain
  <1>3. Init => OneAtATime /\ CreatedIsThere
    BY DEF OneAtATime, CreatedIsThere, Active
  <1>4. Init => KeyGoes /\ DomainsGo
    BY DEF KeyGoes, DomainsGo
  <1> QED  BY <1>1, <1>2, <1>3, <1>4 DEF DanglingInv

(* A request that begins while another one is under way ends the turns.    *)
LEMMA NextOneAtATime == TypeOK /\ OneAtATime /\ [Next]_vars => OneAtATime'
  <1> SUFFICES ASSUME TypeOK, OneAtATime, [Next]_vars PROVE OneAtATime'
    OBVIOUS
  <1> USE DEF TypeOK, OneAtATime, Active, Ended
  <1>1. ASSUME NEW t \in Tasks, InsertId(t) \/ RemoveId(t) PROVE OneAtATime'
    <2>1. /\ in_turn' => \A s \in Tasks : ~Active(s)
          /\ \E to \in Ended \cup {"key"} : pc' = [pc EXCEPT ![t] = to]
      BY <1>1 DEF InsertId, RemoveId, Begin, Goto
    <2> QED  BY <2>1
  <1>2. ASSUME NEW t \in Tasks, TaskStep(t) PROVE OneAtATime'
    <2>1. /\ in_turn' = in_turn
          /\ \E to \in Ended \cup {"key", "domains", "write", "part"} :
               pc' = [pc EXCEPT ![t] = to]
          /\ pc[t] \notin Ended \cup {"new"}
      BY <1>2 DEF TaskStep, InsertKey, RemoveKey, Domain, Snapshot, Truncate,
                  Write, WritePart, PersistFails, Goto, InPersist
    <2> QED  BY <2>1
  <1>3. CASE Crash
    BY <1>3 DEF Crash
  <1>4. CASE Restart
    BY <1>4 DEF Restart
  <1>5. CASE UNCHANGED vars
    BY <1>5 DEF vars
  <1> QED  BY <1>1, <1>2, <1>3, <1>4, <1>5 DEF Next

(* The domains a map leads to, and where requests are among their domains. *)
LEMMA NextOwned ==
  TypeOK /\ Owned /\ FirstDomain /\ [Next]_vars => Owned' /\ FirstDomain'
  <1> SUFFICES ASSUME TypeOK, Owned, FirstDomain, [Next]_vars
               PROVE  Owned' /\ FirstDomain'
    OBVIOUS
  <1> USE UserRegistryAssumption DEF TypeOK, Owned, FirstDomain
  <1>1. ASSUME NEW t \in Tasks, InsertId(t) \/ RemoveId(t) \/ InsertKey(t)
                                 \/ RemoveKey(t)
        PROVE  Owned' /\ FirstDomain'
    BY <1>1 DEF InsertId, RemoveId, InsertKey, RemoveKey, Goto
  <1>2. ASSUME NEW t \in Tasks, Domain(t)
        PROVE  Owned' /\ FirstDomain'
    <2>1. FirstDomain'
      BY <1>2 DEF Domain
    <2>2. dom[t] \in DOMAIN DomainsOf[User[t]]
      BY <1>2, DomainsOfType DEF Domain
    <2>3. Owned'
      BY <1>2, <2>2 DEF Domain
    <2> QED  BY <2>1, <2>3
  <1>3. ASSUME NEW t \in Tasks, Snapshot(t) \/ Truncate(t) \/ Write(t)
                                 \/ WritePart(t) \/ PersistFails(t)
        PROVE  Owned' /\ FirstDomain'
    BY <1>3 DEF Snapshot, Truncate, Write, WritePart, PersistFails, Goto, InPersist, maps
  <1>4. CASE Crash
    BY <1>4 DEF Crash, maps
  <1>5. CASE Restart
    <2>1. FirstDomain'
      BY <1>5 DEF Restart
    <2>2. Owned'
      BY <1>5 DEF Restart, Owners
    <2> QED  BY <2>1, <2>2
  <1>6. CASE UNCHANGED vars
    BY <1>6 DEF vars
  <1> QED
    BY <1>1, <1>2, <1>3, <1>4, <1>5, <1>6 DEF Next, TaskStep

(* One request at a time: what it leaves behind it is what it has yet to   *)
(* remove.                                                                 *)
LEMMA NextDanglingInv == DanglingInv /\ [Next]_vars => DanglingInv'
  <1> SUFFICES ASSUME DanglingInv, [Next]_vars
               PROVE  (CreatedIsThere /\ KeyGoes /\ DomainsGo)'
    BY NextTypeOK, NextDownIsIdle, NextOneAtATime, NextOwned DEF DanglingInv
  <1> USE UserRegistryAssumption DEF DanglingInv, TypeOK
  <1>1. ASSUME NEW t \in Tasks, InsertId(t)
        PROVE  (CreatedIsThere /\ KeyGoes /\ DomainsGo)'
    <2>1. CreatedIsThere'
      BY <1>1 DEF InsertId, Begin, Goto, CreatedIsThere, Active
    <2>2. KeyGoes'
      BY <1>1 DEF InsertId, Begin, Goto, KeyGoes
    <2>3. DomainsGo'
      BY <1>1 DEF InsertId, Begin, Goto, DomainsGo, WillRemove
    <2> QED  BY <2>1, <2>2, <2>3
  <1>2. ASSUME NEW t \in Tasks, RemoveId(t)
        PROVE  (CreatedIsThere /\ KeyGoes /\ DomainsGo)'
    <2>1. CreatedIsThere'
      BY <1>2 DEF RemoveId, Begin, Goto, CreatedIsThere, Active, Ended
    <2>2. KeyGoes'
      BY <1>2 DEF RemoveId, Begin, Goto, KeyGoes
    <2>3. DomainsGo'
      <3>1. CASE User[t] \in by_id
        <4>1. /\ by_id' = by_id \ {User[t]} /\ UNCHANGED <<running, by_domain, dom>>
              /\ in_turn' => in_turn
              /\ Kind[t] = "delete"
              /\ pc[t] = "new" /\ pc' = [pc EXCEPT ![t] = "key"]
          BY <1>2, <3>1 DEF RemoveId, Begin, Goto
        <4>2. \A s \in Tasks, d \in Domains : WillRemove(s, d) => WillRemove(s, d)'
          BY <4>1 DEF WillRemove
        <4>3. \A d \in Domains : by_domain[d] = User[t] => WillRemove(t, d)'
          BY <4>1 DEF WillRemove
        <4> QED  BY <4>1, <4>2, <4>3 DEF DomainsGo
      <3>2. CASE User[t] \notin by_id
        <4>1. /\ by_id' = by_id /\ UNCHANGED <<running, by_domain, dom>>
              /\ in_turn' => in_turn
              /\ pc[t] = "new" /\ pc' = [pc EXCEPT ![t] = "not_found"]
          BY <1>2, <3>2 DEF RemoveId, Begin, Goto
        <4>2. \A s \in Tasks, d \in Domains : WillRemove(s, d) => WillRemove(s, d)'
          BY <4>1 DEF WillRemove
        <4> QED  BY <4>1, <4>2 DEF DomainsGo
      <3> QED  BY <3>1, <3>2
    <2> QED  BY <2>1, <2>2, <2>3
  <1>3. ASSUME NEW t \in Tasks, InsertKey(t)
        PROVE  (CreatedIsThere /\ KeyGoes /\ DomainsGo)'
    <2>1. CreatedIsThere'
      BY <1>3 DEF InsertKey, Goto, CreatedIsThere, Active, Ended
    <2>2. KeyGoes'
      <3>1. in_turn => User[t] \in by_id
        BY <1>3 DEF InsertKey, Goto, CreatedIsThere, Active, Ended
      <3> QED  BY <1>3, <3>1 DEF InsertKey, Goto, KeyGoes
    <2>3. DomainsGo'
      <3>1. \A s \in Tasks, d \in Domains : WillRemove(s, d) => WillRemove(s, d)'
        BY <1>3 DEF InsertKey, Goto, WillRemove
      <3> QED  BY <1>3, <3>1 DEF InsertKey, DomainsGo
    <2> QED  BY <2>1, <2>2, <2>3
  <1>4. ASSUME NEW t \in Tasks, RemoveKey(t)
        PROVE  (CreatedIsThere /\ KeyGoes /\ DomainsGo)'
    <2>1. CreatedIsThere'
      BY <1>4 DEF RemoveKey, Goto, CreatedIsThere, Active
    <2>2. KeyGoes'
      BY <1>4 DEF RemoveKey, Goto, KeyGoes
    <2>3. DomainsGo'
      <3> SUFFICES ASSUME in_turn, running, NEW d \in Domains,
                          by_domain[d] \notin by_id \cup {NoUser}
                   PROVE  \E s \in Tasks : WillRemove(s, d)'
        BY <1>4 DEF RemoveKey, DomainsGo
      <3>1. PICK s \in Tasks : WillRemove(s, d)
        BY DEF DomainsGo
      <3>2. PICK i \in DOMAIN DomainsOf[by_domain[d]] :
              DomainsOf[by_domain[d]][i] = d
        BY DEF Owned
      <3>3. i >= 1
        BY DomainsOfType
      <3> QED
        BY <1>4, <3>1, <3>2, <3>3 DEF RemoveKey, Goto, WillRemove, FirstDomain
    <2> QED  BY <2>1, <2>2, <2>3
  <1>5. ASSUME NEW t \in Tasks, Domain(t)
        PROVE  (CreatedIsThere /\ KeyGoes /\ DomainsGo)'
    <2>1. CreatedIsThere'
      BY <1>5 DEF Domain, CreatedIsThere, Active
    <2>2. KeyGoes'
      BY <1>5 DEF Domain, KeyGoes
    <2>3. DomainsGo'
      <3> SUFFICES ASSUME in_turn, running, NEW d \in Domains,
                          by_domain'[d] \notin by_id \cup {NoUser}
                   PROVE  \E s \in Tasks : WillRemove(s, d)'
        BY <1>5 DEF Domain, DomainsGo
      <3> DEFINE here == DomainsOf[User[t]][dom[t]]
      <3>1. dom[t] \in DOMAIN DomainsOf[User[t]] /\ here \in Domains
        BY <1>5, DomainsOfType DEF Domain
      <3>2. Kind[t] = "create" => User[t] \in by_id
        BY <1>5 DEF Domain, CreatedIsThere, Active, Ended
      <3>3. d # here /\ by_domain'[d] = by_domain[d]
        BY <1>5, <3>1, <3>2 DEF Domain
      <3>4. PICK s \in Tasks : WillRemove(s, d)
        BY <3>3 DEF DomainsGo
      <3>5. CASE pc[s] = "key"
        BY <1>5, <3>3, <3>4, <3>5 DEF Domain, WillRemove
      <3>6. CASE pc[s] = "domains"
        <4>1. PICK i \in DOMAIN DomainsOf[User[s]] :
                i >= dom[s] /\ DomainsOf[User[s]][i] = d
          BY <3>4, <3>6 DEF WillRemove
        <4>2. i \in Nat
          BY DomainsOfType
        <4>3. i >= dom'[s]
          BY <1>5, <3>3, <4>1, <4>2 DEF Domain
        <4> QED
          BY <1>5, <3>3, <3>4, <3>6, <4>1, <4>3 DEF Domain, WillRemove
      <3> QED  BY <3>4, <3>5, <3>6 DEF WillRemove
    <2> QED  BY <2>1, <2>2, <2>3
  <1>6. ASSUME NEW t \in Tasks, Snapshot(t)
        PROVE  (CreatedIsThere /\ KeyGoes /\ DomainsGo)'
    BY <1>6 DEF Snapshot, maps, CreatedIsThere, KeyGoes, DomainsGo, WillRemove,
                Active
  <1>7. ASSUME NEW t \in Tasks, Truncate(t) \/ Write(t) \/ WritePart(t) \/ PersistFails(t)
        PROVE  (CreatedIsThere /\ KeyGoes /\ DomainsGo)'
    <2>1. /\ UNCHANGED <<running, by_id, by_key, by_domain, dom, in_turn>>
          /\ InPersist(t) \/ pc[t] = "write"
          /\ \E to \in Ended \cup {"write", "part"} : pc' = [pc EXCEPT ![t] = to]
      BY <1>7 DEF Truncate, Write, WritePart, PersistFails, Goto, maps, Ended, InPersist
    <2>2. pc[t] \notin Ended \cup {"new", "key"}
      BY <2>1 DEF InPersist, Ended
    <2>3. CreatedIsThere'
      BY <2>1, <2>2 DEF CreatedIsThere, Active, Ended
    <2>4. KeyGoes'
      BY <2>1, <2>2 DEF KeyGoes, Ended
    <2>5. \A d \in Domains : ~WillRemove(t, d)
      BY <2>1, <2>2, DomainsOfType DEF WillRemove, InPersist
    <2>6. \A s \in Tasks, d \in Domains : WillRemove(s, d) => WillRemove(s, d)'
      BY <2>1, <2>5 DEF WillRemove
    <2>7. DomainsGo'
      BY <2>1, <2>6 DEF DomainsGo
    <2> QED  BY <2>3, <2>4, <2>7
  <1>8. CASE Crash
    BY <1>8 DEF Crash, maps, CreatedIsThere, KeyGoes, DomainsGo, Active, Ended
  <1>9. CASE Restart
    <2>1. CreatedIsThere'
      BY <1>9 DEF Restart, CreatedIsThere, DownIsIdle, Active
    <2>2. KeyGoes'
      BY <1>9 DEF Restart, KeyGoes
    <2>3. DomainsGo'
      BY <1>9 DEF Restart, Owners, DomainsGo
    <2> QED  BY <2>1, <2>2, <2>3
  <1>10. CASE UNCHANGED vars
    BY <1>10 DEF vars, CreatedIsThere, KeyGoes, DomainsGo, WillRemove, Active
  <1> QED
    BY <1>1, <1>2, <1>3, <1>4, <1>5, <1>6, <1>7, <1>8, <1>9, <1>10
       DEF Next, TaskStep

(* While requests come one by one: when none is under way, no key and no   *)
(* domain leads to a user that is gone, whatever writes failed and         *)
(* wherever the process was killed.                                        *)
THEOREM NoDanglingEntryHolds == Spec => []NoDanglingEntry
  <1>1. DanglingInv => NoDanglingEntry
    BY DEF DanglingInv, KeyGoes, DomainsGo, WillRemove, NoDanglingEntry, AtRest,
           Active, Ended
  <1> QED  BY <1>1, InitDanglingInv, NextDanglingInv, PTL DEF Spec

-----------------------------------------------------------------------------
(* An empty registry and an empty file agree.                              *)
LEMMA InitFileInv == Init => FileInv
  <1> SUFFICES ASSUME Init PROVE FileInv
    OBVIOUS
  <1> USE UserRegistryAssumption DEF Init
  <1>1. KeyInv
    BY InitKeyInv
  <1>2. OneAtATime
    BY DEF OneAtATime, Active
  <1>3. NoSnapshotYet /\ SnapshotIsTrue /\ WritesAll
    BY DEF NoSnapshotYet, SnapshotIsTrue, WritesAll
  <1>4. NotYetDeleted
    BY DEF NotYetDeleted
  <1>5. Survivors = {}
    BY DEF Survivors, Acknowledged
  <1>6. FileSays /\ MapSays
    BY <1>5 DEF FileSays, MapSays, Active
  <1> QED  BY <1>1, <1>2, <1>3, <1>4, <1>6 DEF FileInv

(* The snapshot of the only request under way is by_id as far as it went,  *)
(* and all of by_id when it is written.                                    *)
LEMMA NextSnapshot ==
  FileInv /\ [Next]_vars => (NoSnapshotYet /\ SnapshotIsTrue /\ WritesAll)'
  <1> SUFFICES ASSUME FileInv, [Next]_vars
               PROVE  (NoSnapshotYet /\ SnapshotIsTrue /\ WritesAll)'
    OBVIOUS
  <1> USE UserRegistryAssumption DEF FileInv, KeyInv, TypeOK
  <1>1. ASSUME NEW t \in Tasks, InsertId(t) \/ RemoveId(t)
        PROVE  (NoSnapshotYet /\ SnapshotIsTrue /\ WritesAll)'
    <2>1. /\ in_turn' => \A s \in Tasks : ~Active(s)
          /\ pc[t] = "new"
          /\ \E to \in Ended \cup {"key"} : pc' = [pc EXCEPT ![t] = to]
          /\ UNCHANGED <<dom, scan, snap>>
      BY <1>1 DEF InsertId, RemoveId, Begin, Goto, Ended
    <2>2. NoSnapshotYet'
      BY <2>1 DEF NoSnapshotYet, Ended
    <2>3. SnapshotIsTrue' /\ WritesAll'
      BY <2>1 DEF SnapshotIsTrue, WritesAll, Active, Ended
    <2> QED  BY <2>2, <2>3
  <1>2. ASSUME NEW t \in Tasks, InsertKey(t) \/ RemoveKey(t)
        PROVE  (NoSnapshotYet /\ SnapshotIsTrue /\ WritesAll)'
    <2>1. /\ pc[t] = "key" /\ pc' = [pc EXCEPT ![t] = "domains"]
          /\ UNCHANGED <<by_id, dom, scan, snap, file, in_turn>>
      BY <1>2 DEF InsertKey, RemoveKey, Goto
    <2>2. scan[t] = 1 /\ snap[t] = {}
      BY <2>1 DEF NoSnapshotYet
    <2>3. NoSnapshotYet' /\ WritesAll'
      BY <2>1, <2>2 DEF NoSnapshotYet, WritesAll
    <2>4. \A u \in by_id : ~(u < 1)
      BY DEF Users
    <2>5. SnapshotIsTrue'
      BY <2>1, <2>2, <2>4 DEF SnapshotIsTrue
    <2> QED  BY <2>3, <2>5
  <1>3. ASSUME NEW t \in Tasks, Domain(t)
        PROVE  (NoSnapshotYet /\ SnapshotIsTrue /\ WritesAll)'
    <2>1. NoSnapshotYet'
      BY <1>3 DEF Domain, NoSnapshotYet
    <2>2. SnapshotIsTrue' /\ WritesAll'
      BY <1>3 DEF Domain, SnapshotIsTrue, WritesAll
    <2> QED  BY <2>1, <2>2
  <1>4. ASSUME NEW t \in Tasks, Snapshot(t)
        PROVE  (NoSnapshotYet /\ SnapshotIsTrue /\ WritesAll)'
    <2>1. NoSnapshotYet'
      BY <1>4, DomainsOfType DEF Snapshot, InPersist, NoSnapshotYet
    <2>2. WritesAll'
      BY <1>4 DEF Snapshot, InPersist, WritesAll, maps
    <2>3. ASSUME in_turn PROVE snap'[t] = {u \in by_id : u < scan'[t]}
      <3>1. snap[t] = {u \in by_id : u < scan[t]}
        BY <1>4, <2>3 DEF Snapshot, InPersist, SnapshotIsTrue
      <3>2. \A u \in by_id : u < scan[t] + 1 <=> u < scan[t] \/ u = scan[t]
        BY DEF Users
      <3>3. scan'[t] = scan[t] + 1
        BY <1>4 DEF Snapshot
      <3>4. snap'[t] = IF scan[t] \in by_id THEN snap[t] \cup {scan[t]} ELSE snap[t]
        BY <1>4 DEF Snapshot
      <3> QED  BY <3>1, <3>2, <3>3, <3>4
    <2>4. SnapshotIsTrue'
      BY <1>4, <2>3 DEF Snapshot, SnapshotIsTrue, maps
    <2> QED  BY <2>1, <2>2, <2>4
  <1>5. ASSUME NEW t \in Tasks, Truncate(t)
        PROVE  (NoSnapshotYet /\ SnapshotIsTrue /\ WritesAll)'
    <2>1. NoSnapshotYet'
      BY <1>5 DEF Truncate, NoSnapshotYet
    <2>2. SnapshotIsTrue'
      BY <1>5 DEF Truncate, SnapshotIsTrue, maps
    <2>3. ASSUME in_turn PROVE snap[t] = by_id
      <3>1. snap[t] = {u \in by_id : u < scan[t]}
        BY <1>5, <2>3 DEF Truncate, InPersist, SnapshotIsTrue
      <3>2. \A u \in by_id : u < scan[t]
        BY <1>5 DEF Truncate, Users
      <3> QED  BY <3>1, <3>2
    <2>4. WritesAll'
      BY <1>5, <2>3 DEF Truncate, WritesAll, maps
    <2> QED  BY <2>1, <2>2, <2>4
  <1>6. ASSUME NEW t \in Tasks, Write(t) \/ WritePart(t) \/ PersistFails(t)
        PROVE  (NoSnapshotYet /\ SnapshotIsTrue /\ WritesAll)'
    <2>1. /\ Active(t)
          /\ \E to \in {"ok", "error", "unsaved", "part"} : pc' = [pc EXCEPT ![t] = to]
          /\ \A s \in Tasks : snap'[s] = snap[s] \/ (s = t /\ snap'[s] = {})
          /\ UNCHANGED <<by_id, dom, scan, in_turn>>
      BY <1>6 DEF Write, WritePart, PersistFails, Goto, InPersist, maps, Active, Ended
    <2>2. NoSnapshotYet' /\ SnapshotIsTrue'
      BY <2>1 DEF NoSnapshotYet, SnapshotIsTrue
    <2>3. in_turn => \A s \in Tasks : pc'[s] # "write"
      <3>1. in_turn => \A s \in Tasks : Active(s) => s = t
        BY <2>1 DEF OneAtATime
      <3>2. \A s \in Tasks : pc[s] = "write" => Active(s)
        BY DEF Active, Ended
      <3> QED  BY <2>1, <3>1, <3>2
    <2> QED  BY <2>1, <2>2, <2>3 DEF WritesAll
  <1>7. CASE Crash
    <2>1. /\ \A t \in Tasks : pc'[t] \notin {"key", "domains", "write"}
          /\ \A t \in Tasks : scan'[t] = 1 /\ snap'[t] = {}
      BY <1>7 DEF Crash, Active, Ended
    <2> QED  BY <2>1 DEF NoSnapshotYet, SnapshotIsTrue, WritesAll
  <1>8. CASE Restart
    <2>1. \A t \in Tasks : pc[t] \notin {"domains", "write"}
      BY <1>8 DEF Restart, DownIsIdle, Active, Ended
    <2> QED  BY <1>8, <2>1 DEF Restart, NoSnapshotYet, SnapshotIsTrue, WritesAll
  <1>9. CASE UNCHANGED vars
    BY <1>9 DEF vars, NoSnapshotYet, SnapshotIsTrue, WritesAll
  <1> QED
    BY <1>1, <1>2, <1>3, <1>4, <1>5, <1>6, <1>7, <1>8, <1>9 DEF Next, TaskStep

(* What becomes of the requests in a step: one begins or goes on, or all   *)
(* that are under way are killed.                                          *)
LEMMA StepKinds ==
  ASSUME TypeOK, [Next]_vars
  PROVE  \/ \E t \in Tasks : InsertId(t) \/ RemoveId(t)
         \/ \E t \in Tasks : \/ InsertKey(t) \/ RemoveKey(t) \/ Domain(t)
                            \/ Snapshot(t)
         \/ \E t \in Tasks : \/ Truncate(t) \/ Write(t) \/ WritePart(t)
                            \/ PersistFails(t)
         \/ Crash
         \/ Restart
         \/ UNCHANGED vars
  BY DEF Next, TaskStep

(* A failed request stays failed.                                          *)
LEMMA NoFailureBefore == TypeOK /\ [Next]_vars /\ NoFailure' => NoFailure
  <1> SUFFICES ASSUME TypeOK, [Next]_vars, NEW s \in Tasks,
                      pc[s] \in {"error", "unsaved", "torn"}
               PROVE  pc'[s] = pc[s]
    BY DEF NoFailure
  <1> USE DEF TypeOK
  <1>1. ASSUME NEW t \in Tasks, InsertId(t) \/ RemoveId(t) \/ TaskStep(t)
        PROVE  pc'[s] = pc[s]
    <2>1. pc[t] \notin {"error", "unsaved", "torn"} \/ pc' = pc
      BY <1>1 DEF InsertId, RemoveId, TaskStep, InsertKey, RemoveKey, Domain,
                  Snapshot, Truncate, Write, WritePart, PersistFails, Goto, InPersist
    <2>2. \E to : pc' = [pc EXCEPT ![t] = to]
      BY <1>1 DEF InsertId, RemoveId, TaskStep, InsertKey, RemoveKey, Domain,
                  Snapshot, Truncate, Write, WritePart, PersistFails, Goto
    <2> QED  BY <2>1, <2>2
  <1>2. CASE Crash
    BY <1>2 DEF Crash, Active, Ended
  <1>3. CASE Restart
    BY <1>3 DEF Restart
  <1>4. CASE UNCHANGED vars
    BY <1>4 DEF vars
  <1> QED  BY <1>1, <1>2, <1>3, <1>4 DEF Next

(* Nobody deletes a user that is not there yet.                            *)
LEMMA NextNotYetDeleted == FileInv /\ [Next]_vars => NotYetDeleted'
  <1> SUFFICES ASSUME FileInv, [Next]_vars PROVE NotYetDeleted'
    OBVIOUS
  <1> USE DEF FileInv, KeyInv, TypeOK
  <1>1. ASSUME NEW t \in Tasks, InsertId(t) PROVE NotYetDeleted'
    BY <1>1 DEF InsertId, Begin, Goto, NotYetDeleted, Active, Ended
  <1>2. ASSUME NEW t \in Tasks, RemoveId(t) PROVE NotYetDeleted'
    <2>1. \A s \in Tasks : Kind[s] = "create" /\ pc[s] = "new" => User[s] \notin by_id
      BY DEF Fresh
    <2> QED
      BY <1>2, <2>1 DEF RemoveId, Begin, Goto, NotYetDeleted, Active, Ended
  <1>3. ASSUME NEW t \in Tasks, TaskStep(t) PROVE NotYetDeleted'
    <2>1. /\ in_turn' = in_turn
          /\ \E to \in Ended \cup {"key", "domains", "write", "part"} :
               pc' = [pc EXCEPT ![t] = to]
          /\ Active(t)
      BY <1>3 DEF TaskStep, InsertKey, RemoveKey, Domain, Snapshot, Truncate,
                  Write, WritePart, PersistFails, Goto, InPersist, Active, Ended
    <2>2. \A s \in Tasks : pc'[s] = "new" \/ Active(s)' => pc[s] = "new" \/ Active(s)
      BY <2>1 DEF Active, Ended
    <2>3. ASSUME in_turn, NEW s \in Tasks, NEW r \in Tasks,
                 Kind[r] = "create" /\ (pc[r] = "new" \/ Active(r)),
                 Kind[s] = "delete" /\ User[s] = User[r]
          PROVE  pc'[s] = pc[s]
      <3>1. pc[s] \in {"new", "not_found"}
        BY <2>3 DEF NotYetDeleted
      <3>2. s # t
        BY <2>1, <3>1 DEF Active, Ended
      <3> QED  BY <2>1, <3>2
    <2> QED  BY <2>1, <2>2, <2>3 DEF NotYetDeleted
  <1>4. CASE Crash
    <2>1. \A s \in Tasks : /\ pc'[s] \in Ended \cup {"new"}
                           /\ pc'[s] = "new" => pc[s] = "new"
                           /\ pc[s] \in {"new", "not_found"} => pc'[s] = pc[s]
      BY <1>4 DEF Crash, Active, Ended
    <2> QED  BY <1>4, <2>1 DEF Crash, NotYetDeleted, Active
  <1>5. CASE Restart
    BY <1>5 DEF Restart, NotYetDeleted, Active
  <1>6. CASE UNCHANGED vars
    BY <1>6 DEF vars, NotYetDeleted, Active
  <1> QED  BY <1>1, <1>2, <1>3, <1>4, <1>5, <1>6 DEF Next

(* Answers change only with an acknowledgement.                            *)
LEMMA SameSurvivors ==
  ASSUME \A s \in Tasks : pc'[s] = "ok" <=> pc[s] = "ok"
  PROVE  Survivors' = Survivors
  BY DEF Survivors, Acknowledged

(* An acknowledged creation adds its user, an acknowledged deletion takes  *)
(* it away.                                                                *)
LEMMA OneMoreAnswer ==
  ASSUME FileInv, in_turn, NEW t \in Tasks, Active(t),
         pc' = [pc EXCEPT ![t] = "ok"]
  PROVE  Survivors' = IF Kind[t] = "create" THEN Survivors \cup {User[t]}
                                            ELSE Survivors \ {User[t]}
  <1> USE UserRegistryAssumption DEF FileInv, KeyInv, TypeOK
  <1>1. \A s \in Tasks : pc'[s] = "ok" <=> s = t \/ pc[s] = "ok"
    OBVIOUS
  <1>2. ASSUME NEW kind, NEW u \in Users
        PROVE  Acknowledged(kind, u)' <=> \/ kind = Kind[t] /\ u = User[t]
                                         \/ Acknowledged(kind, u)
    BY <1>1 DEF Acknowledged
  <1>3. CASE Kind[t] = "create"
    <2>1. ~Acknowledged("delete", User[t])
      BY <1>3 DEF NotYetDeleted, Acknowledged
    <2>2. \A u \in Users : /\ Acknowledged("create", u)' <=>
                                u = User[t] \/ Acknowledged("create", u)
                           /\ Acknowledged("delete", u)' <=> Acknowledged("delete", u)
      BY <1>2, <1>3
    <2> QED  BY <1>3, <2>1, <2>2 DEF Survivors
  <1>4. CASE Kind[t] = "delete"
    <2>1. \A u \in Users : /\ Acknowledged("create", u)' <=> Acknowledged("create", u)
                           /\ Acknowledged("delete", u)' <=>
                                u = User[t] \/ Acknowledged("delete", u)
      BY <1>2, <1>4
    <2> QED  BY <1>4, <2>1 DEF Survivors
  <1> QED  BY <1>3, <1>4

(* What a request does to the maps and to the file is what its answer      *)
(* says, when it comes to give one.                                        *)
LEMMA NextSays == FileInv /\ [Next]_vars => (FileSays /\ MapSays)'
  <1> SUFFICES ASSUME FileInv, [Next]_vars, in_turn', NoFailure'
               PROVE  (FileSays /\ MapSays)'
    BY DEF FileSays, MapSays
  <1> USE UserRegistryAssumption DEF FileInv, KeyInv, TypeOK
  <1>1. in_turn /\ NoFailure
    <2>1. NoFailure
      BY NoFailureBefore
    <2>2. in_turn' => in_turn
      BY StepKinds DEF InsertId, RemoveId, Begin, InsertKey, RemoveKey, Domain,
         Snapshot, Truncate, Write, WritePart, PersistFails, Crash, Restart, vars
    <2> QED  BY <2>1, <2>2
  <1>2. ASSUME NEW t \in Tasks, InsertId(t) \/ RemoveId(t)
        PROVE  (FileSays /\ MapSays)'
    <2>1. /\ running /\ AtRest /\ pc[t] = "new"
          /\ UNCHANGED <<running, file>>
          /\ \E to \in {"key", "not_found"} : pc' = [pc EXCEPT ![t] = to]
      BY <1>2 DEF InsertId, RemoveId, Begin, Goto, AtRest
    <2>2. Survivors' = Survivors
      BY <2>1, SameSurvivors
    <2>3. \A s \in Tasks : s # t => ~Active(s) /\ ~Active(s)'
      BY <2>1 DEF AtRest, Active
    <2>4. file = Survivors /\ by_id = Survivors
      <3>1. \A s \in Tasks : pc[s] \notin {"write", "part"}
        BY <2>1 DEF AtRest, Active, Ended
      <3> QED  BY <1>1, <2>1, <3>1 DEF FileSays, MapSays
    <2>5. Active(t)' => by_id' = IF Kind[t] = "create" THEN Survivors \cup {User[t]}
                                                       ELSE Survivors \ {User[t]}
      BY <1>2, <2>1, <2>4 DEF InsertId, RemoveId
    <2>6. ~Active(t)' => by_id' = Survivors
      <3>1. CASE InsertId(t)
        BY <3>1 DEF InsertId, Goto, Active, Ended
      <3>2. CASE RemoveId(t) /\ User[t] \in by_id
        BY <3>2 DEF RemoveId, Goto, Active, Ended
      <3>3. CASE RemoveId(t) /\ User[t] \notin by_id
        <4>1. by_id' = by_id
          BY <3>3 DEF RemoveId
        <4> QED  BY <2>4, <4>1
      <3> QED  BY <1>2, <3>1, <3>2, <3>3
    <2>7. FileSays'
      BY <2>1, <2>2, <2>4 DEF FileSays
    <2>8. MapSays'
      BY <2>2, <2>3, <2>5, <2>6 DEF MapSays, AtRest
    <2> QED  BY <2>7, <2>8
  <1>3. ASSUME NEW t \in Tasks,
               InsertKey(t) \/ RemoveKey(t) \/ Domain(t) \/ Snapshot(t)
        PROVE  (FileSays /\ MapSays)'
    <2>1. /\ Active(t) /\ Active(t)'
          /\ pc[t] \notin {"write", "part"}
          /\ UNCHANGED <<running, by_id, file>>
          /\ pc' = [pc EXCEPT ![t] = "domains"]
      <3>1. CASE InsertKey(t) \/ RemoveKey(t)
        BY <3>1 DEF InsertKey, RemoveKey, Goto, Active, Ended
      <3>2. CASE Domain(t) \/ Snapshot(t)
        <4>1. /\ pc[t] = "domains" /\ pc' = pc
              /\ UNCHANGED <<running, by_id, file>>
          BY <3>2 DEF Domain, Snapshot, InPersist, maps
        <4> QED  BY <4>1 DEF Active, Ended
      <3> QED  BY <1>3, <3>1, <3>2
    <2>2. Survivors' = Survivors
      <3>1. pc[t] # "ok"
        BY <2>1 DEF Active, Ended
      <3> QED  BY <2>1, <3>1, SameSurvivors
    <2>3. \A s \in Tasks : /\ Active(s)' <=> Active(s)
                           /\ pc[s] \in {"write", "part"} => pc'[s] \in {"write", "part"}
      BY <2>1 DEF Active
    <2>4. FileSays'
      BY <1>1, <2>1, <2>2, <2>3 DEF FileSays
    <2>5. MapSays'
      BY <1>1, <2>1, <2>2, <2>3 DEF MapSays, AtRest
    <2> QED  BY <2>4, <2>5
  <1>4. ASSUME NEW t \in Tasks, Truncate(t) \/ WritePart(t)
        PROVE  (FileSays /\ MapSays)'
    <2>1. /\ Active(t) /\ Active(t)'
          /\ UNCHANGED <<running, by_id>>
          /\ \E to \in {"write", "part"} : pc' = [pc EXCEPT ![t] = to]
      BY <1>4 DEF Truncate, WritePart, InPersist, Goto, maps, Active, Ended
    <2>2. Survivors' = Survivors
      <3>1. pc[t] # "ok"
        BY <2>1 DEF Active, Ended
      <3> QED  BY <2>1, <3>1, SameSurvivors
    <2>3. \A s \in Tasks : Active(s)' <=> Active(s)
      BY <2>1 DEF Active
    <2>4. FileSays'
      BY <2>1 DEF FileSays
    <2>5. MapSays'
      BY <1>1, <2>1, <2>2, <2>3 DEF MapSays, AtRest
    <2> QED  BY <2>4, <2>5
  <1>5. ASSUME NEW t \in Tasks, Write(t)
        PROVE  (FileSays /\ MapSays)'
    <2>1. /\ Active(t) /\ ~Active(t)'
          /\ UNCHANGED <<running, by_id>>
          /\ pc[t] = "write" /\ pc' = [pc EXCEPT ![t] = "ok"]
      BY <1>5 DEF Write, Goto, maps, Active, Ended
    <2>2. running
      BY <2>1 DEF DownIsIdle
    <2>3. \A s \in Tasks : s # t => ~Active(s) /\ ~Active(s)'
      BY <1>1, <2>1 DEF OneAtATime, Active
    <2>4. by_id = Survivors'
      <3>1. by_id = IF Kind[t] = "create" THEN Survivors \cup {User[t]}
                                          ELSE Survivors \ {User[t]}
        BY <1>1, <2>1, <2>2 DEF MapSays
      <3> QED  BY <1>1, <2>1, <3>1, OneMoreAnswer
    <2>5. file' = by_id
      <3>1. file = {} /\ snap[t] = by_id /\ snap[t] \in SUBSET Users
        BY <1>1, <2>1 DEF WritesAll
      <3>2. file' \in Overwrite({}, by_id)
        BY <1>5, <3>1 DEF Write
      <3> QED  BY <3>2, OverwriteProperties
    <2>6. FileSays'
      BY <2>4, <2>5 DEF FileSays
    <2>7. MapSays'
      BY <2>1, <2>3, <2>4 DEF MapSays, AtRest
    <2> QED  BY <2>6, <2>7
  <1>6. ASSUME NEW t \in Tasks, PersistFails(t)
        PROVE  FALSE
    BY <1>6 DEF PersistFails, NoFailure
  <1>7. CASE Crash
    <2>1. \A s \in Tasks : pc[s] \notin {"write", "part"}
      BY <1>7 DEF Crash, NoFailure
    <2>2. \A s \in Tasks : pc'[s] = "ok" <=> pc[s] = "ok"
      BY <1>7 DEF Crash, Active, Ended
    <2>3. Survivors' = Survivors
      BY <2>2, SameSurvivors
    <2>4. FileSays'
      BY <1>1, <1>7, <2>1, <2>3 DEF Crash, FileSays
    <2>5. MapSays'
      BY <1>7 DEF Crash, MapSays
    <2> QED  BY <2>4, <2>5
  <1>8. CASE Restart
    <2>1. \A s \in Tasks : ~Active(s) /\ ~Active(s)'
      BY <1>8 DEF Restart, DownIsIdle, Active
    <2>2. Survivors' = Survivors
      BY <1>8, SameSurvivors DEF Restart
    <2>3. \A s \in Tasks : pc[s] \notin {"write", "part"}
      BY <2>1 DEF Active, Ended
    <2>4. file = Survivors
      BY <1>1, <2>3 DEF FileSays
    <2>5. file # Garbled
      <3>1. 0 \notin Users
        BY DEF Users
      <3>2. Survivors \subseteq Users
        BY DEF Survivors
      <3> QED  BY <2>4, <3>1, <3>2 DEF Garbled
    <2>6. file' = file /\ by_id' = file
      BY <1>8, <2>5 DEF Restart, Loaded
    <2>7. FileSays' /\ MapSays'
      BY <2>1, <2>2, <2>4, <2>6 DEF FileSays, MapSays
    <2> QED  BY <2>7
  <1>9. CASE UNCHANGED vars
    <2>1. UNCHANGED <<pc, file, by_id, running, in_turn>>
      BY <1>9 DEF vars
    <2>2. Survivors' = Survivors
      BY <2>1, SameSurvivors
    <2> QED
      BY <1>1, <2>1, <2>2 DEF FileSays, MapSays, AtRest, Active, NoFailure
  <1> QED
    BY <1>2, <1>3, <1>4, <1>5, <1>6, <1>7, <1>8, <1>9, StepKinds

(* Each step keeps all of it.                                              *)
LEMMA NextFileInv == FileInv /\ [Next]_vars => FileInv'
  BY NextKeyInv, NextOneAtATime, NextSnapshot, NextNotYetDeleted, NextSays
     DEF FileInv, KeyInv

(* While requests come one by one, no write fails and no kill strikes      *)
(* while the file is open for writing: whenever no request is under way,   *)
(* users.toml and by_id hold exactly the users whose creation was          *)
(* acknowledged and whose deletion was not, however often the process was  *)
(* killed elsewhere and started again.                                     *)
THEOREM FileAgreesHolds == Spec => []FileAgrees
  <1>1. FileInv => FileAgrees
    <2> SUFFICES ASSUME FileInv, in_turn, AtRest, NoFailure
                 PROVE  file = Survivors /\ by_id = Survivors
      BY DEF FileAgrees, NoFailure
    <2>1. \A t \in Tasks : pc[t] \notin {"write", "part"}
      BY DEF AtRest, Active, Ended
    <2>2. running
      BY DEF AtRest
    <2> QED  BY <2>1, <2>2 DEF FileInv, FileSays, MapSays
  <1> QED  BY <1>1, InitFileInv, NextFileInv, PTL DEF Spec
=============================================================================
