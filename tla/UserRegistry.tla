---------------------------- MODULE UserRegistry ----------------------------
(***************************************************************************)
(* The registry of hosting accounts (src/src/multiuser/mod.rs): three      *)
(* concurrent maps, updated one after the other by the requests that       *)
(* create and delete users, and users.toml, rewritten from a snapshot of   *)
(* the maps without any lock, and read back when the process starts.       *)
(*                                                                         *)
(* A user's id and API key are taken to be fresh random numbers: by_key    *)
(* maps the key of u to u, so a set of users stands for it.  (When         *)
(* /dev/urandom cannot be opened they are all zeros, and users made so     *)
(* replace each other: that is not modelled, see FreshIdsAssumption.)      *)
(* Users are numbered in the order in which an iteration over by_id meets  *)
(* them.                                                                   *)
(***************************************************************************)
EXTENDS Integers, FiniteSets, Sequences

CONSTANTS
  NumUsers,   \* users ever created, and those a file may hold, are 1..NumUsers
  Domains,    \* server names
  DomainsOf,  \* DomainsOf[u]: the sequence of domains of user u
  Tasks,      \* the requests to /api/users
  Kind,       \* Kind[t]: "create" | "delete"
  User,       \* User[t]: the user t creates or deletes
  WritesFail, \* whether writing the file can fail here (disk full, ...)
  Crashes,    \* whether the process can be killed and started again
  NoUser      \* what by_domain holds for a domain nobody has

Users == 1..NumUsers

(* The content of a file that does not parse: no set of users.             *)
Garbled == {0}

ASSUME UserRegistryAssumption ==
  /\ NumUsers \in Nat
  /\ DomainsOf \in [Users -> Seq(Domains)]
  /\ Kind \in [Tasks -> {"create", "delete"}]
  /\ User \in [Tasks -> Users]
  /\ {WritesFail, Crashes} \subseteq BOOLEAN
  /\ NoUser \notin Users

(* The random numbers are to be had: no two requests create the same user. *)
ASSUME FreshIdsAssumption ==
  \A t, u \in Tasks :
    Kind[t] = "create" /\ Kind[u] = "create" /\ User[t] = User[u] => t = u

VARIABLES
  running,    \* whether the process is up
  by_id,      \* users with an entry in by_id
  by_key,     \* users with an entry in by_key
  by_domain,  \* by_domain[d]: the id d maps to, or NoUser
  file,       \* users in users.toml, or Garbled
  pc,         \* pc[t]: where request t is, or how it ended
  dom,        \* dom[t]: the next domain t inserts or removes
  scan,       \* scan[t]: the next user the snapshot of t looks at
  snap,       \* snap[t]: the users t found so far
  in_turn     \* no request has yet met another one under way (history)

vars == <<running, by_id, by_key, by_domain, file, pc, dom, scan, snap, in_turn>>
maps == <<by_id, by_key, by_domain>>

Init ==
  /\ running = TRUE
  /\ by_id = {}
  /\ by_key = {}
  /\ by_domain = [d \in Domains |-> NoUser]
  /\ file = {}
  /\ pc = [t \in Tasks |-> "new"]
  /\ dom = [t \in Tasks |-> 1]
  /\ scan = [t \in Tasks |-> 1]
  /\ snap = [t \in Tasks |-> {}]
  /\ in_turn = TRUE

Ended == {"ok", "error", "unsaved", "not_found", "lost", "torn"}

Active(t) == pc[t] \notin Ended \cup {"new"}

Goto(t, from, to) ==
  /\ pc[t] = from
  /\ pc' = [pc EXCEPT ![t] = to]

Begin ==
  /\ running
  /\ in_turn' = (in_turn /\ \A t \in Tasks : ~Active(t))

-----------------------------------------------------------------------------
(* create_user                                                             *)

InsertId(t) ==
  /\ Begin
  /\ Kind[t] = "create"
  /\ Goto(t, "new", "key")
  /\ by_id' = by_id \cup {User[t]}
  /\ UNCHANGED <<running, by_key, by_domain, file, dom, scan, snap>>

(* Mutant of InsertKey: the key of a user without domains is forgotten.    *)
InsertKey_NeedsDomain(t) ==
  /\ Kind[t] = "create"
  /\ Goto(t, "key", "domains")
  /\ by_key' = IF DomainsOf[User[t]] = <<>> THEN by_key ELSE by_key \cup {User[t]}
  /\ UNCHANGED <<running, by_id, by_domain, file, dom, scan, snap, in_turn>>

InsertKey(t) ==
  /\ Kind[t] = "create"
  /\ Goto(t, "key", "domains")
  /\ by_key' = by_key \cup {User[t]}
  /\ UNCHANGED <<running, by_id, by_domain, file, dom, scan, snap, in_turn>>

-----------------------------------------------------------------------------
(* delete_user                                                             *)

RemoveId(t) ==
  /\ Begin
  /\ Kind[t] = "delete"
  /\ IF User[t] \in by_id THEN Goto(t, "new", "key")
                          ELSE Goto(t, "new", "not_found")
  /\ by_id' = by_id \ {User[t]}
  /\ UNCHANGED <<running, by_key, by_domain, file, dom, scan, snap>>

RemoveKey(t) ==
  /\ Kind[t] = "delete"
  /\ Goto(t, "key", "domains")
  /\ by_key' = by_key \ {User[t]}
  /\ UNCHANGED <<running, by_id, by_domain, file, dom, scan, snap, in_turn>>

-----------------------------------------------------------------------------
(* The domains, one map operation each, and the file                       *)

(* Mutant of Domain: a deletion leaves the mapping of its domains.         *)
Domain_DeleteKeeps(t) ==
  LET mine == DomainsOf[User[t]] IN
  /\ pc[t] = "domains"
  /\ dom[t] <= Len(mine)
  /\ dom' = [dom EXCEPT ![t] = @ + 1]
  /\ by_domain' = [by_domain EXCEPT
       ![mine[dom[t]]] = IF Kind[t] = "create" THEN User[t] ELSE @]
  /\ UNCHANGED <<running, by_id, by_key, file, pc, scan, snap, in_turn>>

(* create maps the domain to the user, whoever had it; delete removes the  *)
(* mapping, whoever has it.                                                *)
Domain(t) ==
  LET mine == DomainsOf[User[t]] IN
  /\ pc[t] = "domains"
  /\ dom[t] <= Len(mine)
  /\ dom' = [dom EXCEPT ![t] = @ + 1]
  /\ by_domain' = [by_domain EXCEPT
       ![mine[dom[t]]] = IF Kind[t] = "create" THEN User[t] ELSE NoUser]
  /\ UNCHANGED <<running, by_id, by_key, file, pc, scan, snap, in_turn>>

(* The request has been through its domains and is in persist.             *)
InPersist(t) == pc[t] = "domains" /\ dom[t] > Len(DomainsOf[User[t]])

(* Mutant of Snapshot: the user of the request is never written.           *)
Snapshot_WithoutOwn(t) ==
  /\ InPersist(t)
  /\ scan[t] <= NumUsers
  /\ scan' = [scan EXCEPT ![t] = @ + 1]
  /\ snap' = [snap EXCEPT ![t] =
       IF scan[t] \in by_id \ {User[t]} THEN @ \cup {scan[t]} ELSE @]
  /\ UNCHANGED <<running, maps, file, pc, dom, in_turn>>

(* The iteration of persist locks one part of by_id after the other: each  *)
(* user is looked up at a moment of its own.                               *)
Snapshot(t) ==
  /\ InPersist(t)
  /\ scan[t] <= NumUsers
  /\ scan' = [scan EXCEPT ![t] = @ + 1]
  /\ snap' = [snap EXCEPT ![t] =
       IF scan[t] \in by_id THEN @ \cup {scan[t]} ELSE @]
  /\ UNCHANGED <<running, maps, file, pc, dom, in_turn>>

(* std::fs::write opens the file, which empties it ...                     *)
Truncate(t) ==
  /\ InPersist(t)
  /\ scan[t] > NumUsers
  /\ pc' = [pc EXCEPT ![t] = "write"]
  /\ file' = {}
  /\ UNCHANGED <<running, maps, dom, scan, snap, in_turn>>

(* What is in a file when `new' is written over `old' from offset 0: new,  *)
(* unless old was longer; then the end of old follows, which may begin at  *)
(* a user or in the middle of one.                                         *)
Overwrite(old, new) ==
  IF old = Garbled THEN {new, Garbled}
  ELSE IF old \subseteq new THEN {new}
  ELSE {new, Garbled} \cup {new \cup {u \in old : u > n} : n \in Users}

(* ... and writes the snapshot, which ends with the call, at its start.    *)
Write(t) ==
  /\ Goto(t, "write", "ok")
  /\ file' \in Overwrite(file, snap[t])
  /\ snap' = [snap EXCEPT ![t] = {}]
  /\ UNCHANGED <<running, maps, dom, scan, in_turn>>

(* What is in the file when only a first part of the snapshot has been     *)
(* written, which may end at a user or in the middle of one.               *)
CutShort(t) ==
  (UNION {Overwrite(file, snap[t] \cap 1..n) : n \in 0..NumUsers}) \cup {Garbled}

(* A write the process will not live to finish: a part of the snapshot is  *)
(* in the file, and there is nothing left to do but to be killed.          *)
WritePart(t) ==
  /\ Crashes
  /\ Goto(t, "write", "part")
  /\ file' \in CutShort(t)
  /\ snap' = [snap EXCEPT ![t] = {}]
  /\ UNCHANGED <<running, maps, dom, scan, in_turn>>

(* persist fails, opening the file or writing to it, then maybe after a    *)
(* part of the snapshot: create reports it, with the user left in the      *)
(* maps; delete answers as if it was saved.                                *)
PersistFails(t) ==
  /\ WritesFail
  /\ \/ InPersist(t) /\ scan[t] > NumUsers /\ UNCHANGED file
     \/ pc[t] = "write" /\ file' \in CutShort(t)
  /\ pc' = [pc EXCEPT ![t] = IF Kind[t] = "create" THEN "error" ELSE "unsaved"]
  /\ snap' = [snap EXCEPT ![t] = {}]
  /\ UNCHANGED <<running, maps, dom, scan, in_turn>>

-----------------------------------------------------------------------------
(* The process                                                             *)

(* A kill anywhere: a request is lost, and when it had opened the file to  *)
(* write it ("torn"), what is in the file is what it had written by then.  *)
Crash ==
  /\ Crashes
  /\ running
  /\ running' = FALSE
  /\ pc' = [t \in Tasks |-> IF pc[t] \in {"write", "part"} THEN "torn"
                            ELSE IF Active(t) THEN "lost" ELSE pc[t]]
  /\ dom' = [t \in Tasks |-> 1]
  /\ scan' = [t \in Tasks |-> 1]
  /\ snap' = [t \in Tasks |-> {}]
  /\ UNCHANGED <<maps, file, in_turn>>

(* reload: what it can read from the file.                                 *)
Loaded == IF file = Garbled THEN {} ELSE file

Owners(d) == {u \in Loaded : \E i \in DOMAIN DomainsOf[u] : DomainsOf[u][i] = d}

(* UserRegistry::load on new maps: a domain of several users maps to the   *)
(* one that comes last in the file.                                        *)
Restart ==
  /\ ~running
  /\ running' = TRUE
  /\ by_id' = Loaded
  /\ by_key' = Loaded
  /\ by_domain' \in
       {f \in [Domains -> Users \cup {NoUser}] :
          \A d \in Domains :
            IF Owners(d) = {} THEN f[d] = NoUser ELSE f[d] \in Owners(d)}
  /\ UNCHANGED <<file, pc, dom, scan, snap, in_turn>>

TaskStep(t) ==
  \/ InsertKey(t)
  \/ RemoveKey(t)
  \/ Domain(t)
  \/ Snapshot(t)
  \/ Truncate(t)
  \/ Write(t)
  \/ WritePart(t)
  \/ PersistFails(t)

Next ==
  \/ \E t \in Tasks : InsertId(t) \/ RemoveId(t)
  \/ \E t \in Tasks : TaskStep(t)
  \/ Crash
  \/ Restart

Spec == Init /\ [][Next]_vars

-----------------------------------------------------------------------------
(* Properties                                                              *)

TypeOK ==
  /\ running \in BOOLEAN
  /\ by_id \subseteq Users
  /\ by_key \subseteq Users
  /\ by_domain \in [Domains -> Users \cup {NoUser}]
  /\ file \in (SUBSET Users) \cup {Garbled}
  /\ pc \in [Tasks -> Ended \cup {"new", "key", "domains", "write", "part"}]
  /\ dom \in [Tasks -> Nat \ {0}]
  /\ scan \in [Tasks -> 1..NumUsers + 1]
  /\ snap \in [Tasks -> SUBSET Users]
  /\ in_turn \in BOOLEAN

AtRest == running /\ \A t \in Tasks : ~Active(t)

Busy(u) == \E t \in Tasks : Active(t) /\ User[t] = u

(* A user that exists and that no request is working on can authenticate:  *)
(* by_api_key finds it, although the two maps it reads are written at      *)
(* different moments, by several requests, and rebuilt after a crash.      *)
UserCanAuthenticate ==
  \A u \in by_id : running /\ ~Busy(u) => u \in by_key

Acknowledged(kind, u) ==
  \E t \in Tasks : Kind[t] = kind /\ User[t] = u /\ pc[t] = "ok"

(* The users there should be, going by the answers that were given.        *)
Survivors ==
  {u \in Users : Acknowledged("create", u) /\ ~Acknowledged("delete", u)}

(* While every request waited for the answer to the one before: when       *)
(* nothing is under way, no write has failed and no kill has struck        *)
(* between the opening of the file and the end of the write, the maps and  *)
(* the file say the same, and that is what the answers said: the users     *)
(* whose creation was acknowledged and whose deletion was not, across any  *)
(* number of kills at other moments and the restarts that follow.          *)
FileAgrees ==
  in_turn /\ AtRest /\ (\A t \in Tasks : pc[t] \notin {"error", "unsaved", "torn"}) =>
    /\ file = by_id
    /\ file = Survivors

(* Under the same condition no key and no domain leads to a user that is   *)
(* gone, even when two users share a domain or a write failed.             *)
NoDanglingEntry ==
  in_turn /\ AtRest =>
    /\ by_key \subseteq by_id
    /\ \A d \in Domains : by_domain[d] \in by_id \cup {NoUser}

DeleteAsked(u) == \E t \in Tasks : Kind[t] = "delete" /\ User[t] = u /\ pc[t] # "new"

(* create_user: "Create a new user and persist to users.toml".  At rest, a *)
(* user whose creation was acknowledged, and whose deletion nobody asked   *)
(* for, is in the file.                                                    *)
CreatedIsPersisted ==
  AtRest =>
    \A u \in Users :
      Acknowledged("create", u) /\ ~DeleteAsked(u) => file # Garbled /\ u \in file

(* The same, of requests that come one by one: what was persisted is not   *)
(* lost to a kill during a later request.                                  *)
CreatedIsKept == in_turn => CreatedIsPersisted
=============================================================================
