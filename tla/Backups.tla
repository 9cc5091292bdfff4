------------------------------ MODULE Backups ------------------------------
(***************************************************************************)
(* Backup and restore of the configuration and of the hosting accounts     *)
(* (src/src/api/mod.rs): several files copied one after the other, while   *)
(* other requests copy them too or change users.toml, behind the rate      *)
(* limiter of the API (src/src/stats/mod.rs).  The contents of a file are  *)
(* abstracted to the number of the change that made them.                  *)
(***************************************************************************)
EXTENDS Integers, FiniteSets, FiniteSetsExt

CONSTANTS
  ApiTasks,  \* requests
  Op,        \* Op[t]: "backup" | "restore" | "delete" | "user" | "edit"
  Limit,     \* requests per second and address (API_RATE_LIMIT_RPS)
  MaxClock,  \* bound: seconds that pass
  MaxErrors  \* bound: how many file operations fail

Seconds == 0..MaxClock

ASSUME BackupsAssumption ==
  /\ IsFiniteSet(ApiTasks)
  /\ Op \in [ApiTasks -> {"backup", "restore", "delete", "user", "edit"}]
  /\ Limit \in Nat \ {0}
  /\ {MaxClock, MaxErrors} \subseteq Nat

Absent == -1    \* there is no such file
Partial == -2   \* a file that is empty or cut short

VARIABLES
  ahead,     \* requests that have not arrived yet
  step,      \* step[t]: where request t is, or how it ended
  id,        \* id[t]: the backup t works on: the second it was made in
  clock,
  window,    \* the limiter's window of the address
  disk,      \* disk.conf, disk.users: runnginx.conf and users.toml
  dirs,      \* dirs[s]: the backup of second s
  registry,  \* the change the accounts in memory stand at
  changes,   \* changes so far
  errors,
  saved,     \* saved[s]: the files as they were when backup s was answered (history)
  granted,   \* granted[s]: requests let in that came in second s (history)
  late,      \* a request was judged by a second that was over (history)
  overlap,   \* a request met another one under way (history)
  restored   \* the second whose backup was restored, when nothing was
             \* changed since (history), or Absent

apiVars == <<ahead, step, id, clock, window, disk, dirs, registry, changes,
             errors, saved, granted, late, overlap, restored>>
stored == <<disk, dirs>>
limiter == <<clock, window, granted, late>>

NoDir == [there |-> FALSE, conf |-> Absent, users |-> Absent]

BackupsInit(tasks) ==
  /\ ahead = tasks
  /\ step = [t \in ApiTasks |-> "new"]
  /\ id = [t \in ApiTasks |-> Absent]
  /\ clock = 0
  /\ window = [second |-> Absent, count |-> 0]
  /\ registry \in {Absent, 0}
  /\ disk = [conf |-> 0, users |-> registry]
  /\ dirs = [s \in Seconds |-> NoDir]
  /\ changes = 0
  /\ errors = 0
  /\ saved = [s \in Seconds |-> NoDir]
  /\ granted = [s \in Seconds |-> 0]
  /\ late = FALSE
  /\ overlap = FALSE
  /\ restored = Absent

ApiEnded == {"ok", "error", "not_found", "refused"}
Pending(t) == step[t] \notin ApiEnded \cup {"new"}

Go(t, from, to) ==
  /\ step[t] = from
  /\ step' = [step EXCEPT ![t] = to]

Error(t, from, to) ==
  /\ errors < MaxErrors
  /\ errors' = errors + 1
  /\ Go(t, from, to)

-----------------------------------------------------------------------------
(* The rate limiter                                                        *)

(* The bound of the clock keeps the requests the run is about in it.       *)
Tick ==
  /\ clock < MaxClock
  /\ clock' = clock + 1
  /\ UNCHANGED <<ahead, step, id, window, stored, registry, changes, errors,
                 saved, granted, late, overlap, restored>>

(* allow reads the second; an edit of the configuration by hand and a      *)
(* request to /api/users do not go through it.                             *)
ReadSecond(t) ==
  LET first == CASE Op[t] = "edit" -> "edit" [] Op[t] = "user" -> "user" [] OTHER -> "allow" IN
  /\ t \in ahead
  /\ ahead' = ahead \ {t}
  /\ Go(t, "new", first)
  /\ id' = [id EXCEPT ![t] = clock]
  /\ overlap' = (overlap \/ \E u \in ApiTasks : Pending(u))
  /\ UNCHANGED <<clock, window, stored, registry, changes, errors, saved, granted, late, restored>>

(* Mutant of Allow: a window is renewed without counting its first request.*)
Allow_FreeFirst(t) ==
  LET fresh == window.second # id[t]
      count == IF fresh THEN 0 ELSE window.count + 1
  IN
  /\ Go(t, "allow", IF fresh \/ count <= Limit THEN Op[t] ELSE "refused")
  /\ window' = [second |-> id[t], count |-> count]
  /\ granted' = [granted EXCEPT ![id[t]] = IF fresh \/ count <= Limit THEN @ + 1 ELSE @]
  /\ late' = (late \/ clock # id[t])
  /\ UNCHANGED <<ahead, id, clock, stored, registry, changes, errors, saved, overlap, restored>>

(* ... and locks the window: another second than the window's renews it,   *)
(* be it an earlier one.                                                   *)
Allow(t) ==
  LET fresh == window.second # id[t]
      count == IF fresh THEN 1 ELSE window.count + 1
  IN
  /\ Go(t, "allow", IF fresh \/ count <= Limit THEN Op[t] ELSE "refused")
  /\ window' = [second |-> id[t], count |-> count]
  /\ granted' = [granted EXCEPT ![id[t]] = IF fresh \/ count <= Limit THEN @ + 1 ELSE @]
  /\ late' = (late \/ clock # id[t])
  /\ UNCHANGED <<ahead, id, clock, stored, registry, changes, errors, saved, overlap, restored>>

-----------------------------------------------------------------------------
(* api_backup                                                              *)

(* The directory is named by the second; one that is there is used again.  *)
MakeDir(t) ==
  /\ id' = [id EXCEPT ![t] = clock]
  /\ \/ /\ Go(t, "backup", "copy_conf")
        /\ dirs' = [dirs EXCEPT ![clock].there = TRUE]
        /\ UNCHANGED errors
     \/ Error(t, "backup", "error") /\ UNCHANGED dirs
  /\ UNCHANGED <<ahead, limiter, disk, registry, changes, saved, overlap, restored>>

(* fs::copy opens its source, empties the target ...                       *)
Open(source, t, from, to, dir, file) ==
  /\ Go(t, from, to)
  /\ source # Absent
  /\ dirs[dir].there
  /\ dirs' = [dirs EXCEPT ![dir][file] = Partial]

CopyConf(t) ==
  /\ \/ Open(disk.conf, t, "copy_conf", "conf_open", id[t], "conf") /\ UNCHANGED errors
     \/ /\ Go(t, "copy_conf", "error")
        /\ ~dirs[id[t]].there
        /\ UNCHANGED <<dirs, errors>>
     \/ Error(t, "copy_conf", "error") /\ UNCHANGED dirs
  /\ UNCHANGED <<ahead, id, limiter, disk, registry, changes, saved, overlap, restored>>

(* What t copies into a backup; nothing when the file was removed under it.*)
Fill(t, file, content) ==
  dirs' = IF dirs[id[t]][file] = Absent THEN dirs ELSE [dirs EXCEPT ![id[t]][file] = content]

(* ... and copies what the source holds by then.  users.toml is copied if  *)
(* it exists.                                                              *)
ConfCopied(t) ==
  /\ \/ /\ Go(t, "conf_open", IF disk.users = Absent THEN "answer" ELSE "copy_users")
        /\ Fill(t, "conf", disk.conf)
        /\ UNCHANGED errors
     \/ Error(t, "conf_open", "error") /\ UNCHANGED dirs
  /\ UNCHANGED <<ahead, id, limiter, disk, registry, changes, saved, overlap, restored>>

(* A failure to copy users.toml is ignored.                                *)
CopyUsers(t) ==
  /\ \/ Open(disk.users, t, "copy_users", "users_open", id[t], "users") /\ UNCHANGED errors
     \/ /\ Go(t, "copy_users", "answer")
        /\ ~dirs[id[t]].there
        /\ UNCHANGED <<dirs, errors>>
     \/ Error(t, "copy_users", "answer") /\ UNCHANGED dirs
  /\ UNCHANGED <<ahead, id, limiter, disk, registry, changes, saved, overlap, restored>>

UsersCopied(t) ==
  /\ \/ Go(t, "users_open", "answer") /\ Fill(t, "users", disk.users) /\ UNCHANGED errors
     \/ Error(t, "users_open", "answer") /\ UNCHANGED dirs
  /\ UNCHANGED <<ahead, id, limiter, disk, registry, changes, saved, overlap, restored>>

Answer(t) ==
  /\ Go(t, "answer", "ok")
  /\ saved' = [saved EXCEPT ![id[t]] =
       [there |-> TRUE, conf |-> disk.conf, users |-> disk.users]]
  /\ UNCHANGED <<ahead, id, limiter, stored, registry, changes, errors, overlap, restored>>

-----------------------------------------------------------------------------
(* api_restore and api_delete_backup                                       *)

(* The backup may be gone, or without the file that is copied first.       *)
Find(t) ==
  /\ \E s \in Seconds :
       /\ id' = [id EXCEPT ![t] = s]
       /\ \/ dirs[s].there /\ dirs[s].conf # Absent /\ Go(t, "restore", "conf_back") /\ UNCHANGED errors
          \/ dirs[s].there /\ dirs[s].conf = Absent /\ Go(t, "restore", "error") /\ UNCHANGED errors
          \/ ~dirs[s].there /\ Go(t, "restore", "not_found") /\ UNCHANGED errors
          \/ dirs[s].there /\ Error(t, "restore", "error")
  /\ disk' = IF step'[t] = "conf_back" THEN [disk EXCEPT !.conf = Partial] ELSE disk
  /\ restored' = IF step'[t] = "conf_back" THEN Absent ELSE restored
  /\ UNCHANGED <<ahead, limiter, dirs, registry, changes, saved, overlap>>

(* A copy that fails leaves the configuration cut short, and 500.  The     *)
(* source stays open when the backup is deleted meanwhile.                 *)
ConfBack(t) ==
  LET source == IF dirs[id[t]].conf = Absent THEN {saved[id[t]].conf, Partial}
                                             ELSE {dirs[id[t]].conf}
  IN
  /\ \/ /\ Go(t, "conf_back", IF dirs[id[t]].users = Absent THEN "reload" ELSE "users_back")
        /\ \E content \in source : disk' = [disk EXCEPT !.conf = content]
        /\ UNCHANGED errors
     \/ Error(t, "conf_back", "error") /\ UNCHANGED disk
  /\ UNCHANGED <<ahead, id, limiter, dirs, registry, changes, saved, overlap, restored>>

(* Mutant of UsersBack: users.toml is only copied where there is none yet. *)
UsersBack_NotOver(t) ==
  /\ Go(t, "users_back", "reload")
  /\ disk' = [disk EXCEPT !.users = IF @ = Absent THEN dirs[id[t]].users ELSE @]
  /\ UNCHANGED <<ahead, id, limiter, dirs, registry, changes, errors, saved, overlap, restored>>

UsersBack(t) ==
  /\ \/ /\ Go(t, "users_back", "reload")
        /\ disk' = [disk EXCEPT !.users =
             IF dirs[id[t]].users = Absent THEN @ ELSE dirs[id[t]].users]
        /\ UNCHANGED errors
     \/ Error(t, "users_back", "reload") /\ disk' \in {disk, [disk EXCEPT !.users = Partial]}
  /\ UNCHANGED <<ahead, id, limiter, dirs, registry, changes, saved, overlap, restored>>

(* reload_tx.send: nobody receives.                                        *)
Reload(t) ==
  /\ Go(t, "reload", "ok")
  /\ restored' = id[t]
  /\ UNCHANGED <<ahead, id, limiter, stored, registry, changes, errors, saved, overlap>>

(* remove_dir_all removes the files, then the directory; it fails when     *)
(* there is no directory, or a backup has put a file in it meanwhile.      *)
RemoveFiles(t) ==
  /\ \E s \in Seconds :
       /\ id' = [id EXCEPT ![t] = s]
       /\ Go(t, "delete", IF dirs[s].there THEN "rmdir" ELSE "not_found")
       /\ dirs' = [dirs EXCEPT ![s].conf = Absent, ![s].users = Absent]
  /\ UNCHANGED <<ahead, limiter, disk, registry, changes, errors, saved, overlap, restored>>

(* Mutant of RemoveDir: the directory goes, whatever is in it by now.      *)
RemoveDir_Busy(t) ==
  /\ Go(t, "rmdir", "ok")
  /\ dirs' = [dirs EXCEPT ![id[t]].there = FALSE]
  /\ UNCHANGED <<ahead, id, limiter, disk, registry, changes, errors, saved, overlap, restored>>

RemoveDir(t) ==
  LET dir == dirs[id[t]]
      removed == dir.there /\ dir.conf = Absent /\ dir.users = Absent
  IN
  /\ Go(t, "rmdir", IF removed THEN "ok" ELSE "not_found")
  /\ dirs' = IF removed THEN [dirs EXCEPT ![id[t]] = NoDir] ELSE dirs
  /\ UNCHANGED <<ahead, id, limiter, disk, registry, changes, errors, saved, overlap, restored>>

-----------------------------------------------------------------------------
(* What else writes the two files                                          *)

(* A request to /api/users changes the accounts in memory and writes them  *)
(* all to users.toml (module UserRegistry).                                *)
ChangeUsers(t) ==
  /\ Go(t, "user", "persist")
  /\ changes' = changes + 1
  /\ registry' = changes'
  /\ disk' = [disk EXCEPT !.users = Partial]
  /\ restored' = Absent
  /\ UNCHANGED <<ahead, id, limiter, dirs, errors, saved, overlap>>

Persist(t) ==
  /\ Go(t, "persist", "ok")
  /\ disk' = [disk EXCEPT !.users = registry]
  /\ UNCHANGED <<ahead, id, limiter, dirs, registry, changes, errors, saved, overlap, restored>>

(* The administrator replaces runnginx.conf.                               *)
Edit(t) ==
  /\ Go(t, "edit", "ok")
  /\ changes' = changes + 1
  /\ disk' = [disk EXCEPT !.conf = changes']
  /\ restored' = Absent
  /\ UNCHANGED <<ahead, id, limiter, dirs, registry, errors, saved, overlap>>

BackupsNext ==
  \/ Tick
  \/ \E t \in ApiTasks :
       \/ ReadSecond(t) \/ Allow(t)
       \/ MakeDir(t) \/ CopyConf(t) \/ ConfCopied(t) \/ CopyUsers(t) \/ UsersCopied(t) \/ Answer(t)
       \/ Find(t) \/ ConfBack(t) \/ UsersBack(t) \/ Reload(t)
       \/ RemoveFiles(t) \/ RemoveDir(t)
       \/ ChangeUsers(t) \/ Persist(t) \/ Edit(t)

-----------------------------------------------------------------------------
(* Properties                                                              *)

Content == -2..Cardinality(ApiTasks)
Dir == [there : BOOLEAN, conf : Content, users : Content]

BackupsTypeOK ==
  /\ ahead \subseteq ApiTasks
  /\ DOMAIN step = ApiTasks
  /\ id \in [ApiTasks -> Seconds \cup {Absent}]
  /\ clock \in Seconds
  /\ window \in [second : Seconds \cup {Absent}, count : Nat]
  /\ disk \in [conf : Content, users : Content]
  /\ {dirs, saved} \subseteq [Seconds -> Dir]
  /\ \A s \in Seconds : dirs[s].there \/ dirs[s] = NoDir
  /\ {registry, changes} \subseteq Content
  /\ errors \in 0..MaxErrors
  /\ granted \in [Seconds -> Nat]
  /\ {late, overlap} \subseteq BOOLEAN
  /\ restored \in Seconds \cup {Absent}

(* While requests come one by one: after a restore that was answered ok,   *)
(* the files are what they were when that backup was made, whatever was    *)
(* changed, restored, deleted and backed up in between, and though two     *)
(* backups of one second share a directory.  For runnginx.conf that is so  *)
(* after failures too, unless one cut that backup short.                   *)
RoundTrip ==
  ~overlap /\ restored # Absent /\ saved[restored].there =>
    /\ (\A t \in ApiTasks :
          Op[t] = "backup" /\ step[t] = "error" => id[t] # restored) =>
         disk.conf = saved[restored].conf
    /\ errors = 0 /\ saved[restored].users # Absent =>
         disk.users = saved[restored].users

(* No address is granted more than Limit requests of one second, as long   *)
(* as nobody is held up, between reading the clock and locking the window, *)
(* until the second is over.                                               *)
RateKept == ~late => \A s \in Seconds : granted[s] <= Limit

(* README.md: "Restore a snapshot by id -- copies config+users back and    *)
(* triggers a live reload": the accounts in memory are those restored.     *)
RestoreIsLive ==
  ~overlap /\ errors = 0 /\ restored # Absent /\ dirs[restored].users # Absent =>
    registry = disk.users
=============================================================================
