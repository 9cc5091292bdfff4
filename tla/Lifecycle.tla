----------------------------- MODULE Lifecycle -----------------------------
(***************************************************************************)
(* Runs of the program on one host, from start to end (src/src/main.rs),   *)
(* with what they leave on the host: the rate-limiting rules and the pid   *)
(* file of the ICMP guard (src/src/icmp_guard/mod.rs), which other         *)
(* programs that build in the same guard share, and the rules that open    *)
(* the listen ports (src/src/firewall/backend.rs).  A run may be killed at *)
(* any moment, and any external command may fail.                          *)
(***************************************************************************)
EXTENDS Integers, FiniteSets, Sequences, SequencesExt

CONSTANTS
  Runs,        \* runs of the program: each starts once
  Ports,       \* listen ports
  Config,      \* Config[r]: the ports of the configuration r loads
  Hosts,       \* the hosts and settings to consider
  Pids,        \* process ids
  NoPid,       \* no process; the pid file does not exist
  MaxFailures, \* bound: how many commands, writes and binds fail
  MaxKills,    \* bound: how many runs are killed
  MaxLive      \* bound: how many runs are up at once

Tools == {"ufw", "nft", "iptables"}

ASSUME LifecycleAssumption ==
  /\ IsFiniteSet(Runs) /\ IsFiniteSet(Ports)
  /\ Config \in [Runs -> SUBSET Ports]
  /\ Hosts \subseteq [tools : SUBSET Tools, icmp_protection : BOOLEAN,
                      manage : {"off", "auto", "ufw", "nftables", "iptables"},
                      dry_run : BOOLEAN]
  /\ NoPid \notin Pids
  /\ {MaxFailures, MaxKills, MaxLive} \subseteq Nat

VARIABLES
  host,     \* the host: never changes
  run,      \* run[r]: the state of run r
  chain,    \* the ICMP rules of the IPv4 input chain, in order
  pid_file, \* the pid in the pid file, "empty", or NoPid
  stranger, \* a pid that belongs to an unrelated process, or NoPid
  rules,    \* the rules that open ports, in order
  used,     \* used.failures, used.kills: how much of the bounds is used
  past      \* what has happened to the runs (history)

vars == <<host, run, chain, pid_file, stranger, rules, used, past>>

(* pc: where async_main is; at: the next command of setup or teardown;     *)
(* owner: IcmpGuard::is_owner; seen: the nft rules a teardown has listed;  *)
(* listener: the task that listens on each port; opened: the ports it      *)
(* remembers it opened; todo: those it is about to open, or to close; sig: *)
(* the task that waits for Ctrl-C.                                         *)
NotRunning(pc) ==
  [pc |-> pc, pid |-> NoPid, at |-> 1, owner |-> FALSE, seen |-> {},
   listener |-> [p \in Ports |-> "none"], opened |-> {}, todo |-> {}, sig |-> "none"]

(* raced: two runs were between the check and the pid file at once;        *)
(* unlocked: an owner could not write the pid file; shared: ports two runs *)
(* had open at once; dirty: a port was left open, by a run that ended      *)
(* otherwise than by Ctrl-C or by a command that failed.                   *)
NoPast == [raced |-> FALSE, unlocked |-> FALSE, shared |-> {}, dirty |-> FALSE]

Init ==
  /\ host \in Hosts
  /\ run = [r \in Runs |-> NotRunning("off")]
  /\ chain = <<>>
  /\ pid_file = NoPid
  /\ stranger = NoPid
  /\ rules = <<>>
  /\ used = [failures |-> 0, kills |-> 0]
  /\ past = NoPast

(* detect_backend: nft is preferred; a disabled guard does as if there     *)
(* were no tool.                                                           *)
IcmpBackend ==
  CASE host.icmp_protection /\ "nft" \in host.tools -> "nft"
    [] host.icmp_protection /\ host.tools \cap {"nft", "iptables"} = {"iptables"} -> "iptables"
    [] OTHER -> "none"

(* FirewallManager::new and Backend::detect.                               *)
FwBackend ==
  CASE host.manage \in {"ufw", "nftables", "iptables"} -> host.manage
    [] host.manage = "auto" /\ "ufw" \in host.tools -> "ufw"
    [] host.manage = "auto" /\ host.tools \cap {"ufw", "nft"} = {"nft"} -> "nftables"
    [] host.manage = "auto" /\ host.tools = {"iptables"} -> "iptables"
    [] OTHER -> "none"

(* A command that may succeed or, within the bound, fail.                  *)
Try(succeeds) ==
  IF succeeds THEN UNCHANGED used
  ELSE used.failures < MaxFailures /\ used' = [used EXCEPT !.failures = @ + 1]

-----------------------------------------------------------------------------
(* Start and ICMP guard                                                    *)

AllPids == {run[r].pid : r \in Runs} \cup {stranger}

(* The process starts and its configuration loads; when it does not, or    *)
(* with -t, the process ends before it has touched anything.               *)
Start(r) ==
  /\ run[r].pc = "off"
  /\ Cardinality({s \in Runs : run[s].pid # NoPid}) < MaxLive
  /\ \E i \in Pids \ AllPids : run' = [run EXCEPT ![r].pc = "check", ![r].pid = i]
  /\ UNCHANGED <<host, chain, pid_file, stranger, rules, used, past>>

(* lock_is_held: the file names a process that exists, whichever it is.    *)
LockIsHeld == pid_file # NoPid /\ pid_file \in AllPids

(* Mutant of CheckLock: the pid file is not looked at.                     *)
CheckLock_Always(r) ==
  /\ run[r].pc = "check"
  /\ run' = [run EXCEPT ![r].pc = IF IcmpBackend = "none" THEN "spawn" ELSE "apply"]
  /\ past' = [past EXCEPT !.raced = @ \/ \E s \in Runs : run[s].pc = "apply"]
  /\ UNCHANGED <<host, chain, pid_file, stranger, rules, used>>

CheckLock(r) ==
  /\ run[r].pc = "check"
  /\ run' = [run EXCEPT ![r].pc =
       IF IcmpBackend = "none" \/ LockIsHeld THEN "spawn" ELSE "apply"]
  /\ past' = [past EXCEPT !.raced = @ \/ \E s \in Runs : run[s].pc = "apply"]
  /\ UNCHANGED <<host, chain, pid_file, stranger, rules, used>>

(* The commands of apply_rules and remove_rules by their verdict.  Those   *)
(* for ip6tables follow; what becomes of them is ignored, and left out.    *)
Cmds == <<"accept", "drop">>

(* apply_rules, one command: iptables inserts in front, nft appends and    *)
(* gives the rule a handle.  A command that fails ends the setup, with the *)
(* rules so far kept.                                                      *)
Apply(r) ==
  LET verdict == Cmds[run[r].at] IN
  /\ run[r].pc = "apply"
  /\ run[r].at <= Len(Cmds)
  /\ \E ok \in BOOLEAN :
       /\ Try(ok)
       /\ chain' =
            CASE ~ok -> chain
              [] ok /\ IcmpBackend = "iptables" ->
                   << [verdict |-> verdict, handle |-> "none"] >> \o chain
              [] ok /\ IcmpBackend = "nft" ->
                   Append(chain, [verdict |-> verdict, handle |-> r])
       /\ run' = IF ok THEN [run EXCEPT ![r].at = @ + 1]
                       ELSE [run EXCEPT ![r].at = 1, ![r].pc = "spawn"]
  /\ UNCHANGED <<host, pid_file, stranger, rules, past>>

(* write_lock: errors are ignored.  A file that can be opened but not      *)
(* written to is left empty.                                               *)
WriteLock(r) ==
  /\ run[r].pc = "apply"
  /\ run[r].at > Len(Cmds)
  /\ run' = [run EXCEPT ![r].at = 1, ![r].pc = "spawn", ![r].owner = TRUE]
  /\ \E ok \in BOOLEAN :
       /\ Try(ok)
       /\ past' = [past EXCEPT !.unlocked = @ \/ ~ok]
       /\ pid_file' \in IF ok THEN {run[r].pid} ELSE {pid_file, "empty"}
  /\ UNCHANGED <<host, chain, stranger, rules>>

-----------------------------------------------------------------------------
(* Listeners and firewall                                                  *)

(* One task per listen directive is spawned; the ports to open are the     *)
(* same ones, each once.                                                   *)
Spawn(r) ==
  /\ run[r].pc = "spawn"
  /\ run' = [run EXCEPT
       ![r].pc = "open",
       ![r].listener = [p \in Ports |-> IF p \in Config[r] THEN "spawned" ELSE "none"],
       ![r].todo = IF FwBackend = "none" THEN {} ELSE Config[r]]
  /\ UNCHANGED <<host, chain, pid_file, stranger, rules, used, past>>

(* Listener::run up to the bind: an address in use, or certificates that   *)
(* cannot be read, end the task with a line in the log.                    *)
Bind(r, p) ==
  /\ run[r].listener[p] = "spawned"
  /\ \E ok \in BOOLEAN :
       /\ IF \E s \in Runs : run[s].listener[p] = "bound"
          THEN ~ok /\ UNCHANGED used
          ELSE Try(ok)
       /\ run' = [run EXCEPT ![r].listener[p] = IF ok THEN "bound" ELSE "failed"]
  /\ UNCHANGED <<host, chain, pid_file, stranger, rules, past>>

Holds(r, p) ==
  p \in run[r].opened \cup (IF run[r].sig = "closing" THEN run[r].todo ELSE {})

(* Mutant of OpenPort: a port that could not be opened is remembered too.  *)
OpenPort_RemembersFailed(r, p) ==
  /\ run[r].pc = "open"
  /\ p \in run[r].todo
  /\ \E ok \in BOOLEAN :
       /\ IF host.dry_run THEN ok /\ UNCHANGED used ELSE Try(ok)
       /\ run' = [run EXCEPT ![r].todo = @ \ {p}, ![r].opened = @ \cup {p}]
       /\ rules' = IF ~ok \/ host.dry_run THEN rules ELSE Append(rules, p)
  /\ UNCHANGED <<host, chain, pid_file, stranger, past>>

(* open_rule.  ufw does not add a rule it has.  A port that could not be   *)
(* opened is not remembered.                                               *)
OpenPort(r, p) ==
  /\ run[r].pc = "open"
  /\ p \in run[r].todo
  /\ \E ok \in BOOLEAN :
       /\ IF host.dry_run THEN ok /\ UNCHANGED used ELSE Try(ok)
       /\ run' = [run EXCEPT ![r].todo = @ \ {p},
                             ![r].opened = IF ok THEN @ \cup {p} ELSE @]
       /\ rules' = IF \/ ~ok
                      \/ host.dry_run
                      \/ FwBackend = "ufw" /\ Contains(rules, p)
                   THEN rules ELSE Append(rules, p)
       /\ past' = IF ok /\ \E s \in Runs \ {r} : Holds(s, p)
                  THEN [past EXCEPT !.shared = @ \cup {p}] ELSE past
  /\ UNCHANGED <<host, chain, pid_file, stranger>>

(* The task for Ctrl-C is spawned, and main waits for the listeners.       *)
Serve(r) ==
  /\ run[r].pc = "open"
  /\ run[r].todo = {}
  /\ run' = [run EXCEPT ![r].pc = "serve", ![r].sig = "spawned"]
  /\ UNCHANGED <<host, chain, pid_file, stranger, rules, used, past>>

(* The task has installed its handler.  Until then, and always for         *)
(* SIGTERM, a signal is a Kill.                                            *)
Arm(r) ==
  /\ run[r].sig = "spawned"
  /\ run' = [run EXCEPT ![r].sig = "armed"]
  /\ UNCHANGED <<host, chain, pid_file, stranger, rules, used, past>>

-----------------------------------------------------------------------------
(* Ends                                                                    *)

(* What the end of its process does to a run.                              *)
Dies(r) ==
  /\ run' = [run EXCEPT ![r] = NotRunning("gone")]
  /\ past' = [past EXCEPT !.dirty = @ \/ \E p \in Ports : Holds(r, p)]
  /\ UNCHANGED <<host, chain, pid_file, stranger, rules>>

(* FirewallManager::close takes the list of opened ports ...               *)
CtrlC(r) ==
  /\ run[r].sig = "armed"
  /\ run' = [run EXCEPT ![r].sig = "closing", ![r].todo = run[r].opened, ![r].opened = {}]
  /\ UNCHANGED <<host, chain, pid_file, stranger, rules, used, past>>

(* ... and close_rule removes one rule: iptables the first that matches,   *)
(* ufw the only one; nft rules are removed by handle, which nft add does   *)
(* not tell, so they stay.                                                 *)
ClosePort(r, p) ==
  LET removes == ~host.dry_run /\ FwBackend # "nftables" IN
  /\ run[r].sig = "closing"
  /\ p \in run[r].todo
  /\ run' = [run EXCEPT ![r].todo = @ \ {p}]
  /\ \E ok \in BOOLEAN :
       /\ IF removes THEN Try(ok) ELSE ok /\ UNCHANGED used
       /\ rules' = IF ok /\ removes THEN RemoveFirst(rules, p) ELSE rules
       /\ past' = [past EXCEPT !.dirty = @ \/ ~ok]
  /\ UNCHANGED <<host, chain, pid_file, stranger>>

(* process::exit(0): nothing is dropped, the ICMP rules and the pid file   *)
(* stay.                                                                   *)
Exit(r) ==
  /\ run[r].sig = "closing"
  /\ run[r].todo = {}
  /\ Dies(r)
  /\ UNCHANGED used

Kill(r) ==
  /\ run[r].pc \notin {"off", "gone"}
  /\ used.kills < MaxKills
  /\ used' = [used EXCEPT !.kills = @ + 1]
  /\ Dies(r)

(* Every listener has ended, or there was none: async_main returns and     *)
(* drops the guard.                                                        *)
HandlesEnd(r) ==
  /\ run[r].pc = "serve"
  /\ \A p \in Config[r] : run[r].listener[p] = "failed"
  /\ run' = [run EXCEPT ![r].pc = IF run[r].owner THEN "teardown" ELSE "returned"]
  /\ UNCHANGED <<host, chain, pid_file, stranger, rules, used, past>>

(* Mutant of RemoveByText: every rule that reads like its own is deleted.  *)
RemoveByText_All(r) ==
  LET Others(rule) == rule.verdict # Cmds[run[r].at] IN
  /\ run[r].pc = "teardown"
  /\ IcmpBackend = "iptables"
  /\ run[r].at <= Len(Cmds)
  /\ run' = [run EXCEPT ![r].at = @ + 1]
  /\ \E ok \in BOOLEAN :
       /\ Try(ok)
       /\ chain' = IF ok THEN SelectSeq(chain, Others) ELSE chain
  /\ UNCHANGED <<host, pid_file, stranger, rules, past>>

(* remove_rules with iptables, one command: the first rule that reads like *)
(* its own is deleted.                                                     *)
RemoveByText(r) ==
  LET MatchesCmd(rule) == rule.verdict = Cmds[run[r].at] IN
  /\ run[r].pc = "teardown"
  /\ IcmpBackend = "iptables"
  /\ run[r].at <= Len(Cmds)
  /\ run' = [run EXCEPT ![r].at = @ + 1]
  /\ \E ok \in BOOLEAN :
       /\ Try(ok)
       /\ chain' = IF ok THEN RemoveFirstMatch(chain, MatchesCmd) ELSE chain
  /\ UNCHANGED <<host, pid_file, stranger, rules, past>>

(* With nft the rules are listed; when that fails there is nothing to      *)
(* delete ...                                                              *)
ListRules(r) ==
  /\ run[r].pc = "teardown"
  /\ IcmpBackend = "nft"
  /\ run[r].at = 1
  /\ \E ok \in BOOLEAN :
       /\ Try(ok)
       /\ run' = [run EXCEPT ![r].at = 2,
                             ![r].seen = IF ok THEN ToSet(chain) ELSE {}]
  /\ UNCHANGED <<host, chain, pid_file, stranger, rules, past>>

(* ... and each one that was listed is deleted, whoever added it.          *)
RemoveByHandle(r) ==
  /\ \E rule \in run[r].seen, ok \in BOOLEAN :
       /\ Try(ok)
       /\ run' = [run EXCEPT ![r].seen = @ \ {rule}]
       /\ chain' = IF ok THEN RemoveFirst(chain, rule) ELSE chain
  /\ UNCHANGED <<host, pid_file, stranger, rules, past>>

(* teardown removes the pid file, whichever process it names.              *)
Unlock(r) ==
  /\ run[r].pc = "teardown"
  /\ run[r].at > (IF IcmpBackend = "nft" THEN 1 ELSE Len(Cmds))
  /\ run[r].seen = {}
  /\ run' = [run EXCEPT ![r].pc = "returned"]
  /\ pid_file' = NoPid
  /\ UNCHANGED <<host, chain, stranger, rules, used, past>>

(* The process ends, after a close that has begun.  The ports stay open.   *)
End(r) ==
  /\ run[r].pc = "returned"
  /\ run[r].sig # "closing"
  /\ Dies(r)
  /\ UNCHANGED used

-----------------------------------------------------------------------------

(* Another process gets the pid in the file, which is free (with another   *)
(* pid it would change nothing), or ends.                                  *)
Stranger ==
  /\ stranger' \in IF stranger = NoPid THEN (Pids \cap {pid_file}) \ AllPids ELSE {NoPid}
  /\ UNCHANGED <<host, run, chain, pid_file, rules, used, past>>

MainStep(r) ==
  \/ CheckLock(r)
  \/ Apply(r)
  \/ WriteLock(r)
  \/ Spawn(r)
  \/ \E p \in Ports : OpenPort(r, p)
  \/ Serve(r)
  \/ HandlesEnd(r)
  \/ RemoveByText(r)
  \/ ListRules(r)
  \/ RemoveByHandle(r)
  \/ Unlock(r)
  \/ End(r)

TaskStep(r) ==
  \/ \E p \in Ports : Bind(r, p) \/ ClosePort(r, p)
  \/ Arm(r)
  \/ Exit(r)

Next ==
  \/ \E r \in Runs : Start(r) \/ MainStep(r) \/ TaskStep(r) \/ CtrlC(r) \/ Kill(r)
  \/ Stranger

Spec == Init /\ [][Next]_vars

-----------------------------------------------------------------------------
(* Properties                                                              *)

Rule == [verdict : {"accept", "drop"}, handle : Runs \cup {"none"}]

RunState ==
  [pc : {"off", "check", "apply", "spawn", "open", "serve", "teardown", "returned", "gone"},
   pid : Pids \cup {NoPid}, at : 1..3, owner : BOOLEAN, seen : SUBSET Rule,
   listener : [Ports -> {"none", "spawned", "bound", "failed"}],
   opened : SUBSET Ports, todo : SUBSET Ports,
   sig : {"none", "spawned", "armed", "closing"}]

TypeOK ==
  /\ host \in Hosts
  /\ run \in [Runs -> RunState]
  /\ \A r \in Runs : run[r].pc \in {"apply", "teardown", "returned"} \/ run[r].at = 1
  /\ chain \in Seq(Rule)
  /\ pid_file \in Pids \cup {"empty", NoPid}
  /\ stranger \in Pids \cup {NoPid}
  /\ rules \in Seq(Ports)
  /\ used \in [failures : 0..MaxFailures, kills : 0..MaxKills]
  /\ past \in [raced : BOOLEAN, unlocked : BOOLEAN, shared : SUBSET Ports, dirty : BOOLEAN]

(* "only ONE process (...) sets up rules at a time": unless two setups     *)
(* overlap or the pid file cannot be written, whatever is killed and       *)
(* whichever pids come back, no two live runs hold the rules.              *)
OneOwner ==
  ~past.raced /\ ~past.unlocked =>
    \A r, s \in Runs :
      run[r].owner /\ run[s].owner /\ "returned" \notin {run[r].pc, run[s].pc} => r = s

(* r guards the host: it set the rules up and does not remove them yet.    *)
Guards(r) == run[r].owner /\ run[r].pc \in {"spawn", "open", "serve"}

(* While a run guards the host, both rules are there, although the         *)
(* teardown of any other run deletes rules it cannot tell from its own:    *)
(* with iptables always, with nft under the condition of OneOwner.         *)
OwnerProtected ==
  \A r \in Runs :
    Guards(r) /\ (IcmpBackend = "nft" => ~past.raced /\ ~past.unlocked) =>
      {"accept", "drop"} \subseteq {rule.verdict : rule \in ToSet(chain)}

(* The firewall follows the runs.  A port a run opened stays open until    *)
(* that run closes it, whatever other runs open and close: with ufw, which *)
(* keeps one rule for all, unless two of them shared the port.  And once   *)
(* nobody has a port open, no rule is left, unless a run was killed, ended *)
(* by itself or failed to remove its rule, or the rules are nft's.         *)
FirewallFollowsRuns ==
  \A p \in Ports :
    /\ \A r \in Runs :
         p \in run[r].opened /\ ~host.dry_run
           /\ (FwBackend = "ufw" => p \notin past.shared) => Contains(rules, p)
    /\ (\A r \in Runs : ~Holds(r, p)) /\ ~past.dirty /\ FwBackend # "nftables" =>
         ~Contains(rules, p)
=============================================================================
