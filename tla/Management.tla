----------------------------- MODULE Management -----------------------------
(***************************************************************************)
(* The requests of the management API that write files (handle_api in      *)
(* src/src/api/mod.rs): those about sites and those about backups.  They   *)
(* run in parallel on the same directory, but touch different files.       *)
(***************************************************************************)
EXTENDS Sites, Backups

CONSTANT Loads   \* the requests that arrive: pairs of sets of requests

ASSUME ManagementAssumption == Loads \subseteq (SUBSET SiteTasks) \X (SUBSET ApiTasks)

vars == <<siteVars, apiVars>>

Init == \E load \in Loads : SitesInit(load[1]) /\ BackupsInit(load[2])

Next ==
  \/ SitesNext /\ UNCHANGED apiVars
  \/ BackupsNext /\ UNCHANGED siteVars

Spec == Init /\ [][Next]_vars

TypeOK == SitesTypeOK /\ BackupsTypeOK
=============================================================================
