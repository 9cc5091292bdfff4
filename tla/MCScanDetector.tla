-------------------------- MODULE MCScanDetector --------------------------
(* Values of the constants of ScanDetector for TLC.                        *)
EXTENDS ScanDetector

CONSTANTS t1, t2, c1, c2, env, git, admin

Tasks2 == {t1, t2}
Clients2 == {c1, c2}

(* Two connections of one client.                                          *)
BothOfOne == [t \in Tasks2 |-> c1]

(* A page, a missing page, a missing page under two probe paths (as        *)
(* /.gitignore is), one probe path that exists.                            *)
Mixed ==
  {[error |-> FALSE, probes |-> {}],
   [error |-> TRUE, probes |-> {git, admin}],
   [error |-> FALSE, probes |-> {env}]}
=============================================================================
