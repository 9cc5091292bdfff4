---------------------------- MODULE MCLifecycle ----------------------------
(* Values of the constants of Lifecycle for TLC.                           *)
EXTENDS Lifecycle, TLC

CONSTANTS http, r1, r2, r3, i1, i2

Host(tools, manage, protect, dry) ==
  [tools |-> tools, manage |-> manage, icmp_protection |-> protect, dry_run |-> dry]

(* Every backend of the guard and of the firewall, auto-detected and       *)
(* chosen, the firewall off and in dry-run mode.                           *)
Hosts6 ==
  { Host({"iptables"}, "off", TRUE, FALSE),
    Host({"iptables"}, "auto", FALSE, FALSE),
    Host({"ufw", "iptables"}, "auto", FALSE, FALSE),
    Host({"nft"}, "off", TRUE, FALSE),
    Host({"nft"}, "auto", FALSE, FALSE),
    Host({"nft", "iptables"}, "iptables", FALSE, TRUE) }

(* Three runs of one configuration.                                        *)
Runs3 == {r1, r2, r3}
Ports1 == {http}
Config3 == [r \in Runs3 |-> Ports1]
Pids2 == {i1, i2}
Symmetry == Permutations(Pids2) \cup Permutations(Runs3)
=============================================================================
