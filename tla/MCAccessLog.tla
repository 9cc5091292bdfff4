---------------------------- MODULE MCAccessLog ----------------------------
(* Values of the constants of AccessLog for TLC.                           *)
EXTENDS AccessLog

CONSTANTS e1, e2, e3, e4, e5

Entries5 == {e1, e2, e3, e4, e5}
=============================================================================
