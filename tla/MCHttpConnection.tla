-------------------------- MODULE MCHttpConnection --------------------------
(* Values of the constants of HttpConnection for TLC.                      *)
EXTENDS HttpConnection

(* One client sends a request with a body of one piece and one without     *)
(* (two in one read are too long), the other a request without a body.     *)
Bodies2 == << <<1, 0>>, <<0>> >>
=============================================================================
