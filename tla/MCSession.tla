----------------------------- MODULE MCSession -----------------------------
(* One run of the program, with one connection and three signals where they *)
(* matter.                                                                  *)
EXTENDS Session
=============================================================================
