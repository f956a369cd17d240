------------------------------ MODULE MCCAStore ------------------------------
(* Two runs, the first with an SSL_CERT_FILE of its own, and up to two      *)
(* setups, one of them forced.                                              *)
EXTENDS CAStore

CONSTANTS r1, r2, s1, s2, corporate, system

MCRoots == [p \in Runs |-> IF p = r1 THEN corporate ELSE system]
=============================================================================
