----------------------------- MODULE MCLeafCache -----------------------------
(* Four connections race for the leaves of two hostnames. *)
EXTENDS LeafCache

CONSTANTS c1, c2, c3, c4, h1, h2

MCCallers == {c1, c2, c3, c4}
MCHosts == {h1, h2}
=============================================================================
