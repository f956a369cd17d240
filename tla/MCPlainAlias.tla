----------------------------- MODULE MCPlainAlias -----------------------------
(* MCAlias without single quotes: what the theorems of AliasProofs assume. *)
EXTENDS MCAlias

ASSUME PlainPieces == PlainAliases
=============================================================================
