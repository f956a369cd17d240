----------------------------- MODULE MCChildEnv -----------------------------
(* MCRouting's hosts, with the bare domain among the patterns, and a parent *)
(* with a proxy, NO_PROXY and something else in its environment.            *)
EXTENDS ChildEnv, MCRouting, TLC

MCChildPatterns == MCPatterns \union {MCPattern(Apex, FALSE, "")}

MCParentVars ==
    {Upper("PATH"), Upper("SSL_CERT_FILE"), Lower("HTTPS_PROXY")} \union Both("NO_PROXY")

MCSymmetry == Permutations(Tokens)
=============================================================================
