----------------------------- MODULE MCRouting -----------------------------
(* A registry with a credential for all ports and one for port 8443, asked *)
(* for under every spelling, and patterns for it and the domain above it.  *)
EXTENDS Routing

MCHost(n, d, p) == [name |-> n, dot |-> d, port |-> p]

Apex == <<"corp", "io">>
Sub == <<"r", "corp", "io">>

MCCredHosts == {MCHost(Sub, FALSE, ""), MCHost(Sub, FALSE, "8443")}

MCTargets ==
    {MCHost(Sub, d, p) : d \in BOOLEAN, p \in {"", "443", "8443"}}
    \union {MCHost(Apex, FALSE, "443")}

MCPattern(n, s, p) == [name |-> n, sub |-> s, port |-> p]

MCPatterns == {Star, MCPattern(Apex, TRUE, ""), MCPattern(Sub, FALSE, "443")}

\* Every source speaks, the environment perhaps twice.
AllSources == [terraformrc |-> 1, tofurc |-> 1, environ |-> 2, flags |-> 1]

\* One entry, given by a flag.
FlagsOnly == [terraformrc |-> 0, tofurc |-> 0, environ |-> 0, flags |-> 1]
=============================================================================
