------------------------------ MODULE Routing ------------------------------
(***************************************************************************)
(* Which token goes where: the four sources of credentials merged by       *)
(* credentials.Parse (internal/credentials/parser.go), the bypass patterns *)
(* (internal/proxy/bypass.go), the warning about both (prepareChildTrust), *)
(* and the decision ServeHTTP takes for each request (server.go:143-201).  *)
(*                                                                         *)
(* A host is its name, a sequence of labels in lower case, whether it is   *)
(* spelled with a trailing dot, and its port, "" for none.                 *)
(***************************************************************************)
EXTENDS Naturals, Sequences

CONSTANTS
    Tokens,
    CredHosts,   \* the hosts a source may name
    Targets,     \* the targets of the CONNECT requests
    Patterns,    \* the bypass patterns an operator may give
    MaxEntries   \* bound on the entries of each source

\* In the order in which Parse reads them; a later one replaces an earlier.
Sources == {"terraformrc", "tofurc", "environ", "flags"}
Rank == [terraformrc |-> 1, tofurc |-> 2, environ |-> 3, flags |-> 4]
After == [terraformrc |-> "tofurc", tofurc |-> "environ", environ |-> "flags", flags |-> "trust"]

Names == Seq(STRING) \ {<<>>}

ASSUME RoutingAssumption ==
    /\ \A h \in CredHosts \union Targets :
        h.name \in Names /\ h = [name |-> h.name, dot |-> h.dot, port |-> h.port]
    /\ \A p \in Patterns : p.name \in Names /\ p.sub \in BOOLEAN
    /\ MaxEntries \in [Sources -> Nat]

VARIABLES
    phase,   \* the source to read next, then trust, serve or refused
    given,   \* what each source said
    store,   \* the CredentialStore: a function on a set of hosts
    bypass,  \* the patterns
    warned,  \* the hosts prepareChildTrust warned about
    route    \* what ServeHTTP did with the last request

vars == <<phase, given, store, bypass, warned, route>>

\* An entry of source s.  Its map is keyed by the host in lower case, but the
\* environment's by the name as spelled, perhaps with capitals.
Entry(s) ==
    [host : CredHosts, upper : IF s = "environ" THEN BOOLEAN ELSE {FALSE}, token : Tokens]

Lists(s) == UNION {[1 .. n -> Entry(s)] : n \in 0 .. MaxEntries[s]}

HostsOf(list) == {list[i].host : i \in DOMAIN list}

NoRoute == [how |-> "none"]

Init ==
    /\ phase = "terraformrc"
    /\ given = [s \in Sources |-> <<>>]
    /\ store = <<>>
    /\ bypass = {}
    /\ warned = {}
    /\ route = NoRoute

-----------------------------------------------------------------------------
(* Parse.  Operators named for what they get wrong are no part of Next.     *)

\* Entry i is not replaced by a later one with its key.
Stands(list, i) ==
    \A j \in i + 1 .. Len(list) :
        list[j].host = list[i].host => list[j].upper # list[i].upper

\* What a list may amount to: of two spellings that both stand, either, for
\* Parse ranges over a Go map.
Readings(list) ==
    {m \in [HostsOf(list) -> Tokens] : \A h \in HostsOf(list) :
        \E i \in DOMAIN list :
            list[i].host = h /\ list[i].token = m[h] /\ Stands(list, i)}

\* CredentialStore.Set for every host of m.
SetAll(old, m) ==
    [h \in DOMAIN m \union DOMAIN old |-> IF h \in DOMAIN m THEN m[h] ELSE old[h]]

LoadFirstWins(s) ==
    /\ phase = s /\ phase' = After[s]
    /\ \E list \in Lists(s) :
        /\ given' = [given EXCEPT ![s] = list]
        /\ \E m \in Readings(list) : store' = SetAll(m, store)
    /\ UNCHANGED <<bypass, warned, route>>

Load(s) ==
    /\ phase = s /\ phase' = After[s]
    /\ \E list \in Lists(s) :
        /\ given' = [given EXCEPT ![s] = list]
        /\ \E m \in Readings(list) : store' = SetAll(store, m)
    /\ UNCHANGED <<bypass, warned, route>>

\* A flag without "=" taken for a flag with an empty token.
LoadUnchecked(s) ==
    /\ s = "flags"
    /\ phase = s /\ phase' = After[s]
    /\ \E h \in CredHosts : store' = SetAll(store, [g \in {h} |-> ""])
    /\ UNCHANGED <<given, bypass, warned, route>>

\* An unreadable or malformed file, a flag without "=".
LoadFails(s) ==
    /\ s # "environ"
    /\ phase = s /\ phase' = "refused"
    /\ UNCHANGED <<given, store, bypass, warned, route>>

-----------------------------------------------------------------------------
(* Bypass.Match *)

Star == [name |-> <<"*">>, sub |-> FALSE, port |-> ""]

\* A pattern without a port taken for one that matches hosts without a port.
PortMatchesExactly(p, port) == p.port = port

PortMatches(p, port) == p.port \in {"", port}

\* A pattern with a leading dot matches names with labels before its own.
NameMatches(p, name) ==
    IF p.sub
    THEN /\ Len(name) > Len(p.name)
         /\ SubSeq(name, Len(name) - Len(p.name) + 1, Len(name)) = p.name
    ELSE name = p.name

\* The trailing dot of h is trimmed.
Match(ps, h) ==
    \E p \in ps : p = Star \/ (PortMatches(p, h.port) /\ NameMatches(p, h.name))

\* runRootCmd refuses to start without a credential, or when the bundle cannot
\* be written; prepareChildTrust builds the matcher and warns.
Refuse ==
    /\ phase = "trust" /\ phase' = "refused"
    /\ UNCHANGED <<given, store, bypass, warned, route>>

\* The patterns taken for the names of the hosts to warn about.
TrustWarnsOfNamed ==
    /\ phase = "trust" /\ phase' = "serve"
    /\ DOMAIN store # {}
    /\ bypass' \in SUBSET Patterns
    /\ warned' = {h \in DOMAIN store : \E p \in bypass' : p = Star \/ p.name = h.name}
    /\ UNCHANGED <<given, store, route>>

Trust ==
    /\ phase = "trust" /\ phase' = "serve"
    /\ DOMAIN store # {}
    /\ bypass' \in SUBSET Patterns
    /\ warned' = {h \in DOMAIN store : Match(bypass', h)}
    /\ UNCHANGED <<given, store, route>>

-----------------------------------------------------------------------------
(* ServeHTTP *)

Bare(h) == [name |-> h.name, dot |-> h.dot, port |-> ""]

\* The keys Lookup is tried with that exist.
Found(h) == {h, Bare(h)} \intersect DOMAIN store

TokenOfBare(h) == IF Bare(h) \in DOMAIN store THEN store[Bare(h)] ELSE store[h]

\* host:port first, then the bare hostname.
TokenOf(h) == IF h \in DOMAIN store THEN store[h] ELSE store[Bare(h)]

ServeConnect(t) ==
    /\ phase = "serve"
    /\ route' = IF Match(bypass, t) \/ Found(t) = {}
                THEN [how |-> "tunnel", target |-> t]
                ELSE [how |-> "mitm", target |-> t, token |-> TokenOf(t)]
    /\ UNCHANGED <<phase, given, store, bypass, warned>>

ServeOther ==
    /\ phase = "serve"
    /\ route' = [how |-> "405"]
    /\ UNCHANGED <<phase, given, store, bypass, warned>>

Refused ==
    /\ phase = "refused"
    /\ UNCHANGED vars

Next ==
    \/ \E s \in Sources : Load(s) \/ LoadFails(s)
    \/ Trust \/ Refuse \/ Refused
    \/ \E t \in Targets : ServeConnect(t)
    \/ ServeOther

Spec == Init /\ [][Next]_vars

-----------------------------------------------------------------------------
(* Properties *)

\* Types of the variables.
TypeOK ==
    /\ phase \in Sources \union {"trust", "serve", "refused"}
    /\ DOMAIN given = Sources /\ \A s \in Sources : given[s] \in Lists(s)
    /\ DOMAIN store \subseteq CredHosts /\ store \in [DOMAIN store -> Tokens]
    /\ bypass \subseteq Patterns
    /\ warned \subseteq CredHosts
    /\ route \in
        {NoRoute, [how |-> "405"]}
        \union [how : {"tunnel"}, target : Targets]
        \union [how : {"mitm"}, target : Targets, token : Tokens]

\* README.md:378: when several sources name a host, its token comes from the
\* one with the highest priority; every host a source names has a token.
HighestPriorityWins ==
    phase = "serve" => \A h \in CredHosts :
        LET naming == {s \in Sources : h \in HostsOf(given[s])}
        IN  /\ h \in DOMAIN store <=> naming # {}
            /\ \A s \in naming : (\A r \in naming : Rank[r] <= Rank[s]) =>
                \E i \in DOMAIN given[s] : given[s][i].host = h /\ given[s][i].token = store[h]

\* README.md:370: what NO_PROXY patterns mean for a host, however it is
\* spelled: exactly it, the names below it, one port only, or everything.
Covers(p, h) ==
    \/ p = Star
    \/ /\ p.port = "" \/ p.port = h.port
       /\ \/ ~p.sub /\ h.name = p.name
          \/ p.sub /\ \E k \in 1 .. Len(h.name) - 1 : SubSeq(h.name, k + 1, Len(h.name)) = p.name

\* README.md:370: a bypassed host is never intercepted, even when it has a
\* credential.
BypassHonoured ==
    route.how = "mitm" => ~ \E p \in bypass : Covers(p, route.target)

\* server.go:171-175: a token goes to the host it was given for and no other,
\* the one given for the port before the one for all ports; a host with a
\* token that is not bypassed is never left without it.
TokenForItsHost ==
    /\ route.how = "mitm" =>
        \E h \in DOMAIN store :
            /\ store[h] = route.token
            /\ h.name = route.target.name /\ h.dot = route.target.dot
            /\ h.port = route.target.port
               \/ (h.port = "" /\ \A g \in DOMAIN store : g # route.target)
    /\ route.how = "tunnel" =>
        \/ \E p \in bypass : Covers(p, route.target)
        \/ \A h \in DOMAIN store : h # route.target /\ h # Bare(route.target)

\* README.md:370: a warning is logged when a bypassed host has a credential.
\* Of the credential that a request would have got: the warning is decided
\* from the hosts as the store spells them (main.go:339), the bypass from the
\* host and port of the request.  Patterns for one port are excepted: they
\* match no host of the store that is spelled without a port.
WarnedUnlessByPort ==
    phase = "serve" => \A t \in Targets :
        (\E p \in bypass : Covers(p, t) /\ p.port = "") /\ Found(t) # {} =>
            Found(t) \subseteq warned
=============================================================================
