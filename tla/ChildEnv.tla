------------------------------ MODULE ChildEnv ------------------------------
(***************************************************************************)
(* The operator's bypass patterns on their way to the proxy and into the   *)
(* child's environment: resolveEnvVarFlags (main.go), SplitHostList        *)
(* (internal/proxy/bypass.go), buildChildEnv and mergeNoProxy              *)
(* (internal/runner/process.go), composed with Routing.                    *)
(*                                                                         *)
(* A comma-separated list is the set of its items: blanks, repetitions and *)
(* the order, which the code drops or keeps, mean nothing to a reader.     *)
(***************************************************************************)
EXTENDS Routing, FiniteSets

CONSTANTS
    ParentVars,  \* the environment variables the parent may have
    MaxSaid      \* bound on credentials, patterns and variables together

ProxyKeys == {"HTTPS_PROXY", "HTTP_PROXY", "SSL_CERT_FILE", "NODE_EXTRA_CA_CERTS"}
Overrides == ProxyKeys \union {"NO_PROXY"}

\* The name of a variable is its key, spelled in upper or in lower case.
Both(key) == [key : {key}, upper : BOOLEAN]
Upper(key) == [key |-> key, upper |-> TRUE]
Lower(key) == [key |-> key, upper |-> FALSE]

ASSUME ChildEnvAssumption ==
    /\ \A v \in ParentVars : v \in Both(v.key)
    /\ MaxSaid \in Nat

VARIABLES
    flag,    \* the lists given with --bypass-host
    envvar,  \* the list in STELLARIS_AUTH_BYPASS_HOSTS
    parent,  \* the program's environment
    child    \* the child's environment, <<>> before there is a child

inputs == <<flag, envvar, parent>>
childVars == <<vars, inputs, child>>

\* A pattern as the operator spells it.
Items == [pat : Patterns, upper : BOOLEAN]

\* What each variable is set to: by the parent or by us, and if it is NO_PROXY,
\* the patterns it lists; all who read it put them into lower case.
Environment(V, l) ==
    [v \in V |-> [from |-> "parent", list |-> IF v.key = "NO_PROXY" THEN l[v] ELSE {}]]

Environments ==
    {Environment(V, l) : V \in SUBSET ParentVars, l \in [Both("NO_PROXY") -> SUBSET Patterns]}

ChildInit ==
    /\ Init
    /\ flag = {} /\ envvar = {}
    /\ parent = <<>>
    /\ child = <<>>

-----------------------------------------------------------------------------
(* Operators named for what they get wrong are no part of ChildNext.        *)

\* resolveEnvVarFlags
BypassHosts(lists, list) == IF lists # {} THEN UNION lists ELSE list

\* Splitting that does not put the items into lower case: one with capitals
\* is no pattern that Match could find.
SplitKeepsCase(list) == {i.pat : i \in {j \in list : ~j.upper}}

SplitHostList(list) == {i.pat : i \in list}

\* The patterns of every spelling of NO_PROXY.
ParentNoProxy(env) ==
    UNION {env[v].list : v \in {w \in DOMAIN env : w.key = "NO_PROXY"}}

\* The variables we set, those of the parent that stay, and NO_PROXY, which is
\* set only when it lists something.
Ours == {Upper(k) : k \in ProxyKeys}
KeptByExactName(env) == {v \in DOMAIN env : v.key \notin Overrides \/ ~v.upper}
Kept(env) == {v \in DOMAIN env : v.key \notin Overrides}
NoProxyVars(list) == IF list = {} THEN {} ELSE Both("NO_PROXY")

\* The parent's NO_PROXY forgotten, and both merged.
MergeOnlyOurs(env, noProxy) == noProxy
MergeNoProxy(env, noProxy) == noProxy \union ParentNoProxy(env)

BuildChildEnv(env, noProxy) ==
    LET merged == MergeNoProxy(env, noProxy)
    IN  [v \in Kept(env) \union Ours \union NoProxyVars(merged) |->
            IF v \in Kept(env) THEN env[v]
            ELSE [from |-> "ours", list |-> IF v \in NoProxyVars(merged) THEN merged ELSE {}]]

Entries == Len(given.terraformrc) + Len(given.tofurc) + Len(given.environ) + Len(given.flags)

\* A list given with the flag, an item of a list and a variable are each said.
Said(lists, list, env) ==
    Cardinality(lists) + Cardinality(UNION lists) + Cardinality(list)
        + Cardinality(DOMAIN env) + Cardinality(ParentNoProxy(env))

ShortLists == {list \in SUBSET Items : Cardinality(list) <= MaxSaid}
SmallEnvironments == {env \in Environments : Said({}, {}, env) <= MaxSaid}

\* What may still be said; credentials alone may be as many as MaxEntries says.
Room == IF Entries < MaxSaid THEN MaxSaid - Entries ELSE 0

\* runRootCmd up to the running proxy.
Prepare ==
    /\ phase = "trust"
    /\ LET Short == {list \in ShortLists : Cardinality(list) <= Room}
           Small == {env \in SmallEnvironments : Said({}, {}, env) <= Room}
       IN  \E lists \in {{}} \union {{list} : list \in Short}, list \in Short, env \in Small :
            /\ Said(lists, list, env) <= Room
            /\ flag' = lists /\ envvar' = list /\ parent' = env
            /\ bypass' = SplitHostList(BypassHosts(lists, list))
    /\ Trust
    /\ UNCHANGED child

\* Runner.Start
StartChild ==
    /\ phase = "serve" /\ child = <<>>
    /\ child' = BuildChildEnv(parent, bypass)
    /\ UNCHANGED <<vars, inputs>>

\* What Routing does besides.
RoutingStep ==
    \/ \E s \in Sources : Load(s) \/ LoadFails(s)
    \/ Refuse \/ Refused
    \/ \E t \in Targets : ServeConnect(t)
    \/ ServeOther

ChildNext ==
    \/ Prepare
    \/ StartChild
    \/ RoutingStep /\ UNCHANGED <<inputs, child>>

ChildSpec == ChildInit /\ [][ChildNext]_childVars

-----------------------------------------------------------------------------
(* What a child in Go, as terraform and tofu are, makes of its environment  *)

\* Of two spellings the upper one is read, unless it is missing or empty.
NoProxyOf(env) ==
    LET Read(v) == IF v \in DOMAIN env THEN env[v].list ELSE {}
    IN  IF Read(Upper("NO_PROXY")) # {} THEN Read(Upper("NO_PROXY"))
        ELSE Read(Lower("NO_PROXY"))

\* A pattern without a leading dot means the host and every name below it; a
\* trailing dot of the host is kept, so that nothing but * means it.
GoCovers(p, h) ==
    \/ p = Star
    \/ /\ p.port \in {"", h.port} /\ ~h.dot
       /\ \/ ~p.sub /\ h.name = p.name
          \/ \E k \in 1 .. Len(h.name) - 1 : SubSeq(h.name, k + 1, Len(h.name)) = p.name

SkipsProxy(env, h) == \E p \in NoProxyOf(env) : GoCovers(p, h)

-----------------------------------------------------------------------------
(* Properties *)

\* Types of the variables, Routing's among them.
ChildTypeOK ==
    /\ TypeOK
    /\ flag \subseteq SUBSET Items /\ envvar \subseteq Items
    /\ parent \in Environments
    /\ child # <<>> =>
        /\ DOMAIN child \subseteq ParentVars \union {Upper(k) : k \in Overrides} \union Both("NO_PROXY")
        /\ \A v \in DOMAIN child :
            child[v].from \in {"parent", "ours"} /\ child[v].list \subseteq Patterns

\* README.md:360-366: whatever the parent has set, and however it is spelled,
\* the child has one value of each variable that leads it to the proxy and
\* makes it trust the proxy, and everything else from the parent.
EnvironmentMerged ==
    child # <<>> =>
        /\ \A v \in DOMAIN child : child[v].from = "ours" <=> v.key \in Overrides
        /\ \A k \in ProxyKeys : {v \in DOMAIN child : v.key = k} = {Upper(k)}
        /\ \A v \in DOMAIN parent : v.key \notin Overrides =>
            v \in DOMAIN child /\ child[v] = parent[v]

\* What the operator ordered, and what the parent's NO_PROXY names.
Ordered == {i.pat : i \in IF flag # {} THEN UNION flag ELSE envvar}
Named == UNION {parent[v].list : v \in DOMAIN parent \intersect Both("NO_PROXY")}

\* README.md:366, 370: the patterns the operator gave, however spelled and on
\* whichever way, are the proxy's, and those and the parent's are what a child
\* is told; a host that the proxy bypasses does not come to it, except under
\* a trailing dot.
PatternsReachBothSides ==
    child # <<>> =>
        /\ NoProxyOf(child) = Ordered \union Named
        /\ \A t \in Targets :
            /\ Match(bypass, t) <=> \E p \in Ordered : Covers(p, t)
            /\ Match(bypass, t) => SkipsProxy(child, t) \/ t.dot

\* README.md:370: a pattern means the same to the proxy and to a child it is
\* merged for, who goes past the proxy to no host that gets a token, unless
\* its parent had named it.
SkipsOnlyBypassed ==
    child # <<>> => \A t \in Targets :
        SkipsProxy(child, t) => Match(bypass, t) \/ \E p \in Named : GoCovers(p, t)
=============================================================================
