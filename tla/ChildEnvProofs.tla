--------------------------- MODULE ChildEnvProofs ---------------------------
(***************************************************************************)
(* Proofs about ChildEnv, for any hosts, patterns and parent environments. *)
(* ChildEnv's steps are Routing's or leave its state alone, so that what   *)
(* RoutingProofs shows of Routing holds here too.                          *)
(***************************************************************************)
EXTENDS ChildEnv, RoutingProofs

LEMMA ChildInitIsInit == ChildInit => Init
  BY DEF ChildInit

LEMMA ChildStepIsStep == [ChildNext]_childVars => [Next]_vars
<1>1. ASSUME Prepare PROVE Next
  BY <1>1 DEF Prepare, Next
<1>2. ASSUME StartChild PROVE UNCHANGED vars
  BY <1>2 DEF StartChild
<1>3. ASSUME RoutingStep PROVE Next
  BY <1>3 DEF RoutingStep, Next
<1>4. ASSUME UNCHANGED childVars PROVE UNCHANGED vars
  BY <1>4 DEF childVars
<1>5. QED
  BY <1>1, <1>2, <1>3, <1>4 DEF ChildNext

-----------------------------------------------------------------------------
(* The inductive invariant: from Prepare on the patterns are what the       *)
(* operator said, and the child has what BuildChildEnv made of them.        *)

InputsInv ==
    /\ flag \subseteq SUBSET Items /\ envvar \subseteq Items
    /\ parent \in Environments

PatternsInv ==
    /\ phase = "serve" => bypass = SplitHostList(BypassHosts(flag, envvar))
    /\ child # <<>> => phase = "serve" /\ child = BuildChildEnv(parent, bypass)

CInv == InputsInv /\ PatternsInv

LEMMA InitCInv == ChildInit => CInv
<1> SUFFICES ASSUME ChildInit PROVE CInv
  OBVIOUS
<1>1. <<>> \in Environments
  <2>1. PICK l \in [Both("NO_PROXY") -> SUBSET Patterns] : TRUE
    <3>1. [v \in Both("NO_PROXY") |-> {}] \in [Both("NO_PROXY") -> SUBSET Patterns]
      OBVIOUS
    <3>2. QED
      BY <3>1
  <2>2. <<>> = Environment({}, l)
    BY DEF Environment
  <2>3. QED
    BY <2>1, <2>2 DEF Environments
<1>2. QED
  BY <1>1 DEF ChildInit, Init, CInv, InputsInv, PatternsInv

LEMMA NextCInv == CInv /\ [ChildNext]_childVars => CInv'
<1> SUFFICES ASSUME CInv, [ChildNext]_childVars PROVE CInv'
  OBVIOUS
<1>1. CASE Prepare
  <2>1. PICK lists \in {{}} \union {{list} : list \in ShortLists}, list \in ShortLists,
             env \in SmallEnvironments :
          /\ flag' = lists /\ envvar' = list /\ parent' = env
          /\ bypass' = SplitHostList(BypassHosts(lists, list))
    BY <1>1 DEF Prepare
  <2>2. lists \subseteq SUBSET Items /\ list \subseteq Items /\ env \in Environments
    BY <2>1 DEF ShortLists, SmallEnvironments
  <2>3. child = <<>> /\ child' = <<>>
    BY <1>1 DEF Prepare, CInv, PatternsInv
  <2>4. QED
    BY <2>1, <2>2, <2>3 DEF CInv, InputsInv, PatternsInv
<1>2. CASE StartChild
  BY <1>2 DEF StartChild, vars, inputs, CInv, InputsInv, PatternsInv
<1>3. CASE RoutingStep /\ UNCHANGED <<inputs, child>>
  <2>1. phase = "serve" => phase' = "serve" /\ bypass' = bypass
    BY <1>3 DEF RoutingStep, Load, LoadFails, Refuse, Refused, ServeConnect, ServeOther, Sources, vars
  <2>2. phase' = "serve" => phase = "serve"
    BY <1>3 DEF RoutingStep, Load, LoadFails, Refuse, Refused, ServeConnect, ServeOther,
                Sources, After, vars
  <2>3. QED
    BY <1>3, <2>1, <2>2 DEF inputs, CInv, InputsInv, PatternsInv
<1>4. CASE UNCHANGED childVars
  BY <1>4 DEF childVars, vars, inputs, CInv, InputsInv, PatternsInv
<1>5. QED
  BY <1>1, <1>2, <1>3, <1>4 DEF ChildNext

LEMMA ChildInvariance == ChildSpec => [](IInv /\ CInv)
<1>1. ChildSpec => []CInv
  BY InitCInv, NextCInv, PTL DEF ChildSpec
<1>2. ChildSpec => Spec
  BY ChildInitIsInit, ChildStepIsStep, PTL DEF ChildSpec, Spec
<1>3. QED
  BY <1>1, <1>2, Invariance, PTL

-----------------------------------------------------------------------------
(* Lemmas about the operators *)

LEMMA EnvironmentsProperties ==
  ASSUME NEW e \in Environments
  PROVE  /\ e = [v \in DOMAIN e |-> e[v]]
         /\ DOMAIN e \subseteq ParentVars
         /\ \A v \in DOMAIN e : /\ v \in Both(v.key)
                                /\ e[v].from = "parent" /\ e[v].list \subseteq Patterns
<1>1. PICK V \in SUBSET ParentVars, l \in [Both("NO_PROXY") -> SUBSET Patterns] :
        e = Environment(V, l)
  BY DEF Environments
<1>2. \A v \in V : v \in Both(v.key)
  BY ChildEnvAssumption
<1>3. \A v \in V : v.key = "NO_PROXY" => v \in Both("NO_PROXY") /\ l[v] \subseteq Patterns
  BY <1>2
<1>4. e = [v \in DOMAIN e |-> e[v]] /\ DOMAIN e = V /\ \A v \in V : e[v].from = "parent"
  BY <1>1 DEF Environment
<1>5. \A v \in V : e[v].list \subseteq Patterns
  <2> SUFFICES ASSUME NEW v \in V PROVE e[v].list \subseteq Patterns
    OBVIOUS
  <2>1. CASE v.key = "NO_PROXY"
    <3>1. e[v].list = l[v]
      BY <1>1, <2>1 DEF Environment
    <3>2. QED
      BY <1>3, <2>1, <3>1
  <2>2. CASE v.key # "NO_PROXY"
    <3>1. e[v].list = {}
      BY <1>1, <2>2 DEF Environment
    <3>2. QED
      BY <3>1
  <2>3. QED
    BY <2>1, <2>2
<1>6. QED
  BY <1>2, <1>4, <1>5

LEMMA PatternsSaid ==
  ASSUME CInv PROVE SplitHostList(BypassHosts(flag, envvar)) \subseteq Patterns
  BY DEF CInv, InputsInv, SplitHostList, BypassHosts, Items

LEMMA ParentNoProxyProperties ==
  ASSUME NEW e \in Environments
  PROVE  /\ ParentNoProxy(e) \subseteq Patterns
         /\ ParentNoProxy(e) = UNION {e[v].list : v \in DOMAIN e \intersect Both("NO_PROXY")}
<1>1. \A v \in DOMAIN e : v.key = "NO_PROXY" <=> v \in Both("NO_PROXY")
  BY EnvironmentsProperties DEF Both
<1>2. {w \in DOMAIN e : w.key = "NO_PROXY"} = DOMAIN e \intersect Both("NO_PROXY")
  BY <1>1
<1>3. QED
  BY <1>2, EnvironmentsProperties DEF ParentNoProxy

\* The child while there is one.
LEMMA ChildProperties ==
  ASSUME IInv, CInv, child # <<>>
  PROVE  /\ child = BuildChildEnv(parent, bypass)
         /\ parent \in Environments /\ bypass \in SUBSET Patterns
         /\ bypass = SplitHostList(BypassHosts(flag, envvar))
  BY DEF CInv, InputsInv, PatternsInv, IInv, TypeOK

\* The variables of the child, one by one.
Merged == MergeNoProxy(parent, bypass)

LEMMA ChildParts ==
  ASSUME IInv, CInv, child # <<>>
  PROVE  /\ DOMAIN child = Kept(parent) \union Ours \union NoProxyVars(Merged)
         /\ Merged \subseteq Patterns
         /\ \A v \in Kept(parent) :
                child[v] = parent[v] /\ v.key \notin Overrides
                /\ v \in ParentVars /\ parent[v].from = "parent" /\ parent[v].list \subseteq Patterns
         /\ \A v \in Ours : child[v] = [from |-> "ours", list |-> {}] /\ v.key \in ProxyKeys
         /\ \A v \in NoProxyVars(Merged) :
                child[v] = [from |-> "ours", list |-> Merged]
                /\ v.key = "NO_PROXY" /\ v \in Both("NO_PROXY")
<1>1. \A v \in Kept(parent) : /\ v.key \notin Overrides /\ v \in ParentVars
                        /\ parent[v].from = "parent" /\ parent[v].list \subseteq Patterns
  BY ChildProperties, EnvironmentsProperties DEF Kept
<1>2. \A v \in Ours : v.key \in ProxyKeys
  BY DEF Ours, Upper
<1>3. \A v \in NoProxyVars(Merged) : v.key = "NO_PROXY" /\ v \in Both("NO_PROXY")
  BY DEF NoProxyVars, Both
<1>4. /\ \A v \in Ours : v \notin Kept(parent) /\ v \notin NoProxyVars(Merged)
      /\ \A v \in NoProxyVars(Merged) : v \notin Kept(parent)
  BY <1>1, <1>2, <1>3 DEF Overrides, ProxyKeys
<1>5. child = [v \in Kept(parent) \union Ours \union NoProxyVars(Merged) |->
              IF v \in Kept(parent) THEN parent[v]
              ELSE [from |-> "ours", list |-> IF v \in NoProxyVars(Merged) THEN Merged ELSE {}]]
  BY ChildProperties DEF BuildChildEnv, Merged
<1>6. /\ DOMAIN child = Kept(parent) \union Ours \union NoProxyVars(Merged)
      /\ \A v \in Kept(parent) : child[v] = parent[v]
      /\ \A v \in Ours : child[v] = [from |-> "ours", list |-> {}]
      /\ \A v \in NoProxyVars(Merged) : child[v] = [from |-> "ours", list |-> Merged]
  BY <1>4, <1>5
<1>7. Merged \subseteq Patterns
  BY ChildProperties, ParentNoProxyProperties DEF MergeNoProxy, Merged
<1>8. QED
  BY <1>1, <1>2, <1>3, <1>6, <1>7

-----------------------------------------------------------------------------
(* Theorems *)

\* ChildEnv implements Routing: what is shown of the store, the patterns and
\* the routes holds with the operator's lists and a child (main.go:384-389,
\* process.go:142-212).
THEOREM ImplementsRouting == ChildSpec => Spec
  BY ChildInitIsInit, ChildStepIsStep, PTL DEF ChildSpec, Spec

\* Types of ChildEnv's variables (process.go:142-187).
THEOREM ChildTypeCorrect == ChildSpec => []ChildTypeOK
<1>1. IInv /\ CInv => ChildTypeOK
  <2> SUFFICES ASSUME IInv, CInv, child # <<>>
               PROVE  /\ DOMAIN child \subseteq
                            ParentVars \union {Upper(k) : k \in Overrides} \union Both("NO_PROXY")
                      /\ \A v \in DOMAIN child :
                            child[v].from \in {"parent", "ours"} /\ child[v].list \subseteq Patterns
    BY DEF IInv, CInv, InputsInv, ChildTypeOK
  <2>2. /\ DOMAIN child = Kept(parent) \union Ours \union NoProxyVars(Merged)
        /\ Merged \subseteq Patterns
        /\ \A v \in Kept(parent) :
                child[v] = parent[v] /\ v \in ParentVars
                /\ parent[v].from = "parent" /\ parent[v].list \subseteq Patterns
        /\ \A v \in Ours : child[v] = [from |-> "ours", list |-> {}]
        /\ \A v \in NoProxyVars(Merged) :
                child[v] = [from |-> "ours", list |-> Merged] /\ v \in Both("NO_PROXY")
    BY ChildParts
  <2>3. Ours \subseteq {Upper(k) : k \in Overrides}
    BY DEF Ours, Overrides
  <2>4. QED
    BY <2>2, <2>3
<1>2. QED
  BY <1>1, ChildInvariance, PTL

\* The child is led to the proxy and trusts it whatever its parent has set,
\* and loses nothing else (process.go:142-187).
THEOREM ChildEnvMerged == ChildSpec => []EnvironmentMerged
<1>1. IInv /\ CInv => EnvironmentMerged
  <2> SUFFICES ASSUME IInv, CInv, child # <<>> PROVE EnvironmentMerged
    BY DEF EnvironmentMerged
  <2>2. /\ DOMAIN child = Kept(parent) \union Ours \union NoProxyVars(Merged)
        /\ \A v \in Kept(parent) :
                child[v] = parent[v] /\ v.key \notin Overrides /\ parent[v].from = "parent"
        /\ \A v \in Ours : child[v] = [from |-> "ours", list |-> {}] /\ v.key \in ProxyKeys
        /\ \A v \in NoProxyVars(Merged) :
                child[v] = [from |-> "ours", list |-> Merged] /\ v.key = "NO_PROXY"
    BY ChildParts
  <2>3. \A v \in DOMAIN child : child[v].from = "ours" <=> v.key \in Overrides
    <3>1. \A v \in Kept(parent) : child[v].from # "ours" /\ v.key \notin Overrides
      BY <2>2
    <3>2. \A v \in Ours \union NoProxyVars(Merged) : child[v].from = "ours" /\ v.key \in Overrides
      BY <2>2 DEF Overrides
    <3>3. QED
      BY <2>2, <3>1, <3>2
  <2>4. \A k \in ProxyKeys : {v \in DOMAIN child : v.key = k} = {Upper(k)}
    <3> SUFFICES ASSUME NEW k \in ProxyKeys PROVE {v \in DOMAIN child : v.key = k} = {Upper(k)}
      OBVIOUS
    <3>1. Upper(k) \in Ours /\ Upper(k).key = k /\ \A v \in Ours : v.key = k => v = Upper(k)
      <4>1. \A j : Upper(j).key = j
        BY DEF Upper
      <4>2. QED
        BY <4>1 DEF Ours
    <3>2. k \in Overrides /\ k # "NO_PROXY"
      BY DEF Overrides, ProxyKeys
    <3>3. \A v \in Kept(parent) \union NoProxyVars(Merged) : v.key # k
      BY <2>2, <3>2
    <3>4. QED
      BY <2>2, <3>1, <3>3
  <2>5. \A v \in DOMAIN parent : v.key \notin Overrides => v \in Kept(parent)
    BY DEF Kept
  <2>6. QED
    BY <2>2, <2>3, <2>4, <2>5 DEF EnvironmentMerged
<1>2. QED
  BY <1>1, ChildInvariance, PTL

\* A child in Go reads the patterns at the proxy and those of its parent.
LEMMA ChildReads ==
  ASSUME IInv, CInv, child # <<>>
  PROVE  NoProxyOf(child) = bypass \union ParentNoProxy(parent)
<1>2. /\ DOMAIN child = Kept(parent) \union Ours \union NoProxyVars(Merged)
      /\ \A v \in Kept(parent) : v.key \notin Overrides
      /\ \A v \in Ours : v.key \in ProxyKeys
      /\ \A v \in NoProxyVars(Merged) : child[v] = [from |-> "ours", list |-> Merged]
  BY ChildParts
<1>3. /\ Upper("NO_PROXY") \in Both("NO_PROXY") /\ Upper("NO_PROXY").key = "NO_PROXY"
      /\ Lower("NO_PROXY") \in Both("NO_PROXY") /\ Lower("NO_PROXY").key = "NO_PROXY"
  BY DEF Upper, Lower, Both
<1>4. CASE Merged # {}
  <2>1. Upper("NO_PROXY") \in NoProxyVars(Merged)
    BY <1>3, <1>4 DEF NoProxyVars
  <2>2. Upper("NO_PROXY") \in DOMAIN child /\ child[Upper("NO_PROXY")].list = Merged
    BY <1>2, <2>1
  <2>3. QED
    BY <1>4, <2>2 DEF NoProxyOf, MergeNoProxy, Merged
<1>5. CASE Merged = {}
  <2>1. NoProxyVars(Merged) = {}
    BY <1>5 DEF NoProxyVars
  <2>2. Upper("NO_PROXY") \notin DOMAIN child /\ Lower("NO_PROXY") \notin DOMAIN child
    BY <1>2, <1>3, <2>1 DEF Overrides, ProxyKeys
  <2>3. QED
    BY <1>5, <2>2 DEF NoProxyOf, MergeNoProxy, Merged
<1>6. QED
  BY <1>4, <1>5

\* What the proxy and the child hold are the operator's patterns and, in the
\* child, the parent's.
LEMMA PatternsHeld ==
  ASSUME IInv, CInv, child # <<>>
  PROVE  /\ bypass = Ordered /\ bypass \in SUBSET Patterns
         /\ NoProxyOf(child) = Ordered \union Named
<1>1. bypass = Ordered /\ bypass \in SUBSET Patterns
  BY ChildProperties DEF SplitHostList, BypassHosts, Ordered
<1>2. NoProxyOf(child) = Ordered \union Named
  BY <1>1, ChildProperties, ChildReads, ParentNoProxyProperties DEF Named
<1>3. QED
  BY <1>1, <1>2

\* The operator's patterns, all of them and no others, come to the proxy, and
\* with the parent's to the child, which does not ask the proxy for what that
\* would bypass (bypass.go:34-88, process.go:142-212).
THEOREM PatternsPassedOn == ChildSpec => []PatternsReachBothSides
<1>1. IInv /\ CInv => PatternsReachBothSides
  <2> SUFFICES ASSUME IInv, CInv, child # <<>> PROVE PatternsReachBothSides
    BY DEF PatternsReachBothSides
  <2>1. ASSUME NEW t \in Targets
        PROVE  /\ Match(bypass, t) <=> \E p \in Ordered : Covers(p, t)
               /\ Match(bypass, t) => SkipsProxy(child, t) \/ t.dot
    <3>1. Match(bypass, t) <=> \E p \in Ordered : Covers(p, t)
      BY PatternsHeld, MatchIsCovers
    <3>2. \A p \in Ordered : Covers(p, t) => GoCovers(p, t) \/ t.dot
      BY DEF Covers, GoCovers
    <3>3. QED
      BY <3>1, <3>2, PatternsHeld DEF SkipsProxy
  <2>2. QED
    BY <2>1, PatternsHeld DEF PatternsReachBothSides
<1>2. QED
  BY <1>1, ChildInvariance, PTL

-----------------------------------------------------------------------------
(* How far SkipsOnlyBypassed fails: no further than the run shows.          *)

\* A name strictly below that of a pattern that is exact to the proxy.
BelowExact(p, h) ==
    /\ ~p.sub
    /\ \E k \in 1 .. Len(h.name) - 1 : SubSeq(h.name, k + 1, Len(h.name)) = p.name

SkipsBelowExactOnly ==
    child # <<>> => \A t \in Targets :
        SkipsProxy(child, t) =>
            \/ Match(bypass, t)
            \/ \E p \in Named : GoCovers(p, t)
            \/ \E p \in Ordered : BelowExact(p, t)

\* process.go:185-212: a child that goes past the proxy to a host that the
\* proxy would give a token to, and that its parent did not name, goes to one
\* below a host given without a dot, and for no other pattern of the operator.
THEOREM OnlyBelowExactHosts == ChildSpec => []SkipsBelowExactOnly
<1>1. IInv /\ CInv => SkipsBelowExactOnly
  <2> SUFFICES ASSUME IInv, CInv, child # <<>>, NEW t \in Targets,
                      NEW p \in Ordered, GoCovers(p, t), ~ BelowExact(p, t)
               PROVE  Match(bypass, t)
    BY PatternsHeld DEF SkipsBelowExactOnly, SkipsProxy
  <2>1. Covers(p, t)
    BY DEF Covers, GoCovers, BelowExact
  <2>2. QED
    BY <2>1, PatternsHeld, MatchIsCovers
<1>2. QED
  BY <1>1, ChildInvariance, PTL
=============================================================================
