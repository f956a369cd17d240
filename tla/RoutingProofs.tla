--------------------------- MODULE RoutingProofs ---------------------------
(***************************************************************************)
(* Proofs about Routing, for any hosts, tokens and patterns and any number *)
(* of entries in each source.                                              *)
(***************************************************************************)
EXTENDS Routing, SequenceTheorems, TLAPS

-----------------------------------------------------------------------------
(* Lemmas about the operators. *)

\* Bypass.Match decides what the patterns mean.
LEMMA MatchIsCovers ==
  ASSUME NEW ps \in SUBSET Patterns, NEW h \in Targets
  PROVE  Match(ps, h) <=> \E p \in ps : Covers(p, h)
<1>1. ASSUME NEW p \in ps
      PROVE  NameMatches(p, h.name) <=>
                \/ ~p.sub /\ h.name = p.name
                \/ p.sub /\ \E k \in 1 .. Len(h.name) - 1 :
                                SubSeq(h.name, k + 1, Len(h.name)) = p.name
  <2> DEFINE n == Len(h.name)
             m == Len(p.name)
  <2>1. /\ h.name \in Seq(STRING) /\ p.name \in Seq(STRING) /\ p.sub \in BOOLEAN
        /\ n \in Nat /\ m \in Nat /\ m >= 1
    BY RoutingAssumption, EmptySeq, LenProperties DEF Names
  <2>2. CASE ~p.sub
    BY <2>1, <2>2 DEF NameMatches
  <2>3. CASE p.sub
    <3>1. ASSUME NameMatches(p, h.name)
          PROVE  \E k \in 1 .. n - 1 : SubSeq(h.name, k + 1, n) = p.name
      <4>1. n - m \in 1 .. n - 1
        <5>1. n > m
          BY <2>3, <3>1 DEF NameMatches
        <5> HIDE DEF n, m
        <5>2. QED
          BY <2>1, <5>1
      <4>2. SubSeq(h.name, (n - m) + 1, n) = p.name
        BY <2>3, <3>1 DEF NameMatches
      <4>3. QED
        BY <4>1, <4>2
    <3>2. ASSUME NEW k \in 1 .. n - 1, SubSeq(h.name, k + 1, n) = p.name
          PROVE  NameMatches(p, h.name)
      <4>1. m = n - k
        <5>1. Len(SubSeq(h.name, k + 1, n)) = n - (k + 1) + 1
          <6>1. \A i \in k + 1 .. n : h.name[i] \in STRING
            BY <2>1, <3>2
          <6>2. k + 1 \in Int /\ n \in Int /\ k + 1 <= n
            BY <2>1, <3>2
          <6>3. QED
            BY <6>1, <6>2, SubSeqProperties
        <5>2. m = n - (k + 1) + 1
          BY <3>2, <5>1
        <5> HIDE DEF n, m
        <5>3. QED
          BY <2>1, <3>2, <5>2
      <4>2. n - m + 1 = k + 1 /\ n > m
        BY <2>1, <3>2, <4>1
      <4>3. QED
        BY <2>3, <3>2, <4>2 DEF NameMatches
    <3>3. QED
      BY <2>3, <3>1, <3>2
  <2>4. QED
    BY <2>1, <2>2, <2>3
<1>2. QED
  BY <1>1 DEF Match, Covers, PortMatches

\* A reading of a list gives each host it names a token that the list gives it.
LEMMA ReadingsProperties ==
  ASSUME NEW s \in Sources, NEW list \in Lists(s), NEW m \in Readings(list)
  PROVE  /\ m \in [HostsOf(list) -> Tokens]
         /\ HostsOf(list) \subseteq CredHosts
         /\ \A h \in HostsOf(list) : \E i \in DOMAIN list :
                list[i].host = h /\ list[i].token = m[h]
<1>1. PICK n \in 0 .. MaxEntries[s] : list \in [1 .. n -> Entry(s)]
  BY DEF Lists
<1>2. HostsOf(list) \subseteq CredHosts
  BY <1>1 DEF HostsOf, Entry
<1>3. QED
  BY <1>2 DEF Readings

-----------------------------------------------------------------------------
(* The inductive invariant. *)

\* Sources are read in the order of their ranks.
UnreadInv ==
    \A s \in Sources :
        phase \in Sources /\ Rank[s] >= Rank[phase] => given[s] = <<>>

\* What HighestPriorityWins says of the end holds after every source.
Naming(h) == {s \in Sources : h \in HostsOf(given[s])}

Gives(s, h, token) ==
    \E i \in DOMAIN given[s] : given[s][i].host = h /\ given[s][i].token = token

StoreInv ==
    \A h \in CredHosts :
        /\ h \in DOMAIN store <=> \E s \in Sources : h \in HostsOf(given[s])
        /\ \A s \in Sources :
            /\ h \in HostsOf(given[s])
            /\ \A r \in Sources : h \in HostsOf(given[r]) => Rank[r] <= Rank[s]
            => Gives(s, h, store[h])

\* Nothing is routed before the store and the patterns are final.
RouteInv ==
    /\ phase # "serve" => route = NoRoute
    /\ BypassHonoured /\ TokenForItsHost

IInv == TypeOK /\ UnreadInv /\ StoreInv /\ RouteInv

LEMMA EmptyList ==
  ASSUME NEW s \in Sources
  PROVE  <<>> \in Lists(s) /\ HostsOf(<<>>) = {}
<1>1. <<>> \in [1 .. 0 -> Entry(s)]
  OBVIOUS
<1>2. 0 \in 0 .. MaxEntries[s]
  BY RoutingAssumption
<1>3. QED
  BY <1>1, <1>2 DEF Lists, HostsOf

LEMMA InitIInv == Init => IInv
<1> SUFFICES ASSUME Init PROVE IInv
  OBVIOUS
<1> USE DEF Init
<1>1. TypeOK
  BY EmptyList DEF TypeOK, Sources
<1>2. UnreadInv
  BY DEF UnreadInv
<1>3. StoreInv
  BY EmptyList DEF StoreInv
<1>4. RouteInv
  BY DEF RouteInv, BypassHonoured, TokenForItsHost, NoRoute
<1>5. QED
  BY <1>1, <1>2, <1>3, <1>4 DEF IInv

LEMMA LoadStep ==
  ASSUME IInv, NEW s \in Sources, Load(s) PROVE IInv'
<1>1. PICK list \in Lists(s) :
        /\ given' = [given EXCEPT ![s] = list]
        /\ \E m \in Readings(list) : store' = SetAll(store, m)
  BY DEF Load
<1>2. PICK m \in Readings(list) : store' = SetAll(store, m)
  BY <1>1
<1>3. /\ m \in [HostsOf(list) -> Tokens]
      /\ HostsOf(list) \subseteq CredHosts
      /\ \A h \in HostsOf(list) : \E i \in DOMAIN list :
             list[i].host = h /\ list[i].token = m[h]
  BY ReadingsProperties
<1>4. /\ phase = s /\ phase' = After[s] /\ phase' \in Sources \union {"trust"}
      /\ UNCHANGED <<bypass, warned, route>>
  BY DEF Load, After, Sources
<1>5. /\ \A r \in Sources : phase' \in Sources /\ Rank[r] >= Rank[phase'] =>
                            Rank[r] > Rank[s]
      /\ \A r \in Sources : Rank[r] \in Nat
      /\ \A r \in Sources : Rank[r] >= Rank[s] /\ r # s => Rank[r] > Rank[s]
  BY <1>4 DEF After, Rank, Sources
<1>6. /\ given'[s] = list
      /\ \A r \in Sources : r # s => given'[r] = given[r]
      /\ DOMAIN given' = Sources
  BY <1>1 DEF IInv, TypeOK
<1>7. /\ DOMAIN store' = DOMAIN store \union HostsOf(list)
      /\ \A h \in HostsOf(list) : store'[h] = m[h]
      /\ \A h \in DOMAIN store : h \notin HostsOf(list) => store'[h] = store[h]
  <2>1. DOMAIN m = HostsOf(list)
    BY <1>3
  <2>2. QED
    BY <1>2, <2>1 DEF SetAll
<1>8. TypeOK'
  <2>1. store' \in [DOMAIN store' -> Tokens] /\ DOMAIN store' \subseteq CredHosts
    <3>1. store' = [h \in DOMAIN store' |-> store'[h]]
      BY <1>2 DEF SetAll
    <3>2. \A h \in DOMAIN store' : store'[h] \in Tokens
      BY <1>3, <1>7 DEF IInv, TypeOK
    <3>3. QED
      BY <1>3, <1>7, <3>1, <3>2 DEF IInv, TypeOK
  <2>2. \A r \in Sources : given'[r] \in Lists(r)
    BY <1>6 DEF IInv, TypeOK
  <2>3. QED
    BY <1>4, <1>6, <2>1, <2>2 DEF IInv, TypeOK
<1>9. UnreadInv'
  BY <1>4, <1>5, <1>6 DEF IInv, UnreadInv
<1>10. StoreInv'
  <2> SUFFICES ASSUME NEW h \in CredHosts
               PROVE  /\ h \in DOMAIN store' <=> \E r \in Sources : h \in HostsOf(given'[r])
                      /\ \A r \in Sources :
                          /\ h \in HostsOf(given'[r])
                          /\ \A q \in Sources : h \in HostsOf(given'[q]) => Rank[q] <= Rank[r]
                          => Gives(r, h, store[h])'
    BY DEF StoreInv
  <2>1. given[s] = <<>> /\ HostsOf(given[s]) = {}
    BY <1>4, <1>5, EmptyList DEF IInv, UnreadInv
  <2>2. h \in DOMAIN store' <=> \E r \in Sources : h \in HostsOf(given'[r])
    BY <1>6, <1>7, <2>1 DEF IInv, StoreInv
  <2>3. ASSUME NEW r \in Sources, h \in HostsOf(given'[r]),
               \A q \in Sources : h \in HostsOf(given'[q]) => Rank[q] <= Rank[r]
        PROVE  Gives(r, h, store[h])'
    <3>1. CASE h \in HostsOf(list)
      <4>1. r = s
        <5>1. Rank[s] <= Rank[r]
          BY <1>6, <2>3, <3>1
        <5>2. r # s => given'[r] = <<>>
          BY <1>4, <1>5, <1>6, <5>1 DEF IInv, UnreadInv
        <5>3. QED
          BY <2>3, <5>2, EmptyList
      <4>2. QED
        BY <1>3, <1>6, <1>7, <3>1, <4>1 DEF Gives
    <3>2. CASE h \notin HostsOf(list)
      <4>1. r # s /\ given'[r] = given[r]
        BY <1>6, <2>3, <3>2
      <4>2. \A q \in Sources : h \in HostsOf(given[q]) => Rank[q] <= Rank[r]
        BY <1>6, <2>1, <2>3
      <4>3. Gives(r, h, store[h]) /\ h \in DOMAIN store
        BY <2>3, <4>1, <4>2 DEF IInv, StoreInv
      <4>4. QED
        BY <1>7, <3>2, <4>1, <4>3 DEF Gives
    <3>3. QED
      BY <3>1, <3>2
  <2>4. QED
    BY <2>2, <2>3
<1>11. RouteInv'
  <2>1. route = NoRoute /\ route' = NoRoute
    BY <1>4 DEF IInv, RouteInv, Sources
  <2>2. QED
    BY <2>1 DEF RouteInv, BypassHonoured, TokenForItsHost, NoRoute
<1>12. QED
  BY <1>8, <1>9, <1>10, <1>11 DEF IInv

LEMMA PrepareStep ==
  ASSUME IInv, (\E s \in Sources : LoadFails(s)) \/ Trust \/ Refuse PROVE IInv'
<1>1. /\ phase # "serve" /\ route = NoRoute /\ route' = NoRoute
      /\ UNCHANGED <<given, store>>
      /\ phase' \in {"serve", "refused"}
      /\ bypass' \subseteq Patterns
      /\ warned' \subseteq CredHosts
  BY DEF LoadFails, Trust, Refuse, IInv, RouteInv, TypeOK, Sources
<1>2. TypeOK'
  BY <1>1 DEF IInv, TypeOK
<1>3. UnreadInv'
  BY <1>1 DEF UnreadInv, Sources
<1>4. StoreInv'
  BY <1>1 DEF IInv, StoreInv, Gives
<1>5. RouteInv'
  BY <1>1 DEF RouteInv, BypassHonoured, TokenForItsHost, NoRoute
<1>6. QED
  BY <1>2, <1>3, <1>4, <1>5 DEF IInv

LEMMA ServeStep ==
  ASSUME IInv, (\E t \in Targets : ServeConnect(t)) \/ ServeOther PROVE IInv'
<1>1. phase = "serve" /\ UNCHANGED <<phase, given, store, bypass, warned>>
  BY DEF ServeConnect, ServeOther
<1>2. UnreadInv' /\ StoreInv'
  BY <1>1 DEF IInv, UnreadInv, StoreInv, Gives
<1>3. ASSUME NEW t \in Targets, ServeConnect(t) PROVE TypeOK' /\ RouteInv'
  <2>1. bypass \in SUBSET Patterns
    BY DEF IInv, TypeOK
  <2>2. Match(bypass, t) <=> \E p \in bypass : Covers(p, t)
    BY <2>1, MatchIsCovers
  <2>3. CASE Match(bypass, t) \/ Found(t) = {}
    <3>1. route' = [how |-> "tunnel", target |-> t]
      BY <1>3, <2>3 DEF ServeConnect
    <3>2. route'.how = "tunnel" /\ route'.target = t
      BY <3>1
    <3>3. TypeOK'
      BY <1>1, <3>1 DEF IInv, TypeOK
    <3>4. BypassHonoured' /\ TokenForItsHost'
      BY <1>1, <2>2, <2>3, <3>2 DEF BypassHonoured, TokenForItsHost, Found
    <3>5. QED
      BY <1>1, <3>3, <3>4 DEF RouteInv
  <2>4. CASE ~Match(bypass, t) /\ Found(t) # {}
    <3>1. route' = [how |-> "mitm", target |-> t, token |-> TokenOf(t)]
      BY <1>3, <2>4 DEF ServeConnect
    <3>2. route'.how = "mitm" /\ route'.target = t /\ route'.token = TokenOf(t)
      BY <3>1
    <3>3. TokenOf(t) \in Tokens
      BY <2>4 DEF TokenOf, Found, IInv, TypeOK
    <3>4. TypeOK'
      BY <1>1, <3>1, <3>3 DEF IInv, TypeOK
    <3>5. BypassHonoured'
      BY <1>1, <2>2, <2>4, <3>2 DEF BypassHonoured
    <3>6. TokenForItsHost'
      <4>1. CASE t \in DOMAIN store
        BY <1>1, <3>2, <4>1 DEF TokenForItsHost, TokenOf
      <4>2. CASE t \notin DOMAIN store
        <5>1. /\ Bare(t) \in DOMAIN store
              /\ TokenOf(t) = store[Bare(t)]
          BY <2>4, <4>2 DEF Found, TokenOf
        <5>2. /\ Bare(t).name = t.name /\ Bare(t).dot = t.dot /\ Bare(t).port = ""
              /\ \A g \in DOMAIN store : g # t
          BY <4>2 DEF Bare
        <5>3. QED
          BY <1>1, <3>2, <5>1, <5>2 DEF TokenForItsHost
      <4>3. QED
        BY <4>1, <4>2
    <3>7. QED
      BY <1>1, <3>4, <3>5, <3>6 DEF RouteInv
  <2>5. QED
    BY <2>3, <2>4
<1>4. ASSUME ServeOther PROVE TypeOK' /\ RouteInv'
  <2>1. route' = [how |-> "405"] /\ route'.how = "405"
    BY <1>4 DEF ServeOther
  <2>2. QED
    BY <1>1, <2>1 DEF IInv, TypeOK, RouteInv, BypassHonoured, TokenForItsHost
<1>5. QED
  BY <1>2, <1>3, <1>4 DEF IInv

LEMMA StutterStep ==
  ASSUME IInv, UNCHANGED vars PROVE IInv'
<1>1. TypeOK'
  BY DEF IInv, TypeOK, vars
<1>2. UnreadInv' /\ StoreInv'
  BY DEF IInv, UnreadInv, StoreInv, Gives, vars
<1>3. RouteInv'
  BY DEF IInv, RouteInv, BypassHonoured, TokenForItsHost, vars
<1>4. QED
  BY <1>1, <1>2, <1>3 DEF IInv

LEMMA NextIInv == IInv /\ [Next]_vars => IInv'
<1> SUFFICES ASSUME IInv, [Next]_vars PROVE IInv'
  OBVIOUS
<1>1. CASE Refused \/ UNCHANGED vars
  BY <1>1, StutterStep DEF Refused
<1>2. QED
  BY <1>1, LoadStep, PrepareStep, ServeStep DEF Next

LEMMA Invariance == Spec => []IInv
  BY InitIInv, NextIInv, PTL DEF Spec

-----------------------------------------------------------------------------
(* Theorems *)

\* Types of Routing's variables (parser.go, bypass.go, server.go:143-201).
THEOREM TypeCorrect == Spec => []TypeOK
  BY Invariance, PTL DEF IInv

\* A host's token is one its highest-priority source gives (parser.go:42-94).
THEOREM PriorityMerge == Spec => []HighestPriorityWins
<1>1. IInv => HighestPriorityWins
  BY DEF IInv, StoreInv, Gives, HighestPriorityWins
<1>2. QED
  BY <1>1, Invariance, PTL

\* No bypassed host is intercepted (server.go:161-169, bypass.go:34-67).
THEOREM BypassedNeverIntercepted == Spec => []BypassHonoured
  BY Invariance, PTL DEF IInv, RouteInv

\* Tokens go to their hosts only, the port's before the name's, and every host
\* with a token that is not bypassed gets it (server.go:171-200).
THEOREM TokensGoHome == Spec => []TokenForItsHost
  BY Invariance, PTL DEF IInv, RouteInv

\* A pattern for all ports matches every spelling of the name it matches.
LEMMA PortlessMatch ==
  ASSUME NEW p \in Patterns, NEW t \in Targets, NEW h,
         Covers(p, t), p.port = "", h.name = t.name
  PROVE  Match({p}, h)
<1>1. Match({p}, t)
  BY MatchIsCovers
<1>2. p = Star \/ NameMatches(p, t.name)
  BY <1>1 DEF Match
<1>3. NameMatches(p, t.name) => NameMatches(p, h.name)
  OBVIOUS
<1>4. QED
  BY <1>2, <1>3 DEF Match, PortMatches

\* The credential of a host bypassed for all ports is warned of, whatever
\* spelling a request has (main.go:338-343, server.go:161-175).
THEOREM BypassWarned == Spec => []WarnedUnlessByPort
<1> DEFINE WInv ==
      /\ bypass \subseteq Patterns
      /\ phase = "serve" => warned = {h \in DOMAIN store : Match(bypass, h)}
<1>1. Init => WInv
  BY DEF Init
<1>2. WInv /\ [Next]_vars => WInv'
  <2> SUFFICES ASSUME WInv, [Next]_vars PROVE WInv'
    OBVIOUS
  <2>1. ASSUME NEW s \in Sources, Load(s) \/ LoadFails(s) PROVE WInv'
    BY <2>1 DEF Load, LoadFails, After, Sources
  <2>2. CASE Trust
    <3>1. /\ bypass' \subseteq Patterns
          /\ warned' = {h \in DOMAIN store : Match(bypass', h)}
          /\ store' = store
      BY <2>2 DEF Trust
    <3>2. QED
      BY <3>1
  <2>3. CASE Refuse \/ Refused \/ UNCHANGED vars
    BY <2>3 DEF Refuse, Refused, vars
  <2>4. CASE (\E t \in Targets : ServeConnect(t)) \/ ServeOther
    BY <2>4 DEF ServeConnect, ServeOther
  <2>5. QED
    BY <2>1, <2>2, <2>3, <2>4 DEF Next
<1>3. WInv => WarnedUnlessByPort
  <2> SUFFICES ASSUME WInv, phase = "serve",
                      NEW t \in Targets,
                      NEW p \in bypass, Covers(p, t), p.port = "",
                      NEW h \in Found(t)
               PROVE  h \in warned
    BY DEF WarnedUnlessByPort
  <2>1. h \in DOMAIN store /\ h.name = t.name
    <3>1. Bare(t).name = t.name
      BY DEF Bare
    <3>2. h \in DOMAIN store /\ h \in {t, Bare(t)}
      BY DEF Found
    <3>3. QED
      BY <3>1, <3>2
  <2>2. Match({p}, h)
    BY <2>1, PortlessMatch
  <2>3. Match(bypass, h)
    BY <2>2 DEF Match
  <2>4. QED
    BY <2>1, <2>3
<1>4. QED
  BY <1>1, <1>2, <1>3, PTL DEF Spec
=============================================================================
