--------------------------- MODULE LeafCacheAtomic ---------------------------
(***************************************************************************)
(* What ca.Cache promises its callers (internal/ca/certs.go:18-20, 33-38): *)
(* GetOrCreate behaves as if it ran in one step.  A caller that asks for a *)
(* hostname is answered with the leaf of that hostname, or, when there is  *)
(* none yet, makes it or fails.  A failure leaves no trace.                *)
(***************************************************************************)
CONSTANTS
    Callers,  \* goroutines, each of which calls GetOrCreate once
    Hosts,    \* hostnames
    Nobody,   \* no leaf, no answer
    Failed,   \* the error return
    NoHost    \* the caller has not called yet

VARIABLES
    host,     \* the hostname a caller asked for
    certs,    \* the leaf of each hostname, named by the caller who made it
    ret       \* what the caller was answered

vars == <<host, certs, ret>>

Init ==
    /\ host = [c \in Callers |-> NoHost]
    /\ certs = [h \in Hosts |-> Nobody]
    /\ ret = [c \in Callers |-> Nobody]

Pending(c) == host[c] # NoHost /\ ret[c] = Nobody

Call(c) ==
    /\ host[c] = NoHost
    /\ \E h \in Hosts : host' = [host EXCEPT ![c] = h]
    /\ UNCHANGED <<certs, ret>>

Hit(c) ==
    /\ Pending(c)
    /\ certs[host[c]] # Nobody
    /\ ret' = [ret EXCEPT ![c] = certs[host[c]]]
    /\ UNCHANGED <<host, certs>>

Create(c) ==
    /\ Pending(c)
    /\ certs[host[c]] = Nobody
    /\ certs' = [certs EXCEPT ![host[c]] = c]
    /\ ret' = [ret EXCEPT ![c] = c]
    /\ UNCHANGED host

Fail(c) ==
    /\ Pending(c)
    /\ certs[host[c]] = Nobody
    /\ ret' = [ret EXCEPT ![c] = Failed]
    /\ UNCHANGED <<host, certs>>

Answer(c) == Hit(c) \/ Create(c) \/ Fail(c)

Next == \E c \in Callers : Call(c) \/ Answer(c)

SafeSpec == Init /\ [][Next]_vars

Spec == SafeSpec /\ \A c \in Callers : WF_vars(Answer(c))
=============================================================================
