------------------------------ MODULE LeafCache ------------------------------
(***************************************************************************)
(* Cache.GetOrCreate (internal/ca/certs.go:39-64), one step per operation  *)
(* on the lock, on the map and on the certificate, run by one goroutine    *)
(* per intercepted connection (internal/proxy/mitm.go:46).  A goroutine    *)
(* calls it once, so a caller is a call, and the leaf it generates is      *)
(* named by the caller.                                                    *)
(*                                                                         *)
(* sync.RWMutex is external.  Its Lock is two steps, as its documentation  *)
(* requires: a blocked Lock call first keeps new readers out (Lock), then  *)
(* waits for the readers inside to leave (Drain).                          *)
(***************************************************************************)
EXTENDS FiniteSets

CONSTANTS
    Callers,  \* goroutines, each of which calls GetOrCreate once
    Hosts,    \* hostnames
    Nobody,   \* no leaf, no answer, no lock holder
    Failed,   \* the error return
    NoHost    \* the caller has not called yet

ASSUME LeafCacheAssumption ==
    /\ Nobody \notin Callers
    /\ Failed \notin Callers
    /\ Nobody # Failed
    /\ NoHost \notin Hosts

VARIABLES
    pc,       \* where each caller is
    host,     \* the hostname it asked for
    ret,      \* what it was answered
    readers,  \* the callers that hold the read lock
    writer,   \* the caller that holds, or is draining readers for, the write lock
    certs,    \* Cache.certs: the leaf of each hostname, named by its maker
    made      \* every <<hostname, caller>> for which a leaf was generated

lock == <<readers, writer>>
vars == <<pc, host, ret, lock, certs, made>>

Goto(c, from, to) ==
    /\ pc[c] = from
    /\ pc' = [pc EXCEPT ![c] = to]

Init ==
    /\ pc = [c \in Callers |-> "idle"]
    /\ host = [c \in Callers |-> NoHost]
    /\ ret = [c \in Callers |-> Nobody]
    /\ readers = {}
    /\ writer = Nobody
    /\ certs = [h \in Hosts |-> Nobody]
    /\ made = {}

-----------------------------------------------------------------------------
(* GetOrCreate.  The operators whose name says what they get wrong         *)
(* (RLockless, RecheckMissBlind, ...) are no part of Next: they are slips  *)
(* the properties below must tell apart from the code.                     *)

Call(c) ==
    /\ Goto(c, "idle", "rlock")
    /\ \E h \in Hosts : host' = [host EXCEPT ![c] = h]
    /\ UNCHANGED <<ret, lock, certs, made>>

RLockless(c) ==
    /\ Goto(c, "rlock", "fast")
    /\ UNCHANGED <<host, ret, lock, certs, made>>

RLock(c) ==
    /\ Goto(c, "rlock", "fast")
    /\ writer = Nobody
    /\ readers' = readers \union {c}
    /\ UNCHANGED <<host, ret, writer, certs, made>>

FastHit(c) ==
    /\ Goto(c, "fast", "done")
    /\ certs[host[c]] # Nobody
    /\ ret' = [ret EXCEPT ![c] = certs[host[c]]]
    /\ readers' = readers \ {c}
    /\ UNCHANGED <<host, writer, certs, made>>

FastMiss(c) ==
    /\ Goto(c, "fast", "lock")
    /\ certs[host[c]] = Nobody
    /\ readers' = readers \ {c}
    /\ UNCHANGED <<host, ret, writer, certs, made>>

Lock(c) ==
    /\ Goto(c, "lock", "drain")
    /\ writer = Nobody
    /\ writer' = c
    /\ UNCHANGED <<host, ret, readers, certs, made>>

Drain(c) ==
    /\ Goto(c, "drain", "recheck")
    /\ readers = {}
    /\ UNCHANGED <<host, ret, lock, certs, made>>

RecheckHit(c) ==
    /\ Goto(c, "recheck", "unlock")
    /\ certs[host[c]] # Nobody
    /\ ret' = [ret EXCEPT ![c] = certs[host[c]]]
    /\ UNCHANGED <<host, lock, certs, made>>

RecheckMissBlind(c) ==
    /\ Goto(c, "recheck", "generate")
    /\ UNCHANGED <<host, ret, lock, certs, made>>

RecheckMiss(c) ==
    /\ Goto(c, "recheck", "generate")
    /\ certs[host[c]] = Nobody
    /\ UNCHANGED <<host, ret, lock, certs, made>>

Generate(c) ==
    /\ Goto(c, "generate", "store")
    /\ made' = made \union {<<host[c], c>>}
    /\ UNCHANGED <<host, ret, lock, certs>>

GenerateFailsCached(c) ==
    /\ Goto(c, "generate", "unlock")
    /\ ret' = [ret EXCEPT ![c] = Failed]
    /\ certs' = [certs EXCEPT ![host[c]] = Failed]
    /\ UNCHANGED <<host, lock, made>>

GenerateFailsRetries(c) ==
    /\ Goto(c, "generate", "recheck")
    /\ UNCHANGED <<host, ret, lock, certs, made>>

GenerateFails(c) ==
    /\ Goto(c, "generate", "unlock")
    /\ ret' = [ret EXCEPT ![c] = Failed]
    /\ UNCHANGED <<host, lock, certs, made>>

StoreForgotten(c) ==
    /\ Goto(c, "store", "unlock")
    /\ ret' = [ret EXCEPT ![c] = c]
    /\ UNCHANGED <<host, lock, certs, made>>

Store(c) ==
    /\ Goto(c, "store", "unlock")
    /\ certs' = [certs EXCEPT ![host[c]] = c]
    /\ ret' = [ret EXCEPT ![c] = c]
    /\ UNCHANGED <<host, lock, made>>

\* The deferred Unlock of every slow-path return.
Unlock(c) ==
    /\ Goto(c, "unlock", "done")
    /\ writer' = Nobody
    /\ UNCHANGED <<host, ret, readers, certs, made>>

-----------------------------------------------------------------------------

Step(c) ==
    \/ RLock(c) \/ FastHit(c) \/ FastMiss(c)
    \/ Lock(c) \/ Drain(c) \/ RecheckHit(c) \/ RecheckMiss(c)
    \/ Generate(c) \/ GenerateFails(c) \/ Store(c) \/ Unlock(c)

\* Every call has returned: stuttering here is the end, not a deadlock.
AllReturned ==
    /\ \A c \in Callers : pc[c] = "done"
    /\ UNCHANGED vars

Next ==
    \/ \E c \in Callers : Call(c) \/ Step(c)
    \/ AllReturned

SafeSpec == Init /\ [][Next]_vars

\* The Go scheduler runs every goroutine that can run; nothing obliges a
\* goroutine to call.
Spec == SafeSpec /\ \A c \in Callers : WF_vars(Step(c))

-----------------------------------------------------------------------------
(* Properties *)

Places == {"idle", "rlock", "fast", "lock", "drain", "recheck", "generate",
           "store", "unlock", "done"}

\* Types of the variables; in particular an error is never cached.
TypeOK ==
    /\ pc \in [Callers -> Places]
    /\ host \in [Callers -> Hosts \union {NoHost}]
    /\ ret \in [Callers -> Callers \union {Nobody, Failed}]
    /\ readers \subseteq Callers
    /\ writer \in Callers \union {Nobody}
    /\ certs \in [Hosts -> Callers \union {Nobody}]
    /\ made \subseteq Hosts \X Callers

\* Cache.certs is a plain Go map: nobody reads or writes it while another
\* goroutine is at the assignment of certs.go:62.
NoConcurrentMapAccess ==
    \A c, d \in Callers :
        pc[c] = "store" /\ pc[d] \in {"fast", "recheck", "store"} => c = d

\* certs.go:37-38: only one certificate is generated per hostname, however
\* many connections to it race through the fast path before it is stored.
OneLeafPerHost ==
    \A m, n \in made : m[1] = n[1] => m = n

\* certs.go:39-64: every call returns, with a leaf or an error: no path leaves
\* the lock held or goes round for ever.
EveryCallReturns ==
    \A c \in Callers : pc[c] = "rlock" ~> pc[c] = "done"

Atomic == INSTANCE LeafCacheAtomic

\* Calls are linearizable: to its callers the double-checked lock is the
\* one-step cache of LeafCacheAtomic, and keeps answering.
ImplementsAtomic == Atomic!Spec
=============================================================================
