--------------------------- MODULE LeafCacheProofs ---------------------------
(***************************************************************************)
(* Proofs about LeafCache, for any number of connections and hostnames.    *)
(***************************************************************************)
EXTENDS Naturals, LeafCache, TLAPS

-----------------------------------------------------------------------------
(* The inductive invariant, in parts. *)

Slow == {"drain", "recheck", "generate", "store", "unlock"}
Inside == Slow \ {"drain"}

\* The lock excludes: whoever is past Lock is the writer, whoever is past
\* Drain is alone, and whoever is on the fast path is a reader.
LockInv ==
    \A c \in Callers :
        /\ pc[c] = "fast" => c \in readers
        /\ pc[c] \in Slow => writer = c
        /\ pc[c] \in Inside => readers = {}

\* A caller past Call asked for a hostname; it is answered on its way out.
CallInv ==
    \A c \in Callers :
        /\ pc[c] = "idle" <=> host[c] = NoHost
        /\ ret[c] # Nobody => pc[c] \in {"unlock", "done"}

\* The miss seen under the write lock still holds when the leaf is stored.
MissInv ==
    \A c \in Callers :
        pc[c] \in {"generate", "store"} => certs[host[c]] = Nobody

\* A generated leaf is in the map, or its maker is about to store it.
MadeInv ==
    \A m \in made :
        \/ certs[m[1]] = m[2]
        \/ pc[m[2]] = "store" /\ host[m[2]] = m[1]

IInv == TypeOK /\ LockInv /\ CallInv /\ MissInv /\ MadeInv

-----------------------------------------------------------------------------

\* The type invariant is inductive by itself, given that a caller asks for a
\* hostname before it does anything else.
LEMMA TypeStep == TypeOK /\ CallInv /\ [Next]_vars => TypeOK'
<1> SUFFICES ASSUME TypeOK, CallInv, [Next]_vars PROVE TypeOK'
  OBVIOUS
<1> USE LeafCacheAssumption DEF TypeOK, Places, Goto
<1>1. ASSUME NEW c \in Callers, Call(c) PROVE TypeOK'
  BY <1>1 DEF Call, lock
<1>2. ASSUME NEW c \in Callers, RLock(c) \/ Lock(c) \/ Drain(c) \/ Unlock(c)
      PROVE  TypeOK'
  BY <1>2 DEF RLock, Lock, Drain, Unlock, lock
<1>3. ASSUME NEW c \in Callers,
             FastHit(c) \/ FastMiss(c) \/ RecheckHit(c) \/ RecheckMiss(c)
      PROVE  TypeOK'
  BY <1>3 DEF CallInv, FastHit, FastMiss, RecheckHit, RecheckMiss, lock
<1>4. ASSUME NEW c \in Callers, Generate(c) \/ GenerateFails(c) \/ Store(c)
      PROVE  TypeOK'
  BY <1>4 DEF CallInv, Generate, GenerateFails, Store, lock
<1>5. CASE UNCHANGED vars
  BY <1>5 DEF vars, lock
<1>6. QED
  BY <1>1, <1>2, <1>3, <1>4, <1>5 DEF Next, Step, AllReturned

\* The write lock excludes readers and other writers.
LEMMA LockStep == TypeOK /\ LockInv /\ [Next]_vars => LockInv'
<1> SUFFICES ASSUME TypeOK, LockInv, [Next]_vars PROVE LockInv'
  OBVIOUS
<1> USE LeafCacheAssumption DEF TypeOK, LockInv, Slow, Inside, Goto
<1>1. ASSUME NEW c \in Callers, Call(c) PROVE LockInv'
  BY <1>1 DEF Call, lock
<1>2. ASSUME NEW c \in Callers, RLock(c) PROVE LockInv'
  BY <1>2 DEF RLock
<1>3. ASSUME NEW c \in Callers, FastHit(c) \/ FastMiss(c) PROVE LockInv'
  BY <1>3 DEF FastHit, FastMiss
<1>4. ASSUME NEW c \in Callers, Lock(c) PROVE LockInv'
  BY <1>4 DEF Lock
<1>5. ASSUME NEW c \in Callers, Drain(c) PROVE LockInv'
  BY <1>5 DEF Drain, lock
<1>6. ASSUME NEW c \in Callers, \/ RecheckHit(c) \/ RecheckMiss(c)
                                \/ Generate(c) \/ GenerateFails(c) \/ Store(c)
      PROVE  LockInv'
  BY <1>6 DEF RecheckHit, RecheckMiss, Generate, GenerateFails, Store, lock
<1>7. ASSUME NEW c \in Callers, Unlock(c) PROVE LockInv'
  BY <1>7 DEF Unlock
<1>8. CASE UNCHANGED vars
  BY <1>8 DEF vars, lock
<1>9. QED
  BY <1>1, <1>2, <1>3, <1>4, <1>5, <1>6, <1>7, <1>8 DEF Next, Step, AllReturned

\* A caller is answered only on its way out.
LEMMA CallStep == TypeOK /\ CallInv /\ [Next]_vars => CallInv'
<1> SUFFICES ASSUME TypeOK, CallInv, [Next]_vars PROVE CallInv'
  OBVIOUS
<1> USE LeafCacheAssumption DEF TypeOK, CallInv, Goto
<1>1. ASSUME NEW c \in Callers, Call(c) PROVE CallInv'
  BY <1>1 DEF Call
<1>2. ASSUME NEW c \in Callers, Step(c) PROVE CallInv'
  BY <1>2 DEF Step, RLock, FastHit, FastMiss, Lock, Drain, RecheckHit,
              RecheckMiss, Generate, GenerateFails, Store, Unlock
<1>3. CASE UNCHANGED vars
  BY <1>3 DEF vars
<1>4. QED
  BY <1>1, <1>2, <1>3 DEF Next, AllReturned

\* The map and the generated leaves.  Only Generate and Store touch them, and
\* both run alone under the write lock.
LEMMA CertsStep == IInv /\ [Next]_vars => MissInv' /\ MadeInv'
<1> SUFFICES ASSUME IInv, [Next]_vars PROVE MissInv' /\ MadeInv'
  OBVIOUS
<1> USE LeafCacheAssumption
    DEF IInv, TypeOK, LockInv, Slow, Inside, CallInv, MissInv, MadeInv, Goto
<1>1. ASSUME NEW c \in Callers, Call(c) PROVE MissInv' /\ MadeInv'
  BY <1>1 DEF Call
<1>2. ASSUME NEW c \in Callers,
             RLock(c) \/ FastHit(c) \/ FastMiss(c) \/ Lock(c) \/ Drain(c)
      PROVE  MissInv' /\ MadeInv'
  BY <1>2 DEF RLock, FastHit, FastMiss, Lock, Drain
<1>3. ASSUME NEW c \in Callers, RecheckHit(c) \/ RecheckMiss(c)
      PROVE  MissInv' /\ MadeInv'
  BY <1>3 DEF RecheckHit, RecheckMiss
<1>4. ASSUME NEW c \in Callers, Generate(c) PROVE MissInv' /\ MadeInv'
  BY <1>4 DEF Generate
<1>5. ASSUME NEW c \in Callers, GenerateFails(c) \/ Unlock(c)
      PROVE  MissInv' /\ MadeInv'
  BY <1>5 DEF GenerateFails, Unlock
<1>6. ASSUME NEW c \in Callers, Store(c) PROVE MissInv' /\ MadeInv'
  <2>1. \A d \in Callers \ {c} : pc[d] \notin {"generate", "store"}
    BY <1>6 DEF Store
  <2>2. MissInv'
    BY <1>6, <2>1 DEF Store
  <2>3. MadeInv'
    BY <1>6, <2>1 DEF Store
  <2>4. QED
    BY <2>2, <2>3
<1>7. CASE UNCHANGED vars
  BY <1>7 DEF vars
<1>8. QED
  BY <1>1, <1>2, <1>3, <1>4, <1>5, <1>6, <1>7 DEF Next, Step, AllReturned

-----------------------------------------------------------------------------

LEMMA InitIInv == Init => IInv
  BY LeafCacheAssumption
     DEF Init, IInv, TypeOK, Places, LockInv, CallInv, MissInv, MadeInv, Slow,
         Inside

LEMMA NextIInv == IInv /\ [Next]_vars => IInv'
  BY TypeStep, LockStep, CallStep, CertsStep DEF IInv

\* The inductive invariant holds in every behaviour of the code.
THEOREM Invariance == Spec => []IInv
<1>1. Init /\ [][Next]_vars => []IInv
  BY InitIInv, NextIInv, PTL
<1>2. QED
  BY <1>1, PTL DEF Spec, SafeSpec

\* Types: an error is never cached, whatever the interleaving.
THEOREM TypeCorrect == Spec => []TypeOK
<1>1. IInv => TypeOK
  BY DEF IInv
<1>2. QED
  BY <1>1, Invariance, PTL

\* certs.go:41-62: the map is never read or written while it is written.
THEOREM NoMapRace == Spec => []NoConcurrentMapAccess
<1>1. IInv => NoConcurrentMapAccess
  BY DEF IInv, LockInv, Slow, Inside, NoConcurrentMapAccess
<1>2. QED
  BY <1>1, Invariance, PTL

\* certs.go:37-38: one certificate per hostname under any concurrency.
THEOREM AtMostOneLeaf == Spec => []OneLeafPerHost
<1>1. ASSUME IInv PROVE OneLeafPerHost
  <2> SUFFICES ASSUME NEW m \in made, NEW n \in made, m[1] = n[1]
               PROVE  m = n
    BY DEF OneLeafPerHost
  <2>1. m \in Hosts \X Callers /\ n \in Hosts \X Callers
    BY <1>1 DEF IInv, TypeOK
  <2>2. m[2] = n[2]
    BY <1>1, <2>1, LeafCacheAssumption
       DEF IInv, TypeOK, LockInv, Slow, MissInv, MadeInv
  <2>3. QED
    BY <2>1, <2>2
<1>2. QED
  BY <1>1, Invariance, PTL

-----------------------------------------------------------------------------
(* Refinement of the one-step cache. *)

LEMMA InitRefines == Init => Atomic!Init
  BY DEF Init, Atomic!Init

\* FastHit and RecheckHit are the atomic Hit, Store is the atomic Create,
\* GenerateFails the atomic Fail, and every other step is invisible.
LEMMA StepRefines == IInv /\ [Next]_vars => [Atomic!Next]_(Atomic!vars)
<1> SUFFICES ASSUME IInv, [Next]_vars, ~ UNCHANGED Atomic!vars
             PROVE  Atomic!Next
  OBVIOUS
<1> USE LeafCacheAssumption DEF IInv, TypeOK, CallInv, Goto
<1>1. ASSUME NEW c \in Callers, Call(c) PROVE Atomic!Call(c)
  BY <1>1 DEF Call, Atomic!Call
<1>2. ASSUME NEW c \in Callers, FastHit(c) PROVE Atomic!Hit(c)
  BY <1>2 DEF FastHit, Atomic!Hit, Atomic!Pending
<1>3. ASSUME NEW c \in Callers, RecheckHit(c) PROVE Atomic!Hit(c)
  BY <1>3 DEF RecheckHit, Atomic!Hit, Atomic!Pending
<1>4. ASSUME NEW c \in Callers, GenerateFails(c) PROVE Atomic!Fail(c)
  BY <1>4 DEF GenerateFails, Atomic!Fail, Atomic!Pending, MissInv
<1>5. ASSUME NEW c \in Callers, Store(c) PROVE Atomic!Create(c)
  BY <1>5 DEF Store, Atomic!Create, Atomic!Pending, MissInv
<1>6. ASSUME NEW c \in Callers,
             \/ RLock(c) \/ FastMiss(c) \/ Lock(c) \/ Drain(c)
             \/ RecheckMiss(c) \/ Generate(c) \/ Unlock(c)
      PROVE  FALSE
  BY <1>6 DEF RLock, FastMiss, Lock, Drain, RecheckMiss, Generate, Unlock,
              Atomic!vars
<1>7. ~ UNCHANGED vars
  BY DEF vars, Atomic!vars
<1>8. QED
  BY <1>1, <1>2, <1>3, <1>4, <1>5, <1>6, <1>7
     DEF Next, Step, AllReturned, Atomic!Next, Atomic!Answer

\* The double-checked lock implements the one-step cache.  (That it keeps
\* answering, the liveness half of ImplementsAtomic, is model-checked.)
THEOREM Linearizable == Spec => Atomic!SafeSpec
<1>1. Init /\ [][Next]_vars /\ []IInv => Atomic!SafeSpec
  BY InitRefines, StepRefines, PTL DEF Atomic!SafeSpec
<1>2. QED
  BY <1>1, Invariance, PTL DEF Spec, SafeSpec

-----------------------------------------------------------------------------
(* Answers, and the lock's liveness as far as it is safety. *)

\* Who was answered with a leaf was answered with the one in the map.
AnswerInv ==
    \A c \in Callers : ret[c] \in Callers => certs[host[c]] = ret[c]

\* A leaf that was stored is never replaced.
LeavesStay == \A h \in Hosts : certs[h] # Nobody => certs'[h] = certs[h]

LEMMA StayStep == IInv /\ [Next]_vars => LeavesStay
<1> SUFFICES ASSUME IInv, [Next]_vars PROVE LeavesStay
  OBVIOUS
<1> USE DEF IInv, TypeOK, LeavesStay
<1>1. ASSUME NEW c \in Callers, Store(c) PROVE LeavesStay
  BY <1>1 DEF Store, Goto, MissInv
<1>2. ASSUME UNCHANGED certs PROVE LeavesStay
  BY <1>2
<1>3. QED
  BY <1>1, <1>2 DEF Next, Step, Call, RLock, FastHit, FastMiss, Lock, Drain, RecheckHit,
     RecheckMiss, Generate, GenerateFails, Unlock, AllReturned, vars

LEMMA AnswerStep == IInv /\ AnswerInv /\ [Next]_vars => AnswerInv'
<1> SUFFICES ASSUME IInv, AnswerInv, [Next]_vars PROVE AnswerInv'
  OBVIOUS
<1>0. LeavesStay
  BY StayStep
<1> USE LeafCacheAssumption DEF IInv, TypeOK, AnswerInv, Goto, Places
<1>1. ASSUME NEW c \in Callers, Call(c) PROVE AnswerInv'
  BY <1>1 DEF Call, CallInv
<1>2. ASSUME NEW c \in Callers, FastHit(c) \/ RecheckHit(c) PROVE AnswerInv'
  BY <1>2 DEF FastHit, RecheckHit
<1>3. ASSUME NEW c \in Callers, GenerateFails(c) PROVE AnswerInv'
  BY <1>3 DEF GenerateFails
<1>4. ASSUME NEW c \in Callers, Store(c) PROVE AnswerInv'
  <2>1. host[c] \in Hosts /\ certs'[host[c]] = c /\ ret'[c] = c /\ host' = host
    BY <1>4 DEF Store, CallInv
  <2>2. ASSUME NEW d \in Callers, d # c, ret'[d] \in Callers PROVE certs'[host'[d]] = ret'[d]
    <3>1. ret[d] = ret'[d] /\ host[d] \in Hosts /\ certs[host[d]] = ret[d]
      BY <1>4, <2>2 DEF Store, CallInv
    <3>2. certs[host[d]] # Nobody
      BY <2>2, <3>1
    <3>3. QED
      BY <1>0, <2>1, <3>1, <3>2 DEF LeavesStay
  <2>3. QED
    BY <2>1, <2>2
<1>5. ASSUME UNCHANGED <<host, ret, certs>> PROVE AnswerInv'
  BY <1>5
<1>6. QED
  BY <1>1, <1>2, <1>3, <1>4, <1>5 DEF Next, Step, RLock, FastMiss, Lock, Drain,
     RecheckMiss, Generate, Unlock, AllReturned, vars

\* certs.go:20-24, 62: a leaf that has been stored stays, so a hostname has one
\* leaf for as long as the program runs.
THEOREM LeafIsKept == Spec => [][LeavesStay]_vars
<1>1. IInv /\ [Next]_vars => [LeavesStay]_vars
  BY StayStep
<1>2. QED
  BY <1>1, Invariance, PTL DEF Spec, SafeSpec

SameAnswer ==
    \A c, d \in Callers :
        ret[c] \in Callers /\ ret[d] \in Callers /\ host[c] = host[d] => ret[c] = ret[d]

\* certs.go:37-64: connections to one hostname, however many and whenever they
\* come, are answered with one and the same leaf, unless they are answered
\* with an error.
THEOREM SameLeafForAll == Spec => []SameAnswer
<1>1. Init => AnswerInv
  BY LeafCacheAssumption DEF Init, AnswerInv
<1>2. AnswerInv => SameAnswer
  BY DEF AnswerInv, SameAnswer
<1>3. QED
  BY <1>1, <1>2, AnswerStep, Invariance, PTL DEF Spec, SafeSpec

\* Where a caller can go on.
MayGoOn(c) ==
    \/ pc[c] \in {"fast", "recheck", "generate", "store", "unlock"}
    \/ pc[c] \in {"rlock", "lock"} /\ writer = Nobody
    \/ pc[c] = "drain" /\ readers = {}

\* No caller moves from anywhere else.
LEMMA StepMayGoOn == ASSUME NEW c \in Callers, Step(c) PROVE MayGoOn(c)
  BY DEF Step, RLock, FastHit, FastMiss, Lock, Drain, RecheckHit, RecheckMiss,
         Generate, GenerateFails, Store, Unlock, Goto, MayGoOn

\* Readers are on the fast path, and the lock's holder is on the slow one.
HolderInv ==
    /\ \A c \in readers : pc[c] = "fast"
    /\ writer # Nobody => pc[writer] \in Slow

LEMMA HolderStep == IInv /\ HolderInv /\ [Next]_vars => HolderInv'
<1> SUFFICES ASSUME IInv, HolderInv, [Next]_vars PROVE HolderInv'
  OBVIOUS
<1> USE LeafCacheAssumption
    DEF IInv, TypeOK, LockInv, HolderInv, Slow, Inside, Goto, lock
<1>1. ASSUME NEW c \in Callers, Call(c) \/ RLock(c) PROVE HolderInv'
  BY <1>1 DEF Call, RLock
<1>2. ASSUME NEW c \in Callers, FastHit(c) \/ FastMiss(c) PROVE HolderInv'
  BY <1>2 DEF FastHit, FastMiss
<1>3. ASSUME NEW c \in Callers, Lock(c) \/ Drain(c) \/ Unlock(c) PROVE HolderInv'
  BY <1>3 DEF Lock, Drain, Unlock
<1>4. ASSUME NEW c \in Callers,
             RecheckHit(c) \/ RecheckMiss(c) \/ Generate(c) \/ GenerateFails(c) \/ Store(c)
      PROVE  HolderInv'
  BY <1>4 DEF RecheckHit, RecheckMiss, Generate, GenerateFails, Store
<1>5. CASE UNCHANGED vars
  BY <1>5 DEF vars
<1>6. QED
  BY <1>1, <1>2, <1>3, <1>4, <1>5 DEF Next, Step, AllReturned

\* Some caller can take a step whenever a call is under way.
NeverStuck ==
    (\E c \in Callers : pc[c] \notin {"idle", "done"}) => \E c \in Callers : MayGoOn(c)

\* certs.go:41-63: as long as a call is under way, some caller can go on:
\* readers never wait for the writer that waits for them, and no return leaves
\* the lock held.
THEOREM NoDeadlock == Spec => []NeverStuck
<1>1. Init => HolderInv
  BY DEF Init, HolderInv
<1>2. IInv /\ HolderInv => NeverStuck
  <2> SUFFICES ASSUME IInv, HolderInv, NEW c \in Callers, pc[c] \notin {"idle", "done"}
               PROVE  \E d \in Callers : MayGoOn(d)
    BY DEF NeverStuck
  <2> USE DEF IInv, TypeOK, HolderInv, MayGoOn
  <2>1. CASE writer = Nobody
    BY <2>1, LeafCacheAssumption DEF Places, LockInv, Slow
  <2>2. CASE writer # Nobody /\ pc[writer] = "drain" /\ readers # {}
    <3>1. PICK d \in readers : d \in Callers /\ pc[d] = "fast"
      BY <2>2
    <3>2. QED
      BY <3>1
  <2>3. CASE writer # Nobody /\ ~ (pc[writer] = "drain" /\ readers # {})
    BY <2>3 DEF Slow
  <2>4. QED
    BY <2>1, <2>2, <2>3
<1>3. QED
  BY <1>1, <1>2, HolderStep, Invariance, PTL DEF Spec, SafeSpec

\* How many steps a call has left, at most.
StepsLeft ==
    [idle |-> 10, rlock |-> 9, fast |-> 8, lock |-> 7, drain |-> 6, recheck |-> 5,
     generate |-> 4, store |-> 3, unlock |-> 2, done |-> 0]

\* A caller that moves has fewer steps left.
GoesForward == \A c \in Callers : pc'[c] # pc[c] => StepsLeft[pc'[c]] < StepsLeft[pc[c]]

\* certs.go:39-64: no path goes round: a call that moves has fewer steps left.
THEOREM CallsGoForward == Spec => [][GoesForward]_vars
<1>1. ASSUME TypeOK, [Next]_vars PROVE [GoesForward]_vars
  <2> USE <1>1 DEF TypeOK, GoesForward, StepsLeft, Goto
  <2>1. ASSUME NEW c \in Callers, Call(c) \/ RLock(c) \/ FastHit(c) \/ FastMiss(c) PROVE GoesForward
    BY <2>1 DEF Call, RLock, FastHit, FastMiss
  <2>2. ASSUME NEW c \in Callers, Lock(c) \/ Drain(c) \/ RecheckHit(c) \/ RecheckMiss(c)
        PROVE  GoesForward
    BY <2>2 DEF Lock, Drain, RecheckHit, RecheckMiss
  <2>3. ASSUME NEW c \in Callers, Generate(c) \/ GenerateFails(c) \/ Store(c) \/ Unlock(c)
        PROVE  GoesForward
    BY <2>3 DEF Generate, GenerateFails, Store, Unlock
  <2>4. QED
    BY <2>1, <2>2, <2>3 DEF Next, Step, AllReturned, vars
<1>2. QED
  BY <1>1, TypeCorrect, PTL DEF Spec, SafeSpec
=============================================================================
