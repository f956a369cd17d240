---------------------------- MODULE CAStoreProofs ----------------------------
(***************************************************************************)
(* Proofs about CAStore, for any number of processes.                      *)
(***************************************************************************)
EXTENDS CAStore, TLAPS

-----------------------------------------------------------------------------
(* Types, the pair a run holds, and the order in which files appear: these *)
(* hold in every behaviour, whatever overlaps and whoever is killed.       *)

\* manager.go:140-145: no interleaving and no crash leaves a key without a
\* certificate, so a lone certificate is the only half of a CA to be found.
CertBeforeKey == key # Absent => cert # Absent

\* A process past OpenCert has created the certificate file.
CertInv ==
    /\ CertBeforeKey
    /\ \A p \in Procs : pc[p] \in {"writeCert", "openKey", "writeKey"} => cert # Absent

BaseInv == TypeOK /\ HoldsOnePair /\ CertInv

LEMMA InitBase == Init => BaseInv
  BY CAStoreAssumption
     DEF Init, BaseInv, TypeOK, HoldsOnePair, HasCA, CertInv, CertBeforeKey,
         Places, Ended, Bundles, NoCA, CAs, Procs

LEMMA TypeStep == BaseInv /\ [Next]_vars => TypeOK'
<1> SUFFICES ASSUME TypeOK, HoldsOnePair, [Next]_vars PROVE TypeOK'
  BY DEF BaseInv
<1> USE CAStoreAssumption DEF TypeOK, Places, Ended, Goto, disk
<1>1. ASSUME NEW p \in Runs, EnsureCA(p) PROVE TypeOK'
  BY <1>1 DEF EnsureCA
<1>2. ASSUME NEW p \in Setups, SetupCmd(p) PROVE TypeOK'
  BY <1>2 DEF SetupCmd
<1>3. ASSUME NEW p \in Procs, GenerateCheck(p) \/ Stop(p) PROVE TypeOK'
  BY <1>3 DEF GenerateCheck, Stop
<1>4. ASSUME NEW p \in Procs, OpenCert(p) \/ OpenKey(p) PROVE TypeOK'
  BY <1>4 DEF OpenCert, OpenKey
<1>5. ASSUME NEW p \in Procs, WriteCert(p) PROVE TypeOK'
  BY <1>5 DEF WriteCert, CAs
<1>6. ASSUME NEW p \in Procs, WriteKey(p) PROVE TypeOK'
  BY <1>6 DEF WriteKey, AfterCA, CAs
<1>7. ASSUME NEW p \in Runs, LoadCert(p) PROVE TypeOK'
  BY <1>7 DEF LoadCert, Procs
<1>8. ASSUME NEW p \in Runs, LoadKeyPaired(p) PROVE TypeOK'
  BY <1>8 DEF LoadKeyPaired, Procs
<1>9. ASSUME NEW p \in Runs, LoadKeyRefused(p) \/ Finish(p) PROVE TypeOK'
  BY <1>9 DEF LoadKeyRefused, Finish
<1>10. ASSUME NEW p \in Runs, OpenBundle(p) PROVE TypeOK'
  BY <1>10 DEF OpenBundle, Bundles
<1>11. ASSUME NEW p \in Runs, WriteBundle(p) PROVE TypeOK'
  BY <1>11 DEF WriteBundle, BundleFor, Bundles, HoldsOnePair, HasCA
<1>12. ASSUME NEW p \in Runs, ChildReads(p) PROVE TypeOK'
  BY <1>12 DEF ChildReads
<1>13. CASE UNCHANGED vars
  BY <1>13 DEF vars
<1>14. QED
  BY <1>1, <1>2, <1>3, <1>4, <1>5, <1>6, <1>7, <1>8, <1>9, <1>10, <1>11,
     <1>12, <1>13 DEF Next, Run, LoadCA, GenerateCA, AllEnded

\* Only LoadCA and GenerateCA give a run its CA; nothing takes it away.
LEMMA PairStep == BaseInv /\ [Next]_vars => HoldsOnePair'
<1> SUFFICES ASSUME TypeOK, HoldsOnePair, [Next]_vars PROVE HoldsOnePair'
  BY DEF BaseInv
<1> USE CAStoreAssumption DEF TypeOK, HoldsOnePair, HasCA, Goto, Procs
<1>1. ASSUME NEW p \in Runs,
             \/ EnsureCA(p) \/ LoadKeyRefused(p) \/ OpenBundle(p)
             \/ WriteBundle(p) \/ ChildReads(p) \/ Finish(p)
      PROVE  HoldsOnePair'
  BY <1>1 DEF EnsureCA, LoadKeyRefused, OpenBundle, WriteBundle, ChildReads, Finish
<1>2. ASSUME NEW p \in Runs, LoadCert(p) PROVE HoldsOnePair'
  BY <1>2 DEF LoadCert
<1>3. ASSUME NEW p \in Runs, LoadKeyPaired(p) PROVE HoldsOnePair'
  BY <1>3 DEF LoadKeyPaired
<1>4. ASSUME NEW p \in Setups, SetupCmd(p) PROVE HoldsOnePair'
  BY <1>4 DEF SetupCmd
<1>5. ASSUME NEW p \in Procs,
             \/ GenerateCheck(p) \/ OpenCert(p) \/ WriteCert(p) \/ OpenKey(p)
             \/ Stop(p)
      PROVE  HoldsOnePair'
  BY <1>5 DEF GenerateCheck, OpenCert, WriteCert, OpenKey, Stop
<1>6. ASSUME NEW p \in Procs, WriteKey(p) PROVE HoldsOnePair'
  BY <1>6 DEF WriteKey, AfterCA, CAs
<1>7. CASE UNCHANGED vars
  BY <1>7 DEF vars
<1>8. QED
  BY <1>1, <1>2, <1>3, <1>4, <1>5, <1>6, <1>7 DEF Next, Run, LoadCA, GenerateCA, AllEnded

\* The key file is opened only by a process that has created the other one.
LEMMA CertStep == BaseInv /\ [Next]_vars => CertInv'
<1> SUFFICES ASSUME TypeOK, CertInv, [Next]_vars PROVE CertInv'
  BY DEF BaseInv
<1> USE CAStoreAssumption DEF TypeOK, CertInv, CertBeforeKey, Goto, Procs
<1>1. ASSUME NEW p \in Runs, Run(p) PROVE CertInv'
  BY <1>1 DEF Run, LoadCA, EnsureCA, LoadCert, LoadKeyPaired, LoadKeyRefused,
              OpenBundle, WriteBundle, ChildReads, Finish, disk
<1>2. ASSUME NEW p \in Setups, SetupCmd(p) PROVE CertInv'
  BY <1>2 DEF SetupCmd, disk
<1>3. ASSUME NEW p \in Procs, GenerateCheck(p) \/ Stop(p) PROVE CertInv'
  BY <1>3 DEF GenerateCheck, Stop, disk
<1>4. ASSUME NEW p \in Procs, OpenCert(p) \/ WriteCert(p) PROVE CertInv'
  BY <1>4 DEF OpenCert, WriteCert
<1>5. ASSUME NEW p \in Procs, OpenKey(p) \/ WriteKey(p) PROVE CertInv'
  BY <1>5 DEF OpenKey, WriteKey, AfterCA
<1>6. CASE UNCHANGED vars
  BY <1>6 DEF vars, disk
<1>7. QED
  BY <1>1, <1>2, <1>3, <1>4, <1>5, <1>6 DEF Next, GenerateCA, AllEnded

LEMMA BaseInvariance == Spec => []BaseInv
<1>1. BaseInv /\ [Next]_vars => BaseInv'
  BY TypeStep, PairStep, CertStep DEF BaseInv
<1>2. QED
  BY <1>1, InitBase, PTL DEF Spec

\* Types, for any processes, overlaps, kills and I/O errors.
THEOREM TypeCorrect == Spec => []TypeOK
<1>1. BaseInv => TypeOK
  BY DEF BaseInv
<1>2. QED
  BY <1>1, BaseInvariance, PTL

\* manager.go:177-201: a proxy never signs with a key that is not its CA's,
\* however the two files change while LoadCA reads them.
THEOREM AlwaysOnePair == Spec => []HoldsOnePair
<1>1. BaseInv => HoldsOnePair
  BY DEF BaseInv
<1>2. QED
  BY <1>1, BaseInvariance, PTL

\* manager.go:140-145: half a CA on disk is always the certificate.
THEOREM KeyNeverAlone == Spec => []CertBeforeKey
<1>1. BaseInv => CertBeforeKey
  BY DEF BaseInv, CertInv
<1>2. QED
  BY <1>1, BaseInvariance, PTL

-----------------------------------------------------------------------------
(* Settled is closed: nobody gets as far as generating, so nobody writes the *)
(* two files and every load returns what is there.                           *)

\* What SteadyCA says of a step.
Steady ==
    /\ Settled' /\ UNCHANGED <<cert, key>>
    /\ \A p \in Runs : pc'[p] # pc[p] =>
        /\ pc'[p] # "refused"
        /\ pc'[p] = "openBundle" => held'[p] = [cert |-> cert, key |-> key]

LEMMA SteadyStep ==
  BaseInv /\ [Next]_vars /\ Settled /\ (\A p \in Forced : pc'[p] = pc[p]) => Steady
<1> SUFFICES ASSUME TypeOK, [Next]_vars, Settled, \A p \in Forced : pc'[p] = pc[p]
             PROVE  Steady
  BY DEF BaseInv
<1> USE CAStoreAssumption
    DEF TypeOK, Steady, Settled, Usable, Exists, Goto, disk, Procs
<1>1. ASSUME NEW p \in Runs, EnsureCA(p) PROVE Steady
  BY <1>1 DEF EnsureCA
<1>2. ASSUME NEW p \in Runs, LoadCert(p) PROVE Steady
  BY <1>2 DEF LoadCert
<1>3. ASSUME NEW p \in Runs, LoadKeyPaired(p) PROVE Steady
  <2>1. held[p].cert = cert /\ pc[p] = "loadKey"
    BY <1>3 DEF LoadKeyPaired
  <2>2. held' = [held EXCEPT ![p] = [cert |-> cert, key |-> key]]
    BY <1>3, <2>1 DEF LoadKeyPaired
  <2>3. QED
    BY <1>3, <2>1, <2>2 DEF LoadKeyPaired
<1>4. ASSUME NEW p \in Runs, LoadKeyRefused(p) PROVE FALSE
  BY <1>4 DEF LoadKeyRefused
<1>5. ASSUME NEW p \in Runs,
             OpenBundle(p) \/ WriteBundle(p) \/ ChildReads(p) \/ Finish(p)
      PROVE  Steady
  BY <1>5 DEF OpenBundle, WriteBundle, ChildReads, Finish
<1>6. ASSUME NEW p \in Setups, SetupCmd(p) PROVE Steady
  BY <1>6 DEF SetupCmd
<1>7. ASSUME NEW p \in Procs, GenerateCA(p) PROVE FALSE
  BY <1>7 DEF GenerateCA, GenerateCheck, OpenCert, WriteCert, OpenKey, WriteKey
<1>8. ASSUME NEW p \in Procs, Stop(p) PROVE Steady
  BY <1>8 DEF Stop
<1>9. CASE UNCHANGED vars
  BY <1>9 DEF vars
<1>10. QED
  BY <1>1, <1>2, <1>3, <1>4, <1>5, <1>6, <1>7, <1>8, <1>9 DEF Next, Run, LoadCA, AllEnded

\* Once a whole CA is there and nobody is writing another, no number of runs,
\* setups, kills and I/O errors changes it or keeps a run from it, until a
\* setup is forced.
THEOREM CASteady == Spec => SteadyCA
<1>1. BaseInv /\ [Next]_vars =>
        [Settled /\ (\A p \in Forced : pc'[p] = pc[p]) =>
           /\ Settled' /\ UNCHANGED <<cert, key>>
           /\ \A p \in Runs : pc'[p] # pc[p] =>
               /\ pc'[p] # "refused"
               /\ pc'[p] = "openBundle" => held'[p] = [cert |-> cert, key |-> key]]_vars
  BY SteadyStep DEF Steady
<1>2. QED
  BY <1>1, BaseInvariance, PTL DEF Spec, SteadyCA

-----------------------------------------------------------------------------
(* Orderly use: processes do not overlap and none is killed. *)

OneAtATime == \A p, q \in Procs : Active(p) /\ Active(q) => p = q

\* Between two writers the directory holds a whole CA or none.
QuietDisk ==
    Writers = {} => cert = key /\ cert \in CAs \union {Absent}

Unserved ==
    {"idle", "loadCert", "loadKey", "generate", "openCert", "writeCert", "openKey", "writeKey"}

\* What the process that is running has seen is still true.
SeenIsTrue ==
    \A p \in Procs :
        /\ pc[p] \notin {"refused", "stopped"}
        /\ pc[p] = "loadCert" => Exists
        /\ pc[p] = "loadKey" => Exists /\ held[p].cert = cert
        /\ pc[p] \in {"openKey", "writeKey"} => cert = p
        /\ pc[p] \in {"generate", "openCert", "writeCert", "openKey"} /\ p \notin Forced
              => key = Absent
        /\ pc[p] = "writeKey" => key = Torn
        /\ pc[p] \in Unserved => held[p].key = Absent

\* The bundle is the running process's, and so is what its child has read.
BundleInv ==
    /\ \A p \in Procs : pc[p] = "running" => bundle = BundleFor(p)
    /\ \A p \in Runs : trust[p] # Absent => /\ trust[p] = BundleFor(p)
                                            /\ pc[p] \in {"running", "done"}

SeqInv == OneAtATime /\ QuietDisk /\ SeenIsTrue /\ BundleInv

LEMMA SeqStep == BaseInv /\ Orderly /\ SeqInv /\ [Next]_vars => SeqInv'
<1> SUFFICES ASSUME TypeOK, Orderly, SeqInv, [Next]_vars PROVE SeqInv'
  BY DEF BaseInv
<1> USE CAStoreAssumption
    DEF TypeOK, Places, SeqInv, OneAtATime, QuietDisk, SeenIsTrue, BundleInv,
        Writers, Unserved, Ended, Active, Exists, BundleFor, Goto, disk, Procs
<1>1. ASSUME NEW p \in Runs, EnsureCA(p) PROVE SeqInv'
  BY <1>1 DEF EnsureCA, MayStart
<1>2. ASSUME NEW p \in Setups, SetupCmd(p) PROVE SeqInv'
  BY <1>2 DEF SetupCmd, MayStart
<1>3. ASSUME NEW p \in Runs, LoadCert(p) PROVE SeqInv'
  BY <1>3 DEF LoadCert
<1>4. ASSUME NEW p \in Runs, LoadKeyPaired(p) PROVE SeqInv'
  BY <1>4 DEF LoadKeyPaired
<1>5. ASSUME NEW p \in Runs, LoadKeyRefused(p) PROVE FALSE
  BY <1>5 DEF LoadKeyRefused
<1>6. ASSUME NEW p \in Runs, OpenBundle(p) PROVE SeqInv'
  BY <1>6 DEF OpenBundle
<1>7. ASSUME NEW p \in Runs, WriteBundle(p) PROVE SeqInv'
  BY <1>7 DEF WriteBundle
<1>8. ASSUME NEW p \in Runs, ChildReads(p) \/ Finish(p) PROVE SeqInv'
  BY <1>8 DEF ChildReads, Finish
<1>9. ASSUME NEW p \in Procs, GenerateCheck(p) PROVE SeqInv'
  BY <1>9 DEF GenerateCheck
<1>10. ASSUME NEW p \in Procs, OpenCert(p) PROVE SeqInv'
  BY <1>10 DEF OpenCert
<1>11. ASSUME NEW p \in Procs, WriteCert(p) PROVE SeqInv'
  BY <1>11 DEF WriteCert
<1>12. ASSUME NEW p \in Procs, OpenKey(p) PROVE SeqInv'
  BY <1>12 DEF OpenKey
<1>13. ASSUME NEW p \in Procs, WriteKey(p) PROVE SeqInv'
  BY <1>13 DEF WriteKey, AfterCA, CAs
<1>14. ASSUME NEW p \in Procs, Stop(p) PROVE FALSE
  BY <1>14 DEF Stop, Orderly, Faulty
<1>15. CASE UNCHANGED vars
  BY <1>15 DEF vars
<1>16. QED
  BY <1>1, <1>2, <1>3, <1>4, <1>5, <1>6, <1>7, <1>8, <1>9, <1>10, <1>11,
     <1>12, <1>13, <1>14, <1>15 DEF Next, Run, LoadCA, GenerateCA, AllEnded

LEMMA OrderlyStep == [Next]_vars => UNCHANGED regime
  BY DEF Next, Run, EnsureCA, SetupCmd, LoadCA, LoadCert, LoadKeyPaired,
     LoadKeyRefused, OpenBundle, WriteBundle, ChildReads, Finish, GenerateCA,
     GenerateCheck, OpenCert, WriteCert, OpenKey, WriteKey, Stop, AllEnded, Goto, vars

LEMMA SeqInvariance == Spec => [](Orderly => SeqInv)
<1>1. Init => SeqInv
  BY CAStoreAssumption
     DEF Init, SeqInv, OneAtATime, QuietDisk, SeenIsTrue, BundleInv, Active,
         Ended, Writers, Unserved, NoCA, CAs, Procs
<1>2. BaseInv /\ (Orderly => SeqInv) /\ [Next]_vars => (Orderly => SeqInv)'
  BY SeqStep, OrderlyStep DEF Orderly
<1>3. QED
  BY <1>1, <1>2, BaseInvariance, PTL DEF Spec

\* main.go:190-195: used one after the other, any number of runs and setups,
\* forced or not, are never refused a CA.
NeverRefused == Orderly => \A p \in Runs : pc[p] # "refused"

\* README.md:622: the safety half of RunGetsCA.
THEOREM OrderlyRunsNotRefused == Spec => []NeverRefused
<1>1. (Orderly => SeqInv) => NeverRefused
  BY DEF SeqInv, SeenIsTrue, NeverRefused, Procs
<1>2. QED
  BY <1>1, SeqInvariance, PTL

\* README.md:68: children trust their proxy and their own roots.
THEOREM OrderlyChildTrusts == Spec => []ChildTrustsProxy
<1>1. (Orderly => SeqInv) => ChildTrustsProxy
  BY DEF SeqInv, BundleInv, ChildTrustsProxy
<1>2. QED
  BY <1>1, SeqInvariance, PTL

\* manager.go:81-83: what processes leave behind is a CA for the next, or none.
THEOREM OrderlyLeavesUsable == Spec => []UsableWhenOrderly
<1>1. (Orderly => SeqInv) => UsableWhenOrderly
  BY DEF SeqInv, QuietDisk, Writers, UsableWhenOrderly, UsableWhenQuiet,
     Active, Ended, Usable, Exists
<1>2. QED
  BY <1>1, SeqInvariance, PTL

-----------------------------------------------------------------------------
(* The register. *)

InForce == IF Writers = {} THEN cert ELSE CHOOSE p \in Writers : TRUE
Got == [p \in Procs |-> IF held[p].key = Absent THEN Absent ELSE held[p].cert]

LEMMA OnlyWriter ==
  ASSUME OneAtATime, NEW p \in Procs, p \in Writers PROVE InForce = p
<1>1. Writers = {p}
  BY DEF OneAtATime, Writers, Active, Ended
<1>2. QED
  BY <1>1 DEF InForce

LEMMA OnlyWriterNext ==
  ASSUME OneAtATime', NEW p \in Procs, (p \in Writers)' PROVE InForce' = p
<1>1. Writers' = {p}
  BY DEF OneAtATime, Writers, Active, Ended
<1>2. QED
  BY <1>1 DEF InForce

LEMMA RegisterStep ==
  BaseInv /\ Orderly /\ SeqInv /\ SeqInv' /\ TypeOK' /\ [Next]_vars
    => [Register!Next]_(Register!vars)
<1> SUFFICES ASSUME TypeOK, TypeOK', SeqInv, SeqInv', Orderly, [Next]_vars
             PROVE  \/ InForce' = InForce /\ Got' = Got
                    \/ \E p \in Procs :
                        \/ (InForce = Absent \/ p \in Forced) /\ InForce' = p /\ Got' = Got
                        \/ /\ InForce # Absent /\ Got[p] = Absent
                           /\ Got' = [Got EXCEPT ![p] = InForce] /\ InForce' = InForce
  BY OrderlyStep
     DEF BaseInv, InForce, Got, Orderly, Register!Next, Register!vars,
         Register!Create, Register!Take
<1> USE CAStoreAssumption
    DEF TypeOK, Places, SeqInv, SeenIsTrue, QuietDisk, Goto, disk, Procs, InForce, Got
<1>1. ASSUME Writers' = Writers, cert' = cert, held' = held
      PROVE  InForce' = InForce /\ Got' = Got
  BY <1>1
<1>2. ASSUME NEW p \in Procs, p \in Writers, p \in Writers'
      PROVE  InForce' = InForce
  BY <1>2, OnlyWriter, OnlyWriterNext
<1>3. ASSUME NEW p \in Runs,
             \/ EnsureCA(p) \/ LoadKeyRefused(p) \/ OpenBundle(p)
             \/ WriteBundle(p) \/ ChildReads(p) \/ Finish(p)
      PROVE  InForce' = InForce /\ Got' = Got
  BY <1>1, <1>3 DEF Writers, EnsureCA, LoadKeyRefused, OpenBundle, WriteBundle, ChildReads, Finish
<1>4. ASSUME NEW p \in Setups, SetupCmd(p) PROVE InForce' = InForce /\ Got' = Got
  BY <1>1, <1>4 DEF Writers, SetupCmd
<1>5. ASSUME NEW p \in Procs, GenerateCheck(p) \/ Stop(p)
      PROVE  InForce' = InForce /\ Got' = Got
  BY <1>1, <1>5 DEF Writers, GenerateCheck, Stop, Orderly, Faulty
<1>6. ASSUME NEW p \in Runs, LoadCert(p) PROVE InForce' = InForce /\ Got' = Got
  <2>1. Writers' = Writers /\ cert' = cert
    BY <1>6 DEF Writers, LoadCert
  <2>2. Got' = Got
    BY <1>6 DEF LoadCert, Unserved
  <2>3. QED
    BY <2>1, <2>2
<1>7. ASSUME NEW p \in Runs, LoadKeyPaired(p)
      PROVE  /\ InForce # Absent /\ Got[p] = Absent
             /\ Got' = [Got EXCEPT ![p] = InForce] /\ InForce' = InForce
  <2>1. Writers = {} /\ Writers' = {}
    BY <1>7 DEF Writers, LoadKeyPaired, OneAtATime, Active, Ended
  <2>2. held[p].key = Absent /\ held[p].cert = cert /\ cert \in CAs /\ cert' = cert
    BY <1>7, <2>1 DEF LoadKeyPaired, Unserved
  <2>3. held' = [held EXCEPT ![p] = [cert |-> cert, key |-> cert]] /\ Absent \notin CAs
    BY <1>7, <2>2 DEF LoadKeyPaired, CAs
  <2>4. QED
    BY <2>1, <2>2, <2>3
<1>8. ASSUME NEW p \in Procs, OpenCert(p)
      PROVE  (InForce = Absent \/ p \in Forced) /\ InForce' = p /\ Got' = Got
  <2>1. Writers = {} /\ p \in Writers'
    BY <1>8 DEF Writers, OpenCert, OneAtATime, Active, Ended
  <2>2. InForce' = p
    BY <2>1, OnlyWriterNext
  <2>3. cert = Absent \/ p \in Forced
    BY <1>8, <2>1 DEF OpenCert
  <2>4. QED
    BY <1>8, <2>1, <2>2, <2>3 DEF OpenCert
<1>9. ASSUME NEW p \in Procs, WriteCert(p) \/ OpenKey(p)
      PROVE  InForce' = InForce /\ Got' = Got
  BY <1>2, <1>9 DEF Writers, WriteCert, OpenKey
<1>10. ASSUME NEW p \in Procs, WriteKey(p)
      PROVE  /\ InForce # Absent /\ Got[p] = Absent
             /\ Got' = [Got EXCEPT ![p] = InForce] /\ InForce' = InForce
  <2>1. p \in Writers /\ held[p].key = Absent /\ cert = p /\ p # Absent
    BY <1>10 DEF Writers, WriteKey, Unserved
  <2>2. InForce = p
    BY <2>1, OnlyWriter
  <2>3. Writers' = {}
    BY <1>10 DEF Writers, WriteKey, AfterCA, OneAtATime, Active, Ended
  <2>4. cert' = cert /\ held' = [held EXCEPT ![p] = [cert |-> p, key |-> p]]
    BY <1>10 DEF WriteKey
  <2>5. Got[p] = Absent /\ Got' = [Got EXCEPT ![p] = p]
    BY <2>1, <2>4
  <2>6. InForce' = p
    BY <2>1, <2>3, <2>4
  <2> HIDE DEF InForce, Got
  <2>7. QED
    BY <2>1, <2>2, <2>5, <2>6
<1>11. CASE UNCHANGED vars
  BY <1>1, <1>11 DEF Writers, vars
<1>12. QED
  BY <1>3, <1>4, <1>5, <1>6, <1>7, <1>8, <1>9, <1>10, <1>11
     DEF Next, Run, LoadCA, GenerateCA, AllEnded

\* manager.go:81-103: for any number of processes, the two files are one
\* register to those that use them one after the other.
THEOREM OrderlyRegister == Spec => ImplementsRegister
<1>1. Init => Register!Init
  BY CAStoreAssumption DEF Init, NoCA, Register!Init, Procs
<1>2. ~ Orderly /\ [Next]_vars => [Register!Next]_(Register!vars)
  BY OrderlyStep DEF Orderly, Register!Next, Register!Overlap
<1>3. BaseInv /\ BaseInv' /\ (Orderly => SeqInv) /\ (Orderly => SeqInv)' /\ [Next]_vars
        => [Register!Next]_(Register!vars)
  BY <1>2, RegisterStep, OrderlyStep DEF Orderly, BaseInv
<1>4. QED
  BY <1>1, <1>3, BaseInvariance, SeqInvariance, PTL
     DEF Spec, ImplementsRegister, Register!Spec
-----------------------------------------------------------------------------
(* Repair: what is on the disk does not matter to a process that writes. *)

Writing == {"openCert", "writeCert", "openKey", "writeKey"}

\* p is the only process about to write, or in the middle of writing, a CA.
WritesAlone(p) ==
    pc[p] \in Writing /\ \A q \in Procs \ {p} : pc[q] \notin Writing

\* What p has written so far is there.
UnderWay(p) ==
    /\ pc[p] \in Writing
    /\ pc[p] \in {"openKey", "writeKey"} => cert = p

\* What is said of a step of any process.
Repairs ==
    \A p \in Procs : UnderWay(p) /\ WritesAlone(p) =>
        \/ UnderWay(p)'
        \/ pc'[p] = "stopped"
        \/ pc'[p] = AfterCA(p) /\ Usable' /\ cert' = p

\* manager.go:117-151: torn, mismatched or half there, the CA that a forced
\* setup finds is replaced by a whole one if nobody else writes meanwhile:
\* whatever the others read, load or hold, p gets on with its own CA, is
\* stopped, or ends with both files its own.
THEOREM WriterRepairs == Spec => [][Repairs]_vars
<1>1. BaseInv /\ [Next]_vars => Repairs
  <2> SUFFICES ASSUME TypeOK, [Next]_vars, NEW p \in Procs, UnderWay(p), WritesAlone(p)
               PROVE  \/ UnderWay(p)'
                      \/ pc'[p] = "stopped"
                      \/ pc'[p] = AfterCA(p) /\ Usable' /\ cert' = p
    BY DEF Repairs, BaseInv
  <2> USE CAStoreAssumption DEF TypeOK, UnderWay, Writing, Goto, disk
  <2>1. ASSUME NEW q \in Procs, OpenCert(q) \/ WriteCert(q) \/ OpenKey(q) \/ WriteKey(q)
        PROVE  q = p
    BY <2>1 DEF WritesAlone, OpenCert, WriteCert, OpenKey, WriteKey
  <2>2. CASE OpenCert(p) \/ WriteCert(p) \/ OpenKey(p)
    BY <2>2 DEF OpenCert, WriteCert, OpenKey
  <2>3. CASE WriteKey(p)
    BY <2>3 DEF WriteKey, AfterCA, Usable, Exists, CAs
  <2>4. ASSUME NEW q \in Runs,
               \/ EnsureCA(q) \/ LoadCert(q) \/ LoadKeyPaired(q) \/ LoadKeyRefused(q)
               \/ OpenBundle(q) \/ WriteBundle(q) \/ ChildReads(q) \/ Finish(q)
        PROVE  UnderWay(p)'
    BY <2>4 DEF EnsureCA, LoadCert, LoadKeyPaired, LoadKeyRefused, OpenBundle,
                WriteBundle, ChildReads, Finish
  <2>5. ASSUME NEW q \in Procs, (q \in Setups /\ SetupCmd(q)) \/ GenerateCheck(q)
        PROVE  UnderWay(p)'
    BY <2>5 DEF SetupCmd, GenerateCheck
  <2>6. ASSUME NEW q \in Procs, Stop(q) PROVE UnderWay(p)' \/ pc'[p] = "stopped"
    BY <2>6 DEF Stop
  <2>7. CASE UNCHANGED vars
    BY <2>7 DEF vars
  <2>8. QED
    BY <2>1, <2>2, <2>3, <2>4, <2>5, <2>6, <2>7
       DEF Next, Run, LoadCA, GenerateCA, AllEnded, Procs
<1>2. QED
  BY <1>1, BaseInvariance, PTL DEF Spec
=============================================================================
