------------------------------- MODULE CAStore -------------------------------
(***************************************************************************)
(* The CA directory (internal/ca/manager.go, bundle.go) and the processes  *)
(* that share it: stellaris-auth runs (main.go:190-195, then the child     *)
(* that loads the trust bundle) and `stellaris-auth setup` commands        *)
(* (main.go:286-317).  Nothing locks the directory.                        *)
(*                                                                         *)
(* A process runs once, so it names the CA it generates.  os.WriteFile     *)
(* truncates the file and then writes it: two steps, and a process that    *)
(* stops between them leaves the file Torn.  The last of two concurrent    *)
(* writers of a file wins: a CA certificate always has the same length, to *)
(* a few bytes, and it comes first in the bundle.                          *)
(*                                                                         *)
(* Exists reads two files in one step: files here are never removed and    *)
(* the certificate is created first, so its answer is that of the disk at  *)
(* one of its two Stat calls.                                              *)
(***************************************************************************)
CONSTANTS
    Runs,       \* processes that run a child behind the proxy
    Setups,     \* `stellaris-auth setup` processes
    Forced,     \* the setups started with --force
    RootsOf,    \* the roots a run's child would otherwise trust
    Absent,     \* no such file
    Torn,       \* truncated, not yet written
    Old,        \* the CA of an earlier process
    Regimes     \* how the processes may use the directory

Procs == Runs \union Setups
CAs == Procs \union {Old}

ASSUME CAStoreAssumption ==
    /\ Runs \intersect Setups = {}
    /\ Forced \subseteq Setups
    /\ Absent # Torn
    /\ {Absent, Torn, Old} \intersect Procs = {}
    /\ Old \notin {Absent, Torn}
    /\ Regimes \subseteq {"orderly", "overlapping", "faulty"}

VARIABLES
    cert,    \* the CA whose certificate is in the certificate file
    key,     \* the CA whose key is in the key file
    bundle,  \* the trust bundle
    pc,      \* where each process is
    held,    \* the CA it holds in memory
    trust,   \* what its child read from the bundle
    regime   \* how this behaviour uses the directory; it never changes

disk == <<cert, key, bundle>>
vars == <<disk, pc, held, trust, regime>>

NoCA == [cert |-> Absent, key |-> Absent]

Init ==
    /\ cert \in {Absent, Old} /\ key = cert
    /\ bundle = Absent
    /\ pc = [p \in Procs |-> "idle"]
    /\ held = [p \in Procs |-> NoCA]
    /\ trust = [p \in Runs |-> Absent]
    /\ regime \in Regimes

Orderly == regime = "orderly"  \* one process at a time
Faulty == regime = "faulty"    \* they overlap, fail and are killed

Goto(p, from, to) ==
    /\ pc[p] = from
    /\ pc' = [pc EXCEPT ![p] = to]
    /\ UNCHANGED regime

Ended == {"done", "refused", "stopped"}
Active(p) == pc[p] \notin Ended \union {"idle"}
MayStart == Orderly => \A q \in Procs : ~ Active(q)

-----------------------------------------------------------------------------
(* The commands up to GenerateCA and LoadCA.  As in LeafCache, operators   *)
(* named for what they get wrong are no part of Next.                      *)

Exists == cert # Absent /\ key # Absent

EnsureCARegenerates(p) ==
    /\ MayStart
    /\ Goto(p, "idle", "openCert")
    /\ UNCHANGED <<disk, held, trust>>

EnsureCANeverLoads(p) ==
    /\ MayStart
    /\ Goto(p, "idle", "generate")
    /\ UNCHANGED <<disk, held, trust>>

EnsureCA(p) ==
    /\ MayStart
    /\ Goto(p, "idle", IF Exists THEN "loadCert" ELSE "generate")
    /\ UNCHANGED <<disk, held, trust>>

SetupCmd(p) ==
    /\ MayStart
    /\ Goto(p, "idle", IF Exists /\ p \notin Forced THEN "done" ELSE "generate")
    /\ UNCHANGED <<disk, held, trust>>

-----------------------------------------------------------------------------
(* GenerateCA: check, generate the key pair, write both files. *)

GenerateCheck(p) ==
    /\ Goto(p, "generate", IF Exists /\ p \notin Forced THEN "refused" ELSE "openCert")
    /\ UNCHANGED <<disk, held, trust>>

OpenCert(p) ==
    /\ Goto(p, "openCert", "writeCert")
    /\ cert' = Torn
    /\ UNCHANGED <<key, bundle, held, trust>>

WriteCert(p) ==
    /\ Goto(p, "writeCert", "openKey")
    /\ cert' = p
    /\ UNCHANGED <<key, bundle, held, trust>>

OpenKey(p) ==
    /\ Goto(p, "openKey", "writeKey")
    /\ key' = Torn
    /\ UNCHANGED <<cert, bundle, held, trust>>

AfterCA(p) == IF p \in Runs THEN "openBundle" ELSE "done"

WriteKeyForgotten(p) ==
    /\ Goto(p, "writeKey", AfterCA(p))
    /\ held' = [held EXCEPT ![p] = [cert |-> p, key |-> p]]
    /\ UNCHANGED <<disk, trust>>

WriteKey(p) ==
    /\ Goto(p, "writeKey", AfterCA(p))
    /\ key' = p
    /\ held' = [held EXCEPT ![p] = [cert |-> p, key |-> p]]
    /\ UNCHANGED <<cert, bundle, trust>>

-----------------------------------------------------------------------------
(* LoadCA: two reads, then X509KeyPair, which fails on a torn file and on a *)
(* certificate and key that do not belong together.                         *)

LoadCert(p) ==
    /\ Goto(p, "loadCert", "loadKey")
    /\ held' = [held EXCEPT ![p] = [cert |-> cert, key |-> Absent]]
    /\ UNCHANGED <<disk, trust>>

LoadKeyUnpaired(p) ==
    /\ Goto(p, "loadKey", "openBundle")
    /\ held' = [held EXCEPT ![p] = [cert |-> @.cert, key |-> key]]
    /\ UNCHANGED <<disk, trust>>

LoadKeyPaired(p) ==
    /\ Goto(p, "loadKey", "openBundle")
    /\ held[p].cert = key /\ key \in CAs
    /\ held' = [held EXCEPT ![p] = [cert |-> @.cert, key |-> key]]
    /\ UNCHANGED <<disk, trust>>

LoadKeyRefused(p) ==
    /\ Goto(p, "loadKey", "refused")
    /\ held[p].cert # key \/ key \notin CAs
    /\ UNCHANGED <<disk, held, trust>>

-----------------------------------------------------------------------------
(* WriteBundle, then the child. *)

OpenBundleOnce(p) ==
    /\ IF bundle = Absent THEN bundle' = Torn /\ Goto(p, "openBundle", "writeBundle")
                          ELSE bundle' = bundle /\ Goto(p, "openBundle", "running")
    /\ UNCHANGED <<cert, key, held, trust>>

OpenBundle(p) ==
    /\ Goto(p, "openBundle", "writeBundle")
    /\ bundle' = Torn
    /\ UNCHANGED <<cert, key, held, trust>>

BundleFor(p) == [ca |-> held[p].cert, roots |-> RootsOf[p]]

WriteBundle(p) ==
    /\ Goto(p, "writeBundle", "running")
    /\ bundle' = BundleFor(p)
    /\ UNCHANGED <<cert, key, held, trust>>

\* The child, or a plugin it starts, loads SSL_CERT_FILE: external.
ChildReads(p) ==
    /\ pc[p] = "running"
    /\ trust' = [trust EXCEPT ![p] = bundle]
    /\ UNCHANGED <<disk, pc, held, regime>>

Finish(p) ==
    /\ Goto(p, "running", "done")
    /\ UNCHANGED <<disk, held, trust>>

\* A kill or an I/O error stops the process where it stands.
Stop(p) ==
    /\ Faulty
    /\ Active(p)
    /\ pc' = [pc EXCEPT ![p] = "stopped"]
    /\ UNCHANGED <<disk, held, trust, regime>>

-----------------------------------------------------------------------------

GenerateCA(p) ==
    GenerateCheck(p) \/ OpenCert(p) \/ WriteCert(p) \/ OpenKey(p) \/ WriteKey(p)

LoadCA(p) == LoadCert(p) \/ LoadKeyPaired(p) \/ LoadKeyRefused(p)

Run(p) ==
    \/ EnsureCA(p) \/ LoadCA(p)
    \/ OpenBundle(p) \/ WriteBundle(p) \/ ChildReads(p) \/ Finish(p)

\* Every process has ended.
AllEnded ==
    /\ \A p \in Procs : pc[p] \in Ended
    /\ UNCHANGED vars

Next ==
    \/ \E p \in Runs : Run(p)
    \/ \E p \in Setups : SetupCmd(p)
    \/ \E p \in Procs : GenerateCA(p) \/ Stop(p)
    \/ AllEnded

\* A process that has started goes on; whether one starts, and when a child
\* ends, is up to its user.
Spec ==
    /\ Init /\ [][Next]_vars
    /\ \A p \in Procs : WF_vars(GenerateCA(p))
    /\ \A p \in Runs : WF_vars(LoadCA(p))

-----------------------------------------------------------------------------
(* Properties *)

Places == Ended \union
    {"idle", "loadCert", "loadKey", "generate", "openCert", "writeCert",
     "openKey", "writeKey", "openBundle", "writeBundle", "running"}

Bundles == [ca : CAs, roots : {RootsOf[p] : p \in Runs}] \union {Absent, Torn}

\* Types of the variables; a key is held only once it is known to be whole.
TypeOK ==
    /\ cert \in CAs \union {Absent, Torn}
    /\ key \in CAs \union {Absent, Torn}
    /\ bundle \in Bundles
    /\ pc \in [Procs -> Places]
    /\ held \in [Procs -> [cert : CAs \union {Absent, Torn}, key : CAs \union {Absent}]]
    /\ trust \in [Runs -> Bundles]
    /\ regime \in Regimes

HasCA == {"openBundle", "writeBundle", "running"}

\* The disk holds a CA that LoadCA accepts.
Usable == Exists /\ cert = key /\ cert \in CAs

\* manager.go:177-201: a run that got past EnsureCA signs leaves with a key
\* that belongs to its certificate, whatever was written to the two files
\* between the two reads.
HoldsOnePair ==
    \A p \in Runs : pc[p] \in HasCA => held[p].cert = held[p].key /\ held[p].cert \in CAs

\* A whole CA, nobody on the way to writing another, and every LoadCA half
\* way through has read its certificate.
Settled ==
    /\ Usable
    /\ \A p \in Procs :
        /\ pc[p] \notin {"generate", "openCert", "writeCert", "openKey", "writeKey"}
        /\ pc[p] = "loadKey" => held[p].cert = cert

\* manager.go:84-91, main.go:297-302: once settled, the CA stays, however many
\* runs and setups start, fail and are killed, until one is forced; no run is
\* refused it or works with another one.
SteadyCA ==
    [][Settled /\ (\A p \in Forced : pc'[p] = pc[p]) =>
         /\ Settled' /\ UNCHANGED <<cert, key>>
         /\ \A p \in Runs : pc'[p] # pc[p] =>
             /\ pc'[p] # "refused"
             /\ pc'[p] = "openBundle" => held'[p] = [cert |-> cert, key |-> key]]_vars

Writers == {p \in Procs : pc[p] \in {"writeCert", "openKey", "writeKey"}}

Register == INSTANCE CARegister WITH
    ca <- IF Writers = {} THEN cert ELSE CHOOSE p \in Writers : TRUE,
    got <- [p \in Procs |-> IF held[p].key = Absent THEN Absent ELSE held[p].cert],
    alone <- Orderly

\* manager.go:81-103: used one after the other, the two files are one register.
\* A CA is made when there is none or by a forced setup, nobody sees half of
\* one, and everybody works with the one in force.
ImplementsRegister == Register!Spec

\* README.md:622: used one after the other, a run that has started comes to
\* hold a CA: neither LoadCA nor the check of GenerateCA refuses it.
RunGetsCA ==
    \A p \in Runs : (Orderly /\ Active(p)) ~> held[p].key # Absent

\* README.md:68: the child trusts the CA of the proxy it talks to, plus the
\* roots it would otherwise trust.
ChildTrustsProxy ==
    Orderly => \A p \in Runs : trust[p] # Absent => trust[p] = BundleFor(p)

\* manager.go:81-83: when every process has ended, the next EnsureCA succeeds:
\* it finds a CA it can load, or none and generates one.
UsableWhenQuiet ==
    (\A p \in Procs : ~ Active(p)) /\ Exists => Usable

\* The same of processes that do not overlap.
UsableWhenOrderly == Orderly => UsableWhenQuiet
=============================================================================
