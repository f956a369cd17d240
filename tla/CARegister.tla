----------------------------- MODULE CARegister -----------------------------
(***************************************************************************)
(* What the CA manager promises (internal/ca/manager.go:81-95) to          *)
(* processes that use it one after the other: one CA, made by the first    *)
(* that needs it, kept until a setup is forced, and the same for everyone. *)
(* Processes that overlap are promised nothing.                            *)
(***************************************************************************)
CONSTANTS
    Procs,   \* the processes; each names the CA it would make
    Forced,  \* those that may replace a CA
    Absent   \* no CA

VARIABLES
    ca,     \* the CA in force
    got,    \* the CA each process works with
    alone   \* processes do not overlap

vars == <<ca, got, alone>>

Init == got = [p \in Procs |-> Absent]

Create(p) ==
    /\ ca = Absent \/ p \in Forced
    /\ ca' = p
    /\ UNCHANGED got

Take(p) ==
    /\ ca # Absent /\ got[p] = Absent
    /\ got' = [got EXCEPT ![p] = ca]
    /\ UNCHANGED ca

Overlap == ~ alone

Next ==
    /\ (\E p \in Procs : Create(p) \/ Take(p)) \/ Overlap
    /\ UNCHANGED alone

Spec == Init /\ [][Next]_vars
=============================================================================
