-------------------------------- MODULE Relay --------------------------------
(***************************************************************************)
(* What one direction of a relayed connection promises its two ends        *)
(* (internal/proxy/tunnel.go:17-27, 57-59): what was sent arrives, in      *)
(* order and without a gap, and the end of the stream comes after it.      *)
(* Chunks are numbered in the order they are sent.                         *)
(***************************************************************************)
EXTENDS Naturals, Sequences

VARIABLES
    sent,   \* how many chunks the sender has sent
    rcvd,   \* the chunks the receiver got
    fin,    \* the sender sends no more
    eof,    \* the receiver was told that nothing more will come
    broken  \* an end vanished, or the connection never came to be

vars == <<sent, rcvd, fin, eof, broken>>

Init ==
    /\ sent = 0
    /\ rcvd = <<>>
    /\ ~ fin /\ ~ eof /\ ~ broken

Send ==
    /\ ~ fin
    /\ sent' = sent + 1
    /\ UNCHANGED <<rcvd, fin, eof, broken>>

Finish ==
    /\ fin' = TRUE
    /\ UNCHANGED <<sent, rcvd, eof, broken>>

Deliver ==
    /\ Len(rcvd) < sent /\ ~ eof
    /\ rcvd' = Append(rcvd, Len(rcvd) + 1)
    /\ UNCHANGED <<sent, fin, eof, broken>>

\* The end of the stream overtakes data only when the relay is broken.
End ==
    /\ ~ eof
    /\ broken \/ (fin /\ Len(rcvd) = sent)
    /\ eof' = TRUE
    /\ UNCHANGED <<sent, rcvd, fin, broken>>

Break ==
    /\ broken' = TRUE
    /\ fin => fin'
    /\ UNCHANGED <<sent, rcvd, eof>>

Next == Send \/ Finish \/ Deliver \/ End \/ Break

Safe == Init /\ [][Next]_vars

\* Only a relay that is whole owes anything.
Live == WF_vars(~ broken /\ (Deliver \/ End))

Spec == Safe /\ Live
=============================================================================
