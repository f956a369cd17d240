------------------------------- MODULE MCMitm -------------------------------
(* One connection with up to MaxRequests requests. *)
EXTENDS Mitm
=============================================================================
