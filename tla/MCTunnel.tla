------------------------------ MODULE MCTunnel ------------------------------
(* One tunnel, up to MaxChunks chunks in each direction. *)
EXTENDS Tunnel
=============================================================================
