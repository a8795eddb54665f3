----------------------------- MODULE MCKeepalive -----------------------------
(* Instances of Keepalive for TLC; the constants are set in the cfgs. *)
EXTENDS Keepalive
=============================================================================
