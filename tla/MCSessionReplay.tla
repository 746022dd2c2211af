-------------------------- MODULE MCSessionReplay --------------------------
(* Bounds for TLC: one client; clients share no state but the actor's,     *)
(* which none of them changes.                                             *)
EXTENDS SessionReplay
============================================================================
