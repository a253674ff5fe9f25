----------------------------- MODULE MCPresence -----------------------------
(* A small instance of Presence for TLC: one device, whose row three       *)
(* threads write.                                                          *)
EXTENDS Presence

=============================================================================
