-------------------------- MODULE MCManufacturing --------------------------
(* A small instance of the station and its page for TLC: one job from the  *)
(* page, one from elsewhere.                                               *)
EXTENDS StationPage

=============================================================================
