--------------------------- MODULE MCProvisioning ---------------------------
(* A small instance of Provisioning for TLC: one board and one station.    *)
EXTENDS Provisioning

=============================================================================
