---------------------------- MODULE MCCrlBroker -----------------------------
(* A small instance of CrlBroker for TLC: two certificates, because two    *)
(* revocations are enough to overwrite each other's temporary file.        *)
EXTENDS CrlBroker

=============================================================================
