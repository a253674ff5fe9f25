--------------------------- MODULE MCDeviceStorage ---------------------------
(***************************************************************************)
(* DeviceStorage for TLC: one board, losses of power at any operation.     *)
(***************************************************************************)
EXTENDS DeviceStorage
=============================================================================
