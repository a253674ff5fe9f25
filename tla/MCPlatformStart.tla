-------------------------- MODULE MCPlatformStart --------------------------
(***************************************************************************)
(* A small instance of PlatformStart for TLC.  orderly says that so far no *)
(* launcher was interrupted and no two of them ran at the same time.       *)
(***************************************************************************)
EXTENDS PlatformStart

VARIABLE orderly

OneLauncher == \A l, k \in Launchers : pc[l] # "idle" /\ pc[k] # "idle" => l = k

MCInit == StartInit /\ orderly = TRUE
MCNext ==
    /\ StartNext
    /\ orderly' = (orderly /\ interrupts' = 0 /\ OneLauncher')
MCSpec == MCInit /\ [][MCNext]_<<startVars, orderly>>

(* start_platform.py:260 "the host agent and Docker API are then launched  *)
(* from the same value", as long as starts neither overlap nor are         *)
(* interrupted: the old agent is never taken for the new one.              *)
OrderlyTokensShared == orderly => TokensShared

============================================================================
