------------------------- MODULE MCSimulationFleet -------------------------
(***************************************************************************)
(* A small instance of SimulationFleet for TLC.  In a calm behavior nobody *)
(* stops, resets or kills a simulator and no request runs into its         *)
(* timeout; in the others everything happens.                              *)
(***************************************************************************)
EXTENDS SimulationFleet

VARIABLE calm

Undisturbed ==
  \/ Enable
  \/ \E d \in Devices, p \in Procs : Start(d, p)
  \/ \E p \in Procs : Goes(p)
  \/ \E r \in requests : Serves(r)

MCInit == Init /\ calm \in BOOLEAN
MCNext == UNCHANGED calm /\ (IF calm THEN Undisturbed ELSE Next)
MCSpec ==
  /\ MCInit /\ [][MCNext]_<<vars, calm>>
  /\ \A p \in Procs : WF_vars(Goes(p))
  /\ WF_vars(\E r \in requests : Serves(r))

\* A simulator that nobody interrupts gets to run, on a registry that knows
\* its device, or has even provisioned it, as on one that does not.
CalmStartRuns == calm => StartedRuns

=============================================================================
