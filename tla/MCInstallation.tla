-------------------------- MODULE MCInstallation --------------------------
(***************************************************************************)
(* A small instance of Installation for TLC.  In a steady behavior the     *)
(* installation was complete to begin with and nobody forces a new one;    *)
(* in the others there may be none, or one of an older release, and it may *)
(* be forced.                                                              *)
(***************************************************************************)
EXTENDS Installation

VARIABLE steady

MCInit ==
    /\ Init
    /\ steady \in BOOLEAN
    /\ steady => \A p \in Pairs : Whole(key[p]) /\ Whole(cert[p])
MCNext == Next /\ UNCHANGED steady /\ (steady => forces' = 0)
MCSpec ==
    /\ MCInit /\ [][MCNext]_<<vars, steady>>
    /\ WF_vars(Step) /\ WF_vars(StartPlatform)

(* However often its starts were killed and its address changed, a         *)
(* complete installation starts.                                           *)
SteadyGetsUp == steady => GetsUp

============================================================================
