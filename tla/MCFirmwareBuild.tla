-------------------------- MODULE MCFirmwareBuild --------------------------
(***************************************************************************)
(* A small instance of FirmwareHistory for TLC: runs of every              *)
(* configuration at one station, or two stations that share the directory  *)
(* and run two of the configurations (alone, used).                        *)
(***************************************************************************)
EXTENDS FirmwareHistory

VARIABLES alone, used

\* A base configuration, and one that differs from it in each part.
Base == [p \in Parts |-> 1]
Variant(part) == [Base EXCEPT ![part] = 2]
AllBuilds == {Base} \cup {Variant(part) : part \in Parts}

First == CHOOSE s \in Stations : TRUE

MCInit ==
  /\ HInit
  /\ \/ alone = TRUE /\ used = AllBuilds
     \/ alone = FALSE /\ used = {Base, Variant("network")}
MCNext ==
  /\ HNext
  /\ UNCHANGED <<alone, used>>
  /\ \A s \in Stations : run'[s].config \in used \cup {Nil}
  /\ alone => \A s \in Stations \ {First} : UNCHANGED run[s]
MCSpec == MCInit /\ [][MCNext]_<<hvars, alone, used>>
=============================================================================
