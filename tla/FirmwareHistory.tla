-------------------------- MODULE FirmwareHistory --------------------------
(***************************************************************************)
(* FirmwareBuild with two history variables, in whose terms its guarantees *)
(* are stated.  overtaken says of a station that a run of another          *)
(* configuration was started since its own run was, and before it had      *)
(* uploaded; recorded says that every run so far has recorded what it      *)
(* compiled: none was killed in its build or after it, no record failed    *)
(* to be written, and no run was started beside another.                   *)
(***************************************************************************)
EXTENDS FirmwareBuild

VARIABLES overtaken, recorded

hvars == <<buildVars, overtaken, recorded>>

Uploading(s) == run[s].phase \notin {"idle", "uploaded", "done", "failed"}
Starts(s) == RunEnded(s) /\ run'[s].phase = "started"

Overtakes(t, s) ==
  Uploading(s) /\ Starts(t) /\ run'[t].config # run[s].config

Unrecorded ==
  \E s \in Stations :
    \/ At(s, "built") /\ run'[s].phase = "failed"
    \/ orphans' \ orphans # {}
    \/ Starts(s) /\ \E t \in Stations \ {s} : ~RunEnded(t)

HInit ==
  /\ BuildInit
  /\ overtaken = [s \in Stations |-> FALSE]
  /\ recorded = TRUE
HNext ==
  /\ BuildNext
  /\ overtaken' = [s \in Stations |->
       /\ ~Starts(s) /\ run'[s].phase # "failed"
       /\ overtaken[s] \/ \E t \in Stations \ {s} : Overtakes(t, s)]
  /\ recorded' = (recorded /\ ~Unrecorded)
HSpec == HInit /\ [][HNext]_hvars

-----------------------------------------------------------------------------
(* Properties.                                                             *)

\* What a run uploads is what it was started to configure, whatever the other
\* runs, before it or beside it, do to the inputs, the record and the
\* artifacts, unless a run of another configuration overtakes it.
OwnUploadIsConfigured ==
  \A s \in Stations :
    ~overtaken[s] /\ run[s].phase \in {"uploaded", "done"} => board[s] = run[s].config

\* flash_firmware:645 "Build before erasing the target", as long as every
\* build has been recorded.
RecordedErasesCompiled ==
  [][recorded => \A s \in Stations :
       At(s, "saved") /\ run'[s].phase = "blank" => artifact = run[s].config
    ]_<<buildVars, recorded>>
=============================================================================
