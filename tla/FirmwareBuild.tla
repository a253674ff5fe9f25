--------------------------- MODULE FirmwareBuild ---------------------------
(***************************************************************************)
(* What a factory station compiles, erases and uploads                     *)
(* (scripts/factory_program_esp32.py, flash_firmware).                     *)
(*                                                                         *)
(* All runs use the directory of a product: the inputs PlatformIO compiles *)
(* (sources, platformio.ini, two generated headers), its build directory,  *)
(* and the file in which flash_firmware remembers what it last built.  A   *)
(* run whose configuration equals the remembered one takes the build       *)
(* directory as current and compiles nothing.                              *)
(*                                                                         *)
(* The agent starts one run at a time, but nothing locks the directory: a  *)
(* run goes on when the agent that started it is replaced, and an operator *)
(* may start the script beside it.  Runs at the same time have each a      *)
(* serial port and a board of its own, a station here.                     *)
(*                                                                         *)
(* A configuration is reduced to the parts the cache compares.  A run may  *)
(* be killed at any point (the manufacturing agent kills it at its         *)
(* deadline, an operator interrupts it); a PlatformIO it had started goes  *)
(* on by itself.                                                           *)
(***************************************************************************)
EXTENDS Naturals

CONSTANTS
  Stations,   \* serial ports
  Builds,     \* the configurations the runs are started with
  Failures,   \* what may fail in a run
  Nil

\* source: firmware sources and version; network: the endpoint, Wi-Fi, time
\* key and CA of the generated headers; dependency: platformio.ini and its
\* environment.
Parts == {"source", "network", "dependency"}
Configuration == [Parts -> Nat]
FailureKinds == {"dependencies", "build", "save", "erase", "upload", "kill"}

ASSUME BuildsAssumption ==
  /\ Builds \subseteq Configuration
  /\ Nil \notin Configuration
  /\ Failures \subseteq FailureKinds

Modes == {"normal", "force", "clean"}
Phases == {"idle", "started", "ready", "building", "built", "saved", "blank",
           "uploaded", "done", "failed"}

VARIABLES
  inputs,     \* what the files PlatformIO compiles from configure
  state,      \* build_state: the configuration of the last recorded build
  artifact,   \* the configuration firmware.bin and firmware.elf were built from
  libdeps,    \* .pio/libdeps exists
  orphans,    \* builds of killed runs that go on
  run,        \* the run of the script at each station
  board       \* the configuration of the firmware in the flash of its board

buildVars == <<inputs, state, artifact, libdeps, orphans, run, board>>

Maybe == Configuration \cup {Nil}
Idle == [phase |-> "idle", config |-> Nil, mode |-> "normal",
         hit |-> FALSE, force |-> FALSE, compiling |-> Nil]

BuildTypeOK ==
  /\ inputs \in Maybe /\ state \in Maybe /\ artifact \in Maybe
  /\ libdeps \in BOOLEAN
  /\ orphans \subseteq Configuration
  /\ run \in [Stations -> [phase : Phases, config : Maybe, mode : Modes,
                           hit : BOOLEAN, force : BOOLEAN, compiling : Maybe]]
  /\ board \in [Stations -> Maybe]

BuildInit ==
  /\ inputs = Nil /\ state = Nil /\ artifact = Nil
  /\ libdeps = FALSE
  /\ orphans = {}
  /\ run = [s \in Stations |-> Idle]
  /\ board = [s \in Stations |-> Nil]

At(s, phase) == run[s].phase = phase
Move(s, phase) == run' = [run EXCEPT ![s].phase = phase]
RunEnded(s) == run[s].phase \in {"idle", "done", "failed"}
Files == <<inputs, state, artifact, libdeps, orphans>>

-----------------------------------------------------------------------------
(* The decision of the cache.                                              *)

\* A cache that forgets the endpoint and the Wi-Fi settings (for comparison).
ChangedButNetwork(previous, current) ==
  {p \in Parts \ {"network"} : previous[p] # current[p]}

\* describe_build_cache: the parts whose record differs from the run's.
Changed(previous, current) == {p \in Parts : previous[p] # current[p]}

BuildIsCached(config) ==
  /\ state # Nil
  /\ Changed(state, config) = {}
  /\ artifact # Nil

\* dependency_changed: the packages have to be resolved again.
DependencyChanged(config, mode) ==
  \/ mode = "clean"
  \/ state = Nil
  \/ state # Nil /\ state["dependency"] # config["dependency"]
  \/ ~libdeps

-----------------------------------------------------------------------------
(* A run.                                                                  *)

Begun(config, mode) ==
  [Idle EXCEPT !.phase = "started", !.config = config, !.mode = mode]
Failed == [Idle EXCEPT !.phase = "failed"]

\* Headers that are taken as written when the record is that of the run (for
\* comparison).
StartRecorded(s, config, mode) ==
  /\ RunEnded(s)
  /\ inputs' = IF state = config THEN inputs ELSE config
  /\ run' = [run EXCEPT ![s] = Begun(config, mode)]
  /\ UNCHANGED <<state, artifact, libdeps, orphans, board>>

\* The two headers are rewritten when their bytes differ; the sources are
\* those of the directory.
Start(s, config, mode) ==
  /\ RunEnded(s)
  /\ inputs' = config
  /\ run' = [run EXCEPT ![s] = Begun(config, mode)]
  /\ UNCHANGED <<state, artifact, libdeps, orphans, board>>

\* Load the record, compare, and with --clean-build remove PlatformIO's
\* directories after the comparison.
Inspect(s) ==
  LET config == run[s].config
      mode == run[s].mode
      cleaned == mode = "clean"
  IN /\ At(s, "started")
     /\ run' = [run EXCEPT ![s].phase = "ready", ![s].mode = "normal",
                           ![s].hit = mode = "normal" /\ BuildIsCached(config),
                           ![s].force = DependencyChanged(config, mode)]
     /\ artifact' = IF cleaned THEN Nil ELSE artifact
     /\ libdeps' = (libdeps /\ ~cleaned)
     /\ UNCHANGED <<inputs, state, orphans, board>>

\* prepare_dependencies: skipped, or resolved with one retry.
Dependencies(s) ==
  /\ At(s, "ready")
  /\ \/ libdeps /\ ~run[s].force /\ UNCHANGED libdeps
     \/ (~libdeps \/ run[s].force) /\ libdeps' = TRUE
  /\ run' = [run EXCEPT ![s].phase = IF run[s].hit THEN "saved" ELSE "building",
                        ![s].compiling = IF run[s].hit THEN Nil ELSE inputs,
                        ![s].hit = FALSE, ![s].force = FALSE]
  /\ UNCHANGED <<inputs, state, artifact, orphans, board>>

\* PlatformIO builds from the files it found when it started.
Build(s) ==
  /\ At(s, "building")
  /\ artifact' = run[s].compiling
  /\ run' = [run EXCEPT ![s].phase = "built", ![s].compiling = Nil]
  /\ UNCHANGED <<inputs, state, libdeps, orphans, board>>

\* save_build_state, atomically, once the artifacts are seen to exist: another
\* run may have cleaned them away.
Save(s) ==
  /\ At(s, "built")
  /\ IF artifact # Nil
       THEN state' = run[s].config /\ Move(s, "saved")
       ELSE UNCHANGED state /\ run' = [run EXCEPT ![s] = Failed]
  /\ UNCHANGED <<inputs, artifact, libdeps, orphans, board>>

Erase(s) ==
  /\ At(s, "saved")
  /\ board' = [board EXCEPT ![s] = Nil]
  /\ Move(s, "blank")
  /\ UNCHANGED Files

\* --no-erase uploads over the old flash.
KeepFlash(s) ==
  /\ At(s, "saved")
  /\ Move(s, "blank")
  /\ UNCHANGED <<Files, board>>

\* PlatformIO compiles again when its own check finds the artifacts older
\* than the files, then writes them to the board.
Upload(s) ==
  /\ At(s, "blank")
  /\ artifact' = inputs
  /\ board' = [board EXCEPT ![s] = inputs]
  /\ Move(s, "uploaded")
  /\ UNCHANGED <<inputs, state, libdeps, orphans>>

SaveAgain(s) ==
  /\ At(s, "uploaded")
  /\ state' = IF artifact # Nil THEN run[s].config ELSE state
  /\ Move(s, "done")
  /\ UNCHANGED <<inputs, artifact, libdeps, orphans, board>>

\* run_command and save_build_state raise: the script exits.  The phase is
\* the one in which each operation runs; an upload that fails leaves a
\* half-written flash.
Fails(s, operation) ==
  CASE operation = "dependencies" -> At(s, "ready") /\ (~libdeps \/ run[s].force)
    [] operation = "build"        -> At(s, "building")
    [] operation = "save"         -> At(s, "built") \/ At(s, "uploaded")
    [] operation = "erase"        -> At(s, "saved")
    [] operation = "upload"       -> At(s, "blank")

Fail(s, operation) ==
  /\ operation \in Failures \ {"kill"}
  /\ Fails(s, operation)
  /\ run' = [run EXCEPT ![s] = Failed]
  /\ board' = [board EXCEPT ![s] = IF operation \in {"erase", "upload"} THEN Nil ELSE @]
  /\ UNCHANGED Files

\* The script is killed; a build it had started is not, nor is an erasure or
\* an upload, which may or may not have reached the flash.
Kill(s) ==
  /\ "kill" \in Failures
  /\ ~RunEnded(s)
  /\ run' = [run EXCEPT ![s] = Failed]
  /\ orphans' = IF At(s, "building") THEN orphans \cup {run[s].compiling} ELSE orphans
  /\ \/ UNCHANGED board
     \/ At(s, "saved") /\ board' = [board EXCEPT ![s] = Nil]
     \/ At(s, "blank") /\ \E f \in {Nil, inputs} : board' = [board EXCEPT ![s] = f]
  /\ UNCHANGED <<inputs, state, artifact, libdeps>>

OrphanEnds(config) ==
  /\ config \in orphans
  /\ orphans' = orphans \ {config}
  /\ artifact' \in {config, artifact}
  /\ UNCHANGED <<inputs, state, libdeps, run, board>>

Steps(s) ==
  \/ Inspect(s) \/ Dependencies(s) \/ Build(s) \/ Save(s)
  \/ Erase(s) \/ KeepFlash(s) \/ Upload(s) \/ SaveAgain(s)
  \/ \E operation \in Failures : Fail(s, operation)
  \/ Kill(s)

BuildNext ==
  \/ \E s \in Stations, config \in Builds, mode \in Modes : Start(s, config, mode)
  \/ \E s \in Stations : Steps(s)
  \/ \E config \in orphans : OrphanEnds(config)

BuildSpec == BuildInit /\ [][BuildNext]_buildVars

-----------------------------------------------------------------------------
(* Properties.                                                             *)

\* A board that a run has just finished with holds the firmware of that run's
\* own configuration, whatever the runs before it left in the directory: a
\* failed build, a record of another configuration, a killed compiler that
\* overwrites the artifacts later.  It holds for one station, and for several
\* as FirmwareHistory says; it does not when a run is overtaken: README,
\* Limits of the code.
UploadedIsConfigured ==
  \A s \in Stations :
    run[s].phase \in {"uploaded", "done"} => board[s] = run[s].config

\* flash_firmware:645 "Build before erasing the target": the flash of a board
\* is erased only once the firmware that is to replace it has been compiled.
\* It does not hold: README, Disagreements.
ErasesOnlyCompiled ==
  [][\A s \in Stations :
       At(s, "saved") /\ run'[s].phase = "blank" => artifact = run[s].config]_buildVars
=============================================================================
