-------------------------- MODULE SimulationFleet --------------------------
(***************************************************************************)
(* The simulated fleet: the manager that starts and stops one process per  *)
(* simulated device (simulators/manager.py), what such a process keeps on  *)
(* disk and asks of the API (simulators/simulated_device.py), and the      *)
(* project reset that stops and purges the fleet before it clears the      *)
(* registry (server/app/project_reset.py).                                 *)
(*                                                                         *)
(* The manager's handlers hold one lock, but a handler that stops the      *)
(* fleet takes its time, and the processes go on until it reaches them.    *)
(* A request that a process has sent stays with the API when the process   *)
(* is killed.  Starting n simulators is n starts; the four credential      *)
(* files are three, because the CA is the same in every enrollment.        *)
(***************************************************************************)
EXTENDS Naturals

CONSTANTS
  Devices,     \* the ids of one family, <prefix>-<number>
  Procs,       \* operating system processes
  Operations,  \* what the operators and the host do in a run
  MaxStarts,   \* bound: simulators started
  MaxResets,   \* bound: project resets
  None

OperationKinds == {"disable", "stop", "reset", "crash", "timeout"}

ASSUME ConstantsAssumption ==
  /\ None \notin Devices \cup Procs
  /\ Operations \subseteq OperationKinds
  /\ MaxStarts \in Nat /\ MaxResets \in Nat

VARIABLES
  enabled,    \* simulation_enabled
  instances,  \* instances: the process last started for each device
  mgr,        \* the handler that holds the lock: the processes it has to stop,
              \* and the reset it works for
  asked,      \* resets the manager has received and not yet begun
  proc,       \* the simulator processes
  files,      \* simulated_state/<device id>
  requests,   \* requests the API has received and not yet served
  row,        \* the device's row: its bootstrap secret and its certificate
  revoked,    \* certificates that have a tombstone
  preset,     \* how far the project reset is
  cleared,    \* the registry was cleared, and no simulator started since
  starts, resets, secrets

vars == <<enabled, instances, mgr, asked, proc, files, requests, row, revoked,
          preset, cleared, starts, resets, secrets>>

\* A key and the certificate issued for it have the number of the start that
\* generates the key; 0 is none.
OldCert == MaxStarts + 1
Numbers == 0 .. OldCert
Secrets == 0 .. MaxStarts + 1
File == {"factory", "key", "certificate", "provisioning"}
Waiting == {"register", "rotate", "enroll"}
Saving == {"saveFactory", "saveKey", "saveCertificate", "saveProvisioning"}
ProcessPhases == {"dead", "boot", "connecting", "running"} \cup Waiting \cup Saving

TypeOK ==
  /\ enabled \in BOOLEAN /\ cleared \in BOOLEAN
  /\ instances \in [Devices -> Procs \cup {None}]
  /\ mgr \in [op : {"none", "disable", "stop", "reset", "purge"},
             todo : SUBSET Procs, reset : 0 .. MaxResets]
  /\ asked \subseteq 1 .. MaxResets
  /\ proc \in [Procs -> [dev : Devices \cup {None}, pc : ProcessPhases,
                         secret : Secrets, key : Numbers]]
  /\ files \in [Devices -> [File -> Secrets]]
  /\ requests \subseteq [proc : Procs, kind : Waiting, dev : Devices,
                         secret : Secrets, key : Numbers]
  /\ row \in [Devices -> [known : BOOLEAN, secret : Secrets, cert : Numbers]]
  /\ revoked \subseteq Numbers \ {0}
  /\ preset \in {"idle", "asked", "purged"}

Dead == [dev |-> None, pc |-> "dead", secret |-> 0, key |-> 0]
NoHandler == [op |-> "none", todo |-> {}, reset |-> 0]
NoFiles == [f \in File |-> 0]
Unknown == [known |-> FALSE, secret |-> 0, cert |-> 0]

\* A device may be registered and even provisioned from before, its state
\* directory lost.
Init ==
  /\ enabled = FALSE
  /\ instances = [d \in Devices |-> None]
  /\ mgr = NoHandler /\ asked = {}
  /\ proc = [p \in Procs |-> Dead]
  /\ files = [d \in Devices |-> NoFiles]
  /\ requests = {}
  /\ row \in [Devices -> {Unknown, [known |-> TRUE, secret |-> 1, cert |-> 0],
                           [known |-> TRUE, secret |-> 1, cert |-> OldCert]}]
  /\ secrets = 1
  /\ revoked = {}
  /\ preset = "idle" /\ cleared = FALSE
  /\ starts = 0 /\ resets = 0

Live(p) == proc[p].pc # "dead"
Running(d) == instances[d] # None /\ Live(instances[d])

-----------------------------------------------------------------------------
(* The manager.                                                            *)

Manager == <<enabled, instances, mgr, asked>>
Fleet == <<files, requests, row, revoked, preset, resets, secrets>>

Unlocked == mgr.op = "none"

Enable ==
  /\ Unlocked /\ ~enabled
  /\ enabled' = TRUE
  /\ UNCHANGED <<instances, mgr, asked, proc, Fleet, cleared, starts>>

\* start_fleet: 409 unless enabled.
MayStartUnlocked == enabled \/ mgr.op = "disable"  \* mutant: checked before the lock
MayStart == Unlocked /\ enabled

\* _next_ids: a stopped identity or a new number, never one that runs.
NextIdAny(d) == TRUE  \* mutant: the identities that run are not excluded
NextId(d) == ~Running(d)

Start(d, p) ==
  /\ MayStart /\ NextId(d)
  /\ starts < MaxStarts
  /\ ~Live(p) /\ p \notin {instances[e] : e \in Devices \ {d}}
  /\ \A r \in requests : r.proc # p
  /\ proc' = [proc EXCEPT ![p] = [dev |-> d, pc |-> "boot", secret |-> 0, key |-> starts + 1]]
  /\ instances' = [instances EXCEPT ![d] = p]
  /\ starts' = starts + 1
  /\ cleared' = FALSE
  /\ UNCHANGED <<enabled, mgr, asked, Fleet>>

\* disable_simulation, stop_all, reset_simulation take the lock and the list
\* of what runs.
BeginStop(op, id) ==
  /\ Unlocked
  /\ \/ op = "reset" /\ id \in asked
     \/ op \in {"disable", "stop"} \cap Operations /\ id = 0
  /\ mgr' = [op |-> op, todo |-> {p \in Procs : \E d \in Devices : instances[d] = p},
             reset |-> id]
  /\ asked' = asked \ {id}
  /\ enabled' = (enabled /\ op = "stop")
  /\ UNCHANGED <<instances, proc, Fleet, cleared, starts>>

\* ManagedProcess.stop: SIGTERM, and SIGKILL after seven seconds.
StopOne(p) ==
  /\ p \in mgr.todo
  /\ proc' = [proc EXCEPT ![p] = Dead]
  /\ mgr' = [mgr EXCEPT !.todo = @ \ {p}]
  /\ UNCHANGED <<enabled, instances, asked, Fleet, cleared, starts>>

EndStop ==
  /\ mgr.op \in {"disable", "stop", "reset"} /\ mgr.todo = {}
  /\ mgr' = IF mgr.op = "reset" THEN [mgr EXCEPT !.op = "purge"] ELSE NoHandler
  /\ UNCHANGED <<enabled, instances, asked, proc, Fleet, cleared, starts>>

\* _purge_simulated_state_locked, file by file.
Purge(d, f) ==
  /\ mgr.op = "purge" /\ files[d][f] # 0
  /\ files' = [files EXCEPT ![d][f] = 0]
  /\ UNCHANGED <<Manager, proc, requests, row, revoked, preset, cleared, starts,
                 resets, secrets>>

EndPurge ==
  /\ mgr.op = "purge" /\ \A d \in Devices : files[d] = NoFiles
  /\ mgr' = NoHandler
  /\ instances' = [d \in Devices |-> None]
  /\ preset' = IF preset = "asked" /\ mgr.reset = resets THEN "purged" ELSE preset
  /\ UNCHANGED <<enabled, asked, proc, files, requests, row, revoked, cleared, starts,
                 resets, secrets>>

\* The manager's container is stopped with every process in it.
ManagerCrash ==
  /\ "crash" \in Operations
  /\ mgr.op # "none" \/ \E p \in Procs : Live(p)
  /\ enabled' = FALSE
  /\ instances' = [d \in Devices |-> None]
  /\ mgr' = NoHandler /\ asked' = {}
  /\ proc' = [p \in Procs |-> Dead]
  /\ preset' = IF preset = "asked" THEN "idle" ELSE preset
  /\ UNCHANGED <<files, requests, row, revoked, cleared, starts, resets, secrets>>

-----------------------------------------------------------------------------
(* A simulator process.                                                    *)

Send(p, kind, secret) ==
  /\ requests' = requests \cup {[proc |-> p, kind |-> kind, dev |-> proc[p].dev,
                                 secret |-> secret, key |-> proc[p].key]}
  /\ proc' = [proc EXCEPT ![p].pc = kind, ![p].secret = secret]

OnDisk(p) == files[proc[p].dev]
CredentialsAvailable(f) == f["key"] # 0 /\ f["certificate"] # 0 /\ f["provisioning"] # 0

\* validate_local_credentials: the certificate is for the private key.
ValidNever(f) == TRUE  \* mutant: files that are there are used
Valid(f) == f["key"] = f["certificate"]

\* provision_if_needed and ensure_factory_identity, up to the first request.
Boot(p) ==
  /\ proc[p].pc = "boot"
  /\ LET f == OnDisk(p)
     IN \/ /\ CredentialsAvailable(f)
           /\ proc' = IF Valid(f) THEN [proc EXCEPT ![p].pc = "connecting"]
                                  ELSE [proc EXCEPT ![p] = Dead]
           /\ UNCHANGED requests
        \/ /\ ~CredentialsAvailable(f) /\ f["factory"] # 0
           /\ Send(p, "enroll", f["factory"])
        \/ /\ ~CredentialsAvailable(f) /\ f["factory"] = 0
           /\ Send(p, "register", 0)
  /\ UNCHANGED <<Manager, files, row, revoked, preset, cleared, starts, resets, secrets>>

\* atomic_write, one file after the other.
Save(p, pc, file, value, next) ==
  /\ proc[p].pc = pc
  /\ files' = [files EXCEPT ![proc[p].dev][file] = value]
  /\ proc' = [proc EXCEPT ![p].pc = next]
  /\ UNCHANGED requests

Saves(p) ==
  /\ \/ /\ proc[p].pc = "saveFactory"
        /\ files' = [files EXCEPT ![proc[p].dev]["factory"] = proc[p].secret]
        /\ Send(p, "enroll", proc[p].secret)
     \/ Save(p, "saveKey", "key", proc[p].key, "saveCertificate")
     \/ Save(p, "saveCertificate", "certificate", proc[p].key, "saveProvisioning")
     \/ Save(p, "saveProvisioning", "provisioning", proc[p].key, "connecting")
  /\ UNCHANGED <<Manager, row, revoked, preset, cleared, starts, resets, secrets>>

\* The first connection, or mqtt_connect_timeout.
Connect(p) ==
  /\ proc[p].pc = "connecting"
  /\ IF OnDisk(p)["certificate"] \in revoked
       THEN proc' = [proc EXCEPT ![p] = Dead]
       ELSE proc' = [proc EXCEPT ![p].pc = "running"]
  /\ UNCHANGED <<Manager, Fleet, cleared, starts>>

\* http_json gives up; the request stays where it is.
GiveUp(p) ==
  /\ "timeout" \in Operations
  /\ proc[p].pc \in Waiting
  /\ proc' = [proc EXCEPT ![p] = Dead]
  /\ UNCHANGED <<Manager, Fleet, cleared, starts>>

-----------------------------------------------------------------------------
(* The API.                                                                *)

\* The process, if it still waits, goes on with the answer or exits with an
\* error.
Answer(r, pc, secret) ==
  IF proc[r.proc].dev = r.dev /\ proc[r.proc].pc = r.kind
    THEN proc' = [proc EXCEPT ![r.proc] =
                    IF pc = "dead" THEN Dead ELSE [@ EXCEPT !.pc = pc, !.secret = secret]]
    ELSE UNCHANGED proc

Served(r) == requests' = requests \ {r}

\* A device without a certificate has nothing to revoke.
Tombstones(certs) == revoked \cup (certs \ {0})

RegisterOnce(r) ==  \* mutant: 409 is an error like any other
  /\ r \in requests /\ r.kind = "register"
  /\ \/ /\ ~row[r.dev].known
        /\ row' = [row EXCEPT ![r.dev] = [known |-> TRUE, secret |-> secrets + 1, cert |-> 0]]
        /\ secrets' = secrets + 1
        /\ Answer(r, "saveFactory", secrets + 1)
     \/ /\ row[r.dev].known
        /\ Answer(r, "dead", 0)
        /\ UNCHANGED <<row, secrets>>
  /\ Served(r)
  /\ UNCHANGED <<Manager, files, revoked, preset, cleared, starts, resets>>

\* POST /admin/devices: 201 with a secret, or 409, upon which the process asks
\* to have the secret reset.
Register(r) ==
  /\ r \in requests /\ r.kind = "register"
  /\ \/ /\ ~row[r.dev].known
        /\ row' = [row EXCEPT ![r.dev] = [known |-> TRUE, secret |-> secrets + 1, cert |-> 0]]
        /\ secrets' = secrets + 1
        /\ Answer(r, "saveFactory", secrets + 1)
        /\ Served(r)
     \/ /\ row[r.dev].known
        /\ Answer(r, "rotate", 0)
        /\ requests' = (requests \ {r}) \cup
             (IF proc[r.proc].pc = "register" /\ proc[r.proc].dev = r.dev
                THEN {[r EXCEPT !.kind = "rotate"]} ELSE {})
        /\ UNCHANGED <<row, secrets>>
  /\ UNCHANGED <<Manager, files, revoked, preset, cleared, starts, resets>>

\* POST /admin/devices/<id>/reset-bootstrap.
Rotate(r) ==
  LET old == row[r.dev]
  IN /\ r \in requests /\ r.kind = "rotate"
     /\ IF old.known
          THEN /\ row' = [row EXCEPT ![r.dev] =
                            [known |-> TRUE, secret |-> secrets + 1, cert |-> 0]]
               /\ revoked' = Tombstones({old.cert})
               /\ secrets' = secrets + 1
               /\ Answer(r, "saveFactory", secrets + 1)
          ELSE Answer(r, "dead", 0) /\ UNCHANGED <<row, revoked, secrets>>
     /\ Served(r)
     /\ UNCHANGED <<Manager, files, preset, cleared, starts, resets>>

\* Challenge and enrollment: a registered device that is not provisioned, and
\* its own secret.
Enroll(r) ==
  LET old == row[r.dev]
  IN /\ r \in requests /\ r.kind = "enroll"
     /\ IF old.known /\ old.secret = r.secret /\ old.cert = 0
          THEN /\ row' = [row EXCEPT ![r.dev].cert = r.key]
               /\ Answer(r, "saveKey", r.secret)
          ELSE Answer(r, "dead", 0) /\ UNCHANGED row
     /\ Served(r)
     /\ UNCHANGED <<Manager, files, revoked, preset, cleared, starts, resets, secrets>>

-----------------------------------------------------------------------------
(* reset_project.                                                          *)

\* stop_and_purge_simulation: the request to the manager.
AskReset ==
  /\ "reset" \in Operations
  /\ preset = "idle" /\ resets < MaxResets
  /\ preset' = "asked" /\ resets' = resets + 1
  /\ asked' = asked \cup {resets'}
  /\ UNCHANGED <<enabled, instances, mgr, proc, files, requests, row, revoked, cleared, starts, secrets>>

\* After eight seconds, or when a file cannot be removed, the reset is refused;
\* the manager finishes its own work all the same.
RefuseReset ==
  /\ preset = "asked"
  /\ preset' = "idle"
  /\ UNCHANGED <<Manager, proc, files, requests, row, revoked, cleared, starts,
                 resets, secrets>>

\* clear_runtime_database.
Clear ==
  /\ preset = "purged"
  /\ row' = [d \in Devices |-> Unknown]
  /\ revoked' = Tombstones({row[d].cert : d \in Devices})
  /\ preset' = "idle"
  /\ cleared' = (\A p \in Procs : ~Live(p))
  /\ UNCHANGED <<Manager, proc, files, requests, starts, resets, secrets>>

-----------------------------------------------------------------------------
Stopping ==
  \/ \E op \in {"disable", "stop", "reset"}, id \in 0 .. resets : BeginStop(op, id)
  \/ \E p \in Procs : StopOne(p)
  \/ EndStop
  \/ \E d \in Devices, f \in File : Purge(d, f)
  \/ EndPurge

Goes(p) == Boot(p) \/ Saves(p) \/ Connect(p)
Serves(r) == Register(r) \/ Rotate(r) \/ Enroll(r)

Next ==
  \/ Enable \/ Stopping \/ ManagerCrash
  \/ \E d \in Devices, p \in Procs : Start(d, p)
  \/ \E p \in Procs : Goes(p) \/ GiveUp(p)
  \/ \E r \in requests : Serves(r)
  \/ AskReset \/ RefuseReset \/ Clear

Spec == Init /\ [][Next]_vars

\* Processes run, and the API serves what it has received.
FairSpec ==
  /\ Spec
  /\ \A p \in Procs : WF_vars(Goes(p))
  /\ WF_vars(\E r \in requests : Serves(r))

-----------------------------------------------------------------------------
(* Properties.                                                             *)

\* Two simulators of one device would present one certificate, and the broker
\* would disconnect them in turn (use_username_as_clientid).
OneProcessPerDevice ==
  \A p, q \in Procs : Live(p) /\ Live(q) /\ proc[p].dev = proc[q].dev => p = q

\* docs/architecture.md:64: "Disabling simulation terminates all managed
\* simulator processes", also those started while it was being disabled.
DisabledMeansStopped == ~enabled /\ Unlocked => \A p \in Procs : ~Live(p)

\* A simulator connects with the key and the certificate of one enrollment,
\* whatever interrupted purges and installations have left in its directory.
ConnectsAsOneEnrollment ==
  \A p \in Procs : proc[p].pc \in {"connecting", "running"} =>
    OnDisk(p)["key"] = OnDisk(p)["certificate"]

\* A simulator that nobody interrupts gets to run, on a registry that knows
\* its device, or has even provisioned it, as on one that does not.
StartedRuns ==
  \A p \in Procs : proc[p].pc = "boot" ~> proc[p].pc = "running"

\* project_reset.py:217: a reset stops the simulators first because "a running
\* simulator could immediately re-register devices": once it has cleared the
\* registry, and until a simulator is started again, no device is in it.
\* It does not hold: README, Disagreements.
ResetIsClean == cleared => \A d \in Devices : ~row[d].known
=============================================================================
