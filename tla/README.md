# Verification of the Secure IoT Device Platform

TLA+ models of the platform, the TLC configurations that check them on small
instances, and proofs of their main properties that hold for every instance.
The reference is the code under `src/`; each definition of a module is
translated from the lines that `PROJECT.json` (`map`) names for it.

Contents: [Inventory](#inventory) · [Modules](#modules) · [Runs](#runs) ·
[Fairness](#fairness) · [Proofs](#proofs) · [Disagreements](#disagreements) ·
[Limits of the code](#limits-of-the-code) ·
[Not modelled](#not-modelled) · [Plan](#plan)

To check a run, `tlc -workers 2 -config <Name>.cfg MC<Name>.tla`; to check the
proofs, `tlapm <Module>Proofs.tla`.

## Inventory

The platform enrolls ESP32 gateways (and simulated ones) into a private X.509
PKI, lets them talk MQTT over mutual TLS, and shows and commands them from a
dashboard. It consists of

| part | where | state it keeps |
|---|---|---|
| API server | `server/app` | SQLite tables (devices, bootstrap sessions, tombstones, commands, events), the CRL file, `restart.request` |
| registry command line | `scripts/admin.py` | none of its own: a second process on the same database and files |
| MQTT control service | `server/app/mqtt_service.py` | a client with a queue of messages, the stale monitor |
| broker | `broker/` + Mosquitto | the CRL it loaded, sessions, retained messages; a watcher with two hashes |
| gateways | `firmware/esp32/*_Gateway` | identity in NVS, credential files in LittleFS, device drivers |
| simulated fleet | `simulators/` | one process per device, a directory of credential files each |
| manufacturing station | `scripts/factory_*.py` | a build directory and its record, the serial port |
| manufacturing agent | `scripts/manufacturing_agent.py` | one lock, one job record, one child process |
| manufacturing page and its proxy | `templates/manufacturing.html`, `routers/manufacturing.py` | what the page shows, one submission, requests under way |
| time service | `server/app/local_time_service.py` | none: the time of its host, signed |
| installer, launcher | `scripts/setup.py`, `start_platform.py` | `.env`, PKI files, pid file, containers |

### Components, what is hard about them, what makes them correct

* **Device registry and enrollment** (challenge, enroll, revoke, reset, delete,
  project reset, purge of simulated devices, CRL rebuild). Each request has a
  session of its own on SQLite, reads without locks, keeps what it read in
  objects no commit refreshes, and commits only the columns it changed; the CRL
  is a file rebuilt outside the transaction. Hard: interleavings, stale rows,
  a failure between commit and rebuild. Correct: a provisioned device has a
  certificate that is valid; one open challenge per device; a challenge once
  consumed stays so; tombstones stay; a certificate is never out of sight.
* **CRL propagation** (replace the CRL, write `restart.request` through a
  shared temporary file, poll, SIGHUP, restart). Hard: two pollers' baselines,
  requests that overwrite each other, crashes between. Correct: a revoked
  certificate is shut out in the end, and the broker is not restarted for ever.
* **Presence** (status, telemetry, last will, retained replay, stale monitor,
  operators). Hard: three threads write one row from copies. Correct: barred
  and silent devices end up offline, talking ones online.
* **Remote commands** (REST thread, client with its own queue, QoS 1, window
  of ids on the device, responses). Hard: redelivery, late acknowledgements and
  responses that race the thread that waits; three kinds of device (a simulated
  one remembers ids, the demonstration device and a board do not, a board
  restarts). Correct: a command is carried out no oftener than it must be, the
  device ends with the latest, a response is kept, nobody hangs.
* **Credential storage** (five files, each written to a temporary file and
  renamed; a marker last). Hard: power loss anywhere, failing flash operations.
  Correct: credentials usable only if complete and of one enrollment.
* **Firmware build** (decide, build, record, erase, upload). Hard: a run killed
  while its compiler goes on, a record that failed to be written. Correct: the
  board gets the configured firmware and is erased only for a compiled one.
  Runs at two stations share the directory, and nothing locks it.
* **Manufacturing agent and its page** (start job, follow its output, time out,
  release; submit, poll, show). Hard: threads, the end of the child against the
  deadline, a restart of the agent, a project reset meanwhile, answers put
  together from several requests, submissions given up. Correct: one job at a
  time, the page shows success only of what was verified and shows every end, the
  station is freed.
* **Simulated fleet** (start, stop, disable, purge, boot, register, enroll,
  connect). Hard: processes killed at any point, requests still at the API.
  Correct: one process per device, disabled means stopped, files of one
  enrollment.
* **Factory provisioning and bootstrap** (serial protocol, registration or
  rotation of the secret, signed time, challenge, enrollment). Hard: four
  parties, lost lines and answers, timeouts and retries, a new installation, a
  host whose time is wrong. Correct: "ready" is true, no late
  request replaces what the board holds, a board can always be manufactured
  again.
* **Drivers of the gateways**. DALI: a loop task and a timer interrupt share
  variables without a lock. CromaLED: a serial port that is handed over from the
  station to the lamp in the middle of what the lamp says, and a receive buffer
  that overflows while the agent holds up the loop. AS7341: a sample of two
  measurements, polled, with a timeout. Correct: what the lamp hears is what was
  sent, levels arrive, a temperature is one that was sent, samples keep coming.
* **Installation** (`.env`, CA, service and internal certificates, database
  key, one file at a time). Hard: a run killed anywhere, a removal that fails, a
  changed address, an older release. Correct: what is served is consistent; a start
  succeeds again.
* **Platform start** (token, pid file, port, containers). Hard: overlapping
  launchers, reused process ids. Correct: agent and API hold the same token.

Interactions: the registry calls the CRL rebuild and asks the broker to evict;
the launcher starts the agent, which starts the factory script, which calls the
API; the project reset asks the agent and the simulation manager before it
clears the tables; gateways and simulators call the same two API operations;
the drivers run in one loop with the agent that provisions the board and keeps
its connection, and wait while it does.

## Modules

Each component has a module, an `MC...` module that TLC runs and a `.cfg`. The theorems
are in eight `...Proofs` modules. Four of them are about several components, which is
why CrlBroker, Presence, PlatformStart and FirmwareBuild name their specification
`BrokerSpec`, `PresenceSpec`, `StartSpec` and `BuildSpec`. Where a guarantee holds only
in some circumstances, the MC module (for the firmware build, `FirmwareHistory`, which
the proofs use as well) adds a variable that says which behaviours these are ("regime",
"calm", "steady", "recorded", "overtaken", "orderly"), so that one run shows both
everything that holds always and what holds under the assumption. Definitions marked
`mutant` are the faulty variants named in `PROJECT.json` (`mutants`); no specification
uses them.

**Enrollment** (`Enrollment`, `MCEnrollment`, `EnrollmentProofs`). `dev`, `sess`
and `tomb` are the tables, `crl` the file, `dropped` the sessions a requested
restart ends. A handler is a record `h[w]`: its operation, the step it is at
(`pc`), and the rows as it loaded them. A step is one SELECT, one COMMIT or one
file operation: `ChallengeLoad`, `ChallengeCommit`, `EnrollLoadSession`,
`EnrollLoadDevice`, `EnrollCount`, `EnrollReject`, `EnrollSign`, `Lookup`,
`EnrollCommit`, `RevokeCommit`, `Rekey`, `PurgeCommit`, `CrlRead`, `CrlWrite`,
`Evict`, `Abort`. `Flush` is what SQLAlchemy writes of a changed object: the
columns that differ from the loaded copy. `certs` and `tries` are history.

**CrlBroker** (with `HostProofs`). `revocation[c]` follows one through the files,
`listed` is the CRL; `tmp` and `request` hold what the hash of the request tells apart;
`watch`, `seenCrl`, `seenRequest` are the shell watcher; `mosq`, `hup`, `loaded`, `conn`
Mosquitto. `missed` is history: the certificates whose request the watcher's first look
took as handled although Mosquitto had started without them; it lasts one life of the
broker. Certificates are revoked at any moment, the broker being up or not.

**Presence** (with `DeviceProofs`). `dev` is the part of a row that decides what is
shown, `m`, `monitor`, `op` the copies of the three writers, `retained` and `inbox` the
broker's side. `fresh` abstracts `last_seen` against the timeout.

**CommandFlow** (with `CommandFlowProofs`). `thread[c]` is the REST request and `status`
the commands table, `out` and `taken` the client's queue, `toDevice` the broker's,
`recent` the simulated device's window of ids, `blocked` the demonstration device's
callback, `outbox`, `replies` and `m` the way back. `kind`, chosen at the start, says
which of the three devices it is: what it remembers, whether it waits for the
acknowledgement of its telemetry, and what a restart does.

**DeviceStorage** (with `DeviceProofs`), abstract specification **CredentialStore**. One
action per flash operation of `IdentityStorage.cpp` and per decision of `begin()`; `n`
is the file of the order at hand, `files`, `temps`, `identity` survive a `PowerLoss`,
the rest does not. `CredentialStore` promises a store that changes at once;
`StoresAtomically` is the refinement.

**FirmwareBuild** (with `FirmwareHistory`, `ManufacturingProofs`). `inputs`,
`state`, `artifact`, `libdeps` are what the product directory holds; `run[s]` is the
run at a station, `orphans` the compilers that outlived theirs, `board[s]` what was
uploaded. `FirmwareHistory` adds two history variables: `overtaken[s]`, a run of
another configuration was started while that of `s` went on, and `recorded`, every
build so far has been recorded.

**Manufacturing**, extended by **StationPage** (with `ManufacturingProofs`). `lock`,
`current`: the two globals; `post[j]`, `worker[j]`, `child[j]`: request thread, worker
thread and process of a job; `reset[r]`: a project reset between its check and its
deletion. The page adds `poll` (status requests, each in several steps), `inFlight` and
`answer` (its submission) and `page` (what it shows).

**SimulationFleet** (with `SimulationFleetProofs`). `mgr` is the handler that holds the
manager's lock, `proc` the processes, `files` their directories, `requests` what the API
has been sent, `row` and `revoked` its tables.

**Provisioning** (with `ProvisioningProofs`). `server` (row and open session), `board`
(where `begin()` is, what the flash and the clock hold, whether the keys in its firmware
are the installation's), `station` (where `provision_device` is); `call` and `late` are
HTTPS requests waited for and given up, `wire` and `lines` the serial line. The API's
handlers are atomic here, because Enrollment takes them apart. `ForceSetup` replaces the
installation under all of them.

**DaliTransmitter** (with `GatewayProofs`), abstract specification **ArcPower**.
`OnTimer` is the interrupt, one half bit per step; `Task`, `SetFrame`, `SetIndex`, `Arm`
are the statements of the loop between which it may fall; `wire` and `lamp` are a
receiver that knows only the pin. `ArcPower` promises whole frames, in turn, with the
level of their channel; `ImplementsArcPower` is the refinement.

**CromaLamp** (with `GatewayProofs`). `fifo` is the UART, `parser` the number under way
and the last reading, `saying` and `shown` the lamp; `parser.doubtful` is history: a
character of the number was lost. **SpectralSensor** (with `GatewayProofs`). `at` says
whether the loop is in the driver or in the agent, `reading` is the library's state,
`held` the halves of the buffer that are of this sample. **MCGatewayDrivers** composes
the three drivers: `family` chooses in the initial state the one the board has.

**Installation** (with `HostProofs`). A run is the sequence `todo` of its remaining
tasks, one file write each; `Kill` ends it anywhere, also in the middle of a file
(`Torn`). Keys are numbers; a certificate is its key, its issuer's key and its address.
`Drop` removes a directory, part of it or nothing, and the run goes on, as `rmtree` with
`ignore_errors` does (setup.py:572); a write or `unlink` that raises ends the run as
`Kill` does. `left` is history: the internal identities, and the CA certificate, that
were there when the CA's key was drawn and have not been written since.

**PlatformStart** (with `HostProofs`). `procs` maps process ids to what runs under them;
`pc[l]` is how far each launcher is.

## Runs

All passed: TLC explored every reachable state.

| run | shows | bounds, and why they are enough |
|---|---|---|
| Enrollment | provisioned means valid; one open challenge; consumed is final; without overlap every certificate is accounted for; without faults the CRL is complete | 1 device, 2 handlers: every race in the code is between two requests about one device; 2 sessions, serials and secrets: one old, one new; 1 attempt |
| CrlBroker | what the watcher has seen is in force, but for its first look; revoked is shut out, unless a request is left truncated, and one the first look missed for no longer than that life of the broker; no restart loop | 2 revocations (enough to share the temporary file), 2 crashes |
| Presence | barred and silent devices go offline, talking ones online | 1 device (rows are independent), 2 messages under way, 1 replay |
| CommandFlow | a command runs no oftener than it must, the device ends with the latest, answers are kept, neither a request nor a device hangs | 3 kinds of device; 2 commands, the second a level or a restart, 1 in flight, a window of 1: the least that the assumption `Window >= 2 * Inflight - 1` allows, which the code's 128 (simulated_device.py:131) and 20 (the client library's default) satisfy by far; 1 lost link, 1 lost session |
| DeviceStorage | complete or absent, never without identity, atomic, and the board runs | 2 enrollments: one to overwrite the other |
| FirmwareBuild | what is uploaded is what was configured, unless a run of another configuration overtook it; as long as every build was recorded, erased only when compiled | 4 configurations at one station: a base and one change of each kind the record compares; or 2 at two stations: a third station could only do what the second did before |
| Manufacturing | the worker owns the record; what the page shows as success is verified; the station is freed; an end is shown | 2 jobs, one of the page and one from elsewhere, 1 poll, 1 reset, 1 restart: the job before, at and after it |
| SimulationFleet | one process per device; disabled means stopped; files of one enrollment; a calm start runs | 1 device, 2 processes, 3 starts, 1 reset |
| Provisioning | what is held is current, ready is true, and every board gets on line | 1 request given up (one late request per run is enough to meet a newer secret); identifiers are reused when nobody holds them |
| GatewayDrivers | DALI implements ArcPower; a temperature that lost no character was sent; both lamps follow a level left alone; samples keep coming | DALI: 2 channels, a period of 39 half bits instead of 239: a frame of 38 fits and the loop waits longer for nothing. CromaLED: numbers of 2 characters and buffers of 3, so that a buffer ends in the middle of the second number. AS7341: a timeout of four measurements, as the code's of its own. 1 late interrupt, lost frame or restart, 1 hung measurement |
| Installation | what a successful start serves is consistent; identities fit the CA or outlived a forced run, which takes a kill or a failed removal; a steady installation starts again | 2 addresses, 2 kills, 2 forced runs, 1 directory that cannot be removed, or not all of it; 8 keys of a kind (no more than 7 are in use at once, so that a new one can be drawn) |
| PlatformStart | orderly starts share one token | 2 launchers, 3 process ids, 3 tokens, 1 reused id, 1 interruption |

Deadlock is checked, except where the system may really stop: no request comes
and the bound on identifiers is used up (Enrollment, CommandFlow, Manufacturing,
SimulationFleet, Installation, PlatformStart), or the board is on line and the
operators are done (Provisioning).

Stated in the modules and not part of a run, because they are weaker than, or
close to, one that is: the type invariants (proved where there is a `...Proofs`
module, as part of its invariant, and true in the runs of the others);
`UnavailableNeverRuns`, `BusyWhileProgramming`, `OnlyResetForgets`, `FrameStable`,
`HeardIsSent`, `CaKept` and `NoneOutlivesTheCa`, which are proved; `RestartComes`, `OutStaysOut`,
`BarredStaysOffline` and `OnceFreshStaysFresh`, the safety of a liveness property that
is in a run, proved; `SamplesAreWhole` and `SecretsLostHalfWritten`, proved;
`SerialGuessesBounded`, `RevokedSessionsAreDropped` and `ListenerSpared`.

What the runs assume, apart from bounds:

* DeviceStorage: removing the marker does not fail (`"unmark"` is not in
  `Faulty`); the code ignores the result. With it, see Disagreements.
* CrlBroker: `RevokedIsShutOut` is about behaviours in which no request stays
  `Truncated` (see Limits of the code) and leaves out `missed`, without which it
  does not hold (`EveryRequestShutsOut`, see Disagreements).
* Installation: `IdentitiesWhole` leaves out half-written files and identities that
  outlived a forced run (`Outlasted`; it takes a kill or a removal that failed).
  Without these it does not hold (`IdentitiesFit`, see Disagreements).
* PlatformStart: two processes cannot listen on the agent's port, as on Linux.
* FirmwareBuild: PlatformIO compiles what has changed and an upload builds first.
* GatewayDrivers: the lamp ends each number with a line end and receives a frame
  it is sent, but for the bounded faults.

## Fairness

Fairness is weak unless a step can be disabled again and again.

* Threads, processes and the shell watcher that can take a step do: nothing in
  the code suspends them (CrlBroker, Presence, CommandFlow, Manufacturing,
  SimulationFleet, Installation). No fairness is assumed of operators, failures,
  losses, crashes or clients, except below.
* Presence: time passes (`Age`); a device with a session publishes (strong
  fairness: its session may be lost between two messages), as its loop does.
* CommandFlow: the demonstration device's wait for an acknowledgement ends (5 s);
  links and sessions are lost a bounded number of times.
* Manufacturing: the page polls and the API answers or gives up; time passes and
  a child that does not exit keeps printing:
  the deadline is looked at only when a line arrives (`manufacturing_agent.py:222`),
  so a silent child would hold the station for ever.
* DeviceStorage: strong fairness of each step of the start: power and network
  fail now and then, not every time.
* Provisioning: `quiet` comes at last, that is failures do not go on for ever and
  the host of the time service has the right time; after it a timeout
  ends only what waits for something that cannot come (the
  timeouts of the code are longer than what they wait for); the operator
  manufactures a board that is off line again.
* GatewayDrivers: the timer's alarm repeats and `loop()` calls `task()`; the lamp
  and the sensor go on; `SamplesKeepComing` is about the time after the agent has
  come to leave the loop free (`free`).
* Installation: the operator starts a platform that is not running again.

## Proofs

TLAPS checks every theorem here for all values of the constants that satisfy the
assumptions named in the modules: any number of devices, handlers, commands, jobs,
stations, processes, channels, failures and restarts. Each proof has the same
shape: an invariant that is inductive, one lemma per group of actions, and a last
step that combines them. TLC checked each invariant on the run's instance before it
was proved. What follows says for each component what is proved and why the
property is not inductive by itself.

**EnrollmentProofs.** `TypeCorrect`, `TombstonesPermanent`,
`ProvisionedAlwaysValid`, `OneOpenChallengeAlways` and `ConsumedFinal`, with any
overlap and faults; `SerialAccounted` and `CalmCrl`, in the regimes of
`MCEnrollment` they are about.
`ProvisionedIsValid` is not inductive: a handler about
to commit `provisioned` may hold a stale row, and one about to tombstone may
hold the serial of a certificate issued meanwhile. The invariant `IInv` adds
where the serials of rows, marks and handlers come from (`SerialsOK`: committed,
and for that device), that a signed serial is nobody else's (`SignedOK`), that
the CRL and a rebuild's snapshot list tombstones only (`CrlOK`), and that the
certificate a revocation or a reset loaded with an already revoked row is not
that of a provisioned device (`StaleRevokedOK`: it will not write
`lifecycle_status` again, so it must find it so). Each conjunct has a lemma per
group of actions; `IInvNext` combines them. `OneOpenChallenge` needs only
`TypeOK`, `PhaseOK` and the lemma `OpenSteps`: only the commit of a challenge
opens a session, and it closes the device's others. `ConsumedIsFinal` needs that a
session id waiting for its commit is new and nobody else's (`NewSessionsOK`):
otherwise an insertion could replace a consumed row. For the last two, `SerialInv`
adds that only one handler is at work, that what it loaded is still what the tables
hold (`LoadedOK`: the reverse of the stale rows above), and, where nothing fails
either, that the CRL lists every tombstone but for a rebuild under way, whose
snapshot does (`RebuildOK`).

**DeviceProofs**, about what a device stores and how it is shown. DeviceStorage, for any
number of enrollments and any faults under the assumption `MarkerRemovable`:
`TypeCorrect`, `MarkerSound`, `IdentityFirst`, `OnlyReset`, and `FlashImplementsStore`,
the refinement of `CredentialStore`. The invariant `Inv` says where the credentials held
in RAM are while they are installed (no marker, and files 1 .. n-1 are theirs) and that
the marker goes first when they are cleared; without it a step that writes the marker
could complete files of two enrollments. The refinement maps the credentials a board
would find to `stored`: writing the marker is the one step that is `Store`.

Presence, for any devices, operations, messages under way and subscriptions:
`PresenceTyped` and `StaysOffline`. That no message marks a barred device online again
is refuted (`RevokedStaysOffline`), so the theorem says how long the exception lasts:
until the message has been stored that was taken up before the revocation, and no
longer. From then on (`SettledOffline`) no writer shows the device online, because
whatever row a message is judged by was loaded after the bar, or the bar is lifted;
because the commit of a session writes only the columns that session changed (`Stored`,
`Marked`, `Operated`, one per writer), so that neither the monitor nor an operator
brings back an old `online`; and because a retained status is a message like any other.
The types (`PInv`) are those of the rows, of their copies and of the messages in the
order they are in.

**CommandFlowProofs.** `RunsBounded`, `AnswersKept`, `RefusedNeverRuns` and
`SettlesLatest`, for each kind of device. Why a simulated device carries out a command
once at most is an argument about the two queues and the window of ids, and the
assumption it needs is `Window >= 2 * Inflight - 1`. A command can come again only while
it is in the client's queue, so at most `Inflight` places after the first unacknowledged
one (`Published`); of two that reached the device, the later is less than `Inflight`
places further back (`InOrder`); so the ids that push one out of the window lie in a
stretch of fewer places than the window has (lemma `Crowded`, the pigeonhole principle
on `Place`, lemma `Forgotten`), and a forgotten command cannot come again (`Remembers`).
The other devices remember nothing: `Budget` adds up what was carried out, what waits
and what this connection may still bring, and only a lost connection raises the sum.
`RefusedNeverRuns` adds that a refused command was never published (`Refused`).
`SettlesOnLatest` needs, for a device that remembers nothing, `Settling`: once
delivered, the last level is the last one on its way or the one the device has; and for
the simulated device `InTurn`: what it ignores it has carried out before, so that its
commands take effect in the order of publication.

**ManufacturingProofs**, about Manufacturing and StationPage. `WorkerOwns` and
`Busy` need `Handover`: request, worker and child of a job are started one by
the other, and the lock changes hands between the first two, which no step
releases in between; and `Attended`: without a restart of the agent, a running
child has a worker that reads it. `PageUsesTheAgent`: the page does nothing
to the agent that other requests could not do, so that what is proved of the
agent holds with the page (StationPage refines Manufacturing). `ShownSuccess` then
needs that every copy of a job that is on its way to the page, in a status
request or in the answer to the submission, was read from a job whose child had
exited with 0 (`Sights`), and that an exited child stays so (`OkStays`).

The same module holds the theorems about the script a job runs (`FirmwareHistory`).
`OwnUpload` rests on `Own`: until a run is overtaken, the inputs in the directory are
its own (lemma `StepsOfOne`: no step of a run in progress changes the inputs, or another
station's run). `ErasesCompiled` rests on `Recorded`: as long as every build was
recorded, no compiler outlives its run, one run goes on at a time, and the record of a
configuration means that its artifact is there.

**SimulationFleetProofs.** `OneProcess`, `DisabledStops` and `OneEnrollment`. The
invariant says that the manager knows every process (`Tracked`), that a handler
stopping the fleet still has each one that lives on its list (`StopsAll`),
and that the files a process wrote since it got its certificate are still its own
(`Written`), which needs `Tracked` in turn: two processes of one device would share the
directory.

**ProvisioningProofs.** `HeldCertificateIsCurrent` and `ReadyBoardIsVerified`, for any
number of abandoned requests; `MaxId >= 8 + MaxLate` is needed for a fresh identifier
always to exist (lemma `FreshIsFree` counts those that are held). `Phases` says what is
in flight in each phase, `SecretsUnused` that nobody asked for a certificate with a
secret that is still on its way to the board, `CertsCurrent` that the certificate the
board has, or is being answered with, is the registry's, or that the registry has
another secret by now and has issued nothing for it. `Heard` relates the lines on the
serial port, which the station reads late, to what the board holds now; without it READY
could be concluded from a line printed before.

**GatewayProofs**, about the drivers.

DALI: `ImplementsArc`, the refinement of `ArcPower`, `HeardAlwaysSent` and
`FrameAlwaysStable`, with interrupts between any two statements of the loop. The
invariant `DInv` says that no frame is on the bus between the first and the last
assignment of `sendArc` (`Prepared`), that the pending frame is that of the call once it
has been assigned (`Armed`), that what the lamp has received is a stretch of the
waveform of that frame (`HeardIsSent`), and that it starts low and has no framing error
(`SoundSoFar`). The refinement turns on one lemma, `AllOrNothing`: a lamp that starts
listening in the middle of a frame takes a later half bit for the start and is still
receiving when the stop bits come; two equal halves in one of its bits are a framing
error, whether it is shifted by an even or an odd number of half bits. So at the last
half bit it has heard everything or nothing, what it has heard decodes to the frame
armed (`DecodedIsPending`) and exactly the ballast with that address accepts it
(`AcceptedByOne`, from `ByteInjective`).

CromaLED: `TemperatureAlwaysSent`, for every set of numbers with a sign only in front
that fit the buffer, every length of the UART's buffer and every silence
(`LampAssumption`). A reading is made in the parser, long after the character was lost
that spoils it, so the invariant `LInv` speaks of the parser as it will be once it has
read all that the port holds (`Heard`): it and the parser now are sound, and the number
it will have in hand, with what the lamp has still to say, is one the lamp may send,
unless something was lost (`Agrees`, `Joined`). `Heard` is computed by recursion over
the queue. What the proof needs of it is that one character more at the end is one more
`Feed` (`FedOneMore`): it follows from the function's definition and induction on its
length alone, which the well-foundedness of the natural numbers gives in the form of a
set (lemma `Induction`), without an operator as a parameter. `HeardNext` is the step of
the argument: the next thing the lamp says keeps the two in agreement. A hand-over in
the middle of a number is harmless because what the parser has then missed marks it
(`ActivateStep`).

AS7341: `SamplesAlwaysWhole` and `SamplesStayFresh`, if the timeout is longer than two
measurements (`SensorAssumption`; 2000 ms in AS7341_Device.h, against about 500 ms for
each). `Paired` says that the second measurement is under way only when the low half is
held, through timeouts, new readings and a sensor that hangs; `InStep` that from a
sample on, while nothing holds up the loop, the driver's clock, the sensor's and the age
of the last sample run together. The proof shows that the timeout cannot come between
the two measurements, which is where a reading could be given up again and again.

**HostProofs**, about what runs on the host beside the servers: Installation, for
any number of addresses, killed and forced runs, PlatformStart, for any launchers,
processes and tokens, and CrlBroker, for any certificates and crashes.

* `Served`, `Identities` and `NoneOutlives` (Installation). A start that succeeds proves nothing about
  files it finds in place; what does is the order of the tasks, so the invariant `IInv`
  is about the tasks that are left and the disk together. `Ordered`: removals come
  first, then the database, then a new CA key; a key is followed by its certificate and
  the start comes last. `OwnSound`: the certificate of an identity is that of the key
  beside it and, unless the identity is in `left`, signed by the CA that is there;
  `CaSound` says so of the CA's own certificate. Both hold through kills and failed
  removals. What these end is `Outlived`: as long as nothing was killed and every removal
  succeeded, a new CA is made only when what the old one signed is gone or about to be
  removed, so that `left` is empty. `CaFirst`: nothing is signed before there is a CA.
  `Writing`: a certificate is written for the key that is there. `Starting`: before the
  stack is started, the CA's files can be read or are about to be loaded, and the
  certificates either have the address devices are told or are about to be
  checked against it. A task may put others in front of the list (`CheckServices`,
  `EnsurePair`), so that the proof needs lemmas on concatenations of task lists
  (`CalmConcat`, `Lead`) and on what is left after the first (`Rest`, `NoRemovals`).
  Each kind of task has a lemma. A free key number must exist when one is drawn, hence
  `MaxKeys >= 8`.
* `CaStays` (Installation). Given `IInv`, the first task tells what the rest of a run
  can do: if the run is not forced, it removes nothing, and it is a new CA only where
  there is none (`Unforced`).
* `SecretsLostInWriting`, `SecretsStay` and `DatabaseStaysReadable` (Installation),
  which say how far the promise goes that TLC refutes for torn files (Disagreements):
  the secrets are lost only by a kill in the middle of `.env`, and if files are whole,
  they are never lost and the database can be read. `Secret`: a run that is not forced
  writes a new `.env` only where there is none, and once. `Encrypted`: the database is
  removed before a new master key is drawn, in the order of the tasks that are left.
* `TokensAgree` (PlatformStart). Recognising an old agent by its port only is enough, in
  orderly starts, because an agent that is not on record is the child of the
  launcher that is about to record it (`AgentsKnown`), and because from the port on
  no agent has another token than that of `.env` (`Stage`).
* `SeenCrl` (CrlBroker), with revocations at any moment. What the watcher has seen stays
  in the CRL (`Watched`), and Mosquitto loads the CRL as it is; so a certificate the
  watcher has seen can be missing from what Mosquitto goes by only if the watcher's
  first look is taken after Mosquitto's start.
* `RestartAlwaysComes` (CrlBroker, likewise) and `OutAlwaysStaysOut`: what TLC checks of
  a revoked certificate as a whole, `RevokedIsShutOut`, needs fairness; its safety does
  not. A session whose restart was requested is not forgotten unless its certificate is
  in `missed`: the restart is under way, or what the request file holds differs from the
  watcher's baseline (the request was still to come, `Coming`, at the first look, and
  what comes is new, `NewFile`), whichever
  threads share the temporary file (`Contents`, `Asks`: who renames last renames what
  this thread or a later one wrote), or a request stands truncated. And a session that
  was ended stays ended.

Only model-checked: every liveness property, every use of fairness and `ENABLED`, which
the provers do not handle. These are the leads-to properties of CrlBroker, Presence,
CommandFlow, DeviceStorage, Manufacturing, SimulationFleet, Provisioning, GatewayDrivers
and Installation. Every invariant and every action property of a run has a theorem. No
module declares a RECURSIVE operator; of the recursive functions, `Fed` is reasoned about as
above and the others are evaluated by TLC only.

## Disagreements

TLC refutes these properties, each taken from a document, a comment or a message
of the repository. They stay in the modules, with the instance to reproduce them;
the runs above state the part that holds.

| property (module) | what the repository says | what the code does | instance |
|---|---|---|---|
| `SessionIsSingleUse` (Enrollment) | docs/protocol.md:62 "A session is single-use." | `enroll_device` checks `consumed_at` on a row loaded without a lock (provisioning.py:119): two concurrent requests with one session get a certificate each, and `EveryCertificateAccountedFor` fails with it | `Overlap` TRUE, `Faults` FALSE, `Spec` |
| `DeletedCertificatesAreTombstoned` (Enrollment) | docs/architecture.md:81 "Before device rows are deleted, every currently issued device certificate is added to the revocation set" | the DELETE takes every device, the tombstones come from an earlier SELECT (project_reset.py:99) | same, with `"project-reset"` |
| `CrlIsCompleteAtRest` (Enrollment) | routers/admin.py:190 "Certificate added to the CRL" | two rebuilds do not exclude each other; the one with the older rows may write last (registry.py:98) | same, two devices, `"revoke"` |
| `EveryRequestShutsOut` (CrlBroker) | mqtt_service.py:164 "certificate is rejected against the updated CRL" | changes between Mosquitto's start and the watcher's baseline are taken as handled (docker-entrypoint-platform.sh:50): a session opened in between outlives its request | the run's cfg |
| `RevokedStaysOffline` (Presence) | mqtt_service.py:272 "It must never mark a revoked device ONLINE again." | decided on a loaded row, committed later (mqtt_service.py:270) | `Operations = {"revoke"}` |
| `AnsweredShowsItsAnswer` (CommandFlow) | templates/device.html:129 "RX appears when the device response is received." | `sent` is committed after the wait and overwrites a response's status (mqtt_service.py:151) | one command |
| `SentIsAcknowledged` (CommandFlow) | mqtt_service.py:149 "MQTT publish was not acknowledged" | `wait_for_publish(timeout=5)` returns normally when the time is over (:145) | one command |
| `FailedNeverRuns` (CommandFlow) | mqtt_service.py:142 "MQTT command publish failed" | the client keeps a QoS 1 message it could not send and sends it later (:138) | one command, one loss |
| `MarkerMeansComplete` (DeviceStorage) | IdentityStorage.cpp:165 "Remove the marker first. It is recreated only after every credential file has been installed successfully." | the result of the removal is ignored (:167) | `Faulty = {"unmark"}` |
| `ErasesOnlyCompiled` (FirmwareBuild) | factory_program_esp32.py:645 "Build before erasing the target." | a build whose record failed leaves the old record beside new artifacts; the next run of the old configuration erases before anything is compiled (:600) | `Failures = {"save"}` |
| `AnsweredWithItsOwnJob` (StationPage) | routers/manufacturing.py:162 passes the agent's answer on as the job of the request, and the agent's 202 is `{"ok": True, "job": job}` (manufacturing_agent.py:437) | the answer is a snapshot of the job that is the current one by then (manufacturing_agent.py:312): a short job may have ended and another been started | two jobs |
| `ReportedWasSent` (CromaLamp) | README.md:173 "Live lamp temperature when a valid UART measurement is available" | characters lost at the hand-over of the port or to a full buffer leave a shorter number that is valid as well | MCGatewayDrivers |
| `ResetNeverRacesAJob` (Manufacturing) | project_reset.py:74 "ensuring a reset cannot race a programming job" | the agent is asked first and the tables cleared later (:223) | one job, one reset |
| `ResetIsClean` (SimulationFleet) | project_reset.py:217 "A running simulator could immediately re-register devices" | a killed simulator's request may still be at the API (:224) | one process, `"reset"` |
| `SecretsKept`, `DatabaseReadable` (Installation) | docs/installation.md:91 "preserving the installation Root CA, device certificates, database, bootstrap secrets, and dashboard credentials" | `.env` is rewritten in place (setup.py:282): half of it has lost the master key, and the platform starts with a database it cannot read | either in the run's cfg; both are proved with `Torn` FALSE (`SecretsStay`, `DatabaseStaysReadable`) |
| `IdentitiesFit` (Installation) | setup.py:542 "Overwrite existing PKI, database, and .env files" | a directory that cannot be removed is skipped in silence (:572), and an identity is checked for its existence only (:447): that of the API's MQTT client (`control`) may be of the removed CA when a start reports success | the run's cfg; no kill is needed (`MaxCrashes = 0`) |
| `GetsUp` (Installation) | setup.py:437 "Existing installations are upgraded in place during normal network sync" | killed between key and certificate, every later sync raises (:450) | `Initial = {"older"}`, one kill |
| `OthersSpared` (PlatformStart) | start_platform.py:434 refuses to end "another application" | the process of the pid file is ended unexamined (:416) | one launcher, one reused id |
| `TokensShared` (PlatformStart) | start_platform.py:260 "launched from the same value, which eliminates stale-token mismatches" | overlapping starts each rotate the token (:262) | two launchers |

## Limits of the code

What the code does not promise, found with the models and left out of the
properties by the condition named:

* CommandFlow: a board carries out again what is delivered again, and a simulated
  device what it no longer remembers (`RunsAreBounded` counts the occasions). When the
  device's session is lost as well as the connection, an older command sent again
  may be the last one it carries out (`SettlesOnLatest` allows for it).
* CrlBroker: a revocation truncates the shared temporary file before it writes it
  (mqtt_service.py:194), and another one may publish it in between. If the process dies
  then, the request stays empty, and the watcher takes the hash of the empty file as
  seen. If that happens twice, the second empty request is no change: the restart which
  it carried away, of a third revocation, never comes (`RevokedIsShutOut` excepts it by
  `Truncated`; four certificates are needed, so that in the run it makes no difference).
* FirmwareBuild: a run whose headers are overwritten by a run of another
  configuration uploads that configuration and records its own as built
  (`UploadedIsConfigured` fails with two stations; `OwnUploadIsConfigured` holds).
* SpectralSensor: a sample needs two polls within its timeout. If each pass of the
  loop takes half of it or more, for instance in a TLS handshake tried again and
  again, no sample is ever complete (`SamplesAlwaysCome` is refuted).
* Provisioning: a clock that was once set wrong stays wrong until the power fails
  or the board is programmed again, since `ESP.restart()` keeps it and
  `synchronizeClock` leaves a set clock alone; until then no secure connection is made.
* Manufacturing: a child that neither prints nor exits holds the station for ever.

## Not modelled

The reasons are in `PROJECT.json` (`components`). In short: cryptography is a
name that only its owner can use; login, rendering, form parsing and schemas
change nothing, or only what the modelled handlers change; of the device profiles only the
level a device keeps is part of a model, of the vendored sensor library only the
state machine that the driver polls; the network tools ask one operator and write
what Installation takes as a changed address; the demonstration device provisions
itself as the simulated one does (the same four files in the same order), without
a manager; the factory reset pin is not configured (`IOT_FACTORY_RESET_PIN` is -1),
and what it would call are the clearing steps of DeviceStorage. Tests, benchmarks and live
validation are not the program's logic. Mosquitto, PlatformIO, LittleFS, Docker,
the lamps and the sensor are external and appear as actions marked so in the map.

## Plan

Written so far, in this order: Enrollment and its proofs; CrlBroker; Presence and
CommandFlow; CredentialStore, DeviceStorage and their proofs; FirmwareBuild;
Manufacturing; SimulationFleet; Provisioning; ArcPower and DaliTransmitter;
Installation; PlatformStart. Then: three kinds of device in CommandFlow;
StationPage; CromaLamp, SpectralSensor and their composition with DALI; signed time
and forced installations in Provisioning; files torn by a killed run in Installation; two
stations in FirmwareBuild.

Left to model, if the state space allows: the registry composed with the broker (a
revocation from the request to the lost session; CrlBroker takes the registry's
part as one step). The Wi-Fi tool reads, changes and writes `.env` at once, as each
step of a start does, and is one more overlapping launcher to PlatformStart.

Proved so far, in this order: the invariants of Enrollment and DeviceStorage and the
refinement of `CredentialStore`; SimulationFleet; FirmwareBuild; Manufacturing and
its page; Provisioning; CommandFlow; what Enrollment says of consumed challenges,
serials and the CRL; DaliTransmitter and the refinement of `ArcPower`; Installation,
PlatformStart and what CrlBroker says of the CRL; the drivers CromaLamp and
SpectralSensor; the secrets and the database of Installation; the safety of Presence and
of the broker's restarts. With these, every invariant and action property a run checks
has a theorem.

Next, to prove: the safety half of the other liveness properties, as was done for those of
CrlBroker, Presence and SpectralSensor; that the safety of Provisioning follows with the
registry's handlers taken apart.
