---------------------------- MODULE Provisioning ----------------------------
(***************************************************************************)
(* How one ESP32 gets its identity and its certificate: the board          *)
(* (BootstrapAgent.cpp), the manufacturing station on its serial port      *)
(* (scripts/factory_provision_esp32.py, called by factory_program_esp32.py *)
(* after the board was erased and programmed) and the API that both ask.   *)
(*                                                                         *)
(* A client that gives up leaves its request with the API, which may serve *)
(* it at any later time; an answer nobody waits for is lost.  The board    *)
(* may restart anywhere, and whenever a step of begin() fails setup()      *)
(* restarts it.  The API's handlers are atomic here (Enrollment takes them *)
(* apart) and so is the board's flash (DeviceStorage).  Wi-Fi that is not  *)
(* there yet keeps the board in "boot", and so does the time service       *)
(* (local_time_service.py), which is asked once after the board was        *)
(* without power: the clock runs on when only the processor restarts.      *)
(* When the plant has become quiet, nothing fails any more, the host has   *)
(* the right time, and a timeout ends only what waits for something that   *)
(* cannot come.                                                            *)
(***************************************************************************)
EXTENDS Naturals, Sequences, FiniteSets

CONSTANTS
  Disturbances,  \* what operators and the mains do: a subset of Kinds
  MaxLate,       \* bound: abandoned requests still with the API
  MaxId          \* secrets, serials and sessions are numbers up to here,
                 \* used again when nobody holds them any more

Kinds == {"power", "revoke", "reset", "clear", "expire", "force", "clock"}

ASSUME ConstantsAssumption ==
  /\ Disturbances \subseteq Kinds
  /\ MaxLate \in Nat
  /\ MaxId \in Nat /\ MaxId >= 8 + MaxLate

VARIABLES
  server,   \* the device's row: its status, secret and certificate, and the
            \* session that is still open
  board,    \* how far begin() is, what the flash holds, what the clock says,
            \* and whether the CA and the time key in its firmware are those
            \* of the installation
  station,  \* how far provision_device is, and the secret it was given
  call,     \* the HTTPS request each client waits for
  late,     \* requests whose clients have given up
  wire,     \* the secret of the set_identity on its way to the board
  lines,    \* what the board has printed and the station has not read
  outcome,  \* what the station printed last
  quiet     \* from now on links, mains and operators cause no failures

vars == <<server, board, station, call, late, wire, lines, outcome, quiet>>

Ids == 0 .. MaxId                        \* 0 is none
Clients == {"board", "station"}
Request == [kind : {"challenge", "enroll", "register", "reset"},
            session : Ids, secret : Ids]
Answer == [code : {"ok", "conflict", "error"}, value : Ids]
Line == {"READY", "OK", "ERROR", "CONNECTED"}

Plain(kind) == [kind |-> kind, session |-> 0, secret |-> 0]
NoAnswer == [code |-> "error", value |-> 0]
NoCall == [at |-> "none", request |-> Plain("challenge"), answer |-> NoAnswer]

Blank == [at |-> "boot", secret |-> 0, cert |-> 0, connected |-> FALSE,
          clock |-> "unset", trusts |-> TRUE]
Idle == [at |-> "idle", reset |-> FALSE, program |-> FALSE, secret |-> 0]

\* A board that runs has an identity and the certificate of that identity.
TypeOK ==
  /\ server \in [life : {"absent", "pending", "provisioned", "revoked"},
                 secret : Ids, serial : Ids, session : Ids]
  /\ board \in [at : {"boot", "factory", "stored", "challenging", "enrolling",
                      "running"},
                secret : Ids, cert : Ids, connected : BOOLEAN,
                clock : {"unset", "right", "wrong"}, trusts : BOOLEAN]
  /\ board.at = "running" => board.secret # 0 /\ board.cert # 0
  /\ board.connected => board.trusts /\ board.clock = "right"
  /\ station \in [at : {"idle", "ready", "register", "rotate", "inject", "observe"},
                  reset : BOOLEAN, program : BOOLEAN, secret : Ids]
  /\ call \in [Clients -> [at : {"none", "sent", "answered"},
                           request : Request, answer : Answer]]
  /\ late \subseteq Request /\ Cardinality(late) <= MaxLate
  /\ wire \in Ids
  /\ lines \in Seq(Line) /\ Len(lines) <= 4
  /\ outcome \in {"none", "ready", "stored", "failed"}
  /\ quiet \in BOOLEAN

Init ==
  /\ server = [life |-> "absent", secret |-> 0, serial |-> 0, session |-> 0]
  /\ board = Blank
  /\ station = Idle
  /\ call = [c \in Clients |-> NoCall]
  /\ late = {}
  /\ wire = 0
  /\ lines = <<>>
  /\ outcome = "none"
  /\ quiet = FALSE

(***************************************************************************)
(* Numbers that nobody holds.                                              *)
(***************************************************************************)

Requests == late \cup {call[c].request : c \in Clients}
Values == {call[c].answer.value : c \in Clients}

Fresh(used) == CHOOSE n \in 1 .. MaxId : n \notin used

FreshSecret ==
  Fresh({server.secret, board.secret, station.secret, wire} \cup Values
          \cup {r.secret : r \in Requests})
FreshSerial == Fresh({server.serial, board.cert} \cup Values)
FreshSession ==
  Fresh({server.session} \cup Values \cup {r.session : r \in Requests})

Disturbed(kind) == kind \in Disturbances /\ ~quiet

(***************************************************************************)
(* Requests and answers.                                                   *)
(***************************************************************************)

Send(c, request) ==
  call' = [call EXCEPT ![c] = [at |-> "sent", request |-> request, answer |-> NoAnswer]]

\* The client stops waiting.  What it has sent may be lost or served later.
GiveUp(c) ==
  /\ call' = [call EXCEPT ![c] = NoCall]
  /\ \/ late' = late
     \/ /\ call[c].at = "sent"
        /\ Cardinality(late) < MaxLate
        /\ late' = late \cup {call[c].request}

Answered(c, code) == call[c].at = "answered" /\ call[c].answer.code = code
Origins == Clients \cup {"late"}
Pending(o) ==
  IF o = "late" THEN late
  ELSE IF call[o].at = "sent" THEN {call[o].request} ELSE {}

Respond(o, r, code, value) ==
  IF o = "late"
  THEN late' = late \ {r} /\ UNCHANGED call
  ELSE /\ call' = [call EXCEPT ![o].at = "answered",
                               ![o].answer = [code |-> code, value |-> value]]
       /\ UNCHANGED late

ServerOnly == UNCHANGED <<board, station, wire, lines, outcome, quiet>>

(***************************************************************************)
(* The API.                                                                *)
(***************************************************************************)

\* A new challenge takes the place of the open one.
CreateChallenge(o) == \E r \in Pending(o) :
  /\ r.kind = "challenge"
  /\ server.life = "pending"
  /\ server' = [server EXCEPT !.session = FreshSession]
  /\ Respond(o, r, "ok", FreshSession)
  /\ ServerOnly

\* The session must be the open one, the proof must have been made with the
\* device's secret, and the device must not have a certificate.
EnrollableByProof(r) == r.secret = server.secret  \* mutant: only the proof is checked
Enrollable(r) ==
  /\ r.session # 0 /\ r.session = server.session
  /\ r.secret = server.secret
  /\ server.life = "pending"

EnrollDevice(o) == \E r \in Pending(o) :
  /\ r.kind = "enroll"
  /\ Enrollable(r)
  /\ server' = [server EXCEPT !.life = "provisioned", !.serial = FreshSerial,
                              !.session = 0]
  /\ Respond(o, r, "ok", FreshSerial)
  /\ ServerOnly

CreateDevice(o) == \E r \in Pending(o) :
  /\ r.kind = "register"
  /\ server.life = "absent"
  /\ server' = [server EXCEPT !.life = "pending", !.secret = FreshSecret]
  /\ Respond(o, r, "ok", FreshSecret)
  /\ ServerOnly

\* reset_bootstrap_secret: the certificate is revoked and forgotten.
RotatedKeepingLife(secret) ==     \* mutant: the device stays provisioned
  [server EXCEPT !.secret = secret, !.serial = 0]
Rotated(secret) ==
  [server EXCEPT !.life = "pending", !.secret = secret, !.serial = 0]

ResetDevice(o) == \E r \in Pending(o) :
  /\ r.kind = "reset"
  /\ server.life # "absent"
  /\ server' = Rotated(FreshSecret)
  /\ Respond(o, r, "ok", FreshSecret)
  /\ ServerOnly

Acceptable(r) ==
  CASE r.kind = "challenge" -> server.life = "pending"
    [] r.kind = "enroll"    -> Enrollable(r)
    [] r.kind = "register"  -> server.life = "absent"
    [] r.kind = "reset"     -> server.life # "absent"

\* A request that does not fit the row is refused.
Refuse(o) == \E r \in Pending(o) :
  /\ ~Acceptable(r)
  /\ Respond(o, r, "conflict", 0)
  /\ UNCHANGED server /\ ServerOnly

\* The API is restarting, or cannot read the CA's key.
Fail(o) == \E r \in Pending(o) :
  /\ ~quiet
  /\ Respond(o, r, "error", 0)
  /\ UNCHANGED server /\ ServerOnly

Serve(o) ==
  \/ CreateChallenge(o) \/ EnrollDevice(o) \/ CreateDevice(o) \/ ResetDevice(o)
  \/ Refuse(o) \/ Fail(o)

\* The challenge is two minutes old.
Expire ==
  /\ Disturbed("expire")
  /\ server.session # 0
  /\ server' = [server EXCEPT !.session = 0]
  /\ UNCHANGED <<call, late>> /\ ServerOnly

\* The dashboard's buttons; the secret a reset shows there reaches no board.
Revoke ==
  /\ Disturbed("revoke")
  /\ server.serial # 0
  /\ server' = [server EXCEPT !.life = "revoked"]
  /\ UNCHANGED <<call, late>> /\ ServerOnly

ResetBootstrap ==
  /\ Disturbed("reset")
  /\ server.life # "absent"
  /\ server' = Rotated(FreshSecret)
  /\ UNCHANGED <<call, late>> /\ ServerOnly

\* A project reset; it knows of the jobs of the manufacturing agent, not of a
\* station that was started by hand.
ClearRegistry ==
  /\ Disturbed("clear")
  /\ server' = [life |-> "absent", secret |-> 0, serial |-> 0, session |-> 0]
  /\ UNCHANGED <<call, late>> /\ ServerOnly

\* setup.py --force, with the platform stopped: a new CA, a new time key and an
\* empty registry; what was under way is lost.
ForceSetup ==
  /\ Disturbed("force")
  /\ server' = [life |-> "absent", secret |-> 0, serial |-> 0, session |-> 0]
  /\ board' = [board EXCEPT !.trusts = FALSE, !.connected = FALSE]
  /\ call' = [c \in Clients |->
                IF call[c].at = "sent"
                THEN [call[c] EXCEPT !.at = "answered", !.answer = NoAnswer]
                ELSE call[c]]
  /\ late' = {}
  /\ UNCHANGED <<station, wire, lines, outcome, quiet>>

(***************************************************************************)
(* The time.                                                               *)
(***************************************************************************)

\* What the service may sign: the time of its host.
SignedTime == IF Disturbed("clock") THEN {"right", "wrong"} ELSE {"right"}

\* verifySignedMessage, with the key that was built into the firmware.
Verified == board.trusts

\* synchronizeClock: a clock that is set is left alone; otherwise a signed time,
\* if the key in the firmware verifies it, or begin() returns false.  The
\* nonce makes it an answer to this very request.
SynchronizeClock ==
  /\ board.at = "boot" /\ board.secret # 0
  /\ board.clock = "unset" /\ Verified
  /\ \E time \in SignedTime : board' = [board EXCEPT !.clock = time]
  /\ UNCHANGED <<server, station, call, late, wire, lines, outcome, quiet>>

\* A TLS handshake needs the CA of the server and a time within its
\* certificate's.
Secure == board.trusts /\ board.clock = "right"

(***************************************************************************)
(* The board.                                                              *)
(***************************************************************************)

\* What is printed while the port is closed is lost; READY is repeated every
\* three seconds, and of several in a row the station needs only one.
PrintLine(line) ==
  lines' = IF station.at = "idle" \/ (lines # <<>> /\ lines[Len(lines)] = line)
           THEN lines ELSE Append(lines, line)

Restarted(b) == [b EXCEPT !.at = "boot", !.connected = FALSE]
PoweredUp(b) == [Restarted(b) EXCEPT !.clock = "unset"]

\* begin(), as far as the identity and the credentials in the flash take it.
NoIdentity ==
  /\ board.at = "boot" /\ board.secret = 0
  /\ board' = [board EXCEPT !.at = "factory"]
  /\ UNCHANGED call

Provisioned ==
  /\ board.at = "boot" /\ board.secret # 0 /\ board.cert # 0
  /\ board.clock # "unset"
  /\ board' = [board EXCEPT !.at = "running"]
  /\ UNCHANGED call

\* Without a secure connection the board restarts and tries again.
RequestChallenge ==
  /\ board.at = "boot" /\ board.secret # 0 /\ board.cert = 0
  /\ Secure
  /\ board' = [board EXCEPT !.at = "challenging"]
  /\ Send("board", Plain("challenge"))

Begin ==
  /\ NoIdentity \/ Provisioned \/ RequestChallenge
  /\ UNCHANGED <<server, station, late, wire, lines, outcome, quiet>>

AnnounceReady ==
  /\ board.at = "factory"
  /\ PrintLine("READY")
  /\ UNCHANGED <<server, board, station, call, late, wire, outcome, quiet>>

StoreIdentity ==
  /\ board.at = "factory" /\ wire # 0
  /\ board' = [board EXCEPT !.at = "stored", !.secret = wire]
  /\ wire' = 0
  /\ UNCHANGED <<server, station, call, late, lines, outcome, quiet>>

\* The line was garbled, or the NVS did not take the identity.
RejectIdentity ==
  /\ ~quiet
  /\ board.at = "factory" /\ wire # 0
  /\ wire' = 0
  /\ PrintLine("ERROR")
  /\ UNCHANGED <<server, board, station, call, late, outcome, quiet>>

ConfirmIdentity ==
  /\ board.at = "stored"
  /\ PrintLine("OK")
  /\ board' = Restarted(board)
  /\ UNCHANGED <<server, station, call, late, wire, outcome, quiet>>

\* The key is generated in RAM and the proof binds it to the session.
EnrollRequest(session) ==
  [kind |-> "enroll", session |-> session, secret |-> board.secret]

ChallengeGranted ==
  /\ board.at = "challenging" /\ Answered("board", "ok") /\ Secure
  /\ Send("board", EnrollRequest(call["board"].answer.value))
  /\ board' = [board EXCEPT !.at = "enrolling"]
  /\ UNCHANGED <<server, station, late, wire, lines, outcome, quiet>>

Completed == Answered("board", "ok")

StoreCredentials ==
  /\ board.at = "enrolling" /\ Completed
  /\ board' = [board EXCEPT !.at = "running", !.cert = call["board"].answer.value]
  /\ call' = [call EXCEPT !["board"] = NoCall]
  /\ UNCHANGED <<server, station, late, wire, lines, outcome, quiet>>

\* A refusal, a timeout, or an answer that cannot be stored: begin() returns
\* false and setup() restarts the board.
BootstrapFails ==
  /\ board.at \in {"challenging", "enrolling"}
  /\ ~quiet \/ ~Secure \/ Answered("board", "conflict") \/ Answered("board", "error")
  /\ board' = Restarted(board)
  /\ GiveUp("board")
  /\ UNCHANGED <<server, station, wire, lines, outcome, quiet>>

\* The broker takes the certificate that the registry has for the device.
Accepted(cert) == server.life = "provisioned" /\ server.serial = cert

ConnectMqtt ==
  /\ board.at = "running" /\ ~board.connected
  /\ Secure /\ Accepted(board.cert)
  /\ board' = [board EXCEPT !.connected = TRUE]
  /\ PrintLine("CONNECTED")
  /\ UNCHANGED <<server, station, call, late, wire, outcome, quiet>>

LoseMqtt ==
  /\ board.connected
  /\ ~quiet \/ ~Accepted(board.cert)
  /\ board' = [board EXCEPT !.connected = FALSE]
  /\ UNCHANGED <<server, station, call, late, wire, lines, outcome, quiet>>

PowerLoss ==
  /\ Disturbed("power")
  /\ board' = PoweredUp(board)
  /\ wire' = 0
  /\ GiveUp("board")
  /\ UNCHANGED <<server, station, lines, outcome, quiet>>

(***************************************************************************)
(* The station.                                                            *)
(***************************************************************************)

InputKept == lines       \* mutant: no reset_input_buffer
InputAfterOpen == <<>>   \* reset_input_buffer

\* program: the board is erased and programmed first, and the station insists
\* on a connection.  Opening the port restarts many boards, and takes longer
\* than a board needs to read a line that an earlier run has written.
Open(reset, program) ==
  /\ station.at = "idle" /\ wire = 0
  /\ quiet => ~board.connected /\ reset /\ program
  /\ station' = [at |-> "ready", reset |-> reset, program |-> program, secret |-> 0]
  /\ lines' = InputAfterOpen
  /\ outcome' = "none"
  /\ \/ program /\ board' = Blank /\ GiveUp("board")
     \/ ~program /\ board' = PoweredUp(board) /\ GiveUp("board")
     \/ ~program /\ UNCHANGED <<board, call, late>>
  /\ UNCHANGED <<server, wire, quiet>>

\* Each loop of the station reads a line at a time and skips what it does not
\* look for.
Find(at, line) ==
  /\ station.at = at
  /\ lines # <<>> /\ Head(lines) = line
  /\ lines' = Tail(lines)

LookedFor ==
  [ready |-> {"READY"}, inject |-> {"OK", "ERROR"}, observe |-> {"CONNECTED"}]

SkipLine ==
  /\ station.at \in DOMAIN LookedFor
  /\ lines # <<>> /\ Head(lines) \notin LookedFor[station.at]
  /\ lines' = Tail(lines)
  /\ UNCHANGED <<server, board, station, call, late, wire, outcome, quiet>>

ReadReady ==
  /\ Find("ready", "READY")
  /\ station' = [station EXCEPT !.at = "register"]
  /\ Send("station", Plain("register"))
  /\ UNCHANGED <<server, board, late, wire, outcome, quiet>>

\* register_or_reset_device: 409 is followed by a reset if the operator said so.
TryReset ==
  /\ station.at = "register" /\ Answered("station", "conflict") /\ station.reset
  /\ station' = [station EXCEPT !.at = "rotate"]
  /\ Send("station", Plain("reset"))
  /\ UNCHANGED <<server, board, late, wire, lines, outcome, quiet>>

SendIdentity ==
  /\ station.at \in {"register", "rotate"} /\ Answered("station", "ok")
  /\ LET secret == call["station"].answer.value
     IN  /\ station' = [station EXCEPT !.at = "inject", !.secret = secret]
         /\ wire' = secret
  /\ call' = [call EXCEPT !["station"] = NoCall]
  /\ UNCHANGED <<server, board, late, lines, outcome, quiet>>

ReadConfirmation ==
  /\ Find("inject", "OK")
  /\ station' = [station EXCEPT !.at = "observe"]
  /\ UNCHANGED <<server, board, call, late, wire, outcome, quiet>>

EndRun(how) ==
  /\ station' = Idle
  /\ outcome' = how
  /\ GiveUp("station")

ReadError ==
  /\ Find("inject", "ERROR")
  /\ EndRun("failed")
  /\ UNCHANGED <<server, board, wire, quiet>>

ReadConnected ==
  /\ Find("observe", "CONNECTED")
  /\ EndRun("ready")
  /\ UNCHANGED <<server, board, wire, quiet>>

\* What the station waits for cannot come any more.
Unheard ==
  \/ station.at = "ready" /\ lines = <<>> /\ board.secret # 0
  \/ station.at = "inject" /\ lines \in {<<>>, <<"READY">>}
     /\ wire = 0 /\ board.at # "stored"
  \/ station.at = "observe" /\ lines = <<>> /\ ~Accepted(board.cert)
     /\ (board.cert # 0 \/ server.life # "pending" \/ server.secret # board.secret)
     /\ ~(board.at = "enrolling" /\ Answered("board", "ok"))
  \/ station.at = "observe" /\ lines = <<>>
     /\ (~board.trusts \/ board.clock = "wrong")

Refused ==
  \/ Answered("station", "error")
  \/ Answered("station", "conflict") /\ ~(station.at = "register" /\ station.reset)

\* A timeout, a refusal, a serial error, or the operator's Control-C.  A run
\* that does not insist on a connection ends well when the time is over.
StationGivesUp ==
  /\ station.at # "idle"
  /\ ~quiet \/ Unheard \/ Refused
  /\ EndRun(IF station.at = "observe" /\ ~station.program THEN "stored" ELSE "failed")
  /\ UNCHANGED <<server, board, wire, lines, quiet>>

Settle ==
  /\ quiet' = TRUE
  /\ UNCHANGED <<server, board, station, call, late, wire, lines, outcome>>

BoardSteps ==
  \/ SynchronizeClock \/ Begin \/ AnnounceReady \/ StoreIdentity \/ RejectIdentity \/ ConfirmIdentity
  \/ ChallengeGranted \/ StoreCredentials \/ BootstrapFails
  \/ ConnectMqtt \/ LoseMqtt \/ PowerLoss

StationSteps ==
  \/ \E reset, program \in BOOLEAN : Open(reset, program)
  \/ SkipLine \/ ReadReady \/ TryReset \/ SendIdentity \/ ReadConfirmation
  \/ ReadError \/ ReadConnected \/ StationGivesUp

Next ==
  \/ \E o \in Origins : Serve(o)
  \/ Expire \/ Revoke \/ ResetBootstrap \/ ClearRegistry \/ ForceSetup
  \/ BoardSteps \/ StationSteps \/ Settle

Spec == Init /\ [][Next]_vars

(***************************************************************************)
(* Safety.                                                                 *)
(***************************************************************************)

\* "READY", the board runs with the identity this run has given it: never
\* with one of an earlier run, whose lines or requests came late.
ReadyIsVerified ==
  [][outcome # "ready" /\ outcome' = "ready" =>
       board.secret = station.secret /\ board.cert # 0]_vars

\* An enrollment that was abandoned and is served late never takes the place
\* of the certificate that the board has stored: if the registry calls the
\* device provisioned, it is with the board's certificate.
HeldIsCurrent ==
  board.cert # 0 /\ server.life = "provisioned" => server.serial = board.cert

(***************************************************************************)
(* Liveness.                                                               *)
(***************************************************************************)

\* The operator manufactures a board that is off line again, as an existing
\* unit, whenever the station is free; failures do not go on for ever; board,
\* station and API do what they can do.
FairSpec ==
  /\ Spec
  /\ WF_vars(Settle)
  /\ WF_vars(Open(TRUE, TRUE))
  /\ WF_vars(BoardSteps) /\ WF_vars(StoreIdentity)
  /\ WF_vars(StationSteps) /\ WF_vars(StationGivesUp)
  /\ \A c \in Clients : WF_vars(Serve(c))

\* There is no dead end: whatever was lost, rotated, revoked or cleared, the
\* board gets on line and stays there.
GetsOnline == <>[]board.connected
=============================================================================
