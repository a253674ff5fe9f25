---------------------------- MODULE CommandFlow -----------------------------
(***************************************************************************)
(* A command on its way from the operator to a device and back:            *)
(* server/app/mqtt_service.py (publish_command, the response part of       *)
(* _store_event, _on_connect and _on_disconnect) and the three devices     *)
(* that carry commands out: simulators/simulated_device.py, which          *)
(* remembers the ids of recent commands, scripts/demo_device.py, which     *)
(* waits inside its callback, and the BootstrapAgent of the boards, which  *)
(* restarts inside its callback.                                           *)
(*                                                                         *)
(* Each command is published by a request thread of its own; the MQTT      *)
(* thread stores the responses.  Both work on copies of the row of the     *)
(* command and write the columns they changed.  The MQTT client library    *)
(* and the broker are not under src: a QoS 1 message is kept by the client *)
(* until the broker acknowledges it, at most Inflight of them are on their *)
(* way at a time, a lost connection makes the client send the              *)
(* unacknowledged ones again in order, and a publish without a connection  *)
(* returns an error although the message stays queued.  A device           *)
(* acknowledges a command when its callback has returned, and its sessions *)
(* are clean: what it has not acknowledged ends with the session.          *)
(***************************************************************************)
EXTENDS Integers, Sequences

CONSTANTS
  Commands,   \* command ids
  Asks,       \* what the commands may ask: levels, something invalid, restarts
  Kinds,      \* the kinds of device: "simulated", "demo", "board"
  Inflight,   \* the library's limit of unacknowledged messages on their way
  Window,     \* recent_command_ids.maxlen
  LinkLosses, \* bound: connections lost, or restarts, of the control service
  SessionLosses  \* bound: connections lost by the device

ASSUME ConstantsAssumption ==
  /\ Asks \subseteq [Commands -> [what : {"level", "invalid", "restart"}, level : Int]]
  /\ Kinds \subseteq {"simulated", "demo", "board"}
  /\ Inflight \in Nat \ {0}
  /\ LinkLosses \in Nat /\ SessionLosses \in Nat
  /\ Window \in Nat /\ Window >= 2 * Inflight - 1  \* the code: 128 and 20

VARIABLES
  asked,      \* what each command asks for
  status,     \* commands.status
  answered,   \* commands.response_at is set
  thread,     \* the request thread of each command
  connected,  \* the `connected` event of the control service
  link,       \* the connection of its MQTT client
  out,        \* messages the client has not been acknowledged
  taken,      \* how many of them the broker has received on this connection
  kind,       \* the kind of the device
  toDevice,   \* commands the broker is delivering
  session,    \* the device has an MQTT session
  recent,     \* recent_command_ids of the device
  level,      \* the level of its channels
  blocked,    \* its callback waits for the telemetry to be acknowledged
  outbox,     \* responses in the queue of its MQTT client
  runs,       \* history: how often the device has carried out each command
  replies,    \* responses on their way to the control service
  m,          \* the MQTT thread: the response it stores
  linkLosses, sessionLosses,
  order,      \* history: the commands in the order they were published
  dropped     \* history: a published command was lost on its way

table == <<asked, status, answered>>
client == <<connected, link, out, taken>>
device == <<kind, toDevice, session, recent, level, blocked, outbox, runs>>
history == <<linkLosses, sessionLosses, order, dropped>>
vars == <<table, thread, client, device, replies, m, history>>

Failures == {"broker-unavailable", "publish-error"}
Replies == {"completed", "duplicate"}  \* "completed": whatever the command's answer is
Reply == [cmd : Commands, status : Replies]
NoReply == [cmd |-> "none", status |-> "none"]

Init ==
  /\ asked \in Asks
  /\ status = [c \in Commands |-> "none"]
  /\ answered = {}
  /\ thread = [c \in Commands |-> "none"]
  /\ connected = FALSE /\ link = FALSE /\ out = <<>> /\ taken = 0
  /\ kind \in Kinds
  /\ toDevice = <<>> /\ session = TRUE /\ recent = <<>> /\ level = 0
  /\ blocked = FALSE /\ outbox = <<>>
  /\ runs = [c \in Commands |-> 0]
  /\ replies = <<>> /\ m = NoReply
  /\ linkLosses = 0 /\ sessionLosses = 0 /\ order = <<>> /\ dropped = FALSE

Occurs(c, s) == \E i \in 1 .. Len(s) : s[i] = c

\* What arrives without a subscription of the control service is dropped.
Arrived(r) == IF link /\ connected THEN Append(replies, r) ELSE replies

-----------------------------------------------------------------------------
(* publish_command                                                         *)

\* The row is inserted and committed before anything is published.
Request(c) ==
  /\ thread[c] = "none"
  /\ thread' = [thread EXCEPT ![c] = "check"]
  /\ status' = [status EXCEPT ![c] = "pending"]
  /\ UNCHANGED <<asked, answered, client, device, replies, m, history>>

Check(c) ==
  /\ thread[c] = "check"
  /\ thread' = [thread EXCEPT ![c] = IF connected THEN "publish" ELSE "unavailable"]
  /\ UNCHANGED <<table, client, device, replies, m, history>>

\* client.publish: the message is queued with or without a connection.
Publish(c) ==
  /\ thread[c] = "publish"
  /\ out' = Append(out, c) /\ order' = Append(order, c)
  /\ thread' = [thread EXCEPT ![c] = IF link THEN "wait" ELSE "error"]
  /\ UNCHANGED <<table, connected, link, taken, device, replies, m,
                 linkLosses, sessionLosses, dropped>>

\* info.wait_for_publish(timeout=5) returns on the acknowledgement and, without
\* a word, on the timeout.  (With rc = SUCCESS it does not raise.)
AwaitPublishingAgain(c) ==  \* mutant: what is not acknowledged is published again
  /\ thread[c] = "wait"
  /\ thread' = [thread EXCEPT ![c] = "sent"]
  /\ out' = IF Occurs(c, out) THEN Append(out, c) ELSE out
  /\ UNCHANGED <<table, connected, link, taken, device, replies, m, history>>

Await(c) ==
  /\ thread[c] = "wait"
  /\ thread' = [thread EXCEPT ![c] = "sent"]
  /\ UNCHANGED <<table, client, device, replies, m, history>>

\* The commit of the status: this column only, whatever was stored meanwhile.
FinishStatusWholeRow(c) ==  \* mutant: every column of the copy is written
  /\ thread[c] \in {"unavailable", "error", "sent"}
  /\ status' = [status EXCEPT ![c] = "sent"]
  /\ answered' = answered \ {c}
  /\ thread' = [thread EXCEPT ![c] = "done"]
  /\ UNCHANGED <<asked, client, device, replies, m, history>>

FinishStatus(c) ==
  /\ thread[c] \in {"unavailable", "error", "sent"}
  /\ status' = [status EXCEPT ![c] =
       CASE thread[c] = "unavailable" -> "broker-unavailable"
         [] thread[c] = "error" -> "publish-error"
         [] thread[c] = "sent" -> "sent"]
  /\ thread' = [thread EXCEPT ![c] = "done"]
  /\ UNCHANGED <<asked, answered, client, device, replies, m, history>>

-----------------------------------------------------------------------------
(* The connection of the control service.                                  *)

\* The network loop calls _on_disconnect, then reconnects; _on_connect sets
\* the event and subscribes.
Connect ==
  /\ ~ link /\ ~ connected
  /\ link' = TRUE
  /\ UNCHANGED <<table, thread, connected, out, taken, device, replies, m, history>>

OnConnect ==
  /\ link /\ ~ connected
  /\ connected' = TRUE
  /\ UNCHANGED <<table, thread, link, out, taken, device, replies, m, history>>

\* What the broker has received and not acknowledged will be sent again; it
\* drops the responses for a subscriber that is gone.
LoseLink ==
  /\ link /\ linkLosses < LinkLosses
  /\ linkLosses' = linkLosses + 1
  /\ link' = FALSE /\ taken' = 0 /\ replies' = <<>>
  /\ UNCHANGED <<table, thread, connected, out, device, m, sessionLosses, order, dropped>>

OnDisconnect ==
  /\ ~ link /\ connected
  /\ connected' = FALSE
  /\ UNCHANGED <<table, thread, link, out, taken, device, replies, m, history>>

\* The control service stops, or is killed, and starts again: the queue of its
\* client and its request threads are gone, the rows stay as they are.
StopService ==
  /\ linkLosses < LinkLosses
  /\ linkLosses' = linkLosses + 1
  /\ connected' = FALSE /\ link' = FALSE /\ out' = <<>> /\ taken' = 0
  /\ replies' = <<>> /\ m' = NoReply
  /\ thread' = [c \in Commands |-> IF thread[c] = "none" THEN "none" ELSE "done"]
  /\ dropped' = (dropped \/ out # <<>>)
  /\ UNCHANGED <<table, device, sessionLosses, order>>

\* The broker receives the next message and passes it to the device if that
\* has a session: the device's sessions are clean.
Deliver ==
  /\ link /\ taken < Len(out) /\ taken < Inflight
  /\ taken' = taken + 1
  /\ toDevice' = IF session THEN Append(toDevice, out[taken + 1]) ELSE toDevice
  /\ dropped' = (dropped \/ ~ session)
  /\ UNCHANGED <<table, thread, connected, link, out, kind, session, recent, level, blocked,
                 outbox, runs, replies, m, linkLosses, sessionLosses, order>>

Acknowledge ==
  /\ link /\ taken > 0
  /\ taken' = taken - 1 /\ out' = Tail(out)
  /\ UNCHANGED <<table, thread, connected, link, device, replies, m, history>>

-----------------------------------------------------------------------------
(* The device: its connection.                                             *)

LoseSession ==
  /\ session /\ sessionLosses < SessionLosses
  /\ sessionLosses' = sessionLosses + 1
  /\ session' = FALSE /\ toDevice' = <<>>
  /\ dropped' = (dropped \/ toDevice # <<>>)
  /\ UNCHANGED <<table, thread, client, kind, recent, level, blocked, outbox, runs,
                 replies, m, linkLosses, order>>

Reconnect ==
  /\ ~ session /\ ~ blocked
  /\ session' = TRUE
  /\ UNCHANGED <<table, thread, client, kind, toDevice, recent, level, blocked, outbox, runs,
                 replies, m, history>>

\* The client library of the Python devices sends what their callbacks have
\* queued, also after a new connection, but not while a callback runs.
SendReply ==
  /\ session /\ ~ blocked /\ outbox # <<>>
  /\ outbox' = Tail(outbox)
  /\ replies' = Arrived(Head(outbox))
  /\ UNCHANGED <<table, thread, client, kind, toDevice, session, recent, level, blocked, runs,
                 m, history>>

-----------------------------------------------------------------------------
(* The device: on_message.                                                 *)

\* clamp_level, and the level after a command; an invalid one changes nothing.
Clamped(v) == IF v < 0 THEN 0 ELSE IF v > 100 THEN 100 ELSE v
LevelAfter(c) == IF asked[c].what = "level" THEN Clamped(asked[c].level) ELSE level

\* _remember_command: the window once c is in it.
Remembered(c) == Append(IF Len(recent) = Window THEN Tail(recent) ELSE recent, c)

\* The simulated device: a command seen before is answered and not carried out.
\* (Its restart keeps the levels.)
SimulatedRuns ==
  LET c == Head(toDevice)  new == ~ Occurs(c, recent)  IN
  /\ kind = "simulated" /\ toDevice # <<>>
  /\ toDevice' = Tail(toDevice)
  /\ recent' = IF new THEN Remembered(c) ELSE recent
  /\ runs' = IF new THEN [runs EXCEPT ![c] = @ + 1] ELSE runs
  /\ level' = IF new THEN LevelAfter(c) ELSE level
  /\ outbox' = Append(outbox, [cmd |-> c, status |-> IF new THEN "completed" ELSE "duplicate"])
  /\ UNCHANGED <<table, thread, client, kind, session, blocked, replies, m, history>>

\* The demonstration device carries out whatever arrives; after a valid command
\* it waits, in the callback, for its telemetry to be acknowledged.
DemoRuns ==
  LET c == Head(toDevice) IN
  /\ kind = "demo" /\ ~ blocked /\ toDevice # <<>>
  /\ toDevice' = Tail(toDevice)
  /\ runs' = [runs EXCEPT ![c] = @ + 1]
  /\ level' = LevelAfter(c)
  /\ outbox' = Append(outbox, [cmd |-> c, status |-> "completed"])
  /\ blocked' = (asked[c].what # "invalid")
  /\ UNCHANGED <<table, thread, client, kind, session, recent, replies, m, history>>

\* The acknowledgement would be read by the thread that waits: only the timeout
\* of wait_for_publish ends the wait.
DemoReturnsAcknowledged ==  \* mutant: no timeout
  /\ blocked /\ ~ blocked
  /\ UNCHANGED vars

DemoReturns ==
  /\ blocked
  /\ blocked' = FALSE
  /\ UNCHANGED <<table, thread, client, kind, toDevice, session, recent, level, outbox, runs,
                 replies, m, history>>

\* A board carries out whatever arrives; its response is a QoS 0 message.
BoardRuns ==
  LET c == Head(toDevice) IN
  /\ kind = "board" /\ toDevice # <<>> /\ asked[c].what # "restart"
  /\ toDevice' = Tail(toDevice)
  /\ runs' = [runs EXCEPT ![c] = @ + 1]
  /\ level' = LevelAfter(c)
  /\ replies' = Arrived([cmd |-> c, status |-> "completed"])
  /\ UNCHANGED <<table, thread, client, kind, session, recent, blocked, outbox, m, history>>

\* ESP.restart() in the callback: the command is never acknowledged, and goes
\* with the session.  mqttClient_.loop() may have carried out the next one.
BoardRestartsInSession ==  \* mutant: the broker keeps the session
  LET c == Head(toDevice) IN
  /\ kind = "board" /\ toDevice # <<>> /\ asked[c].what = "restart"
  /\ runs' = [runs EXCEPT ![c] = @ + 1]
  /\ replies' = Arrived([cmd |-> c, status |-> "completed"])
  /\ session' = FALSE /\ level' = 0
  /\ UNCHANGED <<table, thread, client, kind, toDevice, recent, blocked, outbox, m, history>>

BoardRestarts ==
  LET c == Head(toDevice)  rest == Tail(toDevice)  IN
  /\ kind = "board" /\ toDevice # <<>> /\ asked[c].what = "restart"
  /\ \/ /\ runs' = [runs EXCEPT ![c] = @ + 1]
        /\ replies' = Arrived([cmd |-> c, status |-> "completed"])
     \/ /\ rest # <<>>
        /\ runs' = [[runs EXCEPT ![c] = @ + 1] EXCEPT ![Head(rest)] = @ + 1]
        /\ replies' = IF link /\ connected
                      THEN replies \o <<[cmd |-> c, status |-> "completed"],
                                        [cmd |-> Head(rest), status |-> "completed"]>>
                      ELSE replies
  /\ session' = FALSE /\ toDevice' = <<>> /\ level' = 0
  /\ dropped' = TRUE
  /\ UNCHANGED <<table, thread, client, kind, recent, blocked, outbox, m,
                 linkLosses, sessionLosses, order>>

-----------------------------------------------------------------------------
(* _store_event, for a response.                                           *)

ResponseLoad ==
  /\ m = NoReply /\ replies # <<>>
  /\ m' = Head(replies) /\ replies' = Tail(replies)
  /\ UNCHANGED <<table, thread, client, device, history>>

\* Whatever the status of the row was, the response replaces it.
ResponseCommit ==
  /\ m # NoReply
  /\ status' = [status EXCEPT ![m.cmd] = m.status]
  /\ answered' = answered \cup {m.cmd}
  /\ m' = NoReply
  /\ UNCHANGED <<asked, thread, client, device, replies, history>>

-----------------------------------------------------------------------------

Thread(c) == Check(c) \/ Publish(c) \/ Await(c) \/ FinishStatus(c)
Callback == SimulatedRuns \/ DemoRuns \/ DemoReturns \/ BoardRuns \/ BoardRestarts

Next ==
  \/ \E c \in Commands : Request(c) \/ Thread(c)
  \/ Connect \/ OnConnect \/ LoseLink \/ OnDisconnect \/ StopService \/ Deliver \/ Acknowledge
  \/ LoseSession \/ Reconnect \/ SendReply \/ Callback
  \/ ResponseLoad \/ ResponseCommit

\* A request thread that has started runs on: it waits for 5 s at most.  So
\* does the network loop of a device.
Fairness ==
  /\ \A c \in Commands : WF_vars(Thread(c))
  /\ WF_vars(Callback)

Spec == Init /\ [][Next]_vars /\ Fairness

-----------------------------------------------------------------------------
(* Properties.                                                             *)

\* Types; and a command is in the table as soon as its thread runs.
TypeOK ==
  /\ asked \in Asks
  /\ status \in [Commands -> {"none", "pending", "sent"} \cup Failures \cup Replies]
  /\ answered \in SUBSET Commands
  /\ thread \in [Commands -> {"none", "check", "unavailable", "publish", "error", "wait", "sent", "done"}]
  /\ connected \in BOOLEAN /\ link \in BOOLEAN
  /\ out \in Seq(Commands) /\ taken \in 0 .. Len(out) /\ taken <= Inflight
  /\ kind \in Kinds /\ session \in BOOLEAN /\ blocked \in BOOLEAN
  /\ toDevice \in Seq(Commands) /\ outbox \in Seq(Reply)
  /\ recent \in Seq(Commands) /\ Len(recent) <= Window
  /\ level \in 0 .. 100
  /\ replies \in Seq(Reply) /\ m \in Reply \cup {NoReply}
  /\ linkLosses \in 0 .. LinkLosses /\ sessionLosses \in 0 .. SessionLosses
  /\ order \in Seq(Commands) /\ dropped \in BOOLEAN
  /\ runs \in [Commands -> Nat]

\* A device carries a command out no oftener than it must.  The simulated one
\* does it once, however often a lost connection makes the control service send
\* it again: the window of ids it remembers is almost twice what can be on its
\* way, and less would not do, as a command lost with a session runs after later ones.
\* The others do it at most once per connection of the control service: a
\* restart, which a board never acknowledges, does not repeat for ever.
RunsAreBounded ==
  \A c \in Commands : runs[c] <= IF kind = "simulated" THEN 1 ELSE 1 + linkLosses

\* At rest the device has the level of the command published last, although
\* lost connections have had commands sent again and some of them carried out
\* again - unless one was dropped, with a session or with the control service.
SettlesOnLatest ==
  LET levels == {i \in 1 .. Len(order) : asked[order[i]].what = "level"} IN
  out = <<>> /\ toDevice = <<>> /\ ~ dropped =>
    \A i \in levels : (\A j \in levels : j <= i) => level = Clamped(asked[order[i]].level)

\* A command refused because the control service has no connection is never
\* carried out later.
UnavailableNeverRuns == \A c \in Commands : status[c] = "broker-unavailable" => runs[c] = 0

\* A recorded response stays recorded (response_at): the publishing thread that
\* commits after it does not write its whole copy of the row back.
AnswersAreKept == [][answered \subseteq answered']_vars

\* Nobody waits for ever for an acknowledgement: a request thread whose own
\* never comes returns, and a device gets through what it is sent although the
\* callback of the demonstration device waits for an acknowledgement that only
\* the waiting thread could read.
NobodyHangs ==
  \A c \in Commands :
    /\ thread[c] = "check" ~> thread[c] = "done"
    /\ Occurs(c, toDevice) ~> ~ Occurs(c, toDevice)

\* A command that has its response shows the status of the response
\* (device.html: "RX appears when the device response is received").
\* It does not hold: README, Disagreements.
AnsweredShowsItsAnswer == \A c \in answered : status[c] \in Replies

\* "MQTT publish was not acknowledged" is the error of a message without
\* acknowledgement: a command called sent has been acknowledged.
\* It does not hold: README, Disagreements.
SentIsAcknowledged == \A c \in Commands : status[c] = "sent" => ~ Occurs(c, out)

\* A command answered with "MQTT command publish failed" is not carried out.
\* It does not hold: README, Disagreements.
FailedNeverRuns == \A c \in Commands : status[c] = "publish-error" => runs[c] = 0

=============================================================================
