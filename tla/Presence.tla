------------------------------ MODULE Presence ------------------------------
(***************************************************************************)
(* Which devices the platform shows as online.                             *)
(*                                                                         *)
(* Three threads of the API process write the row of a device without      *)
(* excluding each other (server/app/mqtt_service.py, registry.py): the     *)
(* MQTT thread stores the messages of the devices in the order they        *)
(* arrive, the stale monitor marks the devices that have been silent for   *)
(* ONLINE_TIMEOUT_SECONDS, and an operator revokes, resets, enables and    *)
(* disables.  Each loads the row, decides on the copy, and writes back     *)
(* only the columns whose value it changed with respect to the copy.       *)
(*                                                                         *)
(* The broker keeps the last status of a device as a retained message and  *)
(* delivers it again to the control service at each subscription; it       *)
(* publishes the device's will when the session is lost.                   *)
(***************************************************************************)
EXTENDS Naturals, Sequences

CONSTANTS
  Devices,
  Operations,   \* what the operator does in a run
  MaxInbox,     \* bound: messages on their way to the control service
  MaxReplays,   \* bound: subscriptions of the control service
  Absent

OperationKinds == {"revoke", "reset", "enable", "provision", "delete"}

ASSUME ConstantsAssumption ==
  /\ Operations \subseteq OperationKinds
  /\ MaxInbox \in Nat \ {0} /\ MaxReplays \in Nat
  /\ Absent \notin Devices

VARIABLES
  dev,       \* table devices, the columns this is about
  session,   \* devices with an MQTT session
  retained,  \* the retained status of each device
  inbox,     \* messages on their way to _on_message
  m,         \* the MQTT thread: the message it stores and the row it loaded
  monitor,   \* the stale monitor: the rows it has decided to mark
  op,        \* the operator's request: what, on whom, and the row it loaded
  replays

presenceVars == <<dev, session, retained, inbox, m, monitor, op, replays>>

Row == [life : {"pending", "provisioned", "revoked"}, enabled : BOOLEAN,
        online : BOOLEAN,
        fresh : BOOLEAN]  \* last_seen is within online_timeout_seconds

\* A status message says whether the device is online; any other message is
\* telemetry or a response.
Message == [dev : Devices, body : {"online", "offline", "other"}]

ASSUME RowAssumption == Absent \notin Row \cup Message

NoMessage == [msg |-> Absent, row |-> Absent]
NoOperation == [kind |-> "none", d |-> Absent, row |-> Absent]

PresenceInit ==
  /\ dev = [d \in Devices |-> [life |-> "provisioned", enabled |-> TRUE,
                               online |-> FALSE, fresh |-> FALSE]]
  /\ session = {} /\ retained = [d \in Devices |-> Absent]
  /\ inbox = <<>> /\ m = NoMessage /\ monitor = {} /\ op = NoOperation
  /\ replays = 0

Flush(current, loaded, new) == IF new # loaded THEN new ELSE current

Barred(row) == row.life = "revoked" \/ ~ row.enabled

-----------------------------------------------------------------------------
(* The devices and the broker.                                             *)

Send(msg) == inbox' = Append(inbox, msg)

\* Devices hold a session, and publish, whatever the registry says of them:
\* the broker knows certificates only.
Connect(d) ==
  /\ d \notin session /\ Len(inbox) < MaxInbox
  /\ dev[d] # Absent /\ dev[d].life = "provisioned"
  /\ session' = session \cup {d}
  /\ retained' = [retained EXCEPT ![d] = "online"]
  /\ Send([dev |-> d, body |-> "online"])
  /\ UNCHANGED <<dev, m, monitor, op, replays>>

Publish(d) ==
  /\ d \in session /\ Len(inbox) < MaxInbox
  /\ \E body \in {"online", "other"} :
       /\ Send([dev |-> d, body |-> body])
       /\ retained' = IF body = "online" THEN [retained EXCEPT ![d] = body] ELSE retained
  /\ UNCHANGED <<dev, session, m, monitor, op, replays>>

\* The session ends and the will is published; or, when the broker itself
\* restarts, the will reaches nobody.
LoseSession(d) ==
  /\ d \in session
  /\ session' = session \ {d}
  /\ \/ /\ Len(inbox) < MaxInbox
        /\ Send([dev |-> d, body |-> "offline"])
        /\ retained' = [retained EXCEPT ![d] = "offline"]
     \/ UNCHANGED <<inbox, retained>>
  /\ UNCHANGED <<dev, m, monitor, op, replays>>

\* _on_connect subscribes, and the broker replays the retained statuses.
Resubscribe(d) ==
  /\ replays < MaxReplays /\ Len(inbox) < MaxInbox
  /\ retained[d] # Absent
  /\ replays' = replays + 1
  /\ Send([dev |-> d, body |-> retained[d]])
  /\ UNCHANGED <<dev, session, retained, m, monitor, op>>

-----------------------------------------------------------------------------
(* _store_event                                                            *)

StoreLoad ==
  /\ m = NoMessage /\ inbox # <<>>
  /\ inbox' = Tail(inbox)
  /\ m' = IF dev[Head(inbox).dev] = Absent THEN NoMessage
          ELSE [msg |-> Head(inbox), row |-> dev[Head(inbox).dev]]
  /\ UNCHANGED <<dev, session, retained, monitor, op, replays>>

\* device.online after the message, as the thread sees it.
OnlineAfterTrusting(row, body) == body # "offline"  \* mutant: anybody is online
OnlineAfterStatusOnly(row, body) ==                 \* mutant: telemetry does not count
  IF Barred(row) \/ body = "offline" THEN FALSE ELSE IF body = "online" THEN TRUE ELSE row.online

OnlineAfter(row, body) == ~ Barred(row) /\ body # "offline"

\* The message of a barred device is kept as an event and counts for nothing else.
StoreCommit ==
  LET d == m.msg.dev IN
  /\ m # NoMessage
  /\ dev' = IF dev[d] = Absent THEN dev
            ELSE [dev EXCEPT ![d].online = Flush(@, m.row.online, OnlineAfter(m.row, m.msg.body)),
                             ![d].fresh = @ \/ ~ Barred(m.row)]
  /\ m' = NoMessage
  /\ UNCHANGED <<session, retained, inbox, monitor, op, replays>>

-----------------------------------------------------------------------------
(* _mark_stale_devices                                                     *)

\* Time passes: last_seen falls behind the cutoff.
Age(d) ==
  /\ dev[d] # Absent /\ dev[d].fresh
  /\ dev' = [dev EXCEPT ![d].fresh = FALSE]
  /\ UNCHANGED <<session, retained, inbox, m, monitor, op, replays>>

StaleNone == {}  \* mutant
Stale == {d \in Devices : dev[d] # Absent /\ dev[d].online /\ ~ dev[d].fresh}

MonitorLoad ==
  /\ monitor = {} /\ Stale # {}
  /\ monitor' = Stale
  /\ UNCHANGED <<dev, session, retained, inbox, m, op, replays>>

\* One UPDATE per device and one commit: if a row is gone nothing is written.
MonitorCommit ==
  /\ monitor # {}
  /\ dev' = IF \E d \in monitor : dev[d] = Absent THEN dev
            ELSE [d \in Devices |-> IF d \in monitor THEN [dev[d] EXCEPT !.online = FALSE]
                                                     ELSE dev[d]]
  /\ monitor' = {}
  /\ UNCHANGED <<session, retained, inbox, m, op, replays>>

-----------------------------------------------------------------------------
(* The operator.  Enrollment gives the steps of these requests in full.    *)

OperatorLoad(kind, d) ==
  /\ kind \in Operations /\ op = NoOperation
  /\ dev[d] # Absent
  /\ kind = "provision" => dev[d].life = "pending" /\ dev[d].enabled
  /\ op' = [kind |-> kind, d |-> d, row |-> dev[d]]
  /\ UNCHANGED <<dev, session, retained, inbox, m, monitor, replays>>

\* What the request makes of the row it loaded.
Revoked(row) == [row EXCEPT !.life = "revoked", !.online = FALSE]
Reset(row) == [row EXCEPT !.life = "pending", !.online = FALSE]
Provisioned(row) == [row EXCEPT !.life = "provisioned"]
Toggled(row) == [row EXCEPT !.enabled = ~ @]

Outcome(kind, row) ==
  CASE kind = "revoke" -> Revoked(row)
    [] kind = "reset" -> Reset(row)
    [] kind = "provision" -> Provisioned(row)
    [] kind = "enable" -> Toggled(row)

OperatorCommit ==
  LET d == op.d  new == Outcome(op.kind, op.row)  IN
  /\ op # NoOperation
  /\ dev' = IF dev[d] = Absent THEN dev
            ELSE IF op.kind = "delete" THEN [dev EXCEPT ![d] = Absent]
            ELSE [dev EXCEPT ![d].life = Flush(@, op.row.life, new.life),
                             ![d].online = Flush(@, op.row.online, new.online),
                             ![d].enabled = Flush(@, op.row.enabled, new.enabled)]
  /\ op' = NoOperation
  /\ UNCHANGED <<session, retained, inbox, m, monitor, replays>>

\* The id of a deleted device may be registered again.
Register(d) ==
  /\ "delete" \in Operations /\ dev[d] = Absent
  /\ dev' = [dev EXCEPT ![d] = [life |-> "pending", enabled |-> TRUE,
                               online |-> FALSE, fresh |-> FALSE]]
  /\ UNCHANGED <<session, retained, inbox, m, monitor, op, replays>>

-----------------------------------------------------------------------------

Service == StoreLoad \/ StoreCommit
Monitor == MonitorLoad \/ MonitorCommit

PresenceNext ==
  \/ Service \/ Monitor \/ OperatorCommit
  \/ \E d \in Devices :
       \/ Connect(d) \/ Publish(d) \/ LoseSession(d) \/ Resubscribe(d) \/ Age(d) \/ Register(d)
       \/ \E kind \in OperationKinds : OperatorLoad(kind, d)

PresenceSpec == PresenceInit /\ [][PresenceNext]_presenceVars

\* The threads run, time passes, and a connected device publishes its periodic
\* status and telemetry.
FairPresence ==
  /\ PresenceSpec
  /\ WF_presenceVars(Service) /\ WF_presenceVars(Monitor)
  /\ \A d \in Devices : WF_presenceVars(Age(d)) /\ SF_presenceVars(Publish(d))

-----------------------------------------------------------------------------
(* Properties.                                                             *)

\* Types.
PresenceTypeOK ==
  /\ dev \in [Devices -> Row \cup {Absent}]
  /\ session \in SUBSET Devices
  /\ retained \in [Devices -> {"online", "offline", Absent}]
  /\ inbox \in Seq(Message) /\ Len(inbox) <= MaxInbox
  /\ m \in [msg : Message \cup {Absent}, row : Row \cup {Absent}]
  /\ monitor \in SUBSET Devices
  /\ op \in [kind : OperationKinds \cup {"none"}, d : Devices \cup {Absent}, row : Row \cup {Absent}]
  /\ replays \in 0 .. MaxReplays

Revocation(d) == dev[d] # Absent /\ dev[d].life = "revoked"
Out(d) == dev[d] # Absent /\ Barred(dev[d])

\* "It must never mark a revoked device ONLINE again": no step turns a device
\* that is and stays revoked from offline to online.
\* It does not hold: README, Disagreements.
RevokedStaysOffline ==
  [][\A d \in Devices :
       Revocation(d) /\ ~ dev[d].online /\ Revocation(d)' => ~ dev'[d].online]_presenceVars

\* Offline, and no message is being stored that was taken up before the device was
\* revoked or disabled.
SettledOffline(d) ==
  /\ Out(d) /\ ~ dev[d].online
  /\ m # NoMessage /\ m.msg.dev = d => Barred(m.row)

\* That message is the last that can show the device online: after it no message,
\* operation or round of the monitor does, until the device is let in again.
BarredStaysOffline ==
  [][\A d \in Devices : SettledOffline(d) /\ Out(d)' => SettledOffline(d)']_presenceVars

\* Whatever the races did, a device that stays revoked or disabled is in the
\* end shown offline and stays so, even while its old session keeps publishing.
BarredGoesOffline ==
  \A d \in Devices : <>[]Out(d) => <>[](Out(d) /\ ~ dev[d].online)

\* A device whose session is gone for good is in the end shown offline, also
\* when the retained status the broker replays still says online.
SilentGoesOffline ==
  \A d \in Devices :
    <>[](d \notin session) => <>[](dev[d] # Absent => ~ dev[d].online)

\* A provisioned device that keeps publishing is shown online again and again:
\* no stale write of the monitor or of the operator hides it for ever.
TalkingIsOnline ==
  \A d \in Devices :
    <>[](d \in session /\ dev[d] # Absent /\ ~ Barred(dev[d])) => []<>(dev[d] # Absent /\ dev[d].online)

=============================================================================
