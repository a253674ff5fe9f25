----------------------------- MODULE CrlBroker ------------------------------
(***************************************************************************)
(* How a revocation reaches the sessions of the MQTT broker.               *)
(*                                                                         *)
(* A revoking thread of the API (or a CLI process) replaces the CRL file   *)
(* and then asks for a broker restart through restart.request, by way of   *)
(* one temporary file all of them share (server/app/mqtt_service.py,       *)
(* _request_broker_security_restart).  The broker's entrypoint             *)
(* (broker/docker-entrypoint-platform.sh) starts Mosquitto in the          *)
(* background and then a watcher that polls both files.  Mosquitto itself  *)
(* is not under src: it loads the CRL file when it starts and on SIGHUP,   *)
(* refuses a new session to a certificate in the list it has loaded, and   *)
(* leaves the sessions it already has alone until it exits.                *)
(*                                                                         *)
(* File contents stand for their hashes.  That a rebuilt CRL lists every   *)
(* tombstone is the matter of module Enrollment and taken for granted.     *)
(***************************************************************************)
EXTENDS Naturals

CONSTANTS
  Certs,           \* certificates, each revoked at most once
  MaxMosqCrashes,  \* bound: crashes of Mosquitto
  Absent,          \* no file: its hash is the empty string
  Empty            \* the content of a truncated file

ASSUME CertsAssumption == Absent \notin Certs /\ Empty \notin Certs \cup {Absent}
ASSUME BoundsAssumption == MaxMosqCrashes \in Nat

VARIABLES
  revocation,   \* how far the revocation of each certificate is
  fd,           \* the file the revoking thread has opened
  listed,       \* the CRL file
  file,         \* contents of the files the threads create
  tmp,          \* the file named restart.request.tmp
  request,      \* the file named restart.request
  mosq,         \* the Mosquitto process
  hup,          \* a SIGHUP is pending
  loaded,       \* the CRL Mosquitto has loaded
  conn,         \* certificates with an MQTT session
  watch,        \* the watcher: the next thing it does
  seenCrl,      \* last_hash
  seenRequest,  \* last_restart_hash
  missed,       \* history: certificates whose request the first look took as handled
  mosqCrashes

clients == <<revocation, fd, listed, file, tmp, request>>
broker == <<mosq, hup, loaded, conn, mosqCrashes>>
watcher == <<watch, seenCrl, seenRequest, missed>>
brokerVars == <<clients, broker, watcher>>

BrokerInit ==
  /\ revocation = [c \in Certs |-> "valid"]
  /\ fd = [c \in Certs |-> Absent]
  /\ listed = {}
  /\ file = [c \in Certs |-> Empty]
  /\ tmp = Absent /\ request = Absent
  /\ mosq = "off" /\ hup = FALSE /\ loaded = {} /\ conn = {}
  /\ watch = "off" /\ seenCrl = {} /\ seenRequest = Absent /\ missed = {}
  /\ mosqCrashes = 0

Polling == watch \in {"pollCrl", "pollRequest"}

-----------------------------------------------------------------------------
(* The revoking threads.                                                   *)

\* rebuild_crl_from_db
Revoke(c) ==
  /\ revocation[c] = "valid"
  /\ listed' = listed \cup {c}
  /\ revocation' = [revocation EXCEPT ![c] = "revoked"]
  /\ UNCHANGED <<fd, file, tmp, request, broker, watcher>>

\* temporary.write_text: open with truncation, of the file another thread may
\* have created and not renamed yet ...
OpenTmp(c) ==
  LET f == IF tmp = Absent THEN c ELSE tmp IN
  /\ revocation[c] = "revoked"
  /\ tmp' = f
  /\ fd' = [fd EXCEPT ![c] = f]
  /\ file' = [file EXCEPT ![f] = Empty]
  /\ revocation' = [revocation EXCEPT ![c] = "opened"]
  /\ UNCHANGED <<listed, request, broker, watcher>>

\* ... then the content, unique to each request, into whatever that file is now.
WriteTmp(c) ==
  /\ revocation[c] = "opened"
  /\ file' = [file EXCEPT ![fd[c]] = c]
  /\ revocation' = [revocation EXCEPT ![c] = "written"]
  /\ UNCHANGED <<fd, listed, tmp, request, broker, watcher>>

\* temporary.replace(path); if it is gone the OSError is only logged.
ReplaceRequest(c) ==
  /\ revocation[c] = "written"
  /\ IF tmp = Absent THEN UNCHANGED <<tmp, request>>
                     ELSE request' = tmp /\ tmp' = Absent
  /\ revocation' = [revocation EXCEPT ![c] = "requested"]
  /\ UNCHANGED <<fd, listed, file, broker, watcher>>

-----------------------------------------------------------------------------
(* Mosquitto and its container.                                            *)

\* `restart: unless-stopped`, up to the two background jobs.
ContainerStart ==
  /\ mosq = "off"
  /\ mosq' = "booting" /\ hup' = FALSE
  /\ watch' = "baselineCrl"
  /\ UNCHANGED <<clients, loaded, conn, mosqCrashes, seenCrl, seenRequest, missed>>

MosquittoLoad ==
  /\ mosq = "booting"
  /\ mosq' = "up" /\ loaded' = listed
  /\ UNCHANGED <<clients, watcher, hup, conn, mosqCrashes>>

MosquittoReload ==
  /\ mosq = "up" /\ hup
  /\ loaded' = listed /\ hup' = FALSE
  /\ UNCHANGED <<clients, watcher, mosq, conn, mosqCrashes>>

\* Mosquitto's exit ends `wait`: the watcher is killed, the container stops.
MosquittoExit ==
  /\ mosq = "stopping"
  /\ mosq' = "off" /\ conn' = {} /\ watch' = "off" /\ missed' = {}
  /\ UNCHANGED <<clients, hup, loaded, mosqCrashes, seenCrl, seenRequest>>

MosquittoCrash ==
  /\ mosq \in {"booting", "up"} /\ mosqCrashes < MaxMosqCrashes
  /\ mosq' = "stopping" /\ mosqCrashes' = mosqCrashes + 1
  /\ UNCHANGED <<clients, watcher, hup, loaded, conn>>

Connect(c) ==
  /\ mosq = "up" /\ c \notin loaded \cup conn
  /\ conn' = conn \cup {c}
  /\ UNCHANGED <<clients, watcher, mosq, hup, loaded, mosqCrashes>>

Disconnect(c) ==
  /\ c \in conn
  /\ conn' = conn \ {c}
  /\ UNCHANGED <<clients, watcher, mosq, hup, loaded, mosqCrashes>>

-----------------------------------------------------------------------------
(* watch_crl                                                               *)

RequestHash == IF request = Absent THEN Absent ELSE file[request]

BaselineCrl ==
  /\ watch = "baselineCrl"
  /\ seenCrl' = listed
  /\ watch' = "baselineRequest"
  /\ UNCHANGED <<clients, broker, seenRequest, missed>>

\* The request for c is still to be seen: its thread has still to rename the
\* file, or to write into the one that is there.
Coming(c) ==
  \/ revocation[c] = "revoked"
  \/ revocation[c] \in {"opened", "written"} /\ fd[c] = tmp
  \/ revocation[c] = "opened" /\ fd[c] = request

\* Revoked since Mosquitto loaded the CRL, and its request has been made.
Overtaken == IF mosq = "up" THEN {c \in listed \ loaded : ~ Coming(c)} ELSE {}

\* A request left by an earlier life of the container is not a new one; nor is,
\* to the watcher, one made since Mosquitto was started.
BaselineRequestNone ==  \* mutant: any request there is counts as new
  /\ watch = "baselineRequest"
  /\ seenRequest' = Absent /\ missed' = Overtaken
  /\ watch' = "pollCrl"
  /\ UNCHANGED <<clients, broker, seenCrl>>

BaselineRequest ==
  /\ watch = "baselineRequest"
  /\ seenRequest' = RequestHash /\ missed' = Overtaken
  /\ watch' = "pollCrl"
  /\ UNCHANGED <<clients, broker, seenCrl>>

\* kill -HUP: Mosquitto dies of it as long as it has not installed its handler.
Hup == \/ mosq = "booting" /\ mosq' = "stopping" /\ hup' = hup
       \/ mosq \in {"booting", "up"} /\ hup' = TRUE /\ mosq' = mosq
       \/ mosq = "stopping" /\ UNCHANGED <<mosq, hup>>

PollCrlSilently ==  \* mutant: the change is noted and no signal sent
  /\ watch = "pollCrl"
  /\ seenCrl' = listed
  /\ watch' = "pollRequest"
  /\ UNCHANGED <<clients, broker, seenRequest, missed>>

PollCrl ==
  /\ watch = "pollCrl"
  /\ seenCrl' = listed
  /\ IF listed # seenCrl THEN Hup ELSE UNCHANGED <<mosq, hup>>
  /\ watch' = "pollRequest"
  /\ UNCHANGED <<clients, seenRequest, missed, loaded, conn, mosqCrashes>>

NewRequestNever == FALSE  \* mutant: the request is never noticed

NewRequest == RequestHash # Absent /\ RequestHash # seenRequest

\* kill -TERM and return.
PollRequest ==
  /\ watch = "pollRequest"
  /\ \/ /\ NewRequest
        /\ mosq' = "stopping" /\ watch' = "done"
        /\ UNCHANGED seenRequest
     \/ /\ ~ NewRequest
        /\ seenRequest' = RequestHash /\ watch' = "pollCrl"
        /\ UNCHANGED mosq
  /\ UNCHANGED <<clients, hup, loaded, conn, mosqCrashes, seenCrl, missed>>

-----------------------------------------------------------------------------

Platform ==
  \/ ContainerStart \/ MosquittoLoad \/ MosquittoReload \/ MosquittoExit
  \/ BaselineCrl \/ BaselineRequest \/ PollCrl \/ PollRequest

BrokerNext ==
  \/ Platform \/ MosquittoCrash
  \/ \E c \in Certs : \/ Revoke(c) \/ OpenTmp(c) \/ WriteTmp(c) \/ ReplaceRequest(c)
                      \/ Connect(c) \/ Disconnect(c)

\* Docker restarts the container, the watcher polls every 0.25 s, Mosquitto
\* handles its signals.  A revoking thread is a daemon thread: it may die with
\* its process at any step and is given no fairness; nor is any client.
BrokerSpec ==
  /\ BrokerInit /\ [][BrokerNext]_brokerVars
  /\ WF_brokerVars(ContainerStart)
  /\ WF_brokerVars(MosquittoLoad) /\ WF_brokerVars(MosquittoReload)
  /\ WF_brokerVars(MosquittoExit)
  /\ WF_brokerVars(BaselineCrl \/ BaselineRequest \/ PollCrl \/ PollRequest)

-----------------------------------------------------------------------------
(* Properties.                                                             *)

Files == Certs \cup {Absent}

\* Types; and a watcher lives exactly as long as its container.
BrokerTypeOK ==
  /\ revocation \in [Certs -> {"valid", "revoked", "opened", "written", "requested"}]
  /\ fd \in [Certs -> Files] /\ tmp \in Files /\ request \in Files
  /\ file \in [Certs -> Certs \cup {Empty}]
  /\ listed \in SUBSET Certs /\ loaded \in SUBSET Certs /\ conn \in SUBSET Certs
  /\ mosq \in {"off", "booting", "up", "stopping"} /\ hup \in BOOLEAN
  /\ watch \in {"off", "baselineCrl", "baselineRequest", "pollCrl", "pollRequest", "done"}
  /\ seenCrl \in SUBSET Certs /\ missed \in SUBSET Certs
  /\ seenRequest \in Certs \cup {Empty, Absent}
  /\ mosqCrashes \in 0 .. MaxMosqCrashes
  /\ mosq = "off" <=> watch = "off"

\* In the CRL the watcher has seen, but not in the one Mosquitto goes by, and no
\* SIGHUP is on its way.
Unenforced(c) ==
  /\ watch \in {"baselineRequest", "pollCrl", "pollRequest"} /\ mosq = "up" /\ ~ hup
  /\ c \in seenCrl \ loaded

\* What the watcher has seen of the CRL is in force in Mosquitto or a SIGHUP is on
\* its way, however revocations, reloads, restarts and crashes interleave.  The
\* one exception is its first look at the file, which takes a certificate
\* revoked since Mosquitto's start as enforced; every later change mends it.
SeenCrlIsInForce ==
  [][\A c \in Certs : Unenforced(c)' => Unenforced(c) \/ BaselineCrl]_brokerVars

\* Between truncating the temporary file and writing it, a thread has had it
\* renamed by another: the request is empty until it goes on.
Truncated ==
  RequestHash = Empty /\ \E c \in Certs : revocation[c] = "opened" /\ fd[c] = request

\* A session that outlives the request to end it is about to be ended, unless the
\* first look missed the request: Mosquitto stops, or the watcher's next look
\* finds a request, or Truncated.
RestartComes ==
  Polling => \A c \in conn \ missed :
    revocation[c] = "requested" => mosq = "stopping" \/ NewRequest \/ Truncated

\* A certificate whose restart request has been made is eventually shut out for
\* good, although the requests of concurrent revocations overwrite each other's
\* temporary file and one of them may fail.  The one exception is a request made
\* after Mosquitto's start and before the watcher's first look at it, and it
\* lasts no longer than that life of the broker.  (If threads have died with their
\* process between truncating and writing: README, Limits of the code.)
RevokedIsShutOut ==
  <>[]~ Truncated =>
    \A c \in Certs : revocation[c] = "requested" ~> [](c \in conn => c \in missed)

\* Without that exception it does not hold ("the revoked certificate is rejected
\* against the updated CRL", evict_device): README, Disagreements.
EveryRequestShutsOut ==
  <>[]~ Truncated => \A c \in Certs : revocation[c] = "requested" ~> [](c \notin conn)

\* A revoked certificate that has no session, and that Mosquitto knows to be
\* revoked, has none any more, whatever is restarted or crashes.
OutStaysOut ==
  [][\A c \in Certs :
       revocation[c] # "valid" /\ c \in loaded \ conn => c \in loaded' \ conn']_brokerVars

\* No restart loop: one request does not restart the broker for ever, and once
\* the requests and the crashes end the broker stays up.
BrokerSettles == <>[](mosq = "up")

=============================================================================
