----------------------------- MODULE Enrollment -----------------------------
(***************************************************************************)
(* The device registry and its enrollment protocol on the API server:      *)
(* server/app/routers/provisioning.py, registry.py, project_reset.py, the  *)
(* device operations of routers/admin.py and dashboard.py, and the         *)
(* registry command line scripts/admin.py.                                 *)
(*                                                                         *)
(* Every request is served by a thread (or a CLI process) with a database  *)
(* session of its own.  SELECTs take no lock and no snapshot, the objects  *)
(* they load are not refreshed by a commit (expire_on_commit=False), and   *)
(* an UPDATE writes only the columns whose value the handler changed with  *)
(* respect to what it LOADED.  A handler is therefore a sequence of steps, *)
(* each one SELECT, one committed transaction or one file replacement,     *)
(* that work on possibly stale copies kept in h[w].                        *)
(***************************************************************************)
EXTENDS Naturals, FiniteSets

CONSTANTS
  Devices,              \* device ids
  Simulated,            \* those registered with deployment_type "simulated"
  Handlers,             \* request threads and CLI processes
  Requests,             \* the requests, and other events, of a run
  MaxAttempts,          \* MAX_ENROLLMENT_ATTEMPTS
  AllowReprovisioning,  \* settings.allow_reprovisioning
  Overlap,              \* may two requests about one device overlap?
  Faults,               \* may a handler die, or the CA fail?
  MaxSessions, MaxSerials, MaxSecrets,  \* bounds: identifiers ever drawn
  Absent                \* no row

RequestKinds ==
  {"register", "enable", "challenge", "elapse", "enroll", "revoke", "reset",
   "project-reset", "purge-simulated"}   \* "elapse": a challenge's TTL runs out

ASSUME ConstantsAssumption ==
  /\ Simulated \subseteq Devices
  /\ Requests \subseteq RequestKinds
  /\ MaxAttempts \in Nat \ {0}
  /\ AllowReprovisioning \in BOOLEAN /\ Overlap \in BOOLEAN /\ Faults \in BOOLEAN
  /\ MaxSessions \in Nat /\ MaxSerials \in Nat /\ MaxSecrets \in Nat
  /\ Absent \notin Devices

VARIABLES
  dev,       \* table devices
  sess,      \* table bootstrap_sessions
  tomb,      \* table revoked_certificates: the serials it holds
  crl,       \* serials listed in the CRL file
  dropped,   \* serials whose MQTT sessions a requested broker restart drops
  expired,   \* sessions whose expires_at has passed
  used,      \* how many sessions, serials and secrets have been drawn
  h,         \* per handler: where it is and what it has loaded
  certs,     \* history: for each committed certificate, whose it is
  tries      \* history: proofs verified under each session

rows == <<dev, sess, tomb>>
vars == <<dev, sess, tomb, crl, dropped, expired, used, h, certs, tries>>

None == 0                       \* a NULL serial; also a proof made with no secret
SessionIds == 1 .. MaxSessions
Serials == 1 .. MaxSerials
Secrets == 1 .. MaxSecrets

Device == [enabled : BOOLEAN,
           life    : {"pending", "provisioned", "revoked"},
           reprov  : BOOLEAN,
           serial  : Serials \cup {None},
           secret  : Secrets]

Results == {"none", "superseded", "expired", "blocked", "invalid",
            "already-provisioned", "server-error", "issued"}

BootstrapSession == [dev : Devices, consumed : BOOLEAN, result : Results,
                     attempts : 0 .. MaxAttempts]

RevokedCertificate == Serials

Certificate == [dev : Devices, sid : SessionIds]

ASSUME RowsAssumption == Absent \notin Device \cup BootstrapSession \cup Certificate

Phases == {"idle", "supersede", "loadDevice", "count", "decide", "lookup",
           "issue", "revoke", "rekey", "loadAll", "purge",
           "crlRead", "crlWrite", "evict"}

Handler == [op : RequestKinds \cup {"none"}, pc : Phases,
            d : Devices \cup {Absent},     \* the device of the request
            ids : SUBSET Devices,          \* the devices it is about
            sid : SessionIds \cup {None},  \* the session presented, or created
           secret : Secrets \cup {None},  \* the proof's key, or the new secret
            late : BOOLEAN,                \* `now` is past expires_at
            row : Device \cup {Absent},    \* the Device object
            srow : BootstrapSession \cup {Absent},  \* the BootstrapSession object
            serial : Serials \cup {None},  \* certificate signed, not committed
            marks : SUBSET Serials,        \* serials to tombstone
            snap : SUBSET Serials,         \* tombstones read for the CRL
            evict : BOOLEAN]               \* evict_device at the end

Idle == [op |-> "none", pc |-> "idle", d |-> Absent, ids |-> {}, sid |-> None,
         secret |-> None, late |-> FALSE, row |-> Absent, srow |-> Absent,
         serial |-> None, marks |-> {}, snap |-> {}, evict |-> FALSE]

Init ==
  /\ dev = [d \in Devices |-> Absent]
  /\ sess = [s \in SessionIds |-> Absent]
  /\ tomb = {} /\ crl = {} /\ dropped = {} /\ expired = {}
  /\ used = [sessions |-> 0, serials |-> 0, secrets |-> 0]
  /\ h = [w \in Handlers |-> Idle]
  /\ certs = [n \in Serials |-> Absent]
  /\ tries = [s \in SessionIds |-> 0]

-----------------------------------------------------------------------------
(* What every handler is made of.                                          *)

\* The column an ORM flush leaves: written only if the handler changed it.
Flush(current, loaded, new) == IF new # loaded THEN new ELSE current

SerialOfNone(row) == {}  \* mutant: the certificate is forgotten

SerialOf(row) == IF row.serial = None THEN {} ELSE {row.serial}

\* A new request is taken by an idle handler.  With Overlap = FALSE no other
\* request about the same devices is in progress.
Take(w, op, ids) ==
  /\ op \in Requests
  /\ h[w].pc = "idle"
  /\ Overlap \/ \A v \in Handlers : h[v].ids \cap ids = {}

Begin(op, pc, d) == [Idle EXCEPT !.op = op, !.pc = pc, !.d = d, !.ids = {d},
                                    !.row = dev[d]]

Goto(w, pc) == h' = [h EXCEPT ![w].pc = pc]
Finish(w) == h' = [h EXCEPT ![w] = Idle]

\* UPDATE of a row that is gone raises StaleDataError; the rollback leaves
\* the tables as they are and the request ends with a 500.
Rollback(w) == Finish(w) /\ UNCHANGED rows

\* revoked_certificates with the rows this transaction adds.
Tombstoned(w) == tomb \cup h[w].marks

Reprovisionable(row) == AllowReprovisioning \/ row.reprov
Authorised(row) == row # Absent /\ row.enabled /\ row.life # "revoked"

-----------------------------------------------------------------------------
(* Registration and the enabled flag: one transaction each.                *)

Register(d) ==
  /\ "register" \in Requests
  /\ dev[d] = Absent
  /\ used.secrets < MaxSecrets
  /\ Overlap \/ \A w \in Handlers : d \notin h[w].ids
  /\ used' = [used EXCEPT !.secrets = @ + 1]
  /\ \E reprov \in BOOLEAN :
       dev' = [dev EXCEPT ![d] = [enabled |-> TRUE, life |-> "pending", reprov |-> reprov,
                                  serial |-> None, secret |-> used.secrets + 1]]
  /\ UNCHANGED <<sess, tomb, crl, dropped, expired, h, certs, tries>>

SetEnabled(d) ==
  /\ "enable" \in Requests
  /\ dev[d] # Absent
  /\ Overlap \/ \A w \in Handlers : d \notin h[w].ids
  /\ dev' = [dev EXCEPT ![d].enabled = ~ @]
  /\ UNCHANGED <<sess, tomb, crl, dropped, expired, used, h, certs, tries>>

-----------------------------------------------------------------------------
(* POST /challenge.                                                        *)

ChallengeLoad(w, d) ==
  /\ Take(w, "challenge", {d})
  /\ Authorised(dev[d])
  /\ dev[d].life = "provisioned" => Reprovisionable(dev[d])
  /\ used.sessions < MaxSessions
  /\ used' = [used EXCEPT !.sessions = @ + 1]
  /\ h' = [h EXCEPT ![w] = [Begin("challenge", "supersede", d) EXCEPT !.sid = used.sessions + 1]]
  /\ UNCHANGED <<dev, sess, tomb, crl, dropped, expired, certs, tries>>

SupersededNone(d) == {}  \* mutant: older challenges stay open

Superseded(d) ==
  {s \in SessionIds : sess[s] # Absent /\ sess[s].dev = d /\ ~ sess[s].consumed}

\* One transaction: every unconsumed session of the device is superseded and
\* the new one inserted.  The foreign key refuses a device deleted meanwhile.
ChallengeCommit(w) ==
  LET d == h[w].d IN
  /\ h[w].pc = "supersede"
  /\ \/ /\ dev[d] = Absent
        /\ Rollback(w)
     \/ /\ dev[d] # Absent
        /\ sess' = [s \in SessionIds |->
                      IF s = h[w].sid THEN [dev |-> d, consumed |-> FALSE, result |-> "none", attempts |-> 0]
                      ELSE IF s \in Superseded(d)
                           THEN [sess[s] EXCEPT !.consumed = TRUE, !.result = "superseded"]
                           ELSE sess[s]]
        /\ Finish(w)
        /\ UNCHANGED <<dev, tomb>>
  /\ UNCHANGED <<crl, dropped, expired, used, certs, tries>>

Elapse(s) ==
  /\ "elapse" \in Requests
  /\ sess[s] # Absent /\ s \notin expired
  /\ expired' = expired \cup {s}
  /\ UNCHANGED <<dev, sess, tomb, crl, dropped, used, h, certs, tries>>

-----------------------------------------------------------------------------
(* POST /enroll.                                                           *)

EnrollLoadSession(w, d, s, secret) ==
  /\ Take(w, "enroll", {d})
  /\ sess[s] # Absent
  /\ secret <= used.secrets
  /\ h' = [h EXCEPT ![w] = [Idle EXCEPT !.op = "enroll", !.pc = "loadDevice", !.d = d,
                                        !.ids = {d}, !.sid = s, !.secret = secret,
                                        !.late = s \in expired, !.srow = sess[s]]]
  /\ UNCHANGED <<dev, sess, tomb, crl, dropped, expired, used, certs, tries>>

EnrollLoadDevice(w) ==
  LET d == h[w].d IN
  /\ h[w].pc = "loadDevice"
  /\ IF Authorised(dev[d]) /\ h[w].srow.dev = d /\ ~ h[w].srow.consumed
     THEN h' = [h EXCEPT ![w].pc = "count", ![w].row = dev[d]]
     ELSE Finish(w)
  /\ UNCHANGED <<dev, sess, tomb, crl, dropped, expired, used, certs, tries>>

\* session.consumed_at = now; session.result = result
Consume(s, result) ==
  sess' = [sess EXCEPT ![s].consumed = TRUE, ![s].result = result]


Blocked(w) == h[w].srow.attempts >= MaxAttempts

\* The session row once the attempt is committed: one column is written.
CountedWholeRow(s, srow) == [srow EXCEPT !.attempts = @ + 1]  \* mutant: all of them

Counted(s, srow) == [sess[s] EXCEPT !.attempts = srow.attempts + 1]

\* The attempt is committed before any proof is looked at.
EnrollCount(w) ==
  LET s == h[w].sid IN
  /\ h[w].pc = "count"
  /\ \/ sess[s] = Absent /\ Rollback(w)
     \/ /\ sess[s] # Absent /\ h[w].late
        /\ Consume(s, "expired") /\ Finish(w) /\ UNCHANGED <<dev, tomb>>
     \/ /\ sess[s] # Absent /\ ~ h[w].late /\ Blocked(w)
        /\ Consume(s, "blocked") /\ Finish(w) /\ UNCHANGED <<dev, tomb>>
     \/ /\ sess[s] # Absent /\ ~ h[w].late /\ ~ Blocked(w)
        /\ sess' = [sess EXCEPT ![s] = Counted(s, h[w].srow)]
        /\ h' = [h EXCEPT ![w].pc = "decide", ![w].srow.attempts = @ + 1]
        /\ UNCHANGED <<dev, tomb>>
  /\ UNCHANGED <<crl, dropped, expired, used, certs, tries>>

\* SecurityError (CSR) or a proof that does not verify with the loaded secret.
EnrollReject(w) ==
  LET s == h[w].sid IN
  /\ h[w].pc = "decide" /\ h[w].secret # h[w].row.secret
  /\ IF Blocked(w) /\ sess[s] # Absent
     THEN Consume(s, "invalid")
     ELSE UNCHANGED sess
  /\ tries' = [tries EXCEPT ![s] = @ + 1]
  /\ Finish(w)
  /\ UNCHANGED <<dev, tomb, crl, dropped, expired, used, certs>>

EnrollAlreadyProvisioned(w) ==
  LET s == h[w].sid IN
  /\ h[w].pc = "decide" /\ h[w].secret = h[w].row.secret
  /\ h[w].row.life = "provisioned" /\ ~ Reprovisionable(h[w].row)
  /\ IF sess[s] # Absent THEN Consume(s, "already-provisioned") ELSE UNCHANGED sess
  /\ tries' = [tries EXCEPT ![s] = @ + 1]
  /\ Finish(w)
  /\ UNCHANGED <<dev, tomb, crl, dropped, expired, used, certs>>

MayIssue(w) ==
  /\ h[w].pc = "decide" /\ h[w].secret = h[w].row.secret
  /\ h[w].row.life = "provisioned" => Reprovisionable(h[w].row)

\* The CA key cannot be read: the session stays open for another attempt.
EnrollCaFailure(w) ==
  LET s == h[w].sid IN
  /\ Faults /\ MayIssue(w)
  /\ IF sess[s] # Absent
     THEN sess' = [sess EXCEPT ![s].result = Flush(@, h[w].srow.result, "server-error")]
     ELSE UNCHANGED sess
  /\ tries' = [tries EXCEPT ![s] = @ + 1]
  /\ Finish(w)
  /\ UNCHANGED <<dev, tomb, crl, dropped, expired, used, certs>>

EnrollSign(w) ==
  /\ MayIssue(w)
  /\ used.serials < MaxSerials
  /\ used' = [used EXCEPT !.serials = @ + 1]
  /\ tries' = [tries EXCEPT ![h[w].sid] = @ + 1]
  /\ h' = [h EXCEPT ![w].pc = "lookup", ![w].serial = used.serials + 1,
                    ![w].marks = SerialOf(h[w].row)]
  /\ UNCHANGED <<dev, sess, tomb, crl, dropped, expired, certs>>

-----------------------------------------------------------------------------
(* Tombstones: db.get(RevokedCertificate, serial), then a transaction that *)
(* inserts the missing ones.  A serial inserted by somebody else in        *)
(* between is a primary-key conflict: the whole transaction rolls back.    *)

AfterLookup(op) ==
  CASE op = "enroll" -> "issue"
    [] op \in {"revoke", "reset"} -> "revoke"
    [] OTHER -> "purge"

Lookup(w) ==
  /\ h[w].pc = "lookup"
  /\ h' = [h EXCEPT ![w].marks = @ \ tomb, ![w].pc = AfterLookup(h[w].op),
                    ![w].evict = @ \/ (h[w].op \in {"enroll", "purge-simulated"}
                                       /\ h[w].marks \ tomb # {})]
  /\ UNCHANGED <<dev, sess, tomb, crl, dropped, expired, used, certs, tries>>

Conflict(w) == h[w].marks \cap tomb # {}

\* old_certificate_revoked
RebuildNever(w) == FALSE  \* mutant: the CRL is left as it is

RebuildDue(w) == h[w].marks # {}

EnrollCommit(w) ==
  LET d == h[w].d  s == h[w].sid  IN
  /\ h[w].pc = "issue"
  /\ \/ /\ Conflict(w) \/ sess[s] = Absent \/ dev[d] = Absent
        /\ Rollback(w)
        /\ UNCHANGED certs
     \/ /\ ~ Conflict(w) /\ sess[s] # Absent /\ dev[d] # Absent
        /\ tomb' = Tombstoned(w)
        /\ Consume(s, "issued")
        /\ dev' = [dev EXCEPT ![d].life = Flush(@, h[w].row.life, "provisioned"),
                              ![d].serial = h[w].serial]
        /\ certs' = [certs EXCEPT ![h[w].serial] = [dev |-> d, sid |-> s]]
        /\ IF RebuildDue(w) THEN Goto(w, "crlRead") ELSE Finish(w)
  /\ UNCHANGED <<crl, dropped, expired, used, tries>>

-----------------------------------------------------------------------------
(* Revocation and reset of one device.                                     *)

RevokeLoad(w, d) ==
  /\ Take(w, "revoke", {d})
  /\ dev[d] # Absent /\ dev[d].serial # None
  /\ h' = [h EXCEPT ![w] = [Begin("revoke", "lookup", d) EXCEPT
                              !.marks = SerialOf(dev[d]), !.evict = TRUE]]
  /\ UNCHANGED <<dev, sess, tomb, crl, dropped, expired, used, certs, tries>>

ResetLoad(w, d) ==
  /\ Take(w, "reset", {d})
  /\ dev[d] # Absent
  /\ used.secrets < MaxSecrets
  /\ used' = [used EXCEPT !.secrets = @ + 1]
  /\ h' = [h EXCEPT ![w] =
             [Begin("reset", IF dev[d].serial # None THEN "lookup" ELSE "rekey", d) EXCEPT
                !.secret = used.secrets + 1,
                !.marks = SerialOf(dev[d]),
                !.evict = dev[d].serial # None]]
  /\ UNCHANGED <<dev, sess, tomb, crl, dropped, expired, certs, tries>>

RevokeCommitKeepingLife(w) ==  \* mutant: lifecycle_status is not written
  /\ h[w].pc = "revoke" /\ ~ Conflict(w) /\ dev[h[w].d] # Absent
  /\ tomb' = Tombstoned(w)
  /\ h' = [h EXCEPT ![w].pc = "crlRead", ![w].row.life = "revoked"]
  /\ UNCHANGED <<dev, sess, crl, dropped, expired, used, certs, tries>>

\* revoke_current_certificate, up to its commit.
RevokeCommit(w) ==
  LET d == h[w].d IN
  /\ h[w].pc = "revoke"
  /\ \/ (Conflict(w) \/ dev[d] = Absent) /\ Rollback(w)
     \/ /\ ~ Conflict(w) /\ dev[d] # Absent
        /\ tomb' = Tombstoned(w)
        /\ dev' = [dev EXCEPT ![d].life = Flush(@, h[w].row.life, "revoked")]
        /\ h' = [h EXCEPT ![w].pc = "crlRead", ![w].row.life = "revoked"]
        /\ UNCHANGED sess
  /\ UNCHANGED <<crl, dropped, expired, used, certs, tries>>

\* The second half of reset_bootstrap_secret: a new secret, back to pending.
Rekey(w) ==
  LET d == h[w].d IN
  /\ h[w].pc = "rekey"
  /\ \/ dev[d] = Absent /\ Rollback(w)
     \/ /\ dev[d] # Absent
        /\ dev' = [dev EXCEPT ![d].secret = h[w].secret,
                              ![d].life = Flush(@, h[w].row.life, "pending"),
                              ![d].serial = Flush(@, h[w].row.serial, None)]
        /\ h' = [h EXCEPT ![w].pc = "crlRead", ![w].row.life = "pending",
                          ![w].row.serial = None]
        /\ UNCHANGED <<sess, tomb>>
  /\ UNCHANGED <<crl, dropped, expired, used, certs, tries>>

-----------------------------------------------------------------------------
(* Project reset and purge of the simulated devices.                       *)

Registered == {d \in Devices : dev[d] # Absent}

\* The dashboard lists the ids it will evict, then waits for the Simulation
\* Manager and the Manufacturing Agent before anything is deleted.
ProjectResetBegin(w) ==
  /\ Take(w, "project-reset", Devices)
  /\ h' = [h EXCEPT ![w] = [Idle EXCEPT !.op = "project-reset", !.pc = "loadAll",
                                        !.ids = Devices, !.evict = Registered # {}]]
  /\ UNCHANGED <<dev, sess, tomb, crl, dropped, expired, used, certs, tries>>

ProjectResetLoad(w) ==
  /\ h[w].pc = "loadAll"
  /\ h' = [h EXCEPT ![w].pc = "lookup", ![w].marks = UNION {SerialOf(dev[d]) : d \in Registered}]
  /\ UNCHANGED <<dev, sess, tomb, crl, dropped, expired, used, certs, tries>>

PurgeLoad(w) ==
  LET ids == Registered \cap Simulated IN
  /\ Take(w, "purge-simulated", Simulated)
  /\ h' = [h EXCEPT ![w] = [Idle EXCEPT
             !.op = "purge-simulated", !.ids = ids,
             !.pc = IF ids = {} THEN "crlRead" ELSE "lookup",
             !.marks = UNION {SerialOf(dev[d]) : d \in ids}]]
  /\ UNCHANGED <<dev, sess, tomb, crl, dropped, expired, used, certs, tries>>

Purged(ids) == [d \in Devices |-> IF d \in ids THEN Absent ELSE dev[d]]

\* One transaction: INSERT the tombstones, DELETE the children, DELETE the
\* devices: every device there is, or those the purge has listed.
PurgeCommit(w) ==
  /\ h[w].pc = "purge"
  /\ \/ Conflict(w) /\ Rollback(w)
     \/ /\ ~ Conflict(w)
        /\ tomb' = Tombstoned(w)
        /\ dev' = Purged(h[w].ids)
        /\ sess' = [s \in SessionIds |->
                      IF sess[s] # Absent /\ sess[s].dev \in h[w].ids THEN Absent ELSE sess[s]]
        /\ Goto(w, "crlRead")
  /\ UNCHANGED <<crl, dropped, expired, used, certs, tries>>

-----------------------------------------------------------------------------
(* rebuild_crl_from_db and evict_device.                                   *)

CrlRead(w) ==
  /\ h[w].pc = "crlRead"
  /\ h' = [h EXCEPT ![w].pc = "crlWrite", ![w].snap = tomb]
  /\ UNCHANGED <<dev, sess, tomb, crl, dropped, expired, used, certs, tries>>

\* The first of the two rebuilds of a reset is followed by the new secret.
RekeyDue(w) == h[w].op = "reset" /\ h[w].row.life = "revoked"

EvictDue(w) == h[w].evict

CrlWrite(w) ==
  /\ h[w].pc = "crlWrite"
  /\ crl' = h[w].snap
  /\ \/ RekeyDue(w) /\ Goto(w, "rekey")
     \/ ~ RekeyDue(w) /\ EvictDue(w) /\ Goto(w, "evict")
     \/ ~ RekeyDue(w) /\ ~ EvictDue(w) /\ Finish(w)
  /\ UNCHANGED <<dev, sess, tomb, dropped, expired, used, certs, tries>>

\* The broker restart it requests drops every session and loads the CRL file.
Evict(w) ==
  /\ h[w].pc = "evict"
  /\ dropped' = dropped \cup crl
  /\ Finish(w)
  /\ UNCHANGED <<dev, sess, tomb, crl, expired, used, certs, tries>>

\* An exception the handler does not catch, or the death of its process.
Abort(w) ==
  /\ Faults
  /\ h[w].pc # "idle"
  /\ Finish(w)
  /\ UNCHANGED <<dev, sess, tomb, crl, dropped, expired, used, certs, tries>>

-----------------------------------------------------------------------------

Step(w) ==
  \/ ChallengeCommit(w)
  \/ EnrollLoadDevice(w) \/ EnrollCount(w) \/ EnrollReject(w)
  \/ EnrollAlreadyProvisioned(w) \/ EnrollCaFailure(w) \/ EnrollSign(w)
  \/ Lookup(w) \/ EnrollCommit(w)
  \/ RevokeCommit(w) \/ Rekey(w)
  \/ ProjectResetLoad(w) \/ PurgeCommit(w)
  \/ CrlRead(w) \/ CrlWrite(w) \/ Evict(w)

Request(w) ==
  \/ \E d \in Devices : ChallengeLoad(w, d) \/ RevokeLoad(w, d) \/ ResetLoad(w, d)
  \/ \E d \in Devices, s \in SessionIds, secret \in Secrets \cup {None} :
       EnrollLoadSession(w, d, s, secret)
  \/ ProjectResetBegin(w) \/ PurgeLoad(w)

Next ==
  \/ \E d \in Devices : Register(d) \/ SetEnabled(d)
  \/ \E s \in SessionIds : Elapse(s)
  \/ \E w \in Handlers : Request(w) \/ Step(w) \/ Abort(w)

Spec == Init /\ [][Next]_vars

\* A thread that has taken a request runs: nothing in the code suspends it.
FairSpec == Spec /\ \A w \in Handlers : WF_vars(Step(w))

-----------------------------------------------------------------------------
(* Properties.                                                             *)

\* Type correctness of the tables, the files, the handlers and the history.
TypeOK ==
  /\ dev \in [Devices -> Device \cup {Absent}]
  /\ sess \in [SessionIds -> BootstrapSession \cup {Absent}]
  /\ tomb \in SUBSET RevokedCertificate
  /\ crl \in SUBSET Serials /\ dropped \in SUBSET Serials
  /\ expired \in SUBSET SessionIds
  /\ used \in [sessions : 0 .. MaxSessions, serials : 0 .. MaxSerials, secrets : 0 .. MaxSecrets]
  /\ h \in [Handlers -> Handler]
  /\ certs \in [Serials -> Certificate \cup {Absent}]
  /\ tries \in [SessionIds -> Nat]

\* A device the registry calls provisioned has a certificate, and that
\* certificate is neither tombstoned nor in the CRL, however revocations,
\* resets and enrollments about it interleave or die half way.
ProvisionedIsValid ==
  \A d \in Devices : dev[d] # Absent /\ dev[d].life = "provisioned" =>
    /\ dev[d].serial # None
    /\ dev[d].serial \notin tomb \cup crl

\* Only the latest challenge of a device can be open (create_challenge: "Keep
\* only the most recent challenge active"), also when challenges race.
OneOpenChallenge ==
  \A s, t \in SessionIds :
    /\ sess[s] # Absent /\ ~ sess[s].consumed
    /\ sess[t] # Absent /\ ~ sess[t].consumed
    /\ sess[s].dev = sess[t].dev
    => s = t

\* A tombstone outlives everything, a project reset included: a certificate
\* revoked once stays revoked.
TombstonesArePermanent == [][tomb \subseteq tomb']_vars

\* A consumed challenge is never open again, whatever stale copy of it a slow
\* enrollment writes back.
ConsumedIsFinal ==
  [][\A s \in SessionIds : sess[s] # Absent /\ sess[s].consumed /\ sess'[s] # Absent
       => sess'[s].consumed]_vars

\* docs/protocol.md: "A session is single-use": no session issues two
\* certificates.
\* It does not hold: README, Disagreements.
SessionIsSingleUse ==
  \A n, m \in Serials :
    certs[n] # Absent /\ certs[m] # Absent /\ certs[n].sid = certs[m].sid => n = m

\* Every certificate handed out is the current one of its device or is
\* tombstoned: none is left that the platform can neither see nor revoke.
EveryCertificateAccountedFor ==
  \A n \in Serials : certs[n] # Absent =>
    \/ n \in tomb
    \/ dev[certs[n].dev] # Absent /\ dev[certs[n].dev].serial = n

\* Each session verifies at most MAX_ENROLLMENT_ATTEMPTS proofs, also when a
\* handler dies between counting the attempt and looking at the proof.
GuessesAreBounded == \A s \in SessionIds : tries[s] <= MaxAttempts

\* docs/architecture.md: "Before device rows are deleted, every currently
\* issued device certificate is added to the revocation set."
\* It does not hold: README, Disagreements.
DeletedCertificatesAreTombstoned ==
  [][\A d \in Devices :
       dev[d] # Absent /\ dev[d].serial # None /\ dev'[d] = Absent
       => dev[d].serial \in tomb']_vars

\* When no request is in progress the CRL file lists every tombstone: what a
\* revocation has answered ("Certificate added to the CRL") is so.
CrlIsCompleteAtRest ==
  (\A w \in Handlers : h[w].pc = "idle") => crl = tomb

\* Every tombstoned certificate eventually loses its MQTT session: it reaches
\* the CRL file and a broker restart is requested after that.
RevokedSessionsAreDropped == \A n \in Serials : n \in tomb ~> n \in dropped

=============================================================================
