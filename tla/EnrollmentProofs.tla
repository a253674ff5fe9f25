-------------------------- MODULE EnrollmentProofs --------------------------
(***************************************************************************)
(* Theorems about Enrollment, for every set of devices and handlers, every *)
(* bound and every mix of requests, with overlapping requests and faults.  *)
(* The last two are about the regimes of MCEnrollment in which requests do *)
(* not overlap.                                                            *)
(***************************************************************************)
EXTENDS MCEnrollment, TLAPS

-----------------------------------------------------------------------------
(* The inductive invariant.                                                *)

\* What each phase of a handler has at hand.
PhaseOf(r) ==
  /\ r.op \in {"challenge", "enroll"} => r.sid # None
  /\ r.op \in {"challenge", "enroll", "revoke", "reset"} => r.d # Absent /\ r.ids = {r.d}
  /\ r.op = "enroll" => r.srow # Absent
  /\ r.op = "reset" => r.secret # None
  /\ r.op \in {"revoke", "reset"} => r.row # Absent
  /\ r.op = "enroll" /\ r.pc # "loadDevice" => r.row # Absent
  /\ r.pc = "supersede" => r.op = "challenge"
  /\ r.pc \in {"loadDevice", "count", "decide", "issue"} => r.op = "enroll"
  /\ r.pc = "lookup" =>
       r.op \in {"enroll", "revoke", "reset", "project-reset", "purge-simulated"}
  /\ r.pc = "revoke" => r.op \in {"revoke", "reset"}
  /\ r.pc = "rekey" => r.op = "reset"
  /\ r.pc = "loadAll" => r.op = "project-reset"
  /\ r.pc = "purge" => r.op \in {"project-reset", "purge-simulated"}
  /\ r.op = "project-reset" => r.ids = Devices

PhaseOK == \A w \in Handlers : PhaseOf(h[w])

\* Serial n has been committed for a certificate of a device in ids.
IssuedTo(n, ids) == certs[n] # Absent /\ certs[n].dev \in ids

Signed(w) == h[w].op = "enroll" /\ h[w].pc \in {"lookup", "issue"}

\* A handler tombstones only certificates of the devices it is about, and one
\* that has loaded a row only the certificate of that row.
RecordOK(r) ==
  /\ \A n \in r.marks : IssuedTo(n, r.ids)
  /\ r.row # Absent /\ r.row.serial # None => IssuedTo(r.row.serial, {r.d})
  /\ r.op \in {"enroll", "revoke", "reset"} /\ r.pc \in {"lookup", "revoke", "issue"}
     => r.marks \subseteq SerialOf(r.row)

\* A serial that is signed and not yet committed is mentioned nowhere else.
SignedOK ==
  \A w \in Handlers : Signed(w) =>
    /\ h[w].serial \in Serials /\ h[w].serial <= used.serials
    /\ certs[h[w].serial] = Absent
    /\ \A v \in Handlers : Signed(v) /\ v # w => h[v].serial # h[w].serial

\* Every serial the tables and the handlers mention was committed for the
\* device it is used for.
SerialsOK ==
  /\ \A d \in Devices : dev[d] # Absent /\ dev[d].serial # None => IssuedTo(dev[d].serial, {d})
  /\ \A n \in tomb : certs[n] # Absent
  /\ \A n \in Serials : n > used.serials => certs[n] = Absent
  /\ \A w \in Handlers : RecordOK(h[w])

\* The CRL file, and the snapshot a rebuild works on, hold tombstones only.
CrlOK ==
  /\ crl \subseteq tomb
  /\ \A w \in Handlers : h[w].snap \subseteq tomb

\* ProvisionedIsValid without the CRL.
ProvisionedOK ==
  \A d \in Devices : dev[d] # Absent /\ dev[d].life = "provisioned" =>
    dev[d].serial # None /\ dev[d].serial \notin tomb

\* A revocation or reset that has loaded (or made) the row revoked will not
\* write lifecycle_status again; then the certificate it has loaded is no
\* longer that of a provisioned device.
StaleRevokedOK ==
  \A w \in Handlers :
    /\ /\ h[w].op \in {"revoke", "reset"}
       /\ h[w].row.life = "revoked" /\ h[w].row.serial # None
       /\ dev[h[w].d] # Absent /\ dev[h[w].d].serial = h[w].row.serial
       => dev[h[w].d].life # "provisioned"
    /\ /\ h[w].op = "reset" /\ h[w].pc \in {"crlRead", "crlWrite", "rekey"}
       /\ h[w].row.serial # None
       => h[w].row.life = "revoked"

IInv == TypeOK /\ PhaseOK /\ SerialsOK /\ SignedOK /\ CrlOK /\ ProvisionedOK /\ StaleRevokedOK

-----------------------------------------------------------------------------
(* Types.                                                                  *)

LEMMA InitIInv == Init => IInv
<1> SUFFICES ASSUME Init PROVE IInv
  OBVIOUS
<1>1. Idle \in Handler
  BY DEF Idle, Handler, RequestKinds, Phases, None
<1>2. TypeOK
  BY <1>1, ConstantsAssumption DEF Init, TypeOK, SessionIds, Serials
<1>3. PhaseOK /\ SerialsOK /\ SignedOK /\ CrlOK /\ ProvisionedOK /\ StaleRevokedOK
  BY ConstantsAssumption
  DEF Init, Idle, PhaseOK, PhaseOf, SerialsOK, RecordOK, SignedOK, CrlOK, ProvisionedOK,
      StaleRevokedOK, Signed, None, Serials
<1> QED
  BY <1>2, <1>3 DEF IInv

Counters == [sessions : 0 .. MaxSessions, serials : 0 .. MaxSerials, secrets : 0 .. MaxSecrets]

\* Taking a request keeps the types.
LEMMA TypeRequest ==
  ASSUME TypeOK, NEW w \in Handlers, Request(w)
  PROVE  TypeOK'
<1> USE ConstantsAssumption DEF TypeOK
<1>1. ASSUME NEW d \in Devices, ChallengeLoad(w, d) PROVE TypeOK'
  <2>1. used.sessions + 1 \in SessionIds
    BY <1>1 DEF ChallengeLoad, SessionIds
  <2>2. used' \in Counters
    BY <1>1 DEF ChallengeLoad, Counters
  <2>3. [Begin("challenge", "supersede", d) EXCEPT !.sid = used.sessions + 1] \in Handler
    BY <2>1 DEF Begin, Idle, Handler, None, RequestKinds, Phases
  <2>4. h' \in [Handlers -> Handler]
    BY <1>1, <2>3 DEF ChallengeLoad
  <2> QED
    BY <1>1, <2>2, <2>4 DEF ChallengeLoad, Counters
<1>2. ASSUME NEW d \in Devices, RevokeLoad(w, d) PROVE TypeOK'
  <2>1. dev[d] \in Device /\ SerialOf(dev[d]) \in SUBSET Serials
    BY <1>2 DEF RevokeLoad, SerialOf, Device
  <2>2. [Begin("revoke", "lookup", d) EXCEPT !.marks = SerialOf(dev[d]), !.evict = TRUE] \in Handler
    BY <2>1 DEF Begin, Idle, Handler, None, RequestKinds, Phases
  <2>3. h' \in [Handlers -> Handler]
    BY <1>2, <2>2 DEF RevokeLoad
  <2> QED
    BY <1>2, <2>3 DEF RevokeLoad
<1>3. ASSUME NEW d \in Devices, ResetLoad(w, d) PROVE TypeOK'
  <2>1. dev[d] \in Device /\ SerialOf(dev[d]) \in SUBSET Serials
    BY <1>3 DEF ResetLoad, SerialOf, Device
  <2>2. used.secrets + 1 \in Secrets
    BY <1>3 DEF ResetLoad, Secrets
  <2>3. used' \in Counters
    BY <1>3 DEF ResetLoad, Counters
  <2>4. ASSUME NEW pc \in {"lookup", "rekey"}, NEW b \in BOOLEAN
        PROVE [Begin("reset", pc, d) EXCEPT !.secret = used.secrets + 1,
                                            !.marks = SerialOf(dev[d]), !.evict = b] \in Handler
    <3> DEFINE k == used.secrets + 1
               m == SerialOf(dev[d])
    <3> HIDE DEF k, m
    <3>1. k \in Secrets /\ m \in SUBSET Serials /\ dev[d] \in Device /\ pc \in Phases
      BY <2>1, <2>2 DEF k, m, Phases
    <3>2. [Begin("reset", pc, d) EXCEPT !.secret = k, !.marks = m, !.evict = b] \in Handler
      BY <3>1 DEF Begin, Idle, Handler, None, RequestKinds
    <3> QED
      BY <3>2 DEF k, m
  <2>5. h' \in [Handlers -> Handler]
    <3>1. CASE dev[d].serial # None
      BY <1>3, <2>4, <3>1 DEF ResetLoad
    <3>2. CASE dev[d].serial = None
      BY <1>3, <2>4, <3>2 DEF ResetLoad
    <3> QED
      BY <3>1, <3>2
  <2> QED
    BY <1>3, <2>3, <2>5 DEF ResetLoad, Counters
<1>4. ASSUME NEW d \in Devices, NEW s \in SessionIds, NEW k \in Secrets \cup {None},
             EnrollLoadSession(w, d, s, k)
      PROVE TypeOK'
  <2>1. \A late \in BOOLEAN :
          [Idle EXCEPT !.op = "enroll", !.pc = "loadDevice", !.d = d, !.ids = {d}, !.sid = s,
                       !.secret = k, !.late = late, !.srow = sess[s]] \in Handler
    BY DEF Idle, Handler, None, RequestKinds, Phases
  <2>2. h' \in [Handlers -> Handler]
    <3>1. CASE s \in expired
      <4>1. (s \in expired) = TRUE
        BY <3>1
      <4> QED
        BY <1>4, <2>1, <4>1 DEF EnrollLoadSession
    <3>2. CASE s \notin expired
      <4>1. (s \in expired) = FALSE
        BY <3>2
      <4> QED
        BY <1>4, <2>1, <4>1 DEF EnrollLoadSession
    <3> QED
      BY <3>1, <3>2
  <2> QED
    BY <1>4, <2>2 DEF EnrollLoadSession
<1>5. ASSUME ProjectResetBegin(w) PROVE TypeOK'
  <2>1. \A b \in BOOLEAN :
          [Idle EXCEPT !.op = "project-reset", !.pc = "loadAll", !.ids = Devices, !.evict = b] \in Handler
    BY DEF Idle, Handler, None, RequestKinds, Phases
  <2>2. h' \in [Handlers -> Handler]
    BY <1>5, <2>1 DEF ProjectResetBegin
  <2> QED
    BY <1>5, <2>2 DEF ProjectResetBegin
<1>6. ASSUME PurgeLoad(w) PROVE TypeOK'
  <2>1. UNION {SerialOf(dev[d]) : d \in Registered \cap Simulated} \in SUBSET Serials
    BY DEF Registered, SerialOf, Device
  <2>2. \A ids \in SUBSET Devices, marks \in SUBSET Serials, pc \in {"crlRead", "lookup"} :
          [Idle EXCEPT !.op = "purge-simulated", !.ids = ids, !.pc = pc, !.marks = marks] \in Handler
    BY DEF Idle, Handler, None, RequestKinds, Phases
  <2>3. Registered \cap Simulated \in SUBSET Devices
    OBVIOUS
  <2>4. h' \in [Handlers -> Handler]
    BY <1>6, <2>1, <2>2, <2>3 DEF PurgeLoad
  <2> QED
    BY <1>6, <2>4 DEF PurgeLoad
<1> QED
  BY <1>1, <1>2, <1>3, <1>4, <1>5, <1>6 DEF Request

LEMMA IdleIsHandler == Idle \in Handler
  BY DEF Idle, Handler, None, RequestKinds, Phases

LEMMA FinishType ==
  ASSUME TypeOK, NEW w \in Handlers, Finish(w)
  PROVE  h' \in [Handlers -> Handler]
  BY IdleIsHandler DEF Finish, TypeOK

LEMMA GotoType ==
  ASSUME TypeOK, NEW w \in Handlers, NEW pc \in Phases, Goto(w, pc)
  PROVE  h' \in [Handlers -> Handler]
  BY DEF Goto, TypeOK, Handler

LEMMA ConsumeType ==
  ASSUME TypeOK, NEW s \in SessionIds, sess[s] # Absent,
         NEW result \in Results, Consume(s, result)
  PROVE  sess' \in [SessionIds -> BootstrapSession \cup {Absent}]
  BY DEF Consume, TypeOK, BootstrapSession

LEMMA TriesType ==
  ASSUME TypeOK, NEW s \in SessionIds, tries' = [tries EXCEPT ![s] = @ + 1]
  PROVE  tries' \in [SessionIds -> Nat]
  BY DEF TypeOK

\* Every step of an enrollment keeps the types.
LEMMA TypeEnroll ==
  ASSUME TypeOK, PhaseOK, NEW w \in Handlers,
         \/ EnrollLoadDevice(w) \/ EnrollCount(w) \/ EnrollReject(w)
         \/ EnrollAlreadyProvisioned(w) \/ EnrollCaFailure(w) \/ EnrollSign(w)
         \/ EnrollCommit(w)
  PROVE  TypeOK'
<1> USE ConstantsAssumption
<1> DEFINE s == h[w].sid
           d == h[w].d
<1>1. h[w] \in Handler
  BY DEF TypeOK
<1>2. h[w].op = "enroll"
  BY DEF PhaseOK, PhaseOf, EnrollLoadDevice, EnrollCount, EnrollReject, EnrollAlreadyProvisioned,
         EnrollCaFailure, MayIssue, EnrollSign, EnrollCommit
<1>3. s \in SessionIds /\ d \in Devices /\ h[w].srow \in BootstrapSession
  BY <1>1, <1>2 DEF PhaseOK, PhaseOf, Handler
<1>4. h[w].pc # "loadDevice" => h[w].row \in Device
  BY <1>1, <1>2 DEF PhaseOK, PhaseOf, Handler
<1>5. CASE EnrollLoadDevice(w)
  <2>1. h' \in [Handlers -> Handler]
    <3>1. CASE Finish(w)
      BY <3>1, FinishType
    <3>2. CASE h' = [h EXCEPT ![w].pc = "count", ![w].row = dev[d]]
      BY <1>1, <1>3, <3>2 DEF TypeOK, Handler, Phases
    <3> QED
      BY <1>5, <3>1, <3>2 DEF EnrollLoadDevice
  <2> QED
    BY <1>5, <2>1 DEF EnrollLoadDevice, TypeOK
<1>6. CASE EnrollCount(w)
  <2>1. CASE Rollback(w)
    BY <1>6, <2>1, FinishType DEF EnrollCount, TypeOK, Rollback, rows
  <2>2. CASE sess[s] # Absent /\ (Consume(s, "expired") \/ Consume(s, "blocked")) /\ Finish(w) /\ UNCHANGED <<dev, tomb>>
    <3>1. sess' \in [SessionIds -> BootstrapSession \cup {Absent}]
      BY <1>3, <2>2, ConsumeType DEF Results
    <3> QED
      BY <1>6, <2>2, <3>1, FinishType DEF EnrollCount, TypeOK
  <2>3. CASE /\ sess[s] # Absent /\ ~ Blocked(w)
             /\ sess' = [sess EXCEPT ![s] = Counted(s, h[w].srow)]
             /\ h' = [h EXCEPT ![w].pc = "decide", ![w].srow.attempts = @ + 1]
             /\ UNCHANGED <<dev, tomb>>
    <3>1. h[w].srow.attempts + 1 \in 0 .. MaxAttempts
      BY <1>3, <2>3 DEF Blocked, BootstrapSession
    <3>2. sess' \in [SessionIds -> BootstrapSession \cup {Absent}]
      BY <1>3, <2>3, <3>1 DEF TypeOK, Counted, BootstrapSession
    <3>3. [h[w].srow EXCEPT !.attempts = @ + 1] \in BootstrapSession
      BY <1>3, <3>1 DEF BootstrapSession
    <3>4. h' = [h EXCEPT ![w] = [h[w] EXCEPT !.pc = "decide", !.srow = [h[w].srow EXCEPT !.attempts = @ + 1]]]
      BY <1>1, <1>3, <2>3 DEF TypeOK, Handler, BootstrapSession
    <3>5. [h[w] EXCEPT !.pc = "decide", !.srow = [h[w].srow EXCEPT !.attempts = @ + 1]] \in Handler
      BY <1>1, <3>3 DEF Handler, Phases
    <3>6. h' \in [Handlers -> Handler]
      BY <3>4, <3>5 DEF TypeOK
    <3> QED
      BY <1>6, <2>3, <3>2, <3>6 DEF EnrollCount, TypeOK
  <2> QED
    BY <1>6, <2>1, <2>2, <2>3 DEF EnrollCount
<1>7. CASE EnrollReject(w)
  <2>1. sess' \in [SessionIds -> BootstrapSession \cup {Absent}]
    BY <1>3, <1>7, ConsumeType DEF EnrollReject, Results, TypeOK
  <2> QED
    BY <1>3, <1>7, <2>1, FinishType, TriesType DEF EnrollReject, TypeOK
<1>8. CASE EnrollAlreadyProvisioned(w)
  <2>1. sess' \in [SessionIds -> BootstrapSession \cup {Absent}]
    BY <1>3, <1>8, ConsumeType DEF EnrollAlreadyProvisioned, Results, TypeOK
  <2> QED
    BY <1>3, <1>8, <2>1, FinishType, TriesType DEF EnrollAlreadyProvisioned, TypeOK
<1>9. CASE EnrollCaFailure(w)
  <2>1. sess' \in [SessionIds -> BootstrapSession \cup {Absent}]
    BY <1>3, <1>9 DEF EnrollCaFailure, Flush, BootstrapSession, Results, TypeOK
  <2> QED
    BY <1>3, <1>9, <2>1, FinishType, TriesType DEF EnrollCaFailure, TypeOK
<1>10. CASE EnrollSign(w)
  <2>1. used.serials + 1 \in Serials
    BY <1>10 DEF EnrollSign, Serials, TypeOK
  <2>2. used' \in Counters
    BY <1>10 DEF EnrollSign, Counters, TypeOK
  <2>3. SerialOf(h[w].row) \in SUBSET Serials
    BY <1>4, <1>10 DEF EnrollSign, MayIssue, SerialOf, Device
  <2>4. h' \in [Handlers -> Handler]
    <3>1. h' = [h EXCEPT ![w] = [h[w] EXCEPT !.pc = "lookup", !.serial = used.serials + 1,
                                             !.marks = SerialOf(h[w].row)]]
      BY <1>1, <1>10 DEF EnrollSign, TypeOK, Handler
    <3>2. [h[w] EXCEPT !.pc = "lookup", !.serial = used.serials + 1,
                       !.marks = SerialOf(h[w].row)] \in Handler
      BY <1>1, <2>1, <2>3 DEF Handler, Phases
    <3> QED
      BY <3>1, <3>2 DEF TypeOK
  <2>5. tries' \in [SessionIds -> Nat]
    BY <1>3, <1>10, TriesType DEF EnrollSign
  <2> QED
    BY <1>10, <2>2, <2>4, <2>5 DEF EnrollSign, Counters, TypeOK
<1>11. CASE EnrollCommit(w)
  <2>1. CASE Rollback(w) /\ UNCHANGED certs
    BY <1>11, <2>1, FinishType DEF EnrollCommit, TypeOK, Rollback, rows
  <2>2. CASE /\ sess[s] # Absent /\ dev[d] # Absent
             /\ tomb' = Tombstoned(w)
             /\ Consume(s, "issued")
             /\ dev' = [dev EXCEPT ![d].life = Flush(@, h[w].row.life, "provisioned"),
                                   ![d].serial = h[w].serial]
             /\ certs' = [certs EXCEPT ![h[w].serial] = [dev |-> d, sid |-> s]]
             /\ (Goto(w, "crlRead") \/ Finish(w))
    <3>1. sess' \in [SessionIds -> BootstrapSession \cup {Absent}]
      BY <1>3, <2>2, ConsumeType DEF Results
    <3>2. tomb' \in SUBSET RevokedCertificate
      BY <1>1, <2>2 DEF TypeOK, Tombstoned, Handler, RevokedCertificate
    <3>3. dev' \in [Devices -> Device \cup {Absent}]
      BY <1>1, <1>3, <2>2 DEF TypeOK, Flush, Handler, Device
    <3>4. certs' \in [Serials -> Certificate \cup {Absent}]
      BY <1>3, <2>2 DEF TypeOK, Certificate
    <3>5. h' \in [Handlers -> Handler]
      BY <2>2, FinishType, GotoType DEF Phases
    <3> QED
      BY <1>11, <3>1, <3>2, <3>3, <3>4, <3>5 DEF EnrollCommit, TypeOK
  <2> QED
    BY <1>11, <2>1, <2>2 DEF EnrollCommit
<1> QED
  BY <1>5, <1>6, <1>7, <1>8, <1>9, <1>10, <1>11

\* So does every other step of a handler.
LEMMA TypeOther ==
  ASSUME TypeOK, PhaseOK, NEW w \in Handlers,
         \/ ChallengeCommit(w) \/ Lookup(w) \/ RevokeCommit(w) \/ Rekey(w)
         \/ ProjectResetLoad(w) \/ PurgeCommit(w)
         \/ CrlRead(w) \/ CrlWrite(w) \/ Evict(w) \/ Abort(w)
  PROVE  TypeOK'
<1> USE ConstantsAssumption
<1> DEFINE d == h[w].d
<1>1. h[w] \in Handler
  BY DEF TypeOK
<1>2. CASE ChallengeCommit(w)
  <2>1. d \in Devices
    BY <1>1, <1>2 DEF ChallengeCommit, PhaseOK, PhaseOf, Handler
  <2>2. h' \in [Handlers -> Handler]
    BY <1>2, FinishType DEF ChallengeCommit, Rollback
  <2>3. CASE UNCHANGED rows
    BY <1>2, <2>2, <2>3 DEF ChallengeCommit, TypeOK, rows
  <2>4. CASE /\ sess' = [s \in SessionIds |->
                      IF s = h[w].sid THEN [dev |-> d, consumed |-> FALSE, result |-> "none", attempts |-> 0]
                      ELSE IF s \in Superseded(d)
                           THEN [sess[s] EXCEPT !.consumed = TRUE, !.result = "superseded"]
                           ELSE sess[s]]
             /\ UNCHANGED <<dev, tomb>>
    <3>1. [dev |-> d, consumed |-> FALSE, result |-> "none", attempts |-> 0] \in BootstrapSession
      BY <2>1 DEF BootstrapSession, Results
    <3>2. \A s \in Superseded(d) :
            [sess[s] EXCEPT !.consumed = TRUE, !.result = "superseded"] \in BootstrapSession
      BY DEF Superseded, TypeOK, BootstrapSession, Results
    <3>3. sess' \in [SessionIds -> BootstrapSession \cup {Absent}]
      BY <2>4, <3>1, <3>2 DEF TypeOK
    <3> QED
      BY <1>2, <2>2, <2>4, <3>3 DEF ChallengeCommit, TypeOK
  <2> QED
    BY <1>2, <2>3, <2>4 DEF ChallengeCommit, Rollback
<1>3. CASE Lookup(w)
  <2>1. \A b \in BOOLEAN, pc \in Phases :
          [h[w] EXCEPT !.marks = h[w].marks \ tomb, !.pc = pc, !.evict = b] \in Handler
    BY <1>1 DEF Handler
  <2>2. AfterLookup(h[w].op) \in Phases
    BY DEF AfterLookup, Phases
  <2>3. PICK b \in BOOLEAN :
          h' = [h EXCEPT ![w] = [h[w] EXCEPT !.marks = h[w].marks \ tomb,
                                             !.pc = AfterLookup(h[w].op), !.evict = b]]
    <3> DEFINE b == h[w].evict \/ (h[w].op \in {"enroll", "purge-simulated"}
                                  /\ h[w].marks \ tomb # {})
    <3>1. b \in BOOLEAN
      OBVIOUS
    <3>2. h' = [h EXCEPT ![w] = [h[w] EXCEPT !.marks = h[w].marks \ tomb,
                                             !.pc = AfterLookup(h[w].op), !.evict = b]]
      BY <1>1, <1>3 DEF Lookup, TypeOK, Handler
    <3> QED
      BY <3>1, <3>2
  <2>4. h' \in [Handlers -> Handler]
    BY <2>1, <2>2, <2>3 DEF TypeOK
  <2> QED
    BY <1>3, <2>4 DEF Lookup, TypeOK
<1>4. CASE RevokeCommit(w)
  <2>1. d \in Devices /\ h[w].row \in Device
    BY <1>1, <1>4 DEF RevokeCommit, PhaseOK, PhaseOf, Handler
  <2>2. CASE Rollback(w)
    BY <1>4, <2>2, FinishType DEF RevokeCommit, Rollback, TypeOK, rows
  <2>3. CASE /\ dev[d] # Absent
             /\ tomb' = Tombstoned(w)
             /\ dev' = [dev EXCEPT ![d].life = Flush(@, h[w].row.life, "revoked")]
             /\ h' = [h EXCEPT ![w].pc = "crlRead", ![w].row.life = "revoked"]
             /\ UNCHANGED sess
    <3>1. dev' \in [Devices -> Device \cup {Absent}]
      BY <2>1, <2>3 DEF TypeOK, Flush, Device
    <3>2. [h[w].row EXCEPT !.life = "revoked"] \in Device
      BY <2>1 DEF Device
    <3>3. h' = [h EXCEPT ![w] = [h[w] EXCEPT !.pc = "crlRead", !.row = [h[w].row EXCEPT !.life = "revoked"]]]
      BY <1>1, <2>1, <2>3 DEF TypeOK, Handler, Device
    <3>4. [h[w] EXCEPT !.pc = "crlRead", !.row = [h[w].row EXCEPT !.life = "revoked"]] \in Handler
      BY <1>1, <3>2 DEF Handler, Phases
    <3>5. h' \in [Handlers -> Handler]
      BY <3>3, <3>4 DEF TypeOK
    <3>6. tomb' \in SUBSET RevokedCertificate
      BY <1>1, <2>3 DEF TypeOK, Tombstoned, Handler, RevokedCertificate
    <3> QED
      BY <1>4, <2>3, <3>1, <3>5, <3>6 DEF RevokeCommit, TypeOK
  <2> QED
    BY <1>4, <2>2, <2>3 DEF RevokeCommit
<1>5. CASE Rekey(w)
  <2>1. d \in Devices /\ h[w].row \in Device /\ h[w].secret \in Secrets
    BY <1>1, <1>5 DEF Rekey, PhaseOK, PhaseOf, Handler
  <2>2. CASE Rollback(w)
    BY <1>5, <2>2, FinishType DEF Rekey, Rollback, TypeOK, rows
  <2>3. CASE /\ dev[d] # Absent
             /\ dev' = [dev EXCEPT ![d].secret = h[w].secret,
                                   ![d].life = Flush(@, h[w].row.life, "pending"),
                                   ![d].serial = Flush(@, h[w].row.serial, None)]
             /\ h' = [h EXCEPT ![w].pc = "crlRead", ![w].row.life = "pending",
                               ![w].row.serial = None]
             /\ UNCHANGED <<sess, tomb>>
    <3> DEFINE life == Flush(dev[d].life, h[w].row.life, "pending")
               serial == Flush(dev[d].serial, h[w].row.serial, None)
               row == [h[w].row EXCEPT !.life = "pending", !.serial = None]
    <3>1. dev[d] \in Device
      BY <2>1, <2>3 DEF TypeOK
    <3>2. [dev[d] EXCEPT !.secret = h[w].secret, !.life = life, !.serial = serial] \in Device
      BY <2>1, <3>1 DEF Device, Flush
    <3>3. dev' = [dev EXCEPT ![d] = [dev[d] EXCEPT !.secret = h[w].secret, !.life = life, !.serial = serial]]
      BY <2>1, <2>3, <3>1 DEF TypeOK, Device
    <3>4. dev' \in [Devices -> Device \cup {Absent}]
      BY <3>2, <3>3 DEF TypeOK
    <3>5. row \in Device
      BY <2>1 DEF Device
    <3>6. h' = [h EXCEPT ![w] = [h[w] EXCEPT !.pc = "crlRead", !.row = row]]
      BY <1>1, <2>1, <2>3 DEF TypeOK, Handler, Device
    <3>7. [h[w] EXCEPT !.pc = "crlRead", !.row = row] \in Handler
      BY <1>1, <3>5 DEF Handler, Phases
    <3>8. h' \in [Handlers -> Handler]
      BY <3>6, <3>7 DEF TypeOK
    <3> QED
      BY <1>5, <2>3, <3>4, <3>8 DEF Rekey, TypeOK
  <2> QED
    BY <1>5, <2>2, <2>3 DEF Rekey
<1>6. CASE ProjectResetLoad(w)
  <2>1. UNION {SerialOf(dev[i]) : i \in Registered} \in SUBSET Serials
    BY DEF Registered, SerialOf, Device, TypeOK
  <2>2. \A marks \in SUBSET Serials : [h[w] EXCEPT !.pc = "lookup", !.marks = marks] \in Handler
    BY <1>1 DEF Handler, Phases
  <2>3. h' = [h EXCEPT ![w] = [h[w] EXCEPT !.pc = "lookup",
                                           !.marks = UNION {SerialOf(dev[i]) : i \in Registered}]]
    BY <1>1, <1>6 DEF ProjectResetLoad, TypeOK, Handler
  <2>4. h' \in [Handlers -> Handler]
    BY <2>1, <2>2, <2>3 DEF TypeOK
  <2> QED
    BY <1>6, <2>4 DEF ProjectResetLoad, TypeOK
<1>7. CASE PurgeCommit(w)
  <2>1. CASE Rollback(w)
    BY <1>7, <2>1, FinishType DEF PurgeCommit, Rollback, TypeOK, rows
  <2>2. CASE /\ tomb' = Tombstoned(w)
             /\ dev' = Purged(h[w].ids)
             /\ sess' = [s \in SessionIds |->
                      IF sess[s] # Absent /\ sess[s].dev \in h[w].ids THEN Absent ELSE sess[s]]
             /\ Goto(w, "crlRead")
    <3>1. dev' \in [Devices -> Device \cup {Absent}]
      BY <2>2 DEF TypeOK, Purged
    <3>2. sess' \in [SessionIds -> BootstrapSession \cup {Absent}]
      BY <2>2 DEF TypeOK
    <3>3. tomb' \in SUBSET RevokedCertificate
      BY <1>1, <2>2 DEF TypeOK, Tombstoned, Handler, RevokedCertificate
    <3> QED
      BY <1>7, <2>2, <3>1, <3>2, <3>3, GotoType DEF PurgeCommit, TypeOK, Phases
  <2> QED
    BY <1>7, <2>1, <2>2 DEF PurgeCommit
<1>8. CASE CrlRead(w)
  <2>1. h' \in [Handlers -> Handler]
    <3>1. [h[w] EXCEPT !.pc = "crlWrite", !.snap = tomb] \in Handler
      BY <1>1 DEF TypeOK, Handler, Phases, RevokedCertificate
    <3>2. h' = [h EXCEPT ![w] = [h[w] EXCEPT !.pc = "crlWrite", !.snap = tomb]]
      BY <1>1, <1>8 DEF CrlRead, TypeOK, Handler
    <3> QED
      BY <3>1, <3>2 DEF TypeOK
  <2> QED
    BY <1>8, <2>1 DEF CrlRead, TypeOK
<1>9. CASE CrlWrite(w)
  <2>1. h' \in [Handlers -> Handler]
    BY <1>9, FinishType, GotoType DEF CrlWrite, Phases
  <2> QED
    BY <1>1, <1>9, <2>1 DEF CrlWrite, TypeOK, Handler
<1>10. CASE Evict(w) \/ Abort(w)
  <2>1. h' \in [Handlers -> Handler]
    BY <1>10, FinishType DEF Evict, Abort
  <2> QED
    BY <1>10, <2>1 DEF Evict, Abort, TypeOK
<1> QED
  BY <1>2, <1>3, <1>4, <1>5, <1>6, <1>7, <1>8, <1>9, <1>10

LEMMA TypeRegistry ==
  ASSUME TypeOK,
         \/ \E d \in Devices : Register(d) \/ SetEnabled(d)
         \/ \E s \in SessionIds : Elapse(s)
  PROVE  TypeOK'
<1> USE ConstantsAssumption
<1>1. ASSUME NEW d \in Devices, Register(d) PROVE TypeOK'
  <2>1. used.secrets + 1 \in Secrets
    BY <1>1 DEF Register, TypeOK, Secrets
  <2>2. used' \in Counters
    BY <1>1 DEF Register, TypeOK, Counters
  <2>3. dev' \in [Devices -> Device \cup {Absent}]
    BY <1>1, <2>1 DEF Register, TypeOK, Device
  <2> QED
    BY <1>1, <2>2, <2>3 DEF Register, TypeOK, Counters
<1>2. ASSUME NEW d \in Devices, SetEnabled(d) PROVE TypeOK'
  <2>1. dev[d] \in Device /\ (~ dev[d].enabled) \in BOOLEAN
    BY <1>2 DEF SetEnabled, TypeOK, Device
  <2>2. \A b \in BOOLEAN : [dev[d] EXCEPT !.enabled = b] \in Device
    BY <2>1 DEF Device
  <2>3. dev' = [dev EXCEPT ![d] = [dev[d] EXCEPT !.enabled = ~ dev[d].enabled]]
    BY <1>2 DEF SetEnabled
  <2>4. dev' \in [Devices -> Device \cup {Absent}]
    BY <2>1, <2>2, <2>3 DEF TypeOK
  <2> QED
    BY <1>2, <2>4 DEF SetEnabled, TypeOK
<1>3. ASSUME NEW s \in SessionIds, Elapse(s) PROVE TypeOK'
  BY <1>3 DEF Elapse, TypeOK
<1> QED
  BY <1>1, <1>2, <1>3

LEMMA TypeNext ==
  ASSUME TypeOK, PhaseOK, [Next]_vars
  PROVE  TypeOK'
<1>1. CASE UNCHANGED vars
  BY <1>1 DEF vars, TypeOK
<1>2. ASSUME NEW w \in Handlers, Request(w) \/ Step(w) \/ Abort(w) PROVE TypeOK'
  BY <1>2, TypeRequest, TypeEnroll, TypeOther DEF Step
<1> QED
  BY <1>1, <1>2, TypeRegistry DEF Next

-----------------------------------------------------------------------------
(* Phases.                                                                 *)

\* A handler's step leaves the others where they are.
LEMMA Others ==
  ASSUME TypeOK, NEW w \in Handlers, Request(w) \/ Step(w) \/ Abort(w),
         NEW v \in Handlers, v # w
  PROVE  h'[v] = h[v]
<1> USE DEF TypeOK, Finish, Goto, Rollback
<1>1. CASE Request(w)
  BY <1>1 DEF Request, ChallengeLoad, RevokeLoad, ResetLoad, EnrollLoadSession,
              ProjectResetBegin, PurgeLoad
<1>2. CASE Step(w)
  BY <1>2 DEF Step, ChallengeCommit, EnrollLoadDevice, EnrollCount, EnrollReject,
              EnrollAlreadyProvisioned, EnrollCaFailure, EnrollSign, Lookup, EnrollCommit,
              RevokeCommit, Rekey, ProjectResetLoad, PurgeCommit, CrlRead, CrlWrite, Evict
<1>3. CASE Abort(w)
  BY <1>3 DEF Abort
<1> QED
  BY <1>1, <1>2, <1>3

\* A request starts with no snapshot, and an enrollment at its first SELECT.
LEMMA RequestRecord ==
  ASSUME TypeOK, NEW w \in Handlers, Request(w)
  PROVE  h'[w].snap = {} /\ (h'[w].op = "enroll" => h'[w].pc = "loadDevice")
<1> DEFINE Fresh == h'[w].snap = {} /\ (h'[w].op = "enroll" => h'[w].pc = "loadDevice")
<1> USE DEF TypeOK, Begin, Idle
<1>1. ASSUME NEW d \in Devices, ChallengeLoad(w, d) PROVE Fresh
  BY <1>1 DEF ChallengeLoad
<1>2. ASSUME NEW d \in Devices, RevokeLoad(w, d) PROVE Fresh
  BY <1>2 DEF RevokeLoad
<1>3. ASSUME NEW d \in Devices, ResetLoad(w, d) PROVE Fresh
  BY <1>3 DEF ResetLoad
<1>4. ASSUME NEW d \in Devices, NEW s \in SessionIds, NEW k \in Secrets \cup {None},
             EnrollLoadSession(w, d, s, k)
      PROVE Fresh
  BY <1>4 DEF EnrollLoadSession
<1>5. CASE ProjectResetBegin(w)
  BY <1>5 DEF ProjectResetBegin
<1>6. CASE PurgeLoad(w)
  BY <1>6 DEF PurgeLoad
<1> QED
  BY <1>1, <1>2, <1>3, <1>4, <1>5, <1>6 DEF Request

\* The record of a handler that goes on after its step.
LEMMA StepRecord ==
  ASSUME TypeOK, PhaseOK, NEW w \in Handlers, Step(w) \/ Abort(w), ~ Finish(w)
  PROVE
    \/ /\ EnrollLoadDevice(w) /\ dev[h[w].d] # Absent
       /\ h'[w] = [h[w] EXCEPT !.pc = "count", !.row = dev[h[w].d]]
    \/ /\ EnrollCount(w)
       /\ h'[w] = [h[w] EXCEPT !.pc = "decide", !.srow = h'[w].srow]
    \/ /\ EnrollSign(w)
       /\ h'[w] = [h[w] EXCEPT !.pc = "lookup", !.serial = used.serials + 1,
                               !.marks = SerialOf(h[w].row)]
    \/ /\ Lookup(w)
       /\ h'[w] = [h[w] EXCEPT !.pc = AfterLookup(h[w].op), !.marks = h[w].marks \ tomb,
                               !.evict = h'[w].evict]
    \/ /\ RevokeCommit(w) /\ ~ Rollback(w)
       /\ h'[w] = [h[w] EXCEPT !.pc = "crlRead", !.row = [h[w].row EXCEPT !.life = "revoked"]]
    \/ /\ Rekey(w) /\ ~ Rollback(w)
       /\ h'[w] = [h[w] EXCEPT !.pc = "crlRead",
                               !.row = [h[w].row EXCEPT !.life = "pending", !.serial = None]]
    \/ /\ ProjectResetLoad(w)
       /\ h'[w] = [h[w] EXCEPT !.pc = "lookup",
                               !.marks = UNION {SerialOf(dev[d]) : d \in Registered}]
    \/ /\ EnrollCommit(w) \/ PurgeCommit(w)
       /\ h'[w] = [h[w] EXCEPT !.pc = "crlRead"]
    \/ CrlRead(w) /\ h'[w] = [h[w] EXCEPT !.pc = "crlWrite", !.snap = tomb]
    \/ CrlWrite(w) /\ \E pc \in {"rekey", "evict"} :
         h'[w] = [h[w] EXCEPT !.pc = pc] /\ (pc = "rekey" <=> RekeyDue(w))
<1> USE DEF TypeOK, Rollback, Goto
<1>1. h[w] \in Handler /\ PhaseOf(h[w])
  BY DEF PhaseOK
<1>2. CASE EnrollLoadDevice(w)
  BY <1>1, <1>2 DEF EnrollLoadDevice, Authorised, Handler
<1>3. CASE EnrollCount(w)
  <2>1. h[w].pc = "count" /\ h' = [h EXCEPT ![w].pc = "decide", ![w].srow.attempts = @ + 1]
    BY <1>3 DEF EnrollCount
  <2>2. h[w].srow \in BootstrapSession
    BY <1>1, <2>1 DEF PhaseOf, Handler
  <2>3. h'[w] = [h[w] EXCEPT !.pc = "decide", !.srow = [h[w].srow EXCEPT !.attempts = @ + 1]]
    BY <1>1, <2>1, <2>2 DEF Handler, BootstrapSession
  <2> QED
    BY <1>1, <1>3, <2>3 DEF Handler
<1>4. CASE EnrollSign(w)
  BY <1>1, <1>4 DEF EnrollSign, Handler
<1>5. CASE Lookup(w)
  BY <1>1, <1>5 DEF Lookup, Handler
<1>6. CASE RevokeCommit(w)
  <2>1. h[w].pc = "revoke" /\ h' = [h EXCEPT ![w].pc = "crlRead", ![w].row.life = "revoked"]
    BY <1>6 DEF RevokeCommit
  <2>2. h[w].row \in Device
    BY <1>1, <2>1 DEF PhaseOf, Handler
  <2>3. h'[w] = [h[w] EXCEPT !.pc = "crlRead", !.row = [h[w].row EXCEPT !.life = "revoked"]]
    BY <1>1, <2>1, <2>2 DEF Handler, Device
  <2> QED
    BY <1>6, <2>3
<1>7. CASE Rekey(w)
  <2>1. /\ h[w].pc = "rekey"
        /\ h' = [h EXCEPT ![w].pc = "crlRead", ![w].row.life = "pending", ![w].row.serial = None]
    BY <1>7 DEF Rekey
  <2>2. h[w].row \in Device
    BY <1>1, <2>1 DEF PhaseOf, Handler
  <2>3. h'[w] = [h[w] EXCEPT !.pc = "crlRead",
                             !.row = [h[w].row EXCEPT !.life = "pending", !.serial = None]]
    BY <1>1, <2>1, <2>2 DEF Handler, Device
  <2> QED
    BY <1>7, <2>3
<1>8. CASE ProjectResetLoad(w)
  BY <1>1, <1>8 DEF ProjectResetLoad, Handler
<1>9. CASE EnrollCommit(w) \/ PurgeCommit(w)
  BY <1>1, <1>9 DEF EnrollCommit, PurgeCommit, Handler
<1>10. CASE CrlRead(w)
  BY <1>1, <1>10 DEF CrlRead, Handler
<1>11. CASE CrlWrite(w)
  BY <1>1, <1>11 DEF CrlWrite, Handler
<1>12. ASSUME \/ ChallengeCommit(w) \/ EnrollReject(w) \/ EnrollAlreadyProvisioned(w)
              \/ EnrollCaFailure(w) \/ Evict(w) \/ Abort(w)
       PROVE FALSE
  BY <1>12 DEF ChallengeCommit, EnrollReject, EnrollAlreadyProvisioned, EnrollCaFailure, Evict, Abort
<1> QED
  BY <1>2, <1>3, <1>4, <1>5, <1>6, <1>7, <1>8, <1>9, <1>10, <1>11, <1>12 DEF Step

LEMMA PhaseRequest ==
  ASSUME TypeOK, NEW w \in Handlers, Request(w)
  PROVE  PhaseOf(h'[w])
<1> USE ConstantsAssumption DEF TypeOK, PhaseOf, Idle, Begin, None
<1>1. ASSUME NEW d \in Devices, ChallengeLoad(w, d) PROVE PhaseOf(h'[w])
  BY <1>1 DEF ChallengeLoad
<1>2. ASSUME NEW d \in Devices, RevokeLoad(w, d) PROVE PhaseOf(h'[w])
  BY <1>2 DEF RevokeLoad
<1>3. ASSUME NEW d \in Devices, ResetLoad(w, d) PROVE PhaseOf(h'[w])
  BY <1>3 DEF ResetLoad
<1>4. ASSUME NEW d \in Devices, NEW s \in SessionIds, NEW k \in Secrets \cup {None},
             EnrollLoadSession(w, d, s, k)
      PROVE PhaseOf(h'[w])
  BY <1>4 DEF EnrollLoadSession, SessionIds
<1>5. CASE ProjectResetBegin(w)
  BY <1>5 DEF ProjectResetBegin
<1>6. CASE PurgeLoad(w)
  BY <1>6 DEF PurgeLoad
<1> QED
  BY <1>1, <1>2, <1>3, <1>4, <1>5, <1>6 DEF Request

LEMMA PhaseStep ==
  ASSUME TypeOK, PhaseOK, NEW w \in Handlers, Step(w) \/ Abort(w)
  PROVE  PhaseOf(h'[w])
<1> USE DEF TypeOK
<1>1. h[w] \in Handler /\ PhaseOf(h[w])
  BY DEF PhaseOK
<1>2. CASE Finish(w)
  BY <1>2, ConstantsAssumption DEF Finish, Idle, PhaseOf
<1>3. CASE EnrollLoadDevice(w) /\ ~ Finish(w)
  BY <1>1, <1>3, ConstantsAssumption DEF EnrollLoadDevice, PhaseOf, Handler, Authorised
<1>4. CASE EnrollCount(w) /\ ~ Finish(w)
  <2>1. /\ h[w].pc = "count"
        /\ h' = [h EXCEPT ![w].pc = "decide", ![w].srow.attempts = @ + 1]
    BY <1>4 DEF EnrollCount, Rollback
  <2>2. h[w].op = "enroll" /\ h[w].srow \in BootstrapSession
    BY <1>1, <2>1 DEF PhaseOf, Handler
  <2>3. h'[w] = [h[w] EXCEPT !.pc = "decide", !.srow = [h[w].srow EXCEPT !.attempts = @ + 1]]
    BY <1>1, <2>1, <2>2 DEF Handler, BootstrapSession
  <2>4. [h[w].srow EXCEPT !.attempts = @ + 1] # Absent
    <3>1. h[w].srow.attempts + 1 \in 0 .. MaxAttempts
      BY <1>4, <2>1, <2>2, ConstantsAssumption
      DEF EnrollCount, Blocked, BootstrapSession, Rollback, Finish, Consume, Idle
    <3> QED
      BY <2>2, <3>1, RowsAssumption DEF BootstrapSession
  <2> QED
    BY <1>1, <2>1, <2>2, <2>3, <2>4 DEF PhaseOf, Handler
<1>5. CASE EnrollSign(w)
  BY <1>1, <1>5 DEF EnrollSign, MayIssue, PhaseOf, Handler
<1>6. CASE Lookup(w)
  BY <1>1, <1>6 DEF Lookup, AfterLookup, PhaseOf, Handler
<1>7. CASE EnrollCommit(w) /\ ~ Finish(w)
  BY <1>1, <1>7 DEF EnrollCommit, Rollback, Goto, PhaseOf, Handler
<1>8. CASE RevokeCommit(w) /\ ~ Finish(w)
  BY <1>1, <1>8 DEF RevokeCommit, Rollback, PhaseOf, Handler
<1>9. CASE Rekey(w) /\ ~ Finish(w)
  BY <1>1, <1>9 DEF Rekey, Rollback, PhaseOf, Handler
<1>10. CASE ProjectResetLoad(w)
  BY <1>1, <1>10 DEF ProjectResetLoad, PhaseOf, Handler
<1>11. CASE PurgeCommit(w) /\ ~ Finish(w)
  BY <1>1, <1>11 DEF PurgeCommit, Rollback, Goto, PhaseOf, Handler
<1>12. CASE CrlRead(w)
  BY <1>1, <1>12 DEF CrlRead, PhaseOf, Handler
<1>13. CASE CrlWrite(w) /\ ~ Finish(w)
  BY <1>1, <1>13 DEF CrlWrite, RekeyDue, Goto, PhaseOf, Handler
<1>14. ASSUME \/ ChallengeCommit(w) \/ EnrollReject(w) \/ EnrollAlreadyProvisioned(w)
              \/ EnrollCaFailure(w) \/ Evict(w) \/ Abort(w)
       PROVE Finish(w)
  BY <1>14 DEF ChallengeCommit, EnrollReject, EnrollAlreadyProvisioned, EnrollCaFailure, Evict, Abort, Rollback
<1> QED
  BY <1>2, <1>3, <1>4, <1>5, <1>6, <1>7, <1>8, <1>9, <1>10, <1>11, <1>12, <1>13, <1>14 DEF Step

LEMMA PhaseNext ==
  ASSUME TypeOK, PhaseOK, [Next]_vars
  PROVE  PhaseOK'
<1>1. CASE UNCHANGED h
  BY <1>1 DEF PhaseOK, PhaseOf
<1>2. ASSUME NEW w \in Handlers, Request(w) \/ Step(w) \/ Abort(w) PROVE PhaseOK'
  <2>1. PhaseOf(h'[w])
    BY <1>2, PhaseRequest, PhaseStep
  <2>2. \A v \in Handlers : v # w => PhaseOf(h'[v])
    BY <1>2, Others DEF PhaseOK
  <2> QED
    BY <2>1, <2>2 DEF PhaseOK, PhaseOf
<1> QED
  BY <1>1, <1>2 DEF Next, vars, Register, SetEnabled, Elapse

\* Spec keeps its types, whatever the interleaving and the faults.
THEOREM TypeCorrect == Spec => []TypeOK
<1>1. Init => TypeOK /\ PhaseOK
  BY InitIInv DEF IInv
<1>2. TypeOK /\ PhaseOK /\ [Next]_vars => TypeOK' /\ PhaseOK'
  BY TypeNext, PhaseNext
<1> QED
  BY <1>1, <1>2, PTL DEF Spec

-----------------------------------------------------------------------------
(* Certificates and tombstones.                                            *)

\* A certificate is recorded by the commit of the enrollment that signed it.
LEMMA CertSteps ==
  ASSUME PhaseOK, [Next]_vars
  PROVE  \/ UNCHANGED certs
         \/ \E w \in Handlers :
              /\ EnrollCommit(w) /\ Signed(w)
              /\ certs' = [certs EXCEPT ![h[w].serial] = [dev |-> h[w].d, sid |-> h[w].sid]]
<1>1. ASSUME NEW w \in Handlers, EnrollCommit(w), ~ UNCHANGED certs
      PROVE /\ Signed(w)
            /\ certs' = [certs EXCEPT ![h[w].serial] = [dev |-> h[w].d, sid |-> h[w].sid]]
  BY <1>1 DEF EnrollCommit, PhaseOK, PhaseOf, Signed
<1>2. ASSUME NEW w \in Handlers, Request(w) PROVE UNCHANGED certs
  BY <1>2 DEF Request, ChallengeLoad, RevokeLoad, ResetLoad, EnrollLoadSession, ProjectResetBegin, PurgeLoad
<1>3. ASSUME NEW w \in Handlers, Step(w) \/ Abort(w), ~ EnrollCommit(w) PROVE UNCHANGED certs
  BY <1>3 DEF Step, ChallengeCommit, EnrollLoadDevice, EnrollCount, EnrollReject,
         EnrollAlreadyProvisioned, EnrollCaFailure, EnrollSign, Lookup,
         RevokeCommit, Rekey, ProjectResetLoad, PurgeCommit, CrlRead, CrlWrite, Evict, Abort
<1>4. UNCHANGED certs \/ \E w \in Handlers : EnrollCommit(w)
  BY <1>2, <1>3 DEF Next, vars, Register, SetEnabled, Elapse
<1> QED
  BY <1>1, <1>4

LEMMA CertsGrow ==
  ASSUME IInv, [Next]_vars, NEW n \in Serials, certs[n] # Absent
  PROVE  certs'[n] = certs[n]
  BY CertSteps DEF IInv, TypeOK, SignedOK

IssuedToNext(n, ids) == certs'[n] # Absent /\ certs'[n].dev \in ids

LEMMA IssuedStays ==
  ASSUME IInv, [Next]_vars, NEW n \in Serials, NEW ids, IssuedTo(n, ids)
  PROVE  IssuedToNext(n, ids)
  BY CertsGrow DEF IssuedTo, IssuedToNext

\* A tombstone is added by a step that holds it as a mark.
LEMMA TombSteps ==
  ASSUME [Next]_vars
  PROVE  \/ UNCHANGED tomb
         \/ \E w \in Handlers :
              /\ EnrollCommit(w) \/ RevokeCommit(w) \/ PurgeCommit(w)
              /\ tomb' = Tombstoned(w)
<1>1. ASSUME NEW w \in Handlers, Request(w) PROVE UNCHANGED tomb
  BY <1>1 DEF Request, ChallengeLoad, RevokeLoad, ResetLoad, EnrollLoadSession, ProjectResetBegin, PurgeLoad
<1>2. ASSUME NEW w \in Handlers, Step(w) \/ Abort(w)
      PROVE \/ UNCHANGED tomb
            \/ /\ EnrollCommit(w) \/ RevokeCommit(w) \/ PurgeCommit(w)
               /\ tomb' = Tombstoned(w)
  BY <1>2 DEF Step, ChallengeCommit, EnrollLoadDevice, EnrollCount, EnrollReject,
              EnrollAlreadyProvisioned, EnrollCaFailure, EnrollSign, EnrollCommit, Lookup,
              RevokeCommit, Rekey, ProjectResetLoad, PurgeCommit, CrlRead, CrlWrite, Evict, Abort,
              Rollback, rows
<1> QED
  BY <1>1, <1>2 DEF Next, vars, Register, SetEnabled, Elapse

\* No operation, a project reset included, forgets a tombstone.
THEOREM TombstonesPermanent == Spec => TombstonesArePermanent
<1>1. [Next]_vars => [tomb \subseteq tomb']_vars
  BY TombSteps DEF Tombstoned
<1> QED
  BY <1>1, PTL DEF Spec, TombstonesArePermanent

LEMMA CrlNext ==
  ASSUME IInv, [Next]_vars
  PROVE  CrlOK'
<1>1. tomb \subseteq tomb'
  BY TombSteps DEF Tombstoned
<1>2. crl' = crl \/ \E w \in Handlers : crl' = h[w].snap
  <2>1. ASSUME NEW w \in Handlers, Request(w) PROVE UNCHANGED crl
    BY <2>1 DEF Request, ChallengeLoad, RevokeLoad, ResetLoad, EnrollLoadSession, ProjectResetBegin, PurgeLoad
  <2>2. ASSUME NEW w \in Handlers, Step(w) \/ Abort(w) PROVE crl' = crl \/ crl' = h[w].snap
    BY <2>2 DEF Step, ChallengeCommit, EnrollLoadDevice, EnrollCount, EnrollReject,
         EnrollAlreadyProvisioned, EnrollCaFailure, EnrollSign, EnrollCommit, Lookup,
         RevokeCommit, Rekey, ProjectResetLoad, PurgeCommit, CrlRead, CrlWrite, Evict, Abort
  <2> QED
    BY <2>1, <2>2 DEF Next, vars, Register, SetEnabled, Elapse
<1>3. ASSUME NEW w \in Handlers, Request(w) \/ Step(w) \/ Abort(w) PROVE h'[w].snap \subseteq tomb'
  <2>1. h[w] \in Handler /\ h[w].snap \subseteq tomb
    BY DEF IInv, TypeOK, CrlOK
  <2>2. CASE Request(w)
    BY <2>2, RequestRecord DEF IInv
  <2>3. CASE Finish(w)
    BY <2>3 DEF IInv, TypeOK, Finish, Idle
  <2>4. CASE CrlRead(w)
    BY <1>1, <2>1, <2>4 DEF IInv, TypeOK, CrlRead, Handler
  <2>5. CASE (Step(w) \/ Abort(w)) /\ ~ CrlRead(w) /\ ~ Finish(w)
    <3>1. h'[w].snap = h[w].snap
      BY <2>1, <2>5, StepRecord DEF IInv, Handler
    <3> QED
      BY <1>1, <2>1, <3>1
  <2> QED
    BY <1>3, <2>2, <2>3, <2>4, <2>5
<1>4. ASSUME NEW v \in Handlers PROVE h'[v].snap \subseteq tomb'
  <2>1. \/ UNCHANGED h
        \/ \E w \in Handlers : Request(w) \/ Step(w) \/ Abort(w)
    BY DEF Next, vars, Register, SetEnabled, Elapse
  <2> QED
    BY <1>1, <1>3, <2>1, Others DEF IInv, CrlOK
<1> QED
  BY <1>1, <1>2, <1>4 DEF IInv, CrlOK

\* What a step can do to one row of the devices table.
LEMMA DevSteps ==
  ASSUME TypeOK, PhaseOK, [Next]_vars, NEW d \in Devices, dev'[d] # dev[d]
  PROVE
    \/ /\ dev[d] = Absent /\ dev'[d] # Absent
       /\ dev'[d].serial = None /\ dev'[d].life = "pending"
    \/ /\ dev[d] # Absent /\ dev'[d] # Absent
       /\ dev'[d].serial = dev[d].serial /\ dev'[d].life = dev[d].life
    \/ /\ dev'[d] = Absent
       /\ \E w \in Handlers : PurgeCommit(w) /\ tomb' = Tombstoned(w) /\ d \in h[w].ids
    \/ \E w \in Handlers :
         /\ h[w].d = d /\ dev[d] # Absent /\ dev'[d] # Absent
         /\ \/ /\ EnrollCommit(w) /\ h[w].pc = "issue"
               /\ dev'[d].serial = h[w].serial
               /\ dev'[d].life = Flush(dev[d].life, h[w].row.life, "provisioned")
               /\ certs' = [certs EXCEPT ![h[w].serial] = [dev |-> d, sid |-> h[w].sid]]
            \/ /\ RevokeCommit(w) /\ h[w].pc = "revoke"
               /\ dev'[d].serial = dev[d].serial
               /\ dev'[d].life = Flush(dev[d].life, h[w].row.life, "revoked")
            \/ /\ Rekey(w) /\ h[w].pc = "rekey"
               /\ dev'[d].serial = Flush(dev[d].serial, h[w].row.serial, None)
               /\ dev'[d].life = Flush(dev[d].life, h[w].row.life, "pending")
<1> USE DEF TypeOK, Rollback, rows
<1>1. CASE UNCHANGED dev
  BY <1>1
<1>2. ASSUME NEW e \in Devices, Register(e)
      PROVE d = e /\ dev[d] = Absent /\ dev'[d] # Absent /\ dev'[d].serial = None /\ dev'[d].life = "pending"
  <2>1. PICK b \in BOOLEAN :
          /\ dev[e] = Absent
          /\ dev' = [dev EXCEPT ![e] = [enabled |-> TRUE, life |-> "pending", reprov |-> b,
                                        serial |-> None, secret |-> used.secrets + 1]]
    BY <1>2 DEF Register
  <2> QED
    BY <2>1
<1>3. ASSUME NEW e \in Devices, SetEnabled(e)
      PROVE dev[d] # Absent /\ dev'[d] # Absent /\ dev'[d].serial = dev[d].serial /\ dev'[d].life = dev[d].life
  <2>1. d = e /\ dev[d] \in Device /\ dev'[d] = [dev[d] EXCEPT !.enabled = ~ @]
    BY <1>3 DEF SetEnabled
  <2> QED
    BY <2>1, <1>3, TypeRegistry, RowsAssumption DEF Device
<1>4. ASSUME NEW w \in Handlers, EnrollCommit(w)
      PROVE /\ h[w].d = d /\ dev[d] # Absent /\ dev'[d] # Absent
            /\ h[w].pc = "issue" /\ dev'[d].serial = h[w].serial
            /\ dev'[d].life = Flush(dev[d].life, h[w].row.life, "provisioned")
            /\ certs' = [certs EXCEPT ![h[w].serial] = [dev |-> d, sid |-> h[w].sid]]
  <2>1. /\ h[w].pc = "issue" /\ dev[h[w].d] # Absent
        /\ dev' = [dev EXCEPT ![h[w].d].life = Flush(@, h[w].row.life, "provisioned"),
                              ![h[w].d].serial = h[w].serial]
        /\ certs' = [certs EXCEPT ![h[w].serial] = [dev |-> h[w].d, sid |-> h[w].sid]]
    BY <1>4 DEF EnrollCommit
  <2>2. d = h[w].d /\ dev[d] \in Device
    BY <2>1
  <2>3. dev'[d] = [dev[d] EXCEPT !.life = Flush(dev[d].life, h[w].row.life, "provisioned"),
                                 !.serial = h[w].serial]
    BY <2>1, <2>2 DEF Device
  <2>4. dev'[d] # Absent
    <3>1. dev'[d] \in Device
      <4>1. h[w] \in Handler
        OBVIOUS
      <4>2. h[w].serial \in Serials \cup {None}
        BY <4>1 DEF Handler
      <4>3. Flush(dev[d].life, h[w].row.life, "provisioned") \in {"pending", "provisioned", "revoked"}
        BY <2>2 DEF Flush, Device
      <4> QED
        BY <2>2, <2>3, <4>2, <4>3 DEF Device
    <3> QED
      BY <3>1, RowsAssumption
  <2> QED
    BY <2>1, <2>2, <2>3, <2>4 DEF Device
<1>5. ASSUME NEW w \in Handlers, RevokeCommit(w)
      PROVE /\ h[w].d = d /\ dev[d] # Absent /\ dev'[d] # Absent
            /\ h[w].pc = "revoke" /\ dev'[d].serial = dev[d].serial
            /\ dev'[d].life = Flush(dev[d].life, h[w].row.life, "revoked")
  <2>1. /\ h[w].pc = "revoke" /\ dev[h[w].d] # Absent
        /\ dev' = [dev EXCEPT ![h[w].d].life = Flush(@, h[w].row.life, "revoked")]
    BY <1>5 DEF RevokeCommit
  <2>2. d = h[w].d /\ dev[d] \in Device
    BY <2>1
  <2>3. dev'[d] = [dev[d] EXCEPT !.life = Flush(dev[d].life, h[w].row.life, "revoked")]
    BY <2>1, <2>2 DEF Device
  <2>4. dev'[d] \in Device
    BY <2>2, <2>3 DEF Device, Flush
  <2> QED
    BY <2>1, <2>2, <2>3, <2>4, RowsAssumption DEF Device
<1>6. ASSUME NEW w \in Handlers, Rekey(w)
      PROVE /\ h[w].d = d /\ dev[d] # Absent /\ dev'[d] # Absent
            /\ h[w].pc = "rekey"
            /\ dev'[d].serial = Flush(dev[d].serial, h[w].row.serial, None)
            /\ dev'[d].life = Flush(dev[d].life, h[w].row.life, "pending")
  <2>1. /\ h[w].pc = "rekey" /\ dev[h[w].d] # Absent
        /\ dev' = [dev EXCEPT ![h[w].d].secret = h[w].secret,
                              ![h[w].d].life = Flush(@, h[w].row.life, "pending"),
                              ![h[w].d].serial = Flush(@, h[w].row.serial, None)]
    BY <1>6 DEF Rekey
  <2>2. d = h[w].d /\ dev[d] \in Device
    BY <2>1
  <2>3. dev'[d] = [dev[d] EXCEPT !.secret = h[w].secret,
                                 !.life = Flush(dev[d].life, h[w].row.life, "pending"),
                                 !.serial = Flush(dev[d].serial, h[w].row.serial, None)]
    BY <2>1, <2>2 DEF Device
  <2>4. dev'[d] \in Device
    <3>1. h[w].secret \in Secrets
      BY <2>1 DEF PhaseOK, PhaseOf, Handler
    <3> QED
      BY <2>2, <2>3, <3>1 DEF Device, Flush
  <2> QED
    BY <2>1, <2>2, <2>3, <2>4, RowsAssumption DEF Device
<1>7. ASSUME NEW w \in Handlers, PurgeCommit(w)
      PROVE dev'[d] = Absent /\ tomb' = Tombstoned(w) /\ d \in h[w].ids
  BY <1>7 DEF PurgeCommit, Purged
<1>8. ASSUME NEW w \in Handlers, Request(w) PROVE UNCHANGED dev
  BY <1>8 DEF Request, ChallengeLoad, RevokeLoad, ResetLoad, EnrollLoadSession, ProjectResetBegin, PurgeLoad
<1>9. ASSUME NEW w \in Handlers, Step(w) \/ Abort(w),
             ~ EnrollCommit(w), ~ RevokeCommit(w), ~ Rekey(w), ~ PurgeCommit(w)
      PROVE UNCHANGED dev
  BY <1>9 DEF Step, ChallengeCommit, EnrollLoadDevice, EnrollCount, EnrollReject,
         EnrollAlreadyProvisioned, EnrollCaFailure, EnrollSign, Lookup,
         ProjectResetLoad, CrlRead, CrlWrite, Evict, Abort
<1>10. CASE \E w \in Handlers : EnrollCommit(w) \/ RevokeCommit(w) \/ Rekey(w)
  BY <1>4, <1>5, <1>6, <1>10
<1>11. CASE \E e \in Devices : Register(e) \/ SetEnabled(e)
  BY <1>2, <1>3, <1>11
<1> QED
  BY <1>1, <1>7, <1>8, <1>9, <1>10, <1>11 DEF Next, vars, Elapse

-----------------------------------------------------------------------------
(* Whose serial is whose.                                                  *)

\* A certificate has one device.
LEMMA OneOwner ==
  ASSUME NEW n, NEW c, NEW d, IssuedTo(n, {c}), IssuedTo(n, {d})
  PROVE  c = d
  BY DEF IssuedTo

\* The rows of the devices table mention certificates issued to them.
LEMMA RowsNext ==
  ASSUME IInv, [Next]_vars, NEW d \in Devices, dev'[d] # Absent, dev'[d].serial # None
  PROVE  IssuedTo(dev[d].serial, {d})'
<1> USE DEF IInv
<1>1. CASE dev[d] # Absent /\ dev'[d].serial = dev[d].serial
  <2>1. dev[d].serial \in Serials
    BY <1>1 DEF TypeOK, Device
  <2>2. IssuedTo(dev[d].serial, {d})
    BY <1>1 DEF SerialsOK
  <2> QED
    BY <1>1, <2>1, <2>2, IssuedStays DEF IssuedTo, IssuedToNext
<1>2. ASSUME NEW w \in Handlers, h[w].pc = "issue", EnrollCommit(w), dev'[d].serial = h[w].serial,
             certs' = [certs EXCEPT ![h[w].serial] = [dev |-> d, sid |-> h[w].sid]]
      PROVE IssuedTo(dev[d].serial, {d})'
  <2>1. h[w].serial \in Serials
    BY <1>2 DEF PhaseOK, PhaseOf, Signed, SignedOK
  <2>2. certs'[h[w].serial] = [dev |-> d, sid |-> h[w].sid]
    BY <1>2, <2>1 DEF TypeOK
  <2>3. [dev |-> d, sid |-> h[w].sid] # Absent
    <3>1. h[w].sid \in SessionIds
      BY <1>2 DEF TypeOK, PhaseOK, PhaseOf, Handler
    <3> QED
      BY <3>1, RowsAssumption DEF Certificate
  <2> QED
    BY <1>2, <2>2, <2>3 DEF IssuedTo
<1> QED
  BY <1>1, <1>2, DevSteps DEF Flush

LEMMA UsedGrows ==
  ASSUME IInv, [Next]_vars
  PROVE  used.serials <= used'.serials /\ used.serials \in Nat /\ used'.serials \in Nat
<1> USE DEF IInv
<1>1. ASSUME NEW w \in Handlers, Request(w)
      PROVE used' = used \/ used' = [used EXCEPT !.sessions = @ + 1] \/ used' = [used EXCEPT !.secrets = @ + 1]
  BY <1>1 DEF Request, ChallengeLoad, RevokeLoad, ResetLoad, EnrollLoadSession, ProjectResetBegin, PurgeLoad
<1>2. ASSUME NEW w \in Handlers, Step(w) \/ Abort(w)
      PROVE used' = used \/ used' = [used EXCEPT !.serials = @ + 1]
  BY <1>2 DEF Step, ChallengeCommit, EnrollLoadDevice, EnrollCount, EnrollReject,
       EnrollAlreadyProvisioned, EnrollCaFailure, EnrollSign, EnrollCommit, Lookup,
       RevokeCommit, Rekey, ProjectResetLoad, PurgeCommit, CrlRead, CrlWrite, Evict, Abort
<1>3. used.serials <= used'.serials
  BY <1>1, <1>2, ConstantsAssumption DEF TypeOK, Next, vars, Register, SetEnabled, Elapse
<1> QED
  BY <1>3, TypeNext, ConstantsAssumption DEF TypeOK

LEMMA FreshNext ==
  ASSUME IInv, [Next]_vars, NEW n \in Serials, n > used'.serials
  PROVE  certs'[n] = Absent
<1> USE DEF IInv
<1>1. used.serials <= used'.serials /\ used.serials \in Nat /\ used'.serials \in Nat
  BY UsedGrows
<1>2. n \in Nat /\ n > used.serials
  BY <1>1, ConstantsAssumption DEF Serials
<1>3. certs[n] = Absent
  BY <1>2 DEF SerialsOK
<1>4. ASSUME NEW w \in Handlers, Signed(w),
             certs' = [certs EXCEPT ![h[w].serial] = [dev |-> h[w].d, sid |-> h[w].sid]]
      PROVE certs'[n] = Absent
  <2>1. h[w].serial \in Serials /\ h[w].serial <= used.serials
    BY <1>4 DEF SignedOK
  <2> QED
    BY <1>1, <1>2, <1>3, <1>4, <2>1, ConstantsAssumption DEF TypeOK, Serials
<1> QED
  BY <1>3, <1>4, CertSteps

\* The records of the handlers.
LEMMA RecordRequest ==
  ASSUME IInv, NEW w \in Handlers, Request(w), [Next]_vars
  PROVE  RecordOK(h[w])'
<1> USE DEF IInv, TypeOK
<1>1. certs' = certs
  BY DEF Request, ChallengeLoad, RevokeLoad, ResetLoad, EnrollLoadSession, ProjectResetBegin, PurgeLoad
<1>2. \A d \in Devices : dev[d] # Absent =>
        /\ dev[d].serial # None => IssuedTo(dev[d].serial, {d})
        /\ \A n \in SerialOf(dev[d]) : IssuedTo(n, {d})
  BY DEF SerialsOK, SerialOf
<1>3. ASSUME NEW d \in Devices, ChallengeLoad(w, d) PROVE RecordOK(h[w])'
  BY <1>1, <1>2, <1>3 DEF ChallengeLoad, Begin, Idle, RecordOK, IssuedTo
<1>4. ASSUME NEW d \in Devices, RevokeLoad(w, d) PROVE RecordOK(h[w])'
  BY <1>1, <1>2, <1>4 DEF RevokeLoad, Begin, Idle, RecordOK, IssuedTo
<1>5. ASSUME NEW d \in Devices, ResetLoad(w, d) PROVE RecordOK(h[w])'
  BY <1>1, <1>2, <1>5 DEF ResetLoad, Begin, Idle, RecordOK, IssuedTo
<1>6. ASSUME NEW d \in Devices, NEW s \in SessionIds, NEW k \in Secrets \cup {None},
             EnrollLoadSession(w, d, s, k)
      PROVE RecordOK(h[w])'
  BY <1>6 DEF EnrollLoadSession, Idle, RecordOK
<1>7. CASE ProjectResetBegin(w)
  BY <1>7 DEF ProjectResetBegin, Idle, RecordOK
<1>8. CASE PurgeLoad(w)
  <2>1. /\ h'[w].ids = Registered \cap Simulated
        /\ h'[w].marks = UNION {SerialOf(dev[d]) : d \in Registered \cap Simulated}
        /\ h'[w].row = Absent /\ h'[w].op = "purge-simulated"
    BY <1>8 DEF PurgeLoad, Idle
  <2>2. \A n \in h'[w].marks : IssuedTo(n, h'[w].ids)
    BY <1>2, <2>1 DEF Registered, IssuedTo
  <2> QED
    BY <1>1, <2>1, <2>2 DEF RecordOK, IssuedTo
<1> QED
  BY <1>3, <1>4, <1>5, <1>6, <1>7, <1>8 DEF Request

LEMMA RecordStep ==
  ASSUME IInv, NEW w \in Handlers, Step(w) \/ Abort(w), [Next]_vars
  PROVE  RecordOK(h[w])'
<1> USE DEF IInv
<1>1. h[w] \in Handler /\ RecordOK(h[w]) /\ PhaseOf(h[w])
  BY DEF TypeOK, SerialsOK, PhaseOK
<1>2. \A n \in Serials : \A ids : IssuedTo(n, ids) => IssuedToNext(n, ids)
  BY IssuedStays
<1>3. \A n \in h[w].marks : IssuedTo(n, h[w].ids) /\ IssuedToNext(n, h[w].ids)
  BY <1>1, <1>2 DEF RecordOK, Handler
<1>4. h[w].row # Absent /\ h[w].row.serial # None =>
        h[w].row.serial \in Serials /\ IssuedTo(h[w].row.serial, {h[w].d}) /\ IssuedToNext(h[w].row.serial, {h[w].d})
  BY <1>1, <1>2 DEF RecordOK, Handler, Device
<1>5. CASE Finish(w)
  BY <1>5 DEF Finish, TypeOK, Idle, RecordOK
<1>6. CASE ~ Finish(w)
  <2>1. CASE EnrollLoadDevice(w) /\ dev[h[w].d] # Absent
             /\ h'[w] = [h[w] EXCEPT !.pc = "count", !.row = dev[h[w].d]]
    <3>1. h[w].d \in Devices
      BY <1>1, <2>1 DEF EnrollLoadDevice, PhaseOf, Handler
    <3>2. dev[h[w].d].serial # None => IssuedToNext(dev[h[w].d].serial, {h[w].d})
      BY <1>2, <2>1, <3>1 DEF SerialsOK, TypeOK, Device
    <3> QED
      BY <1>1, <1>3, <2>1, <3>2 DEF RecordOK, Handler, IssuedTo, IssuedToNext
  <2>2. CASE EnrollSign(w) /\ h'[w] = [h[w] EXCEPT !.pc = "lookup", !.serial = used.serials + 1,
                                                   !.marks = SerialOf(h[w].row)]
    <3>1. h[w].row \in Device /\ h[w].ids = {h[w].d}
      BY <1>1, <2>2 DEF EnrollSign, MayIssue, PhaseOf, Handler
    <3>2. \A n \in SerialOf(h[w].row) : IssuedToNext(n, {h[w].d})
      BY <1>4, <3>1, RowsAssumption DEF SerialOf
    <3>3. /\ h'[w].row = h[w].row /\ h'[w].d = h[w].d /\ h'[w].ids = {h[w].d}
          /\ h'[w].marks = SerialOf(h[w].row)
      BY <1>1, <2>2, <3>1 DEF Handler
    <3> QED
      BY <1>4, <3>2, <3>3 DEF RecordOK, IssuedTo, IssuedToNext
  <2>3. CASE Lookup(w) /\ h'[w] = [h[w] EXCEPT !.pc = AfterLookup(h[w].op), !.marks = h[w].marks \ tomb,
                                               !.evict = h'[w].evict]
    <3>1. /\ h'[w].row = h[w].row /\ h'[w].d = h[w].d /\ h'[w].ids = h[w].ids /\ h'[w].op = h[w].op
          /\ h'[w].marks = h[w].marks \ tomb
      BY <1>1, <2>3 DEF Handler
    <3>2. h[w].op \in {"enroll", "revoke", "reset"} => h'[w].marks \subseteq SerialOf(h'[w].row)
      BY <1>1, <2>3, <3>1 DEF RecordOK, Lookup
    <3> QED
      BY <1>3, <1>4, <3>1, <3>2 DEF RecordOK, IssuedTo, IssuedToNext
  <2>4. CASE RevokeCommit(w) /\ ~ Rollback(w)
             /\ h'[w] = [h[w] EXCEPT !.pc = "crlRead", !.row = [h[w].row EXCEPT !.life = "revoked"]]
    <3>1. h[w].row \in Device
      BY <1>1, <2>4 DEF RevokeCommit, PhaseOf, Handler
    <3>2. [h[w].row EXCEPT !.life = "revoked"].serial = h[w].row.serial /\ h[w].row # Absent
      BY <3>1, RowsAssumption DEF Device
    <3> QED
      BY <1>1, <1>3, <1>4, <2>4, <3>2 DEF RecordOK, Handler, IssuedTo, IssuedToNext
  <2>5. CASE Rekey(w) /\ ~ Rollback(w)
             /\ h'[w] = [h[w] EXCEPT !.pc = "crlRead",
                                     !.row = [h[w].row EXCEPT !.life = "pending", !.serial = None]]
    <3>1. h[w].row \in Device
      BY <1>1, <2>5 DEF Rekey, PhaseOf, Handler
    <3>2. [h[w].row EXCEPT !.life = "pending", !.serial = None].serial = None
      BY <3>1 DEF Device
    <3> QED
      BY <1>1, <1>3, <2>5, <3>2 DEF RecordOK, Handler, IssuedTo, IssuedToNext
  <2>6. CASE ProjectResetLoad(w) /\ h'[w] = [h[w] EXCEPT !.pc = "lookup",
                                       !.marks = UNION {SerialOf(dev[d]) : d \in Registered}]
    <3>1. h[w].op = "project-reset" /\ h[w].ids = Devices
      BY <1>1, <2>6 DEF ProjectResetLoad, PhaseOf
    <3>2. \A n \in UNION {SerialOf(dev[d]) : d \in Registered} : n \in Serials /\ IssuedTo(n, Devices)
      BY DEF Registered, SerialOf, SerialsOK, TypeOK, Device, IssuedTo
    <3>3. \A n \in UNION {SerialOf(dev[d]) : d \in Registered} : IssuedToNext(n, Devices)
      BY <1>2, <3>2
    <3> QED
      BY <1>1, <1>4, <2>6, <3>1, <3>3 DEF RecordOK, Handler, IssuedTo, IssuedToNext
  <2>7. CASE /\ h'[w].marks = h[w].marks /\ h'[w].ids = h[w].ids /\ h'[w].row = h[w].row
             /\ h'[w].d = h[w].d /\ h'[w].pc \notin {"lookup", "revoke", "issue"}
    BY <1>3, <1>4, <2>7 DEF RecordOK, IssuedTo, IssuedToNext
  <2>8. \/ EnrollCount(w) /\ h'[w] = [h[w] EXCEPT !.pc = "decide", !.srow = h'[w].srow]
        \/ h'[w] = [h[w] EXCEPT !.pc = "crlRead"]
        \/ h'[w] = [h[w] EXCEPT !.pc = "crlWrite", !.snap = tomb]
        \/ \E pc \in {"rekey", "evict"} : h'[w] = [h[w] EXCEPT !.pc = pc]
        => /\ h'[w].marks = h[w].marks /\ h'[w].ids = h[w].ids /\ h'[w].row = h[w].row
           /\ h'[w].d = h[w].d /\ h'[w].pc \notin {"lookup", "revoke", "issue"}
    BY <1>1 DEF Handler
  <2> QED
    BY <1>6, <2>1, <2>2, <2>3, <2>4, <2>5, <2>6, <2>7, <2>8, StepRecord
<1> QED
  BY <1>5, <1>6

LEMMA SerialsNext ==
  ASSUME IInv, [Next]_vars
  PROVE  SerialsOK'
<1> USE DEF IInv
<1>1. ASSUME NEW n \in tomb' PROVE certs'[n] # Absent
  <2>1. CASE n \in tomb
    BY <2>1, CertsGrow DEF TypeOK, SerialsOK, RevokedCertificate
  <2>2. ASSUME NEW w \in Handlers, n \in h[w].marks PROVE certs'[n] # Absent
    <3>1. n \in Serials /\ IssuedTo(n, h[w].ids)
      BY <2>2 DEF TypeOK, Handler, SerialsOK, RecordOK
    <3> QED
      BY <3>1, CertsGrow DEF IssuedTo
  <2> QED
    BY <2>1, <2>2, TombSteps DEF Tombstoned
<1>2. ASSUME NEW v \in Handlers PROVE RecordOK(h[v])'
  <2>1. CASE h'[v] = h[v]
    <3>1. h[v] \in Handler /\ RecordOK(h[v])
      BY DEF TypeOK, SerialsOK
    <3>2. \A n \in Serials : \A ids : IssuedTo(n, ids) => IssuedToNext(n, ids)
      BY IssuedStays
    <3>3. \A n \in h[v].marks : IssuedToNext(n, h[v].ids)
      BY <3>1, <3>2 DEF RecordOK, Handler
    <3>4. h[v].row # Absent /\ h[v].row.serial # None => IssuedToNext(h[v].row.serial, {h[v].d})
      BY <3>1, <3>2 DEF RecordOK, Handler, Device
    <3> QED
      BY <2>1, <3>1, <3>3, <3>4 DEF RecordOK, IssuedTo, IssuedToNext
  <2>2. CASE Request(v) \/ Step(v) \/ Abort(v)
    BY <2>2, RecordRequest, RecordStep
  <2>3. \/ UNCHANGED h
        \/ \E w \in Handlers : Request(w) \/ Step(w) \/ Abort(w)
    BY DEF Next, vars, Register, SetEnabled, Elapse
  <2> QED
    BY <2>1, <2>2, <2>3, Others
<1>3. ASSUME NEW d \in Devices, dev'[d] # Absent, dev'[d].serial # None PROVE IssuedTo(dev[d].serial, {d})'
  BY <1>3, RowsNext
<1>4. \A n \in Serials : n > used'.serials => certs'[n] = Absent
  BY FreshNext
<1> QED
  BY <1>1, <1>2, <1>3, <1>4 DEF SerialsOK

LEMMA SignedNext ==
  ASSUME IInv, [Next]_vars
  PROVE  SignedOK'
<1> USE DEF IInv
<1> DEFINE SignedNow(w) == h'[w].op = "enroll" /\ h'[w].pc \in {"lookup", "issue"}
<1>1. TypeOK' /\ PhaseOK'
  BY TypeNext, PhaseNext
<1>2. used.serials \in Nat /\ used'.serials \in Nat /\ used.serials <= used'.serials
  BY UsedGrows
<1>3. ASSUME NEW w \in Handlers, SignedNow(w)
      PROVE \/ /\ Signed(w) /\ h'[w].serial = h[w].serial
               /\ ~ (EnrollCommit(w) /\ certs' # certs)
            \/ /\ EnrollSign(w) /\ h'[w].serial = used.serials + 1
               /\ used'.serials = used.serials + 1 /\ UNCHANGED certs
  <2>1. h[w] \in Handler /\ PhaseOf(h[w])
    BY DEF TypeOK, PhaseOK
  <2>2. CASE h'[w] = h[w]
    <3>1. EnrollCommit(w) => h[w].pc = "issue" /\ h'[w].pc \in {"crlRead", "idle"}
      BY <2>1 DEF EnrollCommit, Goto, Finish, Rollback, Idle, TypeOK, Handler
    <3> QED
      BY <1>3, <2>2, <3>1 DEF Signed
  <2>3. CASE Request(w)
    BY <1>3, <2>3, RequestRecord
  <2>4. CASE Finish(w)
    BY <1>3, <2>4 DEF TypeOK, Finish, Idle
  <2>5. CASE (Step(w) \/ Abort(w)) /\ ~ Finish(w)
    <3>1. CASE EnrollSign(w) /\ h'[w] = [h[w] EXCEPT !.pc = "lookup", !.serial = used.serials + 1,
                                                     !.marks = SerialOf(h[w].row)]
      <4>1. h'[w].serial = used.serials + 1
        BY <2>1, <3>1 DEF Handler
      <4>2. used'.serials = used.serials + 1 /\ UNCHANGED certs
        BY <3>1 DEF EnrollSign, TypeOK
      <4> QED
        BY <3>1, <4>1, <4>2
    <3>2. CASE Lookup(w) /\ h'[w] = [h[w] EXCEPT !.pc = AfterLookup(h[w].op), !.marks = h[w].marks \ tomb,
                                                 !.evict = h'[w].evict]
      <4>1. h'[w].op = h[w].op /\ h'[w].serial = h[w].serial
        BY <2>1, <3>2 DEF Handler
      <4>2. h[w].pc = "lookup"
        BY <3>2 DEF Lookup
      <4> QED
        BY <1>3, <4>1, <4>2 DEF Signed, EnrollCommit
    <3>3. CASE ProjectResetLoad(w) /\ h'[w] = [h[w] EXCEPT !.pc = "lookup",
                                         !.marks = UNION {SerialOf(dev[d]) : d \in Registered}]
      <4>1. h'[w].op = h[w].op
        BY <2>1, <3>3 DEF Handler
      <4>2. h[w].op = "project-reset"
        BY <2>1, <3>3 DEF ProjectResetLoad, PhaseOf
      <4> QED
        BY <1>3, <4>1, <4>2
    <3>4. CASE h'[w].pc \notin {"lookup", "issue"}
      BY <1>3, <3>4
    <3> QED
      BY <2>1, <2>5, <3>1, <3>2, <3>3, <3>4, StepRecord DEF Handler
  <2>6. \/ UNCHANGED h
        \/ \E v \in Handlers : Request(v) \/ Step(v) \/ Abort(v)
    BY DEF Next, vars, Register, SetEnabled, Elapse
  <2> QED
    BY <2>2, <2>3, <2>4, <2>5, <2>6, Others
<1>4. ASSUME NEW w \in Handlers, SignedNow(w), Signed(w), h'[w].serial = h[w].serial,
             ~ (EnrollCommit(w) /\ certs' # certs)
      PROVE /\ h'[w].serial \in Serials /\ h'[w].serial <= used.serials
            /\ certs'[h'[w].serial] = Absent
  <2>1. h[w].serial \in Serials /\ h[w].serial <= used.serials /\ certs[h[w].serial] = Absent
    BY <1>4 DEF SignedOK
  <2>2. ASSUME NEW x \in Handlers, EnrollCommit(x), Signed(x), certs' # certs,
               certs' = [certs EXCEPT ![h[x].serial] = [dev |-> h[x].d, sid |-> h[x].sid]]
        PROVE certs'[h[w].serial] = Absent
    <3>1. h[x].serial # h[w].serial
      BY <1>4, <2>2 DEF SignedOK
    <3> QED
      BY <2>1, <2>2, <3>1 DEF TypeOK
  <2> QED
    BY <1>4, <2>1, <2>2, CertSteps
<1>5. ASSUME NEW w \in Handlers, EnrollSign(w), h'[w].serial = used.serials + 1,
             used'.serials = used.serials + 1, UNCHANGED certs
      PROVE /\ h'[w].serial \in Serials /\ h'[w].serial <= used'.serials
            /\ certs'[h'[w].serial] = Absent
  <2>1. used.serials + 1 \in Serials
    BY <1>2, <1>5, ConstantsAssumption DEF EnrollSign, Serials
  <2> QED
    BY <1>2, <1>5, <2>1 DEF SerialsOK
<1>6. ASSUME NEW w \in Handlers, NEW v \in Handlers, v # w, SignedNow(w), EnrollSign(v)
      PROVE ~ EnrollSign(w)
  BY <1>6 DEF EnrollSign, MayIssue, TypeOK
<1>7. ASSUME NEW w \in Handlers, NEW v \in Handlers, v # w, SignedNow(w), SignedNow(v)
      PROVE h'[v].serial # h'[w].serial
  <2>1. CASE Signed(w) /\ Signed(v) /\ h'[w].serial = h[w].serial /\ h'[v].serial = h[v].serial
    BY <1>7, <2>1 DEF SignedOK
  <2>2. CASE Signed(w) /\ h'[w].serial = h[w].serial /\ h'[v].serial = used.serials + 1
    BY <1>2, <2>2, ConstantsAssumption DEF SignedOK, Serials
  <2>3. CASE Signed(v) /\ h'[v].serial = h[v].serial /\ h'[w].serial = used.serials + 1
    BY <1>2, <2>3, ConstantsAssumption DEF SignedOK, Serials
  <2> QED
    BY <1>3, <1>6, <1>7, <2>1, <2>2, <2>3
<1>8. ASSUME NEW w \in Handlers, SignedNow(w)
      PROVE /\ h'[w].serial \in Serials /\ h'[w].serial <= used'.serials
            /\ certs'[h'[w].serial] = Absent
  <2>1. CASE EnrollSign(w) /\ h'[w].serial = used.serials + 1
             /\ used'.serials = used.serials + 1 /\ UNCHANGED certs
    BY <1>5, <2>1
  <2>2. CASE Signed(w) /\ h'[w].serial = h[w].serial /\ ~ (EnrollCommit(w) /\ certs' # certs)
    BY <1>2, <1>4, <1>8, <2>2, ConstantsAssumption DEF Serials
  <2> QED
    BY <1>3, <1>8, <2>1, <2>2
<1> QED
  BY <1>7, <1>8 DEF SignedOK, Signed

-----------------------------------------------------------------------------
(* A provisioned device's certificate is not tombstoned.                   *)

\* The certificate of a device can only be tombstoned by a handler that is
\* about this device.
LEMMA NotMarked ==
  ASSUME IInv, NEW d \in Devices, dev[d] # Absent, dev[d].serial # None,
         NEW w \in Handlers, dev[d].serial \in h[w].marks
  PROVE  d \in h[w].ids
<1>1. IssuedTo(dev[d].serial, {d})
  BY DEF IInv, SerialsOK
<1>2. IssuedTo(dev[d].serial, h[w].ids)
  BY DEF IInv, SerialsOK, RecordOK
<1> QED
  BY <1>1, <1>2 DEF IssuedTo

\* A signed serial is in no table yet.
LEMMA SignedIsNew ==
  ASSUME IInv, NEW w \in Handlers, Signed(w)
  PROVE  h[w].serial # None /\ h[w].serial \notin tomb /\ \A v \in Handlers : h[w].serial \notin h[v].marks
  BY ConstantsAssumption DEF IInv, SignedOK, SerialsOK, RecordOK, IssuedTo, Serials, None

\* A device is provisioned after a step because it was before, with the same
\* certificate, or by the commit of an enrollment.
LEMMA ProvisionedSteps ==
  ASSUME IInv, [Next]_vars, NEW d \in Devices, dev'[d] # Absent, dev'[d].life = "provisioned"
  PROVE  \/ dev[d] # Absent /\ dev'[d].serial = dev[d].serial /\ dev'[d].life = dev[d].life
         \/ \E w \in Handlers :
              EnrollCommit(w) /\ Signed(w) /\ h[w].d = d /\ dev'[d].serial = h[w].serial
<1> USE DEF IInv
<1>1. ASSUME NEW w \in Handlers, h[w].pc = "issue", EnrollCommit(w) PROVE Signed(w)
  BY <1>1 DEF PhaseOK, PhaseOf, Signed
<1>2. ASSUME NEW w \in Handlers, h[w].d = d, dev[d] # Absent,
             RevokeCommit(w), h[w].pc = "revoke", dev'[d].serial = dev[d].serial,
             dev'[d].life = Flush(dev[d].life, h[w].row.life, "revoked")
      PROVE dev'[d].life = dev[d].life
  BY <1>2 DEF Flush
<1>3. ASSUME NEW w \in Handlers, h[w].d = d, dev[d] # Absent, Rekey(w), h[w].pc = "rekey",
             dev'[d].serial = Flush(dev[d].serial, h[w].row.serial, None),
             dev'[d].life = Flush(dev[d].life, h[w].row.life, "pending")
      PROVE dev'[d].life = dev[d].life /\ dev'[d].serial = dev[d].serial
  <2>1. h[w].row.life = "pending" /\ dev'[d].life = dev[d].life
    BY <1>3 DEF Flush
  <2>2. h[w].op = "reset"
    BY <1>3 DEF PhaseOK, PhaseOf
  <2>3. h[w].row.serial = None
    BY <1>3, <2>1, <2>2 DEF StaleRevokedOK
  <2> QED
    BY <1>3, <2>1, <2>3 DEF Flush
<1> QED
  BY <1>1, <1>2, <1>3, DevSteps

LEMMA ProvisionedNext ==
  ASSUME IInv, [Next]_vars
  PROVE  ProvisionedOK'
<1> USE DEF IInv
<1> SUFFICES ASSUME NEW d \in Devices, dev'[d] # Absent, dev'[d].life = "provisioned"
             PROVE  dev'[d].serial # None /\ dev'[d].serial \notin tomb'
  BY DEF ProvisionedOK
<1>1. CASE /\ dev[d] # Absent
           /\ dev'[d].serial = dev[d].serial /\ dev'[d].life = dev[d].life
  <2>1. dev[d].serial # None /\ dev[d].serial \notin tomb
    BY <1>1 DEF ProvisionedOK
  <2>2. ASSUME NEW w \in Handlers, EnrollCommit(w) \/ RevokeCommit(w) \/ PurgeCommit(w),
               tomb' = Tombstoned(w), tomb' # tomb, dev[d].serial \in h[w].marks
        PROVE FALSE
    <3>1. d \in h[w].ids
      BY <1>1, <2>1, <2>2, NotMarked
    <3>2. CASE EnrollCommit(w)
      <4>1. Signed(w) /\ h[w].d = d
        BY <2>2, <3>1, <3>2 DEF EnrollCommit, PhaseOK, PhaseOf, Signed
      <4>2. dev' = [dev EXCEPT ![d].life = Flush(@, h[w].row.life, "provisioned"), ![d].serial = h[w].serial]
        BY <2>2, <3>2, <4>1 DEF EnrollCommit, Rollback, rows
      <4>3. dev'[d].serial = h[w].serial
        BY <1>1, <4>2 DEF TypeOK, Device
      <4> QED
        BY <1>1, <2>2, <4>1, <4>3, SignedIsNew
    <3>3. CASE RevokeCommit(w)
      <4>1. /\ h[w].pc = "revoke" /\ h[w].op \in {"revoke", "reset"} /\ h[w].d = d
            /\ h[w].row \in Device
        BY <3>1, <3>3 DEF RevokeCommit, PhaseOK, PhaseOf, TypeOK, Handler
      <4>2. dev' = [dev EXCEPT ![d].life = Flush(@, h[w].row.life, "revoked")]
        BY <2>2, <3>3, <4>1 DEF RevokeCommit, Rollback, rows
      <4>3. dev'[d].life = Flush(dev[d].life, h[w].row.life, "revoked")
        BY <1>1, <4>2 DEF TypeOK, Device
      <4>4. h[w].row.life = "revoked"
        BY <1>1, <4>3 DEF Flush
      <4>5. dev[d].serial = h[w].row.serial /\ h[w].row.serial # None
        BY <2>1, <2>2, <4>1 DEF SerialsOK, RecordOK, SerialOf
      <4> QED
        BY <1>1, <4>1, <4>4, <4>5 DEF StaleRevokedOK
    <3>4. CASE PurgeCommit(w)
      <4>1. dev'[d] = Absent
        BY <2>2, <3>1, <3>4 DEF PurgeCommit, Purged, Rollback, rows
      <4> QED
        BY <4>1
    <3> QED
      BY <2>2, <3>2, <3>3, <3>4
  <2>3. dev[d].serial \notin tomb'
    BY <2>1, <2>2, TombSteps DEF Tombstoned
  <2> QED
    BY <1>1, <2>1, <2>3
<1>2. ASSUME NEW w \in Handlers, EnrollCommit(w), Signed(w), dev'[d].serial = h[w].serial
      PROVE dev'[d].serial # None /\ dev'[d].serial \notin tomb'
  BY <1>2, SignedIsNew, TombSteps DEF Tombstoned
<1> QED
  BY <1>1, <1>2, ProvisionedSteps

\* What a step leaves of the row a revocation or a reset holds.
LEMMA RowSteps ==
  ASSUME IInv, [Next]_vars, NEW v \in Handlers, h'[v].op \in {"revoke", "reset"}
  PROVE  \/ h'[v].d = h[v].d /\ h'[v].op = h[v].op /\ h'[v].row = h[v].row
         \/ h'[v].d \in Devices /\ h'[v].row = dev[h'[v].d] /\ UNCHANGED dev
         \/ /\ h'[v].d = h[v].d /\ h'[v].op = h[v].op
            /\ h[v].d \in Devices /\ h'[v].row.serial = h[v].row.serial
            /\ dev[h[v].d] # Absent
            /\ dev'[h[v].d].life = Flush(dev[h[v].d].life, h[v].row.life, "revoked")
         \/ h'[v].row.serial = None
<1> USE DEF IInv
<1>1. h[v] \in Handler /\ PhaseOf(h[v])
  BY DEF TypeOK, PhaseOK
<1>2. CASE h'[v] = h[v]
  BY <1>2
<1>3. CASE Request(v)
  <2>1. ASSUME NEW d \in Devices, RevokeLoad(v, d)
        PROVE h'[v].d = d /\ h'[v].row = dev[d] /\ UNCHANGED dev
    BY <2>1 DEF RevokeLoad, Begin, Idle, TypeOK
  <2>2. ASSUME NEW d \in Devices, ResetLoad(v, d)
        PROVE h'[v].d = d /\ h'[v].row = dev[d] /\ UNCHANGED dev
    BY <2>2 DEF ResetLoad, Begin, Idle, TypeOK
  <2>3. ASSUME NEW d \in Devices, ChallengeLoad(v, d) PROVE FALSE
    BY <2>3 DEF ChallengeLoad, Begin, Idle, TypeOK
  <2>4. ASSUME NEW d \in Devices, NEW s \in SessionIds, NEW k \in Secrets \cup {None},
               EnrollLoadSession(v, d, s, k)
        PROVE FALSE
    BY <2>4 DEF EnrollLoadSession, Idle, TypeOK
  <2>5. ASSUME ProjectResetBegin(v) PROVE FALSE
    BY <2>5 DEF ProjectResetBegin, Idle, TypeOK
  <2>6. ASSUME PurgeLoad(v) PROVE FALSE
    BY <2>6 DEF PurgeLoad, Idle, TypeOK
  <2> QED
    BY <1>3, <2>1, <2>2, <2>3, <2>4, <2>5, <2>6 DEF Request
<1>4. CASE Finish(v)
  BY <1>4 DEF Finish, Idle, TypeOK
<1>5. CASE (Step(v) \/ Abort(v)) /\ ~ Finish(v)
  <2>1. CASE /\ RevokeCommit(v) /\ ~ Rollback(v)
             /\ h'[v] = [h[v] EXCEPT !.pc = "crlRead", !.row = [h[v].row EXCEPT !.life = "revoked"]]
    <3>1. /\ h[v].d \in Devices /\ h[v].row \in Device /\ dev[h[v].d] \in Device
          /\ dev[h[v].d] # Absent
          /\ dev' = [dev EXCEPT ![h[v].d].life = Flush(@, h[v].row.life, "revoked")]
      BY <1>1, <2>1 DEF RevokeCommit, PhaseOf, Handler, TypeOK
    <3>2. dev'[h[v].d].life = Flush(dev[h[v].d].life, h[v].row.life, "revoked")
      BY <3>1 DEF TypeOK, Device
    <3>3. h'[v].d = h[v].d /\ h'[v].op = h[v].op /\ h'[v].row.serial = h[v].row.serial
      BY <1>1, <2>1, <3>1 DEF Handler, Device
    <3> QED
      BY <3>1, <3>2, <3>3
  <2>2. CASE h'[v] = [h[v] EXCEPT !.pc = "crlRead",
                                  !.row = [h[v].row EXCEPT !.life = "pending", !.serial = None]]
             /\ Rekey(v)
    <3>1. h[v].row \in Device
      BY <1>1, <2>2 DEF Rekey, PhaseOf, Handler
    <3>2. h'[v].row = [h[v].row EXCEPT !.life = "pending", !.serial = None]
      BY <1>1, <2>2 DEF Handler
    <3>3. h'[v].row.serial = None
      BY <3>1, <3>2 DEF Device
    <3> QED
      BY <3>3
  <2>3. CASE EnrollLoadDevice(v) /\ h'[v] = [h[v] EXCEPT !.pc = "count", !.row = dev[h[v].d]]
    <3>1. h[v].op = "enroll"
      BY <1>1, <2>3 DEF EnrollLoadDevice, PhaseOf
    <3> QED
      BY <1>1, <2>3, <3>1 DEF Handler
  <2>4. CASE h'[v].d = h[v].d /\ h'[v].op = h[v].op /\ h'[v].row = h[v].row
    BY <2>4
  <2> QED
    BY <1>1, <1>5, <2>1, <2>2, <2>3, <2>4, StepRecord DEF Handler
<1>6. \/ UNCHANGED h
      \/ \E w \in Handlers : Request(w) \/ Step(w) \/ Abort(w)
  BY DEF Next, vars, Register, SetEnabled, Elapse
<1> QED
  BY <1>2, <1>3, <1>4, <1>5, <1>6, Others

LEMMA StaleRevokedNext ==
  ASSUME IInv, [Next]_vars
  PROVE  StaleRevokedOK'
<1> USE DEF IInv
<1>1. ASSUME NEW v \in Handlers, h'[v].op \in {"revoke", "reset"},
             h'[v].row.life = "revoked", h'[v].row.serial # None,
             dev'[h'[v].d] # Absent, dev'[h'[v].d].serial = h'[v].row.serial,
             dev'[h'[v].d].life = "provisioned"
      PROVE FALSE
  <2>1. CASE h'[v].d \in Devices /\ h'[v].row = dev[h'[v].d] /\ UNCHANGED dev
    BY <1>1, <2>1
  <2>2. CASE /\ h'[v].d = h[v].d /\ h'[v].op = h[v].op
             /\ h[v].d \in Devices /\ h[v].row # Absent
             /\ h'[v].row.serial = h[v].row.serial
             /\ dev'[h[v].d].life = dev[h[v].d].life => h[v].row.life = "revoked"
    <3> DEFINE d == h[v].d
    <3>1. CASE dev[d] # Absent /\ dev'[d].serial = dev[d].serial /\ dev'[d].life = dev[d].life
      BY <1>1, <2>2, <3>1 DEF StaleRevokedOK
    <3>2. ASSUME NEW w \in Handlers, Signed(w), dev'[d].serial = h[w].serial PROVE FALSE
      <4>1. IssuedTo(h[v].row.serial, {d})
        BY <1>1, <2>2 DEF SerialsOK, RecordOK
      <4>2. certs[h[w].serial] = Absent
        BY <3>2 DEF SignedOK
      <4> QED
        BY <1>1, <2>2, <3>2, <4>1, <4>2 DEF IssuedTo
    <3> QED
      BY <1>1, <2>2, <3>1, <3>2, ProvisionedSteps
  <2>3. CASE h'[v].d = h[v].d /\ h'[v].op = h[v].op /\ h'[v].row = h[v].row
    <3>1. h[v].d \in Devices /\ h[v].row # Absent
      BY <1>1, <2>3 DEF TypeOK, PhaseOK, PhaseOf, Handler
    <3> QED
      BY <1>1, <2>2, <2>3, <3>1
  <2>4. CASE /\ h'[v].d = h[v].d /\ h'[v].op = h[v].op
             /\ h[v].d \in Devices /\ h'[v].row.serial = h[v].row.serial
             /\ dev[h[v].d] # Absent
             /\ dev'[h[v].d].life = Flush(dev[h[v].d].life, h[v].row.life, "revoked")
    <3>1. h[v].row # Absent
      BY <1>1, <2>4 DEF PhaseOK, PhaseOf
    <3>2. h[v].row.life = "revoked"
      BY <1>1, <2>4 DEF Flush
    <3> QED
      BY <2>2, <2>4, <3>1, <3>2
  <2> QED
    BY <1>1, <2>1, <2>3, <2>4, RowSteps
<1>2. ASSUME NEW v \in Handlers, h'[v].op = "reset", h'[v].pc \in {"crlRead", "crlWrite", "rekey"},
             h'[v].row.serial # None
      PROVE h'[v].row.life = "revoked"
  <2>1. h[v] \in Handler /\ PhaseOf(h[v])
    BY DEF TypeOK, PhaseOK
  <2>2. CASE h'[v] = h[v]
    BY <1>2, <2>2 DEF StaleRevokedOK
  <2>3. CASE Request(v)
    <3>1. ASSUME NEW d \in Devices, ResetLoad(v, d) PROVE FALSE
      BY <1>2, <3>1 DEF ResetLoad, Begin, Idle, TypeOK
    <3>2. ASSUME NEW d \in Devices, RevokeLoad(v, d) PROVE FALSE
      BY <1>2, <3>2 DEF RevokeLoad, Begin, Idle, TypeOK
    <3>3. ASSUME NEW d \in Devices, ChallengeLoad(v, d) PROVE FALSE
      BY <1>2, <3>3 DEF ChallengeLoad, Begin, Idle, TypeOK
    <3>4. ASSUME NEW d \in Devices, NEW s \in SessionIds, NEW k \in Secrets \cup {None},
                 EnrollLoadSession(v, d, s, k)
          PROVE FALSE
      BY <1>2, <3>4 DEF EnrollLoadSession, Idle, TypeOK
    <3>5. ASSUME ProjectResetBegin(v) PROVE FALSE
      BY <1>2, <3>5 DEF ProjectResetBegin, Idle, TypeOK
    <3>6. ASSUME PurgeLoad(v) PROVE FALSE
      BY <1>2, <3>6 DEF PurgeLoad, Idle, TypeOK
    <3> QED
      BY <2>3, <3>1, <3>2, <3>3, <3>4, <3>5, <3>6 DEF Request
  <2>4. CASE Finish(v)
    BY <1>2, <2>4 DEF Finish, Idle, TypeOK
  <2>5. CASE (Step(v) \/ Abort(v)) /\ ~ Finish(v)
    <3>1. CASE /\ RevokeCommit(v)
               /\ h'[v] = [h[v] EXCEPT !.pc = "crlRead", !.row = [h[v].row EXCEPT !.life = "revoked"]]
      <4>1. h[v].row \in Device
        BY <2>1, <3>1 DEF RevokeCommit, PhaseOf, Handler
      <4>2. h'[v].row = [h[v].row EXCEPT !.life = "revoked"]
        BY <2>1, <3>1 DEF Handler
      <4> QED
        BY <4>1, <4>2 DEF Device
    <3>2. CASE /\ Rekey(v)
               /\ h'[v] = [h[v] EXCEPT !.pc = "crlRead",
                                       !.row = [h[v].row EXCEPT !.life = "pending", !.serial = None]]
      <4>1. h[v].row \in Device
        BY <2>1, <3>2 DEF Rekey, PhaseOf, Handler
      <4>2. h'[v].row = [h[v].row EXCEPT !.life = "pending", !.serial = None]
        BY <2>1, <3>2 DEF Handler
      <4> QED
        BY <1>2, <4>1, <4>2 DEF Device
    <3>3. CASE h'[v].row = h[v].row /\ h'[v].op = h[v].op /\ h[v].pc \in {"crlRead", "crlWrite"}
      BY <1>2, <3>3 DEF StaleRevokedOK
    <3>4. CASE h'[v].pc \notin {"crlRead", "crlWrite", "rekey"}
      BY <1>2, <3>4
    <3>5. CASE (EnrollCommit(v) \/ PurgeCommit(v)) /\ h'[v] = [h[v] EXCEPT !.pc = "crlRead"]
      <4>1. h[v].op # "reset"
        BY <2>1, <3>5 DEF EnrollCommit, PurgeCommit, PhaseOf
      <4> QED
        BY <1>2, <2>1, <3>5, <4>1 DEF Handler
    <3>6. CASE CrlRead(v) /\ h'[v] = [h[v] EXCEPT !.pc = "crlWrite", !.snap = tomb]
      <4>1. h[v].pc = "crlRead"
        BY <3>6 DEF CrlRead
      <4> QED
        BY <2>1, <3>3, <3>6, <4>1 DEF Handler
    <3>7. ASSUME CrlWrite(v), NEW pc \in {"rekey", "evict"}, h'[v] = [h[v] EXCEPT !.pc = pc]
          PROVE h'[v].row.life = "revoked"
      <4>1. h[v].pc = "crlWrite"
        BY <3>7 DEF CrlWrite
      <4> QED
        BY <2>1, <3>3, <3>7, <4>1 DEF Handler
    <3>8. CASE Lookup(v) /\ h'[v] = [h[v] EXCEPT !.pc = AfterLookup(h[v].op), !.marks = h[v].marks \ tomb,
                                                 !.evict = h'[v].evict]
      BY <2>1, <3>4, <3>8 DEF Handler, AfterLookup
    <3> QED
      BY <2>1, <2>5, <3>1, <3>2, <3>4, <3>5, <3>6, <3>7, <3>8, StepRecord DEF Handler
  <2>6. \/ UNCHANGED h
        \/ \E w \in Handlers : Request(w) \/ Step(w) \/ Abort(w)
    BY DEF Next, vars, Register, SetEnabled, Elapse
  <2> QED
    BY <2>2, <2>3, <2>4, <2>5, <2>6, Others
<1> QED
  BY <1>1, <1>2 DEF StaleRevokedOK

LEMMA IInvNext == IInv /\ [Next]_vars => IInv'
<1> SUFFICES ASSUME IInv, [Next]_vars PROVE IInv'
  OBVIOUS
<1>1. TypeOK' /\ PhaseOK'
  BY TypeNext, PhaseNext DEF IInv
<1>2. SerialsOK' /\ SignedOK' /\ CrlOK' /\ ProvisionedOK' /\ StaleRevokedOK'
  BY SerialsNext, SignedNext, CrlNext, ProvisionedNext, StaleRevokedNext
<1> QED
  BY <1>1, <1>2 DEF IInv

\* A device the registry calls provisioned holds a certificate that is neither
\* tombstoned nor in the CRL, for any number of devices, handlers and requests
\* and with failures at any step.
THEOREM ProvisionedAlwaysValid == Spec => []ProvisionedIsValid
<1>1. IInv => ProvisionedIsValid
  BY DEF IInv, ProvisionedOK, CrlOK, ProvisionedIsValid
<1> QED
  BY <1>1, InitIInv, IInvNext, PTL DEF Spec

-----------------------------------------------------------------------------
(* Challenges.                                                             *)

Open(s) == sess[s] # Absent /\ ~ sess[s].consumed
OpenNext(s) == sess'[s] # Absent /\ ~ sess'[s].consumed

\* Only the commit of a challenge opens a session, and it closes the others of
\* its device.
LEMMA OpenSteps ==
  ASSUME TypeOK, PhaseOK, [Next]_vars
  PROVE  \/ \A s \in SessionIds : OpenNext(s) => Open(s) /\ sess'[s].dev = sess[s].dev
         \/ \E w \in Handlers :
              /\ h[w].pc = "supersede"
              /\ \A s \in SessionIds : OpenNext(s) /\ s # h[w].sid =>
                   Open(s) /\ sess[s].dev # h[w].d /\ sess'[s].dev = sess[s].dev
                   /\ sess'[h[w].sid].dev = h[w].d
<1> DEFINE Closing == \A s \in SessionIds : OpenNext(s) => Open(s) /\ sess'[s].dev = sess[s].dev
<1> USE DEF Open, OpenNext
<1>1. CASE UNCHANGED sess
  BY <1>1
<1>2. ASSUME NEW t \in SessionIds, NEW result \in Results, sess[t] # Absent, Consume(t, result)
      PROVE Closing
  <2>1. sess[t] \in BootstrapSession
    BY <1>2 DEF TypeOK
  <2>2. sess'[t] = [sess[t] EXCEPT !.consumed = TRUE, !.result = result]
    BY <1>2, <2>1 DEF Consume, TypeOK, BootstrapSession
  <2>3. sess'[t].consumed
    BY <2>1, <2>2 DEF BootstrapSession
  <2>4. \A s \in SessionIds : s # t => sess'[s] = sess[s]
    BY <1>2 DEF Consume, TypeOK
  <2> QED
    BY <2>3, <2>4
<1>3. ASSUME NEW w \in Handlers, EnrollCount(w) PROVE Closing
  <2>1. h[w].sid \in SessionIds /\ h[w].srow \in BootstrapSession
    BY <1>3 DEF EnrollCount, TypeOK, PhaseOK, PhaseOf, Handler
  <2>2. CASE sess[h[w].sid] # Absent /\ sess' = [sess EXCEPT ![h[w].sid] = Counted(h[w].sid, h[w].srow)]
    <3>1. sess[h[w].sid] \in BootstrapSession
      BY <2>1, <2>2 DEF TypeOK
    <3>2. sess'[h[w].sid] = [sess[h[w].sid] EXCEPT !.attempts = h[w].srow.attempts + 1]
      BY <2>1, <2>2 DEF TypeOK, Counted
    <3>3. sess'[h[w].sid].consumed = sess[h[w].sid].consumed /\ sess'[h[w].sid].dev = sess[h[w].sid].dev
      BY <3>1, <3>2 DEF BootstrapSession
    <3>4. \A s \in SessionIds : s # h[w].sid => sess'[s] = sess[s]
      BY <2>1, <2>2 DEF TypeOK
    <3> QED
      BY <2>2, <3>3, <3>4
  <2> QED
    BY <1>1, <1>2, <1>3, <2>1, <2>2 DEF EnrollCount, Rollback, rows, Results
<1>4. ASSUME NEW w \in Handlers, EnrollReject(w) \/ EnrollAlreadyProvisioned(w) \/ EnrollCommit(w) PROVE Closing
  <2>1. h[w].sid \in SessionIds
    BY <1>4 DEF EnrollReject, EnrollAlreadyProvisioned, EnrollCommit, MayIssue, TypeOK, PhaseOK, PhaseOf, Handler
  <2> QED
    BY <1>1, <1>2, <1>4, <2>1 DEF EnrollReject, EnrollAlreadyProvisioned, EnrollCommit, Rollback, rows, Results
<1>5. ASSUME NEW w \in Handlers, EnrollCaFailure(w) PROVE Closing
  <2>1. h[w].sid \in SessionIds
    BY <1>5 DEF EnrollCaFailure, MayIssue, TypeOK, PhaseOK, PhaseOf, Handler
  <2>2. CASE sess[h[w].sid] # Absent
    <3> DEFINE result == Flush(sess[h[w].sid].result, h[w].srow.result, "server-error")
    <3>1. sess[h[w].sid] \in BootstrapSession
      BY <2>1, <2>2 DEF TypeOK
    <3>2. sess'[h[w].sid] = [sess[h[w].sid] EXCEPT !.result = result]
      BY <1>5, <2>1, <2>2 DEF EnrollCaFailure, TypeOK
    <3>3. sess'[h[w].sid].consumed = sess[h[w].sid].consumed /\ sess'[h[w].sid].dev = sess[h[w].sid].dev
      BY <3>1, <3>2 DEF BootstrapSession
    <3>4. \A s \in SessionIds : s # h[w].sid => sess'[s] = sess[s]
      BY <1>5, <2>1, <2>2 DEF EnrollCaFailure, TypeOK
    <3> QED
      BY <2>2, <3>3, <3>4
  <2> QED
    BY <1>1, <1>5, <2>2 DEF EnrollCaFailure
<1>6. ASSUME NEW w \in Handlers, PurgeCommit(w) PROVE Closing
  BY <1>1, <1>6 DEF PurgeCommit, Rollback, rows
<1>7. ASSUME NEW w \in Handlers, ChallengeCommit(w), ~ UNCHANGED sess
      PROVE \A s \in SessionIds : OpenNext(s) /\ s # h[w].sid =>
              Open(s) /\ sess[s].dev # h[w].d /\ sess'[s].dev = sess[s].dev
              /\ sess'[h[w].sid].dev = h[w].d
  <2>1. h[w].sid \in SessionIds
    BY <1>7 DEF ChallengeCommit, TypeOK, PhaseOK, PhaseOf, Handler
  <2>2. sess' = [s \in SessionIds |->
                   IF s = h[w].sid THEN [dev |-> h[w].d, consumed |-> FALSE, result |-> "none", attempts |-> 0]
                   ELSE IF s \in Superseded(h[w].d)
                        THEN [sess[s] EXCEPT !.consumed = TRUE, !.result = "superseded"]
                        ELSE sess[s]]
    BY <1>7 DEF ChallengeCommit, Rollback, rows
  <2>3. sess'[h[w].sid].dev = h[w].d
    BY <2>1, <2>2
  <2>4. ASSUME NEW s \in SessionIds, s # h[w].sid, s \in Superseded(h[w].d) PROVE ~ OpenNext(s)
    <3>1. sess[s] \in BootstrapSession
      BY <2>4 DEF Superseded, TypeOK
    <3>2. sess'[s] = [sess[s] EXCEPT !.consumed = TRUE, !.result = "superseded"]
      BY <2>2, <2>4
    <3> QED
      BY <3>1, <3>2 DEF BootstrapSession
  <2>5. ASSUME NEW s \in SessionIds, s # h[w].sid, s \notin Superseded(h[w].d) PROVE sess'[s] = sess[s]
    BY <2>2, <2>5
  <2> QED
    BY <2>3, <2>4, <2>5 DEF Superseded
<1>8. ASSUME NEW w \in Handlers, Request(w) PROVE UNCHANGED sess
  BY <1>8 DEF Request, ChallengeLoad, RevokeLoad, ResetLoad, EnrollLoadSession, ProjectResetBegin, PurgeLoad
<1>9. ASSUME NEW w \in Handlers,
             EnrollLoadDevice(w) \/ EnrollSign(w) \/ Lookup(w) \/ RevokeCommit(w) \/ Rekey(w)
             \/ ProjectResetLoad(w) \/ CrlRead(w) \/ CrlWrite(w) \/ Evict(w) \/ Abort(w)
      PROVE UNCHANGED sess
  BY <1>9 DEF EnrollLoadDevice, EnrollSign, Lookup, RevokeCommit, Rekey, ProjectResetLoad,
              CrlRead, CrlWrite, Evict, Abort, Rollback, rows
<1>10. ASSUME NEW w \in Handlers, Step(w) \/ Abort(w), ~ UNCHANGED sess, ~ Closing PROVE ChallengeCommit(w)
  BY <1>3, <1>4, <1>5, <1>6, <1>9, <1>10 DEF Step
<1>11. CASE ~ UNCHANGED sess /\ ~ Closing
  BY <1>7, <1>8, <1>10, <1>11 DEF Next, vars, Register, SetEnabled, Elapse, ChallengeCommit
<1> QED
  BY <1>1, <1>11

\* At most one challenge of a device is open, however many are requested and
\* answered at the same time.
THEOREM OneOpenChallengeAlways == Spec => []OneOpenChallenge
<1>1. Init => OneOpenChallenge
  BY DEF Init, OneOpenChallenge
<1>2. TypeOK /\ PhaseOK /\ OneOpenChallenge /\ [Next]_vars => OneOpenChallenge'
  <2> SUFFICES ASSUME TypeOK, PhaseOK, OneOpenChallenge, [Next]_vars,
                      NEW s \in SessionIds, NEW t \in SessionIds,
                      OpenNext(s), OpenNext(t), sess'[s].dev = sess'[t].dev
               PROVE  s = t
    BY DEF OneOpenChallenge, OpenNext
  <2>1. Open(s) /\ Open(t) /\ sess[s].dev = sess[t].dev => s = t
    BY DEF OneOpenChallenge, Open
  <2> QED
    BY <2>1, OpenSteps
<1>3. Init => TypeOK /\ PhaseOK
  BY InitIInv DEF IInv
<1>4. TypeOK /\ PhaseOK /\ [Next]_vars => TypeOK' /\ PhaseOK'
  BY TypeNext, PhaseNext
<1> QED
  BY <1>1, <1>2, <1>3, <1>4, PTL DEF Spec

\* A challenge that waits for its commit has a session id of its own, under
\* which there is no row yet.
NewSessionsOK ==
  /\ \A s \in SessionIds : s > used.sessions => sess[s] = Absent
  /\ \A w \in Handlers : h[w].pc = "supersede" =>
       /\ h[w].sid <= used.sessions
       /\ sess[h[w].sid] = Absent
       /\ \A v \in Handlers : h[v].pc = "supersede" /\ v # w => h[v].sid # h[w].sid

\* A row is inserted by the commit of a challenge only.
LEMMA InsertSteps ==
  ASSUME TypeOK, [Next]_vars, NEW s \in SessionIds, sess[s] = Absent, sess'[s] # Absent
  PROVE  \E w \in Handlers : h[w].pc = "supersede" /\ Finish(w) /\ h[w].sid = s
<1>1. ASSUME NEW w \in Handlers, Request(w) PROVE UNCHANGED sess
  BY <1>1 DEF Request, ChallengeLoad, RevokeLoad, ResetLoad, EnrollLoadSession, ProjectResetBegin, PurgeLoad
<1>2. ASSUME NEW w \in Handlers, ChallengeCommit(w), ~ Rollback(w)
      PROVE h[w].pc = "supersede" /\ Finish(w) /\ h[w].sid = s
  BY <1>2 DEF ChallengeCommit, Superseded
<1>3. ASSUME NEW w \in Handlers, Step(w) \/ Abort(w), ~ ChallengeCommit(w) PROVE sess'[s] = sess[s]
  <2>1. ASSUME NEW t, NEW r, sess[t] # Absent, sess' = [sess EXCEPT ![t] = r]
        PROVE sess'[s] = sess[s]
    BY <2>1 DEF TypeOK
  <2> QED
    BY <1>3, <2>1 DEF Step, EnrollLoadDevice, EnrollCount, EnrollReject,
         EnrollAlreadyProvisioned, EnrollCaFailure, EnrollSign, EnrollCommit, Lookup,
         RevokeCommit, Rekey, ProjectResetLoad, PurgeCommit, CrlRead, CrlWrite, Evict, Abort,
         Rollback, rows, Consume
<1> QED
  BY <1>1, <1>2, <1>3 DEF Next, vars, Register, SetEnabled, Elapse, Rollback, rows

LEMMA UsedSessionsGrow ==
  ASSUME TypeOK, [Next]_vars
  PROVE  used.sessions <= used'.sessions
<1>1. used.sessions \in Nat
  BY ConstantsAssumption DEF TypeOK
<1>2. ASSUME NEW w \in Handlers, Request(w)
        PROVE used' = used \/ used' = [used EXCEPT !.sessions = @ + 1] \/ used' = [used EXCEPT !.secrets = @ + 1]
    BY <1>2 DEF Request, ChallengeLoad, RevokeLoad, ResetLoad, EnrollLoadSession, ProjectResetBegin, PurgeLoad
<1>3. ASSUME NEW w \in Handlers, Step(w) \/ Abort(w)
        PROVE used' = used \/ used' = [used EXCEPT !.serials = @ + 1]
    BY <1>3 DEF Step, ChallengeCommit, EnrollLoadDevice, EnrollCount, EnrollReject,
         EnrollAlreadyProvisioned, EnrollCaFailure, EnrollSign, EnrollCommit, Lookup,
         RevokeCommit, Rekey, ProjectResetLoad, PurgeCommit, CrlRead, CrlWrite, Evict, Abort
<1> QED
  BY <1>1, <1>2, <1>3 DEF TypeOK, Next, vars, Register, SetEnabled, Elapse

\* A challenge that waits for its commit waited before, or has just drawn its id.
LEMMA SupersedeSteps ==
  ASSUME TypeOK, PhaseOK, [Next]_vars, NEW v \in Handlers, h'[v].pc = "supersede"
  PROVE  \/ h'[v] = h[v] /\ used.sessions <= used'.sessions
         \/ /\ used'.sessions = used.sessions + 1 /\ h'[v].sid = used.sessions + 1
            /\ UNCHANGED sess /\ \A x \in Handlers : x # v => h'[x] = h[x]
<1>1. used.sessions \in Nat
  BY ConstantsAssumption DEF TypeOK
<1>2. used.sessions <= used'.sessions
  BY UsedSessionsGrow
<1>3. CASE Request(v)
  <2>1. ASSUME NEW d \in Devices, ChallengeLoad(v, d)
        PROVE /\ used'.sessions = used.sessions + 1 /\ h'[v].sid = used.sessions + 1
              /\ UNCHANGED sess
    BY <2>1 DEF ChallengeLoad, TypeOK, Begin, Idle
  <2>2. ASSUME NEW d \in Devices, RevokeLoad(v, d) PROVE FALSE
    BY <2>2 DEF RevokeLoad, Begin, Idle, TypeOK
  <2>3. ASSUME NEW d \in Devices, NEW s \in SessionIds, NEW k \in Secrets \cup {None},
               EnrollLoadSession(v, d, s, k)
        PROVE FALSE
    BY <2>3 DEF EnrollLoadSession, Idle, TypeOK
  <2>4. ~ ProjectResetBegin(v)
    BY DEF ProjectResetBegin, Idle, TypeOK
  <2>5. ~ PurgeLoad(v)
    <3>1. PurgeLoad(v) => h'[v].pc \in {"crlRead", "lookup"}
      BY DEF PurgeLoad, Idle, TypeOK
    <3> QED
      BY <3>1
  <2>6. ASSUME NEW d \in Devices, ResetLoad(v, d) PROVE FALSE
    <3>1. h'[v].pc = IF dev[d].serial # None THEN "lookup" ELSE "rekey"
      BY <2>6 DEF ResetLoad, Begin, Idle, TypeOK
    <3> QED
      BY <3>1
  <2> QED
    BY <1>3, <2>1, <2>2, <2>3, <2>4, <2>5, <2>6, Others DEF Request
<1>4. CASE Step(v) \/ Abort(v)
  <2>1. h[v] \in Handler
    BY DEF TypeOK
  <2>2. ~ Finish(v)
    BY DEF Finish, Idle, TypeOK
  <2>3. h'[v].pc \in {"count", "decide", "lookup", "crlRead", "crlWrite", "rekey", "evict",
                      "issue", "revoke", "purge"}
    <3>1. AfterLookup(h[v].op) \in {"issue", "revoke", "purge"}
      BY DEF AfterLookup
    <3> QED
      BY <1>4, <2>1, <2>2, <3>1, StepRecord DEF Handler
  <2> QED
    BY <2>3
<1>5. CASE h'[v] = h[v]
  BY <1>2, <1>5
<1>6. \/ UNCHANGED h
      \/ \E w \in Handlers : Request(w) \/ Step(w) \/ Abort(w)
  BY DEF Next, vars, Register, SetEnabled, Elapse
<1> QED
  BY <1>3, <1>4, <1>5, <1>6, Others

LEMMA NewSessionsNext ==
  ASSUME TypeOK, TypeOK', PhaseOK, NewSessionsOK, [Next]_vars
  PROVE  NewSessionsOK'
<1>0. used.sessions \in Nat /\ used'.sessions \in Nat /\ (\A s \in SessionIds : s \in Nat)
      /\ \A v \in Handlers : h[v].sid \in Nat /\ h'[v].sid \in Nat
  <2>1. used.sessions \in Nat /\ used'.sessions \in Nat /\ (\A s \in SessionIds : s \in Nat)
    BY ConstantsAssumption DEF TypeOK, SessionIds
  <2>2. ASSUME NEW v \in Handlers PROVE h[v].sid \in Nat /\ h'[v].sid \in Nat
    <3>1. h[v] \in Handler /\ h'[v] \in Handler
      BY DEF TypeOK
    <3>2. h[v].sid \in SessionIds \cup {None} /\ h'[v].sid \in SessionIds \cup {None}
      BY <3>1 DEF Handler
    <3> QED
      BY <2>1, <3>2 DEF None
  <2> QED
    BY <2>1, <2>2
<1>1. used.sessions <= used'.sessions
  BY UsedSessionsGrow
<1>2. ASSUME NEW s \in SessionIds, s > used'.sessions PROVE sess'[s] = Absent
  <2>1. sess[s] = Absent /\ s > used.sessions
    BY <1>0, <1>1, <1>2 DEF NewSessionsOK
  <2>2. \A w \in Handlers : h[w].pc = "supersede" => h[w].sid # s
    BY <1>0, <2>1 DEF NewSessionsOK
  <2> QED
    BY <2>1, <2>2, InsertSteps
<1>3. ASSUME NEW w \in Handlers, h'[w].pc = "supersede"
      PROVE /\ h'[w].sid <= used'.sessions /\ sess'[h'[w].sid] = Absent
            /\ \A v \in Handlers : h'[v].pc = "supersede" /\ v # w => h'[v].sid # h'[w].sid
  <2>0. h'[w].sid \in SessionIds
    BY <1>3, PhaseNext DEF TypeOK, PhaseOK, PhaseOf, Handler
  <2>1. CASE h'[w] = h[w]
    <3>1. h[w].sid <= used.sessions /\ sess[h[w].sid] = Absent
      BY <1>3, <2>1 DEF NewSessionsOK
    <3>2. \A x \in Handlers : h[x].pc = "supersede" /\ Finish(x) => h[x].sid # h[w].sid
      <4> SUFFICES ASSUME NEW x \in Handlers, h[x].pc = "supersede", Finish(x)
                   PROVE  h[x].sid # h[w].sid
        OBVIOUS
      <4>1. x # w
        BY <1>3 DEF Finish, Idle, TypeOK
      <4> QED
        BY <1>3, <2>1, <4>1 DEF NewSessionsOK
    <3>3. sess'[h[w].sid] = Absent
      BY <2>0, <2>1, <3>1, <3>2, InsertSteps
    <3>4. ASSUME NEW v \in Handlers, h'[v].pc = "supersede", v # w PROVE h'[v].sid # h'[w].sid
      BY <1>0, <1>3, <2>1, <3>1, <3>4, SupersedeSteps DEF NewSessionsOK
    <3> QED
      BY <1>0, <1>1, <2>1, <3>1, <3>3, <3>4
  <2>2. CASE /\ used'.sessions = used.sessions + 1 /\ h'[w].sid = used.sessions + 1
             /\ UNCHANGED sess /\ \A x \in Handlers : x # w => h'[x] = h[x]
    BY <1>0, <2>0, <2>2 DEF NewSessionsOK
  <2> QED
    BY <1>3, <2>1, <2>2, SupersedeSteps
<1> QED
  BY <1>2, <1>3 DEF NewSessionsOK

\* A consumed challenge stays so: no commit writes a stale consumed_at back, and
\* a new challenge never takes the row of an older one (enroll_device).
THEOREM ConsumedFinal == Spec => ConsumedIsFinal
<1>1. Init => TypeOK /\ PhaseOK /\ NewSessionsOK
  BY InitIInv DEF IInv, Init, NewSessionsOK, Idle
<1>2. TypeOK /\ PhaseOK /\ NewSessionsOK /\ [Next]_vars => TypeOK' /\ PhaseOK' /\ NewSessionsOK'
  BY TypeNext, PhaseNext, NewSessionsNext
<1>3. TypeOK /\ PhaseOK /\ NewSessionsOK /\ [Next]_vars
      => [\A s \in SessionIds : sess[s] # Absent /\ sess[s].consumed /\ sess'[s] # Absent
            => sess'[s].consumed]_vars
  <2> SUFFICES ASSUME TypeOK, PhaseOK, NewSessionsOK, [Next]_vars, NEW s \in SessionIds,
                      sess[s] # Absent, sess[s].consumed, OpenNext(s)
               PROVE  FALSE
    BY DEF OpenNext
  <2>1. ~ Open(s)
    BY DEF Open
  <2>2. \A w \in Handlers : h[w].pc = "supersede" => h[w].sid # s
    BY DEF NewSessionsOK
  <2> QED
    BY <2>1, <2>2, OpenSteps
<1> QED
  BY <1>1, <1>2, <1>3, PTL DEF Spec, ConsumedIsFinal

-----------------------------------------------------------------------------
(* Requests that do not overlap.                                           *)

\* Then the row a handler has loaded has the serial of the table, what it is
\* about to tombstone covers the serials it is about to overwrite or delete, and
\* a reset comes to its new secret when the old certificate is tombstoned.
LoadedOf(r) ==
  /\ \/ r.op = "enroll" /\ r.pc \in {"count", "decide", "lookup", "issue"}
     \/ r.op \in {"revoke", "reset"} /\ r.pc # "idle"
     => dev[r.d] # Absent /\ dev[r.d].serial = r.row.serial
  /\ r.op \in {"enroll", "revoke", "reset"} /\ r.pc \in {"lookup", "issue", "revoke"}
     => SerialOf(r.row) \subseteq r.marks \cup tomb
  /\ r.op = "reset" /\ r.pc \in {"crlRead", "crlWrite", "rekey"} => SerialOf(r.row) \subseteq tomb
  /\ r.op \in {"project-reset", "purge-simulated"} /\ r.pc \in {"lookup", "purge"}
     => \A d \in r.ids : dev[d] # Absent => SerialOf(dev[d]) \subseteq r.marks \cup tomb

LoadedOK == \A w \in Handlers : LoadedOf(h[w])

\* The CRL file is complete unless the request at work has still to write it,
\* and then its snapshot is.
RebuildOK ==
  /\ (\A w \in Handlers : h[w].pc \notin {"crlRead", "crlWrite"}) => crl = tomb
  /\ \A w \in Handlers : h[w].pc = "crlWrite" => h[w].snap = tomb

SerialInv ==
  /\ IInv
  /\ regime \in {"racing", "faulty", "calm"}
  /\ regime # "racing" => OneAtATime /\ LoadedOK /\ EveryCertificateAccountedFor
  /\ regime = "calm" => RebuildOK

\* While a handler acts, every other is idle and stays so.
LEMMA QuietElsewhere ==
  ASSUME TypeOK, OneAtATime, OneAtATime', NEW w \in Handlers, Request(w) \/ Step(w) \/ Abort(w),
         NEW v \in Handlers, v # w
  PROVE  h[v].pc = "idle" /\ h'[v] = h[v]
<1>1. h'[v] = h[v]
  BY Others
<1>2. CASE Step(w) \/ Abort(w)
  <2>1. h[w].pc # "idle"
    BY <1>2 DEF Step, ChallengeCommit, EnrollLoadDevice, EnrollCount, EnrollReject, MayIssue,
         EnrollAlreadyProvisioned, EnrollCaFailure, EnrollSign, EnrollCommit, Lookup,
         RevokeCommit, Rekey, ProjectResetLoad, PurgeCommit, CrlRead, CrlWrite, Evict, Abort
  <2> QED
    BY <1>1, <2>1 DEF OneAtATime
<1>3. CASE Request(w)
  <2> USE DEF TypeOK, Begin, Idle
  <2>1. ASSUME NEW d \in Devices, ChallengeLoad(w, d) PROVE h'[w].pc # "idle"
    BY <2>1 DEF ChallengeLoad
  <2>2. ASSUME NEW d \in Devices, RevokeLoad(w, d) PROVE h'[w].pc # "idle"
    BY <2>2 DEF RevokeLoad
  <2>3. ASSUME NEW d \in Devices, ResetLoad(w, d) PROVE h'[w].pc # "idle"
    <3>1. h'[w].pc = IF dev[d].serial # None THEN "lookup" ELSE "rekey"
      BY <2>3 DEF ResetLoad
    <3> QED
      BY <3>1
  <2>4. ASSUME NEW d \in Devices, NEW s \in SessionIds, NEW k \in Secrets \cup {None},
               EnrollLoadSession(w, d, s, k)
        PROVE h'[w].pc # "idle"
    BY <2>4 DEF EnrollLoadSession
  <2>5. ASSUME ProjectResetBegin(w) PROVE h'[w].pc # "idle"
    BY <2>5 DEF ProjectResetBegin
  <2>6. ASSUME PurgeLoad(w) PROVE h'[w].pc # "idle"
    <3>1. h'[w].pc \in {"crlRead", "lookup"}
      BY <2>6 DEF PurgeLoad
    <3> QED
      BY <3>1
  <2>7. h'[w].pc # "idle"
    BY <1>3, <2>1, <2>2, <2>3, <2>4, <2>5, <2>6 DEF Request
  <2> QED
    BY <1>1, <2>7 DEF OneAtATime
<1> QED
  BY <1>2, <1>3

\* Without a handler's step, serials stay and new rows have none.
LEMMA RegistrySteps ==
  ASSUME TypeOK, NEW c \in Devices,
         UNCHANGED vars \/ (\E d \in Devices : Register(d) \/ SetEnabled(d)) \/ (\E s \in SessionIds : Elapse(s))
  PROVE  /\ UNCHANGED <<h, tomb, crl, certs>>
         /\ dev[c] # Absent => dev'[c] # Absent /\ dev'[c].serial = dev[c].serial
         /\ dev[c] = Absent /\ dev'[c] # Absent => dev'[c].serial = None
<1>1. CASE UNCHANGED vars \/ \E s \in SessionIds : Elapse(s)
  BY <1>1 DEF vars, Elapse
<1>2. ASSUME NEW d \in Devices, Register(d)
      PROVE /\ UNCHANGED <<h, tomb, crl, certs>> /\ dev[d] = Absent
            /\ dev'[d].serial = None /\ (c # d => dev'[c] = dev[c])
  <2>1. PICK b \in BOOLEAN :
          dev' = [dev EXCEPT ![d] = [enabled |-> TRUE, life |-> "pending", reprov |-> b,
                                     serial |-> None, secret |-> used.secrets + 1]]
    BY <1>2 DEF Register
  <2> QED
    BY <1>2, <2>1 DEF Register, TypeOK
<1>3. ASSUME NEW d \in Devices, SetEnabled(d)
      PROVE /\ UNCHANGED <<h, tomb, crl, certs>> /\ dev[d] # Absent /\ dev'[d] # Absent
            /\ dev'[d].serial = dev[d].serial /\ (c # d => dev'[c] = dev[c])
  <2>1. dev[d] \in Device /\ dev'[d] = [dev[d] EXCEPT !.enabled = ~ @]
    BY <1>3 DEF SetEnabled, TypeOK
  <2>2. dev'[d] \in Device /\ dev'[d].serial = dev[d].serial
    BY <2>1 DEF Device
  <2> QED
    BY <1>3, <2>2, RowsAssumption DEF SetEnabled, TypeOK
<1> QED
  BY <1>1, <1>2, <1>3

\* LoadedOf for the tables after the step.
LoadedOfNext(r) ==
  /\ \/ r.op = "enroll" /\ r.pc \in {"count", "decide", "lookup", "issue"}
     \/ r.op \in {"revoke", "reset"} /\ r.pc # "idle"
     => dev'[r.d] # Absent /\ dev'[r.d].serial = r.row.serial
  /\ r.op \in {"enroll", "revoke", "reset"} /\ r.pc \in {"lookup", "issue", "revoke"}
     => SerialOf(r.row) \subseteq r.marks \cup tomb'
  /\ r.op = "reset" /\ r.pc \in {"crlRead", "crlWrite", "rekey"} => SerialOf(r.row) \subseteq tomb'
  /\ r.op \in {"project-reset", "purge-simulated"} /\ r.pc \in {"lookup", "purge"}
     => \A d \in r.ids : dev'[d] # Absent => SerialOf(dev'[d]) \subseteq r.marks \cup tomb'

LEMMA LoadedRequest ==
  ASSUME TypeOK, NEW w \in Handlers, Request(w)
  PROVE  LoadedOfNext(h'[w])
<1> USE DEF TypeOK, Begin, Idle, LoadedOfNext
<1>1. ASSUME NEW d \in Devices, ChallengeLoad(w, d) PROVE LoadedOfNext(h'[w])
  BY <1>1 DEF ChallengeLoad
<1>2. ASSUME NEW d \in Devices, RevokeLoad(w, d) PROVE LoadedOfNext(h'[w])
  BY <1>2 DEF RevokeLoad
<1>3. ASSUME NEW d \in Devices, ResetLoad(w, d) PROVE LoadedOfNext(h'[w])
  <2>1. /\ h'[w].op = "reset" /\ h'[w].d = d /\ h'[w].row = dev[d]
        /\ h'[w].marks = SerialOf(dev[d])
        /\ h'[w].pc = IF dev[d].serial # None THEN "lookup" ELSE "rekey"
        /\ UNCHANGED <<dev, tomb>> /\ dev[d] # Absent
    BY <1>3 DEF ResetLoad
  <2> QED
    BY <2>1 DEF SerialOf
<1>4. ASSUME NEW d \in Devices, NEW s \in SessionIds, NEW k \in Secrets \cup {None},
             EnrollLoadSession(w, d, s, k)
      PROVE LoadedOfNext(h'[w])
  BY <1>4 DEF EnrollLoadSession
<1>5. CASE ProjectResetBegin(w)
  BY <1>5 DEF ProjectResetBegin
<1>6. CASE PurgeLoad(w)
  <2>1. /\ h'[w].op = "purge-simulated" /\ h'[w].ids = Registered \cap Simulated
        /\ h'[w].marks = UNION {SerialOf(dev[d]) : d \in Registered \cap Simulated}
        /\ UNCHANGED <<dev, tomb>>
    BY <1>6 DEF PurgeLoad
  <2> QED
    BY <2>1
<1> QED
  BY <1>1, <1>2, <1>3, <1>4, <1>5, <1>6 DEF Request

LEMMA LoadedStep ==
  ASSUME TypeOK, PhaseOK, NEW w \in Handlers, LoadedOf(h[w]), Step(w) \/ Abort(w)
  PROVE  LoadedOfNext(h'[w])
<1>1. h[w] \in Handler /\ PhaseOf(h[w])
  BY DEF TypeOK, PhaseOK
<1>2. CASE Finish(w)
  <2>1. h'[w] = Idle
    BY <1>2 DEF Finish, TypeOK
  <2> QED
    BY <2>1 DEF Idle, LoadedOfNext
<1>3. ASSUME EnrollLoadDevice(w), dev[h[w].d] # Absent,
             h'[w] = [h[w] EXCEPT !.pc = "count", !.row = dev[h[w].d]]
      PROVE LoadedOfNext(h'[w])
  <2>1. h[w].op = "enroll" /\ UNCHANGED dev
    BY <1>1, <1>3 DEF EnrollLoadDevice, PhaseOf
  <2>2. h'[w].op = "enroll" /\ h'[w].pc = "count" /\ h'[w].row = dev[h[w].d] /\ h'[w].d = h[w].d
    BY <1>1, <1>3, <2>1 DEF Handler
  <2> QED
    BY <1>3, <2>1, <2>2 DEF LoadedOfNext
<1>4. ASSUME EnrollCount(w), ~ Finish(w),
             h'[w] = [h[w] EXCEPT !.pc = "decide", !.srow = h'[w].srow]
      PROVE LoadedOfNext(h'[w])
  <2>1. h[w].op = "enroll" /\ h[w].pc = "count" /\ UNCHANGED dev
    BY <1>1, <1>4 DEF EnrollCount, PhaseOf, Rollback, rows
  <2>2. h'[w].op = "enroll" /\ h'[w].pc = "decide" /\ h'[w].row = h[w].row /\ h'[w].d = h[w].d
    BY <1>1, <1>4, <2>1 DEF Handler
  <2> QED
    BY <2>1, <2>2 DEF LoadedOf, LoadedOfNext
<1>5. ASSUME EnrollSign(w),
             h'[w] = [h[w] EXCEPT !.pc = "lookup", !.serial = used.serials + 1,
                                  !.marks = SerialOf(h[w].row)]
      PROVE LoadedOfNext(h'[w])
  <2>1. h[w].op = "enroll" /\ h[w].pc = "decide" /\ UNCHANGED <<dev, tomb>>
    BY <1>1, <1>5 DEF EnrollSign, MayIssue, PhaseOf
  <2>2. /\ h'[w].op = "enroll" /\ h'[w].pc = "lookup" /\ h'[w].row = h[w].row
        /\ h'[w].d = h[w].d /\ h'[w].marks = SerialOf(h[w].row)
    BY <1>1, <1>5, <2>1 DEF Handler
  <2> QED
    BY <2>1, <2>2 DEF LoadedOf, LoadedOfNext
<1>6. ASSUME Lookup(w),
             h'[w] = [h[w] EXCEPT !.pc = AfterLookup(h[w].op), !.marks = h[w].marks \ tomb,
                                  !.evict = h'[w].evict]
      PROVE LoadedOfNext(h'[w])
  <2>1. h[w].pc = "lookup" /\ UNCHANGED <<dev, tomb>>
    BY <1>6 DEF Lookup
  <2>2. /\ h'[w].op = h[w].op /\ h'[w].row = h[w].row /\ h'[w].d = h[w].d
        /\ h'[w].ids = h[w].ids /\ h'[w].marks = h[w].marks \ tomb
        /\ h'[w].pc = AfterLookup(h[w].op)
    BY <1>1, <1>6 DEF Handler
  <2>3. h'[w].pc \in {"issue", "revoke", "purge"} /\ (h'[w].pc = "issue" <=> h[w].op = "enroll")
    BY <2>2 DEF AfterLookup
  <2>4. h'[w].marks \cup tomb' = h[w].marks \cup tomb
    BY <2>1, <2>2
  <2> QED
    BY <2>1, <2>2, <2>3, <2>4 DEF LoadedOf, LoadedOfNext
<1>7. ASSUME RevokeCommit(w), ~ Rollback(w),
             h'[w] = [h[w] EXCEPT !.pc = "crlRead", !.row = [h[w].row EXCEPT !.life = "revoked"]]
      PROVE LoadedOfNext(h'[w])
  <2>1. /\ h[w].pc = "revoke" /\ h[w].op \in {"revoke", "reset"} /\ tomb' = Tombstoned(w)
        /\ dev[h[w].d] # Absent
        /\ dev' = [dev EXCEPT ![h[w].d].life = Flush(@, h[w].row.life, "revoked")]
    BY <1>1, <1>7 DEF RevokeCommit, PhaseOf
  <2>2. h[w].row \in Device /\ h[w].d \in Devices
    BY <1>1, <2>1 DEF PhaseOf, Handler
  <2>3. dev'[h[w].d] # Absent /\ dev'[h[w].d].serial = dev[h[w].d].serial
    BY <1>1, <2>1, <2>2, RowsAssumption DEF TypeOK, Device, Flush, Handler
  <2>4. /\ h'[w].op = h[w].op /\ h'[w].pc = "crlRead" /\ h'[w].d = h[w].d
        /\ h'[w].row.serial = h[w].row.serial
    BY <1>1, <1>7, <2>2 DEF Handler, Device
  <2>5. SerialOf(h'[w].row) = SerialOf(h[w].row)
    BY <2>4 DEF SerialOf
  <2>6. SerialOf(h[w].row) \subseteq tomb'
    BY <2>1 DEF LoadedOf, Tombstoned
  <2> QED
    BY <2>1, <2>3, <2>4, <2>5, <2>6 DEF LoadedOf, LoadedOfNext
<1>8. ASSUME Rekey(w), ~ Rollback(w),
             h'[w] = [h[w] EXCEPT !.pc = "crlRead",
                                  !.row = [h[w].row EXCEPT !.life = "pending", !.serial = None]]
      PROVE LoadedOfNext(h'[w])
  <2>1. /\ h[w].pc = "rekey" /\ h[w].op = "reset" /\ UNCHANGED tomb /\ dev[h[w].d] # Absent
        /\ dev' = [dev EXCEPT ![h[w].d].secret = h[w].secret,
                              ![h[w].d].life = Flush(@, h[w].row.life, "pending"),
                              ![h[w].d].serial = Flush(@, h[w].row.serial, None)]
    BY <1>1, <1>8 DEF Rekey, PhaseOf
  <2>2. h[w].row \in Device /\ h[w].d \in Devices
    BY <1>1, <2>1 DEF PhaseOf, Handler
  <2>3. dev[h[w].d].serial = h[w].row.serial
    BY <2>1 DEF LoadedOf
  <2>5. dev'[h[w].d] # Absent /\ dev'[h[w].d].serial = None
    <3>1. dev[h[w].d] \in Device /\ h[w].secret \in Secrets
      BY <1>1, <2>1, <2>2, ConstantsAssumption DEF TypeOK, PhaseOf, Handler
    <3>2. dev'[h[w].d] = [dev[h[w].d] EXCEPT !.secret = h[w].secret,
                              !.life = Flush(@, h[w].row.life, "pending"),
                              !.serial = Flush(@, h[w].row.serial, None)]
      BY <2>1, <2>2, <3>1 DEF TypeOK, Device
    <3>3. dev'[h[w].d] \in Device
      BY <2>2, <3>1, <3>2 DEF Device, Flush
    <3> QED
      BY <2>3, <3>1, <3>2, <3>3, RowsAssumption DEF Device, Flush
  <2>6. /\ h'[w].op = "reset" /\ h'[w].pc = "crlRead" /\ h'[w].d = h[w].d
        /\ h'[w].row = [h[w].row EXCEPT !.life = "pending", !.serial = None]
    BY <1>1, <1>8, <2>1 DEF Handler
  <2>7. h'[w].row.serial = None
    BY <2>2, <2>6 DEF Device
  <2> QED
    BY <2>5, <2>6, <2>7 DEF LoadedOfNext, SerialOf
<1>9. ASSUME ProjectResetLoad(w),
             h'[w] = [h[w] EXCEPT !.pc = "lookup",
                                  !.marks = UNION {SerialOf(dev[d]) : d \in Registered}]
      PROVE LoadedOfNext(h'[w])
  <2>1. h[w].op = "project-reset" /\ h[w].ids = Devices /\ UNCHANGED <<dev, tomb>>
    BY <1>1, <1>9 DEF ProjectResetLoad, PhaseOf
  <2>2. /\ h'[w].op = "project-reset" /\ h'[w].pc = "lookup" /\ h'[w].ids = Devices
        /\ h'[w].marks = UNION {SerialOf(dev[d]) : d \in Registered}
    BY <1>1, <1>9, <2>1 DEF Handler
  <2> QED
    BY <2>1, <2>2 DEF LoadedOfNext, Registered
<1>10. ASSUME EnrollCommit(w) \/ PurgeCommit(w), h'[w] = [h[w] EXCEPT !.pc = "crlRead"]
       PROVE LoadedOfNext(h'[w])
  <2>1. h[w].op \in {"enroll", "project-reset", "purge-simulated"}
    BY <1>1, <1>10 DEF EnrollCommit, PurgeCommit, PhaseOf
  <2>2. h'[w].op = h[w].op /\ h'[w].pc = "crlRead"
    BY <1>1, <1>10 DEF Handler
  <2> QED
    BY <2>1, <2>2 DEF LoadedOfNext
<1>11. ASSUME CrlRead(w), h'[w] = [h[w] EXCEPT !.pc = "crlWrite", !.snap = tomb]
       PROVE LoadedOfNext(h'[w])
  <2>1. h[w].pc = "crlRead" /\ UNCHANGED <<dev, tomb>>
    BY <1>11 DEF CrlRead
  <2>2. h'[w].op = h[w].op /\ h'[w].pc = "crlWrite" /\ h'[w].d = h[w].d /\ h'[w].row = h[w].row
    BY <1>1, <1>11 DEF Handler
  <2> QED
    BY <2>1, <2>2 DEF LoadedOf, LoadedOfNext
<1>12. ASSUME CrlWrite(w), NEW pc \in {"rekey", "evict"}, h'[w] = [h[w] EXCEPT !.pc = pc]
       PROVE LoadedOfNext(h'[w])
  <2>1. h[w].pc = "crlWrite" /\ UNCHANGED <<dev, tomb>>
    BY <1>12 DEF CrlWrite
  <2>2. h'[w].op = h[w].op /\ h'[w].pc = pc /\ h'[w].d = h[w].d /\ h'[w].row = h[w].row
    BY <1>1, <1>12 DEF Handler
  <2> QED
    BY <2>1, <2>2 DEF LoadedOf, LoadedOfNext
<1>13. CASE ~ Finish(w)
  <2> DEFINE Goal == LoadedOfNext(h'[w])
             r3 == [h[w] EXCEPT !.pc = "count", !.row = dev[h[w].d]]
             r4 == [h[w] EXCEPT !.pc = "decide", !.srow = h'[w].srow]
             r5 == [h[w] EXCEPT !.pc = "lookup", !.serial = used.serials + 1,
                                !.marks = SerialOf(h[w].row)]
             r6 == [h[w] EXCEPT !.pc = AfterLookup(h[w].op), !.marks = h[w].marks \ tomb,
                                !.evict = h'[w].evict]
             r7 == [h[w] EXCEPT !.pc = "crlRead", !.row = [h[w].row EXCEPT !.life = "revoked"]]
             r8 == [h[w] EXCEPT !.pc = "crlRead",
                                !.row = [h[w].row EXCEPT !.life = "pending", !.serial = None]]
             r9 == [h[w] EXCEPT !.pc = "lookup", !.marks = UNION {SerialOf(dev[d]) : d \in Registered}]
             r10 == [h[w] EXCEPT !.pc = "crlRead"]
             r11 == [h[w] EXCEPT !.pc = "crlWrite", !.snap = tomb]
             r12(pc) == [h[w] EXCEPT !.pc = pc]
  <2>1. /\ EnrollLoadDevice(w) /\ dev[h[w].d] # Absent /\ h'[w] = r3 => Goal
        /\ EnrollCount(w) /\ h'[w] = r4 => Goal
        /\ EnrollSign(w) /\ h'[w] = r5 => Goal
    BY <1>3, <1>4, <1>5, <1>13
  <2>2. /\ Lookup(w) /\ h'[w] = r6 => Goal
        /\ RevokeCommit(w) /\ ~ Rollback(w) /\ h'[w] = r7 => Goal
        /\ Rekey(w) /\ ~ Rollback(w) /\ h'[w] = r8 => Goal
    BY <1>6, <1>7, <1>8
  <2>3. /\ ProjectResetLoad(w) /\ h'[w] = r9 => Goal
        /\ (EnrollCommit(w) \/ PurgeCommit(w)) /\ h'[w] = r10 => Goal
        /\ CrlRead(w) /\ h'[w] = r11 => Goal
        /\ \A pc \in {"rekey", "evict"} : CrlWrite(w) /\ h'[w] = r12(pc) => Goal
    BY <1>9, <1>10, <1>11, <1>12
  <2>4. \/ EnrollLoadDevice(w) /\ dev[h[w].d] # Absent /\ h'[w] = r3
        \/ EnrollCount(w) /\ h'[w] = r4
        \/ EnrollSign(w) /\ h'[w] = r5
        \/ Lookup(w) /\ h'[w] = r6
        \/ RevokeCommit(w) /\ ~ Rollback(w) /\ h'[w] = r7
        \/ Rekey(w) /\ ~ Rollback(w) /\ h'[w] = r8
        \/ ProjectResetLoad(w) /\ h'[w] = r9
        \/ (EnrollCommit(w) \/ PurgeCommit(w)) /\ h'[w] = r10
        \/ CrlRead(w) /\ h'[w] = r11
        \/ \E pc \in {"rekey", "evict"} : CrlWrite(w) /\ h'[w] = r12(pc)
    BY <1>13, StepRecord
  <2> HIDE DEF Goal, r3, r4, r5, r6, r7, r8, r9, r10, r11, r12
  <2>5. Goal
    BY <2>1, <2>2, <2>3, <2>4
  <2> QED
    BY <2>5 DEF Goal
<1> QED
  BY <1>2, <1>13

LEMMA LoadedNext ==
  ASSUME TypeOK, PhaseOK, LoadedOK, OneAtATime, OneAtATime', [Next]_vars
  PROVE  LoadedOK'
<1> SUFFICES ASSUME NEW v \in Handlers PROVE LoadedOfNext(h'[v])
  BY DEF LoadedOK, LoadedOf, LoadedOfNext
<1>1. h[v] \in Handler /\ PhaseOf(h[v]) /\ LoadedOf(h[v])
  BY DEF TypeOK, PhaseOK, LoadedOK
<1>2. CASE UNCHANGED vars \/ (\E d \in Devices : Register(d) \/ SetEnabled(d)) \/ (\E s \in SessionIds : Elapse(s))
  <2>1. UNCHANGED <<h, tomb>>
    BY <1>2 DEF vars, Register, SetEnabled, Elapse
  <2>2. ASSUME NEW c \in Devices, dev[c] # Absent
        PROVE dev'[c] # Absent /\ dev'[c].serial = dev[c].serial
    BY <1>2, <2>2, RegistrySteps
  <2>3. ASSUME NEW c \in Devices, dev[c] = Absent, dev'[c] # Absent
        PROVE SerialOf(dev'[c]) = {}
    BY <1>2, <2>3, RegistrySteps DEF SerialOf
  <2>4. \A c \in Devices : dev[c] # Absent => SerialOf(dev'[c]) = SerialOf(dev[c])
    BY <2>2 DEF SerialOf
  <2>5. h[v].ids \subseteq Devices
    BY <1>1 DEF Handler
  <2>6. h[v].op \in {"enroll", "revoke", "reset"} => h[v].d \in Devices
    BY <1>1 DEF PhaseOf, Handler
  <2> QED
    BY <1>1, <2>1, <2>2, <2>3, <2>4, <2>5, <2>6 DEF LoadedOf, LoadedOfNext
<1>3. ASSUME NEW w \in Handlers, Request(w) \/ Step(w) \/ Abort(w)
      PROVE LoadedOfNext(h'[v])
  <2>1. CASE v = w
    BY <1>1, <1>3, <2>1, LoadedRequest, LoadedStep
  <2>2. CASE v # w
    <3>1. h'[v] = h[v] /\ h[v].pc = "idle"
      BY <1>3, <2>2, QuietElsewhere
    <3> QED
      BY <3>1 DEF LoadedOfNext
  <2> QED
    BY <2>1, <2>2
<1> QED
  BY <1>2, <1>3 DEF Next

LEMMA AccountedNext ==
  ASSUME IInv, LoadedOK, EveryCertificateAccountedFor, [Next]_vars
  PROVE  EveryCertificateAccountedFor'
<1> SUFFICES ASSUME NEW n \in Serials, certs'[n] # Absent, n \notin tomb'
             PROVE  dev'[certs'[n].dev] # Absent /\ dev'[certs'[n].dev].serial = n
  BY DEF EveryCertificateAccountedFor
<1>1. TypeOK /\ PhaseOK
  BY DEF IInv
<1>2. CASE certs[n] = Absent
  <2>1. PICK w \in Handlers :
          /\ EnrollCommit(w) /\ Signed(w)
          /\ certs' = [certs EXCEPT ![h[w].serial] = [dev |-> h[w].d, sid |-> h[w].sid]]
    BY <1>1, <1>2, CertSteps
  <2>2. h[w] \in Handler /\ h[w].d \in Devices /\ h[w].serial \in Serials
    BY <1>1, <2>1 DEF TypeOK, PhaseOK, PhaseOf, Handler, Signed, IInv, SignedOK
  <2>3. n = h[w].serial /\ certs'[n].dev = h[w].d
    BY <1>1, <1>2, <2>1, <2>2 DEF TypeOK
  <2>4. ~ UNCHANGED certs
    BY <1>2
  <2>5. /\ dev[h[w].d] # Absent
        /\ dev' = [dev EXCEPT ![h[w].d].life = Flush(@, h[w].row.life, "provisioned"),
                              ![h[w].d].serial = h[w].serial]
    BY <2>1, <2>4 DEF EnrollCommit
  <2>6. dev[h[w].d] \in Device
    BY <1>1, <2>2, <2>5 DEF TypeOK
  <2>7. dev'[h[w].d] = [dev[h[w].d] EXCEPT !.life = Flush(@, h[w].row.life, "provisioned"),
                                           !.serial = h[w].serial]
    BY <1>1, <2>2, <2>5, <2>6 DEF TypeOK, Device
  <2>8. dev'[h[w].d] \in Device
    BY <2>2, <2>6, <2>7 DEF Device, Flush
  <2> QED
    BY <2>3, <2>6, <2>7, <2>8, RowsAssumption DEF Device
<1>3. CASE certs[n] # Absent
  <2>0. certs'[n] = certs[n] /\ certs[n] \in Certificate
    BY <1>1, <1>3, CertsGrow DEF TypeOK
  <2> DEFINE d == certs[n].dev
  <2>1. d \in Devices
    BY <2>0 DEF Certificate
  <2>2. tomb \subseteq tomb'
    BY TombSteps DEF Tombstoned
  <2>3. dev[d] # Absent /\ dev[d].serial = n
    BY <1>3, <2>2 DEF EveryCertificateAccountedFor
  <2>4. SerialOf(dev[d]) = {n}
    BY <2>3, ConstantsAssumption DEF SerialOf, Serials, None
  <2> HIDE DEF d
  <2>5. CASE dev'[d] = dev[d]
    BY <2>0, <2>3, <2>5 DEF d
  <2>6. ASSUME NEW w \in Handlers, PurgeCommit(w), tomb' = Tombstoned(w), d \in h[w].ids
        PROVE FALSE
    <3>1. h[w].pc = "purge" /\ h[w].op \in {"project-reset", "purge-simulated"} /\ LoadedOf(h[w])
      BY <1>1, <2>6 DEF PurgeCommit, PhaseOK, PhaseOf, LoadedOK
    <3>2. n \in h[w].marks \cup tomb
      BY <2>3, <2>4, <2>6, <3>1 DEF LoadedOf
    <3> QED
      BY <2>6, <3>2 DEF Tombstoned
  <2>7. ASSUME NEW w \in Handlers, h[w].d = d, EnrollCommit(w), h[w].pc = "issue", dev'[d] # dev[d]
        PROVE FALSE
    <3>1. h[w].op = "enroll" /\ LoadedOf(h[w]) /\ tomb' = Tombstoned(w)
      BY <1>1, <2>7 DEF EnrollCommit, PhaseOK, PhaseOf, LoadedOK, Rollback, rows
    <3>2. h[w].row.serial = n
      BY <2>3, <2>7, <3>1 DEF LoadedOf
    <3>3. SerialOf(h[w].row) = {n}
      BY <2>3, <2>4, <3>2 DEF SerialOf
    <3>4. n \in h[w].marks \cup tomb
      BY <2>7, <3>1, <3>3 DEF LoadedOf
    <3> QED
      BY <3>1, <3>4 DEF Tombstoned
  <2>8. ASSUME NEW w \in Handlers, h[w].d = d, Rekey(w), h[w].pc = "rekey" PROVE FALSE
    <3>1. h[w].op = "reset" /\ LoadedOf(h[w])
      BY <1>1, <2>8 DEF PhaseOK, PhaseOf, LoadedOK
    <3>2. h[w].row.serial = n
      BY <2>3, <2>8, <3>1 DEF LoadedOf
    <3>3. SerialOf(h[w].row) = {n}
      BY <2>3, <2>4, <3>2 DEF SerialOf
    <3> QED
      BY <2>2, <2>8, <3>1, <3>3 DEF LoadedOf
  <2>9. CASE dev'[d] # dev[d]
    <3>1. dev'[d] # Absent /\ dev'[d].serial = dev[d].serial
      BY <1>1, <2>1, <2>3, <2>6, <2>7, <2>8, <2>9, DevSteps
    <3> QED
      BY <2>0, <2>3, <3>1 DEF d
  <2> QED
    BY <2>5, <2>9
<1> QED
  BY <1>2, <1>3

\* Without faults a request leaves the tombstones alone, or goes on to read them
\* for the CRL file.
LEMMA RebuildStep ==
  ASSUME TypeOK, NEW w \in Handlers, Step(w)
  PROVE  \/ h'[w].pc = "crlRead"
         \/ h'[w].pc = "crlWrite" /\ h'[w].snap = tomb'
         \/ h[w].pc = "crlWrite" /\ crl' = h[w].snap /\ UNCHANGED tomb /\ h'[w].pc # "crlWrite"
         \/ UNCHANGED <<tomb, crl>> /\ h[w].pc # "crlRead" /\ h[w].pc # "crlWrite"
            /\ h'[w].pc # "crlWrite"
<1> USE DEF TypeOK, Finish, Goto, Rollback, rows, Idle
<1>1. h[w] \in Handler
  OBVIOUS
<1>2. CASE CrlRead(w)
  BY <1>1, <1>2 DEF CrlRead, Handler
<1>3. CASE CrlWrite(w)
  BY <1>1, <1>3 DEF CrlWrite, Handler
<1>4. CASE EnrollCommit(w)
  <2>1. h[w].pc = "issue" /\ UNCHANGED crl
    BY <1>4 DEF EnrollCommit
  <2>2. CASE Rollback(w)
    BY <1>1, <2>1, <2>2 DEF Handler
  <2>3. CASE tomb' = Tombstoned(w) /\ RebuildDue(w) /\ Goto(w, "crlRead")
    BY <1>1, <2>3 DEF Handler
  <2>4. CASE tomb' = Tombstoned(w) /\ ~ RebuildDue(w) /\ Finish(w)
    <3>1. tomb' = tomb
      BY <2>4 DEF RebuildDue, Tombstoned
    <3> QED
      BY <1>1, <2>1, <2>4, <3>1 DEF Handler
  <2> QED
    BY <1>4, <2>2, <2>3, <2>4 DEF EnrollCommit
<1>5. CASE RevokeCommit(w)
  BY <1>1, <1>5 DEF RevokeCommit, Handler
<1>6. CASE PurgeCommit(w)
  BY <1>1, <1>6 DEF PurgeCommit, Handler
<1>7. CASE Rekey(w)
  BY <1>1, <1>7 DEF Rekey, Handler
<1>8. CASE Lookup(w)
  <2>1. h'[w].pc = AfterLookup(h[w].op)
    BY <1>1, <1>8 DEF Lookup, Handler
  <2> QED
    BY <1>8, <2>1 DEF Lookup, AfterLookup
<1>9. CASE EnrollLoadDevice(w)
  BY <1>1, <1>9 DEF EnrollLoadDevice, Handler
<1>10. CASE EnrollCount(w)
  BY <1>1, <1>10 DEF EnrollCount, Handler
<1>11. CASE EnrollSign(w)
  BY <1>1, <1>11 DEF EnrollSign, MayIssue, Handler
<1>12. CASE ProjectResetLoad(w)
  BY <1>1, <1>12 DEF ProjectResetLoad, Handler
<1>13. CASE \/ ChallengeCommit(w) \/ EnrollReject(w) \/ EnrollAlreadyProvisioned(w)
            \/ EnrollCaFailure(w) \/ Evict(w)
  <2>1. Finish(w) /\ UNCHANGED <<tomb, crl>>
    BY <1>13 DEF ChallengeCommit, EnrollReject, EnrollAlreadyProvisioned, EnrollCaFailure, Evict
  <2>2. h[w].pc \in {"supersede", "decide", "evict"}
    BY <1>13 DEF ChallengeCommit, EnrollReject, EnrollAlreadyProvisioned, EnrollCaFailure,
                 MayIssue, Evict
  <2> QED
    BY <2>1, <2>2
<1> QED
  BY <1>2, <1>3, <1>4, <1>5, <1>6, <1>7, <1>8, <1>9, <1>10, <1>11, <1>12, <1>13 DEF Step

LEMMA RebuildRequest ==
  ASSUME TypeOK, NEW w \in Handlers, Request(w)
  PROVE  h[w].pc = "idle" /\ h'[w].pc # "crlWrite" /\ UNCHANGED <<tomb, crl>>
<1> USE DEF TypeOK, Take, Begin, Idle
<1>1. ASSUME NEW d \in Devices, ResetLoad(w, d)
      PROVE  h[w].pc = "idle" /\ h'[w].pc # "crlWrite" /\ UNCHANGED <<tomb, crl>>
  <2>1. h'[w].pc = IF dev[d].serial # None THEN "lookup" ELSE "rekey"
    BY <1>1 DEF ResetLoad
  <2> QED
    BY <1>1, <2>1 DEF ResetLoad
<1>2. ASSUME PurgeLoad(w)
      PROVE  h[w].pc = "idle" /\ h'[w].pc # "crlWrite" /\ UNCHANGED <<tomb, crl>>
  <2>1. h'[w].pc \in {"crlRead", "lookup"}
    BY <1>2 DEF PurgeLoad
  <2> QED
    BY <1>2, <2>1 DEF PurgeLoad
<1>3. ASSUME NEW d \in Devices, ChallengeLoad(w, d) \/ RevokeLoad(w, d)
      PROVE  h[w].pc = "idle" /\ h'[w].pc # "crlWrite" /\ UNCHANGED <<tomb, crl>>
  <2>1. CASE ChallengeLoad(w, d)
    BY <2>1 DEF ChallengeLoad
  <2>2. CASE RevokeLoad(w, d)
    BY <2>2 DEF RevokeLoad
  <2> QED
    BY <1>3, <2>1, <2>2
<1>4. ASSUME NEW d \in Devices, NEW s \in SessionIds, NEW k \in Secrets \cup {None},
             EnrollLoadSession(w, d, s, k)
      PROVE  h[w].pc = "idle" /\ h'[w].pc # "crlWrite" /\ UNCHANGED <<tomb, crl>>
  BY <1>4 DEF EnrollLoadSession
<1>5. ASSUME ProjectResetBegin(w)
      PROVE  h[w].pc = "idle" /\ h'[w].pc # "crlWrite" /\ UNCHANGED <<tomb, crl>>
  BY <1>5 DEF ProjectResetBegin
<1> QED
  BY <1>1, <1>2, <1>3, <1>4, <1>5 DEF Request

LEMMA RebuildNext ==
  ASSUME TypeOK, OneAtATime, OneAtATime', RebuildOK, Calm
  PROVE  RebuildOK'
<1>1. CASE \E d \in Devices : Register(d)
  BY <1>1 DEF Register, RebuildOK
<1>2. ASSUME NEW w \in Handlers, Request(w) \/ Step(w) PROVE RebuildOK'
  <2>1. \A v \in Handlers : v # w => h[v].pc = "idle" /\ h'[v] = h[v]
    BY <1>2, QuietElsewhere
  <2>2. CASE Request(w)
    BY <2>1, <2>2, RebuildRequest DEF RebuildOK
  <2>3. CASE Step(w)
    <3>1. CASE h'[w].pc = "crlRead"
      BY <2>1, <3>1 DEF RebuildOK
    <3>2. CASE h'[w].pc = "crlWrite" /\ h'[w].snap = tomb'
      BY <2>1, <3>2 DEF RebuildOK
    <3>3. CASE h[w].pc = "crlWrite" /\ crl' = h[w].snap /\ UNCHANGED tomb /\ h'[w].pc # "crlWrite"
      BY <2>1, <3>3 DEF RebuildOK
    <3>4. CASE UNCHANGED <<tomb, crl>> /\ h[w].pc # "crlRead" /\ h[w].pc # "crlWrite"
               /\ h'[w].pc # "crlWrite"
      BY <2>1, <3>4 DEF RebuildOK
    <3> QED
      BY <2>3, <3>1, <3>2, <3>3, <3>4, RebuildStep
  <2> QED
    BY <1>2, <2>2, <2>3
<1> QED
  BY <1>1, <1>2 DEF Calm

LEMMA SerialInvInit == MCInit => SerialInv
<1> SUFFICES ASSUME MCInit PROVE SerialInv
  OBVIOUS
<1>1. IInv /\ \A w \in Handlers : h[w] = Idle
  BY InitIInv DEF MCInit, Init
<1>2. OneAtATime /\ LoadedOK /\ RebuildOK
  BY <1>1 DEF MCInit, Init, OneAtATime, LoadedOK, LoadedOf, RebuildOK, Idle
<1>3. EveryCertificateAccountedFor
  BY DEF MCInit, Init, EveryCertificateAccountedFor
<1> QED
  BY <1>1, <1>2, <1>3 DEF SerialInv, MCInit

LEMMA SerialInvNext == SerialInv /\ [MCNext]_<<vars, regime>> => SerialInv'
<1> SUFFICES ASSUME SerialInv, [MCNext]_<<vars, regime>> PROVE SerialInv'
  OBVIOUS
<1>1. /\ UNCHANGED regime
      /\ \/ UNCHANGED vars
         \/ regime = "racing" /\ Calm
         \/ regime = "faulty" /\ Next /\ OneAtATime'
         \/ regime = "calm" /\ Calm /\ OneAtATime'
  BY DEF SerialInv, MCNext
<1>2. Calm => Next
  BY DEF Calm, Next
<1>3. [Next]_vars
  BY <1>1, <1>2
<1>4. IInv /\ IInv'
  BY <1>3, IInvNext DEF SerialInv
<1>5. ASSUME regime # "racing" PROVE OneAtATime' /\ LoadedOK' /\ EveryCertificateAccountedFor'
  <2>1. OneAtATime /\ LoadedOK /\ EveryCertificateAccountedFor
    BY <1>5 DEF SerialInv
  <2>2. OneAtATime'
    BY <1>1, <1>5, <2>1 DEF OneAtATime, vars
  <2> QED
    BY <1>3, <1>4, <2>1, <2>2, LoadedNext, AccountedNext DEF IInv
<1>6. ASSUME regime = "calm" PROVE RebuildOK'
  <2>1. OneAtATime /\ OneAtATime' /\ RebuildOK
    BY <1>5, <1>6 DEF SerialInv
  <2>2. CASE UNCHANGED vars
    BY <2>1, <2>2 DEF RebuildOK, vars
  <2>3. CASE Calm
    BY <1>4, <2>1, <2>3, RebuildNext DEF IInv
  <2> QED
    BY <1>1, <1>6, <2>2, <2>3
<1> QED
  BY <1>1, <1>4, <1>5, <1>6 DEF SerialInv

\* As long as requests do not overlap, no certificate is handed out that the
\* platform can neither see nor revoke, whatever fails and whoever dies
\* (enroll_device, revoke_current_certificate, clear_project_state).
THEOREM SerialAccounted == MCSpec => []SerialAccountedFor
<1>1. SerialInv => SerialAccountedFor
  BY DEF SerialInv, SerialAccountedFor
<1> QED
  BY <1>1, SerialInvInit, SerialInvNext, PTL DEF MCSpec

\* When requests neither overlap nor fail, the CRL file lists every tombstone
\* whenever no request is in progress (rebuild_crl_from_db).
THEOREM CalmCrl == MCSpec => []CalmCrlComplete
<1>1. SerialInv => CalmCrlComplete
  BY DEF SerialInv, CalmCrlComplete, CrlIsCompleteAtRest, RebuildOK
<1> QED
  BY <1>1, SerialInvInit, SerialInvNext, PTL DEF MCSpec

=============================================================================
