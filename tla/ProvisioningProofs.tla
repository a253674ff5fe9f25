------------------------- MODULE ProvisioningProofs -------------------------
(***************************************************************************)
(* Theorems about Provisioning, for every set of disturbances and any      *)
(* number of abandoned requests and of secrets, serials and sessions.      *)
(***************************************************************************)
EXTENDS Provisioning, FiniteSetTheorems, TLAPS

-----------------------------------------------------------------------------
(* The inductive invariant.                                                *)

\* Types; the length of what the board has printed does not matter here.
Shape ==
  /\ server \in [life : {"absent", "pending", "provisioned", "revoked"},
                 secret : Ids, serial : Ids, session : Ids]
  /\ board \in [at : {"boot", "factory", "stored", "challenging", "enrolling", "running"},
                secret : Ids, cert : Ids, connected : BOOLEAN,
                clock : {"unset", "right", "wrong"}, trusts : BOOLEAN]
  /\ station \in [at : {"idle", "ready", "register", "rotate", "inject", "observe"},
                  reset : BOOLEAN, program : BOOLEAN, secret : Ids]
  /\ call \in [Clients -> [at : {"none", "sent", "answered"},
                           request : Request, answer : Answer]]
  /\ late \subseteq Request /\ IsFiniteSet(late) /\ Cardinality(late) <= MaxLate
  /\ wire \in Ids
  /\ lines \in Seq(Line)

\* The station asks for a device, the board for its certificate; what each has
\* in flight fits the phase it is in.
Phases ==
  /\ board.at \notin {"challenging", "enrolling"} => call["board"].at = "none"
  /\ board.at = "challenging" => call["board"].request.kind = "challenge"
  /\ board.at = "enrolling" =>
       call["board"].request.kind = "enroll" /\ call["board"].request.secret = board.secret
  /\ board.at = "factory" => board.secret = 0
  /\ board.at \in {"stored", "challenging", "enrolling", "running"} => board.secret # 0
  /\ board.at \in {"challenging", "enrolling"} => board.cert = 0
  /\ board.at = "running" => board.cert # 0
  /\ board.cert # 0 => board.secret # 0
  /\ call["station"].request.secret = 0 /\ call["station"].request.session = 0
  /\ call["station"].request.kind # "enroll"
  /\ station.at \notin {"register", "rotate"} => call["station"].at = "none"
  /\ station.at \in {"register", "rotate"} =>
       call["station"].request.kind \in {"register", "reset"}

\* Somebody has asked, or still asks, for a certificate with this secret.
Asked(secret) == \E r \in Requests : r.kind = "enroll" /\ r.secret = secret

\* The secret that the station has obtained and the board not yet stored is
\* unused, and so is the registry's; a board that holds a secret is the only one
\* that can have asked with the registry's.
OnItsWay(secret) == secret # 0 /\ ~Asked(secret) /\ ~Asked(server.secret)
SecretsUnused ==
  /\ ~Asked(0)
  /\ wire # 0 => OnItsWay(wire) /\ board.secret = 0
  /\ station.at \in {"register", "rotate"} /\ Answered("station", "ok") =>
       OnItsWay(call["station"].answer.value)
  /\ board.secret # 0 /\ Asked(server.secret) => board.secret = server.secret

\* The certificate was issued for the board's secret and is the registry's, or
\* the registry has another secret and has issued nothing for it.
Certified(cert) ==
  IF server.secret = board.secret
  THEN server.life \in {"provisioned", "revoked"} /\ server.serial = cert
  ELSE server.life # "provisioned"
CertsCurrent ==
  /\ board.cert # 0 => Certified(board.cert)
  /\ board.at = "enrolling" /\ Answered("board", "ok") =>
       call["board"].answer.value # 0 /\ Certified(call["board"].answer.value)

\* What the board has printed in this run, and what it shows.
Said(line) == \E i \in 1 .. Len(lines) : lines[i] = line
Boasts == Said("OK") \/ Said("CONNECTED")
Heard ==
  /\ station.at = "ready" =>
       wire = 0 /\ (Said("READY") => board.secret = 0) /\ (Boasts => board.secret # 0)
  /\ station.at \in {"register", "rotate"} => wire = 0 /\ board.secret = 0 /\ ~Boasts
  /\ station.at = "inject" =>
       /\ station.secret # 0 /\ board.secret \in {0, station.secret}
       /\ wire \in {0, station.secret}
       /\ Boasts => board.secret = station.secret
  /\ station.at = "observe" => station.secret # 0 /\ board.secret = station.secret
  /\ station.at \in {"inject", "observe"} /\ Said("CONNECTED") => board.cert # 0

IInv == Shape /\ Phases /\ SecretsUnused /\ CertsCurrent /\ Heard

-----------------------------------------------------------------------------
(* Numbers that nobody holds: there are enough of them.                    *)

LEMMA OneMore ==
  ASSUME NEW S, NEW x, IsFiniteSet(S)
  PROVE  /\ IsFiniteSet(S \cup {x}) /\ Cardinality(S) \in Nat
         /\ Cardinality(S \cup {x}) <= Cardinality(S) + 1
<1>1. /\ IsFiniteSet(S \cup {x})
      /\ Cardinality(S \cup {x}) = IF x \in S THEN Cardinality(S) ELSE Cardinality(S) + 1
  BY FS_AddElement
<1>2. Cardinality(S) \in Nat
  BY FS_CardinalityType
<1> QED
  BY <1>1, <1>2

\* The numbers in abandoned requests, and seven that are held elsewhere.
LEMMA SevenMore ==
  ASSUME NEW L, IsFiniteSet(L), Cardinality(L) <= MaxLate,
         NEW a, NEW b, NEW c, NEW d, NEW e, NEW f, NEW g
  PROVE  /\ IsFiniteSet(L \cup {a, b, c, d, e, f, g})
         /\ Cardinality(L \cup {a, b, c, d, e, f, g}) < MaxId
<1> DEFINE A == L \cup {a}
           B == A \cup {b}
           C == B \cup {c}
           D == C \cup {d}
           E == D \cup {e}
           F == E \cup {f}
           G == F \cup {g}
<1>1. G = L \cup {a, b, c, d, e, f, g}
  OBVIOUS
<1>2. IsFiniteSet(A) /\ Cardinality(A) <= Cardinality(L) + 1 /\ Cardinality(L) \in Nat
  BY OneMore
<1>3. IsFiniteSet(B) /\ Cardinality(B) <= Cardinality(A) + 1 /\ Cardinality(A) \in Nat
  BY <1>2, OneMore
<1>4. IsFiniteSet(C) /\ Cardinality(C) <= Cardinality(B) + 1 /\ Cardinality(B) \in Nat
  BY <1>3, OneMore
<1>5. IsFiniteSet(D) /\ Cardinality(D) <= Cardinality(C) + 1 /\ Cardinality(C) \in Nat
  BY <1>4, OneMore
<1>6. IsFiniteSet(E) /\ Cardinality(E) <= Cardinality(D) + 1 /\ Cardinality(D) \in Nat
  BY <1>5, OneMore
<1>7. IsFiniteSet(F) /\ Cardinality(F) <= Cardinality(E) + 1 /\ Cardinality(E) \in Nat
  BY <1>6, OneMore
<1>8. IsFiniteSet(G) /\ Cardinality(G) <= Cardinality(F) + 1 /\ Cardinality(F) \in Nat
  BY <1>7, OneMore
<1>9. Cardinality(G) \in Nat
  BY <1>8, FS_CardinalityType
<1> HIDE DEF A, B, C, D, E, F, G
<1>10. Cardinality(G) < MaxId
  BY <1>2, <1>3, <1>4, <1>5, <1>6, <1>7, <1>8, <1>9, ConstantsAssumption
<1> QED
  BY <1>1, <1>8, <1>10

\* Of fewer numbers than there are, one is left.
LEMMA FreshIsFree ==
  ASSUME NEW S, IsFiniteSet(S), Cardinality(S) < MaxId, NEW used, used \ {0} \subseteq S
  PROVE  Fresh(used) \in 1 .. MaxId /\ Fresh(used) \notin used
<1>1. ASSUME 1 .. MaxId \subseteq used PROVE FALSE
  <2>1. 1 .. MaxId \in SUBSET S
    BY <1>1, ConstantsAssumption
  <2>2. Cardinality(1 .. MaxId) <= Cardinality(S)
    BY <2>1, FS_Subset
  <2>3. 1 \in Int /\ MaxId \in Int /\ MaxId - 1 + 1 = MaxId /\ ~(1 > MaxId)
    BY ConstantsAssumption
  <2>4. Cardinality(1 .. MaxId) = MaxId
    BY <2>3, FS_Interval
  <2> QED
    BY <2>2, <2>4, ConstantsAssumption, FS_CardinalityType
<1>2. \E n \in 1 .. MaxId : n \notin used
  BY <1>1
<1> QED
  BY <1>2 DEF Fresh

\* A function takes no more values than it has arguments.
LEMMA FewValues ==
  ASSUME NEW S, IsFiniteSet(S), NEW h, h = [x \in S |-> h[x]]
  PROVE  IsFiniteSet({h[x] : x \in S}) /\ Cardinality({h[x] : x \in S}) <= Cardinality(S)
<1>1. h \in Surjection(S, {h[x] : x \in S})
  BY DEF Surjection
<1> QED
  BY <1>1, FS_Surjection

LEMMA FreshNumbers ==
  ASSUME Shape, Phases
  PROVE  /\ FreshSecret \in Ids /\ FreshSecret # 0
         /\ FreshSecret \notin {server.secret, board.secret, wire}
         /\ \A r \in Requests : r.secret # FreshSecret
         /\ FreshSerial \in Ids /\ FreshSerial # 0
         /\ FreshSession \in Ids
<1> DEFINE q == call["board"].request
           s == call["station"].request
           v == call["board"].answer.value
           w == call["station"].answer.value
<1>1. Requests = late \cup {q, s} /\ Values = {v, w} /\ s.secret = 0 /\ s.session = 0
  BY DEF Requests, Values, Clients, Phases
<1>2. IsFiniteSet(late) /\ Cardinality(late) <= MaxLate /\ Cardinality(late) \in Nat
  BY FS_CardinalityType DEF Shape
<1>3. PICK L : L = {r.secret : r \in late} /\ IsFiniteSet(L) /\ Cardinality(L) <= MaxLate
  <2> DEFINE h == [r \in late |-> r.secret]
             T == {h[r] : r \in late}
  <2>1. IsFiniteSet(T) /\ Cardinality(T) <= Cardinality(late)
    BY <1>2, FewValues
  <2>2. T = {r.secret : r \in late} /\ Cardinality(T) \in Nat
    BY <2>1, FS_CardinalityType
  <2> QED
    BY <1>2, <2>1, <2>2, ConstantsAssumption
<1>4. PICK M : M = {r.session : r \in late} /\ IsFiniteSet(M) /\ Cardinality(M) <= MaxLate
  <2> DEFINE h == [r \in late |-> r.session]
             T == {h[r] : r \in late}
  <2>1. IsFiniteSet(T) /\ Cardinality(T) <= Cardinality(late)
    BY <1>2, FewValues
  <2>2. T = {r.session : r \in late} /\ Cardinality(T) \in Nat
    BY <2>1, FS_CardinalityType
  <2> QED
    BY <1>2, <2>1, <2>2, ConstantsAssumption
<1> DEFINE used == {server.secret, board.secret, station.secret, wire} \cup Values
                     \cup {r.secret : r \in Requests}
           sessions == {server.session} \cup Values \cup {r.session : r \in Requests}
           serials == {server.serial, board.cert} \cup Values
<1>5. PICK S : /\ IsFiniteSet(S) /\ Cardinality(S) < MaxId
               /\ S = L \cup {server.secret, board.secret, station.secret, wire, v, w, q.secret}
  BY <1>3, SevenMore
<1>6. used \ {0} \subseteq S
  BY <1>1, <1>3, <1>5
<1>7. PICK T : /\ IsFiniteSet(T) /\ Cardinality(T) < MaxId
               /\ T = M \cup {server.session, v, w, q.session, 0, 0, 0}
  BY <1>4, SevenMore
<1>8. sessions \ {0} \subseteq T
  BY <1>1, <1>4, <1>7
<1>9. PICK U : /\ IsFiniteSet(U) /\ Cardinality(U) < MaxId
               /\ U = L \cup {server.serial, board.cert, v, w, 0, 0, 0}
  BY <1>3, SevenMore
<1>10. serials \ {0} \subseteq U
  BY <1>1, <1>9
<1>11. FreshSecret = Fresh(used) /\ FreshSession = Fresh(sessions) /\ FreshSerial = Fresh(serials)
  BY DEF FreshSecret, FreshSession, FreshSerial
<1>12. /\ {server.secret, board.secret, wire} \subseteq used
       /\ \A r \in Requests : r.secret \in used
  OBVIOUS
<1> HIDE DEF used, sessions, serials, q, v, w
<1>13. Fresh(used) \in 1 .. MaxId /\ Fresh(used) \notin used
  BY <1>5, <1>6, FreshIsFree
<1>14. Fresh(sessions) \in 1 .. MaxId
  BY <1>7, <1>8, FreshIsFree
<1>15. Fresh(serials) \in 1 .. MaxId
  BY <1>9, <1>10, FreshIsFree
<1> QED
  BY <1>11, <1>12, <1>13, <1>14, <1>15, ConstantsAssumption DEF Ids

-----------------------------------------------------------------------------
(* The API.                                                                *)

LEMMA InitIInv == Init => IInv
<1> SUFFICES ASSUME Init PROVE IInv
  OBVIOUS
<1>1. 0 \in Ids
  BY ConstantsAssumption DEF Ids
<1>2. Shape
  BY <1>1, FS_EmptySet, ConstantsAssumption
     DEF Init, Shape, Blank, Idle, NoCall, NoAnswer, Plain, Request, Answer, Line
<1>3. Phases /\ ~Asked(0)
  BY DEF Init, Phases, Asked, Requests, Clients, Blank, Idle, NoCall, Plain
<1>4. board.secret = 0 /\ board.cert = 0 /\ wire = 0 /\ station.at = "idle" /\ board.at = "boot"
  BY DEF Init, Blank, Idle
<1> QED
  BY <1>2, <1>3, <1>4 DEF IInv, SecretsUnused, CertsCurrent, Heard

\* What an answer does: the request is no longer pending, and is remembered.
LEMMA Responds ==
  ASSUME Shape, NEW o \in Origins, NEW r \in Pending(o),
         NEW code \in {"ok", "conflict", "error"}, NEW value \in Ids, Respond(o, r, code, value)
  PROVE  /\ call' \in [Clients -> [at : {"none", "sent", "answered"},
                                   request : Request, answer : Answer]]
         /\ late' \subseteq late /\ IsFiniteSet(late') /\ Cardinality(late') <= MaxLate
         /\ \A c \in Clients :
              /\ call'[c].request = call[c].request
              /\ call'[c].at = "none" <=> call[c].at = "none"
              /\ c # o => call'[c] = call[c]
         /\ r \in Requests
         /\ o \in Clients =>
              /\ call[o].at = "sent" /\ r = call[o].request
              /\ call'[o].answer.value = value /\ call'[o].answer.code = code
<1>1. CASE o = "late"
  <2>1. r \in late /\ late' = late \ {r} /\ call' = call
    BY <1>1 DEF Pending, Respond
  <2>2. IsFiniteSet(late') /\ Cardinality(late') <= Cardinality(late)
    BY <2>1, FS_Subset DEF Shape
  <2>3. Cardinality(late') \in Nat /\ Cardinality(late) \in Nat
    BY <2>2, FS_CardinalityType DEF Shape
  <2> QED
    BY <1>1, <2>1, <2>2, <2>3, ConstantsAssumption DEF Shape, Requests, Clients
<1>2. CASE o \in Clients
  <2> DEFINE answer == [code |-> code, value |-> value]
             new == [call[o] EXCEPT !.at = "answered", !.answer = answer]
  <2>1. /\ call[o].at = "sent" /\ r = call[o].request
        /\ call' = [call EXCEPT ![o] = new] /\ late' = late
    BY <1>2 DEF Pending, Respond, Clients
  <2>2. /\ new \in [at : {"none", "sent", "answered"}, request : Request, answer : Answer]
        /\ new.at = "answered" /\ new.request = call[o].request /\ new.answer = answer
    BY <1>2 DEF Shape, Answer
  <2>3. answer.code = code /\ answer.value = value
    OBVIOUS
  <2> HIDE DEF new, answer
  <2> QED
    BY <1>2, <2>1, <2>2, <2>3 DEF Shape, Requests
<1> QED
  BY <1>1, <1>2 DEF Origins

\* The API leaves the board's identity alone, and its secrets are fresh.
LEMMA ApiKeeps ==
  ASSUME IInv, Shape', CertsCurrent',
         board'.at = board.at, board'.secret = board.secret, board'.cert = board.cert,
         UNCHANGED <<station, wire, lines>>, late' \subseteq late,
         \A c \in Clients : /\ call'[c].request = call[c].request
                            /\ call'[c].at = "none" <=> call[c].at = "none",
         server'.secret \in {server.secret, 0, FreshSecret},
         station.at \in {"register", "rotate"} /\ Answered("station", "ok")' =>
           \/ Answered("station", "ok") /\ call'["station"] = call["station"]
           \/ call'["station"].answer.value = FreshSecret /\ server'.secret = FreshSecret
  PROVE  IInv'
<1>1. Phases'
  BY DEF IInv, Phases, Clients
<1>2. Heard'
  BY DEF IInv, Heard, Boasts, Said
<1>3. Requests' \subseteq Requests
  BY DEF Requests
<1>4. \A s : Asked(s)' => Asked(s) /\ s # 0 /\ s # FreshSecret
  BY <1>3, FreshNumbers DEF IInv, SecretsUnused, Asked
<1>5. Asked(server.secret)' => server'.secret = server.secret /\ Asked(server.secret)
  BY <1>4 DEF Asked
<1>6. SecretsUnused'
  <2>1. \A s : OnItsWay(s) => OnItsWay(s)'
    BY <1>4, <1>5 DEF OnItsWay
  <2>2. (wire # 0 => OnItsWay(wire) /\ board.secret = 0)'
    BY <2>1 DEF IInv, SecretsUnused
  <2>3. (station.at \in {"register", "rotate"} /\ Answered("station", "ok") =>
           OnItsWay(call["station"].answer.value))'
    <3> SUFFICES ASSUME station.at \in {"register", "rotate"}, Answered("station", "ok")'
                 PROVE  OnItsWay(call["station"].answer.value)'
      OBVIOUS
    <3>1. CASE Answered("station", "ok") /\ call'["station"] = call["station"]
      BY <2>1, <3>1 DEF IInv, SecretsUnused
    <3>2. CASE call'["station"].answer.value = FreshSecret /\ server'.secret = FreshSecret
      BY <1>4, <3>2, FreshNumbers DEF IInv, OnItsWay, Asked
    <3> QED
      BY <3>1, <3>2
  <2> QED
    BY <1>4, <1>5, <2>2, <2>3 DEF IInv, SecretsUnused, Asked
<1> QED
  BY <1>1, <1>2, <1>6 DEF IInv

\* A certificate stays current while nothing is issued: what is rotated, cleared
\* or revoked is not provisioned any more.
LEMMA CertsStay ==
  ASSUME IInv, board'.at = board.at, board'.secret = board.secret, board'.cert = board.cert,
         board.secret # 0 /\ server'.secret = board.secret =>
           /\ server'.secret = server.secret /\ server'.serial = server.serial
           /\ server'.life \in {server.life, "revoked"},
         server'.life = "provisioned" =>
           server.life = "provisioned" /\ server.secret = server'.secret,
         board.at = "enrolling" /\ Answered("board", "ok")' =>
           Answered("board", "ok") /\ call'["board"].answer = call["board"].answer
  PROVE  CertsCurrent'
<1>1. board.cert # 0 \/ board.at = "enrolling" => board.secret # 0
  BY DEF IInv, Phases
<1>2. ASSUME NEW c, Certified(c), board.secret # 0 PROVE Certified(c)'
  BY <1>2 DEF Certified
<1>3. board'.cert # 0 => board.cert # 0 /\ Certified(board.cert)
  BY DEF IInv, CertsCurrent
<1>4. board'.at = "enrolling" /\ Answered("board", "ok")' =>
        /\ call'["board"].answer.value = call["board"].answer.value
        /\ call["board"].answer.value # 0 /\ Certified(call["board"].answer.value)
  BY DEF IInv, CertsCurrent
<1> QED
  BY <1>1, <1>2, <1>3, <1>4 DEF CertsCurrent, Certified

LEMMA ServeKeeps ==
  ASSUME IInv, NEW o \in Origins, Serve(o)
  PROVE  IInv'
<1>1. /\ server.secret \in Ids /\ 0 \in Ids /\ Shape /\ Phases
      /\ FreshSecret \in Ids /\ FreshSecret \notin {0, server.secret, board.secret}
      /\ FreshSerial \in Ids /\ FreshSerial # 0 /\ FreshSession \in Ids
  BY FreshNumbers, ConstantsAssumption DEF IInv, Shape, Ids
\* Any answer, with the row as it then is.
<1>2. ASSUME NEW r \in Pending(o), NEW code \in {"ok", "conflict", "error"}, NEW value \in Ids,
             Respond(o, r, code, value), ServerOnly,
             server' \in [life : {"absent", "pending", "provisioned", "revoked"},
                          secret : Ids, serial : Ids, session : Ids],
             server'.secret \in {server.secret, FreshSecret},
             code = "ok" /\ o = "station" => value = FreshSecret /\ server'.secret = FreshSecret,
             CertsCurrent'
      PROVE  IInv'
  <2>1. Shape'
    BY <1>2, Responds DEF IInv, Shape, ServerOnly
  <2>2. \A c \in Clients : /\ call'[c].request = call[c].request
                           /\ call'[c].at = "none" <=> call[c].at = "none"
    BY <1>1, <1>2, Responds
  <2>3. Answered("station", "ok")' =>
           \/ Answered("station", "ok") /\ call'["station"] = call["station"]
           \/ call'["station"].answer.value = FreshSecret /\ server'.secret = FreshSecret
    BY <1>1, <1>2, Responds DEF Answered, Clients
  <2>4. late' \subseteq late /\ UNCHANGED <<board, station, wire, lines>>
    BY <1>1, <1>2, Responds DEF ServerOnly
  <2> QED
    BY <1>2, <2>1, <2>2, <2>3, <2>4, ApiKeeps
\* The board's answer is its own.
<1>3. ASSUME NEW r \in Pending(o), NEW code \in {"ok", "conflict", "error"}, NEW value \in Ids,
             Respond(o, r, code, value),
             code # "ok" \/ r.kind # "enroll"
      PROVE  board.at = "enrolling" /\ Answered("board", "ok")' =>
               Answered("board", "ok") /\ call'["board"].answer = call["board"].answer
  BY <1>1, <1>3, Responds DEF Answered, Clients, Phases
<1>4. ASSUME NEW r \in Pending(o), o = "station" PROVE r.kind \in {"register", "reset"}
  BY <1>1, <1>4 DEF Pending, Phases
<1>5. CASE CreateChallenge(o)
  <2>1. PICK r \in Pending(o) :
          /\ r.kind = "challenge" /\ ServerOnly /\ Respond(o, r, "ok", FreshSession)
          /\ server' = [server EXCEPT !.session = FreshSession]
    BY <1>5 DEF CreateChallenge
  <2>2. /\ server' \in [life : {"absent", "pending", "provisioned", "revoked"},
                         secret : Ids, serial : Ids, session : Ids]
        /\ server'.life = server.life /\ server'.secret = server.secret
        /\ server'.serial = server.serial
    BY <1>1, <2>1 DEF Shape
  <2>3. CertsCurrent'
    BY <1>1, <1>3, <2>1, <2>2, CertsStay DEF ServerOnly
  <2> QED
    BY <1>1, <1>2, <1>4, <2>1, <2>2, <2>3
<1>6. CASE EnrollDevice(o)
  <2>1. PICK r \in Pending(o) :
          /\ r.kind = "enroll" /\ Enrollable(r) /\ ServerOnly /\ Respond(o, r, "ok", FreshSerial)
          /\ server' = [server EXCEPT !.life = "provisioned", !.serial = FreshSerial,
                                      !.session = 0]
    BY <1>6 DEF EnrollDevice
  <2>2. /\ server' \in [life : {"absent", "pending", "provisioned", "revoked"},
                         secret : Ids, serial : Ids, session : Ids]
        /\ server'.life = "provisioned" /\ server'.secret = server.secret
        /\ server'.serial = FreshSerial /\ server.life = "pending" /\ r.secret = server.secret
    BY <1>1, <2>1 DEF Shape, Enrollable
  \* It was asked for with the registry's secret, so that a board which has a
  \* secret has this one, and no certificate yet.
  <2>3. Asked(server.secret)
    BY <1>1, <2>1, <2>2, Responds DEF Asked
  <2>4. board.secret # 0 => board.secret = server.secret
    BY <2>3 DEF IInv, SecretsUnused
  <2>5. /\ board.cert = 0
        /\ ~(board.at = "enrolling" /\ Answered("board", "ok"))
    BY <2>2, <2>4 DEF IInv, CertsCurrent, Certified, Phases
  <2>6. CertsCurrent'
    <3>1. board' = board
      BY <2>1 DEF ServerOnly
    <3>2. ASSUME board.at = "enrolling", Answered("board", "ok")'
          PROVE  call'["board"].answer.value = FreshSerial /\ board.secret = server.secret
      BY <1>1, <2>1, <2>4, <2>5, <3>2, Responds DEF Answered, Clients, Phases
    <3> QED
      BY <1>1, <2>2, <2>5, <3>1, <3>2 DEF CertsCurrent, Certified
  <2> QED
    BY <1>1, <1>2, <1>4, <2>1, <2>2, <2>6
\* A new secret, and no certificate.
<1>7. ASSUME NEW r \in Pending(o), r.kind # "enroll", Respond(o, r, "ok", FreshSecret), ServerOnly,
             server' \in {[server EXCEPT !.life = "pending", !.secret = FreshSecret],
                          [server EXCEPT !.life = "pending", !.secret = FreshSecret, !.serial = 0]}
      PROVE  IInv'
  <2>1. /\ server' \in [life : {"absent", "pending", "provisioned", "revoked"},
                         secret : Ids, serial : Ids, session : Ids]
        /\ server'.life = "pending" /\ server'.secret = FreshSecret
    BY <1>1, <1>7 DEF Shape
  <2>2. CertsCurrent'
    BY <1>1, <1>3, <1>7, <2>1, CertsStay DEF ServerOnly
  <2> QED
    BY <1>1, <1>2, <1>7, <2>1, <2>2
<1>8. CASE CreateDevice(o) \/ ResetDevice(o)
  BY <1>7, <1>8 DEF CreateDevice, ResetDevice, Rotated
<1>9. CASE Refuse(o) \/ Fail(o)
  <2>1. PICK r \in Pending(o), code \in {"conflict", "error"} :
          Respond(o, r, code, 0) /\ server' = server /\ ServerOnly
    BY <1>9 DEF Refuse, Fail
  <2>2. CertsCurrent'
    BY <1>1, <1>3, <2>1, CertsStay DEF ServerOnly
  <2> QED
    BY <1>1, <1>2, <2>1, <2>2 DEF Shape
<1> QED
  BY <1>5, <1>6, <1>8, <1>9 DEF Serve

LEMMA RowKeeps ==
  ASSUME IInv, Expire \/ Revoke \/ ResetBootstrap \/ ClearRegistry \/ ForceSetup
  PROVE  IInv'
<1>1. /\ server.secret \in Ids /\ 0 \in Ids /\ Shape /\ Phases
      /\ FreshSecret \in Ids /\ FreshSecret \notin {0, server.secret, board.secret}
  BY FreshNumbers, ConstantsAssumption DEF IInv, Shape, Ids
\* The platform runs: the board and the requests stay as they are.
<1>2. ASSUME ServerOnly, UNCHANGED <<call, late>>,
             server' \in [life : {"absent", "pending", "provisioned", "revoked"},
                          secret : Ids, serial : Ids, session : Ids],
             server'.secret \in {server.secret, 0, FreshSecret},
             \/ server'.life \in {"absent", "pending"} /\ server'.secret \in {0, FreshSecret}
             \/ /\ server'.life \in {server.life, "revoked"} /\ server'.secret = server.secret
                /\ server'.serial = server.serial
      PROVE  IInv'
  <2>1. Shape'
    BY <1>2 DEF IInv, Shape, ServerOnly
  <2>2. CertsCurrent'
    BY <1>1, <1>2, CertsStay DEF ServerOnly, Answered
  <2> QED
    BY <1>2, <2>1, <2>2, ApiKeeps DEF ServerOnly, Answered
<1>3. CASE Expire \/ Revoke
  BY <1>1, <1>2, <1>3 DEF Expire, Revoke, Shape
<1>4. CASE ResetBootstrap
  BY <1>1, <1>2, <1>4 DEF ResetBootstrap, Rotated, Shape
<1>5. CASE ClearRegistry
  BY <1>1, <1>2, <1>5 DEF ClearRegistry
<1>6. CASE ForceSetup
  <2>1. /\ board' \in [at : {"boot", "factory", "stored", "challenging", "enrolling", "running"},
                        secret : Ids, cert : Ids, connected : BOOLEAN,
                        clock : {"unset", "right", "wrong"}, trusts : BOOLEAN]
        /\ board'.at = board.at /\ board'.secret = board.secret /\ board'.cert = board.cert
    BY <1>1, <1>6 DEF ForceSetup, Shape
  <2>2. /\ call' \in [Clients -> [at : {"none", "sent", "answered"},
                                  request : Request, answer : Answer]]
        /\ \A c \in Clients :
             /\ call'[c].request = call[c].request
             /\ call'[c].at = "none" <=> call[c].at = "none"
             /\ call'[c] = call[c] \/ call'[c].answer.code = "error"
    BY <1>1, <1>6 DEF ForceSetup, Shape, NoAnswer, Answer
  <2>3. /\ late' = {} /\ IsFiniteSet({}) /\ Cardinality({}) = 0
        /\ server' = [life |-> "absent", secret |-> 0, serial |-> 0, session |-> 0]
        /\ UNCHANGED <<station, wire, lines>>
    BY <1>6, FS_EmptySet DEF ForceSetup
  <2>4. Shape'
    BY <1>1, <2>1, <2>2, <2>3, ConstantsAssumption DEF Shape
  <2>5. \A c \in Clients : Answered(c, "ok")' => Answered(c, "ok") /\ call'[c] = call[c]
    BY <2>2 DEF Answered
  <2>6. CertsCurrent'
    BY <1>1, <2>1, <2>3, <2>5, CertsStay DEF Clients
  <2> QED
    BY <1>1, <2>1, <2>2, <2>3, <2>4, <2>5, <2>6, ApiKeeps DEF Clients
<1> QED
  BY <1>3, <1>4, <1>5, <1>6

-----------------------------------------------------------------------------
(* The board.                                                              *)

LEMMA GivesUp ==
  ASSUME Shape, NEW c \in Clients, GiveUp(c)
  PROVE  /\ call' \in [Clients -> [at : {"none", "sent", "answered"},
                                   request : Request, answer : Answer]]
         /\ late' \subseteq Request /\ IsFiniteSet(late') /\ Cardinality(late') <= MaxLate
         /\ call'[c].at = "none" /\ call'[c].request = Plain("challenge")
         /\ \A b \in Clients \ {c} : call'[b] = call[b]
         /\ \A r \in Requests' : r \in Requests \/ r = Plain("challenge")
<1>1. /\ NoCall \in [at : {"none", "sent", "answered"}, request : Request, answer : Answer]
      /\ NoCall.at = "none" /\ NoCall.request = Plain("challenge")
  BY ConstantsAssumption DEF NoCall, Plain, NoAnswer, Request, Answer, Ids
<1>2. call' = [call EXCEPT ![c] = NoCall]
  BY DEF GiveUp
<1>3. late' \subseteq Request /\ IsFiniteSet(late') /\ Cardinality(late') <= MaxLate
      /\ late' \subseteq late \cup {call[c].request}
  <2>1. CASE late' = late
    BY <2>1 DEF Shape
  <2>2. CASE Cardinality(late) < MaxLate /\ late' = late \cup {call[c].request}
    <3>1. /\ IsFiniteSet(late') /\ Cardinality(late) \in Nat
          /\ Cardinality(late') <= Cardinality(late) + 1
      BY <2>2, OneMore DEF Shape
    <3>2. Cardinality(late') \in Nat
      BY <3>1, FS_CardinalityType
    <3> QED
      BY <2>2, <3>1, <3>2, ConstantsAssumption DEF Shape
  <2> QED
    BY <2>1, <2>2 DEF GiveUp
<1> QED
  BY <1>1, <1>2, <1>3 DEF Shape, Requests

LEMMA Prints ==
  ASSUME Shape, NEW line \in Line, PrintLine(line)
  PROVE  /\ lines' \in Seq(Line)
         /\ \A i \in 1 .. Len(lines') : Said(lines'[i]) \/ lines'[i] = line
<1>1. lines \in Seq(Line)
  BY DEF Shape
<1>2. CASE lines' = lines
  BY <1>1, <1>2 DEF Said
<1>3. CASE lines' = Append(lines, line)
  <2>1. /\ lines' \in Seq(Line) /\ Len(lines') = Len(lines) + 1
        /\ \A i \in 1 .. Len(lines') : lines'[i] = IF i <= Len(lines) THEN lines[i] ELSE line
    BY <1>1, <1>3
  <2> QED
    BY <1>1, <2>1 DEF Said
<1> QED
  BY <1>2, <1>3 DEF PrintLine

\* What a board may print.
Honest(line) ==
  \/ line = "ERROR"
  \/ line = "READY" /\ board.secret = 0
  \/ line = "OK" /\ board.secret # 0
  \/ line = "CONNECTED" /\ board.secret # 0 /\ board.cert # 0

\* The board keeps its secret and its certificate, asks with its own secret, and
\* prints what is true.
LEMMA BoardKeeps ==
  ASSUME IInv, Shape', Phases',
         board'.secret = board.secret, board'.cert = board.cert, UNCHANGED <<server, station>>,
         wire' \in {wire, 0}, call'["station"] = call["station"],
         \A r \in Requests' : r \in Requests \/ r.kind # "enroll"
                               \/ (board.secret # 0 /\ r.secret = board.secret),
         board'.at = "enrolling" /\ Answered("board", "ok")' =>
           board.at = "enrolling" /\ Answered("board", "ok") /\ call'["board"] = call["board"],
         \A i \in 1 .. Len(lines') : Said(lines'[i]) \/ Honest(lines'[i])
  PROVE  IInv'
<1>1. \A s : Asked(s)' => Asked(s) \/ (board.secret # 0 /\ s = board.secret)
  BY DEF Asked
<1>2. SecretsUnused'
  <2>1. \A s : OnItsWay(s) /\ board.secret = 0 => OnItsWay(s)'
    BY <1>1 DEF OnItsWay, Asked
  <2>2. station.at \in {"register", "rotate"} => board.secret = 0
    BY DEF IInv, Heard
  <2>3. ~Asked(0)'
    BY <1>1 DEF IInv, SecretsUnused
  <2>4. (board.secret # 0 /\ Asked(server.secret) => board.secret = server.secret)'
    BY <1>1 DEF IInv, SecretsUnused, Asked
  <2>5. (wire # 0 => OnItsWay(wire) /\ board.secret = 0)'
    BY <2>1 DEF IInv, SecretsUnused, OnItsWay, Asked
  <2>6. (station.at \in {"register", "rotate"} /\ Answered("station", "ok") =>
           OnItsWay(call["station"].answer.value))'
    BY <2>1, <2>2 DEF IInv, SecretsUnused, OnItsWay, Asked, Answered
  <2> QED
    BY <2>3, <2>4, <2>5, <2>6 DEF SecretsUnused
<1>3. CertsCurrent'
  BY DEF IInv, CertsCurrent, Certified
<1>4. Heard'
  <2>1. /\ Said("READY")' => Said("READY") \/ board.secret = 0
        /\ Boasts' => Boasts \/ board.secret # 0
        /\ Said("CONNECTED")' => Said("CONNECTED") \/ board.cert # 0
    BY DEF Boasts, Said, Honest
  <2> QED
    BY <2>1 DEF IInv, Heard
<1> QED
  BY <1>2, <1>3, <1>4 DEF IInv

Board == [at : {"boot", "factory", "stored", "challenging", "enrolling", "running"},
          secret : Ids, cert : Ids, connected : BOOLEAN,
          clock : {"unset", "right", "wrong"}, trusts : BOOLEAN]

LEMMA Restarts ==
  ASSUME NEW b \in Board
  PROVE  /\ Restarted(b) \in Board /\ PoweredUp(b) \in Board
         /\ Restarted(b).at = "boot" /\ PoweredUp(b).at = "boot"
         /\ Restarted(b).secret = b.secret /\ PoweredUp(b).secret = b.secret
         /\ Restarted(b).cert = b.cert /\ PoweredUp(b).cert = b.cert
  BY DEF Restarted, PoweredUp, Board

\* Without requests.
LEMMA BoardAlone ==
  ASSUME IInv, UNCHANGED <<server, station, call, late>>,
         board' \in Board, board'.secret = board.secret, board'.cert = board.cert,
         board'.at \in {"boot", "factory", "running"} \/ board' = board,
         board.at \notin {"challenging", "enrolling"},
         board'.at = "factory" => board.secret = 0,
         board'.at = "running" => board.secret # 0 /\ board.cert # 0,
         wire' \in {wire, 0}, lines' \in Seq(Line),
         \A i \in 1 .. Len(lines') : Said(lines'[i]) \/ Honest(lines'[i])
  PROVE  IInv'
<1>1. Shape'
  BY ConstantsAssumption DEF IInv, Shape, Board, Ids
<1>2. Phases'
  BY DEF IInv, Phases
<1>3. Requests' = Requests
  BY DEF Requests
<1> QED
  BY <1>1, <1>2, <1>3, BoardKeeps DEF Answered

\* A restart, in whatever phase, and nobody waits for an answer any more.
LEMMA BoardRestarts ==
  ASSUME IInv, UNCHANGED <<server, station, lines>>, wire' \in {wire, 0},
         board' \in {Restarted(board), PoweredUp(board)}, GiveUp("board")
  PROVE  IInv'
<1>1. board \in Board /\ Shape /\ "board" \in Clients
  BY DEF IInv, Shape, Board, Clients
<1>2. /\ board' \in Board /\ board'.at = "boot"
      /\ board'.secret = board.secret /\ board'.cert = board.cert
  BY <1>1, Restarts
<1>3. Shape'
  BY <1>1, <1>2, GivesUp, ConstantsAssumption DEF Shape, Board, Ids
<1>4. call'["station"] = call["station"] /\ call'["board"].at = "none"
  BY <1>1, GivesUp DEF Clients
<1>5. Phases'
  BY <1>2, <1>4 DEF IInv, Phases
<1>6. \A r \in Requests' : r \in Requests \/ r.kind # "enroll"
  BY <1>1, GivesUp DEF Plain
<1> QED
  BY <1>2, <1>3, <1>4, <1>5, <1>6, BoardKeeps DEF Said

\* A request of the board, once the last one is answered.
LEMMA BoardAsks ==
  ASSUME IInv, NEW new \in Board, NEW request \in Request, Send("board", request),
         board' = new, UNCHANGED <<server, station, late, wire, lines>>,
         new.secret = board.secret, new.cert = board.cert,
         board.secret # 0, board.cert = 0,
         \/ new.at = "challenging" /\ request.kind = "challenge"
         \/ new.at = "enrolling" /\ request.kind = "enroll" /\ request.secret = board.secret
  PROVE  IInv'
<1> DEFINE sent == [at |-> "sent", request |-> request, answer |-> NoAnswer]
<1>1. /\ sent \in [at : {"none", "sent", "answered"}, request : Request, answer : Answer]
      /\ sent.at = "sent" /\ sent.request = request
  BY ConstantsAssumption DEF NoAnswer, Answer, Ids
<1>2. call' = [call EXCEPT !["board"] = sent] /\ "board" \in Clients /\ "station" \in Clients
  BY DEF Send, Clients
<1> HIDE DEF sent
<1>3. /\ call'["board"] = sent /\ call'["station"] = call["station"]
      /\ call' \in [Clients -> [at : {"none", "sent", "answered"},
                               request : Request, answer : Answer]]
  BY <1>1, <1>2 DEF IInv, Shape
<1>4. Shape'
  BY <1>3 DEF IInv, Shape, Board
<1>5. Phases'
  BY <1>1, <1>3 DEF IInv, Phases
<1>6. \A r \in Requests' : r \in Requests \/ r = request
  BY <1>1, <1>3 DEF Requests, Clients
<1>7. ~Answered("board", "ok")'
  BY <1>1, <1>3 DEF Answered
<1> QED
  BY <1>3, <1>4, <1>5, <1>6, <1>7, BoardKeeps DEF Said

LEMMA BoardStepsKeep ==
  ASSUME IInv, BoardSteps
  PROVE  IInv'
<1> USE DEF Line
<1>1. board \in Board /\ Shape /\ Phases /\ lines \in Seq(Line)
  BY DEF IInv, Shape, Board
<1>2. CASE SynchronizeClock
  <2>1. PICK time \in {"right", "wrong"} : board' = [board EXCEPT !.clock = time]
    BY <1>2 DEF SynchronizeClock, SignedTime
  <2>2. /\ board' \in Board /\ board'.at = "boot" /\ board.at = "boot"
        /\ board'.secret = board.secret /\ board'.cert = board.cert
    BY <1>1, <1>2, <2>1 DEF SynchronizeClock, Board
  <2> QED
    BY <1>1, <1>2, <2>2, BoardAlone DEF SynchronizeClock, Said
<1>3. ASSUME NoIdentity \/ Provisioned,
             UNCHANGED <<server, station, late, wire, lines, outcome, quiet>>
      PROVE  IInv'
  <2>1. /\ board' \in Board /\ board.at = "boot" /\ UNCHANGED call
        /\ board'.secret = board.secret /\ board'.cert = board.cert
        /\ \/ board'.at = "factory" /\ board.secret = 0
           \/ board'.at = "running" /\ board.secret # 0 /\ board.cert # 0
    BY <1>1, <1>3 DEF NoIdentity, Provisioned, Board
  <2> QED
    BY <1>1, <1>3, <2>1, BoardAlone DEF Said
<1>4. ASSUME RequestChallenge,
             UNCHANGED <<server, station, late, wire, lines, outcome, quiet>>
      PROVE  IInv'
  <2>1. /\ board' \in Board /\ board'.at = "challenging"
        /\ board.secret # 0 /\ board.cert = 0 /\ Send("board", Plain("challenge"))
        /\ board'.secret = board.secret /\ board'.cert = board.cert
    BY <1>1, <1>4 DEF RequestChallenge, Board
  <2>2. Plain("challenge") \in Request /\ Plain("challenge").kind = "challenge"
    BY ConstantsAssumption DEF Plain, Request, Ids
  <2> QED
    BY <1>4, <2>1, <2>2, BoardAsks
<1>5. CASE AnnounceReady
  <2>1. \A i \in 1 .. Len(lines') : Said(lines'[i]) \/ lines'[i] = "READY"
    BY <1>1, <1>5, Prints DEF AnnounceReady
  <2>2. lines' \in Seq(Line) /\ board.secret = 0
    BY <1>1, <1>5, Prints DEF AnnounceReady, Phases
  <2> QED
    BY <1>1, <1>5, <2>1, <2>2, BoardAlone DEF AnnounceReady, Honest
<1>6. CASE StoreIdentity
  <2>1. /\ board' = [board EXCEPT !.at = "stored", !.secret = wire] /\ wire # 0 /\ wire' = 0
        /\ board.at = "factory" /\ UNCHANGED <<server, station, call, late, lines>>
    BY <1>6 DEF StoreIdentity
  <2>2. /\ board' \in Board /\ board'.at = "stored" /\ board'.secret = wire
        /\ board'.cert = board.cert
    BY <1>1, <2>1 DEF Board, Shape
  <2>3. board.secret = 0 /\ board.cert = 0 /\ OnItsWay(wire)
    BY <1>1, <2>1 DEF IInv, Phases, SecretsUnused
  <2>4. Shape'
    BY <1>1, <2>1, <2>2, ConstantsAssumption DEF Shape, Board, Ids
  <2>5. Phases'
    BY <1>1, <2>1, <2>2 DEF Phases
  <2>6. SecretsUnused'
    <3>1. \A s : Asked(s)' <=> Asked(s)
      BY <2>1 DEF Asked, Requests
    <3>2. ~Asked(server.secret) /\ ~Asked(server.secret)'
      BY <2>1, <2>3, <3>1 DEF OnItsWay, Asked, Requests
    <3>3. station.at \notin {"register", "rotate"}
      BY <2>1 DEF IInv, Heard
    <3> QED
      BY <2>1, <3>1, <3>2, <3>3 DEF IInv, SecretsUnused
  <2>7. CertsCurrent'
    BY <2>2, <2>3 DEF CertsCurrent
  <2>8. Heard'
    <3>1. \A x : Said(x)' <=> Said(x)
      BY <2>1 DEF Said
    <3>2. (Said("CONNECTED")' <=> Said("CONNECTED")) /\ (Boasts' <=> Boasts)
          /\ (Said("READY")' <=> Said("READY"))
      BY <3>1 DEF Boasts
    <3> QED
      BY <2>1, <2>2, <2>3, <3>2 DEF IInv, Heard
  <2> QED
    BY <2>4, <2>5, <2>6, <2>7, <2>8 DEF IInv
<1>7. CASE RejectIdentity
  <2>1. lines' \in Seq(Line) /\ \A i \in 1 .. Len(lines') : Said(lines'[i]) \/ lines'[i] = "ERROR"
    BY <1>1, <1>7, Prints DEF RejectIdentity
  <2>2. board.secret = 0
    BY <1>1, <1>7 DEF RejectIdentity, Phases
  <2> QED
    BY <1>1, <1>7, <2>1, <2>2, BoardAlone DEF RejectIdentity, Honest
<1>8. CASE ConfirmIdentity
  <2>1. lines' \in Seq(Line) /\ \A i \in 1 .. Len(lines') : Said(lines'[i]) \/ lines'[i] = "OK"
    BY <1>1, <1>8, Prints DEF ConfirmIdentity
  <2>2. board.at = "stored" /\ board.secret # 0
    BY <1>1, <1>8 DEF ConfirmIdentity, Phases
  <2>3. /\ board' \in Board /\ board'.at = "boot"
        /\ board'.secret = board.secret /\ board'.cert = board.cert
    BY <1>1, <1>8, Restarts DEF ConfirmIdentity
  <2> QED
    BY <1>1, <1>8, <2>1, <2>2, <2>3, BoardAlone DEF ConfirmIdentity, Honest
<1>9. CASE ChallengeGranted
  <2> DEFINE request == EnrollRequest(call["board"].answer.value)
  <2>1. /\ board' \in Board /\ board'.at = "enrolling" /\ Send("board", request)
        /\ board'.secret = board.secret /\ board'.cert = board.cert
        /\ board.secret # 0 /\ board.cert = 0
    BY <1>1, <1>9 DEF ChallengeGranted, Phases, Board
  <2>2. request \in Request /\ request.kind = "enroll" /\ request.secret = board.secret
    BY <1>1 DEF EnrollRequest, Request, Shape, Clients, Answer
  <2> HIDE DEF request
  <2> QED
    BY <1>9, <2>1, <2>2, BoardAsks DEF ChallengeGranted
<1>10. CASE StoreCredentials
  <2> DEFINE cert == call["board"].answer.value
  <2>1. /\ board.at = "enrolling" /\ Answered("board", "ok") /\ cert \in Ids
        /\ board' = [board EXCEPT !.at = "running", !.cert = cert]
        /\ call' = [call EXCEPT !["board"] = NoCall]
        /\ UNCHANGED <<server, station, late, wire, lines>>
    BY <1>1, <1>10 DEF StoreCredentials, Completed, Shape, Clients, Answer
  <2>2. cert # 0 /\ Certified(cert) /\ board.secret # 0
    BY <1>1, <2>1 DEF IInv, CertsCurrent, Phases
  <2> HIDE DEF cert
  <2>3. /\ board' \in Board /\ board'.at = "running" /\ board'.cert = cert
        /\ board'.secret = board.secret
    BY <1>1, <2>1 DEF Board
  <2>4. /\ NoCall \in [at : {"none", "sent", "answered"}, request : Request, answer : Answer]
        /\ NoCall.at = "none" /\ NoCall.request = Plain("challenge")
        /\ Plain("challenge").kind = "challenge"
    BY ConstantsAssumption DEF NoCall, Plain, NoAnswer, Request, Answer, Ids
  <2>5. /\ call'["board"] = NoCall /\ call'["station"] = call["station"]
        /\ call' \in [Clients -> [at : {"none", "sent", "answered"},
                                 request : Request, answer : Answer]]
    BY <1>1, <2>1, <2>4 DEF Shape, Clients
  <2>6. Shape'
    BY <1>1, <2>1, <2>3, <2>5 DEF Shape, Board
  <2>7. Phases'
    BY <1>1, <2>1, <2>2, <2>3, <2>4, <2>5 DEF Phases
  <2>8. \A r \in Requests' : r \in Requests \/ r.kind # "enroll"
    BY <2>1, <2>4, <2>5 DEF Requests, Clients
  <2>9. SecretsUnused'
    <3>1. \A s : Asked(s)' => Asked(s)
      BY <2>8 DEF Asked
    <3>2. \A s : OnItsWay(s) => OnItsWay(s)'
      BY <2>1, <3>1 DEF OnItsWay, Asked
    <3>3. wire = 0 /\ station.at \notin {"register", "rotate"}
      BY <2>2 DEF IInv, SecretsUnused, Heard
    <3> QED
      BY <2>1, <2>3, <3>1, <3>3 DEF IInv, SecretsUnused, Asked
  <2>10. CertsCurrent'
    BY <2>1, <2>2, <2>3 DEF CertsCurrent, Certified
  <2>11. Heard'
    <3>1. (Said("CONNECTED")' <=> Said("CONNECTED")) /\ (Boasts' <=> Boasts)
          /\ (Said("READY")' <=> Said("READY"))
      BY <2>1 DEF Boasts, Said
    <3> QED
      BY <2>1, <2>2, <2>3, <3>1 DEF IInv, Heard
  <2> QED
    BY <2>6, <2>7, <2>9, <2>10, <2>11 DEF IInv
<1>11. CASE BootstrapFails \/ PowerLoss
  BY <1>11, BoardRestarts DEF BootstrapFails, PowerLoss
<1>12. CASE ConnectMqtt
  <2>1. lines' \in Seq(Line) /\ \A i \in 1 .. Len(lines') : Said(lines'[i]) \/ lines'[i] = "CONNECTED"
    BY <1>1, <1>12, Prints DEF ConnectMqtt
  <2>2. board.at = "running" /\ board.secret # 0 /\ board.cert # 0
    BY <1>1, <1>12 DEF ConnectMqtt, Phases
  <2>3. /\ board' \in Board /\ board'.at = "running"
        /\ board'.secret = board.secret /\ board'.cert = board.cert
    BY <1>1, <1>12 DEF ConnectMqtt, Board
  <2> QED
    BY <1>1, <1>12, <2>1, <2>2, <2>3, BoardAlone DEF ConnectMqtt, Honest
<1>13. CASE LoseMqtt
  <2>1. /\ board' \in Board /\ board'.at = board.at
        /\ board'.secret = board.secret /\ board'.cert = board.cert
    BY <1>1, <1>13 DEF LoseMqtt, Board
  <2>2. Shape' /\ Phases' /\ Requests' = Requests
    BY <1>1, <1>13, <2>1 DEF LoseMqtt, Shape, Phases, Board, Requests
  <2> QED
    BY <1>13, <2>1, <2>2, BoardKeeps DEF LoseMqtt, Said, Answered
<1> QED
  BY <1>2, <1>3, <1>4, <1>5, <1>6, <1>7, <1>8, <1>9, <1>10, <1>11, <1>12, <1>13
     DEF BoardSteps, Begin

-----------------------------------------------------------------------------
(* The station.                                                            *)

LEMMA Reads ==
  ASSUME Shape, lines # <<>>, lines' = Tail(lines)
  PROVE  /\ lines' \in Seq(Line) /\ Said(Head(lines))
         /\ \A i \in 1 .. Len(lines') : Said(lines'[i])
<1>1. lines \in Seq(Line) /\ lines # <<>>
  BY DEF Shape
<1>2. /\ lines' \in Seq(Line) /\ Len(lines) \in Nat /\ Len(lines) > 0
      /\ Len(lines') = Len(lines) - 1
      /\ \A i \in 1 .. Len(lines') : lines'[i] = lines[i + 1]
      /\ Head(lines) = lines[1]
  BY <1>1
<1>3. \A i \in 1 .. Len(lines') : i + 1 \in 1 .. Len(lines)
  BY <1>2
<1> QED
  BY <1>2, <1>3 DEF Said

\* What is read away was there before.
LEMMA ReadsNoMore ==
  ASSUME \A i \in 1 .. Len(lines') : Said(lines'[i])
  PROVE  /\ Said("READY")' => Said("READY")
         /\ Said("CONNECTED")' => Said("CONNECTED")
         /\ Boasts' => Boasts
  BY DEF Boasts, Said

\* The station asks nothing that the board would ask.
LEMMA StationKeeps ==
  ASSUME IInv, Shape', Phases', Heard', UNCHANGED <<server, board>>,
         call'["board"] = call["board"],
         \A r \in Requests' : r \in Requests \/ r.kind # "enroll",
         wire' = wire \/ (OnItsWay(wire') /\ board.secret = 0),
         station'.at \in {"register", "rotate"} /\ Answered("station", "ok")' =>
           /\ station.at \in {"register", "rotate"} /\ Answered("station", "ok")
           /\ call'["station"] = call["station"]
  PROVE  IInv'
<1>1. \A s : Asked(s)' => Asked(s)
  BY DEF Asked
<1>2. \A s : OnItsWay(s) => OnItsWay(s)'
  BY <1>1 DEF OnItsWay, Asked
<1>3. SecretsUnused'
  <2>1. ~Asked(0)' /\ (Asked(server.secret)' => Asked(server.secret))
    BY <1>1 DEF IInv, SecretsUnused, Asked
  <2>2. (wire # 0 => OnItsWay(wire) /\ board.secret = 0)'
    BY <1>2 DEF IInv, SecretsUnused, OnItsWay, Asked
  <2>3. (station.at \in {"register", "rotate"} /\ Answered("station", "ok") =>
           OnItsWay(call["station"].answer.value))'
    BY <1>2 DEF IInv, SecretsUnused, OnItsWay, Asked, Answered
  <2> QED
    BY <2>1, <2>2, <2>3 DEF IInv, SecretsUnused
<1>4. CertsCurrent'
  BY DEF IInv, CertsCurrent, Certified, Answered
<1> QED
  BY <1>3, <1>4 DEF IInv

Station == [at : {"idle", "ready", "register", "rotate", "inject", "observe"},
            reset : BOOLEAN, program : BOOLEAN, secret : Ids]

\* The run goes on; nothing is sent.
LEMMA StationGoesOn ==
  ASSUME IInv, UNCHANGED <<server, board, call, late, wire>>, station' \in Station,
         lines' \in Seq(Line), Heard',
         station'.at \in {"register", "rotate"} <=> station.at \in {"register", "rotate"}
  PROVE  IInv'
<1>1. Shape' /\ Phases' /\ Requests' = Requests
  BY DEF IInv, Shape, Phases, Station, Requests
<1> QED
  BY <1>1, StationKeeps DEF Answered

\* The station asks the API.
LEMMA StationAsks ==
  ASSUME IInv, NEW kind \in {"register", "reset"}, Send("station", Plain(kind)),
         UNCHANGED <<server, board, late, wire>>, station' \in Station,
         station'.at \in {"register", "rotate"}, lines' \in Seq(Line), Heard'
  PROVE  IInv'
<1> DEFINE sent == [at |-> "sent", request |-> Plain(kind), answer |-> NoAnswer]
<1>1. /\ Plain(kind).kind = kind /\ Plain(kind).secret = 0 /\ Plain(kind).session = 0
      /\ sent \in [at : {"none", "sent", "answered"}, request : Request, answer : Answer]
      /\ sent.at = "sent" /\ sent.request = Plain(kind)
  BY ConstantsAssumption DEF Plain, NoAnswer, Answer, Request, Ids
<1>2. call' = [call EXCEPT !["station"] = sent] /\ "board" \in Clients /\ "station" \in Clients
  BY DEF Send, Clients
<1> HIDE DEF sent
<1>3. /\ call'["station"] = sent /\ call'["board"] = call["board"]
      /\ call' \in [Clients -> [at : {"none", "sent", "answered"},
                               request : Request, answer : Answer]]
  BY <1>1, <1>2 DEF IInv, Shape
<1>4. Shape' /\ Phases'
  BY <1>1, <1>3 DEF IInv, Shape, Phases, Station
<1>5. \A r \in Requests' : r \in Requests \/ r.kind # "enroll"
  BY <1>1, <1>3 DEF Requests, Clients
<1>6. ~Answered("station", "ok")'
  BY <1>1, <1>3 DEF Answered
<1> QED
  BY <1>3, <1>4, <1>5, <1>6, StationKeeps

\* The run ends.
LEMMA RunEnds ==
  ASSUME IInv, station' = Idle, GiveUp("station"), UNCHANGED <<server, board, wire>>,
         lines' \in Seq(Line)
  PROVE  IInv'
<1>1. /\ Idle \in Station /\ Idle.at = "idle" /\ "station" \in Clients /\ "board" \in Clients
      /\ Plain("challenge").secret = 0 /\ Plain("challenge").session = 0
      /\ Plain("challenge").kind = "challenge"
  BY ConstantsAssumption DEF Idle, Station, Clients, Plain, Ids
<1>2. Shape' /\ call'["board"] = call["board"]
  BY <1>1, GivesUp DEF IInv, Shape, Station
<1>3. Phases' /\ Heard'
  BY <1>1, <1>2, GivesUp DEF IInv, Phases, Heard
<1>4. \A r \in Requests' : r \in Requests \/ r.kind # "enroll"
  BY <1>1, GivesUp DEF IInv
<1> QED
  BY <1>1, <1>2, <1>3, <1>4, StationKeeps

LEMMA OpenKeeps ==
  ASSUME IInv, NEW reset \in BOOLEAN, NEW program \in BOOLEAN, Open(reset, program)
  PROVE  IInv'
<1>1. /\ station.at = "idle" /\ wire = 0 /\ lines' = <<>> /\ UNCHANGED <<server, wire>>
      /\ station' = [at |-> "ready", reset |-> reset, program |-> program, secret |-> 0]
      /\ \/ board' = Blank /\ GiveUp("board")
         \/ board' = PoweredUp(board) /\ GiveUp("board")
         \/ UNCHANGED <<board, call, late>>
  BY DEF Open, InputAfterOpen
<1>2. /\ board \in Board /\ Shape /\ Phases /\ "board" \in Clients /\ "station" \in Clients
      /\ Blank \in Board /\ Blank.at = "boot" /\ Blank.secret = 0 /\ Blank.cert = 0
      /\ Plain("challenge").kind = "challenge"
  BY ConstantsAssumption DEF IInv, Shape, Board, Clients, Blank, Ids, Plain
\* The board keeps both its secret and its certificate, or loses both.
<1>3. /\ board' \in Board /\ (board'.at = "boot" \/ UNCHANGED <<board, call, late>>)
      /\ \/ board'.secret = board.secret /\ board'.cert = board.cert
         \/ board'.secret = 0 /\ board'.cert = 0
  BY <1>1, <1>2, Restarts
<1>4. /\ call' \in [Clients -> [at : {"none", "sent", "answered"},
                               request : Request, answer : Answer]]
      /\ late' \subseteq Request /\ IsFiniteSet(late') /\ Cardinality(late') <= MaxLate
      /\ call'["station"] = call["station"]
      /\ call'["board"].at = "none" \/ UNCHANGED <<board, call, late>>
      /\ \A r \in Requests' : r \in Requests \/ r.kind # "enroll"
  <2>1. CASE GiveUp("board")
    BY <1>2, <2>1, GivesUp
  <2>2. CASE UNCHANGED <<board, call, late>>
    BY <1>2, <2>2 DEF Shape, Requests
  <2> QED
    BY <1>1, <2>1, <2>2
<1>5. Shape'
  BY <1>1, <1>2, <1>3, <1>4, ConstantsAssumption DEF Shape, Board, Ids, Station
<1>6. Phases'
  BY <1>1, <1>2, <1>3, <1>4 DEF Phases
<1>7. SecretsUnused'
  <2>1. \A s : Asked(s)' => Asked(s)
    BY <1>4 DEF Asked
  <2> QED
    BY <1>1, <1>3, <2>1 DEF IInv, SecretsUnused, Asked
<1>8. CertsCurrent'
  BY <1>1, <1>2, <1>3, <1>4 DEF IInv, CertsCurrent, Certified, Answered
<1>9. Heard'
  BY <1>1 DEF Heard, Boasts, Said
<1> QED
  BY <1>5, <1>6, <1>7, <1>8, <1>9 DEF IInv

LEMMA StationStepsKeep ==
  ASSUME IInv, StationSteps
  PROVE  IInv'
<1> USE DEF Line
<1>1. station \in Station /\ Shape /\ Phases /\ lines \in Seq(Line) /\ 0 \in Ids
  BY ConstantsAssumption DEF IInv, Shape, Station, Ids
<1>2. CASE \E reset, program \in BOOLEAN : Open(reset, program)
  BY <1>2, OpenKeeps
<1>3. CASE SkipLine
  <2>1. /\ lines' \in Seq(Line) /\ UNCHANGED <<server, board, station, call, late, wire>>
        /\ \A i \in 1 .. Len(lines') : Said(lines'[i])
    BY <1>1, <1>3, Reads DEF SkipLine
  <2>2. Heard'
    BY <2>1, ReadsNoMore DEF IInv, Heard
  <2> QED
    BY <1>1, <2>1, <2>2, StationGoesOn
<1>4. CASE ReadReady
  <2> DEFINE new == [station EXCEPT !.at = "register"]
  <2>1. /\ new \in Station /\ new.at = "register" /\ station' = new
        /\ station.at = "ready" /\ Send("station", Plain("register"))
        /\ UNCHANGED <<server, board, late, wire>>
    BY <1>1, <1>4 DEF ReadReady, Find, Station
  <2>2. /\ lines' \in Seq(Line) /\ Said("READY") /\ \A i \in 1 .. Len(lines') : Said(lines'[i])
    BY <1>1, <1>4, Reads DEF ReadReady, Find
  <2>3. Heard'
    BY <2>1, <2>2, ReadsNoMore DEF IInv, Heard
  <2> HIDE DEF new
  <2> QED
    BY <2>1, <2>2, <2>3, StationAsks
<1>5. CASE TryReset
  <2> DEFINE new == [station EXCEPT !.at = "rotate"]
  <2>1. /\ new \in Station /\ new.at = "rotate" /\ station' = new
        /\ station.at = "register" /\ Send("station", Plain("reset"))
        /\ UNCHANGED <<server, board, late, wire, lines>>
    BY <1>1, <1>5 DEF TryReset, Station
  <2>2. Heard'
    BY <2>1 DEF IInv, Heard, Boasts, Said
  <2> HIDE DEF new
  <2> QED
    BY <1>1, <2>1, <2>2, StationAsks
<1>6. CASE SendIdentity
  <2> DEFINE secret == call["station"].answer.value
             new == [station EXCEPT !.at = "inject", !.secret = secret]
  <2>1. /\ station.at \in {"register", "rotate"} /\ Answered("station", "ok")
        /\ station' = new /\ wire' = secret /\ call' = [call EXCEPT !["station"] = NoCall]
        /\ UNCHANGED <<server, board, late, lines>>
    BY <1>6 DEF SendIdentity
  <2>2. OnItsWay(secret) /\ secret # 0 /\ board.secret = 0 /\ ~Boasts /\ secret \in Ids
    BY <1>1, <2>1 DEF IInv, SecretsUnused, Heard, OnItsWay, Shape, Clients, Answer
  <2> HIDE DEF secret
  <2>3. new \in Station /\ new.at = "inject" /\ new.secret = secret
    BY <1>1, <2>2 DEF Station
  <2> HIDE DEF new
  <2>4. /\ NoCall \in [at : {"none", "sent", "answered"}, request : Request, answer : Answer]
        /\ NoCall.at = "none" /\ NoCall.request = Plain("challenge")
        /\ Plain("challenge").kind = "challenge" /\ Plain("challenge").secret = 0
        /\ Plain("challenge").session = 0
    BY ConstantsAssumption DEF NoCall, Plain, NoAnswer, Request, Answer, Ids
  <2>5. /\ call'["station"] = NoCall /\ call'["board"] = call["board"]
        /\ call' \in [Clients -> [at : {"none", "sent", "answered"},
                                 request : Request, answer : Answer]]
    BY <1>1, <2>1, <2>4 DEF Shape, Clients
  <2>6. Shape' /\ Phases'
    BY <1>1, <2>1, <2>2, <2>3, <2>4, <2>5 DEF Shape, Phases, Station
  <2>7. \A r \in Requests' : r \in Requests \/ r.kind # "enroll"
    BY <2>1, <2>4, <2>5 DEF Requests, Clients
  <2>8. Heard'
    BY <2>1, <2>2, <2>3 DEF IInv, Heard, Boasts, Said
  <2> QED
    BY <2>1, <2>2, <2>3, <2>5, <2>6, <2>7, <2>8, StationKeeps
<1>7. CASE ReadConfirmation
  <2> DEFINE new == [station EXCEPT !.at = "observe"]
  <2>1. /\ new \in Station /\ new.at = "observe" /\ new.secret = station.secret
        /\ station' = new /\ station.at = "inject"
        /\ UNCHANGED <<server, board, call, late, wire>>
    BY <1>1, <1>7 DEF ReadConfirmation, Find, Station
  <2>2. /\ lines' \in Seq(Line) /\ Said("OK") /\ \A i \in 1 .. Len(lines') : Said(lines'[i])
    BY <1>1, <1>7, Reads DEF ReadConfirmation, Find
  <2> HIDE DEF new
  <2>3. Heard'
    BY <2>1, <2>2, ReadsNoMore DEF IInv, Heard, Boasts
  <2> QED
    BY <2>1, <2>2, <2>3, StationGoesOn
<1>8. CASE ReadError \/ ReadConnected
  BY <1>1, <1>8, Reads, RunEnds DEF ReadError, ReadConnected, Find, EndRun
<1>9. CASE StationGivesUp
  BY <1>1, <1>9, RunEnds DEF StationGivesUp, EndRun
<1> QED
  BY <1>2, <1>3, <1>4, <1>5, <1>6, <1>7, <1>8, <1>9 DEF StationSteps

LEMMA NextIInv == IInv /\ [Next]_vars => IInv'
<1> SUFFICES ASSUME IInv, [Next]_vars PROVE IInv'
  OBVIOUS
<1>1. CASE Settle \/ UNCHANGED vars
  <2>1. UNCHANGED <<server, board, station, call, late, wire, lines>>
    BY <1>1 DEF Settle, vars
  <2> QED
    BY <2>1 DEF IInv, Shape, Phases, SecretsUnused, OnItsWay, Asked, Requests, Answered,
       CertsCurrent, Certified, Heard, Boasts, Said
<1> QED
  BY <1>1, ServeKeeps, RowKeeps, BoardStepsKeep, StationStepsKeep DEF Next

LEMMA SpecIInv == Spec => []IInv
  BY InitIInv, NextIInv, PTL DEF Spec

-----------------------------------------------------------------------------
(* Theorems.                                                               *)

\* Whatever is abandoned and served late, rotated, revoked or cleared: if the
\* registry has the device provisioned, it is with the certificate the board
\* holds (enroll_device, reset_bootstrap_secret).
THEOREM HeldCertificateIsCurrent == Spec => []HeldIsCurrent
<1>1. IInv => HeldIsCurrent
  BY DEF IInv, CertsCurrent, Certified, HeldIsCurrent
<1> QED
  BY <1>1, SpecIInv, PTL

\* When the station reports READY, the board runs with the identity this run has
\* given it, and has a certificate: no line of an earlier run, and no identity
\* of an earlier run, is taken for it (provision_device).
THEOREM ReadyBoardIsVerified == Spec => ReadyIsVerified
<1>1. ASSUME IInv, [Next]_vars, outcome # "ready", outcome' = "ready"
      PROVE  board.secret = station.secret /\ board.cert # 0
  <2>1. ReadConnected
    <3>1. CASE UNCHANGED vars
      BY <1>1, <3>1 DEF vars
    <3>2. CASE \E o \in Origins : Serve(o)
      BY <1>1, <3>2 DEF Serve, CreateChallenge, EnrollDevice, CreateDevice, ResetDevice, Refuse,
         Fail, ServerOnly
    <3>3. CASE Expire \/ Revoke \/ ResetBootstrap \/ ClearRegistry \/ ForceSetup \/ Settle
      BY <1>1, <3>3 DEF Expire, Revoke, ResetBootstrap, ClearRegistry, ForceSetup, Settle,
         ServerOnly
    <3>4. CASE BoardSteps
      BY <1>1, <3>4 DEF BoardSteps, SynchronizeClock, Begin, AnnounceReady, StoreIdentity,
         RejectIdentity, ConfirmIdentity, ChallengeGranted, StoreCredentials, BootstrapFails,
         ConnectMqtt, LoseMqtt, PowerLoss
    <3>5. CASE StationSteps
      BY <1>1, <3>5 DEF StationSteps, Open, SkipLine, ReadReady, TryReset, SendIdentity,
         ReadConfirmation, ReadError, StationGivesUp, EndRun
    <3> QED
      BY <1>1, <3>1, <3>2, <3>3, <3>4, <3>5 DEF Next
  <2>2. station.at = "observe" /\ Said("CONNECTED")
    BY <1>1, <2>1, Reads DEF ReadConnected, Find, IInv
  <2> QED
    BY <1>1, <2>2 DEF IInv, Heard
<1>2. IInv /\ [Next]_vars =>
        (outcome # "ready" /\ outcome' = "ready" =>
           board.secret = station.secret /\ board.cert # 0)
  BY <1>1
<1> QED
  BY <1>2, SpecIInv, PTL DEF Spec, ReadyIsVerified

=============================================================================
