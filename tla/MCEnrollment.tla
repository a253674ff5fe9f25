---------------------------- MODULE MCEnrollment ----------------------------
(***************************************************************************)
(* A small instance of Enrollment for TLC.                                 *)
(*                                                                         *)
(* One run explores three regimes of the server.  In "racing" requests     *)
(* overlap in every way; in "faulty" and "calm" a request is taken only    *)
(* when no other is in progress; only in "faulty" do handlers die and the  *)
(* CA fail.  What the code promises in some of them is stated under that   *)
(* assumption.                                                             *)
(***************************************************************************)
EXTENDS Enrollment, TLC

VARIABLE regime

\* Handlers are interchangeable.
HandlerSymmetry == Permutations(Handlers)

\* At most one request is in progress.
OneAtATime == \A v, w \in Handlers : h[v].pc # "idle" /\ h[w].pc # "idle" => v = w

CaAnswers(w) == MayIssue(w) => h'[w].pc # "idle"

Calm ==
  \/ \E d \in Devices : Register(d)
  \/ \E w \in Handlers : Request(w) \/ (Step(w) /\ CaAnswers(w))

MCInit == Init /\ regime \in {"racing", "faulty", "calm"}
MCNext ==
  /\ UNCHANGED regime
  /\ CASE regime = "racing" -> Calm
       [] regime = "faulty" -> Next /\ OneAtATime'
       [] regime = "calm"   -> Calm /\ OneAtATime'
MCSpec == MCInit /\ [][MCNext]_<<vars, regime>>

\* As long as requests do not overlap every certificate handed out is current
\* or tombstoned, whatever fails.
SerialAccountedFor == regime # "racing" => EveryCertificateAccountedFor

\* As long as requests do not overlap a session verifies at most
\* MAX_ENROLLMENT_ATTEMPTS proofs, also when a handler dies after the count.
SerialGuessesBounded == regime # "racing" => GuessesAreBounded

\* When requests neither overlap nor fail, the CRL is complete after each.
CalmCrlComplete == regime = "calm" => CrlIsCompleteAtRest

=============================================================================
