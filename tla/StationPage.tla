----------------------------- MODULE StationPage -----------------------------
(***************************************************************************)
(* The dashboard's manufacturing page and the API between it and the       *)
(* agent: server/app/routers/manufacturing.py and the script of            *)
(* server/app/templates/manufacturing.html.                                *)
(*                                                                         *)
(* The page asks for the state of the station every second, whether or not *)
(* the last request has come back; the API puts the answer together from   *)
(* several requests to the agent.  A submitted job is given up by the API  *)
(* after 10 s and by the page after 15 s, while the agent goes on with it. *)
(* Jobs are also submitted from elsewhere: another page, the command line. *)
(***************************************************************************)
EXTENDS Manufacturing

CONSTANTS
  Mine,   \* the jobs this page submits; the others come from elsewhere
  Polls   \* status requests that may be on their way at a time

ASSUME PageAssumption == Mine \subseteq Jobs

VARIABLES
  poll,      \* the status requests: how far each is, and what it has read
  inFlight,  \* the job of the submission the page waits for, or None
  answer,    \* the job the agent answered it with
  page       \* what the page shows

pageVars == <<poll, inFlight, answer, page>>
allVars == <<vars, pageVars>>

\* What is shown of a job.
Seen(job) == IF job = None THEN None ELSE [id |-> job.id, state |-> job.state]
Sight == [id : Jobs, state : {"running", "success", "failed"}]
NoAnswer == [phase |-> "idle", available |-> FALSE, busy |-> FALSE, job |-> None]

PageTypeOK ==
  /\ poll \in [Polls -> [phase : {"idle", "job", "back"}, available : BOOLEAN,
                         busy : BOOLEAN, job : Sight \cup {None}]]
  /\ inFlight \in Mine \cup {None}
  /\ answer \in Sight \cup {None}
  /\ page \in [available : BOOLEAN, busy : BOOLEAN, job : Sight \cup {None}]

PageInit ==
  /\ Init
  /\ poll = [p \in Polls |-> NoAnswer]
  /\ inFlight = None /\ answer = None
  /\ page = [available |-> FALSE, busy |-> FALSE, job |-> None]

-----------------------------------------------------------------------------
(* The state of the station: _station_state, refreshManufacturing.         *)

Polled(p, r) == poll' = [poll EXCEPT ![p] = r]

\* A request to an agent that does not run raises an error.
Reachable == up

\* What the agent answers: GET /health, and GET /job.
Health == [phase |-> "job", available |-> TRUE, busy |-> lock # None, job |-> None]
TheJob == Seen(current)

PollWhileRunning(p) ==  \* mutant: the page stops when the job it shows has ended
  /\ poll[p].phase = "idle" /\ (page.job # None => page.job.state = "running")
  /\ Polled(p, IF Reachable THEN Health ELSE [NoAnswer EXCEPT !.phase = "back"])
  /\ UNCHANGED <<vars, inFlight, answer, page>>

\* setInterval, and GET /health; without an agent that is all.
Poll(p) ==
  /\ poll[p].phase = "idle"
  /\ Polled(p, IF Reachable THEN Health ELSE [NoAnswer EXCEPT !.phase = "back"])
  /\ UNCHANGED <<vars, inFlight, answer, page>>

\* GET /ports and GET /job; what has been read already is kept when they fail.
ReadJob(p) ==
  /\ poll[p].phase = "job"
  /\ Polled(p, [poll[p] EXCEPT !.phase = "back", !.job = IF Reachable THEN TheJob ELSE None])
  /\ UNCHANGED <<vars, inFlight, answer, page>>

\* updateJob: a job shown is not replaced by none.
Updated(pg, job) == IF job = None THEN pg ELSE [pg EXCEPT !.job = job]

ApplyPoll(p) ==
  /\ poll[p].phase = "back"
  /\ page' = Updated([page EXCEPT !.available = poll[p].available, !.busy = poll[p].busy],
                     poll[p].job)
  /\ Polled(p, NoAnswer)
  /\ UNCHANGED <<vars, inFlight, answer>>

-----------------------------------------------------------------------------
(* A submission: the form, program_device_api, _start_program.             *)

\* The button is enabled when the station seemed available and not busy.
Submit(j) ==
  /\ inFlight = None /\ page.available /\ ~ page.busy
  /\ Send(j)
  /\ inFlight' = j /\ answer' = None
  /\ UNCHANGED <<poll, page>>

\* The agent's answer leaves it.
Answer(j) ==
  /\ Snapshot(j)
  /\ answer' = IF inFlight = j THEN TheJob ELSE answer
  /\ UNCHANGED <<poll, inFlight, page>>

Accepted(j) ==
  /\ inFlight = j /\ answer # None
  /\ page' = Updated(page, answer)
  /\ inFlight' = None /\ answer' = None
  /\ UNCHANGED <<vars, poll>>

\* HTTPError, URLError, a timeout of the API or of the page: an error is shown,
\* whatever the agent does with the request.
GiveUp(j) ==
  /\ inFlight = j
  /\ inFlight' = None /\ answer' = None
  /\ UNCHANGED <<vars, poll, page>>

-----------------------------------------------------------------------------
PageStep(p) == Poll(p) \/ ReadJob(p) \/ ApplyPoll(p)

StationNext ==
  \/ AgentStep /\ UNCHANGED pageVars
  \/ \E j \in Jobs \ Mine : Send(j) /\ UNCHANGED pageVars
  \/ \E j \in Jobs : Answer(j)
  \/ \E j \in Mine : Submit(j) \/ Accepted(j) \/ GiveUp(j)
  \/ \E p \in Polls : PageStep(p)

\* The page stays open: its timer goes on, and a status request comes back.
StationSpec ==
  /\ PageInit /\ [][StationNext]_allVars
  /\ Fairness
  /\ \A p \in Polls : WF_allVars(PageStep(p))

-----------------------------------------------------------------------------
(* Properties.                                                             *)

\* However late an answer is, a success the page shows is that of a job whose
\* board the factory script has verified.
ShownSuccessIsVerified ==
  page.job # None /\ page.job.state = "success" => child[page.job.id] = "ok"

\* The page gets to show how the station's last job ended, whoever submitted
\* it and whatever became of the answer to the submission, unless another job
\* replaces it or the agent is restarted.
EndIsShown ==
  \A j \in Jobs :
    LET EndOf(job) == job # None /\ job.id = j /\ job.state # "running" IN
    EndOf(current) ~> EndOf(page.job) \/ ~ EndOf(current)

\* A submission is answered with the job it has started.
\* It does not hold: README, Disagreements.
AnsweredWithItsOwnJob == inFlight # None /\ answer # None => answer.id = inFlight

=============================================================================
