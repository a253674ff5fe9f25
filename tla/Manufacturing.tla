--------------------------- MODULE Manufacturing ---------------------------
(***************************************************************************)
(* The programming jobs of the host's manufacturing agent                  *)
(* (scripts/manufacturing_agent.py), and the project resets that ask it    *)
(* whether it is idle (server/app/project_reset.py).                       *)
(*                                                                         *)
(* Every POST /program is served by a thread of its own.  PROGRAM_LOCK is  *)
(* taken by the request and released by the job's worker thread, which     *)
(* runs the factory script as a child process, turns the lines it prints   *)
(* into the stage shown on the dashboard, and kills it when a line arrives *)
(* after the deadline.  CURRENT_JOB is the one record of the last job.     *)
(* start_platform.py stops and starts the agent: its threads, its lock and *)
(* its record disappear, and the child goes on unless the host kills the   *)
(* process tree.                                                           *)
(***************************************************************************)
EXTENDS Naturals

CONSTANTS
  Jobs,         \* the requests to program, each the id of the job it starts
  Resets,       \* the requests to reset the project
  Said,         \* the stages the lines of the child are taken for
  MaxRestarts,  \* bound: restarts of the agent
  None

\* STAGES: the progress shown for each stage.
Progress ==
  [queued |-> 0, dependencies |-> 8, configuration |-> 15, erase |-> 25,
   build |-> 42, upload |-> 58, factory_ready |-> 68, registration |-> 75,
   identity |-> 82, bootstrap |-> 90, certificate |-> 95, mqtt |-> 98,
   complete |-> 100, failed |-> 100]
Stages == DOMAIN Progress

ASSUME ConstantsAssumption ==
  /\ Said \subseteq Stages \ {"queued", "failed"}
  /\ MaxRestarts \in Nat
  /\ None \notin Jobs

VARIABLES
  up,        \* the agent is running
  lock,      \* PROGRAM_LOCK: the job it was taken for, or None
  current,   \* CURRENT_JOB
  post,      \* how far start_program_job is for each request
  worker,    \* how far _run_program_job is for each job
  child,     \* the factory script of each job
  checked,   \* the project resets that have found the station idle
  restarts

vars == <<up, lock, current, post, worker, child, checked, restarts>>

Job == [id : Jobs, state : {"running", "success", "failed"}, stage : Stages]
ASSUME JobAssumption == None \notin Job

PostPhases == {"none", "sent", "locked", "recorded", "started", "over"}
WorkerPhases == {"none", "queued", "spawning", "reading", "reaping", "broken",
                 "ended", "done"}
ChildStates == {"none", "running", "ok", "bad"}

TypeOK ==
  /\ up \in BOOLEAN
  /\ lock \in Jobs \cup {None}
  /\ current \in Job \cup {None}
  /\ post \in [Jobs -> PostPhases]
  /\ worker \in [Jobs -> WorkerPhases]
  /\ child \in [Jobs -> ChildStates]
  /\ checked \subseteq Resets
  /\ restarts \in 0 .. MaxRestarts

Init ==
  /\ up = TRUE
  /\ lock = None
  /\ current = None
  /\ post = [j \in Jobs |-> "none"]
  /\ worker = [j \in Jobs |-> "none"]
  /\ child = [j \in Jobs |-> "none"]
  /\ checked = {}
  /\ restarts = 0

-----------------------------------------------------------------------------
(* start_program_job, on the thread of the request.                        *)

Posted(j, phase) == post' = [post EXCEPT ![j] = phase]

\* A client's POST /program reaches the agent, or finds none.
Send(j) ==
  /\ post[j] = "none"
  /\ Posted(j, IF up THEN "sent" ELSE "over")
  /\ UNCHANGED <<up, lock, current, worker, child, checked, restarts>>

\* PROGRAM_LOCK.acquire(blocking=False); 409 when it is taken.
Acquire(j) ==
  /\ post[j] = "sent"
  /\ \/ lock = None /\ lock' = j /\ Posted(j, "locked")
     \/ lock # None /\ Posted(j, "over") /\ UNCHANGED lock
  /\ UNCHANGED <<up, current, worker, child, checked, restarts>>

Record(j) ==
  /\ post[j] = "locked"
  /\ current' = [id |-> j, state |-> "running", stage |-> "queued"]
  /\ Posted(j, "recorded")
  /\ UNCHANGED <<up, lock, worker, child, checked, restarts>>

StartWorker(j) ==
  /\ post[j] = "recorded"
  /\ worker' = [worker EXCEPT ![j] = "queued"]
  /\ Posted(j, "started")
  /\ UNCHANGED <<up, lock, current, child, checked, restarts>>

\* The answer is a snapshot of CURRENT_JOB, whichever job that is by then.
Snapshot(j) ==
  /\ post[j] = "started"
  /\ Posted(j, "over")
  /\ UNCHANGED <<up, lock, current, worker, child, checked, restarts>>

-----------------------------------------------------------------------------
(* _run_program_job, on the worker thread.                                 *)

Works(j, phase) == worker' = [worker EXCEPT ![j] = phase]

\* The stage never goes down; a line of another job is ignored.
Append(j, stage) ==
  IF current = None \/ current.id # j \/ Progress[stage] < Progress[current.stage]
    THEN current
    ELSE [current EXCEPT !.stage = stage]

\* What the end of the job leaves in CURRENT_JOB.
Ended(j, ok) ==
  IF current = None \/ current.id # j THEN current
    ELSE [current EXCEPT !.state = IF ok THEN "success" ELSE "failed",
                         !.stage = IF ok THEN "complete" ELSE "failed"]

\* "[DEPENDENCY] Checking PlatformIO, ..."
Announce(j) ==
  /\ worker[j] = "queued"
  /\ current' = Append(j, "dependencies")
  /\ Works(j, "spawning")
  /\ UNCHANGED <<up, lock, post, child, checked, restarts>>

\* Popen, or the OSError it raises.
Spawn(j) ==
  /\ worker[j] = "spawning"
  /\ \/ child' = [child EXCEPT ![j] = "running"] /\ Works(j, "reading")
     \/ Works(j, "broken") /\ UNCHANGED child
  /\ UNCHANGED <<up, lock, current, post, checked, restarts>>

ReadLine(j, stage) ==
  /\ worker[j] = "reading"
  /\ current' = Append(j, stage)
  /\ UNCHANGED <<up, lock, post, worker, child, checked, restarts>>

\* The deadline is looked at after a line only; the child is killed without
\* asking whether it has ended meanwhile.
ReadLateLine(j, stage) ==
  /\ worker[j] = "reading"
  /\ current' = Append(j, stage)
  /\ child' = [child EXCEPT ![j] = IF @ = "running" THEN "bad" ELSE @]
  /\ Works(j, "reaping")
  /\ UNCHANGED <<up, lock, post, checked, restarts>>

ReadEof(j) ==
  /\ worker[j] = "reading"
  /\ child[j] # "running"
  /\ Works(j, "reaping")
  /\ UNCHANGED <<up, lock, current, post, child, checked, restarts>>

\* process.wait, then the result of the job.
FinishKilled(j) ==  \* mutant: a job is a success once its board was ready
  /\ worker[j] = "reaping"
  /\ child[j] # "running"
  /\ current' = Ended(j, child[j] = "ok" \/ current.stage = "complete")
  /\ Works(j, "ended")
  /\ UNCHANGED <<up, lock, post, child, checked, restarts>>
Finish(j) ==
  /\ worker[j] = "reaping"
  /\ child[j] # "running"
  /\ current' = Ended(j, child[j] = "ok")
  /\ Works(j, "ended")
  /\ UNCHANGED <<up, lock, post, child, checked, restarts>>

\* The except clause: whatever the host's tools raise.
Contain(j) ==
  /\ worker[j] = "broken"
  /\ current' = Ended(j, FALSE)
  /\ Works(j, "ended")
  /\ UNCHANGED <<up, lock, post, child, checked, restarts>>

\* The finally clause.
ReleaseBeforeEnd(j) ==  \* mutant: released as soon as the output has ended
  /\ worker[j] \in {"reaping", "ended"}
  /\ lock' = None
  /\ worker' = [worker EXCEPT ![j] = IF @ = "ended" THEN "done" ELSE @]
  /\ UNCHANGED <<up, current, post, child, checked, restarts>>
ReleaseNever(j) ==  \* mutant: released only when the job succeeded
  /\ worker[j] = "ended"
  /\ lock' = IF current.state = "success" THEN None ELSE lock
  /\ Works(j, "done")
  /\ UNCHANGED <<up, current, post, child, checked, restarts>>
Release(j) ==
  /\ worker[j] = "ended"
  /\ lock' = None
  /\ Works(j, "done")
  /\ UNCHANGED <<up, current, post, child, checked, restarts>>

-----------------------------------------------------------------------------
(* The child, the launcher of the agent.                                   *)

ChildExits(j, code) ==
  /\ child[j] = "running"
  /\ child' = [child EXCEPT ![j] = code]
  /\ UNCHANGED <<up, lock, current, post, worker, checked, restarts>>

\* stop_stale_agent_listener: SIGTERM to the agent alone, or taskkill /T.
AgentStops ==
  /\ up /\ restarts < MaxRestarts
  /\ up' = FALSE /\ restarts' = restarts + 1
  /\ lock' = None /\ current' = None
  /\ post' = [j \in Jobs |-> IF post[j] = "none" THEN "none" ELSE "over"]
  /\ worker' = [j \in Jobs |-> IF worker[j] = "none" THEN "none" ELSE "done"]
  /\ \/ UNCHANGED child
     \/ child' = [j \in Jobs |-> IF child[j] = "running" THEN "bad" ELSE child[j]]
  /\ UNCHANGED checked

AgentStarts ==
  /\ ~up
  /\ up' = TRUE
  /\ UNCHANGED <<lock, current, post, worker, child, checked, restarts>>

-----------------------------------------------------------------------------
(* reset_project, in the API process.                                      *)

\* verify_manufacturing_idle: GET /health answers PROGRAM_LOCK.locked(); an
\* agent that does not answer is taken as idle.
CheckIdle(r) ==
  /\ r \notin checked
  /\ ~ up \/ lock = None
  /\ checked' = checked \cup {r}
  /\ UNCHANGED <<up, lock, current, post, worker, child, restarts>>

\* clear_runtime_database.
Clear(r) ==
  /\ r \in checked
  /\ checked' = checked \ {r}
  /\ UNCHANGED <<up, lock, current, post, worker, child, restarts>>

-----------------------------------------------------------------------------
Thread(j) ==
  \/ Record(j) \/ StartWorker(j)
  \/ Announce(j) \/ Spawn(j) \/ ReadEof(j) \/ Finish(j) \/ Contain(j) \/ Release(j)

\* The child prints a line or exits.
Reads(j) == \E stage \in Said : ReadLine(j, stage)
ReadsLate(j) == \E stage \in Said : ReadLateLine(j, stage)
Exits(j) == \E code \in {"ok", "bad"} : ChildExits(j, code)

\* All but the beginning and the end of a request.
AgentStep ==
  \/ \E j \in Jobs :
       \/ Acquire(j) \/ Thread(j)
       \/ Reads(j) \/ ReadsLate(j) \/ Exits(j)
  \/ AgentStops \/ AgentStarts
  \/ \E r \in Resets : CheckIdle(r) \/ Clear(r)

Next == AgentStep \/ \E j \in Jobs : Send(j) \/ Snapshot(j)

Spec == Init /\ [][Next]_vars

\* The threads of a running agent go on, time passes, and a child that does
\* not exit keeps printing.
Fairness ==
  \A j \in Jobs : WF_vars(Thread(j)) /\ WF_vars(ReadsLate(j))

-----------------------------------------------------------------------------
(* Properties.                                                             *)

\* While the factory script of a job runs, /health says the station is busy:
\* a second job cannot take the serial port, and a reset sees the first, as
\* long as the agent has not been restarted.
BusyWhileProgramming ==
  restarts = 0 => \A j \in Jobs : child[j] = "running" => lock = j

\* A worker reports about its own job: as long as it has not released the
\* lock, CURRENT_JOB is the record of the job it runs.
WorkerOwnsTheRecord ==
  \A j \in Jobs :
    worker[j] \notin {"none", "done"} =>
      /\ lock = j
      /\ current # None
      /\ current.id = j

\* The station never stays busy: the lock taken by a request is released.
StationIsFreed == \A j \in Jobs : lock = j ~> lock # j

\* project_reset.py:74: "a reset cannot race a programming job".
\* It does not hold: README, Disagreements.
ResetNeverRacesAJob ==
  [][ \A r \in Resets :
        r \in checked \ checked' =>
          \A j \in Jobs : child[j] # "running" ]_vars
=============================================================================
