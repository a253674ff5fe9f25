------------------------ MODULE ManufacturingProofs ------------------------
(***************************************************************************)
(* Theorems about Manufacturing and StationPage, for any number of jobs,   *)
(* resets, status requests and restarts of the agent, and about            *)
(* FirmwareBuild, for any stations, configurations and failures.           *)
(***************************************************************************)
EXTENDS StationPage, FirmwareHistory, TLAPS

-----------------------------------------------------------------------------
(* The agent.                                                              *)

\* The request that took the lock has it until its worker does; a job has one
\* request, one worker and one child, each started by the one before.
Handover ==
  \A j \in Jobs :
    /\ post[j] \in {"none", "sent", "locked", "recorded"} => worker[j] = "none"
    /\ post[j] \in {"locked", "recorded"} => lock = j
    /\ post[j] = "recorded" => current # None /\ current.id = j
    /\ worker[j] \in {"none", "queued", "spawning", "broken"} => child[j] = "none"

\* A child that runs has its reader, unless the agent was restarted.
Attended ==
  restarts = 0 => \A j \in Jobs : child[j] = "running" => worker[j] = "reading"

\* A job is recorded as a success when its script has exited with 0.
Verified(job) ==
  job # None => job.id \in Jobs /\ (job.state = "success" => child[job.id] = "ok")

Agent ==
  /\ TypeOK /\ Handover /\ WorkerOwnsTheRecord /\ Attended
  /\ Verified(current)

LEMMA RecordTypes ==
  ASSUME current \in Job \cup {None}, NEW j \in Jobs, NEW stage \in Stages,
         NEW ok \in BOOLEAN
  PROVE  /\ Append(j, stage) \in Job \cup {None}
         /\ Ended(j, ok) \in Job \cup {None}
         /\ current = None <=> Append(j, stage) = None
         /\ current = None <=> Ended(j, ok) = None
         /\ current # None =>
              /\ Append(j, stage).id = current.id /\ Append(j, stage).state = current.state
              /\ Ended(j, ok).id = current.id
              /\ Ended(j, ok).state =
                   IF current.id # j THEN current.state
                   ELSE IF ok THEN "success" ELSE "failed"
<1>1. "complete" \in Stages /\ "failed" \in Stages
  BY DEF Stages, Progress
<1>2. CASE current = None
  BY <1>2 DEF Append, Ended
<1>3. CASE current \in Job
  <2>1. /\ current # None /\ [current EXCEPT !.stage = stage] \in Job
        /\ [current EXCEPT !.stage = stage].id = current.id
        /\ [current EXCEPT !.stage = stage].state = current.state
    BY <1>3, JobAssumption DEF Job
  <2>2. Append(j, stage) \in {current, [current EXCEPT !.stage = stage]}
    BY DEF Append
  <2> DEFINE e == [current EXCEPT !.state = IF ok THEN "success" ELSE "failed",
                                  !.stage = IF ok THEN "complete" ELSE "failed"]
  <2>3. /\ e \in Job /\ e.id = current.id
        /\ e.state = IF ok THEN "success" ELSE "failed"
    BY <1>1, <1>3 DEF Job
  <2>4. Ended(j, ok) = IF current.id # j THEN current ELSE e
    BY <2>1 DEF Ended
  <2> HIDE DEF e
  <2>5. /\ Append(j, stage) \in Job /\ Append(j, stage).id = current.id
        /\ Append(j, stage).state = current.state
    BY <1>3, <2>1, <2>2
  <2>6. /\ Ended(j, ok) \in Job /\ Ended(j, ok).id = current.id
        /\ Ended(j, ok).state = IF current.id # j THEN current.state
                              ELSE IF ok THEN "success" ELSE "failed"
    BY <1>3, <2>3, <2>4
  <2>7. current # None /\ Append(j, stage) # None /\ Ended(j, ok) # None
    BY <2>1, <2>5, <2>6, JobAssumption
  <2> QED
    BY <2>5, <2>6, <2>7
<1> QED
  BY <1>2, <1>3

LEMMA InitAgent == Init => Agent
<1> SUFFICES ASSUME Init PROVE Agent
  OBVIOUS
<1>1. TypeOK
  BY ConstantsAssumption DEF Init, TypeOK, PostPhases, WorkerPhases, ChildStates
<1>2. \A j \in Jobs : post[j] = "none" /\ worker[j] = "none" /\ child[j] = "none"
  BY DEF Init
<1> QED
  BY <1>1, <1>2 DEF Init, Agent, Handover, WorkerOwnsTheRecord, Attended, Verified

LEMMA PostKeeps ==
  ASSUME Agent, NEW j \in Jobs,
         Send(j) \/ Acquire(j) \/ Record(j) \/ StartWorker(j) \/ Snapshot(j)
  PROVE  Agent'
<1> USE ConstantsAssumption DEF PostPhases, WorkerPhases, ChildStates
<1>1. CASE Send(j)
  BY <1>1 DEF Send, Posted, Agent, TypeOK, Handover, WorkerOwnsTheRecord, Attended, Verified
<1>2. CASE Acquire(j)
  BY <1>2 DEF Acquire, Posted, Agent, TypeOK, Handover, WorkerOwnsTheRecord, Attended,
     Verified
<1>3. CASE Record(j)
  <2>1. "queued" \in Stages
    BY DEF Stages, Progress
  <2>2. current' \in Job /\ current' # None /\ current'.id = j /\ current'.state = "running"
    BY <1>3, <2>1, JobAssumption DEF Record, Job
  <2> QED
    BY <1>3, <2>2 DEF Record, Posted, Agent, TypeOK, Handover, WorkerOwnsTheRecord,
       Attended, Verified
<1>4. CASE StartWorker(j)
  BY <1>4 DEF StartWorker, Posted, Agent, TypeOK, Handover, WorkerOwnsTheRecord, Attended,
     Verified
<1>5. CASE Snapshot(j)
  BY <1>5 DEF Snapshot, Posted, Agent, TypeOK, Handover, WorkerOwnsTheRecord, Attended,
     Verified
<1> QED
  BY <1>1, <1>2, <1>3, <1>4, <1>5

LEMMA WorkerKeeps ==
  ASSUME Agent, NEW j \in Jobs,
         \/ Announce(j) \/ Spawn(j) \/ Reads(j) \/ ReadsLate(j) \/ ReadEof(j)
         \/ Finish(j) \/ Contain(j) \/ Release(j)
  PROVE  Agent'
<1> USE DEF PostPhases, WorkerPhases, ChildStates
<1>1. /\ current \in Job \cup {None} /\ Said \subseteq Stages
      /\ "dependencies" \in Stages /\ worker \in [Jobs -> WorkerPhases]
  BY ConstantsAssumption DEF Agent, TypeOK, Stages, Progress
\* A worker that is at work has the lock and the record.
<1>2. worker[j] \notin {"none", "done"} => lock = j /\ current # None /\ current.id = j
  BY DEF Agent, WorkerOwnsTheRecord
<1>3. ASSUME NEW stage \in Stages, current' = Append(j, stage)
      PROVE  /\ current' \in Job \cup {None} /\ (current # None => current' # None)
             /\ current # None => current'.id = current.id /\ current'.state = current.state
             /\ (current = None => current' = None)
  BY <1>1, <1>3, RecordTypes
<1>4. CASE Announce(j)
  BY <1>1, <1>2, <1>3, <1>4 DEF Announce, Works, Agent, TypeOK, Handover,
     WorkerOwnsTheRecord, Attended, Verified
<1>5. CASE Spawn(j)
  <2>1. worker[j] = "spawning" /\ child[j] = "none" /\ worker'[j] \in {"reading", "broken"}
    BY <1>1, <1>5 DEF Spawn, Works, Agent, Handover
  <2>2. \A k \in Jobs : child'[k] = child[k] \/ (k = j /\ child'[k] = "running" /\ worker'[j] = "reading")
    BY <1>1, <1>5 DEF Spawn, Works, Agent, TypeOK
  <2> QED
    BY <1>2, <1>5, <2>1, <2>2 DEF Spawn, Works, Agent, TypeOK, Handover,
       WorkerOwnsTheRecord, Attended, Verified
<1>6. CASE Reads(j)
  BY <1>1, <1>2, <1>3, <1>6 DEF Reads, ReadLine, Agent, TypeOK, Handover,
     WorkerOwnsTheRecord, Attended, Verified
<1>7. CASE ReadsLate(j)
  BY <1>1, <1>2, <1>3, <1>7 DEF ReadsLate, ReadLateLine, Works, Agent, TypeOK, Handover,
     WorkerOwnsTheRecord, Attended, Verified
<1>8. CASE ReadEof(j)
  BY <1>2, <1>8 DEF ReadEof, Works, Agent, TypeOK, Handover, WorkerOwnsTheRecord, Attended,
     Verified
<1>9. ASSUME NEW ok \in BOOLEAN, current' = Ended(j, ok), ok => child[j] = "ok",
             worker[j] \in {"reaping", "broken"}, child[j] # "running", Works(j, "ended"),
             UNCHANGED <<up, lock, post, child, checked, restarts>>
      PROVE  Agent'
  <2>1. /\ current' \in Job \cup {None} /\ current' # None /\ current'.id = j
        /\ current'.state = IF ok THEN "success" ELSE "failed"
    BY <1>1, <1>2, <1>9, RecordTypes, ConstantsAssumption DEF Stages, Progress
  <2> QED
    BY <1>2, <1>9, <2>1 DEF Works, Agent, TypeOK, Handover, WorkerOwnsTheRecord, Attended,
       Verified
<1>10. CASE Finish(j)
  BY <1>9, <1>10 DEF Finish
<1>11. CASE Contain(j)
  <2>1. child[j] # "running"
    BY <1>11 DEF Contain, Agent, Handover
  <2> QED
    BY <1>9, <1>11, <2>1 DEF Contain
<1>12. CASE Release(j)
  BY <1>2, <1>12 DEF Release, Works, Agent, TypeOK, Handover, WorkerOwnsTheRecord, Attended,
     Verified
<1> QED
  BY <1>4, <1>5, <1>6, <1>7, <1>8, <1>10, <1>11, <1>12

LEMMA HostKeeps ==
  ASSUME Agent,
         \/ \E j \in Jobs : Exits(j)
         \/ AgentStops \/ AgentStarts
         \/ \E r \in Resets : CheckIdle(r) \/ Clear(r)
  PROVE  Agent'
<1> USE DEF PostPhases, WorkerPhases, ChildStates
<1>1. ASSUME NEW j \in Jobs, Exits(j) PROVE Agent'
  <2>1. PICK code \in {"ok", "bad"} : ChildExits(j, code)
    BY <1>1 DEF Exits
  <2> QED
    BY <2>1 DEF ChildExits, Agent, TypeOK, Handover, WorkerOwnsTheRecord, Attended, Verified
<1>2. CASE AgentStops
  <2>1. /\ post' \in [Jobs -> PostPhases] /\ worker' \in [Jobs -> WorkerPhases]
        /\ child' \in [Jobs -> ChildStates]
        /\ restarts' \in 0 .. MaxRestarts /\ restarts' # 0
    BY <1>2, ConstantsAssumption DEF AgentStops, Agent, TypeOK
  <2>2. \A j \in Jobs :
          /\ post'[j] \in {"none", "over"} /\ worker'[j] \in {"none", "done"}
          /\ post'[j] = "none" => post[j] = "none"
          /\ worker'[j] = "none" <=> worker[j] = "none"
          /\ child[j] = "none" => child'[j] = "none"
    BY <1>2 DEF AgentStops
  <2> QED
    BY <1>2, <2>1, <2>2 DEF AgentStops, Agent, TypeOK, Handover, WorkerOwnsTheRecord,
       Attended, Verified
<1>3. CASE AgentStarts
  BY <1>3 DEF AgentStarts, Agent, TypeOK, Handover, WorkerOwnsTheRecord, Attended, Verified
<1>4. ASSUME NEW r \in Resets, CheckIdle(r) \/ Clear(r) PROVE Agent'
  BY <1>4 DEF CheckIdle, Clear, Agent, TypeOK, Handover, WorkerOwnsTheRecord, Attended,
     Verified
<1> QED
  BY <1>1, <1>2, <1>3, <1>4

LEMMA NextAgent == Agent /\ [Next]_vars => Agent'
<1> SUFFICES ASSUME Agent, [Next]_vars PROVE Agent'
  OBVIOUS
<1>1. CASE UNCHANGED vars
  BY <1>1 DEF vars, Agent, TypeOK, Handover, WorkerOwnsTheRecord, Attended, Verified
<1> QED
  BY <1>1, PostKeeps, WorkerKeeps, HostKeeps DEF Next, AgentStep, Thread

LEMMA SpecAgent == Spec => []Agent
  BY InitAgent, NextAgent, PTL DEF Spec

\* Whatever requests race for the lock and whenever the agent is restarted, a
\* worker that has not released PROGRAM_LOCK holds it and writes into its own
\* record (start_program_job, _run_program_job).
THEOREM WorkerOwns == Spec => []WorkerOwnsTheRecord
<1>1. Agent => WorkerOwnsTheRecord
  BY DEF Agent
<1> QED
  BY <1>1, SpecAgent, PTL

\* As long as the agent has not been restarted, a running factory script keeps
\* the station busy for /health, and so for a project reset
\* (verify_manufacturing_idle).
THEOREM Busy == Spec => []BusyWhileProgramming
<1>1. Agent => BusyWhileProgramming
  BY DEF Agent, Attended, WorkerOwnsTheRecord, BusyWhileProgramming
<1> QED
  BY <1>1, SpecAgent, PTL

-----------------------------------------------------------------------------
(* The page.                                                               *)

\* The page, its polls and its submissions do to the agent what requests from
\* elsewhere could do as well (server/app/routers/manufacturing.py).
THEOREM PageUsesTheAgent == StationSpec => Spec
<1>1. PageInit => Init
  BY DEF PageInit
<1>2. [StationNext]_allVars => [Next]_vars
  BY PageAssumption DEF StationNext, allVars, Next, Answer, Submit, Accepted, GiveUp,
     PageStep, Poll, ReadJob, ApplyPoll
<1> QED
  BY <1>1, <1>2, PTL DEF StationSpec, Spec

\* What was read of a job, wherever it is on its way to the page.
Sights ==
  /\ Verified(page.job) /\ Verified(answer)
  /\ \A p \in Polls : Verified(poll[p].job)

\* A script that has exited stays so.
LEMMA OkStays ==
  ASSUME Agent, [Next]_vars, NEW j \in Jobs, child[j] = "ok"
  PROVE  child'[j] = "ok"
<1>1. child \in [Jobs -> ChildStates]
  BY DEF Agent, TypeOK
<1>2. ASSUME NEW k \in Jobs, Spawn(k) PROVE child'[j] = "ok"
  BY <1>1, <1>2 DEF Spawn, Agent, Handover
<1>3. ASSUME NEW k \in Jobs, ReadsLate(k) \/ Exits(k) PROVE child'[j] = "ok"
  BY <1>1, <1>3 DEF ReadsLate, ReadLateLine, Exits, ChildExits
<1>4. CASE AgentStops
  BY <1>4 DEF AgentStops
<1>5. ASSUME NEW k \in Jobs,
             \/ Send(k) \/ Snapshot(k) \/ Acquire(k) \/ Record(k) \/ StartWorker(k)
             \/ Announce(k) \/ Reads(k) \/ ReadEof(k) \/ Finish(k) \/ Contain(k) \/ Release(k)
      PROVE  child' = child
  BY <1>5 DEF Send, Snapshot, Acquire, Record, StartWorker, Announce, Reads, ReadLine,
     ReadEof, Finish, Contain, Release
<1>6. CASE AgentStarts \/ (\E r \in Resets : CheckIdle(r) \/ Clear(r)) \/ UNCHANGED vars
  BY <1>6 DEF AgentStarts, CheckIdle, Clear, vars
<1> QED
  BY <1>2, <1>3, <1>4, <1>5, <1>6 DEF Next, AgentStep, Thread

LEMMA SeenIsVerified ==
  ASSUME Agent
  PROVE  Verified(TheJob) /\ TheJob \in Sight \cup {None}
<1>1. CASE current = None
  BY <1>1 DEF TheJob, Seen, Verified
<1>2. CASE current # None
  <2>1. current \in Job /\ Verified(current)
    BY <1>2 DEF Agent, TypeOK
  <2>2. TheJob = [id |-> current.id, state |-> current.state]
    BY <1>2 DEF TheJob, Seen
  <2> QED
    BY <1>2, <2>1, <2>2 DEF Verified, Job, Sight
<1> QED
  BY <1>1, <1>2

LEMMA InitPage == PageInit => PageTypeOK /\ Sights
  BY DEF PageInit, PageTypeOK, Sights, NoAnswer, Verified

LEMMA NextPage ==
  ASSUME Agent, Agent', PageTypeOK, Sights, [StationNext]_allVars
  PROVE  PageTypeOK' /\ Sights'
<1>1. [Next]_vars
  BY PageAssumption DEF StationNext, allVars, Next, Answer, Submit, Accepted, GiveUp,
     PageStep, Poll, ReadJob, ApplyPoll
<1>2. ASSUME NEW job, Verified(job)
      PROVE  job # None => job.id \in Jobs /\ (job.state = "success" => child'[job.id] = "ok")
  BY <1>1, <1>2, OkStays DEF Verified
<1>3. CASE UNCHANGED pageVars
  BY <1>2, <1>3 DEF pageVars, PageTypeOK, Sights, Verified
<1>4. ASSUME NEW j \in Jobs, Answer(j) PROVE PageTypeOK' /\ Sights'
  <2>1. answer' \in {TheJob, answer} /\ UNCHANGED <<poll, inFlight, page>>
    BY <1>4 DEF Answer
  <2> QED
    BY <1>2, <2>1, SeenIsVerified DEF PageTypeOK, Sights, Verified
<1>5. ASSUME NEW j \in Mine, Submit(j) \/ GiveUp(j) PROVE PageTypeOK' /\ Sights'
  <2>1. answer' = None /\ inFlight' \in Mine \cup {None} /\ UNCHANGED <<poll, page>>
    BY <1>5 DEF Submit, GiveUp
  <2> QED
    BY <1>2, <2>1 DEF PageTypeOK, Sights, Verified
<1>6. ASSUME NEW job \in Sight \cup {None}, Verified(job),
             NEW available \in BOOLEAN, NEW busy \in BOOLEAN,
             page' = Updated([page EXCEPT !.available = available, !.busy = busy], job)
      PROVE  /\ page' \in [available : BOOLEAN, busy : BOOLEAN, job : Sight \cup {None}]
             /\ page'.job \in {page.job, job}
  BY <1>6 DEF Updated, PageTypeOK
<1>7. ASSUME NEW j \in Mine, Accepted(j) PROVE PageTypeOK' /\ Sights'
  <2>1. /\ page' = Updated(page, answer) /\ answer' = None /\ inFlight' = None
        /\ UNCHANGED poll
    BY <1>7 DEF Accepted
  <2>2. page = [page EXCEPT !.available = page.available, !.busy = page.busy]
    BY DEF PageTypeOK
  <2>3. /\ page' \in [available : BOOLEAN, busy : BOOLEAN, job : Sight \cup {None}]
        /\ page'.job \in {page.job, answer}
    BY <1>6, <2>1, <2>2 DEF PageTypeOK, Sights
  <2> QED
    BY <1>2, <2>1, <2>3 DEF PageTypeOK, Sights, Verified
\* A status request goes on.
<1>8. ASSUME NEW p \in Polls,
             NEW new \in [phase : {"idle", "job", "back"}, available : BOOLEAN,
                          busy : BOOLEAN, job : Sight \cup {None}],
             Polled(p, new), Verified(new.job), UNCHANGED <<inFlight, answer, page>>
      PROVE  PageTypeOK' /\ Sights'
  BY <1>2, <1>8 DEF Polled, PageTypeOK, Sights, Verified
<1>9. NoAnswer \in [phase : {"idle", "job", "back"}, available : BOOLEAN,
                    busy : BOOLEAN, job : Sight \cup {None}] /\ NoAnswer.job = None
  BY DEF NoAnswer
<1>10. ASSUME NEW p \in Polls, Poll(p) PROVE PageTypeOK' /\ Sights'
  <2> DEFINE new == IF Reachable THEN Health ELSE [NoAnswer EXCEPT !.phase = "back"]
  <2>1. /\ new \in [phase : {"idle", "job", "back"}, available : BOOLEAN,
                     busy : BOOLEAN, job : Sight \cup {None}]
        /\ new.job = None
    BY <1>9 DEF Health
  <2>2. Polled(p, new) /\ UNCHANGED <<inFlight, answer, page>>
    BY <1>10 DEF Poll
  <2> HIDE DEF new
  <2> QED
    BY <1>8, <2>1, <2>2 DEF Verified
<1>11. ASSUME NEW p \in Polls, ReadJob(p) PROVE PageTypeOK' /\ Sights'
  <2> DEFINE new == [poll[p] EXCEPT !.phase = "back", !.job = IF Reachable THEN TheJob ELSE None]
  <2>1. /\ new \in [phase : {"idle", "job", "back"}, available : BOOLEAN,
                     busy : BOOLEAN, job : Sight \cup {None}]
        /\ new.job \in {TheJob, None}
    BY SeenIsVerified DEF PageTypeOK
  <2>2. Polled(p, new) /\ UNCHANGED <<inFlight, answer, page>>
    BY <1>11 DEF ReadJob
  <2> HIDE DEF new
  <2> QED
    BY <1>8, <2>1, <2>2, SeenIsVerified DEF Verified
<1>12. ASSUME NEW p \in Polls, ApplyPoll(p) PROVE PageTypeOK' /\ Sights'
  <2>1. poll[p] \in [phase : {"idle", "job", "back"}, available : BOOLEAN,
                     busy : BOOLEAN, job : Sight \cup {None}] /\ Verified(poll[p].job)
    BY DEF PageTypeOK, Sights
  <2>2. /\ page' = Updated([page EXCEPT !.available = poll[p].available,
                                        !.busy = poll[p].busy], poll[p].job)
        /\ Polled(p, NoAnswer) /\ UNCHANGED <<inFlight, answer>>
    BY <1>12 DEF ApplyPoll
  <2>3. /\ page' \in [available : BOOLEAN, busy : BOOLEAN, job : Sight \cup {None}]
        /\ page'.job \in {page.job, poll[p].job}
    BY <1>6, <2>1, <2>2
  <2> QED
    BY <1>2, <1>9, <2>1, <2>2, <2>3 DEF Polled, PageTypeOK, Sights, Verified
<1> QED
  BY <1>3, <1>4, <1>5, <1>7, <1>10, <1>11, <1>12 DEF StationNext, allVars, pageVars, PageStep

\* However late a status answer or the answer to a submission comes, and
\* whichever of the jobs it is about, a success on the page is of a job whose
\* script exited with 0 (_station_state, updateJob).
THEOREM ShownSuccess == StationSpec => []ShownSuccessIsVerified
<1>1. StationSpec => []Agent
  BY PageUsesTheAgent, SpecAgent, PTL
<1>2. PageTypeOK /\ Sights /\ Agent /\ Agent' /\ [StationNext]_allVars
        => (PageTypeOK /\ Sights)'
  BY NextPage
<1>3. StationSpec => [](PageTypeOK /\ Sights)
  BY <1>1, <1>2, InitPage, PTL DEF StationSpec
<1>4. Sights => ShownSuccessIsVerified
  BY DEF Sights, Verified, ShownSuccessIsVerified
<1> QED
  BY <1>3, <1>4, PTL

-----------------------------------------------------------------------------
(* The script of each run, flash_firmware: FirmwareBuild.                  *)

Run == [phase : Phases, config : Maybe, mode : Modes, hit : BOOLEAN,
        force : BOOLEAN, compiling : Maybe]

-----------------------------------------------------------------------------
(* Types.  A run has a configuration from its start to its end, and the    *)
(* files PlatformIO compiles from are configured.                          *)

Configured ==
  \A s \in Stations :
    /\ run[s].phase \notin {"idle", "failed"} =>
         run[s].config \in Configuration /\ inputs \in Configuration
    /\ At(s, "building") => run[s].compiling \in Configuration

Typed ==
  /\ BuildTypeOK /\ Configured
  /\ overtaken \in [Stations -> BOOLEAN] /\ recorded \in BOOLEAN

LEMMA Runs ==
  /\ Idle \in Run /\ Idle.phase = "idle"
  /\ Failed \in Run /\ Failed.phase = "failed"
  /\ \A config \in Configuration, mode \in Modes :
       /\ Begun(config, mode) \in Run
       /\ Begun(config, mode).phase = "started"
       /\ Begun(config, mode).config = config
       /\ ~Begun(config, mode).hit
<1>1. Idle \in Run /\ Idle.phase = "idle" /\ ~Idle.hit
  BY DEF Idle, Run, Maybe, Phases, Modes
<1>2. Failed \in Run /\ Failed.phase = "failed"
  BY <1>1 DEF Failed, Run, Phases
<1>3. ASSUME NEW config \in Configuration, NEW mode \in Modes
      PROVE  /\ Begun(config, mode) \in Run
             /\ Begun(config, mode).phase = "started"
             /\ Begun(config, mode).config = config
             /\ ~Begun(config, mode).hit
  BY <1>1 DEF Begun, Run, Maybe, Phases
<1> QED
  BY <1>1, <1>2, <1>3

LEMMA InitTyped == HInit => Typed
<1> SUFFICES ASSUME HInit PROVE Typed
  OBVIOUS
<1>1. run \in [Stations -> Run] /\ \A s \in Stations : run[s].phase = "idle"
  BY Runs DEF HInit, BuildInit
<1>2. BuildTypeOK
  BY <1>1 DEF HInit, BuildInit, BuildTypeOK, Run, Maybe
<1> QED
  BY <1>1, <1>2 DEF HInit, Typed, Configured, At

\* One station moves.
LEMMA MoveTyped ==
  ASSUME Typed, NEW s \in Stations, NEW new \in Run,
         run' = [run EXCEPT ![s] = new],
         new.phase \notin {"idle", "failed"} =>
           new.config \in Configuration /\ inputs' \in Configuration,
         new.phase = "building" => new.compiling \in Configuration,
         inputs' = inputs \/ inputs' \in Configuration
  PROVE  run' \in [Stations -> Run] /\ Configured'
<1>1. run \in [Stations -> Run]
  BY DEF Typed, BuildTypeOK, Run
<1>2. \A t \in Stations : run'[t] = IF t = s THEN new ELSE run[t]
  BY <1>1
<1>3. run' \in [Stations -> Run]
  BY <1>1
<1>4. Configured'
  BY <1>2 DEF Typed, Configured, At
<1> QED
  BY <1>3, <1>4

LEMMA NextTyped ==
  ASSUME Typed, HNext
  PROVE  Typed'
<1>1. overtaken' \in [Stations -> BOOLEAN] /\ recorded' \in BOOLEAN
  BY DEF HNext, Typed
<1>2. run \in [Stations -> Run] /\ \A s \in Stations : run[s] \in Run
  BY DEF Typed, BuildTypeOK, Run
\* What a step of a run leaves.
<1>3. ASSUME NEW s \in Stations, NEW new \in Run, run' = [run EXCEPT ![s] = new],
             new.phase \notin {"idle", "failed"} =>
               new.config \in Configuration /\ inputs' \in Configuration,
             new.phase = "building" => new.compiling \in Configuration,
             inputs' = inputs \/ inputs' \in Configuration,
             state' \in Maybe, artifact' \in Maybe, libdeps' \in BOOLEAN,
             orphans' \subseteq Configuration, board' \in [Stations -> Maybe]
      PROVE  Typed'
  <2>1. run' \in [Stations -> Run] /\ Configured'
    BY <1>3, MoveTyped
  <2>2. inputs' \in Maybe
    BY <1>3 DEF Typed, BuildTypeOK, Maybe
  <2> QED
    BY <1>1, <1>3, <2>1, <2>2 DEF Typed, BuildTypeOK, Run
<1>4. ASSUME NEW s \in Stations, NEW config \in Builds, NEW mode \in Modes,
             Start(s, config, mode)
      PROVE  Typed'
  <2>1. config \in Configuration
    BY BuildsAssumption DEF Typed, BuildsAssumption
  <2>2. run' = [run EXCEPT ![s] = Begun(config, mode)] /\ inputs' = config
        /\ UNCHANGED <<state, artifact, libdeps, orphans, board>>
    BY <1>4 DEF Start
  <2> QED
    BY <1>3, <2>1, <2>2, Runs DEF Typed, BuildTypeOK
<1>5. ASSUME NEW s \in Stations, Inspect(s) PROVE Typed'
  <2> DEFINE new == [run[s] EXCEPT !.phase = "ready", !.mode = "normal",
                       !.hit = run[s].mode = "normal" /\ BuildIsCached(run[s].config),
                       !.force = DependencyChanged(run[s].config, run[s].mode)]
  <2>1. run[s].phase = "started" /\ run' = [run EXCEPT ![s] = new]
        /\ UNCHANGED <<inputs, state, orphans, board>>
        /\ artifact' \in {Nil, artifact} /\ libdeps' \in {FALSE, libdeps}
    BY <1>5 DEF Inspect, At, Typed, BuildTypeOK
  <2>2. /\ (run[s].mode = "normal" /\ BuildIsCached(run[s].config)) \in BOOLEAN
        /\ DependencyChanged(run[s].config, run[s].mode) \in BOOLEAN
    BY DEF BuildIsCached, DependencyChanged
  <2>3. new \in Run /\ new.phase = "ready" /\ new.config = run[s].config
    BY <1>2, <2>2 DEF Run, Phases, Modes
  <2>4. run[s].config \in Configuration /\ inputs \in Configuration
    BY <2>1 DEF Typed, Configured
  <2> HIDE DEF new
  <2> QED
    BY <1>3, <2>1, <2>3, <2>4 DEF Typed, BuildTypeOK, Maybe
<1>6. ASSUME NEW s \in Stations, Dependencies(s) PROVE Typed'
  <2> DEFINE new == [run[s] EXCEPT !.phase = IF run[s].hit THEN "saved" ELSE "building",
                       !.compiling = IF run[s].hit THEN Nil ELSE inputs,
                       !.hit = FALSE, !.force = FALSE]
  <2>1. run[s].phase = "ready" /\ run' = [run EXCEPT ![s] = new]
        /\ UNCHANGED <<inputs, state, artifact, orphans, board>> /\ libdeps' \in {TRUE, libdeps}
    BY <1>6 DEF Dependencies, At
  <2>2. run[s].config \in Configuration /\ inputs \in Configuration
    BY <2>1 DEF Typed, Configured
  <2>3. /\ new \in Run /\ new.phase \in {"saved", "building"} /\ new.config = run[s].config
        /\ new.phase = "building" => new.compiling = inputs
    BY <1>2, <2>2 DEF Run, Phases, Maybe
  <2> HIDE DEF new
  <2> QED
    BY <1>3, <2>1, <2>2, <2>3 DEF Typed, BuildTypeOK
<1>7. ASSUME NEW s \in Stations, Build(s) PROVE Typed'
  <2> DEFINE new == [run[s] EXCEPT !.phase = "built", !.compiling = Nil]
  <2>1. run[s].phase = "building" /\ run' = [run EXCEPT ![s] = new]
        /\ artifact' = run[s].compiling /\ UNCHANGED <<inputs, state, libdeps, orphans, board>>
    BY <1>7 DEF Build, At
  <2>2. run[s].config \in Configuration /\ inputs \in Configuration
        /\ run[s].compiling \in Configuration
    BY <2>1 DEF Typed, Configured, At
  <2>3. new \in Run /\ new.phase = "built" /\ new.config = run[s].config
    BY <1>2 DEF Run, Phases, Maybe
  <2> HIDE DEF new
  <2> QED
    BY <1>3, <2>1, <2>2, <2>3 DEF Typed, BuildTypeOK, Maybe
\* The run goes on to the next phase.
<1>8. ASSUME NEW s \in Stations, NEW phase \in {"saved", "blank", "uploaded", "done"},
             ~RunEnded(s), Move(s, phase), UNCHANGED <<inputs, libdeps, orphans>>,
             state' \in {state, run[s].config}, artifact' \in {artifact, inputs},
             board' \in {board, [board EXCEPT ![s] = Nil], [board EXCEPT ![s] = inputs]}
      PROVE  Typed'
  <2> DEFINE new == [run[s] EXCEPT !.phase = phase]
  <2>1. new \in Run /\ new.phase = phase /\ new.config = run[s].config
    BY <1>2 DEF Run, Phases
  <2>2. run[s].config \in Configuration /\ inputs \in Configuration
    BY <1>8 DEF RunEnded, Typed, Configured
  <2>3. state' \in Maybe /\ artifact' \in Maybe /\ board' \in [Stations -> Maybe]
    BY <1>8, <2>2 DEF Typed, BuildTypeOK, Maybe
  <2>4. run' = [run EXCEPT ![s] = new]
    BY <1>8 DEF Move
  <2> HIDE DEF new
  <2> QED
    BY <1>3, <1>8, <2>1, <2>2, <2>3, <2>4 DEF Typed, BuildTypeOK
\* The run fails.
<1>9. ASSUME NEW s \in Stations, run' = [run EXCEPT ![s] = Failed],
             UNCHANGED <<inputs, state, artifact, libdeps>>,
             orphans' \subseteq Configuration, board' \in [Stations -> Maybe]
      PROVE  Typed'
  BY <1>3, <1>9, Runs DEF Typed, BuildTypeOK
<1>10. ASSUME NEW s \in Stations,
              \/ Save(s) \/ Erase(s) \/ KeepFlash(s)
              \/ Upload(s) \/ SaveAgain(s)
       PROVE  Typed'
  <2>1. ~RunEnded(s)
    BY <1>10 DEF Save, Erase, KeepFlash, Upload, SaveAgain, At, RunEnded
  <2>2. CASE Save(s) /\ artifact = Nil
    BY <1>9, <2>2 DEF Save, Typed, BuildTypeOK
  <2>3. CASE Save(s) /\ artifact # Nil
    BY <1>8, <2>1, <2>3 DEF Save
  <2> QED
    BY <1>8, <1>10, <2>1, <2>2, <2>3 DEF Erase, KeepFlash, Upload, SaveAgain, Files
<1>11. ASSUME NEW s \in Stations, NEW operation \in Failures, Fail(s, operation) PROVE Typed'
  <2>1. board' \in [Stations -> Maybe]
    BY <1>11 DEF Fail, Typed, BuildTypeOK, Maybe
  <2> QED
    BY <1>9, <1>11, <2>1 DEF Fail, Files, Typed, BuildTypeOK
<1>12. ASSUME NEW s \in Stations, Kill(s) PROVE Typed'
  <2>1. board' \in [Stations -> Maybe]
    BY <1>12 DEF Kill, Typed, BuildTypeOK, Maybe
  <2>2. orphans' \subseteq Configuration
    BY <1>12 DEF Kill, Typed, BuildTypeOK, Configured
  <2> QED
    BY <1>9, <1>12, <2>1, <2>2 DEF Kill
<1>13. ASSUME NEW config \in orphans, OrphanEnds(config) PROVE Typed'
  <2>1. artifact' \in Maybe /\ orphans' \subseteq Configuration
    BY <1>13 DEF OrphanEnds, Typed, BuildTypeOK, Maybe
  <2> QED
    BY <1>1, <1>13, <2>1 DEF OrphanEnds, Typed, BuildTypeOK, Configured, At
<1> QED
  BY <1>4, <1>5, <1>6, <1>7, <1>10, <1>11, <1>12, <1>13 DEF HNext, BuildNext, Steps

LEMMA SpecTyped == HSpec => []Typed
<1>1. Typed /\ UNCHANGED hvars => Typed'
  BY DEF hvars, buildVars, Typed, BuildTypeOK, Configured, At
<1> QED
  BY <1>1, InitTyped, NextTyped, PTL DEF HSpec

-----------------------------------------------------------------------------
(* What is uploaded.  A station's inputs are its run's until it is         *)
(* overtaken.                                                              *)

Own ==
  \A s \in Stations : ~overtaken[s] =>
    /\ Uploading(s) => inputs = run[s].config
    /\ run[s].phase \in {"uploaded", "done"} => board[s] = run[s].config

\* A run that goes on changes neither the inputs nor the other stations.
LEMMA StepsOfOne ==
  ASSUME Typed, NEW s \in Stations, Steps(s)
  PROVE  /\ ~RunEnded(s) /\ inputs' = inputs /\ run'[s].phase # "started"
         /\ \A t \in Stations \ {s} : run'[t] = run[t] /\ board'[t] = board[t]
         /\ \/ run'[s].phase = "failed"
            \/ /\ run'[s].config = run[s].config
               /\ \/ Uploading(s) /\ Uploading(s)'
                  \/ Uploading(s) /\ run'[s].phase = "uploaded" /\ board'[s] = inputs
                  \/ run[s].phase = "uploaded" /\ run'[s].phase = "done" /\ board' = board
<1>1. run \in [Stations -> Run] /\ run[s] \in Run /\ board \in [Stations -> Maybe]
  BY DEF Typed, BuildTypeOK, Run
<1>2. CASE Inspect(s)
  BY <1>1, <1>2 DEF Inspect, At, RunEnded, Uploading, Run
<1>3. CASE Dependencies(s)
  BY <1>1, <1>3 DEF Dependencies, At, RunEnded, Uploading, Run
<1>4. CASE Build(s)
  BY <1>1, <1>4 DEF Build, At, RunEnded, Uploading, Run
<1>5. CASE Save(s)
  BY <1>1, <1>5, Runs DEF Save, Move, At, RunEnded, Uploading, Run
<1>6. CASE Erase(s) \/ KeepFlash(s)
  BY <1>1, <1>6 DEF Erase, KeepFlash, Files, Move, At, RunEnded, Uploading, Run
<1>7. CASE Upload(s)
  BY <1>1, <1>7 DEF Upload, Move, At, RunEnded, Uploading, Run
<1>8. CASE SaveAgain(s)
  BY <1>1, <1>8 DEF SaveAgain, Move, At, RunEnded, Uploading, Run
<1>9. ASSUME NEW operation \in Failures, Fail(s, operation)
      PROVE  ~RunEnded(s) /\ run' = [run EXCEPT ![s] = Failed] /\ inputs' = inputs
             /\ \A t \in Stations \ {s} : board'[t] = board[t]
  <2>1. operation \in {"dependencies", "build", "save", "erase", "upload"}
    BY <1>9, BuildsAssumption DEF Typed, BuildsAssumption, Fail, FailureKinds
  <2>2. ~RunEnded(s)
    BY <1>9, <2>1 DEF Fail, Fails, At, RunEnded
  <2> QED
    BY <1>1, <1>9, <2>2 DEF Fail, Files
<1>10. ASSUME Kill(s)
       PROVE  ~RunEnded(s) /\ run' = [run EXCEPT ![s] = Failed] /\ inputs' = inputs
              /\ \A t \in Stations \ {s} : board'[t] = board[t]
  BY <1>1, <1>10 DEF Kill
<1>11. CASE (\E operation \in Failures : Fail(s, operation)) \/ Kill(s)
  BY <1>1, <1>9, <1>10, <1>11, Runs
<1> QED
  BY <1>2, <1>3, <1>4, <1>5, <1>6, <1>7, <1>8, <1>11 DEF Steps

LEMMA StartOfOne ==
  ASSUME Typed, NEW s \in Stations, NEW config \in Builds, NEW mode \in Modes,
         Start(s, config, mode)
  PROVE  /\ Starts(s) /\ run'[s].config = config /\ inputs' = config /\ ~run'[s].hit
         /\ \A t \in Stations \ {s} : run'[t] = run[t]
         /\ UNCHANGED <<state, artifact, libdeps, orphans, board>>
<1>1. config \in Configuration
  BY BuildsAssumption DEF Typed, BuildsAssumption
<1> QED
  BY <1>1, Runs DEF Start, Starts, Typed, BuildTypeOK

LEMMA OwnKeeps ==
  ASSUME Typed, Own, HNext
  PROVE  Own'
<1> SUFFICES ASSUME NEW t \in Stations, ~overtaken'[t]
             PROVE  /\ Uploading(t)' => inputs' = run'[t].config
                    /\ run'[t].phase \in {"uploaded", "done"} => board'[t] = run'[t].config
  BY DEF Own
<1>1. \/ Starts(t) \/ run'[t].phase = "failed"
      \/ ~overtaken[t] /\ \A u \in Stations \ {t} : ~Overtakes(u, t)
  BY DEF HNext
<1>2. ASSUME NEW s \in Stations, NEW config \in Builds, NEW mode \in Modes,
             Start(s, config, mode)
      PROVE  /\ Uploading(t)' => inputs' = run'[t].config
             /\ run'[t].phase \in {"uploaded", "done"} => board'[t] = run'[t].config
  BY <1>1, <1>2, StartOfOne DEF Own, Starts, RunEnded, Uploading, Overtakes
<1>3. ASSUME NEW s \in Stations, Steps(s)
      PROVE  /\ Uploading(t)' => inputs' = run'[t].config
             /\ run'[t].phase \in {"uploaded", "done"} => board'[t] = run'[t].config
  BY <1>1, <1>3, StepsOfOne DEF Own, Starts, RunEnded, Uploading
<1>4. ASSUME NEW config \in orphans, OrphanEnds(config)
      PROVE  /\ Uploading(t)' => inputs' = run'[t].config
             /\ run'[t].phase \in {"uploaded", "done"} => board'[t] = run'[t].config
  BY <1>1, <1>4 DEF OrphanEnds, Own, Starts, RunEnded, Uploading
<1> QED
  BY <1>2, <1>3, <1>4 DEF HNext, BuildNext

\* The firmware a run has uploaded is of its own configuration, unless a run
\* of another configuration was started meanwhile: whatever failed, was killed
\* or still compiles, and whichever record or artifact was taken over
\* (flash_firmware).
THEOREM OwnUpload == HSpec => []OwnUploadIsConfigured
<1>1. HInit => Own
  <2> SUFFICES ASSUME HInit PROVE Own
    OBVIOUS
  <2>1. \A s \in Stations : run[s] = Idle
    BY DEF HInit, BuildInit
  <2> QED
    BY <2>1, Runs DEF Own, Uploading
<1>2. Own /\ UNCHANGED hvars => Own'
  BY DEF Own, hvars, buildVars, Uploading
<1>3. Own => OwnUploadIsConfigured
  BY DEF Own, OwnUploadIsConfigured
<1> QED
  BY <1>1, <1>2, <1>3, SpecTyped, OwnKeeps, PTL DEF HSpec

-----------------------------------------------------------------------------
(* What is erased.  As long as every build has been recorded, at most one  *)
(* run is in progress, and the artifacts are those of the record except    *)
(* between a build and its record.                                         *)

\* How far a run has brought the artifacts and their record.
Brought(s) ==
  /\ Uploading(s) => inputs = run[s].config
  /\ At(s, "building") => run[s].compiling = run[s].config
  /\ At(s, "built") => artifact = run[s].config
  /\ (At(s, "ready") /\ run[s].hit) \/ run[s].phase \in {"saved", "blank", "uploaded"} =>
       artifact = run[s].config /\ state = run[s].config

Recorded == recorded =>
  /\ orphans = {}
  /\ \A s, t \in Stations : s # t => RunEnded(s) \/ RunEnded(t)
  /\ \A s \in Stations : Brought(s)
  /\ (\A s \in Stations : ~At(s, "built")) => artifact \in {Nil, state}

\* Equal in all parts is equal.
LEMMA NothingChanged ==
  ASSUME NEW a \in Configuration, NEW b \in Configuration,
         Changed(a, b) = {}
  PROVE  a = b
  BY DEF Configuration, Changed

\* The one run that is not at its end decides.
LEMMA OneRun ==
  ASSUME Typed, Recorded, NEW s \in Stations, recorded,
         \A t \in Stations \ {s} : RunEnded(t) /\ run'[t] = run[t],
         orphans' = {}, Brought(s)',
         ~At(s, "built")' => artifact' \in {Nil, state'}
  PROVE  Recorded'
<1>1. \A t \in Stations \ {s} : RunEnded(t)' /\ ~At(t, "built")' /\ Brought(t)'
  BY DEF RunEnded, At, Brought, Uploading
<1> QED
  BY <1>1 DEF Recorded

LEMMA RecordKeeps ==
  ASSUME Typed, Recorded, HNext
  PROVE  Recorded'
<1> SUFFICES ASSUME recorded' PROVE Recorded'
  BY DEF Recorded
<1>1. recorded /\ ~Unrecorded
  BY DEF HNext, Typed
<1>2. /\ orphans = {} /\ \A s \in Stations : Brought(s)
      /\ \A s, t \in Stations : s # t => RunEnded(s) \/ RunEnded(t)
      /\ (\A s \in Stations : ~At(s, "built")) => artifact \in {Nil, state}
  BY <1>1 DEF Recorded
<1>3. /\ \A s \in Stations : ~(At(s, "built") /\ run'[s].phase = "failed")
      /\ \A s \in Stations : orphans' \ orphans = {}
      /\ \A s \in Stations : Starts(s) => \A t \in Stations \ {s} : RunEnded(t)
  <2>1. \A s \in Stations : ~(At(s, "built") /\ run'[s].phase = "failed")
    BY <1>1 DEF Unrecorded
  <2>2. ASSUME NEW s \in Stations, Starts(s), NEW t \in Stations \ {s} PROVE RunEnded(t)
    BY <1>1, <2>2 DEF Unrecorded
  <2>3. \A s \in Stations : orphans' \ orphans = {}
    BY <1>1 DEF Unrecorded
  <2> QED
    BY <2>1, <2>2, <2>3
<1>4. ASSUME NEW s \in Stations, NEW config \in Builds, NEW mode \in Modes,
             Start(s, config, mode)
      PROVE  Recorded'
  <2>1. \A t \in Stations \ {s} : RunEnded(t) /\ run'[t] = run[t]
    BY <1>3, <1>4, StartOfOne
  <2>2. \A t \in Stations : ~At(t, "built")
    BY <1>4, <2>1 DEF Start, RunEnded, At
  <2>3. Brought(s)'
    BY <1>4, StartOfOne DEF Brought, Starts, At, Uploading
  <2> QED
    BY <1>1, <1>2, <1>4, <2>1, <2>2, <2>3, StartOfOne, OneRun
<1>5. ASSUME NEW s \in Stations, Steps(s) PROVE Recorded'
  <2>1. /\ ~RunEnded(s) /\ inputs' = inputs /\ orphans' = {}
        /\ \A t \in Stations \ {s} : RunEnded(t) /\ run'[t] = run[t]
    <3>1. orphans' = {}
      BY <1>2, <1>3
    <3> QED
      BY <1>2, <1>5, <3>1, StepsOfOne
  <2>2. ~At(s, "built") => artifact \in {Nil, state}
    BY <1>2, <2>1 DEF RunEnded, At
  <2>3. SUFFICES Brought(s)' /\ (~At(s, "built")' => artifact' \in {Nil, state'})
    BY <1>1, <2>1, OneRun
  <2>4. run \in [Stations -> Run] /\ run[s] \in Run /\ Brought(s)
    BY <1>2 DEF Typed, BuildTypeOK, Run
  <2>5. CASE Inspect(s)
    <3>1. /\ run[s].phase = "started" /\ run'[s].phase = "ready"
          /\ run'[s].config = run[s].config /\ state' = state
          /\ run'[s].hit => BuildIsCached(run[s].config) /\ run[s].mode = "normal"
          /\ artifact' = IF run[s].mode = "clean" THEN Nil ELSE artifact
      BY <2>4, <2>5 DEF Inspect, At, Run
    <3>2. artifact \in {Nil, state}
      BY <2>2, <3>1 DEF At
    <3>3. ASSUME run'[s].hit PROVE artifact' = run[s].config /\ state = run[s].config
      <4>1. run[s].config \in Configuration /\ state \in Configuration
        BY <3>1, <3>3 DEF BuildIsCached, Typed, BuildTypeOK, Configured, Maybe
      <4>2. state = run[s].config
        BY <3>1, <3>3, <4>1, NothingChanged DEF BuildIsCached
      <4> QED
        BY <3>1, <3>2, <3>3, <4>2 DEF BuildIsCached
    <3> QED
      BY <2>1, <2>4, <3>1, <3>2, <3>3 DEF Brought, At, Uploading
  <2>6. CASE Dependencies(s)
    <3>1. /\ run[s].phase = "ready" /\ run'[s].config = run[s].config
          /\ run'[s].phase = IF run[s].hit THEN "saved" ELSE "building"
          /\ run'[s].compiling = IF run[s].hit THEN Nil ELSE inputs
          /\ UNCHANGED <<state, artifact>>
      BY <2>4, <2>6 DEF Dependencies, At, Run
    <3> QED
      BY <2>1, <2>2, <2>4, <3>1 DEF Brought, At, Uploading
  <2>7. CASE Build(s)
    <3>1. /\ run[s].phase = "building" /\ run'[s].config = run[s].config
          /\ run'[s].phase = "built" /\ artifact' = run[s].compiling
      BY <2>4, <2>7 DEF Build, At, Run
    <3> QED
      BY <2>1, <2>4, <3>1 DEF Brought, At, Uploading
  <2>8. CASE Save(s)
    <3>1. run[s].phase = "built" /\ run'[s].phase # "failed"
      BY <1>3, <2>8 DEF Save, At
    <3>2. /\ run'[s].phase = "saved" /\ run'[s].config = run[s].config
          /\ artifact' = artifact /\ state' = run[s].config
      BY <2>4, <2>8, <3>1, Runs DEF Save, Move, Run
    <3> QED
      BY <2>1, <2>4, <3>1, <3>2 DEF Brought, At, Uploading
  <2>9. CASE Erase(s) \/ KeepFlash(s)
    <3>1. /\ run[s].phase = "saved" /\ run'[s].phase = "blank"
          /\ run'[s].config = run[s].config /\ UNCHANGED <<artifact, state>>
      BY <2>4, <2>9 DEF Erase, KeepFlash, Files, Move, At, Run
    <3> QED
      BY <2>1, <2>4, <3>1 DEF Brought, At, Uploading
  <2>10. CASE Upload(s)
    <3>1. /\ run[s].phase = "blank" /\ run'[s].phase = "uploaded"
          /\ run'[s].config = run[s].config /\ state' = state /\ artifact' = inputs
      BY <2>4, <2>10 DEF Upload, Move, At, Run
    <3> QED
      BY <2>1, <2>4, <3>1 DEF Brought, At, Uploading
  <2>11. CASE SaveAgain(s)
    <3>1. /\ run[s].phase = "uploaded" /\ run'[s].phase = "done"
          /\ artifact' = artifact /\ state' \in {state, run[s].config}
      BY <2>4, <2>11 DEF SaveAgain, Move, At, Run
    <3> QED
      BY <2>1, <2>4, <3>1 DEF Brought, At, Uploading
  <2>12. CASE (\E operation \in Failures : Fail(s, operation)) \/ Kill(s)
    <3>1. run'[s].phase = "failed" /\ UNCHANGED <<artifact, state>>
      BY <2>4, <2>12, Runs DEF Fail, Kill, Files
    <3>2. ~At(s, "built")
      BY <1>3, <3>1
    <3> QED
      BY <2>2, <3>1, <3>2 DEF Brought, At, Uploading
  <2> QED
    BY <1>5, <2>5, <2>6, <2>7, <2>8, <2>9, <2>10, <2>11, <2>12 DEF Steps
<1> QED
  BY <1>2, <1>4, <1>5 DEF HNext, BuildNext

\* A board is erased, or its flash written over, only with firmware of the
\* run's configuration on disk, as long as every build was recorded: then a
\* record that lets a run skip its build is one of the artifacts there
\* (flash_firmware, describe_build_cache).
THEOREM ErasesCompiled == HSpec => RecordedErasesCompiled
<1>1. HInit => Recorded
  <2> SUFFICES ASSUME HInit PROVE Recorded
    OBVIOUS
  <2>1. \A s \in Stations : run[s] = Idle
    BY DEF HInit, BuildInit
  <2>2. \A s \in Stations : Brought(s) /\ RunEnded(s)
    BY <2>1, Runs DEF Brought, At, Uploading, RunEnded
  <2> QED
    BY <2>2 DEF HInit, BuildInit, Recorded
<1>2. Recorded /\ UNCHANGED hvars => Recorded'
  BY DEF Recorded, Brought, hvars, buildVars, Uploading, RunEnded, At
<1>3. Recorded =>
        (recorded => \A s \in Stations :
           At(s, "saved") /\ run'[s].phase = "blank" => artifact = run[s].config)
  BY DEF Recorded, Brought, At
<1> QED
  BY <1>1, <1>2, <1>3, SpecTyped, RecordKeeps, PTL DEF HSpec, RecordedErasesCompiled

=============================================================================
