---------------------------- MODULE PlatformStart ----------------------------
(***************************************************************************)
(* scripts/start_platform.py from the rotation of the agent's token to the *)
(* final check, and --stop-platform: how the launcher finds, stops and     *)
(* starts the host's Manufacturing Agent, and hands the same token to it   *)
(* and, through .env, to the API's container.                              *)
(*                                                                         *)
(* The host's processes are a function from process ids to what runs under *)
(* them; an id is reused after its process ended.  The process that        *)
(* listens on port 8765 is an agent or some other application.  A launcher *)
(* may be interrupted at any step, and two may run at the same time.       *)
(***************************************************************************)
EXTENDS Integers, FiniteSets

CONSTANTS
    Launchers,      \* runs of start_platform.py
    Pids,           \* process ids
    MaxTokens,      \* bound: tokens drawn, one for each full start
    MaxReuses,      \* bound: process ids taken over by other programs
    MaxInterrupts,  \* bound: launchers interrupted
    Lsof,           \* whether the owner of a port can be identified
    Free, Other,    \* under a process id: nothing; a program of somebody else
    Nil

ASSUME PlatformStartAssumption ==
    /\ MaxTokens \in Nat /\ MaxReuses \in Nat /\ MaxInterrupts \in Nat
    /\ Lsof \in BOOLEAN
    /\ Nil \notin Pids
    /\ Free # Other /\ {Free, Other} \cap (0 .. MaxTokens) = {}

VARIABLES
    procs,          \* pid -> Free, Other or the token of the agent under it
    listener,       \* the pid that listens on the agent's port, or Nil
    pidFile,        \* logs/manufacturing-agent.pid
    envToken,       \* MANUFACTURING_AGENT_TOKEN in .env
    apiToken,       \* the token the API's container was created with
    pc, token, child, available,        \* each launcher
    drawn, reuses, interrupts

host == <<procs, listener, pidFile>>
launcher == <<pc, token, child, available>>
bounds == <<drawn, reuses, interrupts>>
startVars == <<host, envToken, apiToken, launcher, bounds>>

Tokens == 0 .. MaxTokens
IsAgent(p) == procs[p] \notin {Free, Other}
Alive(p) == procs[p] # Free

----------------------------------------------------------------------------
(* Helpers *)

Goto(l, to) == pc' = [pc EXCEPT ![l] = to]

(* terminate_pid *)
Terminate(p) ==
    /\ procs' = [procs EXCEPT ![p] = Free]
    /\ listener' = IF listener = p THEN Nil ELSE listener

(* start_agent raised: main goes on without the agent *)
AgentFailed(l) ==
    /\ Goto(l, "docker")
    /\ available' = [available EXCEPT ![l] = FALSE]

----------------------------------------------------------------------------
(* A full start *)

(* configure_manufacturing: a new token, in .env *)
Rotate(l) ==
    /\ pc[l] = "idle"
    /\ drawn < MaxTokens
    /\ drawn' = drawn + 1
    /\ token' = [token EXCEPT ![l] = drawn + 1]
    /\ envToken' = drawn + 1
    /\ Goto(l, "tracked")
    /\ UNCHANGED <<host, apiToken, child, available, reuses, interrupts>>

(* stop_stale_agent_listener: the process the pid file names, if alive *)
StopTracked(l) ==
    /\ pc[l] = "tracked"
    /\ IF pidFile # Nil /\ Alive(pidFile)
       THEN Terminate(pidFile)
       ELSE UNCHANGED <<procs, listener>>
    /\ pidFile' = Nil
    /\ Goto(l, "port")
    /\ UNCHANGED <<envToken, apiToken, token, child, available, bounds>>

(* Then the process that listens on the port, if it is an agent *)
StopListener(l) ==
    /\ pc[l] = "port"
    /\ \/ /\ listener = Nil
          /\ Goto(l, "spawn")
          /\ UNCHANGED <<host, available>>
       \/ /\ listener # Nil
          /\ Lsof /\ IsAgent(listener)
          /\ Terminate(listener)
          /\ Goto(l, "stopped")
          /\ UNCHANGED <<pidFile, available>>
       \/ /\ listener # Nil
          /\ ~Lsof \/ ~IsAgent(listener)
          /\ AgentFailed(l)
          /\ UNCHANGED host
    /\ UNCHANGED <<envToken, apiToken, token, child, bounds>>

(* The port must be free now; another launcher may have taken it again *)
PortStopped(l) ==
    /\ pc[l] = "stopped"
    /\ IF listener = Nil
       THEN Goto(l, "spawn") /\ UNCHANGED available
       ELSE AgentFailed(l)
    /\ UNCHANGED <<host, envToken, apiToken, token, child, bounds>>

(* Popen, with the token in the child's environment *)
Spawn(l) ==
    /\ pc[l] = "spawn"
    /\ \E p \in Pids :
        /\ procs[p] = Free
        /\ procs' = [procs EXCEPT ![p] = token[l]]
        /\ child' = [child EXCEPT ![l] = p]
    /\ Goto(l, "pidfile")
    /\ UNCHANGED <<listener, pidFile, envToken, apiToken, token, available, bounds>>

(* The child dies of a busy port, or it listens *)
Bind(p) ==
    /\ IsAgent(p) /\ listener # p
    /\ IF listener = Nil
       THEN listener' = p /\ UNCHANGED procs
       ELSE procs' = [procs EXCEPT ![p] = Free] /\ UNCHANGED listener
    /\ UNCHANGED <<pidFile, envToken, apiToken, launcher, bounds>>

WritePidFile(l) ==
    /\ pc[l] = "pidfile"
    /\ pidFile' = child[l]
    /\ Goto(l, "wait")
    /\ UNCHANGED <<procs, listener, envToken, apiToken, token, child, available,
                   bounds>>

(* The child exited, somebody listens, or 20 seconds passed.  poll() knows *)
(* its own child: an id is not reused before the parent has seen the exit. *)
WaitAgent(l) ==
    /\ pc[l] = "wait"
    /\ \/ /\ procs[child[l]] = Free
          /\ pidFile' = Nil
          /\ AgentFailed(l)
          /\ UNCHANGED <<procs, listener>>
       \/ /\ procs[child[l]] # Free
          /\ listener # Nil
          /\ available' = [available EXCEPT ![l] = TRUE]
          /\ Goto(l, "docker")
          /\ UNCHANGED host
       \/ /\ procs[child[l]] # Free
          /\ listener = Nil
          /\ Terminate(child[l])
          /\ pidFile' = Nil
          /\ AgentFailed(l)
    /\ UNCHANGED <<envToken, apiToken, token, child, bounds>>

(* A container that is up already is kept as it is, for a mutant *)
DockerUpKeeping(l) ==
    /\ pc[l] = "docker"
    /\ apiToken' = IF apiToken = Nil THEN envToken ELSE apiToken
    /\ Goto(l, "verify")
    /\ UNCHANGED <<host, envToken, token, child, available, bounds>>

(* docker compose up --force-recreate reads .env; it may fail *)
DockerUp(l) ==
    /\ pc[l] = "docker"
    /\ \/ /\ apiToken' = envToken
          /\ Goto(l, "verify")
       \/ /\ UNCHANGED apiToken
          /\ Goto(l, "idle")
    /\ UNCHANGED <<host, envToken, token, child, available, bounds>>

(* verify_agent_auth_from_api_container only says what it found *)
Verify(l) ==
    /\ pc[l] = "verify"
    /\ Goto(l, "idle")
    /\ UNCHANGED <<host, envToken, apiToken, token, child, available, bounds>>

(* The operator interrupts a launcher; an agent it started goes on *)
Interrupt(l) ==
    /\ pc[l] # "idle"
    /\ interrupts < MaxInterrupts
    /\ interrupts' = interrupts + 1
    /\ Goto(l, "idle")
    /\ UNCHANGED <<host, envToken, apiToken, token, child, available, drawn, reuses>>

----------------------------------------------------------------------------
(* --stop-platform, in two steps as in a start: the process of the pid     *)
(* file, then an agent that still listens                                  *)

DockerDown(l) ==
    /\ pc[l] = "idle"
    /\ apiToken # Nil
    /\ apiToken' = Nil
    /\ Goto(l, "stop")
    /\ UNCHANGED <<host, envToken, token, child, available, bounds>>

StopHostServices(l) ==
    /\ pc[l] = "stop"
    /\ IF pidFile # Nil /\ Alive(pidFile)
       THEN Terminate(pidFile)
       ELSE UNCHANGED <<procs, listener>>
    /\ pidFile' = Nil
    /\ Goto(l, "stopListener")
    /\ UNCHANGED <<envToken, apiToken, token, child, available, bounds>>

StopHostListener(l) ==
    /\ pc[l] = "stopListener"
    /\ IF Lsof /\ listener # Nil /\ IsAgent(listener)
       THEN Terminate(listener)
       ELSE UNCHANGED <<procs, listener>>
    /\ Goto(l, "idle")
    /\ UNCHANGED <<pidFile, envToken, apiToken, token, child, available, bounds>>

----------------------------------------------------------------------------
(* The host *)

(* An agent that no launcher waits for ends (a reboot, a closed session) *)
AgentEnds(p) ==
    /\ IsAgent(p)
    /\ \A l \in Launchers : pc[l] \in {"pidfile", "wait"} => child[l] # p
    /\ procs' = [procs EXCEPT ![p] = Free]
    /\ listener' = IF listener = p THEN Nil ELSE listener
    /\ UNCHANGED <<pidFile, envToken, apiToken, launcher, bounds>>

(* Another program starts under a free id, and may listen on the port *)
OtherStarts(p) ==
    /\ procs[p] = Free
    /\ \A l \in Launchers : pc[l] \in {"pidfile", "wait"} => child[l] # p
    /\ reuses < MaxReuses
    /\ reuses' = reuses + 1
    /\ procs' = [procs EXCEPT ![p] = Other]
    /\ listener' \in {listener} \union (IF listener = Nil THEN {p} ELSE {})
    /\ UNCHANGED <<pidFile, envToken, apiToken, launcher, drawn, interrupts>>

----------------------------------------------------------------------------

StartInit ==
    /\ procs = [p \in Pids |-> Free]
    /\ listener = Nil
    /\ pidFile = Nil
    /\ envToken = 0
    /\ apiToken = Nil
    /\ pc = [l \in Launchers |-> "idle"]
    /\ token = [l \in Launchers |-> 0]
    /\ child = [l \in Launchers |-> Nil]
    /\ available = [l \in Launchers |-> FALSE]
    /\ drawn = 0 /\ reuses = 0 /\ interrupts = 0

StartNext ==
    \/ \E l \in Launchers :
        \/ Rotate(l) \/ StopTracked(l) \/ StopListener(l) \/ PortStopped(l)
        \/ Spawn(l) \/ WritePidFile(l) \/ WaitAgent(l)
        \/ DockerUp(l) \/ Verify(l)
        \/ DockerDown(l) \/ StopHostServices(l) \/ StopHostListener(l)
        \/ Interrupt(l)
    \/ \E p \in Pids : Bind(p) \/ AgentEnds(p) \/ OtherStarts(p)

StartSpec == StartInit /\ [][StartNext]_startVars

----------------------------------------------------------------------------
(* Properties *)

Steps ==
    {"idle", "tracked", "port", "stopped", "spawn", "pidfile", "wait", "docker",
     "verify", "stop", "stopListener"}

StartTypeOK ==
    /\ procs \in [Pids -> {Free, Other} \union Tokens]
    /\ listener \in Pids \union {Nil}
    /\ listener # Nil => Alive(listener)
    /\ pidFile \in Pids \union {Nil}
    /\ envToken \in Tokens /\ apiToken \in Tokens \union {Nil}
    /\ pc \in [Launchers -> Steps]
    /\ token \in [Launchers -> Tokens]
    /\ child \in [Launchers -> Pids \union {Nil}]
    /\ available \in [Launchers -> BOOLEAN]

(* The port-based half of the launcher, and stop_host_services after it,   *)
(* end nothing but a Manufacturing Agent.                                  *)
ListenerSpared ==
    [][\A l \in Launchers :
        pc[l] \in {"port", "stopListener"} /\ pc'[l] # pc[l] =>
            \A p \in Pids : procs[p] = Other => procs'[p] = Other]_startVars

(* The launcher ends no process but a Manufacturing Agent. *)
(* It does not hold: README, Disagreements.                              *)
OthersSpared == [][\A p \in Pids : procs[p] = Other => procs'[p] = Other]_startVars

(* When a start that found its agent available comes to the final check,   *)
(* and no other start is under way, the agent that listens and the API     *)
(* have the same token: the old agent was replaced, not taken for the new  *)
(* one.                                                                    *)
TokensShared ==
    \A l \in Launchers :
        /\ pc[l] = "verify" /\ available[l]
        /\ \A k \in Launchers \ {l} : pc[k] = "idle"
        /\ listener # Nil /\ IsAgent(listener)
        => procs[listener] = apiToken

============================================================================
