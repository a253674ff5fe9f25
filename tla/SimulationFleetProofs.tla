----------------------- MODULE SimulationFleetProofs -----------------------
(***************************************************************************)
(* Theorems about SimulationFleet, for every fleet, any number of          *)
(* processes, starts and resets, and everything that may happen to them.   *)
(***************************************************************************)
EXTENDS SimulationFleet, TLAPS

-----------------------------------------------------------------------------
(* The inductive invariant.                                                *)

\* Types, as far as the argument needs them.
Process == [dev : Devices \cup {None}, pc : ProcessPhases, secret : Nat, key : Nat]
Shape ==
  /\ enabled \in BOOLEAN
  /\ instances \in [Devices -> Procs \cup {None}]
  /\ mgr.op \in {"none", "disable", "stop", "reset", "purge"}
  /\ mgr = [op |-> mgr.op, todo |-> mgr.todo, reset |-> mgr.reset]
  /\ proc \in [Procs -> Process]
  /\ files \in [Devices -> [File -> Nat]]
  /\ \A r \in requests :
       /\ r.proc \in Procs /\ r.kind \in Waiting /\ r.dev \in Devices /\ r.secret \in Nat
       /\ r = [proc |-> r.proc, kind |-> r.kind, dev |-> r.dev, secret |-> r.secret,
               key |-> r.key]
  /\ secrets \in Nat /\ starts \in Nat

\* The manager knows every process there is.
Tracked ==
  \A p \in Procs : Live(p) => proc[p].dev \in Devices /\ instances[proc[p].dev] = p

\* A handler that stops the fleet has every process on its list, and one that
\* purges the directories has stopped them all.
StopsAll ==
  /\ mgr.op \in {"disable", "stop", "reset"} => \A p \in Procs : Live(p) => p \in mgr.todo
  /\ mgr.op = "purge" => \A p \in Procs : ~Live(p)

\* What a process has written so far is there.
Written ==
  \A p \in Procs :
    /\ proc[p].pc = "saveCertificate" => OnDisk(p)["key"] = proc[p].key
    /\ proc[p].pc = "saveProvisioning" =>
         OnDisk(p)["key"] = proc[p].key /\ OnDisk(p)["certificate"] = proc[p].key

IInv ==
  /\ Shape /\ Tracked /\ StopsAll /\ Written
  /\ DisabledMeansStopped /\ ConnectsAsOneEnrollment

-----------------------------------------------------------------------------

LEMMA InitIInv == Init => IInv
<1> SUFFICES ASSUME Init PROVE IInv
  OBVIOUS
<1> USE ConstantsAssumption
<1>1. Shape
  BY DEF Init, Shape, NoHandler, Dead, Process, ProcessPhases, NoFiles
<1>2. \A p \in Procs : proc[p].pc = "dead" /\ ~Live(p)
  BY DEF Init, Dead, Live
<1> QED
  BY <1>1, <1>2 DEF Init, NoHandler, IInv, Tracked, StopsAll, Written, DisabledMeansStopped,
     ConnectsAsOneEnrollment

\* The manager.
LEMMA ManagerKeeps ==
  ASSUME IInv,
         \/ Enable \/ ManagerCrash \/ Stopping
         \/ \E d \in Devices, p \in Procs : Start(d, p)
  PROVE  IInv'
<1> USE ConstantsAssumption
<1>1. CASE Enable
  BY <1>1 DEF IInv, Enable, Unlocked, Fleet, Shape, Tracked, StopsAll, Written, Live, OnDisk,
     DisabledMeansStopped, ConnectsAsOneEnrollment
<1>2. CASE ManagerCrash
  <2>1. Dead \in Process /\ \A p \in Procs : proc'[p] = Dead
    BY <1>2 DEF ManagerCrash, Dead, Process, ProcessPhases
  <2>2. \A p \in Procs : proc'[p].pc = "dead"
    BY <2>1 DEF Dead
  <2>3. Shape'
    BY <1>2, <2>1 DEF IInv, ManagerCrash, NoHandler, Shape
  <2> QED
    BY <1>2, <2>2, <2>3 DEF IInv, ManagerCrash, NoHandler, Tracked, StopsAll, Written, Live,
       DisabledMeansStopped, ConnectsAsOneEnrollment
<1>3. ASSUME NEW d \in Devices, NEW p \in Procs, Start(d, p) PROVE IInv'
  <2> DEFINE new == [dev |-> d, pc |-> "boot", secret |-> 0, key |-> starts + 1]
  <2>1. /\ mgr.op = "none" /\ enabled /\ ~Running(d)
        /\ proc' = [proc EXCEPT ![p] = new] /\ instances' = [instances EXCEPT ![d] = p]
        /\ starts' = starts + 1
        /\ UNCHANGED <<enabled, mgr, files, requests, secrets>>
    BY <1>3 DEF Start, MayStart, Unlocked, NextId, Fleet
  <2>2. new \in Process
    BY DEF IInv, Shape, Process, ProcessPhases
  <2>3. Shape'
    BY <2>1, <2>2 DEF IInv, Shape
  <2>4. Tracked'
    <3> SUFFICES ASSUME NEW q \in Procs, Live(q)'
                 PROVE  proc'[q].dev \in Devices /\ instances'[proc'[q].dev] = q
      BY DEF Tracked
    <3>1. CASE q = p
      BY <3>1, <2>1 DEF IInv, Shape
    <3>2. CASE q # p
      <4>1. proc'[q] = proc[q] /\ Live(q)
        BY <3>2, <2>1 DEF IInv, Shape, Live
      <4>2. proc[q].dev \in Devices /\ instances[proc[q].dev] = q
        BY <4>1 DEF IInv, Tracked
      <4>3. proc[q].dev # d
        BY <4>1, <4>2, <2>1 DEF Running, IInv, Shape
      <4> QED
        BY <4>1, <4>2, <4>3, <2>1 DEF IInv, Shape
    <3> QED
      BY <3>1, <3>2
  <2>5. \A q \in Procs : proc'[q] = IF q = p THEN new ELSE proc[q]
    BY <2>1 DEF IInv, Shape
  <2>6. new.pc = "boot"
    OBVIOUS
  <2> QED
    BY <2>1, <2>3, <2>4, <2>5, <2>6 DEF IInv, StopsAll, Written, OnDisk, Unlocked,
       DisabledMeansStopped, ConnectsAsOneEnrollment
<1>4. ASSUME NEW op \in {"disable", "stop", "reset"}, NEW id \in 0 .. resets, BeginStop(op, id)
      PROVE  IInv'
  <2>1. /\ mgr'.op = op /\ mgr'.todo = {p \in Procs : \E d \in Devices : instances[d] = p}
        /\ mgr' = [op |-> mgr'.op, todo |-> mgr'.todo, reset |-> mgr'.reset]
        /\ enabled' \in BOOLEAN
        /\ UNCHANGED <<instances, proc, files, requests, secrets, starts>>
    BY <1>4 DEF BeginStop, Fleet, IInv, Shape
  <2> QED
    BY <2>1 DEF IInv, Shape, Tracked, StopsAll, Written, Live, OnDisk, Unlocked,
       DisabledMeansStopped, ConnectsAsOneEnrollment
<1>5. ASSUME NEW p \in Procs, StopOne(p) PROVE IInv'
  <2>1. /\ proc' = [proc EXCEPT ![p] = Dead]
        /\ mgr' = [mgr EXCEPT !.todo = mgr.todo \ {p}]
        /\ UNCHANGED <<enabled, instances, files, requests, secrets, starts>>
    BY <1>5 DEF StopOne, Fleet
  <2>2. mgr'.op = mgr.op /\ mgr'.todo = mgr.todo \ {p}
        /\ mgr' = [op |-> mgr'.op, todo |-> mgr'.todo, reset |-> mgr'.reset]
    BY <2>1 DEF IInv, Shape
  <2>3. Dead \in Process /\ Dead.pc = "dead"
    BY DEF Dead, Process, ProcessPhases
  <2>4. \A q \in Procs : proc'[q] = IF q = p THEN Dead ELSE proc[q]
    BY <2>1 DEF IInv, Shape
  <2>5. Shape'
    BY <2>1, <2>2, <2>3 DEF IInv, Shape
  <2> QED
    BY <2>1, <2>2, <2>3, <2>4, <2>5 DEF IInv, Tracked, StopsAll, Written, Live, OnDisk, Unlocked,
       DisabledMeansStopped, ConnectsAsOneEnrollment
<1>6. CASE EndStop
  <2>1. \A p \in Procs : ~Live(p)
    BY <1>6 DEF EndStop, IInv, StopsAll
  <2>2. /\ mgr'.op \in {"none", "purge"}
        /\ mgr' = [op |-> mgr'.op, todo |-> mgr'.todo, reset |-> mgr'.reset]
        /\ UNCHANGED <<enabled, instances, proc, files, requests, secrets, starts>>
    BY <1>6 DEF EndStop, NoHandler, Fleet, IInv, Shape
  <2> QED
    BY <2>1, <2>2 DEF IInv, Shape, Tracked, StopsAll, Written, Live, OnDisk, Unlocked,
       DisabledMeansStopped, ConnectsAsOneEnrollment
<1>7. ASSUME NEW d \in Devices, NEW f \in File, Purge(d, f) PROVE IInv'
  <2>1. \A p \in Procs : proc[p].pc = "dead"
    BY <1>7 DEF Purge, IInv, StopsAll, Live
  <2>2. files' = [files EXCEPT ![d][f] = 0]
        /\ UNCHANGED <<enabled, instances, mgr, proc, requests, secrets, starts>>
    BY <1>7 DEF Purge, Manager
  <2>3. files' \in [Devices -> [File -> Nat]]
    BY <2>2 DEF IInv, Shape
  <2> QED
    BY <2>1, <2>2, <2>3 DEF IInv, Shape, Tracked, StopsAll, Written, Live, Unlocked,
       DisabledMeansStopped, ConnectsAsOneEnrollment
<1>8. CASE EndPurge
  <2>1. \A p \in Procs : proc[p].pc = "dead"
    BY <1>8 DEF EndPurge, IInv, StopsAll, Live
  <2>2. /\ mgr' = NoHandler /\ instances' = [d \in Devices |-> None]
        /\ UNCHANGED <<enabled, proc, files, requests, secrets, starts>>
    BY <1>8 DEF EndPurge
  <2> QED
    BY <2>1, <2>2 DEF NoHandler, IInv, Shape, Tracked, StopsAll, Written, Live, Unlocked,
       DisabledMeansStopped, ConnectsAsOneEnrollment
<1> QED
  BY <1>1, <1>2, <1>3, <1>4, <1>5, <1>6, <1>7, <1>8 DEF Stopping

\* What changes one process without starting or connecting it, and neither the
\* manager nor the files, keeps the invariant; so does its end.
LEMMA ProcessMoves ==
  ASSUME IInv, NEW p \in Procs, NEW new \in Process,
         proc' = [proc EXCEPT ![p] = new], UNCHANGED <<Manager, files>>, Shape',
         \/ new.pc = "dead"
         \/ Live(p) /\ new.dev = proc[p].dev /\ new.pc \in Waiting \cup {"saveFactory", "saveKey"}
         \/ /\ Live(p) /\ new.dev = proc[p].dev
            /\ new.pc \in {"connecting", "running"}
            /\ OnDisk(p)["key"] = OnDisk(p)["certificate"]
  PROVE  IInv'
<1>1. \A q \in Procs : proc'[q] = IF q = p THEN new ELSE proc[q]
  BY DEF IInv, Shape
<1>2. \A q \in Procs : Live(q)' => Live(q) /\ proc'[q].dev = proc[q].dev
  BY <1>1 DEF Live
<1>3. Tracked' /\ StopsAll' /\ DisabledMeansStopped'
  BY <1>2 DEF IInv, Tracked, StopsAll, DisabledMeansStopped, Manager, Unlocked
<1>4. Written'
  BY <1>1 DEF IInv, Written, OnDisk, Waiting
<1>5. ConnectsAsOneEnrollment'
  BY <1>1 DEF IInv, ConnectsAsOneEnrollment, OnDisk, Waiting
<1> QED
  BY <1>3, <1>4, <1>5 DEF IInv

LEMMA BootKeeps ==
  ASSUME IInv, NEW p \in Procs, Boot(p)
  PROVE  IInv'
<1> USE ConstantsAssumption
<1>1. /\ proc[p] \in Process /\ proc[p].pc = "boot" /\ Live(p) /\ proc[p].dev \in Devices
      /\ OnDisk(p) \in [File -> Nat]
  BY DEF Boot, Live, IInv, Shape, Tracked, OnDisk
<1>2. UNCHANGED <<Manager, files, starts, secrets>>
  BY DEF Boot
<1>3. ASSUME CredentialsAvailable(OnDisk(p)), UNCHANGED requests,
             proc' = IF Valid(OnDisk(p)) THEN [proc EXCEPT ![p].pc = "connecting"]
                                         ELSE [proc EXCEPT ![p] = Dead]
      PROVE  IInv'
  <2>1. CASE Valid(OnDisk(p))
    <3> DEFINE new == [proc[p] EXCEPT !.pc = "connecting"]
    <3>1. new \in Process /\ new.dev = proc[p].dev /\ new.pc = "connecting"
      BY <1>1 DEF Process, ProcessPhases
    <3>2. proc' = [proc EXCEPT ![p] = new]
      BY <1>3, <2>1
    <3>3. Shape'
      BY <1>2, <1>3, <3>1, <3>2 DEF IInv, Shape, Manager
    <3>4. OnDisk(p)["key"] = OnDisk(p)["certificate"]
      BY <2>1 DEF Valid
    <3> HIDE DEF new
    <3> QED
      BY <1>1, <1>2, <3>1, <3>2, <3>3, <3>4, ProcessMoves
  <2>2. CASE ~Valid(OnDisk(p))
    <3>1. Dead \in Process /\ Dead.pc = "dead"
      BY DEF Dead, Process, ProcessPhases
    <3>2. Shape'
      BY <1>2, <1>3, <2>2, <3>1 DEF IInv, Shape, Manager
    <3> QED
      BY <1>2, <1>3, <2>2, <3>1, <3>2, ProcessMoves
  <2> QED
    BY <2>1, <2>2
<1>4. ASSUME NEW kind \in {"enroll", "register"}, NEW secret \in Nat, Send(p, kind, secret)
      PROVE  IInv'
  <2> DEFINE new == [proc[p] EXCEPT !.pc = kind, !.secret = secret]
  <2>1. new \in Process /\ new.dev = proc[p].dev /\ new.pc = kind
    BY <1>1 DEF Process, ProcessPhases, Waiting
  <2>2. proc' = [proc EXCEPT ![p] = new]
    BY <1>4 DEF Send
  <2>3. requests' = requests \cup {[proc |-> p, kind |-> kind, dev |-> proc[p].dev,
                                    secret |-> secret, key |-> proc[p].key]}
    BY <1>4 DEF Send
  <2>4. Shape'
    BY <1>1, <1>2, <2>1, <2>2, <2>3 DEF IInv, Shape, Manager, Waiting
  <2> HIDE DEF new
  <2> QED
    BY <1>1, <1>2, <2>1, <2>2, <2>4, ProcessMoves DEF Waiting
<1> QED
  BY <1>1, <1>3, <1>4 DEF Boot, File

LEMMA SavesKeeps ==
  ASSUME IInv, NEW p \in Procs, Saves(p)
  PROVE  IInv'
<1> USE ConstantsAssumption
<1> DEFINE d == proc[p].dev
<1>1. proc[p] \in Process /\ Live(p) /\ d \in Devices /\ instances[d] = p
  BY DEF Saves, Save, Live, IInv, Shape, Tracked
<1>2. UNCHANGED <<enabled, instances, mgr, starts, secrets>>
  BY DEF Saves, Manager
\* The one process of the device writes one file, and goes on with the next.
<1>3. ASSUME NEW file \in File, NEW value \in Nat, NEW new \in Process,
             files' = [files EXCEPT ![d][file] = value],
             proc' = [proc EXCEPT ![p] = new], new.dev = d, new.key = proc[p].key,
             Shape',
             \/ file = "factory" /\ new.pc = "enroll"
             \/ file = "key" /\ value = proc[p].key /\ new.pc = "saveCertificate"
             \/ /\ file = "certificate" /\ value = proc[p].key /\ new.pc = "saveProvisioning"
                /\ proc[p].pc = "saveCertificate"
             \/ /\ file = "provisioning" /\ new.pc = "connecting"
                /\ proc[p].pc = "saveProvisioning"
      PROVE  IInv'
  <2>1. \A q \in Procs : proc'[q] = IF q = p THEN new ELSE proc[q]
    BY <1>3 DEF IInv, Shape
  <2>2. \A q \in Procs : Live(q)' => Live(q) /\ proc'[q].dev = proc[q].dev
    BY <1>1, <1>3, <2>1 DEF Live
  <2>3. Tracked' /\ StopsAll' /\ DisabledMeansStopped'
    BY <1>2, <2>2 DEF IInv, Tracked, StopsAll, DisabledMeansStopped, Unlocked
  <2>4. \A q \in Procs \ {p} : Live(q)' => proc'[q] = proc[q] /\ OnDisk(q)' = OnDisk(q)
    <3> SUFFICES ASSUME NEW q \in Procs \ {p}, Live(q)'
                 PROVE  proc'[q] = proc[q] /\ OnDisk(q)' = OnDisk(q)
      OBVIOUS
    <3>1. Live(q) /\ proc'[q] = proc[q] /\ proc[q].dev \in Devices /\ proc[q].dev # d
      BY <1>1, <2>1, <2>2 DEF IInv, Tracked
    <3> QED
      BY <1>3, <3>1 DEF IInv, Shape, OnDisk
  <2>5. OnDisk(p)' = [OnDisk(p) EXCEPT ![file] = value] /\ OnDisk(p) \in [File -> Nat]
    BY <1>1, <1>3, <2>1 DEF IInv, Shape, OnDisk
  <2>6. OnDisk(p)'[file] = value /\ \A f \in File \ {file} : OnDisk(p)'[f] = OnDisk(p)[f]
    BY <2>5
  <2>7. /\ new.pc = "saveCertificate" => OnDisk(p)'["key"] = new.key
        /\ new.pc = "saveProvisioning" =>
             OnDisk(p)'["key"] = new.key /\ OnDisk(p)'["certificate"] = new.key
        /\ new.pc \in {"connecting", "running"} =>
             OnDisk(p)'["key"] = OnDisk(p)'["certificate"]
    BY <1>1, <1>3, <2>6 DEF IInv, Written, File
  <2>8. \A q \in Procs :
          proc'[q].pc \in {"saveCertificate", "saveProvisioning", "connecting", "running"}
            => Live(q)'
    BY DEF Live
  <2>9. Written'
    BY <2>1, <2>4, <2>7, <2>8 DEF IInv, Written
  <2>10. ConnectsAsOneEnrollment'
    BY <2>1, <2>4, <2>7, <2>8 DEF IInv, ConnectsAsOneEnrollment
  <2> QED
    BY <1>3, <2>3, <2>9, <2>10 DEF IInv
<1>4. CASE /\ proc[p].pc = "saveFactory"
           /\ files' = [files EXCEPT ![d]["factory"] = proc[p].secret]
           /\ Send(p, "enroll", proc[p].secret)
  <2> DEFINE new == [proc[p] EXCEPT !.pc = "enroll", !.secret = proc[p].secret]
  <2>1. new \in Process /\ new.dev = d /\ new.pc = "enroll" /\ new.key = proc[p].key
    BY <1>1 DEF Process, ProcessPhases, Waiting
  <2>2. proc' = [proc EXCEPT ![p] = new]
    BY <1>4 DEF Send
  <2>3. proc[p].secret \in Nat /\ "factory" \in File
    BY <1>1 DEF Process, File
  <2>4. requests' = requests \cup {[proc |-> p, kind |-> "enroll", dev |-> d,
                                    secret |-> proc[p].secret, key |-> proc[p].key]}
    BY <1>4 DEF Send
  <2>5. files' \in [Devices -> [File -> Nat]]
    BY <1>4, <2>3 DEF IInv, Shape
  <2>6. Shape'
    BY <1>1, <1>2, <2>1, <2>2, <2>3, <2>4, <2>5 DEF IInv, Shape, Waiting
  <2> HIDE DEF new
  <2> QED
    BY <1>3, <1>4, <2>1, <2>2, <2>3, <2>6
<1>5. ASSUME NEW pc \in Saving, NEW file \in File, NEW next \in ProcessPhases,
             Save(p, pc, file, proc[p].key, next),
             <<pc, file, next>> \in {<<"saveKey", "key", "saveCertificate">>,
                                     <<"saveCertificate", "certificate", "saveProvisioning">>,
                                     <<"saveProvisioning", "provisioning", "connecting">>}
      PROVE  IInv'
  <2> DEFINE new == [proc[p] EXCEPT !.pc = next]
  <2>1. new \in Process /\ new.dev = d /\ new.pc = next /\ new.key = proc[p].key
    BY <1>1 DEF Process
  <2>2. proc' = [proc EXCEPT ![p] = new]
    BY <1>5 DEF Save
  <2>3. proc[p].key \in Nat
    BY <1>1 DEF Process
  <2>4. files' = [files EXCEPT ![d][file] = proc[p].key] /\ proc[p].pc = pc
    BY <1>5 DEF Save
  <2>5. files' \in [Devices -> [File -> Nat]]
    BY <2>3, <2>4 DEF IInv, Shape
  <2>6. Shape'
    BY <1>2, <1>5, <2>1, <2>2, <2>5 DEF IInv, Shape, Save
  <2> HIDE DEF new
  <2> QED
    BY <1>3, <1>5, <2>1, <2>2, <2>3, <2>4, <2>6
<1> QED
  BY <1>4, <1>5 DEF Saves, Saving, File, ProcessPhases

\* A process connects, or ends: refused by the broker, or out of patience.
LEMMA EndsKeep ==
  ASSUME IInv, NEW p \in Procs, Connect(p) \/ GiveUp(p)
  PROVE  IInv'
<1>1. proc[p] \in Process /\ Live(p) /\ UNCHANGED <<Manager, files, requests, starts, secrets>>
  BY DEF Connect, GiveUp, Live, Waiting, Fleet, IInv, Shape
<1>2. CASE proc' = [proc EXCEPT ![p] = Dead]
  <2>1. Dead \in Process /\ Dead.pc = "dead"
    BY ConstantsAssumption DEF Dead, Process, ProcessPhases
  <2>2. Shape'
    BY <1>1, <1>2, <2>1 DEF IInv, Shape, Manager
  <2> QED
    BY <1>1, <1>2, <2>1, <2>2, ProcessMoves
<1>3. CASE Connect(p) /\ proc' = [proc EXCEPT ![p].pc = "running"]
  <2> DEFINE new == [proc[p] EXCEPT !.pc = "running"]
  <2>1. new \in Process /\ new.dev = proc[p].dev /\ new.pc = "running"
    BY <1>1 DEF Process, ProcessPhases
  <2>2. proc' = [proc EXCEPT ![p] = new]
    BY <1>3
  <2>3. Shape'
    BY <1>1, <2>1, <2>2 DEF IInv, Shape, Manager
  <2>4. OnDisk(p)["key"] = OnDisk(p)["certificate"]
    BY <1>3 DEF Connect, IInv, ConnectsAsOneEnrollment
  <2> HIDE DEF new
  <2> QED
    BY <1>1, <2>1, <2>2, <2>3, <2>4, ProcessMoves
<1> QED
  BY <1>2, <1>3 DEF Connect, GiveUp

\* The API answers a process, if it still waits, and takes the request away.
LEMMA AnswerKeeps ==
  ASSUME IInv, NEW r \in requests,
         NEW pc \in {"dead", "rotate", "saveFactory", "saveKey"}, NEW secret \in Nat,
         Answer(r, pc, secret), UNCHANGED <<Manager, files, starts>>, secrets' \in Nat,
         \A s \in requests' : s \in requests \/ s = [r EXCEPT !.kind = "rotate"]
  PROVE  IInv'
<1> USE ConstantsAssumption
<1>1. /\ r.proc \in Procs /\ r.kind \in Waiting /\ proc[r.proc] \in Process
      /\ \A s \in requests' :
           /\ s.proc \in Procs /\ s.kind \in Waiting /\ s.dev \in Devices /\ s.secret \in Nat
           /\ s = [proc |-> s.proc, kind |-> s.kind, dev |-> s.dev, secret |-> s.secret,
                   key |-> s.key]
  BY DEF IInv, Shape, Waiting
<1>2. CASE UNCHANGED proc
  BY <1>1, <1>2 DEF IInv, Shape, Tracked, StopsAll, Written, Live, OnDisk, Unlocked, Manager,
     DisabledMeansStopped, ConnectsAsOneEnrollment
<1>3. CASE proc[r.proc].pc = r.kind /\ pc = "dead" /\ proc' = [proc EXCEPT ![r.proc] = Dead]
  <2>1. Dead \in Process /\ Dead.pc = "dead"
    BY DEF Dead, Process, ProcessPhases
  <2>2. Shape'
    BY <1>1, <1>3, <2>1 DEF IInv, Shape, Manager
  <2> QED
    BY <1>1, <1>3, <2>1, <2>2, ProcessMoves
<1>4. CASE /\ proc[r.proc].pc = r.kind /\ pc # "dead"
           /\ proc' = [proc EXCEPT ![r.proc] = [proc[r.proc] EXCEPT !.pc = pc, !.secret = secret]]
  <2> DEFINE new == [proc[r.proc] EXCEPT !.pc = pc, !.secret = secret]
  <2>1. new \in Process /\ new.dev = proc[r.proc].dev /\ new.pc = pc
    BY <1>1, <1>4 DEF Process, ProcessPhases, Waiting, Saving
  <2>2. proc' = [proc EXCEPT ![r.proc] = new]
    BY <1>4
  <2>3. Shape'
    BY <1>1, <2>1, <2>2 DEF IInv, Shape, Manager
  <2>4. Live(r.proc)
    BY <1>1, <1>4 DEF Live, Waiting
  <2> HIDE DEF new
  <2> QED
    BY <1>1, <1>4, <2>1, <2>2, <2>3, <2>4, ProcessMoves DEF Waiting
<1> QED
  BY <1>2, <1>3, <1>4 DEF Answer

LEMMA ServesKeeps ==
  ASSUME IInv, NEW r \in requests, Serves(r)
  PROVE  IInv'
<1>1. /\ UNCHANGED <<Manager, files, starts>> /\ r.secret \in Nat
      /\ secrets \in Nat /\ secrets + 1 \in Nat /\ secrets' \in {secrets, secrets + 1}
  BY DEF Serves, Register, Rotate, Enroll, IInv, Shape
<1>2. CASE Register(r)
  BY <1>1, <1>2, AnswerKeeps DEF Register, Served
<1>3. CASE Rotate(r)
  BY <1>1, <1>3, AnswerKeeps DEF Rotate, Served
<1>4. CASE Enroll(r)
  BY <1>1, <1>4, AnswerKeeps DEF Enroll, Served
<1> QED
  BY <1>2, <1>3, <1>4 DEF Serves

\* The project reset asks the manager, and clears the registry; the processes
\* and their directories are the manager's.
LEMMA ResetKeeps ==
  ASSUME IInv, AskReset \/ RefuseReset \/ Clear
  PROVE  IInv'
<1>1. UNCHANGED <<enabled, instances, mgr, proc, files, requests, starts, secrets>>
  BY DEF AskReset, RefuseReset, Clear, Manager
<1> QED
  BY <1>1 DEF IInv, Shape, Tracked, StopsAll, Written, Live, OnDisk, Unlocked,
     DisabledMeansStopped, ConnectsAsOneEnrollment

LEMMA NextIInv == IInv /\ [Next]_vars => IInv'
<1> SUFFICES ASSUME IInv, [Next]_vars PROVE IInv'
  OBVIOUS
<1>1. CASE UNCHANGED vars
  BY <1>1 DEF vars, IInv, Shape, Tracked, StopsAll, Written, Live, OnDisk, Unlocked,
     DisabledMeansStopped, ConnectsAsOneEnrollment
<1> QED
  BY <1>1, ManagerKeeps, BootKeeps, SavesKeeps, EndsKeep, ServesKeeps, ResetKeeps DEF Next, Goes

LEMMA SpecIInv == Spec => []IInv
  BY InitIInv, NextIInv, PTL DEF Spec

-----------------------------------------------------------------------------
(* Theorems.                                                               *)

\* No two processes simulate one device, although a fleet is started while
\* another stops, requests outlive the process that sent them, and a device id
\* is used again once its process is gone (_next_ids, start_fleet).
THEOREM OneProcess == Spec => []OneProcessPerDevice
<1>1. IInv => OneProcessPerDevice
  BY DEF IInv, Tracked, OneProcessPerDevice
<1> QED
  BY <1>1, SpecIInv, PTL

\* When simulation is disabled and no handler is at work, every process is
\* dead: disabling waits for the lock, and then lists all that runs
\* (disable_simulation).
THEOREM DisabledStops == Spec => []DisabledMeansStopped
  BY SpecIInv, PTL DEF IInv

\* A simulator that connects uses a key and a certificate of one enrollment,
\* at whatever point the process before it was killed or the purge of its
\* directory interrupted (validate_local_credentials).
THEOREM OneEnrollment == Spec => []ConnectsAsOneEnrollment
  BY SpecIInv, PTL DEF IInv

=============================================================================
