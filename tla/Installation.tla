---------------------------- MODULE Installation ----------------------------
(***************************************************************************)
(* The local state of an installation and the programs that write it:      *)
(* scripts/setup.py (first run, --force and --sync-network) and the part   *)
(* of scripts/start_platform.py that runs them and brings the stack up.    *)
(* Every file is written on its own, in place, and the programs may be     *)
(* killed between two writes or in the middle of one.                      *)
(*                                                                         *)
(* A run is the sequence of the tasks it still has to do.  A task that     *)
(* checks something replaces itself by the tasks the check calls for; one  *)
(* that raises ends the run.  One operator starts one run at a time.       *)
(*                                                                         *)
(* Keys are numbers, equal only when they are the same key; a certificate  *)
(* is the key it certifies, the CA key that signed it and the address it   *)
(* names.  All the CAs have the same subject, so a check of the issuer's   *)
(* name says nothing (make_ca, ROOT_CA_NAME).                              *)
(***************************************************************************)
EXTENDS Integers, Sequences, FiniteSets

CONSTANTS
    Ips,            \* addresses the host's Wi-Fi may have
    MaxKeys,        \* bound: distinct keys of one kind in use at a time
    MaxCrashes,     \* bound: runs killed
    MaxForces,      \* bound: runs of setup.py --force
    MaxFailures,    \* bound: directories --force cannot remove
    Torn,           \* whether a killed run may leave half a file
    Initial,        \* the installations to begin with
    None, Broken    \* no file; a file cut in the middle

(* Eight keys: one more than can be in use when a CA key is drawn. *)
ASSUME InstallationAssumption ==
    /\ MaxKeys \in Nat /\ MaxKeys >= 8
    /\ MaxCrashes \in Nat /\ MaxForces \in Nat /\ MaxFailures \in Nat
    /\ Torn \in BOOLEAN
    /\ Initial \subseteq {"fresh", "installed", "older"}
    /\ None # Broken /\ {None, Broken} \cap (1 .. MaxKeys) = {}

Services == {"api", "broker"}
Internal == {"control", "healthcheck"}
Signed == Services \union Internal
Pairs == Signed \union {"ca", "time"}

Keys == 1 .. MaxKeys \union {None, Broken}
Certified == [key : Keys, issuer : Keys, ip : Ips \union {None}]
Certificates == Certified \union {None, Broken}

ASSUME FilesAssumption == None \notin Certified /\ Broken \notin Certified

VARIABLES
    key,            \* pki/<pair>/<pair>.key
    cert,           \* pki/<pair>/<pair>.crt, and pki/time/time-signing.pub
    crl,            \* pki/crl/ca.crl: the CA key that signed it
    env,            \* .env: whether it exists, its secrets, its address
    db,             \* the database: the master key its secrets are under
    todo,           \* the tasks of the run in progress
    ip,             \* the address the run in progress selected
    forcing,        \* the run in progress is setup.py --force
    left,           \* history: the internal identities, and the CA certificate,
                    \* that were there when the key of the CA was drawn
    up,             \* the stack is up and the launcher said so
    crashes, forces, failures

files == <<key, cert, crl, env, db>>
vars == <<files, todo, ip, forcing, left, up, crashes, forces, failures>>

Idle == todo = <<>>

----------------------------------------------------------------------------
(* Tasks *)

Task(op, of) == [op |-> op, of |-> of]

Pair(p) == <<Task("key", p), Task("cert", p)>>

ServiceTasks == Pair("api") \o Pair("broker")
InternalTasks == <<Task("internal", "control"), Task("internal", "healthcheck")>>

FirstRun ==
    Pair("ca") \o <<Task("time", "time")>> \o ServiceTasks \o InternalTasks
    \o <<Task("crl", "crl"), Task("newEnv", "env")>>

(* A forced run that forgets an internal identity, for a mutant            *)
RemovalsButControl ==
    [n \in 1 .. 6 |-> Task("drop", <<"ca", "api", "broker", "healthcheck", "crl", "time">>[n])]
    \o <<Task("dropDb", "db")>>

(* The directories --force removes, in its order, then the database *)
Removals ==
    [n \in 1 .. 7 |->
        Task("drop", <<"ca", "api", "broker", "control", "healthcheck", "crl", "time">>[n])]
    \o <<Task("dropDb", "db")>>

SyncNetwork ==
    <<Task("initialized", "ca"), Task("time", "time"), Task("load", "ca")>>
    \o InternalTasks \o <<Task("services", "env")>>

(* The operator's Wi-Fi, the token of the manufacturing agent, the stack *)
Launch == <<Task("rotate", "env"), Task("rotate", "env"), Task("up", "up")>>

----------------------------------------------------------------------------
(* What the checks see *)

Whole(x) == x \notin {None, Broken}

(* A number no key of the pair and no certificate of the installation has *)
InUse(p) ==
    {key[p]}
    \union (IF Whole(cert[p]) THEN {cert[p].key} ELSE {})
    \union (IF p = "ca"
            THEN {crl} \union {cert[q].issuer : q \in {r \in Signed : Whole(cert[r])}}
            ELSE {})

NewKey(p) == CHOOSE n \in 1 .. MaxKeys : n \notin InUse(p)

(* Two versions of the check below for mutants: the key, or the address, is *)
(* not compared.                                                           *)
CompatibleAnyKey(p, address) ==
    /\ Whole(cert[p]) /\ Whole(key[p])
    /\ cert[p].ip = address

CompatibleAnyIp(p, address) ==
    /\ Whole(cert[p]) /\ Whole(key[p])
    /\ cert[p].key = key[p]

(* _service_certificate_compatible, for an address *)
Compatible(p, address) ==
    /\ Whole(cert[p]) /\ Whole(key[p])
    /\ cert[p].key = key[p]
    /\ cert[p].ip = address

(* What a TLS peer that trusts the installed CA accepts *)
Valid(p) ==
    /\ Whole(cert[p]) /\ Whole(key[p])
    /\ cert[p].key = key[p]
    /\ Whole(cert["ca"]) /\ cert[p].issuer = cert["ca"].key

(* The checks of docker compose up and of the launcher: the broker finds   *)
(* its files and serves its health check, the API serves its own, and the  *)
(* time service loads its key.                                             *)
StackHealthy ==
    /\ Valid("broker") /\ Valid("healthcheck") /\ Valid("api")
    /\ Whole(cert["ca"]) /\ crl = cert["ca"].key
    /\ key["control"] # None /\ cert["control"] # None
    /\ Whole(key["time"])

----------------------------------------------------------------------------
(* The steps of a run *)

Done == todo' = Tail(todo)
Then(tasks) == todo' = tasks \o Tail(todo)
Raise == todo' = <<>>

At(op) == ~Idle /\ Head(todo).op = op
Of == Head(todo).of

run == <<ip, forcing, crashes, forces>>
keep == <<run, left, failures>>

MayOutlive == Internal \union {"ca"}

WriteKey ==
    /\ At("key")
    /\ key' = [key EXCEPT ![Of] = NewKey(Of)]
    /\ left' = IF Of = "ca" THEN {p \in MayOutlive : cert[p] # None} ELSE left
    /\ Done
    /\ UNCHANGED <<cert, crl, env, db, up, run, failures>>

(* The certificate of the key just written, signed with the CA's key *)
Certificate(p) ==
    [key |-> key[p],
     issuer |-> IF p = "time" THEN None ELSE key["ca"],
     ip |-> IF p \in Services THEN ip ELSE None]

WriteCert ==
    /\ At("cert")
    /\ cert' = [cert EXCEPT ![Of] = Certificate(Of)]
    /\ left' = left \ {Of}
    /\ Done
    /\ UNCHANGED <<key, crl, env, db, up, run, failures>>

WriteCrl ==
    /\ At("crl")
    /\ crl' = key["ca"]
    /\ Done
    /\ UNCHANGED <<key, cert, env, db, up, keep>>

(* build_env draws a new master key and a new dashboard password *)
NewMaster == CHOOSE n \in 1 .. MaxKeys : n \notin {db, env.master}

NewEnv == [exists |-> TRUE, master |-> NewMaster, ip |-> ip]

WriteNewEnv ==
    /\ At("newEnv")
    /\ env' = NewEnv
    /\ Done
    /\ UNCHANGED <<key, cert, crl, db, up, keep>>

(* set_env_values reads the lines there are and rewrites the file *)
Updated(op) == IF op = "endpoint" THEN [env EXCEPT !.ip = ip] ELSE env

RewriteEnv ==
    /\ At("endpoint") \/ At("rotate")
    /\ env' = Updated(Head(todo).op)
    /\ Done
    /\ UNCHANGED <<key, cert, crl, db, up, keep>>

(* rmtree(ignore_errors=True): of a directory that cannot be removed, or   *)
(* not all of it, any of the files stay, and the run goes on.              *)
Drop ==
    /\ At("drop")
    /\ \E stays \in SUBSET {"key", "cert"} :
        /\ stays # {} => failures < MaxFailures
        /\ failures' = IF stays = {} THEN failures ELSE failures + 1
        /\ IF Of = "crl"
           THEN crl' = (IF stays = {} THEN None ELSE crl) /\ UNCHANGED <<key, cert>>
           ELSE /\ key' = IF "key" \in stays THEN key ELSE [key EXCEPT ![Of] = None]
                /\ cert' = IF "cert" \in stays THEN cert ELSE [cert EXCEPT ![Of] = None]
                /\ UNCHANGED crl
    /\ Done
    /\ UNCHANGED <<env, db, up, run, left>>

(* unlink raises where it fails, which ends the run as Kill does. *)
DropDb ==
    /\ At("dropDb")
    /\ db' = None
    /\ Done
    /\ UNCHANGED <<key, cert, crl, env, up, keep>>

(* ensure_time_signing_material, ensure_internal_client_certificates: both *)
(* files are there, none is, or the run raises.                            *)
EnsurePair ==
    /\ At("time") \/ At("internal")
    /\ IF key[Of] # None /\ cert[Of] # None
       THEN Done
       ELSE IF key[Of] # None \/ cert[Of] # None
            THEN Raise
            ELSE Then(Pair(Of))
    /\ UNCHANGED <<files, up, keep>>

(* sync_network on an installation without .env or without its CA; later   *)
(* it loads the CA's files                                                 *)
CheckInitialized ==
    /\ At("initialized")
    /\ IF env.exists /\ key["ca"] # None /\ cert["ca"] # None THEN Done ELSE Raise
    /\ UNCHANGED <<files, up, keep>>

LoadCa ==
    /\ At("load")
    /\ IF Whole(key["ca"]) /\ Whole(cert["ca"]) THEN Done ELSE Raise
    /\ UNCHANGED <<files, up, keep>>

(* Certificates first, .env last *)
CheckServices ==
    /\ At("services")
    /\ IF env.ip = ip /\ \A p \in Services : Compatible(p, ip)
       THEN Then(<<Task("rotate", "env")>>)
       ELSE Then(ServiceTasks \o <<Task("endpoint", "env")>>)
    /\ UNCHANGED <<files, up, keep>>

(* docker_up and the checks after it; the API creates a missing database *)
BringUp ==
    /\ At("up")
    /\ up' = StackHealthy
    /\ db' = IF StackHealthy /\ db = None THEN env.master ELSE db
    /\ Done
    /\ UNCHANGED <<key, cert, crl, env, keep>>

Step ==
    \/ WriteKey \/ WriteCert \/ WriteCrl \/ WriteNewEnv \/ RewriteEnv
    \/ Drop \/ DropDb
    \/ EnsurePair \/ CheckInitialized \/ LoadCa \/ CheckServices
    \/ BringUp

----------------------------------------------------------------------------
(* Starting a run; the launcher and setup.py refuse what they do not expect *)

Begin(tasks, force) ==
    /\ Idle
    /\ todo' = tasks
    /\ ip' \in Ips
    /\ forcing' = force
    /\ up' = FALSE
    /\ UNCHANGED <<files, left, crashes, failures>>

(* setup.py *)
Setup ==
    /\ ~env.exists /\ key["ca"] = None
    /\ Begin(FirstRun, FALSE)
    /\ UNCHANGED forces

SetupForce ==
    /\ forces < MaxForces
    /\ forces' = forces + 1
    /\ Begin(Removals \o FirstRun, TRUE)

(* ensure_initialized, synchronize_network_if_enabled and the rest of main *)
StartPlatform ==
    /\ \/ /\ env.exists
          /\ Begin(SyncNetwork \o Launch, FALSE)
       \/ /\ ~env.exists /\ key["ca"] = None /\ db = None
          /\ Begin(FirstRun \o SyncNetwork \o Launch, FALSE)
    /\ UNCHANGED forces

(* The run is killed: the next write was not made, or, if Torn, half made. *)
(* Half of .env is a prefix of it: the secrets come before the address.    *)
HalfWritten ==
    \/ /\ At("key") /\ key' = [key EXCEPT ![Of] = Broken]
       /\ UNCHANGED <<cert, crl, env>>
    \/ /\ At("cert") /\ cert' = [cert EXCEPT ![Of] = Broken]
       /\ UNCHANGED <<key, crl, env>>
    \/ /\ At("crl") /\ crl' = Broken
       /\ UNCHANGED <<key, cert, env>>
    \/ /\ At("newEnv") \/ At("rotate") \/ At("endpoint")
       /\ \E master \in {None, IF At("newEnv") THEN NewMaster ELSE env.master} :
            env' = [exists |-> TRUE, master |-> master, ip |-> None]
       /\ UNCHANGED <<key, cert, crl>>

Kill ==
    /\ ~Idle
    /\ crashes < MaxCrashes
    /\ crashes' = crashes + 1
    /\ todo' = <<>>
    /\ \/ UNCHANGED files
       \/ Torn /\ HalfWritten /\ UNCHANGED db
    /\ UNCHANGED <<ip, forcing, left, up, forces, failures>>

----------------------------------------------------------------------------

Installed(pairs, address) ==
    /\ key = [p \in Pairs |-> IF p \in pairs THEN 1 ELSE None]
    /\ cert = [p \in Pairs |->
            IF p \notin pairs THEN None
            ELSE [key |-> 1,
                  issuer |-> IF p = "time" THEN None ELSE 1,
                  ip |-> IF p \in Services THEN address ELSE None]]
    /\ crl = IF pairs = {} THEN None ELSE 1
    /\ env = [exists |-> pairs # {},
              master |-> IF pairs = {} THEN None ELSE 1,
              ip |-> IF pairs = {} THEN None ELSE address]
    /\ db = IF pairs = {} THEN None ELSE 1

(* An older installation has no identity for the broker's health check and *)
(* no time signing key.                                                    *)
Init ==
    /\ \E address \in Ips :
        \/ "fresh" \in Initial /\ Installed({}, address)
        \/ "installed" \in Initial /\ Installed(Pairs, address)
        \/ "older" \in Initial /\ Installed(Pairs \ {"healthcheck", "time"}, address)
    /\ todo = <<>>
    /\ ip \in Ips
    /\ forcing = FALSE
    /\ left = {}
    /\ up = FALSE
    /\ crashes = 0 /\ forces = 0 /\ failures = 0

Next == Step \/ Setup \/ SetupForce \/ StartPlatform \/ Kill

Spec == Init /\ [][Next]_vars

(* A run that is not killed goes on, and the operator starts the platform *)
(* again whenever it is not running.                                      *)
FairSpec == Spec /\ WF_vars(Step) /\ WF_vars(StartPlatform)

----------------------------------------------------------------------------
(* Properties *)

TypeOK ==
    /\ key \in [Pairs -> Keys]
    /\ cert \in [Pairs -> Certificates]
    /\ crl \in Keys
    /\ env \in [exists : BOOLEAN, master : Keys, ip : Ips \union {None}]
    /\ ~env.exists => env.master = None /\ env.ip = None
    /\ db \in Keys
    /\ todo \in Seq([op : STRING, of : STRING])
    /\ ip \in Ips
    /\ forcing \in BOOLEAN /\ left \subseteq MayOutlive /\ up \in BOOLEAN
    /\ crashes \in 0 .. MaxCrashes /\ forces \in 0 .. MaxForces
    /\ failures \in 0 .. MaxFailures

(* When a start reports success the API and the broker serve certificates  *)
(* of their own keys, signed by the installed CA, for the one address the  *)
(* devices are told, however many earlier runs were killed half way, in    *)
(* the middle of whatever file they were writing, and however often the    *)
(* host changed its address.                                               *)
ServedMaterial ==
    up => \A p \in Services : Valid(p) /\ cert[p].ip = env.ip /\ env.ip = ip

(* The identity, or the certificate of its CA, was there when the key of   *)
(* the CA was drawn and was not written since.                             *)
Outlasted(p) == {p, "ca"} \intersect left # {} /\ (crashes > 0 \/ failures > 0)

(* When a start reports success the internal MQTT identities are accepted  *)
(* by the installed CA and the public time key built into the firmware     *)
(* verifies what the time service signs.  The runs look only at the        *)
(* existence of these files, so there are two exceptions: an identity, or  *)
(* a CA certificate, that outlived a forced run, which takes a run that    *)
(* was killed or a directory that could not be removed; and a file cut in  *)
(* the middle by a kill.                                                   *)
IdentitiesWhole ==
    up =>
        /\ \A p \in Internal :
            Valid(p) \/ Outlasted(p) \/ Broken \in {key[p], cert[p]}
        /\ \/ cert["time"] = Broken
           \/ Whole(cert["time"]) /\ cert["time"].key = key["time"]

(* What that exception rests on, also where no start succeeds: --force     *)
(* removes all that a new CA makes worthless, and nothing else makes one   *)
(* where identities are left.                                              *)
NoneOutlivesTheCa == crashes = 0 /\ failures = 0 => left = {}

(* No start reports success with an internal identity the CA does not      *)
(* accept (the help of --force, scripts/setup.py:542, "Overwrite existing  *)
(* PKI, database, and .env files").                                        *)
(* It does not hold: README, Disagreements.                              *)
IdentitiesFit == up => \A p \in Internal : Valid(p)

(* When a start reports success the database is encrypted under the master *)
(* key of .env.  It does not hold if .env may be torn: README,             *)
(* Disagreements.                                                          *)
DatabaseReadable == up => db = env.master

(* Nothing but setup.py --force replaces the CA's key, and with it every   *)
(* certificate of a device: not a setup after one that was killed before   *)
(* it wrote .env, nor a start that completes an installation, wherever the *)
(* runs before were killed (docs/installation.md:91 "preserving the        *)
(* installation Root CA").                                                 *)
CaKept == [][~forcing' /\ Whole(key["ca"]) => key'["ca"] = key["ca"]]_vars

(* Nothing but setup.py --force takes the master key and the credentials   *)
(* out of .env.                                                            *)
(* It does not hold: README, Disagreements.                              *)
SecretsKept ==
    [][~forcing' /\ env.master # None => env'.master = env.master]_vars

(* They are lost only where .env is being written: no other step of a run  *)
(* that is not forced, and no kill between two files, takes them out.      *)
SecretsLostHalfWritten ==
    [][~forcing' /\ env.master # None /\ ~(Kill /\ HalfWritten)
        => env'.master = env.master]_vars

(* However often it was killed, and whatever it left, the platform starts. *)
GetsUp == []<>up

============================================================================
