---------------------------- MODULE DeviceStorage ----------------------------
(***************************************************************************)
(* The flash of a board, one flash operation at a time                     *)
(* (IdentityStorage.cpp), under the start of the firmware that uses it     *)
(* (BootstrapAgent::begin): the factory reset pin, the factory identity    *)
(* mode, the check for operational credentials and their installation.     *)
(* The power may fail between any two operations, and an operation whose   *)
(* kind is in Faulty may fail.                                             *)
(*                                                                         *)
(* The content of a file is the number of the enrollment it comes from.    *)
(* The server, which decides whether an enrollment succeeds, is module     *)
(* Enrollment; here an attempt either fails or yields new credentials.     *)
(***************************************************************************)
EXTENDS Integers, Sequences

CONSTANTS
  None,     \* no file, no credentials
  Partial,  \* a temporary file cut short
  MaxGen,   \* bound: enrollments of the board
  Faulty    \* the kinds of flash operation that may fail

FlashOperations == {"unmark", "remove", "write", "rename", "nvs"}

ASSUME NoneAssumption == None \notin Nat /\ Partial \notin Nat \cup {None}
ASSUME MaxGenAssumption == MaxGen \in Nat
ASSUME FaultyAssumption == Faulty \subseteq FlashOperations

Files == {"key", "cert", "ca", "config", "marker"}
Last == 5

\* Mistake: the marker is written first.
StoreOrderMarkerFirst == <<"marker", "key", "cert", "ca", "config">>

\* The order in which storeOperationalCredentials writes the files ...
StoreOrder == <<"key", "cert", "ca", "config", "marker">>
\* ... and clearOperationalCredentials removes them.
ClearOrder == <<"marker", "key", "cert", "ca", "config">>

IdentityKeys == {"device_id", "secret"}

VARIABLES
  at,        \* where the firmware is
  n,         \* the file of the order it works on
  held,      \* the credentials it has in RAM
  files,     \* /identity
  temps,     \* the .tmp beside each file
  identity,  \* the keys of the identity namespace of the NVS
  issued     \* enrollments so far

vars == <<at, n, held, files, temps, identity, issued>>

Writing == {"drop", "open", "write", "replace", "rename"}
Clearing == {"clear", "clearTmp", "clearIdentity"}
Places == {"off", "start", "factory", "putSecret", "putSecretAnyway",
           "provision", "unmark", "running"} \cup Writing \cup Clearing

Init ==
  /\ at = "off" /\ n = 1
  /\ held = None
  /\ files = [f \in Files |-> None]
  /\ temps = [f \in Files |-> None]
  /\ identity = {}
  /\ issued = 0

\* Mistake: the marker is not asked for.
HasAllFiles == \A f \in Files \ {"marker"} : files[f] # None

HasBootstrapIdentity == identity = IdentityKeys
HasOperationalCredentials == \A f \in Files : files[f] # None

Fails(kind) == kind \in Faulty
flash == <<files, temps, identity, issued>>

\* begin returns false, and setup restarts the board; or the power fails.
Off ==
  /\ at' = "off" /\ n' = 1
  /\ held' = None

PowerLoss ==
  /\ at # "off"
  /\ Off
  /\ UNCHANGED flash

-----------------------------------------------------------------------------
(* The reset pin, and clearAll.                                            *)

\* Mistake: a reset that clears the NVS alone.
BootForgettingIdentity ==
  /\ at = "off"
  /\ at' \in {"clearIdentity", "start"}
  /\ UNCHANGED <<n, held, flash>>

Boot ==
  /\ at = "off"
  /\ at' \in {"clear", "start"}
  /\ UNCHANGED <<n, held, flash>>

\* One removal of a list: an operation that fails is passed over.
Removal(kind, old, new, f) ==
  \/ new = [old EXCEPT ![f] = None]
  \/ Fails(kind) /\ new = old

KindOf(f) == IF f = "marker" THEN "unmark" ELSE "remove"

AdvanceTo(next, here) ==
  IF n = Last THEN at' = next /\ n' = 1 ELSE at' = here /\ n' = n + 1

ClearFile ==
  LET f == ClearOrder[n] IN
  /\ at = "clear"
  /\ Removal(KindOf(f), files, files', f)
  /\ AdvanceTo("clearTmp", "clear")
  /\ UNCHANGED <<held, temps, identity, issued>>

ClearTmp ==
  /\ at = "clearTmp"
  /\ Removal("remove", temps, temps', StoreOrder[n])
  /\ AdvanceTo("clearIdentity", "clearTmp")
  /\ UNCHANGED <<held, files, identity, issued>>

ClearIdentity ==
  /\ at = "clearIdentity"
  /\ \/ identity' = {}
     \/ Fails("nvs") /\ identity' = identity
  /\ at' = "start"
  /\ UNCHANGED <<n, held, files, temps, issued>>

-----------------------------------------------------------------------------
(* The factory identity mode, and storeBootstrapIdentity.                  *)

Start ==
  /\ at = "start"
  /\ at' = IF HasBootstrapIdentity THEN "provision" ELSE "factory"
  /\ UNCHANGED <<n, held, flash>>

\* Both keys are written whatever becomes of the first.
PutDeviceId ==
  /\ at = "factory"
  /\ \/ identity' = identity \cup {"device_id"} /\ at' = "putSecret"
     \/ Fails("nvs") /\ identity' = identity /\ at' = "putSecretAnyway"
  /\ UNCHANGED <<n, held, files, temps, issued>>

PutSecret ==
  /\ at \in {"putSecret", "putSecretAnyway"}
  /\ \/ /\ identity' = identity \cup {"secret"}
        /\ at' = IF at = "putSecret" THEN "off" ELSE "factory"
     \/ Fails("nvs") /\ identity' = identity /\ at' = "factory"
  /\ UNCHANGED <<n, held, files, temps, issued>>

-----------------------------------------------------------------------------
(* ensureProvisioned.                                                      *)

\* No WiFi, no time, no answer or a refusal of the server.
Unreachable ==
  /\ at = "provision"
  /\ Off
  /\ UNCHANGED flash

\* validateCertificateAndPrivateKey compares the key with the certificate.
Load ==
  /\ at = "provision"
  /\ HasOperationalCredentials
  /\ IF files["key"] = files["cert"] THEN at' = "running" ELSE at' = "off"
  /\ UNCHANGED <<n, held, flash>>

Enroll ==
  /\ at = "provision"
  /\ ~HasOperationalCredentials
  /\ issued < MaxGen
  /\ issued' = issued + 1
  /\ held' = issued + 1
  /\ at' = "unmark"
  /\ UNCHANGED <<n, files, temps, identity>>

\* storeOperationalCredentials removes the marker and looks at no result ...
Unmark ==
  /\ at = "unmark"
  /\ Removal("unmark", files, files', "marker")
  /\ at' = "drop"
  /\ UNCHANGED <<n, held, temps, identity, issued>>

\* ... then writes each file with writeFileAtomic.
Drop ==
  /\ at = "drop"
  /\ Removal("remove", temps, temps', StoreOrder[n])
  /\ at' = "open"
  /\ UNCHANGED <<n, held, files, identity, issued>>

Open ==
  /\ at = "open"
  /\ \/ /\ temps' = [temps EXCEPT ![StoreOrder[n]] = Partial]
        /\ at' = "write"
        /\ UNCHANGED <<n, held>>
     \/ Fails("write") /\ Off /\ temps' = temps
  /\ UNCHANGED <<files, identity, issued>>

Write ==
  /\ at = "write"
  /\ \/ /\ temps' = [temps EXCEPT ![StoreOrder[n]] = held]
        /\ at' = "replace"
        /\ UNCHANGED <<n, held>>
     \/ Fails("write") /\ Off /\ Removal("remove", temps, temps', StoreOrder[n])
  /\ UNCHANGED <<files, identity, issued>>

Replace ==
  /\ at = "replace"
  /\ Removal(KindOf(StoreOrder[n]), files, files', StoreOrder[n])
  /\ at' = "rename"
  /\ UNCHANGED <<n, held, temps, identity, issued>>

Installed == IF n = Last THEN None ELSE held

Rename ==
  LET f == StoreOrder[n] IN
  /\ at = "rename"
  /\ \/ /\ files' = [files EXCEPT ![f] = temps[f]]
        /\ temps' = [temps EXCEPT ![f] = None]
        /\ AdvanceTo("running", "drop")
        /\ held' = Installed
     \/ /\ Fails("rename")
        /\ Off
        /\ Removal("remove", temps, temps', f)
        /\ files' = files
  /\ UNCHANGED <<identity, issued>>

-----------------------------------------------------------------------------
Next ==
  \/ PowerLoss
  \/ Boot \/ ClearFile \/ ClearTmp \/ ClearIdentity
  \/ Start \/ PutDeviceId \/ PutSecret
  \/ Unreachable \/ Load \/ Enroll
  \/ Unmark \/ Drop \/ Open \/ Write \/ Replace \/ Rename

Spec == Init /\ [][Next]_vars

\* The power and the network fail now and then, not always: a board that
\* starts again and again in the end gets through each step of its start.
Fairness ==
  /\ SF_vars(Boot) /\ SF_vars(ClearFile) /\ SF_vars(ClearTmp)
  /\ SF_vars(ClearIdentity) /\ SF_vars(Start) /\ SF_vars(Load)

FairSpec == Spec /\ Fairness

-----------------------------------------------------------------------------
Gens == 1 .. MaxGen

\* The state keeps its shape; in particular no file in place is cut short.
TypeOK ==
  /\ at \in Places
  /\ n \in 1 .. Last
  /\ held \in Gens \cup {None}
  /\ files \in [Files -> Gens \cup {None}]
  /\ temps \in [Files -> Gens \cup {None, Partial}]
  /\ identity \subseteq IdentityKeys
  /\ issued \in 0 .. MaxGen

\* Whenever the firmware would find operational credentials, at whatever
\* operation the power fails, all the files come from one enrollment
\* (hasOperationalCredentials looks at nothing but their existence).
MarkerMeansComplete ==
  HasOperationalCredentials => \A f \in Files : files[f] = files["key"]

\* Credentials outlive no bootstrap identity: a board that waits for a new
\* identity in the factory has none left of the previous one (clearAll removes
\* the credentials first).
IdentityOutlivesCredentials ==
  HasOperationalCredentials => HasBootstrapIdentity

\* Only the reset pin costs a board the credentials it had installed: no loss
\* of power, failed operation or failed start does (storeOperationalCredentials
\* runs only when there are none).
OnlyResetForgets ==
  [][HasOperationalCredentials /\ ~HasOperationalCredentials'
       => at = "clear"]_vars

\* A board with credentials gets to run with them, and does not restart for
\* ever over credentials it rejects, unless it is reset.
StoredBoardRuns ==
  HasOperationalCredentials ~> at = "running" \/ ~HasOperationalCredentials

\* The flash keeps the promise of CredentialStore.
stored == IF HasOperationalCredentials THEN files["key"] ELSE None
Abstract == INSTANCE CredentialStore
StoresAtomically == Abstract!Spec

=============================================================================
