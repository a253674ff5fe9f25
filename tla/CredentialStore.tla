--------------------------- MODULE CredentialStore ---------------------------
(***************************************************************************)
(* What the flash of a board promises the rest of the firmware about its   *)
(* operational credentials (IdentityStorage.h): the key, the certificate,  *)
(* the CA and the MQTT configuration of one enrollment are there together  *)
(* or not at all, however the power fails.                                 *)
(***************************************************************************)
EXTENDS Naturals

CONSTANTS
  None,     \* no credentials
  MaxGen    \* bound: enrollments of the board

VARIABLES
  stored,   \* the enrollment whose credentials are usable, or None
  held,     \* the enrollment whose credentials are only in RAM, or None
  issued    \* enrollments so far

vars == <<stored, held, issued>>

Init == stored = None /\ held = None /\ issued = 0

\* A board asks for credentials only when it has none.
Enroll ==
  /\ stored = None /\ held = None
  /\ issued < MaxGen
  /\ issued' = issued + 1
  /\ held' = issued + 1
  /\ UNCHANGED stored

\* Those in RAM become usable at once.
Store ==
  /\ held # None
  /\ stored' = held
  /\ held' = None
  /\ UNCHANGED issued

\* A failure or a loss of power forgets the RAM and nothing else.
Lose ==
  /\ held' = None
  /\ UNCHANGED <<stored, issued>>

\* The factory reset of a board that is not enrolling.
Clear ==
  /\ held = None
  /\ stored' = None
  /\ UNCHANGED <<held, issued>>

Next == Enroll \/ Store \/ Lose \/ Clear

Spec == Init /\ [][Next]_vars
=============================================================================
