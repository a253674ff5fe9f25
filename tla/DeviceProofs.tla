---------------------------- MODULE DeviceProofs ----------------------------
(***************************************************************************)
(* Theorems about a device: what it stores and how the platform shows it.  *)
(* DeviceStorage is proved for any number of enrollments and any faults    *)
(* that leave the removal of the marker alone; its inductive invariant     *)
(* says where the credentials in RAM are while they are installed: no      *)
(* marker, and the files written so far are theirs.  Presence is proved    *)
(* for any devices, requests, messages under way and subscriptions.        *)
(***************************************************************************)
EXTENDS DeviceStorage, Presence, SequenceTheorems, TLAPS

-----------------------------------------------------------------------------
(* DeviceStorage                                                           *)

MarkerRemovable == "unmark" \notin Faulty

Installing == Writing \cup {"unmark"}

HeldWhileInstalling == (held # None) <=> (at \in Installing)

Installation ==
  at \in Writing =>
    /\ files["marker"] = None
    /\ \A k \in 1 .. Last : k < n => files[StoreOrder[k]] = held

TempIsHeld == at \in {"replace", "rename"} => temps[StoreOrder[n]] = held

InstallsWhenEmpty == at = "unmark" => ~HasOperationalCredentials

Position == at \notin Writing \cup {"clear", "clearTmp"} => n = 1

ClearingMarker ==
  /\ at \in {"clearTmp", "clearIdentity"} => files["marker"] = None
  /\ at = "clear" /\ n > 1 => files["marker"] = None

ProvisionsWithIdentity ==
  at \in Installing \cup {"provision"} => HasBootstrapIdentity

Inv ==
  /\ TypeOK
  /\ HeldWhileInstalling
  /\ Installation
  /\ TempIsHeld
  /\ InstallsWhenEmpty
  /\ Position
  /\ MarkerMeansComplete
  /\ ClearingMarker
  /\ ProvisionsWithIdentity
  /\ IdentityOutlivesCredentials

-----------------------------------------------------------------------------
\* The order of storeOperationalCredentials visits each file once, the marker
\* last.
LEMMA StoreOrderFacts ==
  /\ \A k \in 1 .. Last : StoreOrder[k] \in Files
  /\ \A j, k \in 1 .. Last : StoreOrder[j] = StoreOrder[k] => j = k
  /\ \A k \in 1 .. Last : StoreOrder[k] = "marker" <=> k = Last
  /\ \A f \in Files : \E k \in 1 .. Last : StoreOrder[k] = f
<1>1. \A k \in 1 .. Last : StoreOrder[k] \in Files
  BY DEF Last, StoreOrder, Files
<1>2. \A j, k \in 1 .. Last : StoreOrder[j] = StoreOrder[k] => j = k
  BY DEF Last, StoreOrder
<1>3. \A k \in 1 .. Last : StoreOrder[k] = "marker" <=> k = Last
  BY DEF Last, StoreOrder
<1>4. \A f \in Files : \E k \in 1 .. Last : StoreOrder[k] = f
  <2>1. /\ StoreOrder[1] = "key" /\ StoreOrder[2] = "cert" /\ StoreOrder[3] = "ca"
        /\ StoreOrder[4] = "config" /\ StoreOrder[5] = "marker"
    BY DEF StoreOrder
  <2>2. QED BY <2>1 DEF Last, Files
<1>5. QED BY <1>1, <1>2, <1>3, <1>4

\* The order of clearOperationalCredentials names files, the marker first.
LEMMA ClearOrderFacts ==
  /\ \A k \in 1 .. Last : ClearOrder[k] \in Files
  /\ \A k \in 1 .. Last : ClearOrder[k] = "marker" <=> k = 1
BY DEF Last, ClearOrder, Files

\* A removal that cannot fail empties the file; any other leaves the rest.
LEMMA RemovalFacts ==
  ASSUME NEW kind, NEW V, NEW old \in [Files -> V], NEW new, NEW f \in Files,
         None \in V, Removal(kind, old, new, f)
  PROVE  /\ new \in [Files -> V]
         /\ \A g \in Files : g # f => new[g] = old[g]
         /\ new[f] \in {None, old[f]}
         /\ kind \notin Faulty => new[f] = None
BY DEF Removal, Fails

\* What a removal does to a file in place: the marker goes for good, and if
\* the credentials are still there nothing has changed.
LEMMA FilesRemoval ==
  ASSUME TypeOK, MarkerRemovable, NEW f \in Files,
         Removal(KindOf(f), files, files', f)
  PROVE  /\ files' \in [Files -> Gens \cup {None}]
         /\ \A g \in Files : g # f => files'[g] = files[g]
         /\ f = "marker" => files'["marker"] = None
         /\ files["marker"] = None => files'["marker"] = None
         /\ HasOperationalCredentials' =>
              HasOperationalCredentials /\ \A g \in Files : files'[g] = files[g]
<1>1. files \in [Files -> Gens \cup {None}]
  BY DEF TypeOK
<1>2. /\ files' \in [Files -> Gens \cup {None}]
      /\ \A g \in Files : g # f => files'[g] = files[g]
      /\ files'[f] \in {None, files[f]}
      /\ KindOf(f) \notin Faulty => files'[f] = None
  BY <1>1 DEF Removal, Fails
<1>3. "marker" \in Files
  BY DEF Files
<1>4. f = "marker" => files'["marker"] = None
  BY <1>2 DEF KindOf, MarkerRemovable
<1>5. files["marker"] = None => files'["marker"] = None
  BY <1>2, <1>3
<1>6. HasOperationalCredentials' => files'[f] # None
  BY DEF HasOperationalCredentials
<1>7. HasOperationalCredentials' => \A g \in Files : files'[g] = files[g]
  BY <1>2, <1>6
<1>8. HasOperationalCredentials' => HasOperationalCredentials
  BY <1>7 DEF HasOperationalCredentials
<1>9. QED BY <1>2, <1>4, <1>5, <1>7, <1>8

LEMMA TempsRemoval ==
  ASSUME TypeOK, NEW f \in Files, Removal("remove", temps, temps', f)
  PROVE  temps' \in [Files -> Gens \cup {None, Partial}]
BY DEF TypeOK, Removal

\* A rename that succeeds puts the credentials in RAM under every name the
\* installation has come to.
LEMMA RenameSucceeds ==
  ASSUME Inv, Rename, at' # "off"
  PROVE  /\ AdvanceTo("running", "drop") /\ held' = Installed
         /\ held \in Gens
         /\ files' \in [Files -> Gens \cup {None}]
         /\ temps' \in [Files -> Gens \cup {None, Partial}]
         /\ \A g \in Files : g # StoreOrder[n] => files'[g] = files[g]
         /\ \A k \in 1 .. Last : k <= n => files'[StoreOrder[k]] = held
         /\ n = Last => \A g \in Files : files'[g] = held
<1> DEFINE f == StoreOrder[n]
<1>1. /\ at = "rename"
      /\ files' = [files EXCEPT ![f] = temps[f]]
      /\ temps' = [temps EXCEPT ![f] = None]
      /\ AdvanceTo("running", "drop")
      /\ held' = Installed
  BY DEF Rename, Off
<1>2. n \in 1 .. Last /\ f \in Files
  BY StoreOrderFacts DEF Inv, TypeOK
<1>3. temps[f] = held /\ held \in Gens
  BY <1>1 DEF Inv, TempIsHeld, HeldWhileInstalling, TypeOK, Installing, Writing
<1>4. \A k \in 1 .. Last : k < n => files[StoreOrder[k]] = held
  BY <1>1 DEF Inv, Installation, Writing
<1> HIDE DEF f
<1>5. /\ files' \in [Files -> Gens \cup {None}]
      /\ files'[f] = held
      /\ \A g \in Files : g # f => files'[g] = files[g]
  BY <1>1, <1>2, <1>3 DEF Inv, TypeOK
<1>6. temps' \in [Files -> Gens \cup {None, Partial}]
  BY <1>1, <1>2 DEF Inv, TypeOK
<1>7. \A k \in 1 .. Last : k <= n => files'[StoreOrder[k]] = held
  <2> SUFFICES ASSUME NEW k \in 1 .. Last, k <= n PROVE files'[StoreOrder[k]] = held
    OBVIOUS
  <2>1. CASE k = n
    BY <2>1, <1>5 DEF f
  <2>2. CASE k < n
    BY <2>2, <1>2, <1>4, <1>5, StoreOrderFacts DEF f, Last
  <2>3. QED BY <2>1, <2>2, <1>2 DEF Last
<1>8. n = Last => \A g \in Files : files'[g] = held
  BY <1>7, StoreOrderFacts DEF Last
<1>9. QED BY <1>1, <1>3, <1>5, <1>6, <1>7, <1>8 DEF f

-----------------------------------------------------------------------------
(* The invariant holds.                                                    *)

LEMMA InvInit == Init => Inv
BY NoneAssumption, MaxGenAssumption DEF Init, Inv, Clearing, ClearingMarker, Gens, HasBootstrapIdentity, HasOperationalCredentials, HeldWhileInstalling, IdentityKeys, IdentityOutlivesCredentials, Installation, Installing, InstallsWhenEmpty, Last, MarkerMeansComplete, Places, Position, ProvisionsWithIdentity, TempIsHeld, TypeOK, Writing, Files

LEMMA InvNext == ASSUME MarkerRemovable, Inv, Next PROVE Inv'
<1>0. TypeOK /\ HeldWhileInstalling /\ Installation /\ TempIsHeld /\ InstallsWhenEmpty
      /\ Position /\ MarkerMeansComplete /\ ClearingMarker
      /\ ProvisionsWithIdentity /\ IdentityOutlivesCredentials
  BY DEF Inv
<1>a. n \in 1 .. Last /\ StoreOrder[n] \in Files /\ ClearOrder[n] \in Files
  BY <1>0, StoreOrderFacts, ClearOrderFacts DEF TypeOK
<1>b. "marker" \in Files /\ "key" \in Files
  BY DEF Files
<1> USE NoneAssumption, MaxGenAssumption
<1>1. CASE PowerLoss
  <2> USE <1>0, <1>1 DEF PowerLoss, Off, flash
  <2>1. TypeOK'
    BY DEF TypeOK, Places, Writing, Clearing, Gens, IdentityKeys, Last
  <2>2. HeldWhileInstalling'
    BY DEF HeldWhileInstalling, Installing, Writing
  <2>3. Installation'
    BY DEF Installation, Writing
  <2>4. TempIsHeld'
    BY DEF TempIsHeld
  <2>5. InstallsWhenEmpty'
    BY DEF InstallsWhenEmpty, HasOperationalCredentials
  <2>6. Position'
    BY DEF Position, Writing
  <2>7. MarkerMeansComplete'
    BY DEF MarkerMeansComplete, HasOperationalCredentials
  <2>8. ClearingMarker'
    BY DEF ClearingMarker
  <2>9. ProvisionsWithIdentity'
    BY DEF ProvisionsWithIdentity, HasBootstrapIdentity, Installing, Writing
  <2>10. IdentityOutlivesCredentials'
    BY DEF IdentityOutlivesCredentials, HasOperationalCredentials, HasBootstrapIdentity
  <2>11. QED BY <2>1, <2>2, <2>3, <2>4, <2>5, <2>6, <2>7, <2>8, <2>9, <2>10 DEF Inv
<1>2. CASE Boot
  <2> USE <1>0, <1>2 DEF Boot, flash
  <2>1. TypeOK'
    BY DEF TypeOK, Places, Writing, Clearing, Gens, IdentityKeys, Last
  <2>2. HeldWhileInstalling'
    BY DEF HeldWhileInstalling, Installing, Writing
  <2>3. Installation'
    BY DEF Installation, Writing
  <2>4. TempIsHeld'
    BY DEF TempIsHeld
  <2>5. InstallsWhenEmpty'
    BY DEF InstallsWhenEmpty, HasOperationalCredentials
  <2>6. Position'
    BY DEF Position, Writing
  <2>7. MarkerMeansComplete'
    BY DEF MarkerMeansComplete, HasOperationalCredentials
  <2>8. ClearingMarker'
    BY DEF ClearingMarker, Position, Writing
  <2>9. ProvisionsWithIdentity'
    BY DEF ProvisionsWithIdentity, HasBootstrapIdentity, Installing, Writing
  <2>10. IdentityOutlivesCredentials'
    BY DEF IdentityOutlivesCredentials, HasOperationalCredentials, HasBootstrapIdentity
  <2>11. QED BY <2>1, <2>2, <2>3, <2>4, <2>5, <2>6, <2>7, <2>8, <2>9, <2>10 DEF Inv
<1>3. CASE ClearFile
  <2> USE <1>0, <1>3 DEF ClearFile, AdvanceTo
  <2>a. /\ files' \in [Files -> Gens \cup {None}]
        /\ ClearOrder[n] = "marker" => files'["marker"] = None
        /\ files["marker"] = None => files'["marker"] = None
        /\ HasOperationalCredentials' =>
             HasOperationalCredentials /\ \A g \in Files : files'[g] = files[g]
    BY <1>a, FilesRemoval
  <2>1. TypeOK'
    BY <2>a DEF TypeOK, Places, Writing, Clearing, Last
  <2>2. HeldWhileInstalling'
    BY DEF HeldWhileInstalling, Installing, Writing
  <2>3. Installation'
    BY DEF Installation, Writing
  <2>4. TempIsHeld'
    BY DEF TempIsHeld
  <2>5. InstallsWhenEmpty'
    BY DEF InstallsWhenEmpty, HasOperationalCredentials
  <2>6. Position'
    BY DEF Position, Writing
  <2>7. MarkerMeansComplete'
    BY <2>a, <1>b DEF MarkerMeansComplete
  <2>8. ClearingMarker'
    BY <2>a, <1>a, ClearOrderFacts DEF ClearingMarker
  <2>9. ProvisionsWithIdentity'
    BY DEF ProvisionsWithIdentity, HasBootstrapIdentity, Installing, Writing
  <2>10. IdentityOutlivesCredentials'
    BY <2>a DEF IdentityOutlivesCredentials, HasBootstrapIdentity
  <2>11. QED BY <2>1, <2>2, <2>3, <2>4, <2>5, <2>6, <2>7, <2>8, <2>9, <2>10 DEF Inv
<1>4. CASE ClearTmp
  <2> USE <1>0, <1>4 DEF ClearTmp, AdvanceTo
  <2>a. temps' \in [Files -> Gens \cup {None, Partial}]
    BY <1>a, TempsRemoval
  <2>1. TypeOK'
    BY <2>a DEF TypeOK, Places, Writing, Clearing, Last
  <2>2. HeldWhileInstalling'
    BY DEF HeldWhileInstalling, Installing, Writing
  <2>3. Installation'
    BY DEF Installation, Writing
  <2>4. TempIsHeld'
    BY DEF TempIsHeld
  <2>5. InstallsWhenEmpty'
    BY DEF InstallsWhenEmpty, HasOperationalCredentials
  <2>6. Position'
    BY DEF Position, Writing
  <2>7. MarkerMeansComplete'
    BY DEF MarkerMeansComplete, HasOperationalCredentials
  <2>8. ClearingMarker'
    BY DEF ClearingMarker
  <2>9. ProvisionsWithIdentity'
    BY DEF ProvisionsWithIdentity, HasBootstrapIdentity, Installing, Writing
  <2>10. IdentityOutlivesCredentials'
    BY DEF IdentityOutlivesCredentials, HasOperationalCredentials, HasBootstrapIdentity
  <2>11. QED BY <2>1, <2>2, <2>3, <2>4, <2>5, <2>6, <2>7, <2>8, <2>9, <2>10 DEF Inv
<1>5. CASE ClearIdentity
  <2> USE <1>0, <1>5 DEF ClearIdentity
  <2>1. TypeOK'
    BY DEF TypeOK, Places, Writing, Clearing, Gens, IdentityKeys, Last
  <2>2. HeldWhileInstalling'
    BY DEF HeldWhileInstalling, Installing, Writing
  <2>3. Installation'
    BY DEF Installation, Writing
  <2>4. TempIsHeld'
    BY DEF TempIsHeld
  <2>5. InstallsWhenEmpty'
    BY DEF InstallsWhenEmpty, HasOperationalCredentials
  <2>6. Position'
    BY DEF Position, Writing
  <2>7. MarkerMeansComplete'
    BY DEF MarkerMeansComplete, HasOperationalCredentials
  <2>8. ClearingMarker'
    BY DEF ClearingMarker
  <2>9. ProvisionsWithIdentity'
    BY DEF ProvisionsWithIdentity, HasBootstrapIdentity, Installing, Writing
  <2>10. IdentityOutlivesCredentials'
    BY <1>b DEF IdentityOutlivesCredentials, ClearingMarker, HasOperationalCredentials, HasBootstrapIdentity
  <2>11. QED BY <2>1, <2>2, <2>3, <2>4, <2>5, <2>6, <2>7, <2>8, <2>9, <2>10 DEF Inv
<1>6. CASE Start
  <2> USE <1>0, <1>6 DEF Start, flash
  <2>1. TypeOK'
    BY DEF TypeOK, Places, Writing, Clearing, Gens, IdentityKeys, Last
  <2>2. HeldWhileInstalling'
    BY DEF HeldWhileInstalling, Installing, Writing
  <2>3. Installation'
    BY DEF Installation, Writing
  <2>4. TempIsHeld'
    BY DEF TempIsHeld
  <2>5. InstallsWhenEmpty'
    BY DEF InstallsWhenEmpty, HasOperationalCredentials
  <2>6. Position'
    BY DEF Position, Writing
  <2>7. MarkerMeansComplete'
    BY DEF MarkerMeansComplete, HasOperationalCredentials
  <2>8. ClearingMarker'
    BY DEF ClearingMarker
  <2>9. ProvisionsWithIdentity'
    BY DEF ProvisionsWithIdentity, HasBootstrapIdentity, Installing, Writing
  <2>10. IdentityOutlivesCredentials'
    BY DEF IdentityOutlivesCredentials, HasOperationalCredentials, HasBootstrapIdentity
  <2>11. QED BY <2>1, <2>2, <2>3, <2>4, <2>5, <2>6, <2>7, <2>8, <2>9, <2>10 DEF Inv
<1>7. CASE PutDeviceId
  <2> USE <1>0, <1>7 DEF PutDeviceId
  <2>1. TypeOK'
    BY DEF TypeOK, Places, Writing, Clearing, Gens, IdentityKeys, Last
  <2>2. HeldWhileInstalling'
    BY DEF HeldWhileInstalling, Installing, Writing
  <2>3. Installation'
    BY DEF Installation, Writing
  <2>4. TempIsHeld'
    BY DEF TempIsHeld
  <2>5. InstallsWhenEmpty'
    BY DEF InstallsWhenEmpty, HasOperationalCredentials
  <2>6. Position'
    BY DEF Position, Writing
  <2>7. MarkerMeansComplete'
    BY DEF MarkerMeansComplete, HasOperationalCredentials
  <2>8. ClearingMarker'
    BY DEF ClearingMarker
  <2>9. ProvisionsWithIdentity'
    BY DEF ProvisionsWithIdentity, HasBootstrapIdentity, Installing, Writing
  <2>10. IdentityOutlivesCredentials'
    BY DEF IdentityOutlivesCredentials, HasOperationalCredentials, HasBootstrapIdentity, IdentityKeys
  <2>11. QED BY <2>1, <2>2, <2>3, <2>4, <2>5, <2>6, <2>7, <2>8, <2>9, <2>10 DEF Inv
<1>8. CASE PutSecret
  <2> USE <1>0, <1>8 DEF PutSecret
  <2>1. TypeOK'
    BY DEF TypeOK, Places, Writing, Clearing, Gens, IdentityKeys, Last
  <2>2. HeldWhileInstalling'
    BY DEF HeldWhileInstalling, Installing, Writing
  <2>3. Installation'
    BY DEF Installation, Writing
  <2>4. TempIsHeld'
    BY DEF TempIsHeld
  <2>5. InstallsWhenEmpty'
    BY DEF InstallsWhenEmpty, HasOperationalCredentials
  <2>6. Position'
    BY DEF Position, Writing
  <2>7. MarkerMeansComplete'
    BY DEF MarkerMeansComplete, HasOperationalCredentials
  <2>8. ClearingMarker'
    BY DEF ClearingMarker
  <2>9. ProvisionsWithIdentity'
    BY DEF ProvisionsWithIdentity, HasBootstrapIdentity, Installing, Writing
  <2>10. IdentityOutlivesCredentials'
    BY DEF IdentityOutlivesCredentials, HasOperationalCredentials, HasBootstrapIdentity, IdentityKeys
  <2>11. QED BY <2>1, <2>2, <2>3, <2>4, <2>5, <2>6, <2>7, <2>8, <2>9, <2>10 DEF Inv
<1>9. CASE Unreachable
  <2> USE <1>0, <1>9 DEF Unreachable, Off, flash
  <2>1. TypeOK'
    BY DEF TypeOK, Places, Writing, Clearing, Gens, IdentityKeys, Last
  <2>2. HeldWhileInstalling'
    BY DEF HeldWhileInstalling, Installing, Writing
  <2>3. Installation'
    BY DEF Installation, Writing
  <2>4. TempIsHeld'
    BY DEF TempIsHeld
  <2>5. InstallsWhenEmpty'
    BY DEF InstallsWhenEmpty, HasOperationalCredentials
  <2>6. Position'
    BY DEF Position, Writing
  <2>7. MarkerMeansComplete'
    BY DEF MarkerMeansComplete, HasOperationalCredentials
  <2>8. ClearingMarker'
    BY DEF ClearingMarker
  <2>9. ProvisionsWithIdentity'
    BY DEF ProvisionsWithIdentity, HasBootstrapIdentity, Installing, Writing
  <2>10. IdentityOutlivesCredentials'
    BY DEF IdentityOutlivesCredentials, HasOperationalCredentials, HasBootstrapIdentity
  <2>11. QED BY <2>1, <2>2, <2>3, <2>4, <2>5, <2>6, <2>7, <2>8, <2>9, <2>10 DEF Inv
<1>10. CASE Load
  <2> USE <1>0, <1>10 DEF Load, flash
  <2>1. TypeOK'
    BY DEF TypeOK, Places, Writing, Clearing, Gens, IdentityKeys, Last
  <2>2. HeldWhileInstalling'
    BY DEF HeldWhileInstalling, Installing, Writing
  <2>3. Installation'
    BY DEF Installation, Writing
  <2>4. TempIsHeld'
    BY DEF TempIsHeld
  <2>5. InstallsWhenEmpty'
    BY DEF InstallsWhenEmpty, HasOperationalCredentials
  <2>6. Position'
    BY DEF Position, Writing
  <2>7. MarkerMeansComplete'
    BY DEF MarkerMeansComplete, HasOperationalCredentials
  <2>8. ClearingMarker'
    BY DEF ClearingMarker
  <2>9. ProvisionsWithIdentity'
    BY DEF ProvisionsWithIdentity, HasBootstrapIdentity, Installing, Writing
  <2>10. IdentityOutlivesCredentials'
    BY DEF IdentityOutlivesCredentials, HasOperationalCredentials, HasBootstrapIdentity
  <2>11. QED BY <2>1, <2>2, <2>3, <2>4, <2>5, <2>6, <2>7, <2>8, <2>9, <2>10 DEF Inv
<1>11. CASE Enroll
  <2> USE <1>0, <1>11 DEF Enroll
  <2>1. TypeOK'
    BY DEF TypeOK, Places, Writing, Clearing, Gens, IdentityKeys, Last
  <2>2. HeldWhileInstalling'
    BY DEF HeldWhileInstalling, Installing, Writing, TypeOK
  <2>3. Installation'
    BY DEF Installation, Writing
  <2>4. TempIsHeld'
    BY DEF TempIsHeld
  <2>5. InstallsWhenEmpty'
    BY DEF InstallsWhenEmpty, HasOperationalCredentials
  <2>6. Position'
    BY DEF Position, Writing
  <2>7. MarkerMeansComplete'
    BY DEF MarkerMeansComplete, HasOperationalCredentials
  <2>8. ClearingMarker'
    BY DEF ClearingMarker
  <2>9. ProvisionsWithIdentity'
    BY DEF ProvisionsWithIdentity, HasBootstrapIdentity, Installing, Writing
  <2>10. IdentityOutlivesCredentials'
    BY DEF IdentityOutlivesCredentials, HasOperationalCredentials, HasBootstrapIdentity
  <2>11. QED BY <2>1, <2>2, <2>3, <2>4, <2>5, <2>6, <2>7, <2>8, <2>9, <2>10 DEF Inv
<1>12. CASE Unmark
  <2> USE <1>0, <1>12 DEF Unmark
  <2>a. /\ files' \in [Files -> Gens \cup {None}]
        /\ files'["marker"] = None
    BY <1>b, FilesRemoval DEF KindOf
  <2>b. ~HasOperationalCredentials'
    BY <2>a, <1>b DEF HasOperationalCredentials
  <2>1. TypeOK'
    BY <2>a DEF TypeOK, Places, Writing
  <2>2. HeldWhileInstalling'
    BY DEF HeldWhileInstalling, Installing, Writing
  <2>3. Installation'
    BY <2>a DEF Installation, Position, Writing, Last
  <2>4. TempIsHeld'
    BY DEF TempIsHeld
  <2>5. InstallsWhenEmpty'
    BY DEF InstallsWhenEmpty, HasOperationalCredentials
  <2>6. Position'
    BY DEF Position, Writing
  <2>7. MarkerMeansComplete'
    BY <2>b DEF MarkerMeansComplete
  <2>8. ClearingMarker'
    BY DEF ClearingMarker
  <2>9. ProvisionsWithIdentity'
    BY DEF ProvisionsWithIdentity, HasBootstrapIdentity, Installing, Writing
  <2>10. IdentityOutlivesCredentials'
    BY <2>b DEF IdentityOutlivesCredentials
  <2>11. QED BY <2>1, <2>2, <2>3, <2>4, <2>5, <2>6, <2>7, <2>8, <2>9, <2>10 DEF Inv
<1>13. CASE Drop
  <2> USE <1>0, <1>13 DEF Drop
  <2>a. temps' \in [Files -> Gens \cup {None, Partial}]
    BY <1>a, TempsRemoval
  <2>1. TypeOK'
    BY <2>a DEF TypeOK, Places, Writing
  <2>2. HeldWhileInstalling'
    BY DEF HeldWhileInstalling, Installing, Writing
  <2>3. Installation'
    BY DEF Installation, Writing
  <2>4. TempIsHeld'
    BY DEF TempIsHeld
  <2>5. InstallsWhenEmpty'
    BY DEF InstallsWhenEmpty, HasOperationalCredentials
  <2>6. Position'
    BY DEF Position, Writing
  <2>7. MarkerMeansComplete'
    BY DEF MarkerMeansComplete, HasOperationalCredentials
  <2>8. ClearingMarker'
    BY DEF ClearingMarker
  <2>9. ProvisionsWithIdentity'
    BY DEF ProvisionsWithIdentity, HasBootstrapIdentity, Installing, Writing
  <2>10. IdentityOutlivesCredentials'
    BY DEF IdentityOutlivesCredentials, HasOperationalCredentials, HasBootstrapIdentity
  <2>11. QED BY <2>1, <2>2, <2>3, <2>4, <2>5, <2>6, <2>7, <2>8, <2>9, <2>10 DEF Inv
<1>14. CASE Open
  <2> USE <1>0, <1>14 DEF Open, Off
  <2>1. TypeOK'
    BY DEF TypeOK, Places, Writing, Clearing, Gens, IdentityKeys, Last
  <2>2. HeldWhileInstalling'
    BY DEF HeldWhileInstalling, Installing, Writing
  <2>3. Installation'
    BY DEF Installation, Writing
  <2>4. TempIsHeld'
    BY DEF TempIsHeld
  <2>5. InstallsWhenEmpty'
    BY DEF InstallsWhenEmpty, HasOperationalCredentials
  <2>6. Position'
    BY DEF Position, Writing
  <2>7. MarkerMeansComplete'
    BY DEF MarkerMeansComplete, HasOperationalCredentials
  <2>8. ClearingMarker'
    BY DEF ClearingMarker
  <2>9. ProvisionsWithIdentity'
    BY DEF ProvisionsWithIdentity, HasBootstrapIdentity, Installing, Writing
  <2>10. IdentityOutlivesCredentials'
    BY DEF IdentityOutlivesCredentials, HasOperationalCredentials, HasBootstrapIdentity
  <2>11. QED BY <2>1, <2>2, <2>3, <2>4, <2>5, <2>6, <2>7, <2>8, <2>9, <2>10 DEF Inv
<1>15. CASE Write
  <2> USE <1>0, <1>15 DEF Write, Off
  <2>a. temps' \in [Files -> Gens \cup {None, Partial}]
    BY <1>0, <1>a, TempsRemoval DEF TypeOK, HeldWhileInstalling, Installing, Writing
  <2>1. TypeOK'
    BY <2>a DEF TypeOK, Places, Writing, Last
  <2>2. HeldWhileInstalling'
    BY DEF HeldWhileInstalling, Installing, Writing
  <2>3. Installation'
    BY DEF Installation, Writing
  <2>4. TempIsHeld'
    BY <1>a DEF TempIsHeld, TypeOK
  <2>5. InstallsWhenEmpty'
    BY DEF InstallsWhenEmpty, HasOperationalCredentials
  <2>6. Position'
    BY DEF Position, Writing
  <2>7. MarkerMeansComplete'
    BY DEF MarkerMeansComplete, HasOperationalCredentials
  <2>8. ClearingMarker'
    BY DEF ClearingMarker
  <2>9. ProvisionsWithIdentity'
    BY DEF ProvisionsWithIdentity, HasBootstrapIdentity, Installing, Writing
  <2>10. IdentityOutlivesCredentials'
    BY DEF IdentityOutlivesCredentials, HasOperationalCredentials, HasBootstrapIdentity
  <2>11. QED BY <2>1, <2>2, <2>3, <2>4, <2>5, <2>6, <2>7, <2>8, <2>9, <2>10 DEF Inv
<1>16. CASE Replace
  <2> USE <1>0, <1>16 DEF Replace
  <2>a. /\ files' \in [Files -> Gens \cup {None}]
        /\ \A g \in Files : g # StoreOrder[n] => files'[g] = files[g]
        /\ files["marker"] = None => files'["marker"] = None
    BY <1>a, FilesRemoval
  <2>b. \A k \in 1 .. Last : k < n => StoreOrder[k] # StoreOrder[n]
    BY <1>a, StoreOrderFacts DEF Last
  <2>c. files["marker"] = None
    BY DEF Installation, Writing
  <2>d. ~HasOperationalCredentials'
    BY <2>a, <2>c, <1>b DEF HasOperationalCredentials
  <2>1. TypeOK'
    BY <2>a DEF TypeOK, Places, Writing
  <2>2. HeldWhileInstalling'
    BY DEF HeldWhileInstalling, Installing, Writing
  <2>3. Installation'
    BY <2>a, <2>b, StoreOrderFacts DEF Installation, Writing
  <2>4. TempIsHeld'
    BY DEF TempIsHeld
  <2>5. InstallsWhenEmpty'
    BY DEF InstallsWhenEmpty, HasOperationalCredentials
  <2>6. Position'
    BY DEF Position, Writing
  <2>7. MarkerMeansComplete'
    BY <2>d DEF MarkerMeansComplete
  <2>8. ClearingMarker'
    BY DEF ClearingMarker
  <2>9. ProvisionsWithIdentity'
    BY DEF ProvisionsWithIdentity, HasBootstrapIdentity, Installing, Writing
  <2>10. IdentityOutlivesCredentials'
    BY <2>d DEF IdentityOutlivesCredentials
  <2>11. QED BY <2>1, <2>2, <2>3, <2>4, <2>5, <2>6, <2>7, <2>8, <2>9, <2>10 DEF Inv
<1>17. CASE Rename
  <2>a. at = "rename" /\ identity' = identity /\ issued' = issued
    BY <1>17 DEF Rename
  <2>b. HasBootstrapIdentity'
    BY <1>0, <2>a DEF ProvisionsWithIdentity, HasBootstrapIdentity, Installing, Writing
  <2>c. files["marker"] = None
    BY <1>0, <2>a DEF Installation, Writing
  <2>1. CASE at' = "off"
    <3>1. Off /\ files' = files /\ Removal("remove", temps, temps', StoreOrder[n])
      BY <1>17, <2>1 DEF Rename, AdvanceTo
    <3> USE <1>0, <2>a, <3>1 DEF Off
    <3>2. temps' \in [Files -> Gens \cup {None, Partial}]
      BY <1>a, TempsRemoval
    <3>3. TypeOK'
      BY <3>2 DEF TypeOK, Places, Last
    <3>4. ~HasOperationalCredentials'
      BY <1>b, <2>c DEF HasOperationalCredentials
    <3>5. HeldWhileInstalling' /\ Installation' /\ TempIsHeld' /\ InstallsWhenEmpty' /\ Position'
      BY DEF HeldWhileInstalling, Installing, Installation, TempIsHeld, InstallsWhenEmpty,
             Position, Writing
    <3>6. ClearingMarker' /\ ProvisionsWithIdentity'
      BY DEF ClearingMarker, ProvisionsWithIdentity, Installing, Writing
    <3>7. QED BY <3>3, <3>4, <3>5, <3>6 DEF Inv, MarkerMeansComplete, IdentityOutlivesCredentials
  <2>2. CASE at' # "off"
    <3>1. /\ AdvanceTo("running", "drop") /\ held' = Installed
          /\ held \in Gens
          /\ files' \in [Files -> Gens \cup {None}]
          /\ temps' \in [Files -> Gens \cup {None, Partial}]
          /\ \A g \in Files : g # StoreOrder[n] => files'[g] = files[g]
          /\ \A k \in 1 .. Last : k <= n => files'[StoreOrder[k]] = held
          /\ n = Last => \A g \in Files : files'[g] = held
      BY <1>17, <2>2, RenameSucceeds
    <3>2. CASE n # Last
      <4>1. at' = "drop" /\ n' = n + 1 /\ held' = held
        BY <3>1, <3>2 DEF AdvanceTo, Installed
      <4>2. files'["marker"] = None
        BY <3>1, <3>2, <2>c, <1>a, <1>b, StoreOrderFacts
      <4>3. TypeOK'
        BY <1>0, <1>a, <2>a, <3>1, <3>2, <4>1 DEF TypeOK, Places, Writing, Last
      <4>4. HeldWhileInstalling'
        BY <3>1, <4>1 DEF HeldWhileInstalling, Installing, Writing, Gens
      <4>5. Installation'
        BY <1>a, <3>1, <4>1, <4>2 DEF Installation, Last
      <4>6. ~HasOperationalCredentials'
        BY <1>b, <4>2 DEF HasOperationalCredentials
      <4>7. TempIsHeld' /\ InstallsWhenEmpty' /\ Position' /\ ClearingMarker'
        BY <4>1 DEF TempIsHeld, InstallsWhenEmpty, Position, ClearingMarker, Writing
      <4>8. QED
        BY <4>3, <4>4, <4>5, <4>6, <4>7, <2>b
        DEF Inv, MarkerMeansComplete, IdentityOutlivesCredentials, ProvisionsWithIdentity
    <3>3. CASE n = Last
      <4>1. at' = "running" /\ n' = 1 /\ held' = None
        BY <3>1, <3>3 DEF AdvanceTo, Installed
      <4>2. TypeOK'
        BY <1>0, <2>a, <3>1, <4>1 DEF TypeOK, Places, Last
      <4>3. MarkerMeansComplete'
        BY <1>b, <3>1, <3>3 DEF MarkerMeansComplete
      <4>4. HeldWhileInstalling' /\ Installation' /\ TempIsHeld' /\ InstallsWhenEmpty' /\ Position'
        BY <4>1 DEF HeldWhileInstalling, Installing, Installation, TempIsHeld,
                    InstallsWhenEmpty, Position, Writing
      <4>5. ClearingMarker'
        BY <4>1 DEF ClearingMarker
      <4>6. QED
        BY <4>2, <4>3, <4>4, <4>5, <2>b
        DEF Inv, IdentityOutlivesCredentials, ProvisionsWithIdentity
    <3>4. QED BY <3>2, <3>3
  <2>3. QED BY <2>1, <2>2
<1>18. QED BY <1>1, <1>2, <1>3, <1>4, <1>5, <1>6, <1>7, <1>8, <1>9, <1>10, <1>11, <1>12, <1>13, <1>14, <1>15, <1>16, <1>17 DEF Next

LEMMA InvStutter == ASSUME Inv, UNCHANGED vars PROVE Inv'
<1> USE DEF vars, Inv
<1>1. TypeOK' /\ HeldWhileInstalling' /\ Position'
  BY DEF TypeOK, HeldWhileInstalling, Position
<1>2. Installation' /\ TempIsHeld'
  BY DEF Installation, TempIsHeld
<1>3. InstallsWhenEmpty' /\ MarkerMeansComplete'
  BY DEF InstallsWhenEmpty, MarkerMeansComplete, HasOperationalCredentials
<1>4. ClearingMarker' /\ ProvisionsWithIdentity' /\ IdentityOutlivesCredentials'
  BY DEF ClearingMarker, ProvisionsWithIdentity, IdentityOutlivesCredentials,
         HasOperationalCredentials, HasBootstrapIdentity
<1>5. QED BY <1>1, <1>2, <1>3, <1>4

\* The invariant the other theorems rest on: where the credentials in RAM are
\* at each operation of storeOperationalCredentials.
THEOREM InvHolds == ASSUME MarkerRemovable PROVE Spec => []Inv
<1>1. Init => Inv
  BY InvInit
<1>2. Inv /\ [Next]_vars => Inv'
  BY InvNext, InvStutter
<1>3. QED BY <1>1, <1>2, PTL DEF Spec

\* The state keeps its shape: no file in place is ever cut short
\* (writeFileAtomic compares the length written before it renames).
THEOREM TypeCorrect == ASSUME MarkerRemovable PROVE Spec => []TypeOK
<1>1. Inv => TypeOK
  BY DEF Inv
<1>2. QED BY <1>1, InvHolds, PTL

\* Whatever operation fails or the power interrupts, the credentials
\* hasOperationalCredentials finds come from one enrollment.
THEOREM MarkerSound == ASSUME MarkerRemovable PROVE Spec => []MarkerMeansComplete
<1>1. Inv => MarkerMeansComplete
  BY DEF Inv
<1>2. QED BY <1>1, InvHolds, PTL

\* clearAll never leaves credentials without the identity they were obtained
\* with, wherever it is interrupted.
THEOREM IdentityFirst == ASSUME MarkerRemovable PROVE Spec => []IdentityOutlivesCredentials
<1>1. Inv => IdentityOutlivesCredentials
  BY DEF Inv
<1>2. QED BY <1>1, InvHolds, PTL

-----------------------------------------------------------------------------
(* DeviceStorage implements CredentialStore.                               *)

\* A step that leaves the files alone leaves what they store alone.
LEMMA SameFiles == ASSUME files' = files PROVE stored' = stored
BY DEF stored, HasOperationalCredentials

\* Without one file there is nothing stored.
LEMMA NothingStored ==
  /\ ~HasOperationalCredentials => stored = None
  /\ ~HasOperationalCredentials' => stored' = None
BY DEF stored

LEMMA StepRefines ==
  ASSUME MarkerRemovable, Inv, Next
  PROVE  [Abstract!Next]_(Abstract!vars)
<1> USE DEF Abstract!Next, Abstract!vars
<1>a. "marker" \in Files /\ "key" \in Files
  BY DEF Files
<1>b. n \in 1 .. Last /\ StoreOrder[n] \in Files /\ ClearOrder[n] \in Files
  BY StoreOrderFacts, ClearOrderFacts DEF Inv, TypeOK
<1>1. CASE PowerLoss \/ Unreachable
  BY <1>1, SameFiles DEF PowerLoss, Unreachable, Off, flash, Abstract!Lose
<1>2. CASE Boot \/ Start \/ Load
  BY <1>2, SameFiles DEF Boot, Start, Load, flash
<1>3. CASE ClearTmp \/ ClearIdentity \/ PutDeviceId \/ PutSecret \/ Drop
  BY <1>3, SameFiles DEF ClearTmp, ClearIdentity, PutDeviceId, PutSecret, Drop
<1>4. CASE ClearFile
  <2>1. held = None /\ held' = held /\ issued' = issued
    BY <1>4 DEF ClearFile, Inv, HeldWhileInstalling, Installing, Writing
  <2>2. HasOperationalCredentials' =>
          HasOperationalCredentials /\ \A g \in Files : files'[g] = files[g]
    BY <1>4, <1>b, FilesRemoval DEF ClearFile, Inv
  <2>3. stored' = stored \/ stored' = None
    BY <2>2, <1>a DEF stored
  <2>4. QED BY <2>1, <2>3 DEF Abstract!Clear
<1>5. CASE Enroll
  <2>1. stored = None /\ stored' = stored
    BY <1>5, SameFiles, NothingStored DEF Enroll
  <2>2. held = None
    BY <1>5 DEF Enroll, Inv, HeldWhileInstalling, Installing, Writing
  <2>3. QED BY <1>5, <2>1, <2>2 DEF Enroll, Abstract!Enroll
<1>6. CASE Unmark
  <2>1. files'["marker"] = None
    BY <1>6, <1>a, FilesRemoval DEF Unmark, KindOf, Inv
  <2>2. ~HasOperationalCredentials'
    BY <2>1, <1>a DEF HasOperationalCredentials
  <2>3. ~HasOperationalCredentials
    BY <1>6 DEF Unmark, Inv, InstallsWhenEmpty
  <2>4. QED BY <1>6, <2>2, <2>3, NothingStored DEF Unmark
<1>7. CASE Open \/ Write
  <2>1. stored' = stored /\ issued' = issued /\ held' \in {held, None}
    BY <1>7, SameFiles DEF Open, Write, Off
  <2>2. QED BY <2>1 DEF Abstract!Lose
<1>8. CASE Replace
  <2>1. files["marker"] = None
    BY <1>8 DEF Replace, Inv, Installation, Writing
  <2>2. files'["marker"] = None
    BY <1>8, <1>b, <2>1, FilesRemoval DEF Replace, Inv
  <2>3. QED BY <1>8, <1>a, <2>1, <2>2, NothingStored DEF Replace, HasOperationalCredentials
<1>9. CASE Rename
  <2>1. files["marker"] = None /\ issued' = issued
    BY <1>9 DEF Rename, Inv, Installation, Writing
  <2>2. stored = None
    BY <2>1, <1>a, NothingStored DEF HasOperationalCredentials
  <2>3. CASE at' = "off"
    <3>1. files' = files /\ held' = None
      BY <1>9, <2>3 DEF Rename, Off, AdvanceTo
    <3>2. QED BY <3>1, <2>1, SameFiles DEF Abstract!Lose
  <2>4. CASE at' # "off"
    <3>1. /\ held' = Installed
          /\ held \in Gens
          /\ \A g \in Files : g # StoreOrder[n] => files'[g] = files[g]
          /\ n = Last => \A g \in Files : files'[g] = held
      BY <1>9, <2>4, RenameSucceeds
    <3>2. CASE n # Last
      <4>1. files'["marker"] = None
        BY <3>1, <3>2, <2>1, <1>a, <1>b, StoreOrderFacts
      <4>2. stored' = None
        BY <4>1, <1>a, NothingStored DEF HasOperationalCredentials
      <4>3. QED BY <3>1, <3>2, <4>2, <2>1, <2>2 DEF Installed
    <3>3. CASE n = Last
      <4>1. held # None
        BY <3>1, NoneAssumption DEF Gens
      <4>2. HasOperationalCredentials'
        BY <3>1, <3>3, <4>1 DEF HasOperationalCredentials
      <4>3. stored' = held
        BY <3>1, <3>3, <4>2, <1>a DEF stored
      <4>4. QED BY <3>1, <3>3, <4>1, <4>3, <2>1 DEF Installed, Abstract!Store
    <3>4. QED BY <3>2, <3>3
  <2>5. QED BY <2>3, <2>4
<1>10. QED
  BY <1>1, <1>2, <1>3, <1>4, <1>5, <1>6, <1>7, <1>8, <1>9 DEF Next

\* The promise of the flash: seen from above, an enrollment is installed at
\* once, a reset clears it at once, and nothing else changes what is stored.
THEOREM FlashImplementsStore == ASSUME MarkerRemovable PROVE Spec => StoresAtomically
<1>1. Init => Abstract!Init
  BY DEF Init, Abstract!Init, stored, HasOperationalCredentials, Files
<1>2. Inv /\ [Next]_vars => [Abstract!Next]_(Abstract!vars)
  <2>1. ASSUME UNCHANGED vars PROVE UNCHANGED Abstract!vars
    BY <2>1, SameFiles DEF vars, Abstract!vars
  <2>2. QED BY <2>1, StepRefines
<1>3. QED BY <1>1, <1>2, InvHolds, PTL DEF Spec, StoresAtomically, Abstract!Spec

\* Only the reset pin costs a board its credentials: outside
\* clearOperationalCredentials no step makes them disappear.
THEOREM OnlyReset == ASSUME MarkerRemovable PROVE Spec => OnlyResetForgets
<1>1. ASSUME Inv, Next, HasOperationalCredentials, ~HasOperationalCredentials'
      PROVE  at = "clear"
  <2>1. files' # files
    BY <1>1 DEF HasOperationalCredentials
  <2>2. ClearFile \/ Unmark \/ Replace \/ Rename
    BY <1>1, <2>1 DEF Next, PowerLoss, Boot, ClearTmp, ClearIdentity, Start, PutDeviceId,
       PutSecret, Unreachable, Load, Enroll, Drop, Open, Write, flash
  <2>3. ~Unmark
    BY <1>1 DEF Unmark, Inv, InstallsWhenEmpty
  <2>4. at \in Writing => ~HasOperationalCredentials
    BY <1>1 DEF Inv, Installation, HasOperationalCredentials, Files
  <2>5. QED BY <1>1, <2>2, <2>3, <2>4 DEF ClearFile, Replace, Rename, Writing
<1>2. Inv /\ [Next]_vars => [HasOperationalCredentials /\ ~HasOperationalCredentials'
                               => at = "clear"]_vars
  BY <1>1
<1>3. QED BY <1>2, InvHolds, PTL DEF Spec, OnlyResetForgets

-----------------------------------------------------------------------------
(* Presence                                                                *)

\* A row, changed in the columns that are listed.
LEMMA Rows ==
  ASSUME NEW r \in Row, NEW l \in {"pending", "provisioned", "revoked"},
         NEW e \in BOOLEAN, NEW o \in BOOLEAN, NEW f \in BOOLEAN
  PROVE  /\ [r EXCEPT !.life = l, !.online = o, !.enabled = e] \in Row
         /\ [r EXCEPT !.online = o, !.fresh = f] \in Row
         /\ [r EXCEPT !.online = o] \in Row
         /\ [r EXCEPT !.fresh = f] \in Row
BY DEF Row

\* What the assumptions say of the constants.
LEMMA Facts ==
  /\ Absent \notin Row /\ Absent \notin Message /\ Absent \notin Devices
  /\ MaxInbox \in Nat /\ MaxInbox > 0 /\ MaxReplays \in Nat
BY ConstantsAssumption, RowAssumption

\* A message on its way fits.
LEMMA Sends ==
  ASSUME PresenceTypeOK, NEW msg \in Message, Len(inbox) < MaxInbox, Send(msg)
  PROVE  inbox' \in Seq(Message) /\ Len(inbox') <= MaxInbox
<1>1. inbox \in Seq(Message) /\ Len(inbox) \in Nat
  BY DEF PresenceTypeOK
<1>2. inbox' \in Seq(Message) /\ Len(inbox') = Len(inbox) + 1
  BY <1>1 DEF Send
<1> QED
  BY <1>1, <1>2, Facts

\* What is loaded is a row, and what is stored or asked is about a device.
PInv ==
  /\ PresenceTypeOK
  /\ m # NoMessage => m.msg \in Message /\ m.row \in Row
  /\ op # NoOperation => op.kind \in OperationKinds /\ op.d \in Devices /\ op.row \in Row

\* It holds to begin with, ...
LEMMA PInvInit == PresenceInit => PInv
<1> SUFFICES ASSUME PresenceInit PROVE PInv
  OBVIOUS
<1>1. [life |-> "provisioned", enabled |-> TRUE, online |-> FALSE, fresh |-> FALSE] \in Row
  BY DEF Row
<1> QED
  BY <1>1, Facts DEF PresenceInit, PInv, PresenceTypeOK, NoMessage, NoOperation

\* ... after a step of a device or of the broker, which writes no row, ...
LEMMA BrokerSteps ==
  ASSUME PInv, NEW d \in Devices, Connect(d) \/ Publish(d) \/ LoseSession(d) \/ Resubscribe(d)
  PROVE  PInv' /\ UNCHANGED <<dev, m>>
<1>1. PresenceTypeOK /\ UNCHANGED <<dev, m, monitor, op>>
  BY DEF PInv, Connect, Publish, LoseSession, Resubscribe
<1>2. session' \in SUBSET Devices
  BY <1>1 DEF PresenceTypeOK, Connect, Publish, LoseSession, Resubscribe
<1>3. retained' \in [Devices -> {"online", "offline", Absent}]
  BY <1>1 DEF PresenceTypeOK, Connect, Publish, LoseSession, Resubscribe
<1>4. inbox' \in Seq(Message) /\ Len(inbox') <= MaxInbox
  <2>1. CASE \E msg \in Message : Len(inbox) < MaxInbox /\ Send(msg)
    BY <1>1, <2>1, Sends
  <2>2. CASE UNCHANGED inbox
    BY <1>1, <2>2 DEF PresenceTypeOK
  <2>3. (\E msg \in Message : Len(inbox) < MaxInbox /\ Send(msg)) \/ UNCHANGED inbox
    <3>1. \A body \in {"online", "offline", "other"} : [dev |-> d, body |-> body] \in Message
      BY DEF Message
    <3>2. CASE Connect(d)
      BY <3>1, <3>2 DEF Connect
    <3>3. CASE Publish(d)
      BY <3>1, <3>3 DEF Publish
    <3>4. CASE LoseSession(d)
      BY <3>1, <3>4 DEF LoseSession
    <3>5. CASE Resubscribe(d)
      <4>1. retained[d] \in {"online", "offline", "other"}
        BY <1>1, <3>5 DEF Resubscribe, PresenceTypeOK
      <4> QED
        BY <3>1, <3>5, <4>1 DEF Resubscribe
    <3> QED
      BY <3>2, <3>3, <3>4, <3>5
  <2> QED
    BY <2>1, <2>2, <2>3
<1>5. replays' \in 0 .. MaxReplays
  BY <1>1, Facts DEF PresenceTypeOK, Connect, Publish, LoseSession, Resubscribe
<1>6. PresenceTypeOK'
  BY <1>1, <1>2, <1>3, <1>4, <1>5 DEF PresenceTypeOK
<1> QED
  BY <1>1, <1>6 DEF PInv

\* ... and when a message is taken up.
LEMMA StoreLoadKeeps == ASSUME PInv, StoreLoad PROVE PInv'
<1>1. /\ PresenceTypeOK /\ UNCHANGED <<dev, session, retained, monitor, op, replays>>
      /\ inbox # <<>> /\ inbox' = Tail(inbox)
      /\ m' = IF dev[Head(inbox).dev] = Absent THEN NoMessage
              ELSE [msg |-> Head(inbox), row |-> dev[Head(inbox).dev]]
  BY DEF PInv, StoreLoad
<1>2. /\ inbox \in Seq(Message) /\ Len(inbox) <= MaxInbox /\ dev \in [Devices -> Row \cup {Absent}]
  BY <1>1 DEF PresenceTypeOK
<1>3. Head(inbox) \in Message /\ inbox' \in Seq(Message) /\ Len(inbox') <= MaxInbox
  <2>1. Len(inbox) \in Nat /\ Len(Tail(inbox)) = Len(inbox) - 1 /\ Tail(inbox) \in Seq(Message)
        /\ Head(inbox) \in Message
    BY <1>1, <1>2
  <2> QED
    BY <1>1, <1>2, <2>1, Facts
<1>4. Head(inbox).dev \in Devices
  BY <1>3 DEF Message
<1>5. dev[Head(inbox).dev] = Absent \/ dev[Head(inbox).dev] \in Row
  BY <1>2, <1>4
<1>6. /\ m' \in [msg : Message \cup {Absent}, row : Row \cup {Absent}]
      /\ m' # NoMessage => m'.msg \in Message /\ m'.row \in Row
  BY <1>1, <1>3, <1>5 DEF NoMessage
<1>7. PresenceTypeOK'
  BY <1>1, <1>3, <1>6 DEF PresenceTypeOK
<1> QED
  BY <1>1, <1>6, <1>7 DEF PInv

\* The steps that write rows.
LEMMA RowsWritten ==
  ASSUME PInv, dev' \in [Devices -> Row \cup {Absent}],
         UNCHANGED <<session, retained, inbox, replays>>,
         m' \in {m, NoMessage}, monitor' \in {monitor, {}}, op' \in {op, NoOperation}
  PROVE  PInv'
<1>1. m' \in [msg : Message \cup {Absent}, row : Row \cup {Absent}]
  BY DEF PInv, PresenceTypeOK, NoMessage
<1>2. op' \in [kind : OperationKinds \cup {"none"}, d : Devices \cup {Absent}, row : Row \cup {Absent}]
  BY DEF PInv, PresenceTypeOK, NoOperation
<1>3. monitor' \in SUBSET Devices
  BY DEF PInv, PresenceTypeOK
<1>4. PresenceTypeOK'
  BY <1>1, <1>2, <1>3 DEF PInv, PresenceTypeOK
<1> QED
  BY <1>4 DEF PInv

\* What storing a message makes of the rows.
LEMMA Stored ==
  ASSUME PInv, StoreCommit
  PROVE  /\ m # NoMessage /\ m.msg.dev \in Devices /\ m.row \in Row
         /\ dev' \in [Devices -> Row \cup {Absent}]
         /\ \A d \in Devices : d # m.msg.dev => dev'[d] = dev[d]
         /\ dev[m.msg.dev] \in Row /\ Barred(m.row) /\ ~ dev[m.msg.dev].online =>
              ~ dev'[m.msg.dev].online
         /\ dev[m.msg.dev] = Absent => dev'[m.msg.dev] = Absent
<1> DEFINE d == m.msg.dev
           o == Flush(dev[d].online, m.row.online, OnlineAfter(m.row, m.msg.body))
           f == dev[d].fresh \/ ~ Barred(m.row)
<1>1. m # NoMessage /\ d \in Devices /\ m.row \in Row /\ dev \in [Devices -> Row \cup {Absent}]
  BY DEF PInv, StoreCommit, PresenceTypeOK, Message
<1>2. dev' = IF dev[d] = Absent THEN dev ELSE [dev EXCEPT ![d].online = o, ![d].fresh = f]
  BY DEF StoreCommit
<1>3. ASSUME dev[d] # Absent
      PROVE  /\ dev[d] \in Row /\ o \in BOOLEAN /\ f \in BOOLEAN
             /\ Barred(m.row) /\ ~ dev[d].online => ~o
  BY <1>1, <1>3, Zenon DEF Row, Flush, OnlineAfter
<1> HIDE DEF d, o, f
<1>4. ASSUME dev[d] # Absent
      PROVE  /\ dev' = [dev EXCEPT ![d] = [dev[d] EXCEPT !.online = o, !.fresh = f]]
             /\ [dev[d] EXCEPT !.online = o, !.fresh = f] \in Row
  BY <1>1, <1>2, <1>3, <1>4, Rows
<1> DEFINE new == [dev[d] EXCEPT !.online = o, !.fresh = f]
<1>5. dev[d] # Absent => new.online = o
  BY <1>3 DEF Row
<1> HIDE DEF new
<1>6. dev[d] # Absent => new \in Row /\ dev' = [dev EXCEPT ![d] = new]
  BY <1>4 DEF new
<1>7. CASE dev[d] = Absent
  BY <1>1, <1>2, <1>7, Facts DEF d
<1>8. CASE dev[d] # Absent
  <2>1. dev' \in [Devices -> Row \cup {Absent}] /\ dev'[d] = new
        /\ \A e \in Devices : e # d => dev'[e] = dev[e]
    BY <1>1, <1>6, <1>8
  <2> QED
    BY <1>1, <1>3, <1>5, <1>8, <2>1 DEF d
<1> QED
  BY <1>7, <1>8

\* What the monitor writes: it only marks rows offline.
LEMMA Marked ==
  ASSUME PInv, MonitorCommit
  PROVE  /\ dev' \in [Devices -> Row \cup {Absent}]
         /\ \A d \in Devices : dev[d] = Absent => dev'[d] = Absent
         /\ \A d \in Devices : dev[d] # Absent /\ ~ dev[d].online => ~ dev'[d].online
<1>1. dev \in [Devices -> Row \cup {Absent}] /\ monitor \subseteq Devices
  BY DEF PInv, PresenceTypeOK
<1>2. CASE \E d \in monitor : dev[d] = Absent
  BY <1>1, <1>2 DEF MonitorCommit
<1>3. CASE \A d \in monitor : dev[d] # Absent
  <2>1. dev' = [d \in Devices |-> IF d \in monitor THEN [dev[d] EXCEPT !.online = FALSE]
                                                  ELSE dev[d]]
    BY <1>3 DEF MonitorCommit
  <2>2. ASSUME NEW d \in Devices, d \in monitor
        PROVE  [dev[d] EXCEPT !.online = FALSE] \in Row /\ ~ [dev[d] EXCEPT !.online = FALSE].online
    <3>1. dev[d] \in Row
      BY <1>1, <1>3, <2>2
    <3> QED
      BY <3>1 DEF Row
  <2> QED
    BY <1>1, <1>3, <2>1, <2>2
<1> QED
  BY <1>2, <1>3

\* What the operator writes: no operation shows a device online.
LEMMA Operated ==
  ASSUME PInv, OperatorCommit
  PROVE  /\ dev' \in [Devices -> Row \cup {Absent}]
         /\ \A d \in Devices : dev[d] = Absent => dev'[d] = Absent
         /\ \A d \in Devices : dev[d] # Absent /\ ~ dev[d].online /\ dev'[d] # Absent
                               => ~ dev'[d].online
<1> DEFINE d == op.d
           new == Outcome(op.kind, op.row)
           l == Flush(dev[d].life, op.row.life, new.life)
           o == Flush(dev[d].online, op.row.online, new.online)
           e == Flush(dev[d].enabled, op.row.enabled, new.enabled)
           row == [dev[d] EXCEPT !.life = l, !.online = o, !.enabled = e]
<1>1. /\ d \in Devices /\ op.row \in Row /\ op.kind \in OperationKinds
      /\ dev \in [Devices -> Row \cup {Absent}]
  BY DEF PInv, OperatorCommit, PresenceTypeOK
<1>2. /\ dev[d] = Absent => dev' = dev
      /\ dev[d] # Absent /\ op.kind = "delete" => dev' = [dev EXCEPT ![d] = Absent]
      /\ dev[d] # Absent /\ op.kind # "delete" =>
           dev' = [dev EXCEPT ![d].life = l, ![d].online = o, ![d].enabled = e]
  BY DEF OperatorCommit
<1>3. ASSUME op.kind # "delete"
      PROVE  new \in Row /\ (new.online = op.row.online \/ new.online = FALSE)
  BY <1>1, <1>3 DEF Outcome, OperationKinds, Revoked, Reset, Provisioned, Toggled, Row
<1> HIDE DEF new
<1>4. ASSUME op.kind # "delete", dev[d] # Absent
      PROVE  /\ dev[d] \in Row /\ l \in {"pending", "provisioned", "revoked"}
             /\ o \in BOOLEAN /\ e \in BOOLEAN
             /\ ~ dev[d].online => ~o
  <2>1. dev[d] \in Row
    BY <1>1, <1>4
  <2>2. /\ new.life \in {"pending", "provisioned", "revoked"} /\ new.online \in BOOLEAN
        /\ new.enabled \in BOOLEAN
        /\ dev[d].life \in {"pending", "provisioned", "revoked"} /\ dev[d].online \in BOOLEAN
        /\ dev[d].enabled \in BOOLEAN
    BY <1>3, <1>4, <2>1 DEF Row
  <2> QED
    BY <1>3, <1>4, <2>1, <2>2 DEF Flush
<1> HIDE DEF d, l, o, e
<1>5. ASSUME op.kind # "delete", dev[d] # Absent
      PROVE  row \in Row /\ row.online = o /\ dev' = [dev EXCEPT ![d] = row]
  <2>1. row \in Row
    <3>1. \A r \in Row, x \in {"pending", "provisioned", "revoked"}, y, z \in BOOLEAN :
            [r EXCEPT !.life = x, !.online = y, !.enabled = z] \in Row
      BY DEF Row
    <3> QED
      BY <1>4, <1>5, <3>1
  <2>2. row.online = o
    BY <1>4, <1>5 DEF Row
  <2>3. dev' = [dev EXCEPT ![d] = row]
    BY <1>1, <1>2, <1>5
  <2> QED
    BY <2>1, <2>2, <2>3
<1> HIDE DEF row
<1>6. CASE dev[d] = Absent
  BY <1>1, <1>2, <1>6, Facts
<1>7. CASE dev[d] # Absent /\ op.kind = "delete"
  BY <1>1, <1>2, <1>7, Facts
<1>8. CASE dev[d] # Absent /\ op.kind # "delete"
  <2>1. /\ dev' \in [Devices -> Row \cup {Absent}] /\ dev'[d] = row
        /\ \A x \in Devices : x # d => dev'[x] = dev[x]
    BY <1>1, <1>5, <1>8
  <2> QED
    BY <1>4, <1>5, <1>8, <2>1
<1> QED
  BY <1>6, <1>7, <1>8

\* Time, a registration, and the operator and the monitor that begin.
LEMMA OthersKeep ==
  ASSUME PInv, NEW d \in Devices,
         \/ Age(d) \/ Register(d) \/ MonitorLoad
         \/ \E kind \in OperationKinds : OperatorLoad(kind, d)
  PROVE  /\ PInv' /\ UNCHANGED m
         /\ \A x \in Devices : dev[x] # Absent => dev'[x] # Absent /\ dev'[x].online = dev[x].online
         /\ \A x \in Devices : dev[x] = Absent => dev'[x] = Absent \/ ~ dev'[x].online
<1>0. PresenceTypeOK /\ dev \in [Devices -> Row \cup {Absent}]
  BY DEF PInv, PresenceTypeOK
<1>1. CASE Age(d)
  <2>1. dev[d] \in Row
    BY <1>0, <1>1 DEF Age
  <2> DEFINE row == [dev[d] EXCEPT !.fresh = FALSE]
  <2>2. row \in Row /\ row.online = dev[d].online
    BY <2>1 DEF Row
  <2>3. dev' = [dev EXCEPT ![d] = row]
    BY <1>1 DEF Age
  <2> HIDE DEF row
  <2>4. /\ dev' \in [Devices -> Row \cup {Absent}] /\ dev'[d] = row
        /\ \A x \in Devices : x # d => dev'[x] = dev[x]
    BY <1>0, <2>2, <2>3
  <2>5. PInv'
    BY <1>1, <2>4, RowsWritten DEF Age
  <2> QED
    BY <1>1, <2>1, <2>2, <2>4, <2>5, Facts DEF Age
<1>2. CASE Register(d)
  <2> DEFINE row == [life |-> "pending", enabled |-> TRUE, online |-> FALSE, fresh |-> FALSE]
  <2>1. row \in Row /\ row.online = FALSE
    BY DEF Row
  <2>2. dev' = [dev EXCEPT ![d] = row] /\ dev[d] = Absent
    BY <1>2 DEF Register
  <2> HIDE DEF row
  <2>3. /\ dev' \in [Devices -> Row \cup {Absent}] /\ dev'[d] = row
        /\ \A x \in Devices : x # d => dev'[x] = dev[x]
    BY <1>0, <2>1, <2>2
  <2>4. PInv'
    BY <1>2, <2>3, RowsWritten DEF Register
  <2> QED
    BY <1>2, <2>1, <2>2, <2>3, <2>4 DEF Register
<1>3. CASE MonitorLoad
  <2>1. monitor' \subseteq Devices /\ UNCHANGED <<dev, session, retained, inbox, m, op, replays>>
    BY <1>3 DEF MonitorLoad, Stale
  <2>2. PInv'
    BY <2>1 DEF PInv, PresenceTypeOK
  <2> QED
    BY <2>1, <2>2
<1>4. ASSUME NEW kind \in OperationKinds, OperatorLoad(kind, d)
      PROVE  PInv' /\ UNCHANGED <<dev, m>>
  <2>1. /\ op' = [kind |-> kind, d |-> d, row |-> dev[d]] /\ dev[d] \in Row
        /\ UNCHANGED <<dev, session, retained, inbox, m, monitor, replays>>
    BY <1>0, <1>4 DEF OperatorLoad
  <2>2. /\ op' \in [kind : OperationKinds \cup {"none"}, d : Devices \cup {Absent}, row : Row \cup {Absent}]
        /\ op'.kind \in OperationKinds /\ op'.d \in Devices /\ op'.row \in Row
    BY <2>1
  <2> QED
    BY <2>1, <2>2 DEF PInv, PresenceTypeOK
<1> QED
  BY <1>1, <1>2, <1>3, <1>4

\* Every step of the specification.
LEMMA PresenceStep ==
  ASSUME PInv, [PresenceNext]_presenceVars
  PROVE  PInv' /\ \A d \in Devices : SettledOffline(d) /\ Out(d)' => SettledOffline(d)'
<1> DEFINE Stays == \A d \in Devices : SettledOffline(d) /\ Out(d)' => SettledOffline(d)'
<1>1. CASE StoreLoad
  <2>1. UNCHANGED dev
    BY <1>1 DEF StoreLoad
  <2>2. Stays
    <3> SUFFICES ASSUME NEW d \in Devices, SettledOffline(d), m' # NoMessage, m'.msg.dev = d
                 PROVE  Barred(m'.row)
      BY <2>1 DEF SettledOffline, Out
    <3>1. m' = [msg |-> Head(inbox), row |-> dev[Head(inbox).dev]]
      BY <1>1 DEF StoreLoad
    <3>2. m'.row = dev[d]
      BY <3>1
    <3> QED
      BY <3>2 DEF SettledOffline, Out
  <2> QED
    BY <1>1, <2>2, StoreLoadKeeps
<1>2. CASE StoreCommit
  <2>1. UNCHANGED <<session, retained, inbox, monitor, op, replays>> /\ m' = NoMessage
    BY <1>2 DEF StoreCommit
  <2>2. PInv'
    BY <1>2, <2>1, Stored, RowsWritten
  <2>3. Stays
    <3> SUFFICES ASSUME NEW d \in Devices, SettledOffline(d), Out(d)'
                 PROVE  ~ dev'[d].online
      BY <2>1 DEF SettledOffline
    <3>1. dev \in [Devices -> Row \cup {Absent}]
      BY DEF PInv, PresenceTypeOK
    <3> QED
      BY <1>2, <3>1, Stored DEF SettledOffline, Out
  <2> QED
    BY <2>2, <2>3
<1>3. CASE MonitorCommit \/ OperatorCommit
  <2>1. /\ dev' \in [Devices -> Row \cup {Absent}]
        /\ \A d \in Devices : dev[d] # Absent /\ ~ dev[d].online /\ dev'[d] # Absent
                               => ~ dev'[d].online
    BY <1>3, Marked, Operated
  <2>2. PInv' /\ UNCHANGED m
    BY <1>3, <2>1, RowsWritten DEF MonitorCommit, OperatorCommit
  <2>3. Stays
    BY <2>1, <2>2 DEF SettledOffline, Out
  <2> QED
    BY <2>2, <2>3
<1>4. ASSUME NEW d \in Devices,
             \/ Age(d) \/ Register(d) \/ MonitorLoad
             \/ \E kind \in OperationKinds : OperatorLoad(kind, d)
      PROVE  PInv' /\ Stays
  <2>1. /\ PInv' /\ UNCHANGED m
        /\ \A x \in Devices : dev[x] # Absent => dev'[x] # Absent /\ dev'[x].online = dev[x].online
    BY <1>4, OthersKeep
  <2> QED
    BY <2>1 DEF SettledOffline, Out
<1>5. ASSUME NEW d \in Devices, Connect(d) \/ Publish(d) \/ LoseSession(d) \/ Resubscribe(d)
      PROVE  PInv' /\ Stays
  BY <1>5, BrokerSteps DEF SettledOffline, Out
<1>6. CASE UNCHANGED presenceVars
  BY <1>6 DEF presenceVars, PInv, PresenceTypeOK, SettledOffline, Out
<1>7. CASE MonitorLoad
  <2>1. UNCHANGED <<dev, m>> /\ \E d \in Devices : TRUE
    BY <1>7 DEF MonitorLoad, Stale
  <2> QED
    BY <1>4, <1>7, <2>1
<1> QED
  BY <1>1, <1>2, <1>3, <1>4, <1>5, <1>6, <1>7 DEF PresenceNext, Service, Monitor

\* The presence of the devices keeps its types: no thread stores a message, or carries
\* out a request, on a row that is not one (mqtt_service.py, registry.py).
THEOREM PresenceTyped == PresenceSpec => []PresenceTypeOK
<1>1. PInv => PresenceTypeOK
  BY DEF PInv
<1> QED
  BY <1>1, PInvInit, PresenceStep, PTL DEF PresenceSpec

\* Once the message that was under way when a device was revoked or disabled has been
\* stored, nothing shows the device online: neither its messages, nor a retained
\* status, the monitor or another request, whichever rows they had loaded
\* (_store_event, _mark_stale_devices, registry.py).
THEOREM StaysOffline == PresenceSpec => BarredStaysOffline
  BY PInvInit, PresenceStep, PTL DEF PresenceSpec, BarredStaysOffline

=============================================================================
