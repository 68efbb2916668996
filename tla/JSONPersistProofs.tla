-------------------------- MODULE JSONPersistProofs --------------------------
(***************************************************************************)
(* Settings survive one interrupted save, and are never older than what    *)
(* was last reported as saved, for every number of calls of SaveJSON.      *)
(***************************************************************************)
EXTENDS JSONPersist, TLAPS

\* No file exists before the first save.
LEMMA FilesInvInit == Init => FilesInv
  BY SavesAssumption
  DEF Init, FilesInv, TypeOK, FilesAreRecent, OneFileIsWhole, TempIsWhole, File, Synced,
      Contents, Absent

\* Every step of SaveJSON, a failure of it, a stop, a crash and LoadJSON keep
\* the invariant.
LEMMA FilesInvStep == FilesInv /\ [Next]_vars => FilesInv'
  <1> SUFFICES ASSUME FilesInv, [Next]_vars PROVE FilesInv'
    OBVIOUS
  <1> USE SavesAssumption DEF FilesInv, TypeOK, FilesAreRecent, OneFileIsWhole, TempIsWhole,
          File, Synced, Contents, Absent
  <1>1. CASE openTemp
    BY <1>1 DEF openTemp, Truncate
  <1>2. CASE writeTemp
    <2>1. temp'.content = object /\ temp'.onDisk = temp.onDisk \cup {object} /\ temp' \in File
      BY <1>2 DEF writeTemp, Write
    <2>2. /\ pc = "writeTemp" /\ pc' = "syncTemp"
          /\ UNCHANGED <<real, object, memory, saved, interrupted>>
      BY <1>2 DEF writeTemp
    <2>3. object \in saved..object
      BY <1>2 DEF writeTemp
    <2> QED BY <2>1, <2>2, <2>3
  <1>3. CASE syncTemp
    BY <1>3 DEF syncTemp, Sync
  <1>4. CASE openReal
    BY <1>4 DEF openReal, Truncate
  <1>5. CASE writeReal
    BY <1>5 DEF writeReal, Write
  <1>6. CASE syncReal
    BY <1>6 DEF syncReal, Sync
  <1>7. CASE saveError
    BY <1>7 DEF saveError, Write
  <1>8. CASE stop
    BY <1>8 DEF stop
  <1>9. CASE crash
    BY <1>9 DEF crash
  <1>10. CASE LoadJSON
    BY <1>10 DEF LoadJSON, Loaded
  <1>11. CASE UNCHANGED vars
    BY <1>11 DEF vars
  <1> QED
    BY <1>1, <1>2, <1>3, <1>4, <1>5, <1>6, <1>7, <1>8, <1>9, <1>10, <1>11 DEF Next

\* The invariant of the two files holds whenever SaveJSON is interrupted.
THEOREM FilesInvHolds == Spec => []FilesInv
  BY FilesInvInit, FilesInvStep, PTL DEF Spec

\* LoadJSON returns what SaveJSON last reported as saved, or something newer.
THEOREM LoadsStayRecent == Spec => []LoadsAreRecent
  <1>1. FilesInv => LoadsAreRecent
    BY SavesAssumption DEF FilesInv, TypeOK, FilesAreRecent, LoadsAreRecent, Loaded, File,
                           Contents, Absent
  <1> QED BY <1>1, FilesInvHolds, PTL

\* LoadJSON fails only after two calls of SaveJSON in a row did not succeed.
THEOREM OneInterruptionIsHarmless == Spec => []OneInterruptionIsSurvived
  <1>1. FilesInv => OneInterruptionIsSurvived
    BY SavesAssumption DEF FilesInv, TypeOK, FilesAreRecent, OneFileIsWhole, TempIsWhole,
                           OneInterruptionIsSurvived, Loaded, File, Contents, Absent
  <1> QED BY <1>1, FilesInvHolds, PTL

=============================================================================
