----------------------------- MODULE JSONPersist -----------------------------
(***************************************************************************)
(* persist/json.go: how the wallet, the block creator and the gateway keep *)
(* their settings.  SaveJSON writes the object to a temporary file and     *)
(* then once more to the real one, each time truncating, writing and       *)
(* syncing; LoadJSON falls back to the temporary file when the real one    *)
(* cannot be read.  A crash, or an error of the operating system, may come *)
(* between any two of those calls.                                         *)
(*                                                                         *)
(* The objects saved are numbered 1, 2, ... in the order of the calls.  A  *)
(* file has a content, Torn when it does not hold a whole object, and the  *)
(* set of contents that may be found on the disk after a crash, which a    *)
(* sync reduces to the content.                                            *)
(***************************************************************************)
EXTENDS Naturals

CONSTANTS
    MaxSaves,  \* bound on the number of calls of SaveJSON
    Torn       \* the content of a file that readJSON cannot make sense of

ASSUME SavesAssumption == MaxSaves \in Nat /\ Torn \notin Nat

\* A file that does not exist stands for the defaults a module starts with.
Absent == 0
Contents == {Torn} \cup (0..MaxSaves)

VARIABLES
    real, temp,   \* the file and its twin with the suffix "_temp"
    pc,           \* where SaveJSON is; "down": the process is not running
    object,       \* number of the last object SaveJSON was called with
    memory,       \* the object the module holds in memory
    saved,        \* the last object SaveJSON reported as saved
    interrupted   \* calls in a row that started to write and did not succeed

vars == <<real, temp, pc, object, memory, saved, interrupted>>

File == [content : Contents, onDisk : SUBSET Contents]
Synced(c) == [content |-> c, onDisk |-> {c}]

Init ==
    /\ real = Synced(Absent)
    /\ temp = Synced(Absent)
    /\ pc = "idle"
    /\ object = 0
    /\ memory = 0
    /\ saved = 0
    /\ interrupted = 0

----------------------------------------------------------------------------
(* What the operating system does. *)

\* os.OpenFile with O_TRUNC: the old content is gone for readers, and on disk
\* at any time from now on.
Truncate(f) == [content |-> Torn, onDisk |-> f.onDisk \cup {Torn}]

\* file.Write: some or all of the data may reach the disk before the sync.
Write(f, n) == [content |-> n, onDisk |-> f.onDisk \cup {n}]

\* file.Sync
Sync(f) == Synced(f.content)

----------------------------------------------------------------------------
(* SaveJSON.  The entry in activeFiles lets no second call in: build.      *)
(* Critical panics before a file is touched, which is a stop.              *)

\* The call with a new object, up to the truncation of the temporary file.
\* The error of a file that cannot be opened changes nothing either.
openTemp ==
    /\ pc = "idle"
    /\ object < MaxSaves
    /\ object' = object + 1
    /\ memory' = object + 1
    /\ temp' = Truncate(temp)
    /\ interrupted' = interrupted + 1
    /\ pc' = "writeTemp"
    /\ UNCHANGED <<real, saved>>

writeTemp ==
    /\ pc = "writeTemp"
    /\ temp' = Write(temp, object)
    /\ pc' = "syncTemp"
    /\ UNCHANGED <<real, object, memory, saved, interrupted>>

\* Mutant: the temporary file is not synced.
syncTempNot ==
    /\ pc = "syncTemp"
    /\ pc' = "openReal"
    /\ UNCHANGED <<real, temp, object, memory, saved, interrupted>>

syncTemp ==
    /\ pc = "syncTemp"
    /\ temp' = Sync(temp)
    /\ pc' = "openReal"
    /\ UNCHANGED <<real, object, memory, saved, interrupted>>

openReal ==
    /\ pc = "openReal"
    /\ real' = Truncate(real)
    /\ pc' = "writeReal"
    /\ UNCHANGED <<temp, object, memory, saved, interrupted>>

writeReal ==
    /\ pc = "writeReal"
    /\ real' = Write(real, object)
    /\ pc' = "syncReal"
    /\ UNCHANGED <<temp, object, memory, saved, interrupted>>

\* Mutant: success is reported before the data is on disk.
syncRealNot ==
    /\ pc = "syncReal"
    /\ saved' = object
    /\ interrupted' = 0
    /\ pc' = "idle"
    /\ UNCHANGED <<real, temp, object, memory>>

syncReal ==
    /\ pc = "syncReal"
    /\ real' = Sync(real)
    /\ saved' = object
    /\ interrupted' = 0
    /\ pc' = "idle"
    /\ UNCHANGED <<temp, object, memory>>

\* A write fails halfway, a sync fails, or the real file cannot be opened:
\* SaveJSON returns the error and leaves the files as they are.
saveError ==
    /\ pc \in {"writeTemp", "syncTemp", "openReal", "writeReal", "syncReal"}
    /\ temp' = IF pc = "writeTemp" THEN Write(temp, Torn) ELSE temp
    /\ real' = IF pc = "writeReal" THEN Write(real, Torn) ELSE real
    /\ pc' = "idle"
    /\ UNCHANGED <<object, memory, saved, interrupted>>

----------------------------------------------------------------------------
(* Stopping, and LoadJSON. *)

\* The process ends or is killed: the operating system keeps the files.
stop ==
    /\ pc # "down"
    /\ pc' = "down"
    /\ memory' = 0
    /\ UNCHANGED <<real, temp, object, saved, interrupted>>

\* The machine goes down: what was not synced may or may not be there.
crash ==
    /\ \E r \in real.onDisk, t \in temp.onDisk :
         real' = Synced(r) /\ temp' = Synced(t)
    /\ pc' = "down"
    /\ memory' = 0
    /\ UNCHANGED <<object, saved, interrupted>>

\* What LoadJSON makes of the two files.  A real file that does not exist is
\* reported at once, whatever the other one holds.
Loaded ==
    IF real.content # Torn THEN real.content
    ELSE IF temp.content # Absent THEN temp.content ELSE Torn

\* The module that owns the file is started; it refuses to start when its
\* settings are unreadable.
LoadJSON ==
    /\ pc = "down"
    /\ Loaded # Torn
    /\ memory' = Loaded
    /\ pc' = "idle"
    /\ UNCHANGED <<real, temp, object, saved, interrupted>>

Next ==
    \/ openTemp \/ writeTemp \/ syncTemp
    \/ openReal \/ writeReal \/ syncReal
    \/ saveError
    \/ stop
    \/ crash
    \/ LoadJSON

Spec == Init /\ [][Next]_vars

----------------------------------------------------------------------------
(* Properties. *)

\* The files hold what SaveJSON was called with, in whole or torn.
TypeOK ==
    /\ real \in File
    /\ temp \in File
    /\ pc \in {"idle", "writeTemp", "syncTemp", "openReal", "writeReal", "syncReal", "down"}
    /\ object \in 0..MaxSaves
    /\ memory \in 0..MaxSaves
    /\ saved \in 0..MaxSaves
    /\ interrupted \in 0..MaxSaves

\* After a start the module has what was last reported as saved, or a newer
\* object whose save was interrupted; never an older one, and never a fresh
\* start after a successful save, however the two files were left.
LoadsAreRecent == pc = "down" /\ Loaded # Torn => Loaded \in saved..object

\* One interrupted save, by a crash or an error, does no harm: the settings can
\* be loaded unless two calls of SaveJSON in a row did not succeed.
OneInterruptionIsSurvived == pc = "down" /\ interrupted <= 1 => Loaded # Torn

\* The inductive invariant behind the two: what may be on the disk is recent;
\* from the moment the real file is opened the temporary one holds the object;
\* and when at most one save was interrupted one of the files is whole.
FilesAreRecent ==
    /\ saved <= object
    /\ real.content \in real.onDisk /\ temp.content \in temp.onDisk
    /\ real.onDisk \subseteq {Torn} \cup (saved..object)
    /\ temp.onDisk \subseteq {Torn, Absent} \cup (saved..object)

TempIsWhole == temp.onDisk = {object} /\ object > 0

OneFileIsWhole ==
    /\ pc \in {"openReal", "writeReal", "syncReal"} => TempIsWhole
    /\ pc = "syncTemp" => temp.content = object
    /\ pc = "syncReal" => real.content = object
    /\ pc \notin {"idle", "down"} => interrupted > 0 /\ object > 0
    /\ interrupted <= object
    /\ interrupted = 0 => Torn \notin real.onDisk
    /\ interrupted = 1 => Torn \notin real.onDisk \/ TempIsWhole
    /\ interrupted = 1 /\ pc \in {"writeTemp", "syncTemp"} => Torn \notin real.onDisk

FilesInv == TypeOK /\ FilesAreRecent /\ OneFileIsWhole

=============================================================================
