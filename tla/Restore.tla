-------------------------------- MODULE Restore --------------------------------
(***************************************************************************)
(* Scheduled backups and restoring one: crates/core/src/backup.rs and the  *)
(* handlers that call it.  A restore swaps the photo folder and writes the *)
(* collection in several steps; each may fail, and the program may stop    *)
(* between any two.  The store's mutex (module Store) is held from the     *)
(* revision check on, so other requests only run before and after.         *)
(*                                                                         *)
(* A photo is its path and what it shows; module Photos has the uploads,   *)
(* drafts, thumbnails and replaced photos.                                 *)
(***************************************************************************)
EXTENDS Integers, FiniteSets

CONSTANTS
  Requests,         \* restores asked for
  Photos,
  Settings,         \* values of settings.backups: [keep, every]
  DefaultSettings,  \* those of an empty collection
  Times,            \* BOUND: readings of the wall clock
  Faults,           \* what may go wrong: "stop", "move", "mkdir", "write", "sync"
  None              \* no file, no folder, backups off

\* validate.rs keeps keep between 1 and 365.
ASSUME SettingsAssumption ==
  /\ DefaultSettings \in Settings
  /\ Settings \subseteq [keep : Nat \ {0}, every : Nat \cup {None}]
ASSUME TimesAssumption == Times \subseteq Nat

Collection == [photos : SUBSET Photos, settings : Settings]

ASSUME NoneAssumption ==
  /\ \A folder \in SUBSET Photos : folder # None
  /\ \A collection \in Collection : collection # None

\* backups/auto/auto-<at>.zip: a collection and its photos.
Backup == [at : Times, holds : Collection]

VARIABLES
  file,      \* inkubator.json
  images,    \* what is in images/
  stranded,  \* the photos in .images-old-* folders that no restore will come back to
  autos,     \* backups/auto/
  now,       \* the wall clock
  pc, zip,   \* each restore's next step and the checked backup in its stage
  base,      \* the collection its client had loaded
  old        \* its own .images-old-* folder

vars == <<file, images, stranded, autos, now, pc, zip, base, old>>

\* With the store's mutex.
Inside == {"saved", "moved", "swapped", "failed", "written"}

TypeOK ==
  /\ file \in Collection \cup {None}
  /\ images \in {None} \cup SUBSET Photos
  /\ stranded \subseteq Photos
  /\ autos \subseteq Backup
  /\ now \in Times
  /\ pc \in [Requests -> {"idle", "asked"} \cup Inside]
  /\ zip \in [Requests -> Collection \cup {None}]
  /\ base \in [Requests -> Collection \cup {None}]
  /\ old \in [Requests -> {None} \cup SUBSET Photos]
  \* Files are named by their time, and the mutex has one holder.
  /\ \A b, c \in autos : b.at = c.at => b = c
  /\ \A r, q \in Requests : pc[r] \in Inside /\ pc[q] \in Inside => r = q

Init ==
  /\ file = None
  /\ images = {}
  /\ stranded = {}
  /\ autos = {}
  /\ now \in Times
  /\ pc = [r \in Requests |-> "idle"]
  /\ zip = [r \in Requests |-> None]
  /\ base = [r \in Requests |-> None]
  /\ old = [r \in Requests |-> None]

-----------------------------------------------------------------------------
(* Between restores.                                                       *)

\* VARIANT: nobody waits.
NobodyWaits == TRUE

MutexFree == \A r \in Requests : pc[r] \notin Inside

\* A folder with no collection yet yields an empty one.
Stored == IF file = None THEN [photos |-> {}, settings |-> DefaultSettings] ELSE file

requests == <<pc, zip, base, old>>

\* An item's photo is uploaded and the item saved.
AddPhoto(p) ==
  /\ MutexFree
  /\ images # None
  /\ p \notin images
  /\ images' = images \cup {p}
  /\ file' = [Stored EXCEPT !.photos = @ \cup {p}]
  /\ UNCHANGED <<stranded, autos, now, requests>>

\* It is removed, and retired.
RemovePhoto(p) ==
  /\ MutexFree
  /\ p \in Stored.photos
  /\ file' = [Stored EXCEPT !.photos = @ \ {p}]
  /\ images' = IF images = None THEN None ELSE images \ {p}
  /\ UNCHANGED <<stranded, autos, now, requests>>

UpdateSettings(s) ==
  /\ MutexFree
  /\ file' = [Stored EXCEPT !.settings = s]
  /\ UNCHANGED <<images, stranded, autos, now, requests>>

\* write_backup fails with MissingPhoto otherwise.
CanBackUp == \A p \in Stored.photos : images # None /\ p \in images

\* auto-<now>.zip is put in place of one of that name.
WithBackup == {b \in autos : b.at # now} \cup {[at |-> now, holds |-> Stored]}

\* The clock may be set back as well.
Tick ==
  /\ now' \in Times
  /\ UNCHANGED <<file, images, stranded, autos, requests>>

\* VARIANT: only the latest backup's distance counts, whichever side it is on.
DueEitherSide ==
  \A b \in autos : now - b.at >= Stored.settings.every \/ b.at - now >= Stored.settings.every

\* The latest backup is at least an interval old.
Due == \A b \in autos : now - b.at >= Stored.settings.every

\* VARIANT: the list is taken to be oldest first.
ExcessFromTheOtherEnd(backups, keep) ==
  {b \in backups : Cardinality({c \in backups : c.at < b.at}) >= keep}

\* All but the newest `keep`.
Excess(backups, keep) ==
  {b \in backups : Cardinality({c \in backups : c.at > b.at}) >= keep}

\* auto_backup_if_due, every hour and at start.  A backup that cannot be deleted
\* is left for the next time.
ScheduledBackup ==
  /\ MutexFree
  /\ file # None
  /\ file.settings.every # None
  /\ Due
  /\ CanBackUp
  /\ \E gone \in SUBSET Excess(WithBackup, file.settings.keep) : autos' = WithBackup \ gone
  /\ UNCHANGED <<file, images, stranded, now, requests>>

-----------------------------------------------------------------------------
(* Restoring.                                                              *)

\* The owner chooses a backup, an automatic one, one they exported or one from
\* another computer; it is uploaded, extracted into the stage and checked there,
\* all without the mutex.
Ask(r) ==
  /\ pc[r] = "idle"
  /\ \E backup \in Collection : zip' = [zip EXCEPT ![r] = backup]
  /\ base' = [base EXCEPT ![r] = file]
  /\ pc' = [pc EXCEPT ![r] = "asked"]
  /\ UNCHANGED <<file, images, stranded, autos, now, old>>

\* What a restore leaves when it is answered, well or not.
Answer(r) ==
  /\ pc' = [pc EXCEPT ![r] = "idle"]
  /\ zip' = [zip EXCEPT ![r] = None]
  /\ base' = [base EXCEPT ![r] = None]
  /\ old' = [old EXCEPT ![r] = None]

\* A conflict, a photo missing from the folder, or an error before the swap.
Refuse(r) ==
  /\ pc[r] = "asked" \/ pc[r] = "saved"
  /\ Answer(r)
  /\ UNCHANGED <<file, images, stranded, autos, now>>

\* VARIANT: any window may restore.
AnyRevision(r) == TRUE

SameRevision(r) == base[r] = file

\* VARIANT: no backup first.
NothingSaved == UNCHANGED autos

\* The current state as a backup, if there is one.
StateSaved == autos' = IF file = None THEN autos ELSE WithBackup

SaveFirst(r) ==
  /\ pc[r] = "asked"
  /\ MutexFree
  /\ SameRevision(r)
  /\ file # None => CanBackUp
  /\ StateSaved
  /\ pc' = [pc EXCEPT ![r] = "saved"]
  /\ UNCHANGED <<file, images, stranded, now, zip, base, old>>

MoveOut(r) ==
  /\ pc[r] = "saved"
  /\ images # None
  /\ old' = [old EXCEPT ![r] = images]
  /\ images' = None
  /\ pc' = [pc EXCEPT ![r] = "moved"]
  /\ UNCHANGED <<file, stranded, autos, now, zip, base>>

\* The photo folder of a backup without photos has to be created.  An error there
\* returns at once, with the old folder moved away.
CreateFails(r) ==
  /\ "mkdir" \in Faults
  /\ pc[r] = "moved"
  /\ zip[r].photos = {}
  /\ stranded' = stranded \cup old[r]
  /\ Answer(r)
  /\ UNCHANGED <<file, images, autos, now>>

\* VARIANT: the backup's photos join those of the old folder.
MergedIn(r) == zip[r].photos \cup old[r]

MovedIn(r) == zip[r].photos

MoveIn(r) ==
  /\ pc[r] = "moved"
  /\ images' = MovedIn(r)
  /\ pc' = [pc EXCEPT ![r] = "swapped"]
  /\ UNCHANGED <<file, stranded, autos, now, zip, base, old>>

MoveInFails(r) ==
  /\ "move" \in Faults
  /\ pc[r] = "moved"
  /\ pc' = [pc EXCEPT ![r] = "failed"]
  /\ UNCHANGED <<file, images, stranded, autos, now, zip, base, old>>

Write(r) ==
  /\ pc[r] = "swapped"
  /\ file' = zip[r]
  /\ pc' = [pc EXCEPT ![r] = "written"]
  /\ UNCHANGED <<images, stranded, autos, now, zip, base, old>>

\* atomic_write fails before its rename ("write") or after it ("sync"); either way
\* the new photos are deleted, as far as that goes.
WriteFails(r) ==
  /\ pc[r] = "swapped"
  /\ \/ "write" \in Faults /\ file' = file
     \/ "sync" \in Faults /\ file' = zip[r]
  /\ \/ images' = None
     \/ "move" \in Faults /\ images' \in SUBSET zip[r].photos
  /\ pc' = [pc EXCEPT ![r] = "failed"]
  /\ UNCHANGED <<stranded, autos, now, zip, base, old>>

PutBack(r) ==
  /\ pc[r] = "failed"
  /\ images = None
  /\ images' = old[r]
  /\ Answer(r)
  /\ UNCHANGED <<file, stranded, autos, now>>

\* Errors of putting back are ignored: new photos are in the way, or the folder
\* cannot be moved.
PutBackFails(r) ==
  /\ "move" \in Faults
  /\ pc[r] = "failed"
  /\ stranded' = stranded \cup old[r]
  /\ Answer(r)
  /\ UNCHANGED <<file, images, autos, now>>

\* The old folder goes; what cannot be deleted stays behind.
CleanUp(r) ==
  /\ pc[r] = "written"
  /\ \E left \in SUBSET old[r] : stranded' = stranded \cup left
  /\ Answer(r)
  /\ UNCHANGED <<file, images, autos, now>>

\* VARIANT: starting up clears away what restores left.
SweptOnStart == {}

LeftOnStart == stranded \cup UNION {old[r] : r \in {q \in Requests : old[q] # None}}

\* The program stops, and is started again: Store::open recreates images/.
Stop ==
  /\ "stop" \in Faults
  /\ images' = IF images = None THEN {} ELSE images
  /\ stranded' = LeftOnStart
  /\ pc' = [r \in Requests |-> "idle"]
  /\ zip' = [r \in Requests |-> None]
  /\ base' = [r \in Requests |-> None]
  /\ old' = [r \in Requests |-> None]
  /\ UNCHANGED <<file, autos, now>>

-----------------------------------------------------------------------------
RestoreStep(r) ==
  \/ Ask(r) \/ Refuse(r) \/ SaveFirst(r)
  \/ MoveOut(r) \/ CreateFails(r) \/ MoveIn(r) \/ MoveInFails(r)
  \/ Write(r) \/ WriteFails(r) \/ PutBack(r) \/ PutBackFails(r) \/ CleanUp(r)

Next ==
  \/ \E r \in Requests : RestoreStep(r)
  \/ \E p \in Photos : AddPhoto(p) \/ RemovePhoto(p)
  \/ \E s \in Settings : UpdateSettings(s)
  \/ ScheduledBackup \/ Tick \/ Stop

Spec == Init /\ [][Next]_vars

-----------------------------------------------------------------------------
(* Properties.                                                             *)

InImages == IF images = None THEN {} ELSE images

\* The photos a restore would put back: those it moved out of the way, until the
\* collection is written.
Underway == {"moved", "swapped", "failed"}

Beheld ==
  IF \E r \in Requests : pc[r] \in Underway
    THEN old[CHOOSE r \in Requests : pc[r] \in Underway] ELSE InImages

Folder == INSTANCE DataFolder WITH
  Contents <- Collection,
  Mishaps <- Faults \cap {"stop", "move", "mkdir"} # {},
  collection <- file,
  photos <- Beheld,
  backups <- {b.holds : b \in autos},
  aside <- stranded

\* A restore replaces the collection and its photos in one step or changes
\* neither, for whoever comes after it: as module DataFolder says.  The swap is
\* eight steps, of which five can fail.
ImplementsDataFolder == Folder!Spec

\* Every photo the collection references is on the disk, whatever step a restore
\* is at, failed at or was stopped at: in images/, or in the folder moved aside.
\* Not so if the directory cannot be synced after the collection's rename: see
\* the README.
PhotosAreSomewhere ==
  \A p \in Stored.photos :
    p \in InImages \/ p \in stranded \/ \E r \in Requests : old[r] # None /\ p \in old[r]

\* A restore replaces only what the window that asked for it had loaded, and of
\* which there is a backup to restore: although it reads and checks a whole backup
\* in between, and also when two restores, a schedule and other changes run at once.
ReplacedIsSeenAndSaved ==
  [][\A r \in Requests :
       pc[r] = "swapped" /\ file' # file =>
         /\ file = base[r]
         /\ file # None => \E b \in autos : b.holds = file]_vars

\* An automatic backup goes only when as many newer ones as the owner keeps are
\* there, or one made in the same millisecond; wherever the clock was set to, and
\* whichever settings a restore brought along.
PrunedOnlyForNewer ==
  [][\A b \in autos :
       \/ \E c \in autos' : c.at = b.at
       \/ Cardinality({c \in autos' : c.at > b.at}) >= Stored.settings.keep]_vars

\* "The current state is saved as a backup first, so a restore can always be
\* undone" (backup.rs:12-13): restoring that backup is possible, which the photos
\* of the collection as it is then must be in place for.  It does not hold when
\* the program stops during a restore: see the README.
UndoIsPossible == MutexFree => CanBackUp
=============================================================================
