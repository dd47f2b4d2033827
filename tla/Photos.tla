-------------------------------- MODULE Photos --------------------------------
(***************************************************************************)
(* Photos from upload to retirement: crates/core/src/photos.rs, the        *)
(* handlers of crates/server/src/lib.rs that use it, and the editors of    *)
(* the web client that hold a draft meanwhile.  Changes take turns on the  *)
(* store's mutex (module Store), so an action is one locked stretch; what  *)
(* comes between is what this module is about: run_command saves and then  *)
(* retires in two stretches, a thumbnail is made from a photo read before  *)
(* the mutex is taken, and an editor keeps its draft for as long as it     *)
(* likes while others save, delete and restore.                            *)
(*                                                                         *)
(* All uploads are for items of one name, so they compete for the same     *)
(* file names: path n is <stem>.webp, <stem>-2.webp and so on.             *)
(***************************************************************************)
EXTENDS Integers, FiniteSets

CONSTANTS
  Clients,      \* browser windows of the owner
  Viewers,      \* requests for thumbnails
  Pictures,     \* what a photo may show
  MaxPath,      \* BOUND: the last free name tried
  MaxCopies,    \* BOUND: the last free name tried in replaced-photos/
  None          \* no file, no draft

ASSUME PathAssumption == MaxPath \in Nat /\ MaxCopies \in Nat
ASSUME NoneAssumption == None \notin Pictures

Paths == 1..MaxPath
Files == [Paths -> Pictures \cup {None}]

\* What a file in replaced-photos/ was called and shows; copy n is <name>-n.webp.
Archived == [path : Paths, copy : 1..MaxCopies, shows : Pictures]

\* The item's photos, and settings.backups.keep_replaced_photos.  Another
\* collection has another revision.
Collection == [photos : SUBSET Paths, keep : BOOLEAN]

VARIABLES
  collection, images, thumbs, replaced,   \* the data folder
  backup,     \* a backup the owner has at hand
  loaded,     \* the collection each client last loaded
  draft,      \* the photos in each client's open editor
  tidying,    \* after a client's save: what run_command is about to retire
  making      \* the thumbnail each viewer is waiting for

folder == <<collection, images, thumbs, replaced>>
vars == <<collection, images, thumbs, replaced, backup, loaded, draft, tidying, making>>

TypeOK ==
  /\ collection \in Collection
  /\ images \in Files
  /\ thumbs \in Files
  /\ replaced \subseteq Archived
  /\ backup \in {None} \cup [collection : Collection, images : Files, replaced : SUBSET Archived]
  /\ loaded \in [Clients -> Collection]
  /\ draft \in [Clients -> {None} \cup SUBSET Paths]
  /\ tidying \in [Clients -> {None} \cup [paths : SUBSET Paths, keep : BOOLEAN]]
  /\ making \in [Viewers -> {None} \cup [path : Paths, shows : Pictures]]
  \* A backup holds every photo its collection references.
  /\ backup # None => \A p \in backup.collection.photos : backup.images[p] # None

NoFiles == [p \in Paths |-> None]

Init ==
  /\ collection = [photos |-> {}, keep |-> FALSE]
  /\ images = NoFiles
  /\ thumbs = NoFiles
  /\ replaced = {}
  /\ backup = None
  /\ loaded = [c \in Clients |-> collection]
  /\ draft = [c \in Clients |-> None]
  /\ tidying = [c \in Clients |-> None]
  /\ making = [v \in Viewers |-> None]

-----------------------------------------------------------------------------
(* Uploading.                                                              *)

\* VARIANT: only the names in the collection are taken to be in use.
UnusedInCollection(p) == p \notin collection.photos

Unused(p) == images[p] = None /\ thumbs[p] = None

FirstUnused(p) == Unused(p) /\ \A q \in Paths : q < p => ~ Unused(q)

\* add_photo; the client puts the path it is given in its draft.
Upload(c, picture, p) ==
  /\ draft[c] # None
  /\ FirstUnused(p)
  /\ images' = [images EXCEPT ![p] = picture]
  /\ thumbs' = [thumbs EXCEPT ![p] = picture]
  /\ draft' = [draft EXCEPT ![c] = @ \cup {p}]
  /\ UNCHANGED <<collection, replaced, backup, loaded, tidying, making>>

\* The program stops, and with it every request it was serving.
Stop ==
  /\ tidying' = [c \in Clients |-> None]
  /\ making' = [v \in Viewers |-> None]
  /\ UNCHANGED <<collection, replaced, thumbs, backup, loaded, draft>>

\* ... between two requests' steps, or between a photo and its thumbnail.
Crash == Stop /\ UNCHANGED images

UploadCutShort(c, picture, p) ==
  /\ draft[c] # None
  /\ FirstUnused(p)
  /\ images' = [images EXCEPT ![p] = picture]
  /\ Stop

-----------------------------------------------------------------------------
(* Editing: PenEditor, InkEditor, SwatchEditor and the collection store.   *)

OpenEditor(c) ==
  /\ draft[c] = None
  /\ draft' = [draft EXCEPT ![c] = loaded[c].photos]
  /\ UNCHANGED <<folder, backup, loaded, tidying, making>>

RemoveFromDraft(c, p) ==
  /\ draft[c] # None
  /\ p \in draft[c]
  /\ draft' = [draft EXCEPT ![c] = @ \ {p}]
  /\ UNCHANGED <<folder, backup, loaded, tidying, making>>

CloseEditor(c) ==
  /\ draft[c] # None
  /\ draft' = [draft EXCEPT ![c] = None]
  /\ UNCHANGED <<folder, backup, loaded, tidying, making>>

\* The client's collection is replaced, at any time or after a conflict; an
\* open editor keeps its draft.
Load(c) ==
  /\ loaded' = [loaded EXCEPT ![c] = collection]
  /\ UNCHANGED <<folder, backup, draft, tidying, making>>

\* Store::apply: the revision must be the stored one; what no item references
\* any more is Outcome.unused_images.
Apply(c, new) ==
  /\ tidying[c] = None
  /\ loaded[c] = collection
  /\ collection' = new
  /\ loaded' = [loaded EXCEPT ![c] = new]
  /\ tidying' = [tidying EXCEPT ![c] =
       [paths |-> collection.photos \ new.photos, keep |-> new.keep]]
  /\ UNCHANGED <<images, thumbs, replaced, backup, making>>

Save(c) ==
  /\ draft[c] # None
  /\ Apply(c, [collection EXCEPT !.photos = draft[c]])
  /\ draft' = [draft EXCEPT ![c] = None]

\* Deleting the item, and its photos with it.
Delete(c) ==
  /\ draft[c] = None
  /\ Apply(c, [collection EXCEPT !.photos = {}])
  /\ UNCHANGED draft

UpdateSettings(c) ==
  /\ draft[c] = None
  /\ \E keep \in BOOLEAN : Apply(c, [collection EXCEPT !.keep = keep])
  /\ UNCHANGED draft

-----------------------------------------------------------------------------
(* Retiring: the second half of run_command.                               *)

\* VARIANT: the collection is not read again; what the save left unused goes.
AllTidied(c) == tidying[c].paths

Retired(c) == tidying[c].paths \ collection.photos

\* VARIANT: a file of that name in replaced-photos/ is replaced.
FirstName(p, n) == n = 1

FreeCopy(p, n) ==
  LET used == {a.copy : a \in {b \in replaced : b.path = p}}
  IN n \notin used /\ \A m \in 1..MaxCopies : m < n => m \in used

\* What is moved to replaced-photos/ when the photos at D are retired.
Moved(D) ==
  {a \in Archived : a.path \in D /\ a.shows = images[a.path] /\ FreeCopy(a.path, a.copy)}

\* retire_photos is one locked stretch.  It ends at the first error, which
\* run_command swallows: D are the photos that went by then, T those whose
\* thumbnail went.
Retire(c) ==
  /\ tidying[c] # None
  /\ \E T \in SUBSET Retired(c) : \E D \in SUBSET T :
       /\ Cardinality(T \ D) <= 1
       /\ thumbs' = [p \in Paths |-> IF p \in T THEN None ELSE thumbs[p]]
       /\ images' = [p \in Paths |-> IF p \in D THEN None ELSE images[p]]
       /\ IF tidying[c].keep
            THEN /\ \A p \in D : images[p] # None => \E n \in 1..MaxCopies : FreeCopy(p, n)
                 /\ replaced' = Moved(D) \cup
                      {a \in replaced : \A m \in Moved(D) : m.path # a.path \/ m.copy # a.copy}
            ELSE UNCHANGED replaced
  /\ tidying' = [tidying EXCEPT ![c] = None]
  /\ UNCHANGED <<collection, backup, loaded, draft, making>>

-----------------------------------------------------------------------------
(* Thumbnails: thumbnail_file.                                             *)

\* The photo is read and scaled down without the mutex.
ReadForThumb(v, p) ==
  /\ making[v] = None
  /\ images[p] # None
  /\ thumbs[p] = None
  /\ making' = [making EXCEPT ![v] = [path |-> p, shows |-> images[p]]]
  /\ UNCHANGED <<folder, backup, loaded, draft, tidying>>

WriteThumb(v) ==
  /\ making[v] # None
  /\ thumbs' = [thumbs EXCEPT ![making[v].path] = making[v].shows]
  /\ making' = [making EXCEPT ![v] = None]
  /\ UNCHANGED <<collection, images, replaced, backup, loaded, draft, tidying>>

-----------------------------------------------------------------------------
(* Backups, each one locked stretch; what a restore does in between, and   *)
(* what a crash leaves of it, is module Restore.                           *)

\* VARIANT: a missing photo is left out of the backup.
SkipMissing == TRUE

\* write_backup fails with MissingPhoto otherwise.
CanBackUp == \A p \in collection.photos : images[p] # None

BackupOfNow ==
  [collection |-> collection,
   images |-> [p \in Paths |-> IF p \in collection.photos THEN images[p] ELSE None],
   replaced |-> IF collection.keep THEN replaced ELSE {}]

MakeBackup ==
  /\ CanBackUp
  /\ backup' = BackupOfNow
  /\ UNCHANGED <<folder, loaded, draft, tidying, making>>

\* Settings: with the client's revision; the safety backup comes first, and is
\* at hand from then on too.
Restore(c) ==
  /\ draft[c] = None
  /\ backup # None
  /\ loaded[c] = collection
  /\ CanBackUp
  /\ collection' = backup.collection
  /\ images' = backup.images
  /\ thumbs' = NoFiles
  /\ replaced' = IF backup.replaced # {} THEN backup.replaced ELSE replaced
  /\ loaded' = [loaded EXCEPT ![c] = backup.collection]
  /\ backup' \in {backup, BackupOfNow}
  /\ UNCHANGED <<draft, tidying, making>>

-----------------------------------------------------------------------------
Edit(c) ==
  \/ OpenEditor(c) \/ CloseEditor(c) \/ Load(c)
  \/ \E p \in Paths : RemoveFromDraft(c, p)
  \/ \E picture \in Pictures, p \in Paths : Upload(c, picture, p) \/ UploadCutShort(c, picture, p)

Change(c) == Save(c) \/ Delete(c) \/ UpdateSettings(c) \/ Retire(c) \/ Restore(c)

Next ==
  \/ \E c \in Clients : Edit(c) \/ Change(c)
  \/ \E v \in Viewers : WriteThumb(v) \/ \E p \in Paths : ReadForThumb(v, p)
  \/ MakeBackup \/ Crash

Spec == Init /\ [][Next]_vars

-----------------------------------------------------------------------------
(* Properties.                                                             *)

\* A photo in use stays: as long as an item references it nothing takes its
\* file away, neither a restore nor a retirement that was decided before a later
\* edit took the photo up again.
PhotosInUseStay ==
  [][\A p \in collection.photos \cap collection'.photos :
       images[p] # None => images'[p] # None]_vars

\* A file keeps showing what was uploaded, also while it is only in somebody's
\* draft: uploads of one name at the same time do not overwrite each other.
\* Only a restore puts another picture in a file's place.
UploadsDoNotCollide ==
  [][\A p \in Paths :
       \/ images[p] = None \/ images'[p] \in {None, images[p]}
       \/ \E c \in Clients : Restore(c)]_vars

\* With "Keep replaced photos" on, a photo set aside stays: one of the same name
\* retired later does not take its place.
SetAsideIsKept ==
  [][replaced \subseteq replaced' \/ \E c \in Clients : Restore(c)]_vars

\* "The thumbnail of a stored photo" (photos.rs:194) shows that photo.  It does
\* not hold: see the README.
ThumbnailsShowTheirPhoto ==
  \A p \in Paths : images[p] # None /\ thumbs[p] # None => thumbs[p] = images[p]

\* "Inkubator makes backups by itself, and you can make one whenever you like"
\* (docs/backups.md:4).  It does not hold: see the README.
BackupIsAlwaysPossible == CanBackUp
=============================================================================
