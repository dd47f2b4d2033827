# Inkubator in TLA+

Models, checks and proofs of the program in `src/`: Inkubator 3.0, which keeps
one owner's collection of pens, inks and swatches, and the history of which ink
was in which pen. A Rust library (`crates/core`) stores the collection and its
photos in a data folder, a server (`crates/server`) offers it over HTTP, and a
web client (`web/`) edits it.

Every definition is translated from the code; `PROJECT.json` says from which
lines. This document says what the parts are, which module stands for which
part, what the checks and the proofs show, and what is left out.

## 1. The system

| Part | State | Operations | What makes it hard |
|---|---|---|---|
| **Collection** (`commands.rs`, `retention.rs`, `validate.rs`, `model.rs`) | pens, inks, swatches, fills, activity, settings | ten commands; pruning and validation after each | dates come from the client and are not in order; undo finds what to reverse by date; pruning may take what undo needs |
| **Store** (`storage.rs`) | `inkubator.json`, the folder's claim, per program a mutex and a copy in memory | open, load, save, apply | threads and programs interleave; writes fail before or after their rename; power loss |
| **Photos** (`photos.rs`) | `images/`, `images/.thumbs/`, `replaced-photos/` | upload, thumbnail on demand, retire | a change and the tidying after it are two steps; names are reused; drafts in browsers hold photos no collection knows |
| **Backups** (`backup.rs`) | `backups/auto/`, a stage and an old photo folder while restoring | back up, schedule and prune, restore | a restore is a sequence of file operations that can fail or stop anywhere; the clock names the files |
| **Update check** (`server/src/lib.rs`, `updates.rs`) | when GitHub was last asked, what was found | ask or reuse | requests wait for each other across an await and can be dropped in it |
| **API handlers** (`server/src/lib.rs`) | none of their own | each calls the parts above on a blocking thread | `run_command` saves and retires in two locked stretches |
| **Web client** (`stores/collection.svelte.ts`, `App.svelte`, the editors) | the loaded collection and revision, drafts | load, save, edit, restore, sign in and out | a draft outlives reloads and other windows' changes; answers can overtake each other |
| **Sign-in** (`auth.rs`, `password.rs`, `config.rs`) | `password.json`, sessions and failures per address in memory | log in, log out, lock out, set the password, start and stop | check, verify and count are separate steps; restarts forget; time |
| **Showcase** (`public.rs`) | none | project the collection for visitors | which parts follow which settings; a limit on what is left |
| **2.x import** (`import_v2.rs`, `main.rs`) | the new folder's collection and photos | convert a 2.x folder, copy photos, save | old data that contradicts itself; failure half-way |

Others, without behaviour of interest here: downloads of photos from links
(`remote.rs`), image coding (`images.rs`), the rest of the configuration,
static files, and the client's views (sorting, filters, statistics, search).

How they interact: handlers run library calls on blocking threads; every change
takes the store's mutex (`Store::lock`), reads are served from the copy in
memory without it. A change names the revision its window had loaded and is
refused with a conflict when the stored one differs. After a change, the
handler retires the photos that the change left unused. An hourly task makes
scheduled backups. A restore replaces photos and collection under the mutex. The
client keeps collection and revision, and editors copy items into drafts. All but
the showcase's routes pass `require_admin` first. The importer is another
program on the same folder; the file lock keeps it and the server apart.

What makes each part correct:

- *Collection*: a pen's fills are a timeline with at most its last one open;
  what a command accepts is valid; the ink in a pen is never forgotten; finished
  fills are explained by the activity; undo gives back what the change took.
- *Store*: one atomic value; no lost updates; an acknowledged change survives;
  readers see the file; every request ends.
- *Photos*: a photo in use is never deleted; uploads do not overwrite each
  other; kept photos stay; thumbnails show their photo.
- *Backups*: the collection's photos survive any failed or stopped restore; what
  a restore replaces is backed up and can be restored; pruning only takes what
  newer backups make up for.
- *Update check*: GitHub is asked seldom enough, and what was found is not lost.
- *Sign-in*: whoever is let in typed the password in force; guesses are limited;
  sessions and lockouts end; the password is not lost.
- *Showcase*: what the owner hides makes no difference to what a visitor is told.
- *2.x import*: what comes out is valid and says of each pen what 2.x said, and no
  import, finished or not, costs a collection its photos.
- *Web client*: a window overwrites only what it has shown, and changes only what
  its user changed.

## 2. The modules

| Module | What it is |
|---|---|
| `Collection` | commands, retention, validation |
| `AtomicStore` | what the store promises |
| `Store` | how it does it; refines `AtomicStore` |
| `Photos` | photos, the handlers around them, windows with drafts |
| `DataFolder` | what a folder promises the owner who restores |
| `Restore` | scheduled backups and restoring; refines `DataFolder` |
| `Updates` | the update check |
| `Sessions` | sign-in, sessions, lockout, the password and restarts |
| `Showcase` | the public projection, as operators on a collection |
| `Import` | the conversion of 2.x data, the importer and the program on one folder; uses `Showcase` |
| `WebClient` | windows, their requests, and the answers on their way back |
| `MC*` | instances for TLC: settings to choose from, symmetry |
| `*Proofs` | theorems about the module named |

How they fit together: `Collection` is what one `Store::apply` does to the
content, `Store` is what it does to file, memory and threads, with the content
reduced to the set of commands that made it. `Photos` and `Restore` take from
`Store` that changes take turns and that a change needs the current revision
(`ImplementsAtomicStore`): an action of theirs is one stretch with the mutex
held, or one step of such a stretch where a failure or a stop inside matters
(all of `Restore`). `Photos` treats a restore as one step, which `Restore` justifies
(`ImplementsDataFolder`), and `Restore` treats an edit as one step. `WebClient` is the composition of the client with what it may
assume of the server: a store that takes a change for the current revision only
(`AtomicStore`), sessions that may end, or begin elsewhere, at any moment (`Sessions`), and the
projection for visitors (`Showcase`), with the collection reduced to the values of
its parts. `Import` composes conversion, importer, program and showcase on one
folder.

Definitions marked `VARIANT` in the modules are not the code. Each is a slip the
code could have had; with the definition after it replaced by the variant, the
property that `PROJECT.json` names for it fails. No other definition uses them.

### Collection

`pens`, `inks`: the ids present. `swatches`: id and ink. `fills` and `activity`
are `Vec`s in the code whose order matters (undo takes the first fill that
matches, and the last entry); here they are sets of records with a rank `seq`.
`push` gives the rank above all others, `retain` and `remove` keep ranks, so
first and last are least and greatest rank. `settings` is `settings.activity`.

One action is one successful `Store::apply`: the command, `apply_retention`,
`validate`. `Finish` is what they share: it prunes with the *new* settings and
has the conjunct `Valid'`. A refused command, by its own check or by validation,
changes nothing and is an action that is not enabled. The optional `at` of a command
is any of `Times`, which are integers like the `i64` in the code, so that a date
before 1970 is negative; "now when none is given" is among them. The server's clock
`now` is any of those in `Clock` for each command, none of them negative
(`lib.rs:28`): nothing makes the system clock rise.

What items look like is abstracted. `changed` says whether `describe_changes`
finds a difference, which is all the control flow depends on. The times an item was
created and updated at are left out with the rest of it, and with them one way for a
save to be refused: with the clock set back to before the item's creation,
`updated_at` is earlier than `created_at` (`commands.rs:404`, `validate.rs:216`).
`Init` is the
empty collection of a new folder. `Brought` is any collection that a restore, an
import or the file at start can bring: it passes validation, which looks at dates
and leaves the order of the `Vec`s and the activity open. `BroughtSpec` goes on
from there.

### Store and AtomicStore

`open` is the set of programs holding `.inkubator.lock`; `changing` and
`current` are `Shared.changing` and `Shared.current` of each; `file` is
`inkubator.json` as programs see it and `survivors` what it may be after a power
loss: `Rename` adds the new content, `SyncDir` leaves only it. `pc`, `prog`,
`base` are each request's place, program and revision; `shown` is what clients
were given, from where they take revisions.

Steps are cut where another thread or a crash can come between: waiting for and
taking the mutex (`Acquire`), looking at the shared copy without it
(`ReadCurrent`, `FindNoCurrent`), loading and checking (`Check`), the rename
(`Rename`), the folder's sync and the new shared copy (`Finish`), the answer
(`Answer`). Every I/O step can fail (`ReadFileFails`, `LoadFails`, `StageFails`,
`SyncFails`), a program can be killed (`Kill`), the machine can lose power
(`PowerLoss`). `Check` may also refuse a command whose revision is current
(`"refused"`): the command's own errors and `validate`.

A collection is the set of commands that made it, so that two contents are equal
when their revisions are. Ignored: revisions of different contents never
collide (a 128-bit FNV hash), and a client does not name a revision it was never
given. Staged temporary files are synced before their rename and read by
nobody, so they are not tracked. A sync that failed and is repeated by a later
write is taken to have worked then. `ReplaceFileW` and the missing directory
sync of Windows are not modelled.

`AtomicStore` has one value, changed in one step from exactly the value the
command names. A crash may take back unacknowledged changes, nothing else. The
mapping: `value` is the shared copy of the open program when there is one, else
the file (so a change takes effect, for everyone, when the copy follows the
file), and `outcome` forgets where inside `apply` a command is.

### Photos

One name for uploads, so they all compete for the same files: path `n` is
`<stem>-n.webp`. `images` and `thumbs` say what each file shows, `replaced` is
`replaced-photos/`, `collection` the referenced paths and the setting "Keep
replaced photos". A window (`Clients`) has `loaded`, what it last loaded, and
`draft`, its editor's photos. `tidying` is a saved change whose photos
`run_command` has yet to retire, `making` a thumbnail that has been scaled down and not
yet written. `backup` is one backup at hand; which one matters only to `Restore`.

`Retire` includes the swallowed error: `retire_photos` stops at the first failing
operation, with some photos gone and at most one thumbnail deleted without its
photo. `UploadCutShort` is a stop between photo and thumbnail. Editors are
modal, so a window does not delete, change settings or restore while one is
open; reloads keep the draft, as the code does.

### Restore

`file` is `inkubator.json`, `images` the photos in `images/` or `None` while the
folder is moved away, `old` each restore's `.images-old-*`, `stranded` the photos
in such folders that nobody will come back to. `autos` are the files of
`backups/auto/`, scheduled and safety backups alike, named by the clock `now`,
which can be set to anything. `zip` and `base` are a restore's checked backup and the
collection its window had loaded.

Steps: `Ask` (upload, extract, check: without the mutex), `SaveFirst` (revision,
safety backup), `MoveOut`, `MoveIn`, `Write`, `CleanUp`, and the error paths
`CreateFails`, `MoveInFails`, `WriteFails`, `PutBack`, `PutBackFails`, with
exactly the clean-up the code does in each. `Stop` ends the program anywhere and
starts it again (`Store::open` creates an empty `images/` if there is none).
`Faults` says which of these an instance has. The restored zip is any valid
backup: owners keep exports, and restore them on other computers.

`DataFolder` is what `backup.rs` says of itself: collection and photos are replaced in
one step (`Replace`), when there is a backup of what they replace. The mapping,
`Beheld`: while a restore is between moving the photos out and writing the
collection, the folder's photos are those it moved away, as it would put them
back; the write is the step that replaces both. A stop, or a folder that cannot be
created or moved, may leave photos aside (`Mishap`, only if `Faults` has one of
these), and a folder that cannot be deleted does (`Litter`).

A photo is its path together with what it shows. Contents that were not synced when
power is lost are not modelled (the code does not sync extracted photos: listed
as a hazard).

### Updates

Requests wait for `UpdateCheck.last` and hold it while asking: `MutexFree` says
that nobody is asking, which is when the mutex can be taken; the time between
taking it and asking or returning has no await and is one step. `Drop` is a
request whose future is dropped at an await, with the mutex. `Instant` and wall
clock are one clock, in hours. `asked` is history, for the properties only.

### Sessions

`credentials` is what the running program accepts (`None` while it is stopped),
`sessions` and `failures` the two maps of `auth.rs`, `file` is `password.json`,
`setting` a password that `set-password` has written to the temporary file and
not renamed. `signin` is where each browser's sign-in is: `login` takes the lock
of the failures (`Attempt`, `Refuse`), checks the password on a blocking thread
(`Check`), and takes a lock for each of `record_failure`, `clear_failures` and
`create`, and all of these are steps of their own. `GoAway` drops the handler at
its await. Instants are ages, raised by `Elapse` up to where no comparison tells
them apart. `Start` reads the password as `Config::from_lookup` does, from the
environment or the file; `Stop` is any end of the program, and loses both maps
with the next `FreshState`. `typed`, on a session, and `ended` are history. One
`set-password` runs at a time, and `PasswordIsNeverLost` is said of that: the command
takes no lock, and two of them share the temporary file (`password.rs:80`), so that
the second may truncate what the first renames. It is an owner's command typed in a
terminal.

### Showcase

`project` with its filters in the code's order. The sets of items, fills and
entries carry their place `seq` where the code relies on list order (the limit
on recent activity, after a stable sort by time). `showcase` is the set of flags
that are on. `Closed` and `WithoutHidden` belong to the properties: what a view
refers to is in it, and the collection of an owner who never entered what is
hidden.

### Import

`convert` is a function from 2.x folders, `Documents`, to collections; `NewItems`,
`Rebuilt` (fills) and `NewActivity` follow `Context::pen`, `ink`, `swatch`,
`images`, `fills` and `activity`. The code folds over lists and keeps maps of
what is open; here the same is said of sets whose elements know their place: the
change that ends a fill is the pen's next one, the current ink is the last
usable entry of the list of inked pens. `claim`, `stored` and `images` are the
new folder; `old`, `job` and `todo` the importer's. `OpenFolder` to `Save` are the
steps of `import`, `CopyFails`, `SaveFails` and `Kill` its ends. Before and after,
the program may have the folder: `SaveSettings`, `SavePen` and `AddInk` stand
for the owner's changes, each with the entry it records, pruning and validation
as in `Store::apply`, so that an imported collection is shown, pruned and edited.

Left out: texts, colours, prices, the times an item was created and updated,
and whether an activity entry's id is new. One consequence is a hazard without a
property: filling systems that differ only in the case of a letter outside
ASCII pass the importer (`import_v2.rs:1025`) and not validation
(`validate.rs:110`), and the import fails after its photos were copied. An
imported history need not be explained by the imported activity, so
`FinishedFillsAreRecorded` is about collections begun in 3.0.

### WebClient

`mode`, `data` and `revision` are the fields of `CollectionStore` in each window,
`requests` and `answers` what is on its way, in no order. `acts` counts what
people do, for the bound. A revision is the collection it is the hash of. A
change replaces the parts it names (`Save`: one item of a draft; `UpdateSettings`:
all settings, cloned from the screen; `RestoreBackup`: everything) and carries the
revision on screen. `Handle` is one request at the server, `Arrive` one answer in
the window: `Take`, `TakeVisible`, `Reload` after a conflict, `FallBack` when the
session has ended. `SessionChanges` is what happens to a window's session elsewhere:
it expires, or another window with the same cookie signs out or in. Requests fail and answers are lost at any time (`Fail`,
`LoseAnswer`). `seen` and `meant` are history.

An editor's draft is any value, and controls that are disabled while a save is
under way are not: windows do more here than the page allows. Two equal requests
of one window under way are one. A reloaded page is a window that has not started.

## 3. What is checked

Twelve runs. The eight passing ones:

| Run | Instance | Shows |
|---|---|---|
| `collection` | 2 pens, 2 inks, 1 swatch, moments 0 to 3, retention of 1 day or for ever, up to 3 ranks | `AcceptedStaysValid`: a command's own checks are enough, an inking, a flush or a deletion leaves fills the validation accepts, except for an inking dated before 1970 of a pen without fills. `UndoIsRefusedForTwoEndsOnly`: so does an undo, unless two fills of the pen ended at the moment of the change. `UndoTakesBackTheChange`: undo at once gives the history as it was. `CurrentInkIsNeverForgotten`: no retention limit, other pen's change or deletion empties a pen. `Chronological`: histories stay timelines. `FinishedFillsAreRecorded`: fills and the entries that explain them are pruned together. `UndoGivesBackTheInk`: undo at any later time gives the ink its entry names. |
| `store` | 2 programs, 3 commands, 1 reader | `ImplementsAtomicStore`, `AnswersHold`, `CopyIsCurrent`, and, with fairness, `EveryCommandEnds`. |
| `photos` | 2 windows, 1 viewer, 2 pictures, 1 path, 2 copies | `PhotosInUseStay`, `UploadsDoNotCollide`, `SetAsideIsKept`. |
| `restore` | 2 restores, 1 photo, clock readings 1 to 3, keep 1 or 2 | `ImplementsDataFolder`: a restore is one step or none, for whoever comes after it. `PhotosAreSomewhere`: wherever it fails or stops, the collection's photos are on the disk. `ReplacedIsSeenAndSaved`, `PrunedOnlyForNewer`. |
| `updates` | 2 requests, intervals 3 and 1, 6 hours | `QuestionsAreSpaced`, `FoundIsKept`. |
| `sessions` | 2 browsers behind one proxy, 2 passwords, 2 tokens, sessions of 2 units, 2 failures in 2 units | `GuessesAreLimited`, `SignedInKnowThePassword`, `SignedOutStaysOut`, `PasswordIsNeverLost`, and, with fairness, `LockoutsAndSessionsEnd`. |
| `import` | 96 folders of two pens, an ink and a swatch with what 2.x data may have wrong, and the histories of one pen with up to 3 log entries and 7 states of the list; 3 photos, 2 contents | `ImportIsValid`: no import fails validation for its ids, photos, ink history or numbers. `PensHoldWhatTheyHeld`, `PhotosAreKept`, `ShowcaseIsClosed`, `HiddenDoesNotShow`. |
| `web_client` | 2 windows, 1 item that is shown, 2 settings, 2 values, 2 messages under way per window, 4 acts | `NothingUnseenIsOverwritten`, `OnlyWhatWasMeant`. |

Each also checks its module's `TypeOK`, which says more than types: in `Store`
and `Restore` that the mutex has one holder, in `Restore` that a name has one
file, in `Photos` that a backup holds the photos its collection references, in
`Updates` that nothing is known from the future. Deadlock is checked in every
run but `web_client`, where nobody is left to do anything once the acts are
used up.

**Bounds.** `Times` has a moment on each side of the retention limit and one on
it, and with 0 one that validation refuses as a date; equal moments are where undo is delicate, and they are allowed. `MaxRank`
bounds the `Vec`s: three ranks are needed for a change, another and its undo. When the bound is reached, only
commands that record nothing remain enabled until undo, pruning or a deletion
frees ranks, so behaviours go on past it. Three commands let one command win, one
lose and one come after a crash; two programs are the server and the importer; one
reader suffices since readers only meet through `current`. One path makes every
upload compete for one name, which is when names are reused soonest; one client
with two paths holds too. `MaxCopies` 2 allows a kept photo to meet one of its name. Two
restores can overtake each other; clock readings 1 to 3 with an interval of 1
and up to 2 backups kept let schedules be due, not due and set back. Six hours
hold two full check intervals. Two browsers at one address are what a
limit per address has to cope with, and let one be signed in while the other signs
out, fails or is locked out; two tokens let a session end while another goes on,
and two units of time are one inside each limit and one at its end. In `import`, three
log entries and an entry of the list of inked pens are one more than any case
`Context::fills` distinguishes; timestamps 1 to 3 let the list be older than,
as old as and newer than the log; one path is in nobody's use and one is shared; the
owner's clock is at 3, which is past some of the history for each retention limit but
"for ever", and an activity limit of 1 cuts whatever there are two of. In
`web_client` a conflict takes two acts of two windows, and an answer that is overtaken two
messages; four acts let a window save, meet a conflict, reload and save again, or
sign out and in around a save. Symmetry is used for model values, and neither in
`store` and `sessions`, which check liveness, nor in `import`, whose documents
tell the values apart.

**Fairness** (`Store`, for `EveryCommandEnds` only). A blocking thread that can
take its next step does (`WF` of each thread's steps): it runs on tokio's blocking
pool, and its steps are a function's. `SF` of `ReadFile`: a disk does not fail
every read for ever. Nothing is assumed of who gets the mutex next, since std's
`Mutex` promises nothing: a command is not overtaken for ever because
commands are finitely many and readers stop taking the mutex once the copy
is in memory. Nothing is assumed of clients, restarts or failing writes.
`Sessions` assumes that time passes while the program runs (`WF` of `Elapse`) and
nothing of the people who sign in: lockouts and sessions end by the clock alone. The
other modules have no liveness properties: what their requests wait for is this
mutex, or a user.

### What does not hold

Four runs end in a counterexample, each to what a comment, a document or a test says.

- **`undo_same_moment`**: `undo_ink_change` reopens the first fill emptied at the
  moment of the change (`commands.rs:291`). Of several changes at one moment
  (the client dates inkings of a past day to noon of that day) that is not the
  one to reopen, an earlier fill is open before a later one, and undo fails with
  an invalid collection. `tests/commands.rs:12`: "a successful command leaves a
  valid collection". It is the only way: `UndoIsRefusedForTwoEndsOnly`.
- **`photos_thumb`**: `thumbnail_file` reads the photo before it takes the mutex;
  a photo of the same name uploaded in between gets the old one's thumbnail for
  good. `photos.rs:194`: "The thumbnail of a stored photo".
- **`backup_possible`**: a photo uploaded into an open editor is deleted by a
  restore in another window, the editor's save references it all the same, and
  from then on every backup and every restore fails with `MissingPhoto`.
  `docs/backups.md:4-5`: "you can make one whenever you like".
- **`restore_stopped`**: the program stops after `images/` was moved away and
  before the collection is written. Nothing moves the folder back; the old
  collection's photos are missing, so no backup can be made, and no restore,
  which begins with one. `backup.rs:12-13`: "so a restore can always be undone".
  With a failing write as the only fault `UndoIsPossible` holds (`UndoCanBeDone`);
  each of the other faults breaks it.

One more is known and excluded: if the *directory sync* after the collection's
rename fails (`storage.rs:359`), `restore_from_stage` takes the write to have failed,
deletes the new photos and puts the old ones back, under the new collection.
With `"sync"` among the `Faults` of `MCRestore.cfg`, `PhotosAreSomewhere` and
`ImplementsDataFolder` fail. The run leaves it out, and `NoPhotoIsLost` and
`RestoreIsOneStep` assume so; the other theorems about restores do not.

And one outside `QuestionsAreSpaced`: it speaks of questions seen to their end.
A request dropped while asking is not recorded, so GitHub can be asked more than
"at most twice a day" (`docs/updating.md:12`).

Four properties are stated and in no run; adding one to the `cfg` named gives its
counterexample:

- `InkingStaysValid` (`MCCollection.cfg`, in place of `AcceptedStaysValid`): `ink_pen`
  compares the date only with the pen's last change (`commands.rs:209`), of which a pen
  without fills has none. A date before 1970, which the dialog lets one choose
  (`InkFlow.svelte:191` has a `max` and no `min`), passes and is then refused as an
  invalid collection (`validate.rs:277`). It is the only such date and the only such pen:
  `AcceptedStaysValid`. `tests/commands.rs:12`: "a successful command leaves a valid
  collection".
- `InkingCanBeTakenBack` (`MCUndoSameMoment.cfg`, in place of `UndoStaysValid`): a re-ink dated before the
  retention limit finishes the previous fill at that date, and the pruning at the
  end of the same command removes it. Undo, offered right after, leaves the pen
  empty. `commands.rs:31`: "Take back a pen's latest inking, re-ink or flush".
- `RetriesAfterTheInterval` (`MCUpdates.cfg`): after a failed
  check the next comes after `UPDATE_CHECK_INTERVAL` if an earlier one had
  succeeded. `lib.rs:40`: "How long to wait after a failed update check before
  trying again".
- `LockoutStartsTheWindow` (`MCSessions.cfg`): the 15 minutes count from an
  address's first failure (`auth.rs:58`), not from the fifth, so that a lockout may
  end right after it began. `docs/troubleshooting.md:65`: "After 5 wrong passwords,
  that device is refused for 15 minutes."

What the client does in `WebClient` is as its code says, and still worth knowing. A
draft saved once more after a conflict goes with the revision just reloaded, and
replaces the other window's change of that item, which the reload has shown:
`NothingUnseenIsOverwritten` allows that. An older answer that arrives late puts back older data, and the next save is a
conflict that reloads. An answer that arrives after signing out puts the owner's
collection on a visitor's screen, and the showcase's answer that arrives after
signing in puts the visitor's view on the owner's, without a revision: the next
save is a conflict.

## 4. What is proved

TLAPS proves the following for every value of the constants, under the
assumptions the modules name; TLC evaluates these for each instance.

| Module | Theorem | Property |
|---|---|---|
| `CollectionProofs` | `TypeCorrect`, `PensHoldOneInk`, `OwnChecksAreEnough`, `InkIsNeverForgotten`, `FillsAreExplained`, `UndoIsRight`, `UndoUndoes`, `UndoIsAvailable` | `TypeOK`, `Chronological`, `AcceptedStaysValid`, `CurrentInkIsNeverForgotten`, `FinishedFillsAreRecorded`, `UndoGivesBackTheInk`, `UndoTakesBackTheChange`, `UndoIsRefusedForTwoEndsOnly` |
| `StoreProofs` | `TypeCorrect`, `ReadersAreCurrent`, `AnswersAreKept`, `StoreIsAtomic` | `TypeOK`, `CopyIsCurrent`, `AnswersHold`, `ImplementsAtomicStore` |
| `PhotosProofs` | `TypeCorrect`, `PhotosStay`, `NoCollisions`, `SetAsideStays` | `TypeOK`, `PhotosInUseStay`, `UploadsDoNotCollide`, `SetAsideIsKept` |
| `RestoreProofs` | `TypeCorrect`, `NoPhotoIsLost`, `UndoIsKept`, `NewerOnesAreKept`, `UndoCanBeDone`, `RestoreIsOneStep` | `TypeOK`, `PhotosAreSomewhere`, `ReplacedIsSeenAndSaved`, `PrunedOnlyForNewer`, `UndoIsPossible`, `ImplementsDataFolder` |
| `UpdatesProofs` | `TypeCorrect`, `GitHubIsLeftAlone`, `FoundStays` | `TypeOK`, `QuestionsAreSpaced`, `FoundIsKept` |
| `SessionsProofs` | `TypeCorrect`, `LimitHolds`, `OnlyTheRightPassword`, `SignedOutForGood`, `PasswordKept` | `TypeOK`, `GuessesAreLimited`, `SignedInKnowThePassword`, `SignedOutStaysOut`, `PasswordIsNeverLost` |
| `ImportProofs` | `TypeCorrect`, `ImportsAreValid`, `PensAreRight`, `PhotosStay`, `AlwaysClosed`, `AlwaysHidden` | `TypeOK`, `ImportIsValid`, `PensHoldWhatTheyHeld`, `PhotosAreKept`, `ShowcaseIsClosed`, `HiddenDoesNotShow` |
| `WebClientProofs` | `TypeCorrect`, `OnlySeenIsOverwritten`, `OthersAreKept` | `TypeOK`, `NothingUnseenIsOverwritten`, `OnlyWhatWasMeant` |

**Collection.** The validation at the end of `Finish` only compares neighbours by
date, and `Chronological` speaks of positions. The invariant is `TypeOK` with a
timeline (ranks are unique, a pen's fill ends no later than its next
starts, only the last may be open) and what each fill needs by itself (its pen and ink
exist, it began after 1970 did: `EachValid`). It
is inductive, and `Chronological` is part of it. The key lemmas: any part of
a timeline is one (`TimelineSubset`: pruning and deleting), a timeline sorted by
date is in order of rank and passes the validation (`SortedByRank`,
`TimelineIsValid`), and emptying and inking a pen keep a timeline (`EmptiedTimeline`,
`InkedTimeline`). Undo is the one command whose result need not be a
timeline: `UndoneTimeline` needs `Valid'`, the guard, which is why undo can be refused.
`FillsAreExplained` adds that entries have distinct ranks: undo removes the
last matching entry and the fill it stands for, and both must be the only ones. For
`UndoIsRight`, `EntriesSayWhatKept` shows that what an entry of a change says was
held is what the step that made it closed.

`UndoIsAvailable` needs to know that undo reads the right entry: the last one of that
moment may be pruned or undone before, and an older one of the same moment
come to light. Two more conjuncts are inductive with the rest: a flush is never the last change
of a moment in which a fill began that lasted longer (`FlushedEarlier`), and what began at the
moment of a flush came after any change that took out an ink after it
(`BegunLater`). Both stand on entries being made later than the fills they explain,
which is why `FinishedFillsAreRecorded` is proved in a form with ranks
(`Explains`). With a single end at the moment, undo then reopens the pen's latest fill
(`UndoneIsTimeline`). This is about folders that began empty: a collection
brought from elsewhere may have any activity.

Three theorems start from `BroughtSpec` instead: `OwnChecksAreEnough`,
`InkIsNeverForgotten` and `UndoUndoes` hold of any valid collection, in any order of its lists.
Their invariant (`VInv`) says what `validate` makes sure of by comparing
neighbours only, of any two fills of a pen: one ended before the other began
(`NeighboursSuffice`). Nothing is assumed of timestamps but that they are integers;
that fills begin after 1970 is in the invariant because validation asks it, and it is
why a flush, or an inking of a pen with a history, cannot be dated earlier. `NewIsBrought` carries them over to a new folder.

**Store.** The invariant says what file, copy, survivors and acknowledged
commands are at each place in `apply`: one program is open at most, its copy is
the file unless its mutex is held by a command between rename and sync, what may
survive is the file or the base of that command, and what was acknowledged is in
all of it. `StoreIsAtomic` then maps every step: `Finish` and a failing sync to
`Apply`, the answer to `Acknowledge`, kills and power losses to `Crash`, readers to `Show`, and the rest
to stutters.

**Photos.** `TypeOK` is inductive and the three action properties follow from
single steps; the substance is that `Retire` looks at the collection again and
that only `Restore` writes over a file.

**Restore.** `Holding` says for each place in a restore where the collection's
photos are (in `images/`, in the folder moved aside, or both), and that from the
revision check to the write the collection is the one the window had loaded, of
which a backup exists. Where the photos are depends on the fault `"sync"`, the rest does
not (`Synced`). `NewerOnesAreKept` is about finite sets: of those that went
and are later than a backup, take one that no other of them is later than; all its
later ones, as many as are to be kept, are still there, and they are later than that
backup too (`EnoughAreKept`). For `UndoCanBeDone` the invariant
adds that `images/` has the collection's photos whenever no restore is under way, and
is only away while one has yet to put photos there (`Recovers`). `RestoreIsOneStep` maps each step under this
invariant: `Write` to `Replace`, the safety and the scheduled backup to `BackUp`,
whatever leaves a restore half-way to `Mishap`, deletions that fail to
`Litter`, and moving to and fro to stutters. That the schedule does not delete the
backup it just made (`ScheduleMakesOne`) is part of it.

**Updates.** The invariant: at most one request asks at a time (`OneAsks`), what is
known is at least as new as every answered question (`AskedIsKnown`), and questions
are as far apart as the earlier one's outcome asks for (`QuestionsAreSpaced` itself).

**Sessions.** For the limit, per address: failures and sign-ins under way
exceed it by at most the browsers at that address (`Limited`), where a sign-in can
only begin below the limit (`AttemptIsLimited`) and moves from one side of the sum to the other when
it is counted (`RecordIsLimited`); browsers are finitely many. For the password: a
sign-in past its check, and a session, is of the password the program runs with, which
only `Start` changes, with empty maps and no sign-in under way.

**Import.** Two pure results first. `ConversionIsValid`: `convert` passes `validate`
for every 2.x folder, as far as ids, references, photos, ink history and numbers go
(texts are in neither operator, and those of section 2 do fail); ids are unique because the first to have one keeps it and a
new one is nobody's, and the rebuilt history is a timeline. `HistoryIsInOrder` says
more: the trimming of overlaps at the end (`import_v2.rs:733`) never finds
anything to trim, since a logged fill ends at the pen's next change, an unlogged one starts
no earlier than the last, and a pen has one or the other open. `ShowcasesAreClosed`
and `NothingHiddenShows` hold of any well-typed collection whose swatches have
their inks. The inductive invariant then says that an import under way has the claim on a
folder without a collection, that its job is the conversion of what it read and
each of its photos is copied or to be copied, and that the photos of what is stored exist.
Assumed of the data: timestamps have a greatest value, pens come before inks before swatches, and places
in a list are distinct.

**WebClient.** A revision on screen other than the empty one is of a collection that was shown
(`RevisionsWereShown`), data with such a revision is that collection
(`DataIsOfItsRevision`), and a request on its way carries what was seen with
its base and keeps, of that base, all it was not meant to change
(`ChangesAreWellMade`). The rest is that the server takes a change only on its base.

**Only model-checked**: `EveryCommandEnds` and `LockoutsAndSessionsEnd`; liveness under
fairness is out of the prover's reach.

## 5. Not modelled

- Contents of items, texts, image coding, the zip format and its limits, file
  names other than their reuse, HTTP and its headers, the same-origin check and the
  cookie's attributes: data no property here tells apart, or pure functions
  with unit tests of their own.
- Photos from links (`remote.rs`): a download within limits, without state; what
  it fetches goes through `add_photo`, which `Photos` models.
- The client's views (sorting, filters, search, statistics) and the editors' fields and
  dialogs: pure functions of the loaded collection.
- Unsynced contents of restored photos, and the variants for Windows of rename and sync.

What could come next: unsynced photo contents in `Restore`, the queue of settings changes in `WebClient`, and photos of the
showcase, which are checked to be visible before they are read.

`PROJECT.json` lists every hazard found while reading, with the line where it
bites and the properties that would notice it going wrong; those without a property say why.

## 6. Running

    tlasany Store.tla                            # parse
    tlc -config MCStore.cfg MCStore.tla          # check
    tlapm StoreProofs.tla                        # prove

The largest run is `web_client`, with 4.0 million distinct states in under two
minutes; the longest is `collection`, about three.
