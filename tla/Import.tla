-------------------------------- MODULE Import --------------------------------
(***************************************************************************)
(* Taking over the data of Inkubator 2.x (core/src/import_v2.rs, and       *)
(* import-v2 in server/src/main.rs): the conversion of a 2.x folder, the   *)
(* steps that write the result, and the program that may use the new       *)
(* folder before and after, with the showcase it gives to visitors.        *)
(*                                                                         *)
(* A 2.x folder is a record [items, log, inked, retention, keep, showcase, *)
(* files].  seq is the place of an element in its list; the places of      *)
(* pens, inks and swatches follow each other, and those of currently_inked *)
(* follow the log's.  A new id is the place of what it is made for: nobody *)
(* has it.  Texts, colors, prices and the times an item was created and    *)
(* updated at are left out, as is the sharing of ids by activity entries.  *)
(*                                                                         *)
(* Definitions marked VARIANT are not the code: each is a slip the code    *)
(* could have had, kept to show which property would notice it.            *)
(***************************************************************************)
EXTENDS Showcase, FiniteSetsExt

CONSTANTS
  Documents,    \* the 2.x folders there may be
  Ids,          \* the ids they use
  Paths,        \* photos, by their place under images/
  SectionOf,    \* the kind of item whose section a path is in
  Contents,     \* what a photo's file may hold
  MaxTime,      \* the greatest timestamp there is (i64)
  MAX_KEEP, DEFAULT_KEEP,
  ShowcaseChoices,
  AddedSeqs,    \* BOUND: the places of the inks the owner adds
  LogSeqs,      \* BOUND: the places of the entries the owner's changes record
  Nows,         \* BOUND: what the clock shows when the owner changes something
  None, Open, Forever

ASSUME IdsAssumption == Ids \cap Nat = {} /\ NoId \notin Ids /\ NoId \notin Nat
ASSUME ConstantsAssumption ==
  /\ Open \notin Nat /\ Forever \notin Nat
  /\ None \notin Int /\ None \notin {"import", "server"}
  /\ Contents # {} /\ None \notin Contents
ASSUME TimeAssumption == MaxTime \in Nat
ASSUME KeepAssumption == MAX_KEEP \in Nat \ {0} /\ DEFAULT_KEEP \in 1..MAX_KEEP
ASSUME SectionAssumption == SectionOf \in [Paths -> {"pen", "ink", "swatch", "none"}]
ASSUME ChoicesAssumption == ShowcaseChoices \subseteq SUBSET Flags /\ AddedSeqs \subseteq Nat
ASSUME RecordingAssumption == LogSeqs \subseteq Nat /\ Nows \subseteq 1..MaxTime

\* id NoId: none, or empty.  named: a pen with a brand or a model, an ink with a
\* name or a brand.  of: a swatch's ink.
OldItem == [kind : {"pen", "ink", "swatch"}, seq : Nat, id : Ids \cup {NoId},
            named : BOOLEAN, of : Ids \cup {NoId}, details : SUBSET Details,
            photos : SUBSET [seq : Nat, path : Paths, primary : BOOLEAN]]

\* at 0: no usable timestamp.  ink and previous: new_ink_id and previous_ink_id.
OldEntry == [seq : Nat, at : 0..MaxTime, kind : {"pen", "ink", "swatch", "other"},
             action : {"created", "updated", "deleted", "inked", "reinked", "cleaned", "other"},
             id : Ids \cup {NoId}, ink : Ids \cup {NoId}, previous : Ids \cup {NoId}]

OldInked == [seq : Nat, pen : Ids \cup {NoId}, ink : Ids \cup {NoId}, at : 0..MaxTime]

ASSUME DocumentsAssumption ==
  \A d \in Documents :
    /\ d.items \subseteq OldItem /\ d.log \subseteq OldEntry /\ d.inked \subseteq OldInked
    /\ d.retention \in Nat /\ d.keep \in Int \cup {None}
    /\ d.showcase \subseteq Flags /\ d.files \subseteq Paths
    /\ \A i, j \in d.items :
         /\ i.seq = j.seq => i = j
         /\ i.kind # "swatch" /\ j.kind = "swatch" => i.seq < j.seq
         /\ i.kind = "pen" /\ j.kind = "ink" => i.seq < j.seq
    /\ \A i \in d.items : \A p, q \in i.photos : p.seq = q.seq => p = q
    /\ \A e, f \in d.log : e.seq = f.seq => e = f
    /\ \A e \in d.inked :
         /\ \A f \in d.inked : e.seq = f.seq => e = f
         /\ \A f \in d.log : f.seq < e.seq

Later(m, n) == IF m < n THEN n ELSE m

-----------------------------------------------------------------------------
(* Items.                                                                  *)

\* An ink without a name is given one when it has a brand; a swatch needs none.
IsNamed(i) == i.kind = "swatch" \/ i.named

\* VARIANT: an id is kept as it is.
IdAsItIs(items, i) == IF i.id # NoId THEN i.id ELSE i.seq

\* The first item of any kind keeps the id it has; the others get new ones.
Id(items, i) ==
  IF i.id # NoId /\ ~ \E j \in items : j.id = i.id /\ j.seq < i.seq
  THEN i.id ELSE i.seq

\* Pens and inks come before swatches: which inks there are is known by then.
InksKept(d) == {i \in d.items : i.kind = "ink" /\ IsNamed(i)}
PensKept(d) == {i \in d.items : i.kind = "pen" /\ IsNamed(i)}
InkIds(d) == {Id(PensKept(d) \cup InksKept(d), i) : i \in InksKept(d)}
Kept(d) ==
  PensKept(d) \cup InksKept(d) \cup {i \in d.items : i.kind = "swatch" /\ i.of \in InkIds(d)}

\* images: those in the item's own section that exist, each path once, and one
\* primary: the first that is marked, or the first.
Usable(d, i) ==
  {p \in i.photos :
    /\ SectionOf[p.path] = i.kind
    /\ p.path \in d.files
    /\ ~ \E q \in i.photos : q.path = p.path /\ q.seq < p.seq}

IsPrimary(photos, p) ==
  LET marked == {q \in photos : q.primary}
      candidates == IF marked = {} THEN photos ELSE marked
  IN p \in candidates /\ ~ \E q \in candidates : q.seq < p.seq

Images(d, i) ==
  {[path |-> p.path, primary |-> IsPrimary(Usable(d, i), p)] : p \in Usable(d, i)}

NewItem(d, i) ==
  [seq |-> i.seq, id |-> Id(Kept(d), i), of |-> i.of, photos |-> Images(d, i),
   details |-> i.details \cap {"price", "notes"}, notes_public |-> FALSE]

NewItems(d, kind) == {NewItem(d, i) : i \in {j \in Kept(d) : j.kind = kind}}

-----------------------------------------------------------------------------
(* Ink history, rebuilt from the log and the pens that are inked now.      *)

Events(d) ==
  {e \in d.log : /\ e.kind = "pen"
                 /\ e.action \in {"inked", "reinked", "cleaned"}
                 /\ e.at > 0}

Before(e, f) == e.at < f.at \/ (e.at = f.at /\ e.seq < f.seq)

\* Whatever happens to the pen next ends what is in it.
NextChange(d, e) ==
  LET later == {f \in Events(d) : f.id = e.id /\ Before(e, f)}
  IN IF later = {} THEN Open ELSE Min({f.at : f \in later})

Logged(d) ==
  {[seq |-> e.seq, pen |-> e.id, ink |-> e.ink, inked |-> e.at, emptied |-> NextChange(d, e)] :
    e \in {f \in Events(d) : f.action # "cleaned" /\ f.ink # NoId}}

\* What is in each pen now: the last usable entry.
Current(d) ==
  LET usable == {e \in d.inked : e.pen # NoId /\ e.ink # NoId /\ e.at > 0}
  IN {e \in usable : ~ \E f \in usable : f.pen = e.pen /\ f.seq > e.seq}

Holding(d, pen) == {e \in Current(d) : e.pen = pen}

\* VARIANT: what the log leaves open stays open.
ReconciledNot(d, f) == f

\* An open fill against what the pen holds now: the same ink, another one, none.
Reconciled(d, f) ==
  CASE f.emptied # Open -> f
    [] f.emptied = Open /\ Holding(d, f.pen) = {} -> [f EXCEPT !.emptied = f.inked]
    [] OTHER ->
         LET e == CHOOSE g \in Holding(d, f.pen) : TRUE
         IN IF e.ink = f.ink THEN [f EXCEPT !.inked = Later(@, e.at)]
            ELSE [f EXCEPT !.emptied = Later(e.at, f.inked)]

\* A fill that was never logged starts no earlier than the last logged change.
StartOf(d, e) == Max({e.at} \cup {f.at : f \in {g \in Events(d) : g.id = e.pen}})

Unlogged(d) ==
  {[seq |-> e.seq, pen |-> e.pen, ink |-> e.ink, inked |-> StartOf(d, e), emptied |-> Open] :
    e \in {f \in Current(d) :
             ~ \E g \in Logged(d) : g.pen = f.pen /\ Reconciled(d, g).emptied = Open}}

Rebuilt(d) == {Reconciled(d, f) : f \in Logged(d)} \cup Unlogged(d)

Precedes(f, g) == f.inked < g.inked \/ (f.inked = g.inked /\ f.seq < g.seq)

\* Each fill ends no later than the pen's next one starts.  (It never ends later:
\* ImportProofs, HistoryIsInOrder.)
Trimmed(fills, f) ==
  LET next == {g.inked : g \in {h \in fills : h.pen = f.pen /\ Precedes(f, h)}}
  IN IF next # {} /\ (f.emptied = Open \/ f.emptied > Min(next))
     THEN [f EXCEPT !.emptied = Min(next)] ELSE f

NewFills(d) ==
  LET known == {f \in Rebuilt(d) : /\ f.pen \in IdsOf(NewItems(d, "pen"))
                                   /\ f.ink \in IdsOf(NewItems(d, "ink"))}
  IN {LET t == Trimmed(known, f)
      IN [seq |-> t.seq, pen |-> t.pen, ink |-> t.ink, inked |-> t.inked,
          emptied |-> t.emptied, noted |-> FALSE] : f \in known}

-----------------------------------------------------------------------------
(* The activity log and the settings.                                      *)

NewAction(a) == IF a = "cleaned" THEN "flushed" ELSE a

NewEntry(e) ==
  LET inks == NewAction(e.action) \in Inkings
  IN [seq |-> e.seq, at |-> e.at, kind |-> e.kind, action |-> NewAction(e.action), id |-> e.id,
      ink |-> IF inks THEN e.ink ELSE NoId,
      previous |-> IF inks THEN e.previous ELSE NoId]

NewActivity(d) ==
  {NewEntry(e) : e \in {f \in d.log : f.kind # "other" /\ f.action # "other" /\ f.at > 0}}

\* VARIANT: the number of backups is kept as it is.
ClampedNot(n) == n

Clamped(n) == IF n < 1 THEN 1 ELSE IF n > MAX_KEEP THEN MAX_KEEP ELSE n

convert(d) ==
  [pens |-> NewItems(d, "pen"),
   inks |-> NewItems(d, "ink"),
   swatches |-> NewItems(d, "swatch"),
   fills |-> NewFills(d),
   activity |-> NewActivity(d),
   retention |-> IF d.retention = 0 THEN Forever ELSE d.retention,
   keep |-> IF d.keep = None THEN DEFAULT_KEEP ELSE Clamped(d.keep),
   \* Private until the owner opens it.
   showcase |-> d.showcase \ {"enabled", "purchased_on", "purchased_from", "notes"}]

ASSUME NoneAssumption == \A d \in Documents : None \notin {d, convert(d)}

-----------------------------------------------------------------------------
(* validate, as far as the conversion can get it wrong, but for the texts. *)

Unique(items) == \A i, j \in items : i.id = j.id => i = j

ValidPhotos(kind, items) ==
  \A i \in items :
    /\ \A p \in i.photos : SectionOf[p.path] = kind
    /\ \A p, q \in i.photos : p.path = q.path => p = q
    /\ i.photos # {} => Cardinality({p \in i.photos : p.primary}) = 1

\* A pen holds one ink at a time.
Timeline(fills) ==
  /\ \A f \in fills : f.inked > 0 /\ (f.emptied # Open => f.emptied >= f.inked)
  /\ \A f, g \in fills : f.pen = g.pen /\ Precedes(f, g) =>
       f.emptied # Open /\ f.emptied <= g.inked

validate(c) ==
  /\ Unique(c.pens) /\ Unique(c.inks) /\ Unique(c.swatches)
  /\ \A w \in c.swatches : w.of \in IdsOf(c.inks)
  /\ ValidPhotos("pen", c.pens)
  /\ ValidPhotos("ink", c.inks)
  /\ ValidPhotos("swatch", c.swatches)
  /\ \A f \in c.fills : f.pen \in IdsOf(c.pens) /\ f.ink \in IdsOf(c.inks)
  /\ Timeline(c.fills)
  /\ \A e \in c.activity : e.at > 0
  /\ c.retention # Forever => c.retention > 0
  /\ c.keep \in 1..MAX_KEEP

PhotosOf(c) ==
  {p.path : p \in UNION {i.photos : i \in c.pens \cup c.inks \cup c.swatches}}

-----------------------------------------------------------------------------
VARIABLES
  claim,   \* who has .inkubator.lock in the new folder: "import", "server" or None
  stored,  \* inkubator.json; None: there is no such file
  images,  \* per path: what its file under images/ holds; None: there is none
  old,     \* the 2.x folder an import has read
  job,     \* what it was converted into
  todo     \* the photos it has yet to copy

vars == <<claim, stored, images, old, job, todo>>

importing == <<old, job, todo>>

Init ==
  /\ claim = None
  /\ stored = None
  /\ images = [p \in Paths |-> None]
  /\ old = None
  /\ job = None
  /\ todo = {}

\* The importer ends, with or without its report.
Ended == claim' = None /\ old' = None /\ job' = None /\ todo' = {}

-----------------------------------------------------------------------------
(* import                                                                  *)

\* Store::open: the folder is claimed, or the import fails.
OpenFolder ==
  /\ claim = None
  /\ claim' = "import"
  /\ UNCHANGED <<stored, images, importing>>

\* Only for a folder without a collection is the old one read and converted.
ReadOld(d) ==
  /\ claim = "import" /\ job = None
  /\ stored = None
  /\ old' = d
  /\ job' = convert(d)
  /\ todo' = PhotosOf(convert(d))
  /\ UNCHANGED <<claim, stored, images>>

\* DestinationNotEmpty; or the old files cannot be read.
RefuseImport ==
  /\ claim = "import" /\ job = None
  /\ Ended
  /\ UNCHANGED <<stored, images>>

\* copy_image replaces whatever is there.
CopyPhoto(p, content) ==
  /\ p \in todo
  /\ images' = [images EXCEPT ![p] = content]
  /\ todo' = todo \ {p}
  /\ UNCHANGED <<claim, stored, old, job>>

\* A photo that has gone meanwhile, or a disk that is full.
CopyFails ==
  /\ todo # {}
  /\ Ended
  /\ UNCHANGED <<stored, images>>

\* VARIANT: the collection is written before the photos.
SaveFirst ==
  /\ job # None
  /\ stored' = job
  /\ IF todo = {} THEN Ended ELSE UNCHANGED <<claim, importing>>
  /\ UNCHANGED images

\* save refuses what validate does not pass.
Save ==
  /\ job # None /\ todo = {}
  /\ validate(job)
  /\ stored = None
  /\ stored' = job
  /\ Ended
  /\ UNCHANGED images

\* Refused, or not written; or written, and only then failed (atomic_write).
SaveFails ==
  /\ job # None /\ todo = {}
  /\ \/ stored' = stored
     \/ validate(job) /\ stored = None /\ stored' = job
  /\ Ended
  /\ UNCHANGED images

Kill ==
  /\ claim = "import"
  /\ Ended
  /\ UNCHANGED <<stored, images>>

-----------------------------------------------------------------------------
(* The program, on the same folder.                                        *)

StartServer ==
  /\ claim = None
  /\ claim' = "server"
  /\ UNCHANGED <<stored, images, importing>>

StopServer ==
  /\ claim = "server"
  /\ claim' = None
  /\ UNCHANGED <<stored, images, importing>>

\* What the folder holds for a program that finds no collection in it.
Empty ==
  [pens |-> {}, inks |-> {}, swatches |-> {}, fills |-> {}, activity |-> {},
   retention |-> Forever, keep |-> DEFAULT_KEEP, showcase |-> {}]

Loaded == IF stored = None THEN Empty ELSE stored

\* apply_retention
Pruned(c, now) ==
  IF c.retention = Forever THEN c
  ELSE [c EXCEPT
         !.fills = {f \in @ : f.emptied = Open \/ f.emptied >= now - c.retention},
         !.activity = {e \in @ : e.at >= now - c.retention}]

\* Store::apply, around what a command makes of the collection.
Apply(c, now) ==
  /\ claim = "server"
  /\ stored' = Pruned(c, now)
  /\ validate(stored')
  /\ UNCHANGED <<claim, importing>>

\* record: an entry comes after all others.  BOUND: the settings that keep
\* changes of pens and inks out of the log are not used.
IsNext(n) ==
  /\ \A e \in Loaded.activity : e.seq < n
  /\ \A m \in LogSeqs : m < n => \E e \in Loaded.activity : m <= e.seq

Entered(c, n, now, kind, action, id) ==
  [c EXCEPT !.activity = @ \cup
     {[seq |-> n, at |-> now, kind |-> kind, action |-> action, id |-> id,
       ink |-> NoId, previous |-> NoId]}]

\* The owner changes what visitors see.
SaveSettings(choice, now) ==
  /\ Apply([Loaded EXCEPT !.showcase = choice], now)
  /\ UNCHANGED images

Completed(pen) == [pen EXCEPT !.details = Details, !.notes_public = TRUE]

\* The owner completes a pen, notes for everyone included.
SavePen(pen, n, now) ==
  /\ pen \in Loaded.pens /\ Completed(pen) # pen
  /\ IsNext(n)
  /\ Apply(Entered([Loaded EXCEPT !.pens = (@ \ {pen}) \cup {Completed(pen)}],
                   n, now, "pen", "updated", pen.id), now)
  /\ UNCHANGED images

NewInk(seq, path) ==
  [seq |-> seq, id |-> seq, of |-> NoId, details |-> {}, notes_public |-> FALSE,
   photos |-> {[path |-> path, primary |-> TRUE]}]

\* The owner adds an ink and its photo, whose name no file has.  BOUND: one ink
\* for every seq.
AddInk(seq, path, n, now) ==
  /\ seq \notin {i.seq : i \in Loaded.pens \cup Loaded.inks \cup Loaded.swatches}
  /\ SectionOf[path] = "ink" /\ images[path] = None
  /\ IsNext(n)
  /\ images' = [images EXCEPT ![path] = CHOOSE content \in Contents : TRUE]
  /\ Apply(Entered([Loaded EXCEPT !.inks = @ \cup {NewInk(seq, path)}],
                   n, now, "ink", "created", seq), now)

-----------------------------------------------------------------------------
Next ==
  \/ OpenFolder
  \/ \E d \in Documents : ReadOld(d)
  \/ RefuseImport
  \/ \E p \in Paths, content \in Contents : CopyPhoto(p, content)
  \/ CopyFails
  \/ Save
  \/ SaveFails
  \/ Kill
  \/ StartServer
  \/ StopServer
  \/ \E now \in Nows :
       \/ \E choice \in ShowcaseChoices : SaveSettings(choice, now)
       \/ \E n \in LogSeqs :
            \/ \E pen \in Loaded.pens : SavePen(pen, n, now)
            \/ \E seq \in AddedSeqs, path \in Paths : AddInk(seq, path, n, now)

Spec == Init /\ [][Next]_vars

-----------------------------------------------------------------------------
(* Properties.                                                             *)

Item == [seq : Nat, id : Ids \cup Nat, of : Ids \cup {NoId},
         photos : SUBSET [path : Paths, primary : BOOLEAN],
         details : SUBSET Details, notes_public : BOOLEAN]

Fill == [seq : Nat, pen : Ids \cup Nat, ink : Ids \cup Nat,
         inked : 1..MaxTime, emptied : 1..MaxTime \cup {Open}, noted : BOOLEAN]

Entry == [seq : Nat, at : 1..MaxTime, kind : {"pen", "ink", "swatch"},
          action : {"created", "updated", "deleted"} \cup Inkings,
          id : Ids \cup Nat \cup {NoId}, ink : Ids \cup {NoId}, previous : Ids \cup {NoId}]

IsCollection(c) ==
  /\ c = [pens |-> c.pens, inks |-> c.inks, swatches |-> c.swatches, fills |-> c.fills,
          activity |-> c.activity, retention |-> c.retention, keep |-> c.keep,
          showcase |-> c.showcase]
  /\ c.pens \subseteq Item /\ c.inks \subseteq Item /\ c.swatches \subseteq Item
  /\ c.fills \subseteq Fill
  /\ c.activity \subseteq Entry
  /\ c.retention \in Nat \cup {Forever}
  /\ c.keep \in 1..MAX_KEEP
  /\ c.showcase \subseteq Flags

TypeOK ==
  /\ claim \in {"import", "server", None}
  /\ stored = None \/ IsCollection(stored)
  /\ images \in [Paths -> Contents \cup {None}]
  /\ old \in Documents \cup {None}
  /\ job = None \/ IsCollection(job)
  /\ job = None <=> old = None
  /\ todo \subseteq Paths

\* No import fails validation after its photos were copied because of an id or a
\* photo used twice, overlapping inkings, or numbers out of range (import_v2.rs:733,
\* validate.rs:82).  Texts are not in the model, and one kind of them does make an
\* import fail: filling systems that differ in the case of a letter (import_v2.rs:1025).
ImportIsValid == job # None => validate(job)

\* "The list of inked pens is the source of truth for what is in each pen now"
\* (import_v2.rs:661): after an import each pen holds just that, as far as the ink
\* is still there, whatever the log says and in whatever order.
PensHoldWhatTheyHeld ==
  job # None =>
    \A pen \in IdsOf(job.pens) :
      {f.ink : f \in {g \in job.fills : g.pen = pen /\ g.emptied = Open}}
        = {e.ink : e \in Holding(old, pen)} \cap IdsOf(job.inks)

\* A collection mentions only photos that are there, from the step that stores it
\* on, and no import that fails, stops or is run again changes what one holds.
PhotosAreKept ==
  [][stored' # None =>
       \A p \in PhotosOf(stored') :
         /\ images'[p] # None
         /\ stored # None /\ p \in PhotosOf(stored) => images'[p] = images[p]]_vars

\* Whatever a visitor is told about is something the visitor can see.
ShowcaseIsClosed == Closed(project(Loaded))

\* What the owner hides does not show, not even in how much of the rest is told.
HiddenDoesNotShow == project(Loaded) = project(WithoutHidden(Loaded))
=============================================================================
