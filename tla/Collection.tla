------------------------------ MODULE Collection ------------------------------
(***************************************************************************)
(* The collection and the commands that change it: crates/core/src/        *)
(* commands.rs (apply), retention.rs (apply_retention) and the parts of    *)
(* validate.rs about references and ink history.  One step of this module  *)
(* is one successful Store::apply (storage.rs): the command runs, old      *)
(* history is pruned, the result is validated, and all of it is stored or  *)
(* none of it is.  A command that is refused, by its own checks or by the  *)
(* validation, changes nothing: it is an action that is not enabled.       *)
(*                                                                         *)
(* Fills and activity are Vecs in the code.  Here they are sets of records *)
(* with a rank, seq, that gives the position: push takes a rank above all, *)
(* retain and remove keep the ranks of the rest, "first" and "last" are    *)
(* the least and the greatest rank.                                        *)
(*                                                                         *)
(* Definitions marked VARIANT are not the code: each is a slip the code    *)
(* could have had, kept to show which property would notice it.            *)
(***************************************************************************)
EXTENDS Integers

CONSTANTS
  Pens, Inks, Swatches,   \* the ids a client may mint
  Times,                  \* timestamps: milliseconds since 1970, negative before
  DAY_MS,                 \* timestamps per day
  SettingsChoices,        \* the activity settings a user may choose
  MaxRank,                \* BOUND: the longest Vec, in ranks
  Open,                   \* emptied_at: None
  NoInk,                  \* previous_ink_id: None
  Forever                 \* Retention::Forever

Actions == {"created", "updated", "deleted", "inked", "reinked", "flushed"}
InkActions == {"inked", "reinked", "flushed"}

ActivitySettings ==
  [retention : (Nat \ {0}) \cup {Forever},
   record_pen_changes : BOOLEAN, record_ink_changes : BOOLEAN,
   record_swatches : BOOLEAN, record_deletions : BOOLEAN]

ASSUME TimesAssumption == Times \subseteq Int
ASSUME DayAssumption == DAY_MS \in Nat \ {0}
ASSUME RankAssumption == MaxRank \in Nat
ASSUME OpenAssumption == Open \notin Int
ASSUME ForeverAssumption == Forever \notin Int
ASSUME NoInkAssumption == NoInk \notin Inks
ASSUME SettingsAssumption ==
  /\ SettingsChoices \subseteq ActivitySettings
  /\ SettingsChoices # {}

Ranks == 1..MaxRank

\* What the server's clock shows: 0 when it is set to before 1970.
Clock == Times \cap Nat

VARIABLES
  pens, inks,   \* the ids in the collection
  swatches,     \* records [id, ink_id]
  fills,        \* which ink was in which pen, and from when to when
  activity,     \* what was recorded
  settings      \* settings.activity

vars == <<pens, inks, swatches, fills, activity, settings>>

Fill == [seq : Ranks, pen : Pens, ink : Inks, inked : Times, emptied : Times \cup {Open}]

Entry ==
  [seq : Ranks, at : Times, action : Actions, id : Pens \cup Inks \cup Swatches,
   previous : Inks \cup {NoInk}]

TypeOK ==
  /\ pens \subseteq Pens
  /\ inks \subseteq Inks
  /\ swatches \subseteq [id : Swatches, ink_id : Inks]
  /\ fills \subseteq Fill
  /\ activity \subseteq Entry
  /\ settings \in SettingsChoices

-----------------------------------------------------------------------------
(* Vec order.                                                              *)

IsFirst(x, S) == x \in S /\ \A y \in S : x.seq <= y.seq
IsLast(x, S) == x \in S /\ \A y \in S : y.seq <= x.seq

Used == {f.seq : f \in fills} \cup {e.seq : e \in activity}

\* The rank push gives: the least one above all that are used.
IsNext(r) == /\ \A s \in Used : s < r
             /\ r = 1 \/ r - 1 \in Used

-----------------------------------------------------------------------------
(* Looking at a pen's fills.                                               *)

FillsOf(p) == {f \in fills : f.pen = p}
OpenFills(p) == {f \in FillsOf(p) : f.emptied = Open}

\* The ink in pen p: the one of its first open fill, NoInk when it is empty.
Holds(p, x) ==
  \/ OpenFills(p) = {} /\ x = NoInk
  \/ \E f \in OpenFills(p) : IsFirst(f, OpenFills(p)) /\ f.ink = x

\* VARIANT: the end of a finished fill is not looked at.
LastMomentStartOnly(f) == f.inked

LastMoment(f) == IF f.emptied = Open THEN f.inked ELSE f.emptied

NotBeforeLastChange(p, at) == \A f \in FillsOf(p) : LastMoment(f) <= at

LastInkChangeIs(p, at) == /\ \E f \in FillsOf(p) : LastMoment(f) = at
                          /\ NotBeforeLastChange(p, at)

-----------------------------------------------------------------------------
(* retention.rs *)

SurvivesRetention(t, s, now) ==
  s.retention = Forever \/ t >= now - s.retention * DAY_MS

\* VARIANT: the pen's current ink is forgotten like any old fill.
KeptFillsByAge(F, s, now) == {f \in F : SurvivesRetention(LastMoment(f), s, now)}

KeptFills(F, s, now) ==
  {f \in F : f.emptied = Open \/ SurvivesRetention(f.emptied, s, now)}

\* VARIANT: the day of the limit itself counts as too old.
KeptActivityStrict(A, s, now) == {e \in A : SurvivesRetention(e.at - 1, s, now)}

KeptActivity(A, s, now) == {e \in A : SurvivesRetention(e.at, s, now)}

-----------------------------------------------------------------------------
(* validate.rs: a pen's fills, sorted by inked_at (a stable sort: equal    *)
(* dates keep their order in the Vec), are compared neighbour by           *)
(* neighbour.                                                              *)

SortsBefore(f, g) == f.inked < g.inked \/ (f.inked = g.inked /\ f.seq < g.seq)

Neighbours(F, f, g) ==
  /\ f.pen = g.pen
  /\ SortsBefore(f, g)
  /\ ~ \E h \in F : h.pen = f.pen /\ SortsBefore(f, h) /\ SortsBefore(h, g)

\* VARIANT: an earlier fill that is still open is let through.
ValidFillsLax(F, P, I) ==
  /\ \A f \in F : f.pen \in P /\ f.ink \in I /\ f.inked > 0
  /\ \A f, g \in F :
       Neighbours(F, f, g) => f.emptied = Open \/ f.emptied <= g.inked

ValidFills(F, P, I) ==
  /\ \A f \in F : /\ f.pen \in P
                  /\ f.ink \in I
                  /\ f.inked > 0
                  /\ f.emptied # Open => f.inked <= f.emptied
  /\ \A f, g \in F : Neighbours(F, f, g) => f.emptied # Open /\ f.emptied <= g.inked

Valid == /\ \A s \in swatches : s.ink_id \in inks
         /\ ValidFills(fills, pens, inks)
         /\ \A e \in activity : e.at > 0

\* The end of Store::apply, once the command has left fills F and activity A:
\* history past the limit goes, then the whole collection has to be valid.
Finish(F, A, now) ==
  /\ fills' = KeptFills(F, settings', now)
  /\ activity' = KeptActivity(A, settings', now)
  /\ Valid'

-----------------------------------------------------------------------------
(* Ink changes.                                                            *)

Emptied(p, at) ==
  {IF IsFirst(f, OpenFills(p)) THEN [f EXCEPT !.emptied = at] ELSE f : f \in fills}

CanInk(p, i, at) == /\ p \in pens
                    /\ i \in inks
                    /\ NotBeforeLastChange(p, at)
                    /\ ~ Holds(p, i)

Inked(p, i, at, r) ==
  Emptied(p, at) \cup {[seq |-> r, pen |-> p, ink |-> i, inked |-> at, emptied |-> Open]}

\* VARIANT: the pen's id and the ink's, two strings, change places.
InkEntrySwapped(p, at, action, previous, r) ==
  [seq |-> r, at |-> at, action |-> action, id |-> previous, previous |-> p]

InkEntry(p, at, action, previous, r) ==
  [seq |-> r, at |-> at, action |-> action, id |-> p, previous |-> previous]

\* `at` is the date given, or now when none is.
InkPen(p, i, at, now) ==
  /\ CanInk(p, i, at)
  /\ UNCHANGED <<pens, inks, swatches, settings>>
  /\ \E r \in Ranks, held \in Inks \cup {NoInk} :
       /\ IsNext(r)
       /\ Holds(p, held)
       /\ LET action == IF held = NoInk THEN "inked" ELSE "reinked"
          IN Finish(Inked(p, i, at, r), activity \cup {InkEntry(p, at, action, held, r)}, now)

CanFlush(p, at) == /\ p \in pens
                   /\ \E f \in OpenFills(p) : IsFirst(f, OpenFills(p)) /\ f.inked <= at

FlushPen(p, at, now) ==
  /\ CanFlush(p, at)
  /\ UNCHANGED <<pens, inks, swatches, settings>>
  /\ \E r \in Ranks, held \in Inks :
       /\ IsNext(r)
       /\ Holds(p, held)
       /\ Finish(Emptied(p, at), activity \cup {InkEntry(p, at, "flushed", held, r)}, now)

\* The activity entries that may say what happened to pen p at `at`.
InkChanges(p, at) ==
  {e \in activity : e.id = p /\ e.at = at /\ e.action \in InkActions}

\* VARIANT: the first fill started at `at` goes, whether it is open or not.
UnstartedOpenOrNot(p, at, action) ==
  LET started == {f \in FillsOf(p) : f.inked = at}
  IN {f \in fills : action = "flushed" \/ ~ IsFirst(f, started)}

\* The fill started at `at` goes, unless the change was a flush ...
Unstarted(p, at, action) ==
  LET started == {f \in OpenFills(p) : f.inked = at}
  IN {f \in fills : action = "flushed" \/ ~ IsFirst(f, started)}

\* ... and of what is left the first fill emptied at `at` is open again, unless
\* the change filled an empty pen.
\* VARIANT: a fill that ended at that moment is reopened whatever the change was.
UndoneAlwaysReopening(p, at, action) ==
  LET left == Unstarted(p, at, action)
      closed == {f \in left : f.pen = p /\ f.emptied = at}
  IN {IF IsFirst(f, closed) THEN [f EXCEPT !.emptied = Open] ELSE f : f \in left}

Undone(p, at, action) ==
  LET left == Unstarted(p, at, action)
      closed == {f \in left : f.pen = p /\ f.emptied = at}
  IN {IF action # "inked" /\ IsFirst(f, closed) THEN [f EXCEPT !.emptied = Open] ELSE f :
        f \in left}

\* VARIANT: the first entry of the moment counts, not the last.
FirstRecordedAction(p, at, action) ==
  \/ InkChanges(p, at) = {} /\ action = "none"
  \/ \E e \in InkChanges(p, at) : IsFirst(e, InkChanges(p, at)) /\ e.action = action

\* What the activity says the change was; "none" when the entry is gone.
RecordedAction(p, at, action) ==
  \/ InkChanges(p, at) = {} /\ action = "none"
  \/ \E e \in InkChanges(p, at) : IsLast(e, InkChanges(p, at)) /\ e.action = action

CanUndo(p, at) == p \in pens /\ LastInkChangeIs(p, at)

UndoInkChange(p, at, now) ==
  /\ CanUndo(p, at)
  /\ UNCHANGED <<pens, inks, swatches, settings>>
  /\ \E action \in InkActions \cup {"none"} :
       /\ RecordedAction(p, at, action)
       /\ Finish(Undone(p, at, action),
                 {e \in activity : ~ IsLast(e, InkChanges(p, at))}, now)

-----------------------------------------------------------------------------
(* Saving and deleting.  What a pen, an ink or a swatch looks like is left *)
(* out: `changed` says whether describe_changes finds anything.            *)

Record(on, action, id, now, F) ==
  \/ ~ on /\ Finish(F, activity, now)
  \/ /\ on
     /\ \E r \in Ranks :
          /\ IsNext(r)
          /\ Finish(F, activity \cup {InkEntry(id, now, action, NoInk, r)}, now)

\* Saving creates the item, or replaces the one with its id.
RecordSave(on, known, changed, id, now) ==
  Record(on /\ (changed \/ ~ known), IF known THEN "updated" ELSE "created", id, now, fills)

SavePen(p, changed, now) ==
  /\ pens' = pens \cup {p}
  /\ UNCHANGED <<inks, swatches, settings>>
  /\ RecordSave(settings.record_pen_changes, p \in pens, changed, p, now)

WithoutPen(p) == {f \in fills : f.pen # p}

DeletePen(p, now) ==
  /\ p \in pens
  /\ pens' = pens \ {p}
  /\ UNCHANGED <<inks, swatches, settings>>
  /\ Record(settings.record_deletions, "deleted", p, now, WithoutPen(p))

SaveInk(i, changed, now) ==
  /\ inks' = inks \cup {i}
  /\ UNCHANGED <<pens, swatches, settings>>
  /\ RecordSave(settings.record_ink_changes, i \in inks, changed, i, now)

CanDeleteInk(i) == i \in inks /\ ~ \E f \in fills : f.ink = i /\ f.emptied = Open

WithoutInk(i) == {f \in fills : f.ink # i}

DeleteInk(i, now) ==
  /\ CanDeleteInk(i)
  /\ inks' = inks \ {i}
  /\ swatches' = {s \in swatches : s.ink_id # i}
  /\ UNCHANGED <<pens, settings>>
  /\ Record(settings.record_deletions, "deleted", i, now, WithoutInk(i))

SaveSwatch(id, i, changed, now) ==
  LET new == [id |-> id, ink_id |-> i]
      old == {s \in swatches : s.id = id}
  IN /\ i \in inks
     /\ swatches' = (swatches \ old) \cup {new}
     /\ UNCHANGED <<pens, inks, settings>>
     /\ RecordSave(settings.record_swatches, old # {}, changed \/ old # {new}, id, now)

DeleteSwatch(id, now) ==
  LET old == {s \in swatches : s.id = id}
  IN /\ old # {}
     /\ swatches' = swatches \ old
     /\ UNCHANGED <<pens, inks, settings>>
     /\ Record(settings.record_deletions, "deleted", id, now, fills)

UpdateSettings(s, now) ==
  /\ settings' = s
  /\ UNCHANGED <<pens, inks, swatches>>
  /\ Finish(fills, activity, now)

-----------------------------------------------------------------------------
\* An empty folder: Collection::default.
Init ==
  /\ pens = {}
  /\ inks = {}
  /\ swatches = {}
  /\ fills = {}
  /\ activity = {}
  /\ settings \in SettingsChoices

InkChange(p, now) ==
  \/ \E i \in Inks, at \in Times : InkPen(p, i, at, now)
  \/ \E at \in Times : FlushPen(p, at, now)
  \/ \E at \in Times : UndoInkChange(p, at, now)

Save(now) ==
  \E changed \in BOOLEAN :
    \/ \E p \in Pens : SavePen(p, changed, now)
    \/ \E i \in Inks : SaveInk(i, changed, now)
    \/ \E id \in Swatches, i \in Inks : SaveSwatch(id, i, changed, now)

Delete(now) ==
  \/ \E p \in Pens : DeletePen(p, now)
  \/ \E i \in Inks : DeleteInk(i, now)
  \/ \E id \in Swatches : DeleteSwatch(id, now)

\* now is the server's clock when the command arrives; nothing makes it rise
\* from one command to the next.
Next ==
  \E now \in Clock :
    \/ \E p \in Pens : InkChange(p, now)
    \/ Save(now)
    \/ Delete(now)
    \/ \E s \in SettingsChoices : UpdateSettings(s, now)

Spec == Init /\ [][Next]_vars

\* A collection that was restored, imported or found in the file at start: any
\* that passes validation, which leaves the order of the Vecs and the activity open.
Ranked(F) == \A f, g \in F : f.seq = g.seq => f = g

Brought == TypeOK /\ Ranked(fills) /\ Valid

BroughtSpec == Brought /\ [][Next]_vars

-----------------------------------------------------------------------------
(* Properties.                                                             *)

\* A pen's history is a timeline: fills follow each other in the order they were
\* recorded, each emptied before or when the next begins, so that only the last
\* can be open.  validate.rs only compares neighbours in date order, and undo
\* reopens fills in the middle of the Vec.
Chronological ==
  \A f, g \in fills :
    f.pen = g.pen /\ f.seq < g.seq => f.emptied # Open /\ f.emptied <= g.inked

\* What a command accepts does not fail the validation that follows it: once
\* inking, flushing or deleting has passed its own checks (dates, ink in use), the
\* user does not get "the collection is invalid" instead of a result.  There is one
\* exception: an inking dated before 1970, of a pen whose history is empty.  (Another
\* is not about fills: with the clock set before 1970, recording a deletion fails.)
AcceptedStaysValid ==
  /\ \A p \in pens, i \in inks, at \in Times, r \in Ranks :
       CanInk(p, i, at) /\ IsNext(r) =>
         \/ ValidFills(Inked(p, i, at, r), pens, inks) /\ at > 0
         \/ FillsOf(p) = {} /\ at <= 0
  /\ \A p \in pens, at \in Times :
       CanFlush(p, at) => ValidFills(Emptied(p, at), pens, inks) /\ at > 0
  /\ \A p \in pens : ValidFills(WithoutPen(p), pens \ {p}, inks)
  /\ \A i \in inks : CanDeleteInk(i) => ValidFills(WithoutInk(i), pens, inks \ {i})

\* The activity page explains the ink history: a finished fill still in the
\* history has the entry that says it was flushed or replaced, at that moment,
\* whatever was deleted, undone or pruned since.
FinishedFillsAreRecorded ==
  \A f \in fills : f.emptied # Open =>
    \E e \in activity : /\ e.id = f.pen
                        /\ e.at = f.emptied
                        /\ e.action \in {"reinked", "flushed"}
                        /\ e.previous = f.ink

\* Undo gives back the ink the recorded change took out of the pen, and empties
\* a pen the change had filled, as long as the fill that held that ink is still
\* in the history and young enough to stay there.
UndoGivesBackTheInk ==
  [][\A now \in Times : \A e \in activity \ activity' :
       /\ IsLast(e, InkChanges(e.id, e.at))
       /\ SurvivesRetention(e.at, settings, now)
       /\ \/ e.previous = NoInk
          \/ \E f \in FillsOf(e.id) : f.ink = e.previous /\ f.emptied = e.at
       /\ UndoInkChange(e.id, e.at, now)
       => Holds(e.id, e.previous)']_vars

\* Undoing an ink change at once gives the history as it was, except for what had
\* become too old meanwhile: if the change is young enough to be in the activity,
\* and no earlier fill ended at the moment the pen's ink was taken out.
UndoTakesBackTheChange ==
  [][\A e \in activity' \ activity : \A now \in Times :
       /\ FlushPen(e.id, e.at, now) \/ \E i \in Inks : InkPen(e.id, i, e.at, now)
       /\ Holds(e.id, NoInk) \/ \A f \in FillsOf(e.id) : f.emptied # e.at
       => /\ CanUndo(e.id, e.at)'
          /\ \A action \in InkActions \cup {"none"} :
               RecordedAction(e.id, e.at, action)' =>
                 Undone(e.id, e.at, action)' = KeptFills(fills, settings, now)]_vars

\* The ink that is in a pen stays there, with its date, until someone inks,
\* flushes or undoes that very pen or deletes it: no retention limit, no other
\* pen's change and no deletion forgets it.
CurrentInkIsNeverForgotten ==
  [][\A f \in fills :
       f.emptied = Open /\ f.pen \in pens' =>
         \/ f \in fills'
         \/ \E now \in Times : InkChange(f.pen, now)]_vars

\* Undo is available for the change it is offered for, unless two fills of the pen
\* ended at that very moment: what the activity says of the change, which pruning,
\* deleting and earlier undos take entries from, is still what the fills show.
UndoIsRefusedForTwoEndsOnly ==
  \A p \in pens, at \in Times, action \in InkActions \cup {"none"} :
    /\ CanUndo(p, at)
    /\ RecordedAction(p, at, action)
    /\ \/ action = "inked"
       \/ \A f, g \in FillsOf(p) : f.emptied = at /\ g.emptied = at => f = g
    => ValidFills(Undone(p, at, action), pens, inks)

\* Undo has to be available for the change it is offered for: the undo of a
\* pen's latest change passes the validation that follows it.  The tests state
\* it of every command (tests/commands.rs:12): "a successful command leaves a
\* valid collection".  It does not hold: see the README.
UndoStaysValid ==
  \A p \in pens, at \in Times, action \in InkActions \cup {"none"} :
    CanUndo(p, at) /\ RecordedAction(p, at, action) =>
      ValidFills(Undone(p, at, action), pens, inks)

\* "A successful command leaves a valid collection" (tests/commands.rs:12), of an
\* inking: what ink_pen accepts passes the validation.  It does not hold of a date
\* before 1970: see the README.
InkingStaysValid ==
  \A p \in pens, i \in inks, at \in Times, r \in Ranks :
    CanInk(p, i, at) /\ IsNext(r) => ValidFills(Inked(p, i, at, r), pens, inks)

\* Undo is to "take back a pen's latest inking, re-ink or flush"
\* (commands.rs:31): right after an inking, undoing it would leave the pen with
\* the ink it had before.  It does not hold for an inking dated before the
\* retention limit: see the README.
InkingCanBeTakenBack ==
  [][\A p \in Pens, i \in Inks, at, now \in Times, x \in Inks :
       InkPen(p, i, at, now) /\ Holds(p, x) =>
         \A action \in InkActions \cup {"none"} :
           RecordedAction(p, at, action)' =>
             (\E f \in Undone(p, at, action) : f.pen = p /\ f.ink = x /\ f.emptied = Open)']_vars
=============================================================================
