------------------------------- MODULE Showcase -------------------------------
(***************************************************************************)
(* What a visitor is told of the collection (core/src/public.rs).          *)
(*                                                                         *)
(* A collection is a record of sets: items [seq, id, of, photos, details,  *)
(* notes_public], fills [seq, pen, ink, inked, emptied, noted] and entries *)
(* of the activity log [seq, at, kind, action, id, ink, previous].  seq is *)
(* the place in the list.  showcase is the set of settings.showcase's      *)
(* flags that are on; the ones for prices, dates, shops and notes have the *)
(* names of the details they show.                                         *)
(***************************************************************************)
EXTENDS Integers, FiniteSets

CONSTANTS
  RECENT_ACTIVITY_LIMIT,
  NoId                     \* an absent or an empty id

ASSUME LimitAssumption == RECENT_ACTIVITY_LIMIT \in Nat

Details == {"price", "purchased_on", "purchased_from", "notes"}
Flags == Details \cup
  {"enabled", "pens", "inks", "swatches", "activity", "recent_activity"}

Inkings == {"inked", "reinked", "flushed"}

IdsOf(items) == {i.id : i \in items}

-----------------------------------------------------------------------------
\* Prices, purchases and notes only as far as they are shown.
Shown(items, s) ==
  {[i EXCEPT !.details = {d \in @ \cap s : d = "notes" => i.notes_public}] : i \in items}

ShowPens(s) == "pens" \in s
ShowInks(s) == "inks" \in s
ShowSwatches(s) == "swatches" \in s /\ ShowInks(s)

Pens(c) == IF ShowPens(c.showcase) THEN Shown(c.pens, c.showcase) ELSE {}
Inks(c) == IF ShowInks(c.showcase) THEN Shown(c.inks, c.showcase) ELSE {}
Swatches(c) == IF ShowSwatches(c.showcase) THEN Shown(c.swatches, c.showcase) ELSE {}

\* VARIANT: a fill is shown with its ink alone.
FillsOfInks(c) == {[f EXCEPT !.noted = FALSE] : f \in {g \in c.fills : g.ink \in IdsOf(Inks(c))}}

Fills(c) ==
  {[f EXCEPT !.noted = FALSE] :
    f \in {g \in c.fills : g.pen \in IdsOf(Pens(c)) /\ g.ink \in IdsOf(Inks(c))}}

\* The entries that may be told at all.
Told(c) ==
  {e \in c.activity :
    /\ \/ e.kind = "pen" /\ ShowPens(c.showcase)
       \/ e.kind = "ink" /\ ShowInks(c.showcase)
       \/ e.kind = "swatch" /\ ShowSwatches(c.showcase)
    /\ e.action \in Inkings => ShowInks(c.showcase)}

If(id, shown) == IF id \in shown THEN id ELSE NoId

PublicActivity(c, e) ==
  [e EXCEPT !.id = If(@, CASE e.kind = "pen" -> IdsOf(Pens(c))
                           [] e.kind = "ink" -> IdsOf(Inks(c))
                           [] OTHER -> IdsOf(Swatches(c))),
            !.ink = If(@, IdsOf(Inks(c))),
            !.previous = If(@, IdsOf(Inks(c)))]

\* Entries in the order they are told in: the newest first.
Newer(e, f) == e.at > f.at \/ (e.at = f.at /\ e.seq < f.seq)

Newest(entries, n) == {e \in entries : Cardinality({f \in entries : Newer(f, e)}) < n}

\* VARIANT: the limit is applied before what is hidden is left out.
ActivityCutFirst(c) ==
  LET told == Told([c EXCEPT !.activity = Newest(@, RECENT_ACTIVITY_LIMIT)])
  IN {PublicActivity(c, e) : e \in
        IF "activity" \in c.showcase THEN Told(c)
        ELSE IF "recent_activity" \in c.showcase THEN told ELSE {}}

Activity(c) ==
  LET told == {PublicActivity(c, e) : e \in Told(c)}
  IN IF "activity" \in c.showcase THEN told
     ELSE IF "recent_activity" \in c.showcase THEN Newest(told, RECENT_ACTIVITY_LIMIT)
     ELSE {}

\* Nothing, when there is no showcase.
project(c) ==
  IF "enabled" \in c.showcase
  THEN [pens |-> Pens(c), inks |-> Inks(c), swatches |-> Swatches(c),
        fills |-> Fills(c), activity |-> Activity(c)]
  ELSE [pens |-> {}, inks |-> {}, swatches |-> {}, fills |-> {}, activity |-> {}]

\* The photos a visitor may load.
photo_paths(view) ==
  {p.path : p \in UNION {i.photos : i \in view.pens \cup view.inks \cup view.swatches}}

-----------------------------------------------------------------------------
(* What is promised of it.                                                 *)

\* Whatever a visitor is told about is something the visitor can see.
Closed(view) ==
  /\ \A f \in view.fills : f.pen \in IdsOf(view.pens) /\ f.ink \in IdsOf(view.inks)
  /\ \A w \in view.swatches : w.of \in IdsOf(view.inks)
  /\ \A e \in view.activity :
       /\ e.id \in IdsOf(view.pens \cup view.inks \cup view.swatches) \cup {NoId}
       /\ {e.ink, e.previous} \subseteq IdsOf(view.inks) \cup {NoId}

\* The collection of an owner who never entered what is hidden.
WithoutHidden(c) ==
  LET s == c.showcase
      public(items) ==
        {[i EXCEPT !.details = {d \in @ : d \in s /\ (d = "notes" => i.notes_public)}] :
          i \in items}
  IN [c EXCEPT
       !.pens = IF "pens" \in s THEN public(@) ELSE {},
       !.inks = IF "inks" \in s THEN public(@) ELSE {},
       !.swatches = IF {"inks", "swatches"} \subseteq s THEN public(@) ELSE {},
       !.fills = IF {"pens", "inks"} \subseteq s THEN {[f EXCEPT !.noted = FALSE] : f \in @}
                 ELSE {},
       !.activity = {e \in @ : /\ e.kind = "pen" => "pens" \in s
                               /\ e.kind = "swatch" => "swatches" \in s
                               /\ e.kind \in {"ink", "swatch"} \/ e.action \in Inkings
                                    => "inks" \in s}]
=============================================================================
