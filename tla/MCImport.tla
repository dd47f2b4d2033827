------------------------------- MODULE MCImport -------------------------------
(* A small instance of Import for TLC. *)
EXTENDS Import, SequencesExt

CONSTANTS x, y, z, oldPen, oldSwatch, ownInk

MCSectionOf == [p \in Paths |-> CASE p = oldPen -> "pen" [] p = oldSwatch -> "swatch" [] OTHER -> "ink"]

MCPhoto(seq, path, primary) == [seq |-> seq, path |-> path, primary |-> primary]

MCItem(kind, seq, id, named, of, photos) ==
  [kind |-> kind, seq |-> seq, id |-> id, named |-> named, of |-> of,
   details |-> {"price", "notes"}, photos |-> photos]

MCEntry(seq, at, kind, action, id, ink) ==
  [seq |-> seq, at |-> at, kind |-> kind, action |-> action, id |-> id, ink |-> ink,
   previous |-> y]

MCDocument(items, log, inked) ==
  [items |-> items, log |-> log, inked |-> inked, retention |-> Cardinality(log),
   keep |-> 0, showcase |-> Flags, files |-> {oldPen, oldSwatch}]

\* What 2.x data may have wrong with ids, names, photos and references.
MCPhotos ==
  {{}, {MCPhoto(1, oldPen, FALSE)},
   {MCPhoto(1, oldPen, TRUE), MCPhoto(2, oldSwatch, TRUE), MCPhoto(3, oldPen, FALSE)}}

MCLog ==
  <<MCEntry(1, 1, "swatch", "created", y, NoId), MCEntry(2, 2, "pen", "inked", x, y),
    MCEntry(3, 2, "ink", "updated", z, NoId), MCEntry(4, 0, "pen", "inked", x, z),
    MCEntry(5, 2, "other", "other", x, z)>>

MCItemDocuments ==
  {MCDocument(
     {MCItem("pen", 1, a, n, NoId, photos), MCItem("pen", 2, x, TRUE, NoId, {}),
      MCItem("ink", 3, b, n, NoId, {}),
      MCItem("swatch", 4, c, FALSE, o, {MCPhoto(1, oldSwatch, FALSE)})},
     ToSet(MCLog), {[seq |-> 9, pen |-> x, ink |-> y, at |-> 1]}) :
   a \in {x, NoId}, b \in {x, y}, c \in {x, z}, o \in {x, y}, n \in BOOLEAN,
   photos \in MCPhotos}

\* Histories of one pen: up to three entries, and what 2.x says it holds now.  The
\* inks are alike: z is not the first.
MCSteps ==
  {MCEntry(0, at, "pen", action, x, ink) :
     at \in {1, 2}, action \in {"inked"}, ink \in {y, z}}
  \cup {MCEntry(0, at, "pen", "cleaned", x, NoId) : at \in {1, 2}}

MCLogs ==
  {{[s[n] EXCEPT !.seq = n] : n \in DOMAIN s} :
     s \in {t \in UNION {[1..n -> MCSteps] : n \in 0..3} : t # <<>> => t[1].ink # z}}

MCInkDocuments ==
  {MCDocument(
     {MCItem("pen", 1, x, TRUE, NoId, {}), MCItem("ink", 2, y, TRUE, NoId, {}),
      MCItem("ink", 3, z, TRUE, NoId, {})}, log, inked) :
   log \in MCLogs,
   inked \in {{}} \cup {{[seq |-> 9, pen |-> x, ink |-> i, at |-> at]} : i \in {y, z}, at \in 1..3}}

MCDocuments == MCItemDocuments \cup MCInkDocuments

MCChoices ==
  {Flags, Flags \ {"pens", "activity"}, Flags \ {"inks", "activity"},
   Flags \ {"swatches", "notes", "activity"}}
=============================================================================
