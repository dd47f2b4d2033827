---------------------------- MODULE CollectionProofs ----------------------------
(***************************************************************************)
(* What holds of Collection for every set of ids, every set of timestamps  *)
(* and every length of history: types, the timeline of each pen and the    *)
(* record of how its fills ended, from an empty folder; and, from any      *)
(* collection that passes validation, that what a command accepts passes   *)
(* validation again, that no ink is forgotten, and what undo does.         *)
(***************************************************************************)
EXTENDS Collection, WellFoundedInduction, NaturalsInduction, TLAPS

(* The induction hypothesis.  Chronological alone is not inductive: undo     *)
(* takes a fill back to open and needs to know that fills have distinct      *)
(* ranks and end no earlier than they begin.                                 *)
Timeline(F) ==
  /\ \A f, g \in F : f.seq = g.seq => f = g
  /\ \A f \in F : f.emptied # Open => f.inked <= f.emptied
  /\ \A f, g \in F : f.pen = g.pen /\ f.seq < g.seq => f.emptied # Open /\ f.emptied <= g.inked

(* What validation asks of each fill, its end left aside.                    *)
EachValid(F, P, I) == \A f \in F : f.pen \in P /\ f.ink \in I /\ f.inked > 0

IInv == TypeOK /\ Timeline(fills) /\ EachValid(fills, pens, inks)

-----------------------------------------------------------------------------
(* Every nonempty set of natural numbers has a least element.                *)
LEMMA LeastNatural ==
  ASSUME NEW S \in SUBSET Nat, S # {}
  PROVE  \E n \in S : \A m \in S : n <= m
<1> DEFINE R == OpToRel(<, Nat)
<1>1. \E x \in S : \A y \in S : ~ (<<y, x>> \in R)
  BY NatLessThanWellFounded, WFMin, Zenon
<1>2. \A x, y \in Nat : y < x => <<y, x>> \in R
  BY Zenon DEF OpToRel
<1> HIDE DEF R
<1>3. PICK x \in S : \A y \in S : ~ (<<y, x>> \in R)
  BY <1>1
<1>4. \A y \in S : ~ (y < x)
  BY <1>2, <1>3, Zenon
<1>5. \A y \in S : x <= y
  BY <1>4
<1> QED BY <1>5

(* The fields of a fill, as numbers.                                         *)
LEMMA FillFields ==
  ASSUME NEW f \in Fill
  PROVE  /\ f.seq \in Nat
         /\ f.inked \in Int
         /\ f.emptied # Open => f.emptied \in Int
         /\ f.pen \in Pens
         /\ f.ink \in Inks
<1>1. /\ f.seq \in Ranks
      /\ f.inked \in Times
      /\ f.emptied \in Times \cup {Open}
      /\ f.pen \in Pens
      /\ f.ink \in Inks
  BY DEF Fill
<1>2. Ranks \subseteq Nat
  BY RankAssumption DEF Ranks
<1> QED BY <1>1, <1>2, TimesAssumption

(* Pruning and deleting keep a timeline a timeline.                          *)
LEMMA TimelineSubset ==
  ASSUME NEW F, NEW G \in SUBSET F, Timeline(F)
  PROVE  Timeline(G)
BY DEF Timeline

(* On a timeline, the order of the dates is the order of the ranks.          *)
LEMMA SortedByRank ==
  ASSUME NEW F \in SUBSET Fill, Timeline(F),
         NEW f \in F, NEW g \in F, f.pen = g.pen, SortsBefore(f, g)
  PROVE  f.seq < g.seq
<1>1. /\ f.seq \in Int /\ g.seq \in Int
      /\ f.inked \in Int /\ g.inked \in Int
      /\ g.emptied # Open => g.emptied \in Int
  <2>1. f \in Fill /\ g \in Fill
    OBVIOUS
  <2> QED BY <2>1, FillFields
<1>2. CASE g.seq < f.seq
  <2>1. g.emptied # Open /\ g.emptied <= f.inked /\ g.inked <= g.emptied
    BY <1>2 DEF Timeline
  <2>2. g.inked <= f.inked
    BY <1>1, <2>1
  <2> QED BY <1>1, <1>2, <2>2 DEF SortsBefore
<1>3. CASE f.seq = g.seq
  BY <1>1, <1>3 DEF SortsBefore, Timeline
<1> QED BY <1>1, <1>2, <1>3

(* A timeline whose pens and inks exist passes validate.rs.                  *)
LEMMA TimelineIsValid ==
  ASSUME NEW F \in SUBSET Fill, NEW P, NEW I, Timeline(F), EachValid(F, P, I)
  PROVE  ValidFills(F, P, I)
<1>1. ASSUME NEW f \in F, NEW g \in F, Neighbours(F, f, g)
      PROVE  f.emptied # Open /\ f.emptied <= g.inked
  <2>1. f.pen = g.pen /\ SortsBefore(f, g)
    BY <1>1 DEF Neighbours
  <2>2. f.seq < g.seq
    BY <2>1, SortedByRank
  <2> QED BY <2>1, <2>2 DEF Timeline
<1> QED BY <1>1 DEF ValidFills, EachValid, Timeline

-----------------------------------------------------------------------------
(* A pen has at most one open fill.                                          *)
LEMMA OpenIsUnique ==
  ASSUME TypeOK, Timeline(fills), NEW p, NEW f \in OpenFills(p), NEW g \in OpenFills(p)
  PROVE  f = g
<1>1. /\ f \in fills /\ g \in fills
      /\ f.pen = g.pen /\ f.emptied = Open /\ g.emptied = Open
  BY DEF OpenFills, FillsOf
<1>2. f.seq \in Nat /\ g.seq \in Nat
  BY <1>1, FillFields DEF TypeOK
<1>3. ~ (f.seq < g.seq) /\ ~ (g.seq < f.seq)
  BY <1>1 DEF Timeline
<1>4. f.seq = g.seq
  BY <1>2, <1>3
<1> QED BY <1>1, <1>4 DEF Timeline

(* Emptying a pen at a date its open fill allows keeps the timelines, and    *)
(* leaves no fill of that pen open.                                          *)
LEMMA EmptiedTimeline ==
  ASSUME TypeOK, Timeline(fills), EachValid(fills, pens, inks),
         NEW p \in Pens, NEW at \in Times,
         \A f \in OpenFills(p) : f.inked <= at
  PROVE  /\ Emptied(p, at) \subseteq Fill
         /\ Timeline(Emptied(p, at))
         /\ EachValid(Emptied(p, at), pens, inks)
         /\ \A u \in Emptied(p, at) : \E f \in fills : u.seq = f.seq
         /\ \A u \in Emptied(p, at) :
              u.pen = p => \/ u.emptied = at
                           \/ u \in fills /\ u.emptied # Open
<1> DEFINE E == Emptied(p, at)
           Close(f) == IF IsFirst(f, OpenFills(p)) THEN [f EXCEPT !.emptied = at] ELSE f
<1>1. \A u \in E : \E f \in fills : u = Close(f)
  BY DEF Emptied
<1>2. fills \subseteq Fill
  BY DEF TypeOK
<1>3. ASSUME NEW f \in fills
      PROVE  /\ Close(f) \in Fill
             /\ Close(f).seq = f.seq
             /\ Close(f).pen = f.pen
             /\ Close(f).ink = f.ink
             /\ Close(f).inked = f.inked
             /\ \/ Close(f) = f
                \/ Close(f).emptied = at /\ f.emptied = Open /\ f \in OpenFills(p)
  BY <1>2 DEF Fill, IsFirst, OpenFills
<1>4. ASSUME NEW f \in OpenFills(p)
      PROVE  Close(f).emptied = at
  <2>1. \A g \in OpenFills(p) : g = f
    BY OpenIsUnique
  <2>2. f \in Fill
    BY <1>2 DEF OpenFills, FillsOf
  <2>3. f.seq <= f.seq
    BY <2>2, FillFields
  <2>4. IsFirst(f, OpenFills(p))
    BY <2>1, <2>3 DEF IsFirst
  <2> QED BY <2>2, <2>4 DEF Fill
<1>5. E \subseteq Fill
  BY <1>1, <1>3
<1>6. Timeline(E)
  <2>1. ASSUME NEW u \in E, NEW v \in E, u.seq = v.seq
        PROVE  u = v
    <3>1. PICK f \in fills : u = Close(f)
      BY <1>1
    <3>2. PICK g \in fills : v = Close(g)
      BY <1>1
    <3>3. f.seq = g.seq
      BY <1>3, <2>1, <3>1, <3>2
    <3>4. f = g
      BY <3>3 DEF Timeline
    <3> QED BY <3>1, <3>2, <3>4
  <2>2. ASSUME NEW u \in E, u.emptied # Open
        PROVE  u.inked <= u.emptied
    <3>1. PICK f \in fills : u = Close(f)
      BY <1>1
    <3>2. CASE u = f
      BY <2>2, <3>2 DEF Timeline
    <3>3. CASE u.emptied = at /\ f \in OpenFills(p)
      BY <1>3, <3>1, <3>3
    <3> QED BY <1>3, <3>1, <3>2, <3>3
  <2>3. ASSUME NEW u \in E, NEW v \in E, u.pen = v.pen, u.seq < v.seq
        PROVE  u.emptied # Open /\ u.emptied <= v.inked
    <3>1. PICK f \in fills : u = Close(f)
      BY <1>1
    <3>2. PICK g \in fills : v = Close(g)
      BY <1>1
    <3>3. f.emptied # Open /\ f.emptied <= g.inked
      BY <1>3, <2>3, <3>1, <3>2 DEF Timeline
    <3> QED BY <1>3, <3>1, <3>2, <3>3
  <2> QED BY <2>1, <2>2, <2>3 DEF Timeline
<1>7. EachValid(E, pens, inks)
  BY <1>1, <1>3 DEF EachValid
<1>8. \A u \in E : \E f \in fills : u.seq = f.seq
  BY <1>1, <1>3
<1>9. ASSUME NEW u \in E, u.pen = p
      PROVE  \/ u.emptied = at
             \/ u \in fills /\ u.emptied # Open
  <2>1. PICK f \in fills : u = Close(f)
    BY <1>1
  <2>2. CASE f \in OpenFills(p)
    BY <1>4, <2>1, <2>2
  <2>3. CASE f \notin OpenFills(p)
    <3>1. u = f
      BY <2>1, <2>3 DEF IsFirst
    <3> QED BY <1>9, <2>3, <3>1 DEF OpenFills, FillsOf
  <2> QED BY <2>2, <2>3
<1> QED BY <1>5, <1>6, <1>7, <1>8, <1>9

(* A fill pushed where ink_pen allows it extends the pen's timeline; it is   *)
(* valid when it is dated after 1970 began.                                  *)
LEMMA InkedTimeline ==
  ASSUME TypeOK, Timeline(fills), EachValid(fills, pens, inks),
         NEW p \in Pens, NEW i \in Inks, NEW at \in Times, NEW r \in Ranks,
         CanInk(p, i, at), IsNext(r)
  PROVE  /\ Inked(p, i, at, r) \subseteq Fill
         /\ Timeline(Inked(p, i, at, r))
         /\ at > 0 => EachValid(Inked(p, i, at, r), pens, inks)
<1> DEFINE E == Emptied(p, at)
           new == [seq |-> r, pen |-> p, ink |-> i, inked |-> at, emptied |-> Open]
<1>1. fills \subseteq Fill /\ r \in Nat /\ at \in Int /\ at # Open
  BY TimesAssumption, RankAssumption, OpenAssumption DEF TypeOK, Ranks
<1>2. \A f \in fills : f.pen = p => LastMoment(f) <= at
  BY DEF CanInk, NotBeforeLastChange, FillsOf
<1>3. \A f \in OpenFills(p) : f.inked <= at
  BY <1>2 DEF OpenFills, FillsOf, LastMoment
<1>4. /\ E \subseteq Fill
      /\ Timeline(E)
      /\ EachValid(E, pens, inks)
      /\ \A u \in E : \E f \in fills : u.seq = f.seq
      /\ \A u \in E : u.pen = p => u.emptied = at \/ (u \in fills /\ u.emptied # Open)
  BY <1>3, EmptiedTimeline
<1>5. new \in Fill
  BY DEF Fill
<1>6. \A u \in E : u.seq < r
  BY <1>4 DEF IsNext, Used
<1>7. ASSUME NEW u \in E, u.pen = p
      PROVE  u.emptied # Open /\ u.emptied <= at
  <2>1. CASE u.emptied = at
    BY <1>1, <2>1
  <2>2. CASE u \in fills /\ u.emptied # Open
    BY <1>2, <1>7, <2>2 DEF LastMoment
  <2> QED BY <1>4, <1>7, <2>1, <2>2
<1>8. Inked(p, i, at, r) = E \cup {new}
  BY DEF Inked
<1>9. \A u \in E : u.seq \in Nat
  BY <1>4, FillFields
<1>10. Timeline(E \cup {new})
  <2>1. \A u, v \in E \cup {new} : u.seq = v.seq => u = v
    BY <1>1, <1>4, <1>6, <1>9 DEF Timeline
  <2>2. \A u \in E \cup {new} : u.emptied # Open => u.inked <= u.emptied
    BY <1>4 DEF Timeline
  <2>3. \A u, v \in E \cup {new} :
          u.pen = v.pen /\ u.seq < v.seq => u.emptied # Open /\ u.emptied <= v.inked
    BY <1>1, <1>4, <1>6, <1>7, <1>9 DEF Timeline
  <2> QED BY <2>1, <2>2, <2>3 DEF Timeline
<1>11. at > 0 => EachValid(E \cup {new}, pens, inks)
  BY <1>4 DEF EachValid, CanInk
<1> QED BY <1>4, <1>5, <1>8, <1>10, <1>11

(* What undo reopens is the end of the timeline.  Undo only looks for a fill *)
(* with the right date, and several fills of a pen can have ended at that    *)
(* date; validate.rs refuses the result unless it was the last one.          *)
LEMMA UndoneTimeline ==
  ASSUME TypeOK, Timeline(fills), EachValid(fills, pens, inks),
         NEW p, NEW at, NEW action,
         NEW F \in SUBSET Undone(p, at, action), ValidFills(F, pens, inks)
  PROVE  /\ F \subseteq Fill
         /\ Timeline(F)
         /\ EachValid(F, pens, inks)
<1> DEFINE left == Unstarted(p, at, action)
           closed == {f \in left : f.pen = p /\ f.emptied = at}
           Reopen(f) ==
             IF action # "inked" /\ IsFirst(f, closed) THEN [f EXCEPT !.emptied = Open] ELSE f
<1>1. \A u \in F : \E f \in fills : u = Reopen(f)
  BY DEF Undone, Unstarted
<1>2. ASSUME NEW f \in fills
      PROVE  /\ f \in Fill
             /\ Reopen(f) \in Fill
             /\ Reopen(f).seq = f.seq
             /\ Reopen(f).pen = f.pen
             /\ Reopen(f).ink = f.ink
             /\ Reopen(f).inked = f.inked
             /\ Reopen(f) = f \/ Reopen(f).emptied = Open
  BY DEF TypeOK, Fill
<1>3. F \subseteq Fill
  BY <1>1, <1>2
<1>4. EachValid(F, pens, inks)
  BY <1>1, <1>2 DEF EachValid
<1> HIDE DEF Reopen
<1>5. \A u, v \in F : u.seq = v.seq => u = v
  <2>1. ASSUME NEW u \in F, NEW v \in F, u.seq = v.seq
        PROVE  u = v
    <3>1. PICK f \in fills : u = Reopen(f)
      BY <1>1
    <3>2. PICK g \in fills : v = Reopen(g)
      BY <1>1
    <3>3. f = g
      BY <1>2, <2>1, <3>1, <3>2 DEF Timeline
    <3> QED BY <3>1, <3>2, <3>3
  <2> QED BY <2>1
<1>6. \A u \in F : u.emptied # Open => u.inked <= u.emptied
  BY <1>1, <1>2 DEF Timeline
<1>7. \A u \in F : u.seq \in Nat /\ u.inked \in Int
  BY <1>3, FillFields
(* The dates rise with the ranks as they did before, ...                     *)
<1>8. ASSUME NEW u \in F, NEW v \in F, u.pen = v.pen, u.seq < v.seq
      PROVE  SortsBefore(u, v)
  <2>1. PICK f \in fills : u = Reopen(f)
    BY <1>1
  <2>2. PICK g \in fills : v = Reopen(g)
    BY <1>1
  <2>3. f.emptied # Open /\ f.emptied <= g.inked /\ f.inked <= f.emptied
    BY <1>2, <1>8, <2>1, <2>2 DEF Timeline
  <2>4. f.emptied \in Int /\ f.inked \in Int /\ g.inked \in Int
    BY <1>2, <2>3, FillFields
  <2>5. u.inked <= v.inked
    BY <1>2, <2>1, <2>2, <2>3, <2>4
  <2> QED BY <1>7, <1>8, <2>5 DEF SortsBefore
<1>9. ASSUME NEW u \in F, NEW v \in F, u.pen = v.pen, SortsBefore(u, v)
      PROVE  u.seq < v.seq
  <2>1. CASE v.seq < u.seq
    <3>1. SortsBefore(v, u)
      BY <1>8, <1>9, <2>1
    <3> QED BY <1>7, <1>9, <3>1 DEF SortsBefore
  <2>2. CASE u.seq = v.seq
    BY <1>5, <1>7, <1>9, <2>2 DEF SortsBefore
  <2> QED BY <1>7, <2>1, <2>2
(* ... so a fill that has a later one has a neighbour, and validation looks  *)
(* at the two.                                                               *)
<1>10. ASSUME NEW u \in F, NEW v \in F, u.pen = v.pen, u.seq < v.seq
       PROVE  u.emptied # Open
  <2> DEFINE Later == {w \in F : w.pen = u.pen /\ u.seq < w.seq}
             S == {w.seq : w \in Later}
  <2>1. S \in SUBSET Nat /\ S # {}
    BY <1>7, <1>10
  <2>2. PICK n \in S : \A m \in S : n <= m
    BY <2>1, LeastNatural
  <2>3. PICK w \in Later : w.seq = n
    BY <2>2
  <2>4. \A h \in Later : w.seq <= h.seq
    BY <2>2, <2>3
  <2>5. w \in F /\ w.pen = u.pen /\ u.seq < w.seq
    BY <2>3
  <2>6. SortsBefore(u, w)
    BY <1>8, <2>5
  <2>7. ASSUME NEW h \in F, h.pen = u.pen, SortsBefore(u, h), SortsBefore(h, w)
        PROVE  FALSE
    <3>1. u.seq < h.seq /\ h.seq < w.seq
      BY <1>9, <2>5, <2>7
    <3>2. h \in Later
      BY <2>7, <3>1
    <3>3. w.seq <= h.seq
      BY <2>4, <3>2
    <3> QED BY <1>7, <2>5, <3>1, <3>3
  <2>8. Neighbours(F, u, w)
    BY <2>5, <2>6, <2>7 DEF Neighbours
  <2> QED BY <2>5, <2>8 DEF ValidFills
<1>11. ASSUME NEW u \in F, NEW v \in F, u.pen = v.pen, u.seq < v.seq
       PROVE  u.emptied # Open /\ u.emptied <= v.inked
  <2>1. PICK f \in fills : u = Reopen(f)
    BY <1>1
  <2>2. PICK g \in fills : v = Reopen(g)
    BY <1>1
  <2>3. u.emptied # Open
    BY <1>10, <1>11
  <2>4. u = f
    BY <1>2, <2>1, <2>3
  <2>5. f.emptied <= g.inked
    BY <1>2, <1>11, <2>1, <2>2 DEF Timeline
  <2> QED BY <1>2, <2>2, <2>3, <2>4, <2>5
<1>12. Timeline(F)
  BY <1>5, <1>6, <1>11 DEF Timeline
<1> QED BY <1>3, <1>4, <1>12

-----------------------------------------------------------------------------
(* The end of every command: pruning only drops fills and entries, and the   *)
(* validation that passed gives the references.                              *)
LEMMA FinishKeeps ==
  ASSUME NEW F \in SUBSET Fill, NEW A \in SUBSET Entry, NEW now,
         Timeline(F), Finish(F, A, now),
         pens' \subseteq Pens, inks' \subseteq Inks,
         swatches' \subseteq [id : Swatches, ink_id : Inks],
         settings' \in SettingsChoices
  PROVE  IInv'
<1>1. fills' \subseteq F /\ activity' \subseteq A
  BY DEF Finish, KeptFills, KeptActivity
<1>2. Timeline(fills')
  BY <1>1, TimelineSubset
<1>3. EachValid(fills', pens', inks')
  BY DEF Finish, Valid, ValidFills, EachValid
<1>4. TypeOK'
  BY <1>1 DEF TypeOK
<1> QED BY <1>2, <1>3, <1>4 DEF IInv, Timeline, EachValid

(* An entry that may be recorded leaves the activity well typed.             *)
LEMMA RecordFinishes ==
  ASSUME TypeOK, NEW on, NEW action \in Actions, NEW id \in Pens \cup Inks \cup Swatches,
         NEW now \in Times, NEW F, Record(on, action, id, now, F)
  PROVE  \E A \in SUBSET Entry : Finish(F, A, now)
<1>1. CASE ~ on /\ Finish(F, activity, now)
  BY <1>1 DEF TypeOK
<1>2. CASE \E r \in Ranks :
             Finish(F, activity \cup {InkEntry(id, now, action, NoInk, r)}, now)
  <2>1. PICK r \in Ranks : Finish(F, activity \cup {InkEntry(id, now, action, NoInk, r)}, now)
    BY <1>2
  <2>2. InkEntry(id, now, action, NoInk, r) \in Entry
    BY DEF InkEntry, Entry
  <2> QED BY <2>1, <2>2 DEF TypeOK
<1> QED BY <1>1, <1>2 DEF Record

LEMMA RecordSaveFinishes ==
  ASSUME TypeOK, NEW on, NEW known, NEW changed, NEW id \in Pens \cup Inks \cup Swatches,
         NEW now \in Times, RecordSave(on, known, changed, id, now)
  PROVE  \E A \in SUBSET Entry : Finish(fills, A, now)
<1>1. (IF known THEN "updated" ELSE "created") \in Actions
  BY DEF Actions
<1> QED BY <1>1, RecordFinishes DEF RecordSave

-----------------------------------------------------------------------------
(* One lemma per command that touches the ink history.                       *)
LEMMA InkPenKeeps ==
  ASSUME IInv, NEW p \in Pens, NEW i \in Inks, NEW at \in Times, NEW now \in Times,
         InkPen(p, i, at, now)
  PROVE  IInv'
<1>1. PICK r \in Ranks, held \in Inks \cup {NoInk}, action \in {"inked", "reinked"} :
        /\ IsNext(r)
        /\ Finish(Inked(p, i, at, r), activity \cup {InkEntry(p, at, action, held, r)}, now)
  BY DEF InkPen
<1>2. InkEntry(p, at, action, held, r) \in Entry
  BY DEF InkEntry, Entry, Actions
<1>3. /\ Inked(p, i, at, r) \subseteq Fill
      /\ Timeline(Inked(p, i, at, r))
  BY <1>1, InkedTimeline DEF IInv, InkPen
<1> QED BY <1>1, <1>2, <1>3, FinishKeeps DEF IInv, TypeOK, InkPen

LEMMA FlushPenKeeps ==
  ASSUME IInv, NEW p \in Pens, NEW at \in Times, NEW now \in Times, FlushPen(p, at, now)
  PROVE  IInv'
<1>1. PICK r \in Ranks, held \in Inks :
        Finish(Emptied(p, at), activity \cup {InkEntry(p, at, "flushed", held, r)}, now)
  BY DEF FlushPen
<1>2. InkEntry(p, at, "flushed", held, r) \in Entry
  BY DEF InkEntry, Entry, Actions
<1>3. \A f \in OpenFills(p) : f.inked <= at
  BY OpenIsUnique DEF FlushPen, CanFlush, IInv
<1>4. /\ Emptied(p, at) \subseteq Fill
      /\ Timeline(Emptied(p, at))
  BY <1>3, EmptiedTimeline DEF IInv
<1> QED BY <1>1, <1>2, <1>4, FinishKeeps DEF IInv, TypeOK, FlushPen

LEMMA UndoInkChangeKeeps ==
  ASSUME IInv, NEW p \in Pens, NEW at \in Times, NEW now \in Times,
         UndoInkChange(p, at, now)
  PROVE  IInv'
<1> DEFINE A == {e \in activity : ~ IsLast(e, InkChanges(p, at))}
<1>1. PICK action \in InkActions \cup {"none"} : Finish(Undone(p, at, action), A, now)
  BY DEF UndoInkChange
<1>2. fills' \subseteq Undone(p, at, action) /\ ValidFills(fills', pens, inks)
  BY <1>1 DEF Finish, KeptFills, Valid, UndoInkChange
<1>3. /\ fills' \subseteq Fill
      /\ Timeline(fills')
      /\ EachValid(fills', pens, inks)
  BY <1>2, UndoneTimeline DEF IInv
<1>4. activity' \subseteq Entry
  BY <1>1 DEF Finish, KeptActivity, IInv, TypeOK
<1> QED BY <1>3, <1>4 DEF IInv, TypeOK, UndoInkChange, Timeline, EachValid

LEMMA InkChangeKeeps ==
  ASSUME IInv, NEW p \in Pens, NEW now \in Times, InkChange(p, now)
  PROVE  IInv'
BY InkPenKeeps, FlushPenKeeps, UndoInkChangeKeeps DEF InkChange

LEMMA SaveKeeps ==
  ASSUME IInv, NEW now \in Times, Save(now)
  PROVE  IInv'
<1>1. PICK changed \in BOOLEAN :
        \/ \E p \in Pens : SavePen(p, changed, now)
        \/ \E i \in Inks : SaveInk(i, changed, now)
        \/ \E id \in Swatches, i \in Inks : SaveSwatch(id, i, changed, now)
  BY DEF Save
<1>2. ASSUME NEW p \in Pens, SavePen(p, changed, now)
      PROVE  IInv'
  <2>1. PICK A \in SUBSET Entry : Finish(fills, A, now)
    BY <1>2, RecordSaveFinishes DEF IInv, SavePen
  <2> QED BY <1>2, <2>1, FinishKeeps DEF IInv, TypeOK, SavePen
<1>3. ASSUME NEW i \in Inks, SaveInk(i, changed, now)
      PROVE  IInv'
  <2>1. PICK A \in SUBSET Entry : Finish(fills, A, now)
    BY <1>3, RecordSaveFinishes DEF IInv, SaveInk
  <2> QED BY <1>3, <2>1, FinishKeeps DEF IInv, TypeOK, SaveInk
<1>4. ASSUME NEW id \in Swatches, NEW i \in Inks, SaveSwatch(id, i, changed, now)
      PROVE  IInv'
  <2> DEFINE new == [id |-> id, ink_id |-> i]
             old == {s \in swatches : s.id = id}
  <2>1. RecordSave(settings.record_swatches, old # {}, changed \/ old # {new}, id, now)
    BY <1>4 DEF SaveSwatch
  <2>2. PICK A \in SUBSET Entry : Finish(fills, A, now)
    BY <2>1, RecordSaveFinishes DEF IInv
  <2>3. swatches' \subseteq [id : Swatches, ink_id : Inks]
    BY <1>4 DEF SaveSwatch, IInv, TypeOK
  <2> QED BY <1>4, <2>2, <2>3, FinishKeeps DEF IInv, TypeOK, SaveSwatch
<1> QED BY <1>1, <1>2, <1>3, <1>4

LEMMA DeleteKeeps ==
  ASSUME IInv, NEW now \in Times, Delete(now)
  PROVE  IInv'
<1>0. "deleted" \in Actions
  BY DEF Actions
<1>1. ASSUME NEW p \in Pens, DeletePen(p, now)
      PROVE  IInv'
  <2>1. PICK A \in SUBSET Entry : Finish(WithoutPen(p), A, now)
    BY <1>0, <1>1, RecordFinishes DEF IInv, DeletePen
  <2>2. WithoutPen(p) \subseteq Fill /\ Timeline(WithoutPen(p))
    BY TimelineSubset DEF WithoutPen, IInv, TypeOK
  <2> QED BY <1>1, <2>1, <2>2, FinishKeeps DEF IInv, TypeOK, DeletePen
<1>2. ASSUME NEW i \in Inks, DeleteInk(i, now)
      PROVE  IInv'
  <2>1. PICK A \in SUBSET Entry : Finish(WithoutInk(i), A, now)
    BY <1>0, <1>2, RecordFinishes DEF IInv, DeleteInk
  <2>2. WithoutInk(i) \subseteq Fill /\ Timeline(WithoutInk(i))
    BY TimelineSubset DEF WithoutInk, IInv, TypeOK
  <2> QED BY <1>2, <2>1, <2>2, FinishKeeps DEF IInv, TypeOK, DeleteInk
<1>3. ASSUME NEW id \in Swatches, DeleteSwatch(id, now)
      PROVE  IInv'
  <2>1. PICK A \in SUBSET Entry : Finish(fills, A, now)
    BY <1>0, <1>3, RecordFinishes DEF IInv, DeleteSwatch
  <2> QED BY <1>3, <2>1, FinishKeeps DEF IInv, TypeOK, DeleteSwatch
<1> QED BY <1>1, <1>2, <1>3 DEF Delete

LEMMA UpdateSettingsKeeps ==
  ASSUME IInv, NEW now \in Times, NEW s \in SettingsChoices, UpdateSettings(s, now)
  PROVE  IInv'
BY FinishKeeps DEF IInv, TypeOK, UpdateSettings

LEMMA NextKeeps == IInv /\ [Next]_vars => IInv'
<1> SUFFICES ASSUME IInv, [Next]_vars
             PROVE  IInv'
  OBVIOUS
<1>1. ASSUME NEW now \in Times, NEW p \in Pens, InkChange(p, now)
      PROVE  IInv'
  BY <1>1, InkChangeKeeps
<1>2. ASSUME NEW now \in Times, Save(now)
      PROVE  IInv'
  BY <1>2, SaveKeeps
<1>3. ASSUME NEW now \in Times, Delete(now)
      PROVE  IInv'
  BY <1>3, DeleteKeeps
<1>4. ASSUME NEW now \in Times, NEW s \in SettingsChoices, UpdateSettings(s, now)
      PROVE  IInv'
  BY <1>4, UpdateSettingsKeeps
<1>5. CASE UNCHANGED vars
  BY <1>5 DEF vars, IInv, TypeOK, Timeline, EachValid
<1> QED BY <1>1, <1>2, <1>3, <1>4, <1>5 DEF Next, Clock

(* The inductive invariant.                                                  *)
THEOREM Inductive == Spec => []IInv
<1>1. Init => IInv
  BY DEF Init, IInv, TypeOK, Timeline, EachValid
<1> QED BY <1>1, NextKeeps, PTL DEF Spec

-----------------------------------------------------------------------------
(* Every part of the stored collection keeps its type.                       *)
THEOREM TypeCorrect == Spec => []TypeOK
<1>1. IInv => TypeOK
  BY DEF IInv
<1> QED BY <1>1, Inductive, PTL

(* Whatever the commands, their dates and their order, undo included, each   *)
(* pen's fills follow each other in the order they were recorded and only    *)
(* the last can be open: a pen never holds two inks.                         *)
THEOREM PensHoldOneInk == Spec => []Chronological
<1>1. IInv => Chronological
  BY DEF IInv, Timeline, Chronological
<1> QED BY <1>1, Inductive, PTL

-----------------------------------------------------------------------------
(* An open fill that the command left in place is not pruned.                *)
LEMMA OpenIsKept ==
  ASSUME NEW F, NEW A, NEW now, Finish(F, A, now), NEW f \in F, f.emptied = Open
  PROVE  f \in fills'
BY DEF Finish, KeptFills

LEMMA OthersInkChange ==
  ASSUME TypeOK, NEW q \in Pens, NEW now \in Times, InkChange(q, now),
         NEW f \in fills, f.emptied = Open, f.pen # q
  PROVE  f \in fills'
<1> DEFINE Close(g, at) == IF IsFirst(g, OpenFills(q)) THEN [g EXCEPT !.emptied = at] ELSE g
<1>1. ASSUME NEW at \in Times
      PROVE  f \in Emptied(q, at)
  <2>1. Close(f, at) = f
    BY DEF IsFirst, OpenFills, FillsOf
  <2> QED BY <2>1 DEF Emptied
<1>2. ASSUME NEW i \in Inks, NEW at \in Times, InkPen(q, i, at, now)
      PROVE  f \in fills'
  <2>1. \A r : f \in Inked(q, i, at, r)
    BY <1>1 DEF Inked
  <2> QED BY <1>2, <2>1, OpenIsKept DEF InkPen
<1>3. ASSUME NEW at \in Times, FlushPen(q, at, now)
      PROVE  f \in fills'
  BY <1>1, <1>3, OpenIsKept DEF FlushPen
<1>4. ASSUME NEW at \in Times, UndoInkChange(q, at, now)
      PROVE  f \in fills'
  <2>1. ASSUME NEW action
        PROVE  f \in Undone(q, at, action)
    <3>1. f \in Unstarted(q, at, action)
      BY DEF Unstarted, IsFirst, OpenFills, FillsOf
    <3> DEFINE closed == {g \in Unstarted(q, at, action) : g.pen = q /\ g.emptied = at}
    <3>2. f \notin closed
      OBVIOUS
    <3>3. (IF action # "inked" /\ IsFirst(f, closed) THEN [f EXCEPT !.emptied = Open] ELSE f) = f
      BY <3>2 DEF IsFirst
    <3> QED BY <3>1, <3>3 DEF Undone
  <2> QED BY <1>4, <2>1, OpenIsKept DEF UndoInkChange
<1> QED BY <1>2, <1>3, <1>4 DEF InkChange

LEMMA RecordedIsKept ==
  ASSUME NEW F, NEW f \in F, f.emptied = Open,
         NEW on, NEW action, NEW id, NEW now, Record(on, action, id, now, F)
  PROVE  f \in fills'
BY OpenIsKept DEF Record

LEMMA OnlyItsPenForgets ==
  TypeOK /\ [Next]_vars =>
    [\A f \in fills : f.emptied = Open /\ f.pen \in pens' =>
       \/ f \in fills'
       \/ \E now \in Times : InkChange(f.pen, now)]_vars
<1>1. ASSUME TypeOK, [Next]_vars,
             NEW f \in fills, f.emptied = Open, f.pen \in pens'
      PROVE  f \in fills' \/ \E now \in Times : InkChange(f.pen, now)
  <2>1. ASSUME NEW now \in Times, NEW q \in Pens, InkChange(q, now)
        PROVE  f \in fills' \/ InkChange(f.pen, now)
    <3>1. CASE f.pen = q
      BY <2>1, <3>1
    <3>2. CASE f.pen # q
      BY <1>1, <2>1, <3>2, OthersInkChange
    <3> QED BY <3>1, <3>2
  <2>2. ASSUME NEW now \in Times, Save(now)
        PROVE  f \in fills'
    BY <1>1, <2>2, RecordedIsKept DEF Save, SavePen, SaveInk, SaveSwatch, RecordSave
  <2>3. ASSUME NEW now \in Times, Delete(now)
        PROVE  f \in fills'
    <3>1. ASSUME NEW p \in Pens, DeletePen(p, now)
          PROVE  f \in fills'
      <4>1. f \in WithoutPen(p)
        BY <1>1, <3>1 DEF DeletePen, WithoutPen
      <4> QED BY <1>1, <3>1, <4>1, RecordedIsKept DEF DeletePen
    <3>2. ASSUME NEW i \in Inks, DeleteInk(i, now)
          PROVE  f \in fills'
      <4>1. f \in WithoutInk(i)
        BY <1>1, <3>2 DEF DeleteInk, CanDeleteInk, WithoutInk
      <4> QED BY <1>1, <3>2, <4>1, RecordedIsKept DEF DeleteInk
    <3>3. ASSUME NEW id \in Swatches, DeleteSwatch(id, now)
          PROVE  f \in fills'
      BY <1>1, <3>3, RecordedIsKept DEF DeleteSwatch
    <3> QED BY <2>3, <3>1, <3>2, <3>3 DEF Delete
  <2>4. ASSUME NEW now \in Times, NEW s \in SettingsChoices, UpdateSettings(s, now)
        PROVE  f \in fills'
    BY <1>1, <2>4, OpenIsKept DEF UpdateSettings
  <2>5. CASE UNCHANGED vars
    BY <2>5 DEF vars
  <2> QED BY <1>1, <2>1, <2>2, <2>3, <2>4, <2>5 DEF Next, Clock
<1> QED BY <1>1

-----------------------------------------------------------------------------
(* The entries that explain finished fills.  The hypothesis also needs that  *)
(* entries have distinct ranks: undo takes out the last one, and what it     *)
(* does depends on what that one says.                                       *)
DistinctEntries == \A d, e \in activity : d.seq = e.seq => d = e

Explains(e, f) == /\ f.seq < e.seq
                  /\ e.id = f.pen
                  /\ e.at = f.emptied
                  /\ e.action \in {"reinked", "flushed"}
                  /\ e.previous = f.ink

Explained(F, A) == \A f \in F : f.emptied # Open => \E e \in A : Explains(e, f)

EInv == IInv /\ DistinctEntries /\ Explained(fills, activity)

(* Fills and entries of one date are pruned together.                        *)
LEMMA FinishExplains ==
  ASSUME NEW F, NEW A, NEW now, Finish(F, A, now), Explained(F, A)
  PROVE  Explained(fills', activity')
<1> SUFFICES ASSUME NEW f \in fills', f.emptied # Open
             PROVE  \E e \in activity' : Explains(e, f)
  BY DEF Explained
<1>1. f \in F /\ SurvivesRetention(f.emptied, settings', now)
  BY DEF Finish, KeptFills
<1>2. PICK e \in A : Explains(e, f)
  BY <1>1 DEF Explained
<1>3. e \in KeptActivity(A, settings', now)
  BY <1>1, <1>2 DEF KeptActivity, Explains
<1> QED BY <1>2, <1>3 DEF Finish

LEMMA FewerEntries ==
  ASSUME DistinctEntries, activity' \subseteq activity
  PROVE  DistinctEntries'
BY DEF DistinctEntries

LEMMA OneMoreEntry ==
  ASSUME TypeOK, DistinctEntries, NEW r \in Ranks, IsNext(r),
         NEW e, e.seq = r, activity' \subseteq activity \cup {e}
  PROVE  DistinctEntries'
<1>1. \A d \in activity : d.seq \in Nat /\ d.seq < r
  BY RankAssumption DEF IsNext, Used, TypeOK, Entry, Ranks
<1>2. r \in Nat
  BY RankAssumption DEF Ranks
<1> QED BY <1>1, <1>2 DEF DistinctEntries

(* What a command that changes no ink leaves stays explained.                *)
LEMMA RecordExplains ==
  ASSUME EInv, NEW F \in SUBSET fills, NEW on, NEW action, NEW id, NEW now,
         Record(on, action, id, now, F)
  PROVE  DistinctEntries' /\ Explained(fills', activity')
<1>1. CASE Finish(F, activity, now)
  <2>1. Explained(F, activity)
    BY DEF EInv, Explained
  <2>2. activity' \subseteq activity
    BY <1>1 DEF Finish, KeptActivity
  <2> QED BY <1>1, <2>1, <2>2, FinishExplains, FewerEntries DEF EInv
<1>2. ASSUME NEW r \in Ranks, IsNext(r),
             Finish(F, activity \cup {InkEntry(id, now, action, NoInk, r)}, now)
      PROVE  DistinctEntries' /\ Explained(fills', activity')
  <2> DEFINE e == InkEntry(id, now, action, NoInk, r)
  <2>1. Explained(F, activity \cup {e})
    BY DEF EInv, Explained
  <2>2. activity' \subseteq activity \cup {e}
    BY <1>2 DEF Finish, KeptActivity
  <2>3. e.seq = r
    BY DEF InkEntry
  <2>4. TypeOK /\ DistinctEntries
    BY DEF EInv, IInv
  <2> HIDE DEF e
  <2>5. DistinctEntries'
    BY <1>2, <2>2, <2>3, <2>4, OneMoreEntry
  <2> QED BY <1>2, <2>1, <2>5, FinishExplains DEF e
<1> QED BY <1>1, <1>2 DEF Record

(* The fill that inking or flushing closes is explained by the entry that    *)
(* either of them records.                                                   *)
LEMMA ClosingIsExplained ==
  ASSUME EInv, NEW p \in Pens, NEW at \in Times, NEW e, e.id = p, e.at = at,
         IsNext(e.seq),
         \A f \in OpenFills(p) : e.action \in {"reinked", "flushed"} /\ e.previous = f.ink
  PROVE  Explained(Emptied(p, at), activity \cup {e})
<1> SUFFICES ASSUME NEW u \in Emptied(p, at), u.emptied # Open
             PROVE  \E d \in activity \cup {e} : Explains(d, u)
  BY DEF Explained
<1>1. PICK f \in fills :
        u = IF IsFirst(f, OpenFills(p)) THEN [f EXCEPT !.emptied = at] ELSE f
  BY DEF Emptied
<1>2. CASE IsFirst(f, OpenFills(p))
  <2>1. f \in OpenFills(p) /\ f \in Fill
    BY <1>2 DEF IsFirst, EInv, IInv, TypeOK
  <2>2. u.seq = f.seq /\ u.pen = p /\ u.emptied = at /\ u.ink = f.ink
    BY <1>1, <1>2, <2>1 DEF Fill, OpenFills, FillsOf
  <2>3. u.seq < e.seq
    BY <2>2 DEF IsNext, Used
  <2> QED BY <2>1, <2>2, <2>3 DEF Explains
<1>3. CASE ~ IsFirst(f, OpenFills(p))
  BY <1>1, <1>3 DEF EInv, Explained
<1> QED BY <1>2, <1>3

(* The pen holds the ink of its only open fill.                              *)
LEMMA HoldsTheOpenOne ==
  ASSUME IInv, NEW p, NEW held, Holds(p, held), NEW f \in OpenFills(p)
  PROVE  held = f.ink
BY OpenIsUnique DEF Holds, IInv

LEMMA InkPenExplains ==
  ASSUME EInv, NEW p \in Pens, NEW i \in Inks, NEW at \in Times, NEW now \in Times,
         InkPen(p, i, at, now)
  PROVE  DistinctEntries' /\ Explained(fills', activity')
<1>1. PICK r \in Ranks, held \in Inks \cup {NoInk} :
        /\ IsNext(r)
        /\ Holds(p, held)
        /\ LET action == IF held = NoInk THEN "inked" ELSE "reinked"
           IN Finish(Inked(p, i, at, r), activity \cup {InkEntry(p, at, action, held, r)}, now)
  BY DEF InkPen
<1> DEFINE action == IF held = NoInk THEN "inked" ELSE "reinked"
           e == InkEntry(p, at, action, held, r)
<1>2. IInv /\ TypeOK /\ DistinctEntries
  BY DEF EInv, IInv
<1>3. /\ e.seq = r /\ e.id = p /\ e.at = at
      /\ e.action = action /\ e.previous = held
  BY DEF InkEntry
<1>4. Finish(Inked(p, i, at, r), activity \cup {e}, now)
  BY <1>1
<1>5. ASSUME NEW f \in OpenFills(p)
      PROVE  action = "reinked" /\ held = f.ink
  <2>1. held = f.ink
    BY <1>1, <1>2, HoldsTheOpenOne
  <2>2. f.ink \in Inks
    BY <1>2 DEF TypeOK, Fill, OpenFills, FillsOf
  <2> QED BY <2>1, <2>2, NoInkAssumption
<1> HIDE DEF e, action
<1>6. Explained(Emptied(p, at), activity \cup {e})
  BY <1>1, <1>3, <1>5, ClosingIsExplained
<1>7. Explained(Inked(p, i, at, r), activity \cup {e})
  BY <1>6 DEF Explained, Inked
<1>8. activity' \subseteq activity \cup {e}
  BY <1>4 DEF Finish, KeptActivity
<1>9. DistinctEntries'
  BY <1>1, <1>2, <1>3, <1>8, OneMoreEntry
<1> QED BY <1>4, <1>7, <1>9, FinishExplains

LEMMA FlushPenExplains ==
  ASSUME EInv, NEW p \in Pens, NEW at \in Times, NEW now \in Times, FlushPen(p, at, now)
  PROVE  DistinctEntries' /\ Explained(fills', activity')
<1>1. PICK r \in Ranks, held \in Inks :
        /\ IsNext(r)
        /\ Holds(p, held)
        /\ Finish(Emptied(p, at), activity \cup {InkEntry(p, at, "flushed", held, r)}, now)
  BY DEF FlushPen
<1> DEFINE e == InkEntry(p, at, "flushed", held, r)
<1>2. IInv /\ TypeOK /\ DistinctEntries
  BY DEF EInv, IInv
<1>3. /\ e.seq = r /\ e.id = p /\ e.at = at
      /\ e.action = "flushed" /\ e.previous = held
  BY DEF InkEntry
<1>4. Finish(Emptied(p, at), activity \cup {e}, now)
  BY <1>1
<1> HIDE DEF e
<1>5. \A f \in OpenFills(p) : held = f.ink
  BY <1>1, <1>2, HoldsTheOpenOne
<1>6. Explained(Emptied(p, at), activity \cup {e})
  BY <1>1, <1>3, <1>5, ClosingIsExplained
<1>7. activity' \subseteq activity \cup {e}
  BY <1>4 DEF Finish, KeptActivity
<1>8. DistinctEntries'
  BY <1>1, <1>2, <1>3, <1>7, OneMoreEntry
<1> QED BY <1>4, <1>6, <1>8, FinishExplains

(* Undo takes out an entry that explains a fill only together with that      *)
(* fill's end: if several fills of the pen ended at that date the first is   *)
(* reopened, which validation refuses.                                       *)
LEMMA UndoExplains ==
  ASSUME EInv, NEW p \in Pens, NEW at \in Times, NEW now \in Times,
         UndoInkChange(p, at, now)
  PROVE  DistinctEntries' /\ Explained(fills', activity')
<1> DEFINE A == {e \in activity : ~ IsLast(e, InkChanges(p, at))}
<1>1. PICK action \in InkActions \cup {"none"} :
        RecordedAction(p, at, action) /\ Finish(Undone(p, at, action), A, now)
  BY DEF UndoInkChange
<1> DEFINE left == Unstarted(p, at, action)
           closed == {f \in left : f.pen = p /\ f.emptied = at}
           Reopen(f) ==
             IF action # "inked" /\ IsFirst(f, closed) THEN [f EXCEPT !.emptied = Open] ELSE f
<1>2. left \subseteq fills /\ fills \subseteq Fill /\ activity \subseteq Entry
  BY DEF Unstarted, EInv, IInv, TypeOK
<1>3. fills' = KeptFills(Undone(p, at, action), settings', now)
  BY <1>1 DEF Finish
<1>4. Undone(p, at, action) = {Reopen(f) : f \in left}
  BY DEF Undone
<1>5. Timeline(fills')
  BY UndoInkChangeKeeps DEF EInv, IInv
<1>6. activity' = KeptActivity(A, settings', now)
  BY <1>1 DEF Finish
<1>7. DistinctEntries'
  BY <1>6, FewerEntries DEF KeptActivity, EInv
<1>8. ASSUME NEW u \in fills', u.emptied # Open
      PROVE  \E e \in activity' : Explains(e, u)
  <2>1. /\ u \in Undone(p, at, action)
        /\ SurvivesRetention(u.emptied, settings', now)
    BY <1>3, <1>8 DEF KeptFills
  <2>2. PICK g \in left : u = Reopen(g)
    BY <1>4, <2>1
  <2>3. u = g /\ ~ (action # "inked" /\ IsFirst(g, closed))
    BY <1>2, <1>8, <2>2 DEF Fill
  <2>4. PICK e \in activity : Explains(e, u)
    BY <1>2, <1>8, <2>3 DEF EInv, Explained
  <2>5. ASSUME IsLast(e, InkChanges(p, at))
        PROVE  FALSE
    <3>1. e \in InkChanges(p, at) /\ e.action = action
      <4>1. e \in InkChanges(p, at)
        BY <2>5 DEF IsLast
      <4>2. PICK d \in InkChanges(p, at) : IsLast(d, InkChanges(p, at)) /\ d.action = action
        BY <1>1, <4>1 DEF RecordedAction
      <4>3. d \in activity /\ d.seq \in Int /\ e.seq \in Int
        BY <1>2, RankAssumption DEF Entry, Ranks, InkChanges
      <4>4. d.seq = e.seq
        BY <2>5, <4>1, <4>2, <4>3 DEF IsLast
      <4> QED BY <4>1, <4>2, <4>3, <4>4 DEF EInv, DistinctEntries
    <3>2. g \in closed /\ action # "inked"
      BY <2>3, <2>4, <3>1 DEF Explains, InkChanges
    <3>3. PICK f \in closed : \A h \in closed : f.seq <= h.seq
      <4> DEFINE S == {h.seq : h \in closed}
      <4>1. S \in SUBSET Nat /\ S # {}
        BY <1>2, <3>2, FillFields
      <4> HIDE DEF S
      <4>2. PICK n \in S : \A m \in S : n <= m
        BY <4>1, LeastNatural
      <4> QED BY <4>2 DEF S
    <3>4. IsFirst(f, closed)
      BY <3>3 DEF IsFirst
    <3>5. f \in fills /\ g \in fills /\ f \in Fill /\ g \in Fill
      BY <1>2, <3>2
    <3>6. f # g /\ f.seq <= g.seq /\ f.pen = g.pen
      BY <2>3, <3>2, <3>3, <3>4
    <3>7. f.seq < g.seq
      <4>1. f.seq # g.seq
        BY <3>5, <3>6 DEF EInv, IInv, Timeline
      <4> QED BY <3>5, <3>6, <4>1, FillFields
    <3> DEFINE v == [f EXCEPT !.emptied = Open]
    <3>8. v = Reopen(f) /\ v.emptied = Open /\ v.seq = f.seq /\ v.pen = f.pen
      BY <3>2, <3>4, <3>5 DEF Fill
    <3>9. v \in fills'
      BY <1>3, <1>4, <3>8 DEF KeptFills
    <3> QED BY <1>5, <1>8, <2>3, <3>6, <3>7, <3>8, <3>9 DEF Timeline
  <2>6. e \in activity'
    BY <1>6, <2>1, <2>4, <2>5 DEF KeptActivity, Explains
  <2> QED BY <2>4, <2>6
<1> QED BY <1>7, <1>8 DEF Explained

LEMMA NextExplains == EInv /\ [Next]_vars => EInv'
<1> SUFFICES ASSUME EInv, [Next]_vars
             PROVE  DistinctEntries' /\ Explained(fills', activity')
  BY NextKeeps DEF EInv, Explained, Explains
<1> DEFINE Goal == DistinctEntries' /\ Explained(fills', activity')
<1>1. ASSUME NEW now \in Times, NEW p \in Pens, InkChange(p, now) PROVE Goal
  BY <1>1, InkPenExplains, FlushPenExplains, UndoExplains DEF InkChange
<1>2. ASSUME NEW now \in Times, Save(now) PROVE Goal
  BY <1>2, RecordExplains DEF Save, SavePen, SaveInk, SaveSwatch, RecordSave
<1>3. ASSUME NEW now \in Times, Delete(now) PROVE Goal
  <2>1. \A p : WithoutPen(p) \subseteq fills
    BY DEF WithoutPen
  <2>2. \A i : WithoutInk(i) \subseteq fills
    BY DEF WithoutInk
  <2> QED BY <1>3, <2>1, <2>2, RecordExplains DEF Delete, DeletePen, DeleteInk, DeleteSwatch
<1>4. ASSUME NEW now \in Times, NEW s \in SettingsChoices, UpdateSettings(s, now)
      PROVE  Goal
  <2>1. activity' \subseteq activity /\ Explained(fills, activity)
    BY <1>4 DEF UpdateSettings, Finish, KeptActivity, EInv
  <2> QED BY <1>4, <2>1, FewerEntries, FinishExplains DEF UpdateSettings, EInv
<1>5. CASE UNCHANGED vars
  BY <1>5 DEF vars, EInv, DistinctEntries, Explained, Explains
<1> QED BY <1>1, <1>2, <1>3, <1>4, <1>5 DEF Next, Clock

(* A finished fill in the history has its entry in the activity, whatever    *)
(* was pruned, deleted or undone since, and however long the history.        *)
THEOREM FillsAreExplained == Spec => []FinishedFillsAreRecorded
<1>1. Init => EInv
  BY DEF Init, EInv, IInv, TypeOK, Timeline, EachValid, DistinctEntries, Explained
<1>2. EInv => FinishedFillsAreRecorded
  BY DEF EInv, Explained, Explains, FinishedFillsAreRecorded
<1> QED BY <1>1, <1>2, NextExplains, PTL DEF Spec

-----------------------------------------------------------------------------
(* What an entry of an ink change says of the ink before it.                 *)
EntriesSayWhat ==
  \A e \in activity :
    e.action \in InkActions => (e.action = "inked" <=> e.previous = NoInk)

LEMMA EntriesSayWhatKept ==
  ASSUME EInv, EntriesSayWhat, [Next]_vars
  PROVE  EntriesSayWhat'
<1>1. ASSUME NEW A, activity' \subseteq A,
             \A e \in A : e.action \in InkActions => (e.action = "inked" <=> e.previous = NoInk)
      PROVE  EntriesSayWhat'
  BY <1>1 DEF EntriesSayWhat
<1>2. ASSUME NEW p \in Pens, NEW i \in Inks, NEW at \in Times, NEW now \in Times,
             InkPen(p, i, at, now)
      PROVE  EntriesSayWhat'
  <2>1. PICK r \in Ranks, held \in Inks \cup {NoInk} :
          LET action == IF held = NoInk THEN "inked" ELSE "reinked"
          IN Finish(Inked(p, i, at, r), activity \cup {InkEntry(p, at, action, held, r)}, now)
    BY <1>2 DEF InkPen
  <2> DEFINE e == InkEntry(p, at, IF held = NoInk THEN "inked" ELSE "reinked", held, r)
  <2>2. e.action = "inked" <=> e.previous = NoInk
    BY DEF InkEntry
  <2>3. activity' \subseteq activity \cup {e}
    BY <2>1 DEF Finish, KeptActivity
  <2> HIDE DEF e
  <2> QED BY <1>1, <2>2, <2>3 DEF EntriesSayWhat
<1>3. ASSUME NEW p \in Pens, NEW at \in Times, NEW now \in Times, FlushPen(p, at, now)
      PROVE  EntriesSayWhat'
  <2>1. PICK r \in Ranks, held \in Inks :
          Finish(Emptied(p, at), activity \cup {InkEntry(p, at, "flushed", held, r)}, now)
    BY <1>3 DEF FlushPen
  <2> DEFINE e == InkEntry(p, at, "flushed", held, r)
  <2>2. e.action = "flushed" /\ e.previous # NoInk
    BY NoInkAssumption DEF InkEntry
  <2>3. activity' \subseteq activity \cup {e}
    BY <2>1 DEF Finish, KeptActivity
  <2> HIDE DEF e
  <2> QED BY <1>1, <2>2, <2>3 DEF EntriesSayWhat
<1>4. ASSUME NEW on, NEW action \in {"created", "updated", "deleted"}, NEW id, NEW now, NEW F,
             Record(on, action, id, now, F)
      PROVE  EntriesSayWhat'
  <2>1. CASE Finish(F, activity, now)
    BY <1>1, <2>1 DEF Finish, KeptActivity, EntriesSayWhat
  <2>2. ASSUME NEW r \in Ranks,
               Finish(F, activity \cup {InkEntry(id, now, action, NoInk, r)}, now)
        PROVE  EntriesSayWhat'
    <3> DEFINE e == InkEntry(id, now, action, NoInk, r)
    <3>1. e.action \notin InkActions
      BY DEF InkEntry, InkActions
    <3>2. activity' \subseteq activity \cup {e}
      BY <2>2 DEF Finish, KeptActivity
    <3> HIDE DEF e
    <3> QED BY <1>1, <3>1, <3>2 DEF EntriesSayWhat
  <2> QED BY <1>4, <2>1, <2>2 DEF Record
<1>5. ASSUME NEW now \in Times, Save(now) PROVE EntriesSayWhat'
  BY <1>4, <1>5 DEF Save, SavePen, SaveInk, SaveSwatch, RecordSave
<1>6. ASSUME NEW now \in Times, Delete(now) PROVE EntriesSayWhat'
  BY <1>4, <1>6 DEF Delete, DeletePen, DeleteInk, DeleteSwatch
<1>7. ASSUME activity' \subseteq activity PROVE EntriesSayWhat'
  BY <1>7 DEF EntriesSayWhat
<1>8. ASSUME NEW now \in Times, NEW p \in Pens, NEW at \in Times, UndoInkChange(p, at, now)
      PROVE  EntriesSayWhat'
  BY <1>7, <1>8 DEF UndoInkChange, Finish, KeptActivity
<1>9. ASSUME NEW now \in Times, NEW s \in SettingsChoices, UpdateSettings(s, now)
      PROVE  EntriesSayWhat'
  BY <1>7, <1>9 DEF UpdateSettings, Finish, KeptActivity
<1> QED BY <1>2, <1>3, <1>5, <1>6, <1>7, <1>8, <1>9 DEF Next, Clock, InkChange, vars

LEMMA Undoing ==
  ASSUME EInv, EntriesSayWhat, NEW p \in Pens, NEW at \in Times, NEW now \in Times,
         NEW e \in InkChanges(p, at), IsLast(e, InkChanges(p, at)),
         SurvivesRetention(at, settings, now),
         \/ e.previous = NoInk
         \/ \E f \in FillsOf(p) : f.ink = e.previous /\ f.emptied = at,
         UndoInkChange(p, at, now)
  PROVE  Holds(p, e.previous)'
<1>1. PICK action \in InkActions \cup {"none"} :
        /\ RecordedAction(p, at, action)
        /\ fills' = KeptFills(Undone(p, at, action), settings', now)
  BY DEF UndoInkChange, Finish
<1> DEFINE left == Unstarted(p, at, action)
           closed == {f \in left : f.pen = p /\ f.emptied = at}
           Reopen(f) ==
             IF action # "inked" /\ IsFirst(f, closed) THEN [f EXCEPT !.emptied = Open] ELSE f
<1>2. left \subseteq fills /\ fills \subseteq Fill /\ activity \subseteq Entry
  BY DEF Unstarted, EInv, IInv, TypeOK
<1>3. Undone(p, at, action) = {Reopen(f) : f \in left}
  BY DEF Undone
<1>4. Timeline(fills') /\ fills' \subseteq Fill
  BY UndoInkChangeKeeps DEF EInv, IInv, TypeOK
<1>5. e.action = action /\ (action = "inked" <=> e.previous = NoInk)
  <2>1. PICK d \in InkChanges(p, at) : IsLast(d, InkChanges(p, at)) /\ d.action = action
    BY <1>1 DEF RecordedAction
  <2>2. /\ d \in activity /\ e \in activity
        /\ d.seq \in Int /\ e.seq \in Int
        /\ e.action \in InkActions
    BY <1>2, RankAssumption DEF Entry, Ranks, InkChanges
  <2>3. d.seq = e.seq
    BY <2>1, <2>2 DEF IsLast
  <2> QED BY <2>1, <2>2, <2>3 DEF EInv, DistinctEntries, EntriesSayWhat
<1>6. at \in Int /\ at # Open
  BY TimesAssumption, OpenAssumption
(* Undoing the inking of an empty pen: the open fill began at `at`.          *)
<1>7. CASE action = "inked"
  <2>1. ASSUME NEW g \in OpenFills(p)
        PROVE  g.inked = at
    <3>1. g \in fills /\ g.pen = p /\ g.emptied = Open /\ g \in Fill
      BY <1>2 DEF OpenFills, FillsOf
    <3>2. PICK h \in FillsOf(p) : LastMoment(h) = at
      BY DEF UndoInkChange, CanUndo, LastInkChangeIs
    <3>3. g.inked <= at
      BY <3>1 DEF UndoInkChange, CanUndo, LastInkChangeIs, NotBeforeLastChange, FillsOf,
                  LastMoment
    <3>4. h \in fills /\ h.pen = p /\ h \in Fill
      BY <1>2, <3>2 DEF FillsOf
    <3>5. CASE h.emptied = Open
      <4>1. h = g
        BY <3>4, <3>5, OpenIsUnique DEF OpenFills, FillsOf, EInv, IInv
      <4> QED BY <3>2, <3>5, <4>1 DEF LastMoment
    <3>6. CASE h.emptied # Open
      <4>1. h.emptied = at /\ h.seq \in Nat /\ g.seq \in Nat /\ g.inked \in Int
        BY <3>1, <3>2, <3>4, <3>6, FillFields DEF LastMoment
      <4>2. ~ (g.seq < h.seq)
        BY <3>1, <3>4 DEF EInv, IInv, Timeline
      <4>3. g.seq # h.seq
        BY <3>1, <3>4, <3>6 DEF EInv, IInv, Timeline
      <4>4. h.emptied <= g.inked
        BY <3>1, <3>4, <4>1, <4>2, <4>3 DEF EInv, IInv, Timeline
      <4> QED BY <1>6, <3>3, <4>1, <4>4
    <3> QED BY <3>5, <3>6
  <2>2. ASSUME NEW u \in fills', u.pen = p, u.emptied = Open
        PROVE  FALSE
    <3>1. u \in left
      BY <1>1, <1>3, <1>7, <2>2 DEF KeptFills
    <3>2. u \in OpenFills(p)
      BY <1>2, <2>2, <3>1 DEF OpenFills, FillsOf
    <3> DEFINE started == {f \in OpenFills(p) : f.inked = at}
    <3>3. u \in started /\ \A f \in started : f = u
      BY <2>1, <3>2, OpenIsUnique DEF EInv, IInv
    <3>4. u.seq <= u.seq
      BY <1>2, <3>1, FillFields
    <3>5. IsFirst(u, started)
      BY <3>3, <3>4 DEF IsFirst
    <3> QED BY <1>7, <3>1, <3>5 DEF Unstarted
  <2>3. OpenFills(p)' = {}
    BY <2>2 DEF OpenFills, FillsOf
  <2> QED BY <1>5, <1>7, <2>3 DEF Holds
(* Undoing another change: the fill it ended is the first of that date, and  *)
(* valid only if it is the last of the pen.                                  *)
<1>8. CASE action # "inked"
  <2>1. PICK g \in FillsOf(p) : g.ink = e.previous /\ g.emptied = at
    BY <1>5, <1>8
  <2>2. g \in fills /\ g.pen = p /\ g \in Fill
    BY <1>2, <2>1 DEF FillsOf
  <2>3. g \in closed
    <3>1. g \notin OpenFills(p)
      BY <1>6, <2>1 DEF OpenFills
    <3> QED BY <2>1, <2>2, <3>1 DEF Unstarted, IsFirst
  <2>4. PICK f \in closed : \A h \in closed : f.seq <= h.seq
    <3> DEFINE S == {h.seq : h \in closed}
    <3>1. S \in SUBSET Nat /\ S # {}
      BY <1>2, <2>3, FillFields
    <3> HIDE DEF S
    <3>2. PICK n \in S : \A m \in S : n <= m
      BY <3>1, LeastNatural
    <3> QED BY <3>2 DEF S
  <2>5. IsFirst(f, closed) /\ f \in fills /\ f \in Fill /\ f.pen = p
    BY <1>2, <2>4 DEF IsFirst
  <2> DEFINE v == [f EXCEPT !.emptied = Open]
  <2>6. /\ v = Reopen(f) /\ v.emptied = Open /\ v.seq = f.seq /\ v.pen = p
        /\ v.ink = f.ink
    BY <1>8, <2>5 DEF Fill
  <2>7. v \in fills'
    BY <1>1, <1>3, <2>4, <2>6 DEF KeptFills
  <2> HIDE DEF v
  (* A later fill of that date would stay, after one that is open.           *)
  <2>8. f = g
    <3>1. CASE f.seq = g.seq
      BY <2>2, <2>5, <3>1 DEF EInv, IInv, Timeline
    <3>2. CASE f.seq # g.seq
      <4>1. f.seq < g.seq
        BY <2>2, <2>3, <2>4, <2>5, <3>2, FillFields
      <4>2. ~ IsFirst(g, closed)
        <5>1. ~ (g.seq <= f.seq)
          BY <2>2, <2>5, <4>1, FillFields
        <5> QED BY <2>4, <5>1 DEF IsFirst
      <4>3. Reopen(g) = g
        BY <4>2
      <4>4. v.seq < g.seq /\ v.pen = g.pen
        BY <2>2, <2>6, <4>1
      <4>5. v.emptied = Open
        BY <2>6
      <4>6. g \notin fills'
        BY <1>4, <2>7, <4>4, <4>5 DEF Timeline
      <4>7. g \in Undone(p, at, action)
        BY <1>3, <2>3, <4>3
      <4>8. SurvivesRetention(g.emptied, settings', now)
        BY <2>1 DEF UndoInkChange
      <4> QED BY <1>1, <4>6, <4>7, <4>8 DEF KeptFills
    <3> QED BY <3>1, <3>2
  <2>9. v \in OpenFills(p)' /\ \A w \in OpenFills(p)' : w.seq = v.seq
    <3>1. v \in OpenFills(p)'
      BY <2>6, <2>7 DEF OpenFills, FillsOf
    <3>2. ASSUME NEW w \in fills', w.pen = p, w.emptied = Open
          PROVE  w.seq = v.seq
      <4>1. ~ (w.seq < v.seq) /\ ~ (v.seq < w.seq)
        BY <1>4, <2>6, <2>7, <3>2 DEF Timeline
      <4>2. w.seq \in Nat /\ v.seq \in Nat
        BY <1>4, <2>7, FillFields
      <4> QED BY <4>1, <4>2
    <3> QED BY <3>1, <3>2 DEF OpenFills, FillsOf
  <2>10. IsFirst(v, OpenFills(p)')
    BY <1>4, <2>7, <2>9, FillFields DEF IsFirst
  <2> QED BY <2>1, <2>6, <2>8, <2>9, <2>10 DEF Holds, IsFirst
<1> QED BY <1>7, <1>8

(* Undo gives back the ink that the last recorded change of its date took    *)
(* out, if the fill that held it is still there and young enough: whatever   *)
(* came before, was pruned, or shares that date.                             *)
THEOREM UndoIsRight == Spec => UndoGivesBackTheInk
<1> DEFINE I == EInv /\ EntriesSayWhat
<1>1. Init => I
  BY DEF Init, EInv, IInv, TypeOK, Timeline, EachValid, DistinctEntries, Explained,
         EntriesSayWhat
<1>2. I /\ [Next]_vars => I'
  BY NextExplains, EntriesSayWhatKept
<1>3. Spec => []I
  BY <1>1, <1>2, PTL DEF Spec
<1>4. ASSUME I, NEW now \in Times, NEW e \in activity \ activity',
             IsLast(e, InkChanges(e.id, e.at)),
             SurvivesRetention(e.at, settings, now),
             \/ e.previous = NoInk
             \/ \E f \in FillsOf(e.id) : f.ink = e.previous /\ f.emptied = e.at,
             UndoInkChange(e.id, e.at, now)
      PROVE  Holds(e.id, e.previous)'
  <2>1. e \in InkChanges(e.id, e.at)
    BY <1>4 DEF IsLast
  <2>2. e.at \in Times /\ e.id \in Pens
    BY <1>4 DEF EInv, IInv, TypeOK, Entry, UndoInkChange, CanUndo
  <2> QED BY <1>4, <2>1, <2>2, Undoing
<1>5. I /\ [Next]_vars =>
        [\A now \in Times : \A e \in activity \ activity' :
           /\ IsLast(e, InkChanges(e.id, e.at))
           /\ SurvivesRetention(e.at, settings, now)
           /\ \/ e.previous = NoInk
              \/ \E f \in FillsOf(e.id) : f.ink = e.previous /\ f.emptied = e.at
           /\ UndoInkChange(e.id, e.at, now)
           => Holds(e.id, e.previous)']_vars
  BY <1>4
<1> QED BY <1>3, <1>5, PTL DEF Spec, UndoGivesBackTheInk

-----------------------------------------------------------------------------
(* When undo is available.  What the latest change of a pen was is read from *)
(* its last entry of that moment; a flush that was followed by an inking at  *)
(* the same moment must not come to light again while what was inked is in   *)
(* the pen.                                                                  *)
Changes(A, p, t) == {e \in A : e.id = p /\ e.at = t /\ e.action \in InkActions}

(* A flush is not the last change of the moment a fill began, unless the     *)
(* fill ended at that moment too.                                            *)
FlushedEarlier(F, A) ==
  \A g \in F, c \in A :
    /\ g.emptied # g.inked
    /\ c.id = g.pen /\ c.at = g.inked /\ c.action = "flushed"
    => \E d \in Changes(A, g.pen, g.inked) : c.seq < d.seq

Follows(A, c, d) ==
  /\ d \in Changes(A, c.id, c.at)
  /\ c.seq < d.seq
  /\ ~ \E x \in Changes(A, c.id, c.at) : c.seq < x.seq /\ x.seq < d.seq

(* When the change after a flush took out an ink, that ink was in the pen    *)
(* before that moment: whatever began at that moment began later.            *)
BegunLater(F, A) ==
  \A c, d \in A : c.action = "flushed" /\ Follows(A, c, d) /\ d.action # "inked" =>
    \A g \in F : g.pen = c.id /\ g.inked = c.at => d.seq <= g.seq

MInv == EInv /\ FlushedEarlier(fills, activity) /\ BegunLater(fills, activity)

(* The entries of one moment are pruned together.                            *)
LEMMA FinishKeepsMoments ==
  ASSUME NEW F, NEW A, NEW now, Finish(F, A, now), FlushedEarlier(F, A), BegunLater(F, A)
  PROVE  FlushedEarlier(fills', activity') /\ BegunLater(fills', activity')
<1>1. fills' \subseteq F /\ activity' = {e \in A : SurvivesRetention(e.at, settings', now)}
  BY DEF Finish, KeptFills, KeptActivity
<1>2. ASSUME NEW c \in activity'
      PROVE  Changes(activity', c.id, c.at) = Changes(A, c.id, c.at)
  BY <1>1 DEF Changes
<1>3. FlushedEarlier(fills', activity')
  <2> SUFFICES ASSUME NEW g \in fills', NEW c \in activity', g.emptied # g.inked,
                      c.id = g.pen, c.at = g.inked, c.action = "flushed"
               PROVE  \E d \in Changes(activity', g.pen, g.inked) : c.seq < d.seq
    BY DEF FlushedEarlier
  <2> QED BY <1>1, <1>2 DEF FlushedEarlier
<1>4. BegunLater(fills', activity')
  <2> SUFFICES ASSUME NEW c \in activity', NEW d \in activity', c.action = "flushed",
                      Follows(activity', c, d), d.action # "inked",
                      NEW g \in fills', g.pen = c.id, g.inked = c.at
               PROVE  d.seq <= g.seq
    BY DEF BegunLater
  <2>1. Follows(A, c, d)
    BY <1>2 DEF Follows
  <2> QED BY <1>1, <2>1 DEF BegunLater
<1> QED BY <1>3, <1>4

(* Saving, deleting and new settings change nothing of a moment's changes.   *)
LEMMA FewerFills ==
  ASSUME MInv, NEW F \in SUBSET fills
  PROVE  FlushedEarlier(F, activity) /\ BegunLater(F, activity)
BY DEF MInv, FlushedEarlier, BegunLater

LEMMA RecordKeepsMoments ==
  ASSUME MInv, NEW F \in SUBSET fills, NEW on, NEW action, action \notin InkActions,
         NEW id, NEW now, Record(on, action, id, now, F)
  PROVE  FlushedEarlier(fills', activity') /\ BegunLater(fills', activity')
<1>1. CASE Finish(F, activity, now)
  BY <1>1, FewerFills, FinishKeepsMoments
<1>2. ASSUME NEW r \in Ranks, Finish(F, activity \cup {InkEntry(id, now, action, NoInk, r)}, now)
      PROVE  FlushedEarlier(fills', activity') /\ BegunLater(fills', activity')
  <2> DEFINE e == InkEntry(id, now, action, NoInk, r)
             A == activity \cup {e}
  <2>1. e.action = action
    BY DEF InkEntry
  <2>2. "flushed" \in InkActions
    BY DEF InkActions
  <2> HIDE DEF e
  <2>3. ASSUME NEW p, NEW t
        PROVE  Changes(A, p, t) = Changes(activity, p, t)
    BY <2>1 DEF Changes
  <2>4. FlushedEarlier(F, activity) /\ BegunLater(F, activity)
    BY FewerFills
  <2>5. FlushedEarlier(F, A)
    BY <2>1, <2>2, <2>3, <2>4 DEF FlushedEarlier
  <2>6. BegunLater(F, A)
    <3> SUFFICES ASSUME NEW c \in A, NEW d \in A, c.action = "flushed", Follows(A, c, d),
                        d.action # "inked", NEW g \in F, g.pen = c.id, g.inked = c.at
                 PROVE  d.seq <= g.seq
      BY DEF BegunLater
    <3>1. c \in activity /\ Follows(activity, c, d)
      BY <2>1, <2>2, <2>3 DEF Follows
    <3>2. d \in activity
      BY <3>1 DEF Follows, Changes
    <3> QED BY <2>4, <3>1, <3>2 DEF BegunLater
  <2> QED BY <1>2, <2>5, <2>6, FinishKeepsMoments DEF e
<1> QED BY <1>1, <1>2 DEF Record

(* When a flush is the last change of a moment and the pen holds an ink by   *)
(* then, nothing in its history began at that moment.                        *)
LEMMA NoneBeganThen ==
  ASSUME MInv, NEW p, NEW at \in Times, NEW x \in OpenFills(p), x.inked <= at,
         NEW c \in Changes(activity, p, at), c.action = "flushed",
         \A d \in Changes(activity, p, at) : ~ (c.seq < d.seq),
         NEW f \in fills, f.pen = p
  PROVE  f.inked # at
<1>1. IInv /\ TypeOK /\ Timeline(fills) /\ FlushedEarlier(fills, activity)
  BY DEF MInv, EInv, IInv
<1>2. x \in fills /\ x.pen = p /\ x.emptied = Open
  BY DEF OpenFills, FillsOf
<1>3. /\ x.seq \in Nat /\ x.inked \in Int /\ f.seq \in Nat /\ f.inked \in Int
      /\ f.emptied # Open => f.emptied \in Int
  BY <1>1, <1>2, FillFields DEF TypeOK
<1>4. c \in activity /\ c.id = p /\ c.at = at
  BY DEF Changes
<1>5. x.inked # at
  BY <1>1, <1>2, <1>3, <1>4, OpenAssumption DEF FlushedEarlier
<1>6. CASE f = x
  BY <1>5, <1>6
<1>7. CASE f # x
  <2>1. f.seq # x.seq /\ ~ (x.seq < f.seq)
    BY <1>1, <1>2, <1>7 DEF Timeline
  <2>2. f.emptied # Open /\ f.emptied <= x.inked /\ f.inked <= f.emptied
    BY <1>1, <1>2, <1>3, <2>1 DEF Timeline
  <2>3. at \in Int
    BY TimesAssumption
  <2> QED BY <1>3, <1>5, <2>2, <2>3
<1> QED BY <1>6, <1>7

(* What inking and flushing leave, with the entry of the change: F has the   *)
(* fills there were, those of the pen emptied, and maybe the one that began. *)
LEMMA OneMoreChange ==
  ASSUME MInv, NEW p, NEW at \in Times, NEW e, IsNext(e.seq), e.seq \in Ranks,
         e.id = p, e.at = at, e.action \in InkActions,
         e.action # "inked" => OpenFills(p) # {},
         \A f \in FillsOf(p) : LastMoment(f) <= at,
         NEW F,
         \A g \in F :
           \/ g.seq = e.seq /\ g.pen = p /\ g.inked = at /\ e.action # "flushed"
           \/ g \in fills /\ (g.pen = p => g.emptied # Open)
           \/ \E f \in OpenFills(p) :
                g.seq = f.seq /\ g.pen = f.pen /\ g.inked = f.inked /\ g.emptied = at
  PROVE  FlushedEarlier(F, activity \cup {e}) /\ BegunLater(F, activity \cup {e})
<1> DEFINE A == activity \cup {e}
<1>1. TypeOK /\ Timeline(fills) /\ FlushedEarlier(fills, activity) /\ BegunLater(fills, activity)
  BY DEF MInv, EInv, IInv
<1>2. at \in Int /\ e.seq \in Nat
  BY TimesAssumption, RankAssumption DEF Ranks
<1>3. \A d \in activity : d.seq \in Nat /\ d.seq < e.seq
  BY <1>1, RankAssumption DEF IsNext, Used, TypeOK, Entry, Ranks
<1>4. \A f \in fills : /\ f.seq \in Nat /\ f.inked \in Int /\ f.inked # Open
                       /\ f.emptied # Open => f.emptied \in Int /\ f.inked <= f.emptied
  BY <1>1, FillFields, OpenAssumption DEF TypeOK, Timeline
<1>5. e \in Changes(A, p, at)
  BY DEF Changes
<1>6. \A q, t : Changes(activity, q, t) \subseteq Changes(A, q, t)
  BY DEF Changes
<1>7. FlushedEarlier(F, A)
  <2> SUFFICES ASSUME NEW g \in F, NEW c \in A, g.emptied # g.inked,
                      c.id = g.pen, c.at = g.inked, c.action = "flushed"
               PROVE  \E d \in Changes(A, g.pen, g.inked) : c.seq < d.seq
    BY DEF FlushedEarlier
  <2>1. CASE g.seq = e.seq /\ g.pen = p /\ g.inked = at /\ e.action # "flushed"
    <3>1. c \in activity
      BY <2>1
    <3> QED BY <1>3, <1>5, <2>1, <3>1
  <2>2. CASE g \in fills /\ (g.pen = p => g.emptied # Open)
    <3>1. c # e
      <4> SUFFICES ASSUME c = e PROVE FALSE
        OBVIOUS
      <4>1. g.pen = p /\ g.inked = at /\ g.emptied # Open
        BY <2>2
      <4>2. LastMoment(g) <= at
        BY <2>2, <4>1 DEF FillsOf
      <4> QED BY <1>2, <1>4, <2>2, <4>1, <4>2 DEF LastMoment
    <3> QED BY <1>1, <1>6, <2>2, <3>1 DEF FlushedEarlier
  <2>3. ASSUME NEW f \in OpenFills(p),
               g.seq = f.seq, g.pen = f.pen, g.inked = f.inked, g.emptied = at
        PROVE  \E d \in Changes(A, g.pen, g.inked) : c.seq < d.seq
    <3>1. f \in fills /\ f.emptied = Open
      BY DEF OpenFills, FillsOf
    <3>2. c # e
      BY <2>3
    <3>3. f.emptied # f.inked
      BY <1>4, <3>1
    <3> QED BY <1>1, <1>6, <2>3, <3>1, <3>2, <3>3 DEF FlushedEarlier
  <2> QED BY <2>1, <2>2, <2>3
<1>8. BegunLater(F, A)
  <2> SUFFICES ASSUME NEW c \in A, NEW d \in A, c.action = "flushed", Follows(A, c, d),
                      d.action # "inked", NEW g \in F, g.pen = c.id, g.inked = c.at
               PROVE  d.seq <= g.seq
    BY DEF BegunLater
  <2>1. c.seq < d.seq /\ c \in activity
    BY <1>2, <1>3 DEF Follows
  <2>2. CASE g.seq = e.seq
    BY <1>2, <1>3, <2>2
  <2>3. ASSUME NEW f \in fills, f.seq = g.seq, f.pen = g.pen, f.inked = g.inked
        PROVE  d.seq <= g.seq
    <3>1. CASE d = e
      <4>1. c.id = p /\ c.at = at /\ c \in Changes(activity, p, at)
        BY <2>1, <3>1 DEF Follows, Changes, InkActions
      <4>2. \A x \in Changes(activity, p, at) : ~ (c.seq < x.seq)
        <5> SUFFICES ASSUME NEW x \in Changes(activity, p, at), c.seq < x.seq PROVE FALSE
          OBVIOUS
        <5>1. x.seq < d.seq /\ x \in Changes(A, c.id, c.at)
          BY <1>3, <1>6, <3>1, <4>1 DEF Changes
        <5> QED BY <5>1 DEF Follows
      <4>3. PICK x \in OpenFills(p) : TRUE
        BY <3>1
      <4>4. x.inked <= at
        BY DEF OpenFills, LastMoment
      <4>5. f.inked # at
        BY <2>3, <4>1, <4>2, <4>4, NoneBeganThen
      <4> QED BY <2>3, <4>1, <4>5
    <3>2. CASE d \in activity
      <4>1. d \in Changes(activity, c.id, c.at)
        BY <3>2 DEF Follows, Changes
      <4>2. Follows(activity, c, d)
        BY <1>6, <4>1 DEF Follows
      <4> QED BY <1>1, <2>1, <2>3, <3>2, <4>2 DEF BegunLater
    <3> QED BY <3>1, <3>2
  <2>4. CASE g \in fills
    BY <2>3, <2>4
  <2>5. ASSUME NEW f \in OpenFills(p), g.seq = f.seq, g.pen = f.pen, g.inked = f.inked
        PROVE  d.seq <= g.seq
    <3>1. f \in fills
      BY DEF OpenFills, FillsOf
    <3> QED BY <2>3, <2>5, <3>1
  <2> QED BY <2>2, <2>4, <2>5
<1> QED BY <1>7, <1>8

LEMMA EmptiedOrNot ==
  ASSUME IInv, NEW p, NEW at, NEW u \in Emptied(p, at)
  PROVE  \/ u \in fills /\ (u.pen = p => u.emptied # Open)
         \/ \E f \in OpenFills(p) :
              u.seq = f.seq /\ u.pen = f.pen /\ u.inked = f.inked /\ u.emptied = at
<1>1. PICK f \in fills : u = IF IsFirst(f, OpenFills(p)) THEN [f EXCEPT !.emptied = at] ELSE f
  BY DEF Emptied
<1>2. f \in Fill /\ f.seq \in Nat
  BY FillFields DEF IInv, TypeOK
<1>3. CASE f \in OpenFills(p)
  <2>1. \A g \in OpenFills(p) : g = f
    BY <1>3, OpenIsUnique DEF IInv
  <2>2. IsFirst(f, OpenFills(p))
    BY <1>2, <1>3, <2>1 DEF IsFirst
  <2>3. u = [f EXCEPT !.emptied = at]
    BY <1>1, <2>2
  <2>4. u.seq = f.seq /\ u.pen = f.pen /\ u.inked = f.inked /\ u.emptied = at
    BY <1>2, <2>3 DEF Fill
  <2> QED BY <1>3, <2>4
<1>4. CASE f \notin OpenFills(p)
  BY <1>1, <1>4 DEF IsFirst, OpenFills, FillsOf
<1> QED BY <1>3, <1>4

LEMMA InkPenKeepsMoments ==
  ASSUME MInv, NEW p \in Pens, NEW i \in Inks, NEW at \in Times, NEW now \in Times,
         InkPen(p, i, at, now)
  PROVE  FlushedEarlier(fills', activity') /\ BegunLater(fills', activity')
<1>1. PICK r \in Ranks, held \in Inks \cup {NoInk} :
        /\ IsNext(r)
        /\ Holds(p, held)
        /\ LET action == IF held = NoInk THEN "inked" ELSE "reinked"
           IN Finish(Inked(p, i, at, r), activity \cup {InkEntry(p, at, action, held, r)}, now)
  BY DEF InkPen
<1> DEFINE action == IF held = NoInk THEN "inked" ELSE "reinked"
           e == InkEntry(p, at, action, held, r)
           new == [seq |-> r, pen |-> p, ink |-> i, inked |-> at, emptied |-> Open]
<1>2. Finish(Inked(p, i, at, r), activity \cup {e}, now)
  BY <1>1
<1>3. /\ e.seq = r /\ e.id = p /\ e.at = at
      /\ e.action = action /\ e.action \in InkActions /\ e.action # "flushed"
  BY DEF InkEntry, InkActions
<1>4. e.action # "inked" => OpenFills(p) # {}
  BY <1>1, <1>3 DEF Holds
<1>5. \A f \in FillsOf(p) : LastMoment(f) <= at
  BY DEF InkPen, CanInk, NotBeforeLastChange
<1>6. IInv
  BY DEF MInv, EInv
<1>7. new.seq = r /\ new.pen = p /\ new.inked = at
  OBVIOUS
<1>8. Inked(p, i, at, r) = Emptied(p, at) \cup {new}
  BY DEF Inked
<1> HIDE DEF e, action, new
<1>9. \A g \in Inked(p, i, at, r) :
        \/ g.seq = e.seq /\ g.pen = p /\ g.inked = at /\ e.action # "flushed"
        \/ g \in fills /\ (g.pen = p => g.emptied # Open)
        \/ \E f \in OpenFills(p) :
             g.seq = f.seq /\ g.pen = f.pen /\ g.inked = f.inked /\ g.emptied = at
  BY <1>3, <1>6, <1>7, <1>8, EmptiedOrNot
<1>10. /\ FlushedEarlier(Inked(p, i, at, r), activity \cup {e})
       /\ BegunLater(Inked(p, i, at, r), activity \cup {e})
  BY <1>1, <1>3, <1>4, <1>5, <1>9, OneMoreChange
<1> QED BY <1>2, <1>10, FinishKeepsMoments

LEMMA FlushPenKeepsMoments ==
  ASSUME MInv, NEW p \in Pens, NEW at \in Times, NEW now \in Times, FlushPen(p, at, now)
  PROVE  FlushedEarlier(fills', activity') /\ BegunLater(fills', activity')
<1>1. PICK r \in Ranks, held \in Inks :
        /\ IsNext(r)
        /\ Finish(Emptied(p, at), activity \cup {InkEntry(p, at, "flushed", held, r)}, now)
  BY DEF FlushPen
<1> DEFINE e == InkEntry(p, at, "flushed", held, r)
<1>2. Finish(Emptied(p, at), activity \cup {e}, now)
  BY <1>1
<1>3. e.seq = r /\ e.id = p /\ e.at = at /\ e.action \in InkActions
  BY DEF InkEntry, InkActions
<1>4. PICK x \in OpenFills(p) : x.inked <= at
  BY DEF FlushPen, CanFlush
<1>5. IInv /\ Timeline(fills) /\ fills \subseteq Fill
  BY DEF MInv, EInv, IInv, TypeOK
<1>6. ASSUME NEW f \in FillsOf(p)
      PROVE  LastMoment(f) <= at
  <2>1. /\ f \in fills /\ x \in fills /\ f.pen = x.pen /\ x.emptied = Open
        /\ at \in Int
    BY TimesAssumption DEF OpenFills, FillsOf
  <2>2. /\ f.seq \in Nat /\ x.seq \in Nat /\ x.inked \in Int
        /\ f.emptied # Open => f.emptied \in Int
    BY <1>5, <2>1, FillFields
  <2>3. CASE f = x
    BY <1>4, <2>1, <2>3 DEF LastMoment
  <2>4. CASE f # x
    <3>1. f.seq # x.seq /\ ~ (x.seq < f.seq)
      BY <1>5, <2>1, <2>4 DEF Timeline
    <3>2. f.emptied # Open /\ f.emptied <= x.inked
      BY <1>5, <2>1, <2>2, <3>1 DEF Timeline
    <3> QED BY <1>4, <2>1, <2>2, <3>2 DEF LastMoment
  <2> QED BY <2>3, <2>4
<1> HIDE DEF e
<1>7. \A g \in Emptied(p, at) :
        \/ g \in fills /\ (g.pen = p => g.emptied # Open)
        \/ \E f \in OpenFills(p) :
             g.seq = f.seq /\ g.pen = f.pen /\ g.inked = f.inked /\ g.emptied = at
  BY <1>5, EmptiedOrNot
<1>8. /\ FlushedEarlier(Emptied(p, at), activity \cup {e})
      /\ BegunLater(Emptied(p, at), activity \cup {e})
  BY <1>1, <1>3, <1>4, <1>6, <1>7, OneMoreChange
<1> QED BY <1>2, <1>8, FinishKeepsMoments

(* Undo takes out the last entry of the moment.  What it reopens either      *)
(* began before that moment, or was in the pen when an entry before that one *)
(* was made.                                                                 *)
LEMMA UndoKeepsMoments ==
  ASSUME MInv, NEW p \in Pens, NEW at \in Times, NEW now \in Times,
         UndoInkChange(p, at, now)
  PROVE  FlushedEarlier(fills', activity') /\ BegunLater(fills', activity')
<1> DEFINE A == {e \in activity : ~ IsLast(e, InkChanges(p, at))}
<1>1. PICK action \in InkActions \cup {"none"} :
        RecordedAction(p, at, action) /\ Finish(Undone(p, at, action), A, now)
  BY DEF UndoInkChange
<1> DEFINE left == Unstarted(p, at, action)
           closed == {f \in left : f.pen = p /\ f.emptied = at}
           Reopen(f) ==
             IF action # "inked" /\ IsFirst(f, closed) THEN [f EXCEPT !.emptied = Open] ELSE f
           U == Undone(p, at, action)
<1>2. /\ TypeOK /\ Timeline(fills) /\ DistinctEntries /\ Explained(fills, activity)
      /\ FlushedEarlier(fills, activity) /\ BegunLater(fills, activity)
  BY DEF MInv, EInv, IInv
<1>3. \A f \in fills : /\ f \in Fill /\ f.seq \in Nat /\ f.inked \in Int /\ f.inked # Open
                       /\ f.emptied # Open => f.emptied \in Int /\ f.inked <= f.emptied
  BY <1>2, FillFields, OpenAssumption DEF TypeOK, Timeline
<1>4. \A e \in activity : e.seq \in Nat
  BY <1>2, RankAssumption DEF TypeOK, Entry, Ranks
<1>5. \A f \in FillsOf(p) : LastMoment(f) <= at
  BY DEF UndoInkChange, CanUndo, LastInkChangeIs, NotBeforeLastChange
<1>6. at \in Int /\ at # Open
  BY TimesAssumption, OpenAssumption
<1>7. ASSUME NEW u \in U
      PROVE  \E f \in left : u = Reopen(f)
  BY DEF Undone
<1>8. left \subseteq fills
  BY DEF Unstarted
<1>9. InkChanges(p, at) = Changes(activity, p, at)
  BY DEF InkChanges, Changes
<1>10. ASSUME NEW q, NEW t, q # p \/ t # at
       PROVE  Changes(activity, q, t) \subseteq A
  BY <1>10 DEF Changes, IsLast, InkChanges
<1>11. ASSUME NEW e \in activity, IsLast(e, InkChanges(p, at))
       PROVE  e.action = action /\ e \in Changes(activity, p, at)
  <2>1. PICK d \in InkChanges(p, at) : IsLast(d, InkChanges(p, at)) /\ d.action = action
    BY <1>1, <1>11 DEF RecordedAction, IsLast
  <2>2. d \in activity /\ d.seq = e.seq
    BY <1>4, <1>11, <2>1 DEF IsLast, InkChanges
  <2> QED BY <1>2, <1>9, <1>11, <2>1, <2>2 DEF DistinctEntries, IsLast
<1>12. FlushedEarlier(U, A)
  <2> SUFFICES ASSUME NEW g \in U, NEW c \in A, g.emptied # g.inked,
                      c.id = g.pen, c.at = g.inked, c.action = "flushed"
               PROVE  \E d \in Changes(A, g.pen, g.inked) : c.seq < d.seq
    BY DEF FlushedEarlier
  <2>1. PICK f \in left : g = Reopen(f)
    BY <1>7
  <2>2. f \in fills /\ g.pen = f.pen /\ g.inked = f.inked
    BY <1>3, <1>8, <2>1 DEF Fill
  <2>3. CASE f.emptied # f.inked /\ (f.pen # p \/ f.inked # at)
    <3>1. PICK d \in Changes(activity, f.pen, f.inked) : c.seq < d.seq
      BY <1>2, <2>2, <2>3 DEF FlushedEarlier
    <3>2. d \in A
      BY <1>10, <2>3, <3>1
    <3> QED BY <2>2, <3>1, <3>2 DEF Changes
  <2>4. CASE f.emptied # f.inked /\ f.pen = p /\ f.inked = at
    <3>1. f.emptied = Open
      <4> SUFFICES ASSUME f.emptied # Open PROVE FALSE
        OBVIOUS
      <4>1. f.emptied <= at
        BY <1>5, <2>2, <2>4 DEF FillsOf, LastMoment
      <4> QED BY <1>3, <1>6, <2>2, <2>4, <4>1
    <3>2. action = "flushed"
      <4> DEFINE started == {h \in OpenFills(p) : h.inked = at}
      <4>1. f \in started
        BY <2>2, <2>4, <3>1 DEF OpenFills, FillsOf
      <4>2. \A h \in started : h = f
        BY <1>2, <4>1, OpenIsUnique
      <4>3. f.seq <= f.seq
        BY <1>3, <2>2
      <4>4. IsFirst(f, started)
        BY <4>1, <4>2, <4>3 DEF IsFirst
      <4> QED BY <4>4 DEF Unstarted
    <3>3. PICK e \in Changes(activity, p, at) :
            IsLast(e, InkChanges(p, at)) /\ e.action = "flushed"
      BY <1>1, <1>9, <3>2 DEF RecordedAction
    <3>4. \E d \in Changes(activity, p, at) : e.seq < d.seq
      BY <1>2, <2>2, <2>4, <3>3 DEF FlushedEarlier, Changes
    <3> QED BY <1>4, <1>9, <3>3, <3>4 DEF IsLast, Changes
  <2>5. CASE f.emptied = f.inked
    <3>1. g # f
      BY <2>2, <2>5
    <3>2. action # "inked" /\ f.pen = p /\ f.emptied = at
      BY <2>1, <3>1 DEF IsFirst
    <3>3. c \in Changes(activity, p, at) /\ ~ IsLast(c, InkChanges(p, at))
      BY <2>2, <2>5, <3>2 DEF Changes, InkActions
    <3>4. PICK e \in activity : Explains(e, f)
      BY <1>2, <1>6, <2>2, <3>2 DEF Explained
    <3>5. e \in Changes(activity, p, at) /\ f.seq < e.seq
      BY <3>2, <3>4 DEF Explains, Changes, InkActions
    <3>6. PICK l \in activity : IsLast(l, InkChanges(p, at))
      BY <1>1, <1>9, <3>3 DEF RecordedAction, IsLast, InkChanges
    <3>7. l \in Changes(activity, p, at) /\ l.action # "inked"
      BY <1>11, <3>2, <3>6
    <3>8. c.seq < l.seq /\ e.seq <= l.seq
      <4>1. c.seq <= l.seq /\ e.seq <= l.seq
        BY <1>9, <3>3, <3>5, <3>6 DEF IsLast
      <4>2. c.seq # l.seq
        BY <1>2, <3>3, <3>6 DEF DistinctEntries, Changes
      <4> QED BY <1>4, <3>3, <4>1, <4>2 DEF Changes
    <3>9. SUFFICES ASSUME \A d \in Changes(A, p, at) : ~ (c.seq < d.seq) PROVE FALSE
      BY <2>2, <2>5, <3>2
    <3>10. ASSUME NEW x \in Changes(activity, p, at), c.seq < x.seq, x.seq < l.seq
           PROVE  FALSE
      <4>1. ~ IsLast(x, InkChanges(p, at))
        <5>1. l.seq \in Nat /\ x.seq \in Nat
          BY <1>4 DEF Changes
        <5> QED BY <1>9, <3>7, <3>10, <5>1 DEF IsLast
      <4>2. x \in Changes(A, p, at)
        BY <4>1 DEF Changes
      <4> QED BY <3>9, <3>10, <4>2
    <3>11. Follows(activity, c, l)
      BY <3>3, <3>7, <3>8, <3>10 DEF Follows, Changes
    <3>12. l.seq <= f.seq
      BY <1>2, <2>2, <2>5, <3>2, <3>3, <3>7, <3>11 DEF BegunLater, Changes
    <3> QED BY <1>3, <1>4, <2>2, <3>4, <3>5, <3>6, <3>8, <3>12
  <2> QED BY <2>3, <2>4, <2>5
<1>13. BegunLater(U, A)
  <2> SUFFICES ASSUME NEW c \in A, NEW d \in A, c.action = "flushed", Follows(A, c, d),
                      d.action # "inked", NEW g \in U, g.pen = c.id, g.inked = c.at
               PROVE  d.seq <= g.seq
    BY DEF BegunLater
  <2>1. PICK f \in left : g = Reopen(f)
    BY <1>7
  <2>2. f \in fills /\ g.pen = f.pen /\ g.inked = f.inked /\ g.seq = f.seq
    BY <1>3, <1>8, <2>1 DEF Fill
  <2>3. d \in Changes(activity, c.id, c.at) /\ c.seq < d.seq
    BY DEF Follows, Changes
  <2>4. ASSUME NEW x \in Changes(activity, c.id, c.at), c.seq < x.seq, x.seq < d.seq
        PROVE  FALSE
    <3>1. x \notin Changes(A, c.id, c.at)
      BY <2>4 DEF Follows
    <3>2. IsLast(x, InkChanges(p, at)) /\ x.id = p /\ x.at = at
      BY <3>1 DEF Changes, IsLast, InkChanges
    <3>3. d.seq <= x.seq
      BY <1>9, <2>3, <3>2 DEF IsLast, Changes
    <3> QED BY <1>4, <2>4, <3>3 DEF Changes
  <2>5. Follows(activity, c, d)
    BY <2>3, <2>4 DEF Follows
  <2> QED BY <1>2, <2>2, <2>5 DEF BegunLater
<1> QED BY <1>1, <1>12, <1>13, FinishKeepsMoments

LEMMA NextKeepsMoments == MInv /\ [Next]_vars => MInv'
<1> SUFFICES ASSUME MInv, [Next]_vars
             PROVE  FlushedEarlier(fills', activity') /\ BegunLater(fills', activity')
  BY NextExplains DEF MInv, FlushedEarlier, BegunLater, Follows, Changes
<1> DEFINE Goal == FlushedEarlier(fills', activity') /\ BegunLater(fills', activity')
<1>1. "created" \notin InkActions /\ "updated" \notin InkActions /\ "deleted" \notin InkActions
  BY DEF InkActions
<1>2. ASSUME NEW now \in Times, NEW p \in Pens, InkChange(p, now) PROVE Goal
  BY <1>2, InkPenKeepsMoments, FlushPenKeepsMoments, UndoKeepsMoments DEF InkChange
<1>3. ASSUME NEW now \in Times, Save(now) PROVE Goal
  BY <1>1, <1>3, RecordKeepsMoments DEF Save, SavePen, SaveInk, SaveSwatch, RecordSave
<1>4. ASSUME NEW now \in Times, Delete(now) PROVE Goal
  <2>1. \A p : WithoutPen(p) \subseteq fills
    BY DEF WithoutPen
  <2>2. \A i : WithoutInk(i) \subseteq fills
    BY DEF WithoutInk
  <2> QED BY <1>1, <1>4, <2>1, <2>2, RecordKeepsMoments
             DEF Delete, DeletePen, DeleteInk, DeleteSwatch
<1>5. ASSUME NEW now \in Times, NEW s \in SettingsChoices, UpdateSettings(s, now) PROVE Goal
  BY <1>5, FewerFills, FinishKeepsMoments DEF UpdateSettings
<1>6. CASE UNCHANGED vars
  BY <1>6 DEF vars, MInv, FlushedEarlier, BegunLater, Follows, Changes
<1> QED BY <1>2, <1>3, <1>4, <1>5, <1>6 DEF Next, Clock

(* With one end at that moment, what undo reopens is the pen's latest fill.  *)
LEMMA UndoneIsTimeline ==
  ASSUME MInv, NEW p \in pens, NEW at \in Times, NEW action, CanUndo(p, at),
         RecordedAction(p, at, action), action # "inked",
         \A f, g \in FillsOf(p) : f.emptied = at /\ g.emptied = at => f = g
  PROVE  /\ Undone(p, at, action) \subseteq Fill
         /\ Timeline(Undone(p, at, action))
         /\ EachValid(Undone(p, at, action), pens, inks)
<1> DEFINE left == Unstarted(p, at, action)
           closed == {f \in left : f.pen = p /\ f.emptied = at}
           Reopen(f) == IF IsFirst(f, closed) THEN [f EXCEPT !.emptied = Open] ELSE f
           U == Undone(p, at, action)
<1>1. /\ TypeOK /\ Timeline(fills) /\ EachValid(fills, pens, inks)
      /\ FlushedEarlier(fills, activity)
  BY DEF MInv, EInv, IInv
<1>2. U = {Reopen(f) : f \in left}
  BY DEF Undone
<1>3. left \subseteq fills
  BY DEF Unstarted
<1>4. ASSUME NEW f \in fills
      PROVE  /\ f \in Fill
             /\ Reopen(f) \in Fill
             /\ Reopen(f).seq = f.seq
             /\ Reopen(f).pen = f.pen
             /\ Reopen(f).ink = f.ink
             /\ Reopen(f).inked = f.inked
             /\ Reopen(f) = f \/ Reopen(f).emptied = Open
  BY <1>1 DEF TypeOK, Fill
<1>5. \A f \in left : Reopen(f) # f => f \in closed
  BY DEF IsFirst
<1>6. ASSUME NEW f \in closed, NEW g \in left, f.pen = g.pen, f.seq < g.seq
      PROVE  FALSE
  <2>1. /\ f \in fills /\ g \in fills /\ g.pen = p /\ f.emptied = at
        /\ at \in Int /\ at # Open
    BY <1>3, <1>6, TimesAssumption, OpenAssumption
  <2>2. /\ f.seq \in Nat /\ g.seq \in Nat /\ g.inked \in Int
        /\ g.emptied # Open => g.emptied \in Int
    BY <1>4, <2>1, FillFields
  <2>3. LastMoment(g) <= at
    BY <2>1 DEF CanUndo, LastInkChangeIs, NotBeforeLastChange, FillsOf
  <2>4. at <= g.inked
    BY <1>1, <1>6, <2>1 DEF Timeline
  <2>5. g.emptied = Open
    <3> SUFFICES ASSUME g.emptied # Open PROVE FALSE
      OBVIOUS
    <3>1. g.emptied = at
      BY <1>1, <2>1, <2>2, <2>3, <2>4 DEF Timeline, LastMoment
    <3>2. f = g
      BY <1>6, <2>1, <3>1 DEF FillsOf
    <3> QED BY <1>6, <2>2, <3>2
  <2>6. g.inked = at
    BY <2>1, <2>2, <2>3, <2>4, <2>5 DEF LastMoment
  <2>7. action = "flushed"
    <3> DEFINE started == {h \in OpenFills(p) : h.inked = at}
    <3>1. g \in started
      BY <2>1, <2>5, <2>6 DEF OpenFills, FillsOf
    <3>2. \A h \in started : h = g
      BY <1>1, <3>1, OpenIsUnique
    <3>3. g.seq <= g.seq
      BY <2>2
    <3>4. IsFirst(g, started)
      BY <3>1, <3>2, <3>3 DEF IsFirst
    <3> QED BY <1>6, <3>4 DEF Unstarted
  <2>8. PICK e \in InkChanges(p, at) : IsLast(e, InkChanges(p, at)) /\ e.action = "flushed"
    BY <2>7 DEF RecordedAction
  <2>9. PICK d \in Changes(activity, p, at) : e.seq < d.seq
    BY <1>1, <2>1, <2>5, <2>6, <2>8 DEF FlushedEarlier, InkChanges
  <2>10. d.seq <= e.seq
    BY <2>8, <2>9 DEF IsLast, InkChanges, Changes
  <2>11. d.seq \in Nat /\ e.seq \in Nat
    BY <1>1, <2>8, <2>9, RankAssumption DEF TypeOK, Entry, Ranks, InkChanges, Changes
  <2> QED BY <2>9, <2>10, <2>11
<1> HIDE DEF Reopen, closed, left
<1>7. U \subseteq Fill
  BY <1>2, <1>3, <1>4
<1>8. EachValid(U, pens, inks)
  <2>1. ASSUME NEW u \in U
        PROVE  u.pen \in pens /\ u.ink \in inks /\ u.inked > 0
    <3>1. PICK f \in left : u = Reopen(f)
      BY <1>2
    <3> QED BY <1>1, <1>3, <1>4, <3>1 DEF EachValid
  <2> QED BY <2>1 DEF EachValid
<1>9. ASSUME NEW u \in U
      PROVE  u.emptied # Open => u.inked <= u.emptied
  <2>1. PICK f \in left : u = Reopen(f)
    BY <1>2
  <2> QED BY <1>1, <1>3, <1>4, <2>1 DEF Timeline
<1>10. ASSUME NEW u \in U, NEW v \in U
       PROVE  /\ u.seq = v.seq => u = v
              /\ u.pen = v.pen /\ u.seq < v.seq => u.emptied # Open /\ u.emptied <= v.inked
  <2>1. PICK f \in left : u = Reopen(f)
    BY <1>2
  <2>2. PICK g \in left : v = Reopen(g)
    BY <1>2
  <2>3. /\ f \in fills /\ g \in fills
        /\ u.seq = f.seq /\ u.pen = f.pen /\ v.seq = g.seq /\ v.pen = g.pen /\ v.inked = g.inked
    BY <1>3, <1>4, <2>1, <2>2
  <2>4. ASSUME u.seq = v.seq
        PROVE  u = v
    BY <1>1, <2>1, <2>2, <2>3, <2>4 DEF Timeline
  <2>5. ASSUME u.pen = v.pen, u.seq < v.seq
        PROVE  u.emptied # Open /\ u.emptied <= v.inked
    <3>1. f \notin closed
      BY <1>6, <2>3, <2>5
    <3>2. u = f
      BY <1>5, <2>1, <3>1
    <3> QED BY <1>1, <2>3, <2>5, <3>2 DEF Timeline
  <2> QED BY <2>4, <2>5
<1>11. Timeline(U)
  BY <1>9, <1>10 DEF Timeline
<1> QED BY <1>7, <1>8, <1>11

(* Undo of a pen's latest change is refused only when two fills of the pen   *)
(* ended at that moment: with one, what the activity says the change was,    *)
(* after any pruning, deletions and earlier undos, leads undo to the pen's   *)
(* latest fill.                                                              *)
THEOREM UndoIsAvailable == Spec => []UndoIsRefusedForTwoEndsOnly
<1>1. Init => MInv
  BY DEF Init, MInv, EInv, IInv, TypeOK, Timeline, EachValid, DistinctEntries, Explained,
         FlushedEarlier, BegunLater
<1>2. ASSUME MInv
      PROVE  UndoIsRefusedForTwoEndsOnly
  <2> SUFFICES ASSUME NEW p \in pens, NEW at \in Times, NEW action \in InkActions \cup {"none"},
                      CanUndo(p, at), RecordedAction(p, at, action),
                      \/ action = "inked"
                      \/ \A f, g \in FillsOf(p) : f.emptied = at /\ g.emptied = at => f = g
               PROVE  ValidFills(Undone(p, at, action), pens, inks)
    BY DEF UndoIsRefusedForTwoEndsOnly
  <2>1. fills \in SUBSET Fill /\ Timeline(fills) /\ EachValid(fills, pens, inks)
    BY <1>2 DEF MInv, EInv, IInv, TypeOK
  <2>2. CASE action = "inked"
    <3>1. Undone(p, at, action) \in SUBSET fills
      BY <2>2 DEF Undone, Unstarted
    <3>2. Timeline(Undone(p, at, action)) /\ EachValid(Undone(p, at, action), pens, inks)
      BY <2>1, <3>1, TimelineSubset DEF EachValid
    <3> QED BY <2>1, <3>1, <3>2, TimelineIsValid
  <2>3. CASE action # "inked"
    BY <1>2, <2>3, UndoneIsTimeline, TimelineIsValid
  <2> QED BY <2>2, <2>3
<1> QED BY <1>1, <1>2, NextKeepsMoments, PTL DEF Spec

-----------------------------------------------------------------------------
(* Collections from elsewhere: what validation makes sure of, whatever order *)
(* the fills are stored in.                                                  *)
Dated(F) ==
  /\ Ranked(F)
  /\ \A f \in F : f.emptied # Open => f.inked <= f.emptied
  /\ \A f, g \in F : f.pen = g.pen /\ SortsBefore(f, g) => f.emptied # Open /\ f.emptied <= g.inked

VInv == TypeOK /\ Dated(fills) /\ EachValid(fills, pens, inks)

(* Comparing neighbours is enough: a fill that has a later one has an        *)
(* earliest later one.                                                       *)
LEMMA NeighboursSuffice ==
  ASSUME NEW F \in SUBSET Fill, NEW P, NEW I, Ranked(F), ValidFills(F, P, I)
  PROVE  Dated(F) /\ EachValid(F, P, I)
<1>1. \A f \in F : f.seq \in Nat /\ f.inked \in Int /\ (f.emptied # Open => f.emptied \in Int)
  BY FillFields
<1>2. ASSUME NEW f \in F, NEW g \in F, f.pen = g.pen, SortsBefore(f, g)
      PROVE  f.emptied # Open /\ f.emptied <= g.inked
  <2> DEFINE Later == {h \in F : h.pen = f.pen /\ SortsBefore(f, h)}
             Starts == {h.inked : h \in Later}
  <2>1. Starts \in SUBSET Nat /\ Starts # {}
    <3>1. \A h \in F : h.inked \in Nat
      BY <1>1 DEF ValidFills
    <3> QED BY <1>2, <3>1
  <2>2. PICK n \in Starts : \A m \in Starts : n <= m
    BY <2>1, LeastNatural
  <2> DEFINE Next1 == {h \in Later : h.inked = n}
             Seqs == {h.seq : h \in Next1}
  <2>3. Seqs \in SUBSET Nat /\ Seqs # {}
    BY <1>1, <2>2
  <2>4. PICK k \in Seqs : \A m \in Seqs : k <= m
    <3> HIDE DEF Seqs
    <3> QED BY <2>3, LeastNatural
  <2>5. PICK h \in Next1 : h.seq = k
    BY <2>4
  <2>6. h \in F /\ h.pen = f.pen /\ SortsBefore(f, h) /\ h.inked = n
    BY <2>5
  <2>7. \A l \in Later : n <= l.inked
    BY <2>2
  <2>8. ASSUME NEW l \in F, l.pen = f.pen, SortsBefore(f, l), SortsBefore(l, h)
        PROVE  FALSE
    <3>1. l \in Later /\ n <= l.inked
      BY <2>7, <2>8
    <3>2. l.inked = n /\ l.seq < h.seq
      BY <1>1, <2>6, <2>8, <3>1 DEF SortsBefore
    <3>3. l.seq \in Seqs
      BY <3>1, <3>2
    <3>4. k <= l.seq
      <4> HIDE DEF Seqs
      <4> QED BY <2>4, <3>3
    <3> QED BY <1>1, <2>5, <2>6, <3>2, <3>4
  <2>9. Neighbours(F, f, h)
    BY <2>6, <2>8 DEF Neighbours
  <2>10. f.emptied # Open /\ f.emptied <= h.inked
    BY <2>6, <2>9 DEF ValidFills
  <2>11. h.inked <= g.inked
    BY <1>2, <2>6, <2>7
  <2> QED BY <1>1, <2>6, <2>10, <2>11
<1>3. \A f \in F : f.emptied # Open => f.inked <= f.emptied
  BY DEF ValidFills
<1> QED BY <1>2, <1>3 DEF Dated, EachValid, ValidFills

LEMMA DatedIsValid ==
  ASSUME NEW F, NEW P, NEW I, Dated(F), EachValid(F, P, I)
  PROVE  ValidFills(F, P, I)
BY DEF Dated, EachValid, ValidFills, Neighbours

LEMMA DatedSubset ==
  ASSUME NEW F, NEW G \in SUBSET F, Dated(F)
  PROVE  Dated(G)
BY DEF Dated, Ranked

(* Two open fills of a pen would be one before the other.                    *)
LEMMA OneIsOpen ==
  ASSUME VInv, NEW p, NEW f \in OpenFills(p), NEW g \in OpenFills(p)
  PROVE  f = g
<1>1. f \in fills /\ g \in fills /\ f.pen = g.pen /\ f.emptied = Open /\ g.emptied = Open
  BY DEF OpenFills, FillsOf
<1>2. f.seq \in Nat /\ g.seq \in Nat /\ f.inked \in Int /\ g.inked \in Int
  BY <1>1, FillFields DEF VInv, TypeOK
<1>3. ~ SortsBefore(f, g) /\ ~ SortsBefore(g, f)
  BY <1>1 DEF VInv, Dated
<1>4. f.seq = g.seq
  BY <1>2, <1>3 DEF SortsBefore
<1> QED BY <1>1, <1>4 DEF VInv, Dated, Ranked

(* Emptying a pen replaces its open fill by the same one with an end.        *)
LEMMA EmptiedIs ==
  ASSUME VInv, NEW p, NEW at, NEW g \in OpenFills(p)
  PROVE  Emptied(p, at) = (fills \ {g}) \cup {[g EXCEPT !.emptied = at]}
<1>1. g \in fills /\ g.seq \in Int
  <2>1. g \in fills /\ g \in Fill
    BY DEF OpenFills, FillsOf, VInv, TypeOK
  <2> QED BY <2>1, FillFields
<1>2. \A f \in fills : IsFirst(f, OpenFills(p)) <=> f = g
  <2>1. \A f \in OpenFills(p) : f = g
    BY OneIsOpen
  <2>2. g.seq <= g.seq
    BY <1>1
  <2> QED BY <2>1, <2>2 DEF IsFirst
<1>3. \A f \in fills :
        (IF IsFirst(f, OpenFills(p)) THEN [f EXCEPT !.emptied = at] ELSE f)
          = IF f = g THEN [g EXCEPT !.emptied = at] ELSE f
  BY <1>2
<1>4. Emptied(p, at) = {IF f = g THEN [g EXCEPT !.emptied = at] ELSE f : f \in fills}
  BY <1>3 DEF Emptied
<1> QED BY <1>1, <1>4

LEMMA EmptyIsEmptied ==
  ASSUME NEW p, NEW at, OpenFills(p) = {}
  PROVE  Emptied(p, at) = fills
BY DEF Emptied, IsFirst

LEMMA EmptiedIsDated ==
  ASSUME VInv, NEW p \in Pens, NEW at \in Times, \A f \in OpenFills(p) : f.inked <= at
  PROVE  /\ Emptied(p, at) \subseteq Fill
         /\ Dated(Emptied(p, at))
         /\ EachValid(Emptied(p, at), pens, inks)
         /\ \A u \in Emptied(p, at) : \E f \in fills : u.seq = f.seq
         /\ \A u \in Emptied(p, at) :
              u.pen = p => \/ u.emptied = at
                           \/ u \in fills /\ u.emptied # Open
<1>0. fills \subseteq Fill /\ Dated(fills) /\ EachValid(fills, pens, inks)
  BY DEF VInv, TypeOK
<1>1. CASE OpenFills(p) = {}
  <2>1. \A u \in fills : u.pen = p => u.emptied # Open
    BY <1>1 DEF OpenFills, FillsOf
  <2> QED BY <1>0, <1>1, <2>1, EmptyIsEmptied
<1>2. CASE OpenFills(p) # {}
  <2>1. PICK g \in OpenFills(p) : TRUE
    BY <1>2
  <2> DEFINE v == [g EXCEPT !.emptied = at]
  <2>2. g \in fills /\ g \in Fill /\ g.pen = p /\ g.emptied = Open /\ g.inked <= at
    BY <1>0 DEF OpenFills, FillsOf
  <2>3. /\ v \in Fill
        /\ v.seq = g.seq /\ v.pen = g.pen /\ v.ink = g.ink /\ v.inked = g.inked /\ v.emptied = at
    BY <2>2 DEF Fill
  <2>4. Emptied(p, at) = (fills \ {g}) \cup {v}
    BY EmptiedIs
  <2> HIDE DEF v
  <2>5. Ranked((fills \ {g}) \cup {v})
    BY <1>0, <2>2, <2>3 DEF Dated, Ranked
  <2>6. \A f \in (fills \ {g}) \cup {v} : f.emptied # Open => f.inked <= f.emptied
    BY <1>0, <2>2, <2>3 DEF Dated
  <2>7. ASSUME NEW f \in (fills \ {g}) \cup {v}, NEW h \in (fills \ {g}) \cup {v},
               f.pen = h.pen, SortsBefore(f, h)
        PROVE  f.emptied # Open /\ f.emptied <= h.inked
    <3>1. CASE f = v
      <4>1. h # v
        <5>1. v.seq \in Nat /\ v.inked \in Int
          BY <2>3, FillFields
        <5> QED BY <2>7, <3>1, <5>1 DEF SortsBefore
      <4>2. h \in fills /\ g.pen = h.pen /\ SortsBefore(g, h)
        BY <2>3, <2>7, <3>1, <4>1 DEF SortsBefore
      <4> QED BY <1>0, <2>2, <4>2 DEF Dated
    <3>2. CASE f # v
      <4>1. CASE h = v
        <5>1. f \in fills /\ f.pen = g.pen /\ SortsBefore(f, g)
          BY <2>3, <2>7, <3>2, <4>1 DEF SortsBefore
        <5> QED BY <1>0, <2>2, <2>3, <4>1, <5>1 DEF Dated
      <4>2. CASE h # v
        BY <1>0, <2>7, <3>2, <4>2 DEF Dated
      <4> QED BY <4>1, <4>2
    <3> QED BY <3>1, <3>2
  <2>8. EachValid((fills \ {g}) \cup {v}, pens, inks)
    BY <1>0, <2>2, <2>3 DEF EachValid
  <2>9. \A u \in fills \ {g} : u.pen = p => u.emptied # Open
    <3>1. \A u \in OpenFills(p) : u = g
      BY OneIsOpen
    <3> QED BY <3>1 DEF OpenFills, FillsOf
  <2> QED BY <1>0, <2>2, <2>3, <2>4, <2>5, <2>6, <2>7, <2>8, <2>9 DEF Dated
<1> QED BY <1>1, <1>2

LEMMA InkedIsDated ==
  ASSUME VInv, NEW p \in Pens, NEW i \in Inks, NEW at \in Times, NEW r \in Ranks,
         CanInk(p, i, at), IsNext(r)
  PROVE  /\ Inked(p, i, at, r) \subseteq Fill
         /\ Dated(Inked(p, i, at, r))
         /\ at > 0 => EachValid(Inked(p, i, at, r), pens, inks)
<1> DEFINE E == Emptied(p, at)
           new == [seq |-> r, pen |-> p, ink |-> i, inked |-> at, emptied |-> Open]
<1>1. r \in Nat /\ at \in Int /\ at # Open
  BY TimesAssumption, RankAssumption, OpenAssumption DEF Ranks
<1>2. \A f \in fills : f.pen = p => LastMoment(f) <= at
  BY DEF CanInk, NotBeforeLastChange, FillsOf
<1>3. \A f \in OpenFills(p) : f.inked <= at
  BY <1>2 DEF OpenFills, FillsOf, LastMoment
<1>4. /\ E \subseteq Fill
      /\ Dated(E)
      /\ EachValid(E, pens, inks)
      /\ \A u \in E : \E f \in fills : u.seq = f.seq
      /\ \A u \in E : u.pen = p => u.emptied = at \/ (u \in fills /\ u.emptied # Open)
  BY <1>3, EmptiedIsDated
<1>5. new \in Fill /\ Inked(p, i, at, r) = E \cup {new}
  BY DEF Fill, Inked
<1>6. /\ new.seq = r /\ new.pen = p /\ new.inked = at /\ new.emptied = Open /\ new.ink = i
  OBVIOUS
<1>7. \A u \in E : u.seq < r
  BY <1>4 DEF IsNext, Used
<1>8. \A u \in E : /\ u.seq \in Nat /\ u.inked \in Int
                   /\ u.emptied # Open => u.emptied \in Int /\ u.inked <= u.emptied
  BY <1>4, FillFields DEF Dated
<1>9. ASSUME NEW u \in E, u.pen = p
      PROVE  u.emptied # Open /\ u.emptied <= at
  <2>1. CASE u.emptied = at
    BY <1>1, <2>1
  <2>2. CASE u \in fills /\ u.emptied # Open
    BY <1>2, <1>9, <2>2 DEF LastMoment
  <2> QED BY <1>4, <1>9, <2>1, <2>2
<1> HIDE DEF new, E
<1>10. Ranked(E \cup {new})
  BY <1>1, <1>4, <1>6, <1>7, <1>8 DEF Dated, Ranked
<1>11. \A u \in E \cup {new} : u.emptied # Open => u.inked <= u.emptied
  BY <1>6, <1>8
<1>12. ASSUME NEW u \in E \cup {new}, NEW w \in E \cup {new}, u.pen = w.pen, SortsBefore(u, w)
       PROVE  u.emptied # Open /\ u.emptied <= w.inked
  <2>1. u # new
    <3> SUFFICES ASSUME u = new PROVE FALSE
      OBVIOUS
    <3>1. CASE w = new
      BY <1>1, <1>6, <1>12, <3>1 DEF SortsBefore
    <3>2. CASE w \in E
      <4>1. w.inked <= at /\ w.seq < r /\ w.seq \in Nat /\ w.inked \in Int
        <5>1. w.emptied # Open /\ w.emptied <= at
          BY <1>6, <1>9, <1>12, <3>2
        <5> QED BY <1>1, <1>7, <1>8, <3>2, <5>1
      <4> QED BY <1>1, <1>6, <1>12, <4>1 DEF SortsBefore
    <3> QED BY <3>1, <3>2
  <2>2. CASE w = new
    BY <1>6, <1>9, <1>12, <2>1, <2>2
  <2>3. CASE w # new
    BY <1>4, <1>12, <2>1, <2>3 DEF Dated
  <2> QED BY <2>2, <2>3
<1>13. at > 0 => EachValid(E \cup {new}, pens, inks)
  BY <1>4, <1>6 DEF EachValid, CanInk
<1> QED BY <1>4, <1>5, <1>10, <1>11, <1>12, <1>13 DEF Dated

(* Fills whose ends were changed keep their places in the list.              *)
LEMMA ChangedEnds ==
  ASSUME TypeOK, Ranked(fills), NEW end \in [fills -> Times \cup {Open}], NEW G,
         \A u \in G : \E f \in fills : u = [f EXCEPT !.emptied = end[f]]
  PROVE  /\ G \subseteq Fill
         /\ Ranked(G)
<1>1. ASSUME NEW f \in fills
      PROVE  [f EXCEPT !.emptied = end[f]] \in Fill /\ [f EXCEPT !.emptied = end[f]].seq = f.seq
  <2>1. f \in Fill
    BY DEF TypeOK
  <2> QED BY <2>1 DEF Fill
<1>2. G \subseteq Fill
  BY <1>1
<1>3. ASSUME NEW u \in G, NEW w \in G, u.seq = w.seq
      PROVE  u = w
  <2>1. PICK f \in fills : u = [f EXCEPT !.emptied = end[f]]
    OBVIOUS
  <2>2. PICK g \in fills : w = [g EXCEPT !.emptied = end[g]]
    OBVIOUS
  <2>3. f = g
    BY <1>1, <1>3, <2>1, <2>2 DEF Ranked
  <2> QED BY <2>1, <2>2, <2>3
<1> QED BY <1>2, <1>3 DEF Ranked

LEMMA EmptiedIsRanked ==
  ASSUME TypeOK, Ranked(fills), NEW p, NEW at \in Times
  PROVE  /\ Emptied(p, at) \subseteq Fill
         /\ Ranked(Emptied(p, at))
         /\ \A u \in Emptied(p, at) : \E f \in fills : u.seq = f.seq
<1> DEFINE end == [f \in fills |-> IF IsFirst(f, OpenFills(p)) THEN at ELSE f.emptied]
<1>1. \A f \in fills : f \in Fill /\ f = [f EXCEPT !.emptied = f.emptied]
  BY DEF TypeOK, Fill
<1>2. end \in [fills -> Times \cup {Open}]
  BY <1>1 DEF Fill
<1>3. \A u \in Emptied(p, at) : \E f \in fills : u = [f EXCEPT !.emptied = end[f]]
  BY <1>1 DEF Emptied
<1>4. \A f \in fills : [f EXCEPT !.emptied = end[f]].seq = f.seq
  BY <1>1 DEF Fill
<1> HIDE DEF end
<1>5. ASSUME NEW u \in Emptied(p, at)
      PROVE  \E f \in fills : u.seq = f.seq
  <2>1. PICK f \in fills : u = [f EXCEPT !.emptied = end[f]]
    BY <1>3
  <2> QED BY <1>4, <2>1
<1>6. Emptied(p, at) \subseteq Fill /\ Ranked(Emptied(p, at))
  BY <1>2, <1>3, ChangedEnds
<1> QED BY <1>5, <1>6

LEMMA UndoneIsRanked ==
  ASSUME TypeOK, Ranked(fills), NEW p, NEW at, NEW action
  PROVE  Undone(p, at, action) \subseteq Fill /\ Ranked(Undone(p, at, action))
<1> DEFINE left == Unstarted(p, at, action)
           closed == {f \in left : f.pen = p /\ f.emptied = at}
           end == [f \in fills |->
                     IF action # "inked" /\ IsFirst(f, closed) THEN Open ELSE f.emptied]
<1>1. \A f \in fills : f \in Fill /\ f = [f EXCEPT !.emptied = f.emptied]
  BY DEF TypeOK, Fill
<1>2. end \in [fills -> Times \cup {Open}]
  BY <1>1 DEF Fill
<1>3. left \subseteq fills
  BY DEF Unstarted
<1>4. \A u \in Undone(p, at, action) : \E f \in fills : u = [f EXCEPT !.emptied = end[f]]
  BY <1>1, <1>3 DEF Undone
<1> HIDE DEF end
<1> QED BY <1>2, <1>4, ChangedEnds

(* Every command ends by pruning and validating a list of fills with places  *)
(* of their own.                                                             *)
LEMMA FinishLeavesValid ==
  ASSUME NEW F \in SUBSET Fill, NEW A \in SUBSET Entry, NEW now,
         Ranked(F), Finish(F, A, now),
         pens' \subseteq Pens, inks' \subseteq Inks,
         swatches' \subseteq [id : Swatches, ink_id : Inks],
         settings' \in SettingsChoices
  PROVE  VInv'
<1>1. fills' \subseteq F /\ activity' \subseteq A
  BY DEF Finish, KeptFills, KeptActivity
<1>2. ValidFills(fills', pens', inks')
  BY DEF Finish, Valid, ValidFills, Neighbours, SortsBefore
<1>3. fills' \in SUBSET Fill /\ Ranked(fills')
  BY <1>1 DEF Ranked
<1>4. Dated(fills') /\ EachValid(fills', pens', inks')
  BY <1>2, <1>3, NeighboursSuffice
<1>5. TypeOK'
  BY <1>1 DEF TypeOK
<1> QED BY <1>4, <1>5 DEF VInv, Dated, Ranked, EachValid, SortsBefore

LEMMA InkChangeLeavesValid ==
  ASSUME VInv, NEW p \in Pens, NEW now \in Times, InkChange(p, now)
  PROVE  VInv'
<1>0. TypeOK /\ Ranked(fills)
  BY DEF VInv, Dated
<1>1. ASSUME NEW i \in Inks, NEW at \in Times, InkPen(p, i, at, now)
      PROVE  VInv'
  <2>1. PICK r \in Ranks, held \in Inks \cup {NoInk}, action \in {"inked", "reinked"} :
          /\ IsNext(r)
          /\ Finish(Inked(p, i, at, r), activity \cup {InkEntry(p, at, action, held, r)}, now)
    BY <1>1 DEF InkPen
  <2>2. InkEntry(p, at, action, held, r) \in Entry
    BY DEF InkEntry, Entry, Actions
  <2>3. Inked(p, i, at, r) \subseteq Fill /\ Ranked(Inked(p, i, at, r))
    BY <1>1, <2>1, InkedIsDated DEF InkPen, Dated
  <2> QED BY <1>0, <1>1, <2>1, <2>2, <2>3, FinishLeavesValid DEF TypeOK, InkPen
<1>2. ASSUME NEW at \in Times, FlushPen(p, at, now)
      PROVE  VInv'
  <2>1. PICK r \in Ranks, held \in Inks :
          Finish(Emptied(p, at), activity \cup {InkEntry(p, at, "flushed", held, r)}, now)
    BY <1>2 DEF FlushPen
  <2>2. InkEntry(p, at, "flushed", held, r) \in Entry
    BY DEF InkEntry, Entry, Actions
  <2> QED BY <1>0, <1>2, <2>1, <2>2, EmptiedIsRanked, FinishLeavesValid DEF TypeOK, FlushPen
<1>3. ASSUME NEW at \in Times, UndoInkChange(p, at, now)
      PROVE  VInv'
  <2>1. PICK action \in InkActions \cup {"none"} :
          Finish(Undone(p, at, action), {e \in activity : ~ IsLast(e, InkChanges(p, at))}, now)
    BY <1>3 DEF UndoInkChange
  <2> QED BY <1>0, <1>3, <2>1, UndoneIsRanked, FinishLeavesValid DEF TypeOK, UndoInkChange
<1> QED BY <1>1, <1>2, <1>3 DEF InkChange

LEMMA SaveLeavesValid ==
  ASSUME VInv, NEW now \in Times, Save(now)
  PROVE  VInv'
<1>0. TypeOK /\ Ranked(fills)
  BY DEF VInv, Dated
<1>1. PICK changed \in BOOLEAN :
        \/ \E p \in Pens : SavePen(p, changed, now)
        \/ \E i \in Inks : SaveInk(i, changed, now)
        \/ \E id \in Swatches, i \in Inks : SaveSwatch(id, i, changed, now)
  BY DEF Save
<1>2. ASSUME NEW p \in Pens, SavePen(p, changed, now)
      PROVE  VInv'
  <2>1. PICK A \in SUBSET Entry : Finish(fills, A, now)
    BY <1>0, <1>2, RecordSaveFinishes DEF SavePen
  <2> QED BY <1>0, <1>2, <2>1, FinishLeavesValid DEF TypeOK, SavePen
<1>3. ASSUME NEW i \in Inks, SaveInk(i, changed, now)
      PROVE  VInv'
  <2>1. PICK A \in SUBSET Entry : Finish(fills, A, now)
    BY <1>0, <1>3, RecordSaveFinishes DEF SaveInk
  <2> QED BY <1>0, <1>3, <2>1, FinishLeavesValid DEF TypeOK, SaveInk
<1>4. ASSUME NEW id \in Swatches, NEW i \in Inks, SaveSwatch(id, i, changed, now)
      PROVE  VInv'
  <2> DEFINE new == [id |-> id, ink_id |-> i]
             old == {s \in swatches : s.id = id}
  <2>1. RecordSave(settings.record_swatches, old # {}, changed \/ old # {new}, id, now)
    BY <1>4 DEF SaveSwatch
  <2>2. PICK A \in SUBSET Entry : Finish(fills, A, now)
    BY <1>0, <2>1, RecordSaveFinishes
  <2>3. swatches' \subseteq [id : Swatches, ink_id : Inks]
    BY <1>0, <1>4 DEF SaveSwatch, TypeOK
  <2> QED BY <1>0, <1>4, <2>2, <2>3, FinishLeavesValid DEF TypeOK, SaveSwatch
<1> QED BY <1>1, <1>2, <1>3, <1>4

LEMMA DeleteLeavesValid ==
  ASSUME VInv, NEW now \in Times, Delete(now)
  PROVE  VInv'
<1>0. TypeOK /\ Ranked(fills) /\ "deleted" \in Actions
  BY DEF VInv, Dated, Actions
<1>1. ASSUME NEW p \in Pens, DeletePen(p, now)
      PROVE  VInv'
  <2>1. PICK A \in SUBSET Entry : Finish(WithoutPen(p), A, now)
    BY <1>0, <1>1, RecordFinishes DEF DeletePen
  <2>2. WithoutPen(p) \subseteq Fill /\ Ranked(WithoutPen(p))
    BY <1>0 DEF WithoutPen, TypeOK, Ranked
  <2> QED BY <1>0, <1>1, <2>1, <2>2, FinishLeavesValid DEF TypeOK, DeletePen
<1>2. ASSUME NEW i \in Inks, DeleteInk(i, now)
      PROVE  VInv'
  <2>1. PICK A \in SUBSET Entry : Finish(WithoutInk(i), A, now)
    BY <1>0, <1>2, RecordFinishes DEF DeleteInk
  <2>2. WithoutInk(i) \subseteq Fill /\ Ranked(WithoutInk(i))
    BY <1>0 DEF WithoutInk, TypeOK, Ranked
  <2> QED BY <1>0, <1>2, <2>1, <2>2, FinishLeavesValid DEF TypeOK, DeleteInk
<1>3. ASSUME NEW id \in Swatches, DeleteSwatch(id, now)
      PROVE  VInv'
  <2>1. PICK A \in SUBSET Entry : Finish(fills, A, now)
    BY <1>0, <1>3, RecordFinishes DEF DeleteSwatch
  <2> QED BY <1>0, <1>3, <2>1, FinishLeavesValid DEF TypeOK, DeleteSwatch
<1> QED BY <1>1, <1>2, <1>3 DEF Delete

LEMMA NextLeavesValid == VInv /\ [Next]_vars => VInv'
<1> SUFFICES ASSUME VInv, [Next]_vars PROVE VInv'
  OBVIOUS
<1>1. ASSUME NEW now \in Times, NEW s \in SettingsChoices, UpdateSettings(s, now)
      PROVE  VInv'
  BY <1>1, FinishLeavesValid DEF VInv, Dated, TypeOK, UpdateSettings
<1>2. CASE UNCHANGED vars
  BY <1>2 DEF vars, VInv, TypeOK, Dated, Ranked, SortsBefore, EachValid
<1> QED BY <1>1, <1>2, InkChangeLeavesValid, SaveLeavesValid, DeleteLeavesValid DEF Next, Clock

LEMMA BroughtInductive == BroughtSpec => []VInv
<1>1. Brought => VInv
  <2> SUFFICES ASSUME Brought PROVE VInv
    OBVIOUS
  <2>1. fills \in SUBSET Fill
    BY DEF Brought, TypeOK
  <2> QED BY <2>1, NeighboursSuffice DEF Brought, Valid, VInv
<1> QED BY <1>1, NextLeavesValid, PTL DEF BroughtSpec

(* The empty collection of a new folder is one of those.                     *)
LEMMA NewIsBrought == Spec => BroughtSpec
<1>1. Init => Brought
  BY DEF Init, Brought, TypeOK, Ranked, Valid, ValidFills
<1> QED BY <1>1, PTL DEF Spec, BroughtSpec

(* The ink a pen holds is forgotten by no retention limit, no change of      *)
(* another pen, no deletion of its ink and no save: only by a change of that *)
(* pen.                                                                      *)
THEOREM InkIsNeverForgotten == BroughtSpec => CurrentInkIsNeverForgotten
<1>1. VInv => TypeOK
  BY DEF VInv
<1> QED BY <1>1, OnlyItsPenForgets, BroughtInductive, PTL DEF BroughtSpec, CurrentInkIsNeverForgotten

(* Whatever valid collection it starts from, inking, flushing and deleting   *)
(* never reach validation with a history it would refuse: their own checks   *)
(* are enough, for every date but those before 1970, and with one of these   *)
(* only the inking of a pen that has no history passes the checks.           *)
THEOREM OwnChecksAreEnough == BroughtSpec => []AcceptedStaysValid
<1>1. ASSUME VInv
      PROVE  AcceptedStaysValid
  <2>0. TypeOK /\ Dated(fills) /\ EachValid(fills, pens, inks)
    BY <1>1 DEF VInv
  <2>1. ASSUME NEW p \in pens, NEW i \in inks, NEW at \in Times, NEW r \in Ranks,
               CanInk(p, i, at), IsNext(r)
        PROVE  \/ ValidFills(Inked(p, i, at, r), pens, inks) /\ at > 0
               \/ FillsOf(p) = {} /\ at <= 0
    <3>1. p \in Pens /\ i \in Inks /\ at \in Int
      BY <2>0, TimesAssumption DEF TypeOK
    <3>2. CASE at > 0
      BY <1>1, <2>1, <3>1, <3>2, InkedIsDated, DatedIsValid
    <3>3. CASE at <= 0
      <4> SUFFICES ASSUME NEW f \in FillsOf(p) PROVE FALSE
        BY <3>3
      <4>1. f \in fills /\ f \in Fill
        BY <2>0 DEF FillsOf, TypeOK
      <4>2. f.inked > 0 /\ (f.emptied # Open => f.inked <= f.emptied)
        BY <2>0, <4>1 DEF EachValid, Dated
      <4>3. LastMoment(f) <= at
        BY <2>1 DEF CanInk, NotBeforeLastChange
      <4>4. f.inked \in Int /\ (f.emptied # Open => f.emptied \in Int)
        BY <4>1, FillFields
      <4> QED BY <3>1, <3>3, <4>2, <4>3, <4>4 DEF LastMoment
    <3> QED BY <3>1, <3>2, <3>3
  <2>2. ASSUME NEW p \in pens, NEW at \in Times, CanFlush(p, at)
        PROVE  ValidFills(Emptied(p, at), pens, inks) /\ at > 0
    <3>1. \A f \in OpenFills(p) : f.inked <= at
      BY <1>1, <2>2, OneIsOpen DEF CanFlush
    <3>2. p \in Pens
      BY <2>0 DEF TypeOK
    <3>3. PICK f \in OpenFills(p) : f.inked <= at
      BY <2>2 DEF CanFlush
    <3>4. f \in fills /\ f \in Fill /\ f.inked > 0
      BY <2>0, <3>3 DEF OpenFills, FillsOf, TypeOK, EachValid
    <3>5. at > 0
      BY <3>3, <3>4, FillFields, TimesAssumption
    <3> QED BY <1>1, <3>1, <3>2, <3>5, EmptiedIsDated, DatedIsValid
  <2>3. ASSUME NEW p \in pens
        PROVE  ValidFills(WithoutPen(p), pens \ {p}, inks)
    <3>1. WithoutPen(p) \in SUBSET fills /\ EachValid(WithoutPen(p), pens \ {p}, inks)
      BY <2>0 DEF WithoutPen, EachValid
    <3> QED BY <2>0, <3>1, DatedSubset, DatedIsValid
  <2>4. ASSUME NEW i \in inks
        PROVE  ValidFills(WithoutInk(i), pens, inks \ {i})
    <3>1. WithoutInk(i) \in SUBSET fills /\ EachValid(WithoutInk(i), pens, inks \ {i})
      BY <2>0 DEF WithoutInk, EachValid
    <3> QED BY <2>0, <3>1, DatedSubset, DatedIsValid
  <2> QED BY <2>1, <2>2, <2>3, <2>4 DEF AcceptedStaysValid
<1> QED BY <1>1, BroughtInductive, PTL

-----------------------------------------------------------------------------
(* Undoing a change at once.                                                 *)

(* What the activity says of the latest change is the entry it just made.    *)
LEMMA RecordedIsTheNewOne ==
  ASSUME TypeOK, NEW p, NEW at, NEW r \in Ranks, IsNext(r), NEW d,
         d.seq = r, d.id = p, d.at = at, d.action \in InkActions,
         activity' \subseteq activity \cup {d}, d \in activity',
         NEW action, RecordedAction(p, at, action)'
  PROVE  action = d.action
<1>1. d \in InkChanges(p, at)'
  BY DEF InkChanges
<1>2. PICK x \in InkChanges(p, at)' : IsLast(x, InkChanges(p, at)') /\ x.action = action
  BY <1>1 DEF RecordedAction
<1>3. ~ (x.seq < r)
  <2>1. d.seq <= x.seq
    BY <1>1, <1>2 DEF IsLast
  <2>2. x \in activity \cup {d}
    BY <1>2 DEF InkChanges
  <2>3. x.seq \in Int /\ r \in Int
    BY <2>2, RankAssumption DEF TypeOK, Entry, Ranks
  <2> QED BY <2>1, <2>3
<1>4. x \notin activity
  BY <1>3 DEF IsNext, Used
<1> QED BY <1>2, <1>4 DEF InkChanges

(* Emptied and reopened, the pen's fills are those it had.                   *)
LEMMA ReopenedAgain ==
  ASSUME VInv, NEW p \in Pens, NEW at \in Times, NEW now,
         SurvivesRetention(at, settings, now),
         NEW g \in OpenFills(p), \A f \in FillsOf(p) : f.emptied # at
  PROVE  LET kept == KeptFills(Emptied(p, at), settings, now)
             closed == {f \in kept : f.pen = p /\ f.emptied = at}
         IN /\ {IF IsFirst(f, closed) THEN [f EXCEPT !.emptied = Open] ELSE f : f \in kept}
                 = KeptFills(fills, settings, now)
            /\ [g EXCEPT !.emptied = at] \in kept
<1> DEFINE v == [g EXCEPT !.emptied = at]
           kept == KeptFills(Emptied(p, at), settings, now)
           closed == {f \in kept : f.pen = p /\ f.emptied = at}
           rest == KeptFills(fills, settings, now) \ {g}
<1>1. g \in fills /\ g \in Fill /\ g.pen = p /\ g.emptied = Open
  BY DEF OpenFills, FillsOf, VInv, TypeOK
<1>2. /\ v.pen = p /\ v.emptied = at /\ v.seq = g.seq
      /\ [v EXCEPT !.emptied = Open] = g
  BY <1>1 DEF Fill
<1>3. g.seq \in Int
  BY <1>1, FillFields
<1>4. v \notin fills
  BY <1>2 DEF FillsOf
<1>5. KeptFills(fills, settings, now) = rest \cup {g}
  BY <1>1 DEF KeptFills
<1>6. kept = rest \cup {v}
  <2>1. Emptied(p, at) = (fills \ {g}) \cup {v}
    BY EmptiedIs
  <2>2. v.emptied = Open \/ SurvivesRetention(v.emptied, settings, now)
    BY <1>2
  <2> HIDE DEF v
  <2> QED BY <2>1, <2>2 DEF KeptFills
<1>7. closed = {v}
  <2>1. \A f \in rest : ~ (f.pen = p /\ f.emptied = at)
    BY DEF KeptFills, FillsOf
  <2> HIDE DEF v, rest, kept
  <2> QED BY <1>2, <1>6, <2>1
<1>8. \A f \in kept : IsFirst(f, closed) <=> f = v
  <2>1. v.seq <= v.seq
    BY <1>2, <1>3
  <2> HIDE DEF v, kept, closed
  <2> QED BY <1>7, <2>1 DEF IsFirst
<1>9. v \notin rest
  BY <1>4 DEF KeptFills
<1>10. {IF IsFirst(f, closed) THEN [f EXCEPT !.emptied = Open] ELSE f : f \in kept}
         = {IF f = v THEN g ELSE f : f \in kept}
  <2>1. \A f \in kept : (IF IsFirst(f, closed) THEN [f EXCEPT !.emptied = Open] ELSE f)
                          = IF f = v THEN g ELSE f
    BY <1>2, <1>8
  <2> HIDE DEF v, kept, closed
  <2> QED BY <2>1
<1>11. {IF f = v THEN g ELSE f : f \in kept} = rest \cup {g}
  <2> HIDE DEF v, kept, rest
  <2> QED BY <1>6, <1>9
<1> HIDE DEF v, rest
<1> QED BY <1>5, <1>6, <1>10, <1>11 DEF v

LEMMA FlushTakenBack ==
  ASSUME VInv, NEW p \in Pens, NEW at \in Times, NEW now \in Times,
         FlushPen(p, at, now), NEW e \in activity' \ activity, e.id = p, e.at = at,
         \A f \in FillsOf(p) : f.emptied # at
  PROVE  /\ CanUndo(p, at)'
         /\ \A action \in InkActions \cup {"none"} :
              RecordedAction(p, at, action)' =>
                Undone(p, at, action)' = KeptFills(fills, settings, now)
<1>1. PICK r \in Ranks, held \in Inks :
        /\ IsNext(r)
        /\ Finish(Emptied(p, at), activity \cup {InkEntry(p, at, "flushed", held, r)}, now)
  BY DEF FlushPen
<1> DEFINE d == InkEntry(p, at, "flushed", held, r)
<1>2. activity' \subseteq activity \cup {d} /\ d \in activity' /\ e = d
  BY <1>1 DEF Finish, KeptActivity
<1>3. /\ d.seq = r /\ d.id = p /\ d.at = at
      /\ d.action = "flushed" /\ d.action \in InkActions
  BY DEF InkEntry, InkActions
<1>4. SurvivesRetention(at, settings, now)
  BY <1>1, <1>2, <1>3 DEF Finish, KeptActivity, FlushPen
<1>5. PICK g \in OpenFills(p) : g.inked <= at
  BY DEF FlushPen, CanFlush
<1>6. fills' = KeptFills(Emptied(p, at), settings, now) /\ pens' = pens /\ p \in pens
  BY <1>1 DEF Finish, FlushPen, CanFlush
<1> HIDE DEF d
<1>7. ASSUME NEW action, RecordedAction(p, at, action)'
      PROVE  action = "flushed"
  BY <1>1, <1>2, <1>3, <1>7, RecordedIsTheNewOne DEF VInv
<1>8. Undone(p, at, "flushed")' = KeptFills(fills, settings, now)
  <2>1. Unstarted(p, at, "flushed")' = fills'
    BY DEF Unstarted
  <2> DEFINE closed(F) == {f \in F : f.pen = p /\ f.emptied = at}
             reopened(F) ==
               {IF IsFirst(f, closed(F)) THEN [f EXCEPT !.emptied = Open] ELSE f : f \in F}
  <2>2. Undone(p, at, "flushed")' = reopened(fills')
    BY <2>1 DEF Undone, IsFirst
  <2>3. reopened(KeptFills(Emptied(p, at), settings, now)) = KeptFills(fills, settings, now)
    BY <1>4, ReopenedAgain
  <2> QED BY <1>6, <2>2, <2>3
<1>9. CanUndo(p, at)'
  <2>1. [g EXCEPT !.emptied = at] \in fills'
    BY <1>4, <1>6, ReopenedAgain
  <2>2. g \in fills /\ g \in Fill /\ g.pen = p /\ g.emptied = Open /\ at # Open /\ at \in Int
    BY OpenAssumption, TimesAssumption DEF OpenFills, FillsOf, VInv, TypeOK
  <2>3. LastMoment([g EXCEPT !.emptied = at]) = at /\ [g EXCEPT !.emptied = at].pen = p
    BY <2>2 DEF LastMoment, Fill
  <2>4. ASSUME NEW f \in fills', f.pen = p
        PROVE  LastMoment(f) <= at
    <3>1. f \in (fills \ {g}) \cup {[g EXCEPT !.emptied = at]}
      BY <1>6, EmptiedIs DEF KeptFills
    <3>2. CASE f = [g EXCEPT !.emptied = at]
      BY <2>2, <2>3, <3>2
    <3>3. CASE f \in fills /\ f # g
      <4>1. /\ f.seq \in Nat /\ g.seq \in Nat /\ f.inked \in Int /\ g.inked \in Int
            /\ f.emptied # Open => f.emptied \in Int
        BY <2>2, <3>3, FillFields DEF VInv, TypeOK
      <4>2. f.seq # g.seq /\ ~ SortsBefore(g, f)
        BY <2>2, <2>4, <3>3 DEF VInv, Dated, Ranked
      <4>3. SortsBefore(f, g)
        BY <4>1, <4>2 DEF SortsBefore
      <4>4. f.emptied # Open /\ f.emptied <= g.inked
        BY <2>2, <2>4, <3>3, <4>3 DEF VInv, Dated
      <4> QED BY <1>5, <2>2, <4>1, <4>4 DEF LastMoment
    <3> QED BY <3>1, <3>2, <3>3
  <2> QED BY <1>6, <2>1, <2>3, <2>4 DEF CanUndo, LastInkChangeIs, NotBeforeLastChange, FillsOf
<1> QED BY <1>7, <1>8, <1>9

(* The pen holds the ink of its only open fill.                              *)
LEMMA HoldsTheOnlyOne ==
  ASSUME VInv, NEW p, NEW held, Holds(p, held), NEW f \in OpenFills(p)
  PROVE  held = f.ink
BY OneIsOpen DEF Holds

LEMMA InkingTakenBack ==
  ASSUME VInv, NEW p \in Pens, NEW i \in Inks, NEW at \in Times,
         NEW now \in Times, InkPen(p, i, at, now),
         NEW e \in activity' \ activity, e.id = p, e.at = at,
         Holds(p, NoInk) \/ \A f \in FillsOf(p) : f.emptied # at
  PROVE  /\ CanUndo(p, at)'
         /\ \A action \in InkActions \cup {"none"} :
              RecordedAction(p, at, action)' =>
                Undone(p, at, action)' = KeptFills(fills, settings, now)
<1>1. PICK r \in Ranks, held \in Inks \cup {NoInk} :
        /\ IsNext(r)
        /\ Holds(p, held)
        /\ LET action == IF held = NoInk THEN "inked" ELSE "reinked"
           IN Finish(Inked(p, i, at, r), activity \cup {InkEntry(p, at, action, held, r)}, now)
  BY DEF InkPen
<1> DEFINE done == IF held = NoInk THEN "inked" ELSE "reinked"
           d == InkEntry(p, at, done, held, r)
           new == [seq |-> r, pen |-> p, ink |-> i, inked |-> at, emptied |-> Open]
           kept == KeptFills(Emptied(p, at), settings, now)
<1>2. Finish(Inked(p, i, at, r), activity \cup {d}, now)
  BY <1>1
<1>3. activity' \subseteq activity \cup {d} /\ d \in activity' /\ e = d
  BY <1>2 DEF Finish, KeptActivity
<1>4. /\ d.seq = r /\ d.id = p /\ d.at = at
      /\ d.action = done /\ d.action \in InkActions
  BY DEF InkEntry, InkActions
<1>5. SurvivesRetention(at, settings, now)
  BY <1>2, <1>3, <1>4 DEF Finish, KeptActivity, InkPen
<1>6. /\ new.seq = r /\ new.pen = p /\ new.inked = at /\ new.emptied = Open
      /\ new.seq <= new.seq
  BY RankAssumption DEF Ranks
<1>7. /\ Inked(p, i, at, r) = Emptied(p, at) \cup {new}
      /\ p \in pens /\ pens' = pens /\ settings' = settings
  BY DEF Inked, InkPen, CanInk
<1>8. at \in Int /\ at # Open
  BY TimesAssumption, OpenAssumption
<1>9. \A f \in FillsOf(p) : LastMoment(f) <= at
  BY DEF InkPen, CanInk, NotBeforeLastChange
<1> HIDE DEF d, done, new
<1>10. ASSUME NEW action, RecordedAction(p, at, action)'
       PROVE  action = done
  BY <1>1, <1>3, <1>4, <1>10, RecordedIsTheNewOne DEF VInv
<1>11. fills' = kept \cup {new}
  BY <1>2, <1>6, <1>7 DEF Finish, KeptFills
<1>12. \A u \in Emptied(p, at) : u.pen = p => \/ u.emptied = at
                                              \/ u \in fills /\ u.emptied # Open
  <2>1. \A f \in OpenFills(p) : f.inked <= at
    BY <1>9 DEF OpenFills, LastMoment
  <2> QED BY <2>1, EmptiedIsDated
<1>13. OpenFills(p)' = {new}
  <2>1. \A u \in kept : u.pen = p => u.emptied # Open
    BY <1>8, <1>12 DEF KeptFills
  <2>2. OpenFills(p)' = {u \in fills' : u.pen = p /\ u.emptied = Open}
    BY DEF OpenFills, FillsOf
  <2> HIDE DEF kept
  <2> QED BY <1>6, <1>11, <2>1, <2>2
<1>14. Unstarted(p, at, done)' = kept
  <2> DEFINE started(F) == {f \in F : f.inked = at}
  <2>1. started(OpenFills(p)') = {new}
    BY <1>6, <1>13
  <2>2. \A f \in fills' : IsFirst(f, {new}) <=> f = new
    BY <1>6 DEF IsFirst
  <2>3. Unstarted(p, at, done)'
          = {f \in fills' : done = "flushed" \/ ~ IsFirst(f, started(OpenFills(p)'))}
    BY DEF Unstarted, IsFirst
  <2>4. done # "flushed"
    BY DEF done
  <2>5. Unstarted(p, at, done)' = {f \in fills' : f # new}
    <3> HIDE DEF started
    <3> QED BY <2>1, <2>2, <2>3, <2>4
  <2>6. new \notin kept
    BY <1>6, <1>8, <1>12 DEF KeptFills
  <2> HIDE DEF kept
  <2> QED BY <1>11, <2>5, <2>6
<1>15. Undone(p, at, done)' = KeptFills(fills, settings, now)
  <2> DEFINE closed(F) == {f \in F : f.pen = p /\ f.emptied = at}
             reopened(F) ==
               {IF done # "inked" /\ IsFirst(f, closed(F))
                  THEN [f EXCEPT !.emptied = Open] ELSE f : f \in F}
  <2>1. Undone(p, at, done)' = reopened(Unstarted(p, at, done)')
    BY DEF Undone, IsFirst
  <2>2. CASE held = NoInk
    <3>1. OpenFills(p) = {}
      <4>1. \A f \in OpenFills(p) : f.ink # NoInk
        BY NoInkAssumption DEF OpenFills, FillsOf, VInv, TypeOK, Fill
      <4> QED BY <1>1, <2>2, <4>1 DEF Holds
    <3>2. Emptied(p, at) = fills
      BY <3>1 DEF Emptied, IsFirst
    <3>3. reopened(kept) = kept
      BY <2>2 DEF done
    <3>4. kept = KeptFills(fills, settings, now)
      BY <3>2
    <3> HIDE DEF kept, reopened
    <3> QED BY <1>14, <2>1, <3>3, <3>4
  <2>3. CASE held # NoInk
    <3>1. PICK g \in OpenFills(p) : g.ink = held
      BY <1>1, <2>3 DEF Holds, IsFirst
    <3>2. \A f \in FillsOf(p) : f.emptied # at
      <4>1. ~ Holds(p, NoInk)
        BY <2>3, <3>1, HoldsTheOnlyOne
      <4> QED BY <4>1
    <3>3. {IF IsFirst(f, closed(kept)) THEN [f EXCEPT !.emptied = Open] ELSE f : f \in kept}
            = KeptFills(fills, settings, now)
      BY <1>5, <3>1, <3>2, ReopenedAgain
    <3>4. done # "inked"
      BY <2>3 DEF done
    <3>5. reopened(kept)
            = {IF IsFirst(f, closed(kept)) THEN [f EXCEPT !.emptied = Open] ELSE f : f \in kept}
      <4> HIDE DEF kept, closed
      <4> QED BY <3>4
    <3> HIDE DEF kept
    <3> QED BY <1>14, <2>1, <3>3, <3>5
  <2> QED BY <2>2, <2>3
<1>16. CanUndo(p, at)'
  <2>1. new \in fills' /\ LastMoment(new) = at
    BY <1>6, <1>11 DEF LastMoment
  <2>2. ASSUME NEW f \in fills', f.pen = p
        PROVE  LastMoment(f) <= at
    <3>1. f = new \/ f \in Emptied(p, at)
      BY <1>11 DEF KeptFills
    <3>2. f = new \/ f.emptied = at \/ f \in fills
      BY <1>12, <2>2, <3>1
    <3>3. CASE f = new
      BY <1>8, <2>1, <3>3
    <3>4. CASE f.emptied = at
      BY <1>8, <3>4 DEF LastMoment
    <3>5. CASE f \in fills
      BY <1>9, <2>2, <3>5 DEF FillsOf
    <3> QED BY <3>2, <3>3, <3>4, <3>5
  <2> QED BY <1>6, <1>7, <2>1, <2>2
      DEF CanUndo, LastInkChangeIs, NotBeforeLastChange, FillsOf
<1> QED BY <1>10, <1>15, <1>16

(* Undoing a change at once gives the history as it was: also when the pen   *)
(* was inked again at the moment it was inked, whatever of the history is    *)
(* pruned meanwhile, and whatever valid collection the folder began with.    *)
THEOREM UndoUndoes == BroughtSpec => UndoTakesBackTheChange
<1>1. ASSUME VInv, VInv', NEW e \in activity' \ activity, NEW now \in Times,
             FlushPen(e.id, e.at, now) \/ \E i \in Inks : InkPen(e.id, i, e.at, now),
             Holds(e.id, NoInk) \/ \A f \in FillsOf(e.id) : f.emptied # e.at
      PROVE  /\ CanUndo(e.id, e.at)'
             /\ \A action \in InkActions \cup {"none"} :
                  RecordedAction(e.id, e.at, action)' =>
                    Undone(e.id, e.at, action)' = KeptFills(fills, settings, now)
  <2>1. e.id \in Pens /\ e.at \in Times
    <3>1. e \in Entry
      BY <1>1 DEF VInv, TypeOK
    <3>2. e.id \in pens
      BY <1>1 DEF FlushPen, CanFlush, InkPen, CanInk
    <3> QED BY <1>1, <3>1, <3>2 DEF VInv, Entry, TypeOK
  <2>2. CASE FlushPen(e.id, e.at, now)
    <3>1. ~ Holds(e.id, NoInk)
      <4>1. PICK f \in OpenFills(e.id) : TRUE
        BY <2>2 DEF FlushPen, CanFlush
      <4>2. f.ink # NoInk
        BY <1>1, NoInkAssumption DEF OpenFills, FillsOf, VInv, TypeOK, Fill
      <4> QED BY <1>1, <4>1, <4>2, HoldsTheOnlyOne
    <3> QED BY <1>1, <2>1, <2>2, <3>1, FlushTakenBack
  <2>3. ASSUME NEW i \in Inks, InkPen(e.id, i, e.at, now)
        PROVE  /\ CanUndo(e.id, e.at)'
               /\ \A action \in InkActions \cup {"none"} :
                    RecordedAction(e.id, e.at, action)' =>
                      Undone(e.id, e.at, action)' = KeptFills(fills, settings, now)
    BY <1>1, <2>1, <2>3, InkingTakenBack
  <2> QED BY <1>1, <2>2, <2>3
<1>2. VInv /\ VInv' /\ [Next]_vars =>
        [\A e \in activity' \ activity : \A now \in Times :
           /\ FlushPen(e.id, e.at, now) \/ \E i \in Inks : InkPen(e.id, i, e.at, now)
           /\ Holds(e.id, NoInk) \/ \A f \in FillsOf(e.id) : f.emptied # e.at
           => /\ CanUndo(e.id, e.at)'
              /\ \A action \in InkActions \cup {"none"} :
                   RecordedAction(e.id, e.at, action)' =>
                     Undone(e.id, e.at, action)' = KeptFills(fills, settings, now)]_vars
  BY <1>1
<1> QED BY <1>2, BroughtInductive, PTL DEF BroughtSpec, UndoTakesBackTheChange
=============================================================================
