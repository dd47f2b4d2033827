----------------------------- MODULE ImportProofs -----------------------------
(***************************************************************************)
(* What holds of Import and Showcase for every 2.x folder, every number of *)
(* items, photos and entries, and every choice of what visitors see.       *)
(***************************************************************************)
EXTENDS Import, WellFoundedInduction, NaturalsInduction, FiniteSetTheorems, TLAPS

-----------------------------------------------------------------------------
(* Least and greatest numbers.                                             *)

(* Every nonempty set of natural numbers has a least element.              *)
LEMMA LeastNatural ==
  ASSUME NEW S \in SUBSET Nat, S # {}
  PROVE  \E n \in S : \A m \in S : n <= m
<1> DEFINE R == OpToRel(<, Nat)
<1>1. \E x \in S : \A y \in S : ~ (<<y, x>> \in R)
  BY NatLessThanWellFounded, WFMin, Zenon
<1>2. \A x, y \in Nat : y < x => <<y, x>> \in R
  BY Zenon DEF OpToRel
<1> HIDE DEF R
<1>3. PICK x \in S : \A y \in S : ~ (<<y, x>> \in R)
  BY <1>1
<1>4. \A y \in S : ~ (y < x)
  BY <1>2, <1>3, Zenon
<1>5. \A y \in S : x <= y
  BY <1>4
<1> QED BY <1>5

(* Min is the least element.                                               *)
LEMMA MinIsLeast ==
  ASSUME NEW S \in SUBSET Nat, S # {}
  PROVE  Min(S) \in S /\ \A m \in S : Min(S) <= m
<1>1. PICK n \in S : \A m \in S : n <= m
  BY LeastNatural
<1> QED BY <1>1 DEF Min

(* Max is the greatest element of a set of timestamps.                     *)
LEMMA MaxIsGreatest ==
  ASSUME NEW S \in SUBSET (0..MaxTime), S # {}
  PROVE  Max(S) \in S /\ \A m \in S : m <= Max(S)
<1>0. S \subseteq Nat /\ \A m \in S : m <= MaxTime
  BY TimeAssumption
<1> DEFINE T == {MaxTime - m : m \in S}
<1>1. T \in SUBSET Nat /\ T # {}
  <2>1. \A m \in S : MaxTime - m \in Nat
    BY <1>0, TimeAssumption
  <2> QED BY <2>1
<1>2. PICK n \in T : \A m \in T : n <= m
  BY <1>1, LeastNatural
<1>3. PICK g \in S : n = MaxTime - g
  BY <1>2
<1>4. \A m \in S : m <= g
  BY <1>0, <1>2, <1>3, TimeAssumption
<1>5. \E k \in S : \A m \in S : k >= m
  BY <1>0, <1>4
<1> QED BY <1>0, <1>5 DEF Max

-----------------------------------------------------------------------------
(* Ink history.                                                            *)

(* What a 2.x folder holds.                                                *)
LEMMA DocumentFacts ==
  ASSUME NEW d \in Documents
  PROVE  /\ d.log \subseteq OldEntry
         /\ d.inked \subseteq OldInked
         /\ d.items \subseteq OldItem
         /\ \A e, f \in d.log : e.seq = f.seq => e = f
         /\ \A e, f \in d.inked : e.seq = f.seq => e = f
         /\ \A e \in d.inked : \A f \in d.log : f.seq < e.seq
BY DocumentsAssumption

LEMMA EventFacts ==
  ASSUME NEW d \in Documents, NEW e \in Events(d)
  PROVE  /\ e \in d.log
         /\ e.seq \in Nat
         /\ e.at \in 1..MaxTime
         /\ e.id \in Ids \cup {NoId}
         /\ e.ink \in Ids \cup {NoId}
BY DocumentFacts, TimeAssumption DEF Events, OldEntry

(* The pen's next change comes no earlier, and ends no later than any      *)
(* change that follows.                                                    *)
LEMMA NextChangeFacts ==
  ASSUME NEW d \in Documents, NEW e \in Events(d)
  PROVE  /\ NextChange(d, e) = Open \/ NextChange(d, e) \in 1..MaxTime
         /\ NextChange(d, e) # Open => e.at <= NextChange(d, e)
         /\ \A f \in Events(d) : f.id = e.id /\ Before(e, f) =>
              NextChange(d, e) # Open /\ NextChange(d, e) <= f.at
<1> DEFINE later == {f \in Events(d) : f.id = e.id /\ Before(e, f)}
           times == {f.at : f \in later}
<1>1. times \in SUBSET Nat /\ times \subseteq 1..MaxTime
  BY EventFacts, TimeAssumption
<1>2. CASE later = {}
  BY <1>2 DEF NextChange
<1>3. CASE later # {}
  <2>0. times # {}
    BY <1>3
  <2>1. Min(times) \in times /\ \A m \in times : Min(times) <= m
    <3> HIDE DEF times
    <3> QED BY <1>1, <2>0, MinIsLeast
  <2>2. NextChange(d, e) = Min(times)
    BY <1>3 DEF NextChange
  <2>3. NextChange(d, e) # Open
    BY <1>1, <2>1, <2>2, ConstantsAssumption
  <2>4. \A f \in later : e.at <= f.at
    BY EventFacts DEF Before
  <2>5. e.at <= Min(times)
    BY <2>1, <2>4
  <2> QED BY <1>1, <2>1, <2>2, <2>3, <2>5
<1> QED BY <1>2, <1>3

LEMMA LoggedFacts ==
  ASSUME NEW d \in Documents, NEW f \in Logged(d)
  PROVE  \E e \in Events(d) :
           /\ e.ink # NoId
           /\ f = [seq |-> e.seq, pen |-> e.id, ink |-> e.ink, inked |-> e.at,
                   emptied |-> NextChange(d, e)]
BY DEF Logged

(* An open fill is the pen's last: no change of the pen follows.           *)
LEMMA OpenIsLast ==
  ASSUME NEW d \in Documents, NEW f \in Logged(d), f.emptied = Open,
         NEW g \in Events(d), g.id = f.pen
  PROVE  g.at <= f.inked /\ (g.at = f.inked => g.seq <= f.seq)
<1>1. PICK e \in Events(d) :
        f = [seq |-> e.seq, pen |-> e.id, ink |-> e.ink, inked |-> e.at,
             emptied |-> NextChange(d, e)]
  BY LoggedFacts
<1>2. ~ Before(e, g)
  BY <1>1, NextChangeFacts
<1> QED BY <1>1, <1>2, EventFacts DEF Before

LEMMA CurrentFacts ==
  ASSUME NEW d \in Documents, NEW e \in Current(d)
  PROVE  /\ e \in d.inked
         /\ e.pen \in Ids /\ e.ink \in Ids /\ e.at \in 1..MaxTime /\ e.seq \in Nat
         /\ e \in Holding(d, e.pen)
         /\ \A f \in Current(d) : f.pen = e.pen => f = e
<1>1. e \in d.inked /\ e \in OldInked /\ e.pen # NoId /\ e.ink # NoId /\ e.at > 0
  BY DocumentFacts DEF Current
<1>2. e.pen \in Ids /\ e.ink \in Ids /\ e.at \in 1..MaxTime /\ e.seq \in Nat
  BY <1>1, TimeAssumption DEF OldInked
<1>3. ASSUME NEW f \in Current(d), f.pen = e.pen PROVE f = e
  <2>1. f \in d.inked /\ f \in OldInked
    BY DocumentFacts DEF Current
  <2>2. ~ (f.seq > e.seq) /\ ~ (e.seq > f.seq)
    BY <1>3 DEF Current
  <2>3. f.seq \in Nat
    BY <2>1 DEF OldInked
  <2> QED BY <1>1, <1>2, <2>1, <2>2, <2>3, DocumentFacts
<1> QED BY <1>1, <1>2, <1>3 DEF Holding

LEMMA StartFacts ==
  ASSUME NEW d \in Documents, NEW e \in Current(d)
  PROVE  /\ StartOf(d, e) \in 1..MaxTime
         /\ e.at <= StartOf(d, e)
         /\ \A g \in Events(d) : g.id = e.pen => g.at <= StartOf(d, e)
<1> DEFINE times == {e.at} \cup {f.at : f \in {g \in Events(d) : g.id = e.pen}}
<1>1. times \subseteq 1..MaxTime /\ times # {}
  BY CurrentFacts, EventFacts
<1>2. times \in SUBSET (0..MaxTime)
  BY <1>1, TimeAssumption
<1>3. StartOf(d, e) = Max(times)
  BY DEF StartOf
<1>4. e.at \in times /\ \A g \in Events(d) : g.id = e.pen => g.at \in times
  OBVIOUS
<1> HIDE DEF times
<1>5. Max(times) \in times /\ \A m \in times : m <= Max(times)
  BY <1>1, <1>2, MaxIsGreatest
<1> QED BY <1>1, <1>3, <1>4, <1>5

(* A logged fill after it is lined up with what the pen holds now.         *)
LEMMA ReconciledFacts ==
  ASSUME NEW d \in Documents, NEW f \in Logged(d)
  PROVE  LET r == Reconciled(d, f)
         IN /\ r = [seq |-> f.seq, pen |-> f.pen, ink |-> f.ink,
                    inked |-> r.inked, emptied |-> r.emptied]
            /\ r.inked \in 1..MaxTime /\ f.inked <= r.inked
            /\ r.emptied \in 1..MaxTime \cup {Open}
            /\ r.emptied # Open => r.inked <= r.emptied /\ r.inked = f.inked
            /\ f.emptied # Open => r = f
            /\ r.emptied = Open => \E e \in Holding(d, f.pen) : e.ink = f.ink
            /\ \A e \in Current(d) : e.pen = f.pen /\ r.emptied # Open =>
                 r.emptied <= StartOf(d, e) /\ r.inked <= StartOf(d, e)
<1> DEFINE r == Reconciled(d, f)
<1>1. PICK v \in Events(d) :
        f = [seq |-> v.seq, pen |-> v.id, ink |-> v.ink, inked |-> v.at,
             emptied |-> NextChange(d, v)]
  BY LoggedFacts
<1>2. f.inked \in 1..MaxTime /\ f.emptied \in 1..MaxTime \cup {Open}
  BY <1>1, EventFacts, NextChangeFacts
<1>3. \A e \in Current(d) : e.pen = f.pen => StartOf(d, e) \in Nat /\ f.inked <= StartOf(d, e)
  BY <1>1, StartFacts, TimeAssumption
<1>4. CASE f.emptied # Open
  <2>1. r = f
    BY <1>4 DEF Reconciled
  <2>2. f.inked <= f.emptied
    BY <1>1, <1>4, NextChangeFacts
  <2>3. ASSUME NEW e \in Current(d), e.pen = f.pen PROVE f.emptied <= StartOf(d, e)
    <3> DEFINE later == {g \in Events(d) : g.id = v.id /\ Before(v, g)}
    <3>1. later # {}
      BY <1>1, <1>4 DEF NextChange
    <3>2. PICK g \in later : TRUE
      BY <3>1
    <3>3. f.emptied <= g.at /\ g.at <= StartOf(d, e)
      BY <1>1, <2>3, <3>2, NextChangeFacts, StartFacts
    <3> QED BY <1>2, <1>4, <3>2, <3>3, <2>3, <1>3, EventFacts, TimeAssumption
  <2> QED BY <1>1, <1>2, <1>3, <1>4, <2>1, <2>2, <2>3
<1>5. CASE f.emptied = Open /\ Holding(d, f.pen) = {}
  <2>1. r = [f EXCEPT !.emptied = f.inked]
    BY <1>5 DEF Reconciled
  <2>2. r = [seq |-> f.seq, pen |-> f.pen, ink |-> f.ink,
             inked |-> f.inked, emptied |-> f.inked]
    BY <1>1, <2>1
  <2>3. f.inked # Open
    BY <1>2, ConstantsAssumption, TimeAssumption
  <2> QED BY <1>2, <1>3, <1>5, <2>2, <2>3, TimeAssumption
<1>6. CASE f.emptied = Open /\ Holding(d, f.pen) # {}
  <2>1. PICK e \in Holding(d, f.pen) : e \in Current(d) /\ e.pen = f.pen
    BY <1>6 DEF Holding
  <2>2. Holding(d, f.pen) = {e}
    BY <2>1, CurrentFacts DEF Holding
  <2>3. e = CHOOSE g \in Holding(d, f.pen) : TRUE
    BY <2>2
  <2>4. r = IF e.ink = f.ink THEN [f EXCEPT !.inked = Later(@, e.at)]
            ELSE [f EXCEPT !.emptied = Later(e.at, f.inked)]
    BY <1>6, <2>3 DEF Reconciled
  <2>5. /\ e.at \in 1..MaxTime /\ e.at <= StartOf(d, e)
        /\ StartOf(d, e) \in Nat /\ f.inked <= StartOf(d, e)
        /\ \A g \in Current(d) : g.pen = f.pen => g = e
    BY <1>3, <2>1, CurrentFacts, StartFacts
  <2>6. CASE e.ink = f.ink
    <3>1. r = [seq |-> f.seq, pen |-> f.pen, ink |-> f.ink,
               inked |-> Later(f.inked, e.at), emptied |-> Open]
      BY <1>1, <1>6, <2>4, <2>6
    <3>2. Later(f.inked, e.at) \in 1..MaxTime /\ f.inked <= Later(f.inked, e.at)
      BY <1>2, <2>5, TimeAssumption DEF Later
    <3> QED BY <1>6, <2>1, <2>6, <3>1, <3>2
  <2>7. CASE e.ink # f.ink
    <3>1. r = [seq |-> f.seq, pen |-> f.pen, ink |-> f.ink,
               inked |-> f.inked, emptied |-> Later(e.at, f.inked)]
      BY <1>1, <2>4, <2>7
    <3>2. /\ Later(e.at, f.inked) \in 1..MaxTime
          /\ f.inked <= Later(e.at, f.inked)
          /\ Later(e.at, f.inked) <= StartOf(d, e)
      BY <1>2, <2>5, TimeAssumption DEF Later
    <3>3. Later(e.at, f.inked) # Open
      BY <3>2, ConstantsAssumption, TimeAssumption
    <3> QED BY <1>2, <1>6, <2>1, <2>5, <3>1, <3>2, <3>3, TimeAssumption
  <2> QED BY <2>6, <2>7
<1> QED BY <1>4, <1>5, <1>6

LEMMA UnloggedFacts ==
  ASSUME NEW d \in Documents, NEW u \in Unlogged(d)
  PROVE  \E e \in Current(d) :
           /\ u = [seq |-> e.seq, pen |-> e.pen, ink |-> e.ink,
                   inked |-> StartOf(d, e), emptied |-> Open]
           /\ \A f \in Logged(d) : f.pen = e.pen => Reconciled(d, f).emptied # Open
BY DEF Unlogged

(* Two logged fills of one pen.                                            *)
LEMMA LoggedInOrder ==
  ASSUME NEW d \in Documents, NEW f \in Logged(d), NEW g \in Logged(d), f.pen = g.pen,
         NEW a, a = Reconciled(d, f), NEW b, b = Reconciled(d, g), Precedes(a, b)
  PROVE  a.emptied # Open /\ a.emptied <= b.inked
<1>1. PICK v \in Events(d) :
        f = [seq |-> v.seq, pen |-> v.id, ink |-> v.ink, inked |-> v.at,
             emptied |-> NextChange(d, v)]
  BY LoggedFacts
<1>2. PICK w \in Events(d) :
        g = [seq |-> w.seq, pen |-> w.id, ink |-> w.ink, inked |-> w.at,
             emptied |-> NextChange(d, w)]
  BY LoggedFacts
<1>3. /\ v.at \in Nat /\ w.at \in Nat /\ v.seq \in Nat /\ w.seq \in Nat
      /\ v.seq = w.seq => v = w
  BY EventFacts, DocumentFacts, TimeAssumption
<1>4. /\ a.seq = v.seq /\ v.at <= a.inked /\ a.inked \in Nat
      /\ b.seq = w.seq /\ w.at <= b.inked /\ b.inked \in Nat
      /\ f.emptied # Open => a = f
      /\ g.emptied # Open => b = g
  BY <1>1, <1>2, ReconciledFacts, TimeAssumption
<1>5. v # w
  <2>1. v = w => a = b
    BY <1>1, <1>2
  <2>2. a # b
    BY <1>3, <1>4 DEF Precedes
  <2> QED BY <2>1, <2>2
<1>6. CASE Before(v, w)
  <2>1. f.emptied # Open /\ f.emptied <= w.at
    BY <1>1, <1>2, <1>6, NextChangeFacts
  <2>2. f.emptied \in Nat
    BY <1>1, <2>1, NextChangeFacts, TimeAssumption
  <2> QED BY <1>3, <1>4, <2>1, <2>2
<1>7. CASE Before(w, v)
  <2>1. g.emptied # Open /\ b.inked = w.at
    BY <1>1, <1>2, <1>4, <1>7, NextChangeFacts
  <2> QED BY <1>3, <1>4, <1>7, <2>1 DEF Before, Precedes
<1> QED BY <1>3, <1>5, <1>6, <1>7 DEF Before

(* The rebuilt history of a pen is in order before anything is trimmed.    *)
LEMMA RebuiltInOrder ==
  ASSUME NEW d \in Documents, NEW a \in Rebuilt(d), NEW b \in Rebuilt(d),
         a.pen = b.pen, Precedes(a, b)
  PROVE  a.emptied # Open /\ a.emptied <= b.inked
<1>1. CASE a \in Unlogged(d) /\ b \in Unlogged(d)
  <2>1. PICK e \in Current(d) : a = [seq |-> e.seq, pen |-> e.pen, ink |-> e.ink,
                                     inked |-> StartOf(d, e), emptied |-> Open]
    BY <1>1, UnloggedFacts
  <2>2. PICK h \in Current(d) : b = [seq |-> h.seq, pen |-> h.pen, ink |-> h.ink,
                                     inked |-> StartOf(d, h), emptied |-> Open]
    BY <1>1, UnloggedFacts
  <2>3. e = h /\ e.seq \in Nat /\ StartOf(d, e) \in Nat
    BY <2>1, <2>2, CurrentFacts, StartFacts, TimeAssumption
  <2> QED BY <2>1, <2>2, <2>3 DEF Precedes
<1>2. ASSUME NEW f \in Logged(d), a = Reconciled(d, f), b \in Unlogged(d)
      PROVE  a.emptied # Open /\ a.emptied <= b.inked
  <2>1. PICK e \in Current(d) :
          /\ b = [seq |-> e.seq, pen |-> e.pen, ink |-> e.ink,
                  inked |-> StartOf(d, e), emptied |-> Open]
          /\ \A g \in Logged(d) : g.pen = e.pen => Reconciled(d, g).emptied # Open
    BY <1>2, UnloggedFacts
  <2>2. f.pen = e.pen
    BY <1>2, <2>1, ReconciledFacts
  <2>3. a.emptied # Open /\ a.emptied <= StartOf(d, e)
    BY <1>2, <2>1, <2>2, ReconciledFacts
  <2> QED BY <2>1, <2>3
<1>3. ASSUME NEW f \in Logged(d), b = Reconciled(d, f), a \in Unlogged(d)
      PROVE  FALSE
  <2>1. PICK e \in Current(d) :
          /\ a = [seq |-> e.seq, pen |-> e.pen, ink |-> e.ink,
                  inked |-> StartOf(d, e), emptied |-> Open]
          /\ \A g \in Logged(d) : g.pen = e.pen => Reconciled(d, g).emptied # Open
    BY <1>3, UnloggedFacts
  <2>2. PICK v \in Events(d) : f.seq = v.seq
    BY LoggedFacts
  <2>3. f.seq \in Nat /\ e.seq \in Nat /\ f.seq < e.seq
    BY <2>2, CurrentFacts, EventFacts, DocumentFacts
  <2>4. f.pen = e.pen
    BY <1>3, <2>1, ReconciledFacts
  <2>5. b.seq = f.seq /\ b.inked <= StartOf(d, e) /\ b.inked \in Nat /\ StartOf(d, e) \in Nat
    BY <1>3, <2>1, <2>4, ReconciledFacts, StartFacts, TimeAssumption
  <2> QED BY <2>1, <2>3, <2>5 DEF Precedes
<1>4. ASSUME NEW f \in Logged(d), NEW g \in Logged(d),
             a = Reconciled(d, f), b = Reconciled(d, g)
      PROVE  a.emptied # Open /\ a.emptied <= b.inked
  <2>1. f.pen = g.pen
    BY <1>4, ReconciledFacts
  <2> QED BY <1>4, <2>1, LoggedInOrder
<1> QED BY <1>1, <1>2, <1>3, <1>4 DEF Rebuilt

LEMMA RebuiltFacts ==
  ASSUME NEW d \in Documents, NEW f \in Rebuilt(d)
  PROVE  /\ f = [seq |-> f.seq, pen |-> f.pen, ink |-> f.ink,
                 inked |-> f.inked, emptied |-> f.emptied]
         /\ f.seq \in Nat
         /\ f.pen \in Ids \cup {NoId} /\ f.ink \in Ids
         /\ f.inked \in 1..MaxTime
         /\ f.emptied \in 1..MaxTime \cup {Open}
         /\ f.emptied # Open => f.inked <= f.emptied
<1>1. CASE f \in Unlogged(d)
  <2>1. PICK e \in Current(d) : f = [seq |-> e.seq, pen |-> e.pen, ink |-> e.ink,
                                     inked |-> StartOf(d, e), emptied |-> Open]
    BY <1>1, UnloggedFacts
  <2> QED BY <2>1, CurrentFacts, StartFacts
<1>2. CASE \E g \in Logged(d) : f = Reconciled(d, g)
  <2>1. PICK g \in Logged(d) : f = Reconciled(d, g)
    BY <1>2
  <2>2. PICK v \in Events(d) : g.seq = v.seq /\ g.pen = v.id /\ g.ink = v.ink /\ v.ink # NoId
    BY LoggedFacts
  <2>3. g.seq \in Nat /\ g.pen \in Ids \cup {NoId} /\ g.ink \in Ids
    BY <2>2, EventFacts
  <2> QED BY <2>1, <2>3, ReconciledFacts
<1> QED BY <1>1, <1>2 DEF Rebuilt

(* The fills of existing pens and inks.                                    *)
Known(d) == {f \in Rebuilt(d) : /\ f.pen \in IdsOf(NewItems(d, "pen"))
                                /\ f.ink \in IdsOf(NewItems(d, "ink"))}

(* The history of every pen that is rebuilt from 2.x data, whatever its    *)
(* log and its list of inked pens say, is in order: trimming overlaps at   *)
(* the end (import_v2.rs:733) finds nothing to trim.                       *)
THEOREM HistoryIsInOrder ==
  ASSUME NEW d \in Documents, NEW f \in Known(d)
  PROVE  Trimmed(Known(d), f) = f
<1> DEFINE later == {h \in Known(d) : h.pen = f.pen /\ Precedes(f, h)}
           next == {g.inked : g \in later}
<1>1. f \in Rebuilt(d) /\ \A h \in later : h \in Rebuilt(d)
  BY DEF Known
<1>2. \A h \in later : f.emptied # Open /\ f.emptied <= h.inked
  BY <1>1, RebuiltInOrder
<1>3. CASE next = {}
  BY <1>3 DEF Trimmed
<1>4. CASE next # {}
  <2>1. next \in SUBSET Nat
    BY <1>1, RebuiltFacts, TimeAssumption
  <2>2. f.emptied # Open /\ \A n \in next : f.emptied <= n
    BY <1>2, <1>4
  <2>3. Min(next) \in next
    <3> HIDE DEF next
    <3> QED BY <1>4, <2>1, MinIsLeast
  <2>4. f.emptied \in Nat /\ Min(next) \in Nat /\ f.emptied <= Min(next)
    BY <1>1, <2>1, <2>2, <2>3, RebuiltFacts, TimeAssumption
  <2>5. ~ (f.emptied > Min(next))
    <3> HIDE DEF next
    <3> QED BY <2>4
  <2> QED BY <2>2, <2>5 DEF Trimmed
<1> QED BY <1>3, <1>4

LEMMA NewFillsFacts ==
  ASSUME NEW d \in Documents
  PROVE  NewFills(d) = {[seq |-> f.seq, pen |-> f.pen, ink |-> f.ink, inked |-> f.inked,
                         emptied |-> f.emptied, noted |-> FALSE] : f \in Known(d)}
<1>1. NewFills(d) =
        {[seq |-> Trimmed(Known(d), f).seq, pen |-> Trimmed(Known(d), f).pen,
          ink |-> Trimmed(Known(d), f).ink, inked |-> Trimmed(Known(d), f).inked,
          emptied |-> Trimmed(Known(d), f).emptied, noted |-> FALSE] : f \in Known(d)}
  BY DEF NewFills, Known
<1> QED BY <1>1, HistoryIsInOrder

LEMMA FillsAreValid ==
  ASSUME NEW d \in Documents
  PROVE  /\ Timeline(NewFills(d))
         /\ \A f \in NewFills(d) : /\ f.pen \in IdsOf(NewItems(d, "pen"))
                                   /\ f.ink \in IdsOf(NewItems(d, "ink"))
<1>1. \A f \in NewFills(d) : \E g \in Known(d) :
        /\ g \in Rebuilt(d)
        /\ f = [seq |-> g.seq, pen |-> g.pen, ink |-> g.ink, inked |-> g.inked,
                emptied |-> g.emptied, noted |-> FALSE]
  BY NewFillsFacts DEF Known
<1>2. \A f \in NewFills(d) : /\ f.pen \in IdsOf(NewItems(d, "pen"))
                             /\ f.ink \in IdsOf(NewItems(d, "ink"))
  BY <1>1 DEF Known
<1>3. \A f \in NewFills(d) :
        f.inked > 0 /\ (f.emptied # Open => f.emptied >= f.inked)
  BY <1>1, RebuiltFacts, TimeAssumption
<1>4. ASSUME NEW f \in NewFills(d), NEW g \in NewFills(d), f.pen = g.pen, Precedes(f, g)
      PROVE  f.emptied # Open /\ f.emptied <= g.inked
  <2>1. PICK a \in Known(d) :
          /\ a \in Rebuilt(d)
          /\ f = [seq |-> a.seq, pen |-> a.pen, ink |-> a.ink, inked |-> a.inked,
                  emptied |-> a.emptied, noted |-> FALSE]
    BY <1>1
  <2>2. PICK b \in Known(d) :
          /\ b \in Rebuilt(d)
          /\ g = [seq |-> b.seq, pen |-> b.pen, ink |-> b.ink, inked |-> b.inked,
                  emptied |-> b.emptied, noted |-> FALSE]
    BY <1>1
  <2>3. a.pen = b.pen /\ Precedes(a, b)
    BY <1>4, <2>1, <2>2 DEF Precedes
  <2> QED BY <2>1, <2>2, <2>3, RebuiltInOrder
<1> QED BY <1>2, <1>3, <1>4 DEF Timeline

-----------------------------------------------------------------------------
(* Items.                                                                  *)

LEMMA KeptFacts ==
  ASSUME NEW d \in Documents
  PROVE  /\ \A i \in Kept(d) : /\ i \in d.items /\ i \in OldItem /\ i.seq \in Nat
                               /\ i.id \in Ids \cup {NoId} /\ i.of \in Ids \cup {NoId}
                               /\ i.kind \in {"pen", "ink", "swatch"}
         /\ \A i, j \in Kept(d) : i.seq = j.seq => i = j
<1>1. Kept(d) \subseteq d.items
  BY DEF Kept, PensKept, InksKept
<1>2. \A i, j \in d.items : i.seq = j.seq => i = j
  BY DocumentsAssumption
<1> QED BY <1>1, <1>2, DocumentFacts DEF OldItem

(* No two items are given the same id.                                     *)
LEMMA IdsDiffer ==
  ASSUME NEW d \in Documents, NEW i \in Kept(d), NEW j \in Kept(d),
         Id(Kept(d), i) = Id(Kept(d), j)
  PROVE  i = j
<1>1. /\ i.seq \in Nat /\ j.seq \in Nat
      /\ i.id \in Ids \cup {NoId} /\ j.id \in Ids \cup {NoId}
      /\ i.seq = j.seq => i = j
  BY KeptFacts
<1>2. CASE Id(Kept(d), i) \in Nat
  <2>1. Id(Kept(d), i) = i.seq /\ Id(Kept(d), j) = j.seq
    BY <1>1, <1>2, IdsAssumption DEF Id
  <2> QED BY <1>1, <2>1
<1>3. CASE Id(Kept(d), i) \notin Nat
  <2>1. /\ i.id = j.id /\ i.id # NoId
        /\ ~ (j.seq < i.seq) /\ ~ (i.seq < j.seq)
    BY <1>1, <1>3 DEF Id
  <2> QED BY <1>1, <2>1
<1> QED BY <1>2, <1>3

LEMMA NewItemsFacts ==
  ASSUME NEW d \in Documents, NEW kind, NEW n \in NewItems(d, kind)
  PROVE  \E i \in Kept(d) :
           /\ i.kind = kind
           /\ n = [seq |-> i.seq, id |-> Id(Kept(d), i), of |-> i.of, photos |-> Images(d, i),
                   details |-> i.details \cap {"price", "notes"}, notes_public |-> FALSE]
BY DEF NewItems, NewItem

LEMMA IdsAreUnique ==
  ASSUME NEW d \in Documents, NEW kind
  PROVE  Unique(NewItems(d, kind))
<1> SUFFICES ASSUME NEW m \in NewItems(d, kind), NEW n \in NewItems(d, kind), m.id = n.id
             PROVE  m = n
  BY DEF Unique
<1>1. PICK i \in Kept(d) :
        m = [seq |-> i.seq, id |-> Id(Kept(d), i), of |-> i.of, photos |-> Images(d, i),
             details |-> i.details \cap {"price", "notes"}, notes_public |-> FALSE]
  BY NewItemsFacts
<1>2. PICK j \in Kept(d) :
        n = [seq |-> j.seq, id |-> Id(Kept(d), j), of |-> j.of, photos |-> Images(d, j),
             details |-> j.details \cap {"price", "notes"}, notes_public |-> FALSE]
  BY NewItemsFacts
<1>3. Id(Kept(d), i) = Id(Kept(d), j)
  BY <1>1, <1>2
<1>4. i = j
  BY <1>3, IdsDiffer
<1> QED BY <1>1, <1>2, <1>4

(* Swatches come last, so that the inks' ids are known when they come.     *)
LEMMA SwatchesHaveInks ==
  ASSUME NEW d \in Documents, NEW w \in NewItems(d, "swatch")
  PROVE  w.of \in IdsOf(NewItems(d, "ink"))
<1>1. PICK s \in Kept(d) : s.kind = "swatch" /\ w.of = s.of
  BY NewItemsFacts
<1>2. s.of \in InkIds(d)
  BY <1>1 DEF Kept, PensKept, InksKept
<1>3. PICK i \in InksKept(d) : s.of = Id(PensKept(d) \cup InksKept(d), i)
  BY <1>2 DEF InkIds
<1>4. i \in Kept(d) /\ i.kind = "ink"
  BY <1>3 DEF Kept, InksKept
<1>5. \A j \in Kept(d) : j.seq < i.seq => j \in PensKept(d) \cup InksKept(d)
  <2>1. ASSUME NEW j \in Kept(d), j.kind = "swatch" PROVE ~ (j.seq < i.seq)
    <3>1. i.seq < j.seq
      BY <1>4, <2>1, KeptFacts, DocumentsAssumption
    <3> QED BY <1>4, <3>1, KeptFacts
  <2> QED BY <2>1 DEF Kept
<1>6. PensKept(d) \cup InksKept(d) \subseteq Kept(d)
  BY DEF Kept
<1>7. Id(PensKept(d) \cup InksKept(d), i) = Id(Kept(d), i)
  BY <1>5, <1>6 DEF Id
<1>8. NewItem(d, i) \in NewItems(d, "ink") /\ NewItem(d, i).id = Id(Kept(d), i)
  BY <1>4 DEF NewItems, NewItem
<1> QED BY <1>1, <1>3, <1>7, <1>8 DEF IdsOf

(* Of the photos that are kept, each path is there once, and one of them   *)
(* is primary.                                                             *)
LEMMA UsableFacts ==
  ASSUME NEW d \in Documents, NEW i \in Kept(d)
  PROVE  /\ \A p \in Usable(d, i) :
              p.seq \in Nat /\ p.path \in Paths /\ SectionOf[p.path] = i.kind
         /\ \A p, q \in Usable(d, i) : p.path = q.path \/ p.seq = q.seq => p = q
<1>1. i \in d.items /\ i \in OldItem
  BY KeptFacts
<1>2. i.photos \subseteq [seq : Nat, path : Paths, primary : BOOLEAN]
  BY <1>1 DEF OldItem
<1>3. \A p, q \in i.photos : p.seq = q.seq => p = q
  BY <1>1, DocumentsAssumption
<1>4. \A p \in Usable(d, i) :
        /\ p \in i.photos /\ p.seq \in Nat /\ p.path \in Paths /\ SectionOf[p.path] = i.kind
        /\ \A q \in i.photos : q.path = p.path => ~ (q.seq < p.seq)
  BY <1>2 DEF Usable
<1>5. ASSUME NEW p \in Usable(d, i), NEW q \in Usable(d, i), p.path = q.path PROVE p = q
  <2>1. ~ (q.seq < p.seq) /\ ~ (p.seq < q.seq)
    BY <1>4, <1>5
  <2>2. p.seq = q.seq
    BY <1>4, <2>1
  <2> QED BY <1>3, <1>4, <2>2
<1> QED BY <1>3, <1>4, <1>5

LEMMA OneIsPrimary ==
  ASSUME NEW d \in Documents, NEW i \in Kept(d), Usable(d, i) # {}
  PROVE  \E m \in Usable(d, i) : \A p \in Usable(d, i) : IsPrimary(Usable(d, i), p) <=> p = m
<1> DEFINE U == Usable(d, i)
           marked == {q \in U : q.primary}
           candidates == IF marked = {} THEN U ELSE marked
           seqs == {q.seq : q \in candidates}
<1>1. candidates \subseteq U /\ candidates # {}
  OBVIOUS
<1>2. \A p, q \in U : p.seq \in Nat /\ (p.seq = q.seq => p = q)
  BY UsableFacts
<1>3. \A p \in U : IsPrimary(U, p) <=> p \in candidates /\ ~ \E q \in candidates : q.seq < p.seq
  BY DEF IsPrimary
<1> HIDE DEF U, candidates
<1>4. seqs \in SUBSET Nat /\ seqs # {}
  BY <1>1, <1>2
<1>5. PICK n \in seqs : \A m \in seqs : n <= m
  <2> HIDE DEF seqs
  <2> QED BY <1>4, LeastNatural
<1>6. PICK m \in candidates : m.seq = n
  BY <1>5
<1>7. \A q \in candidates : m.seq <= q.seq
  BY <1>5, <1>6
<1>8. ASSUME NEW p \in U PROVE IsPrimary(U, p) <=> p = m
  <2>1. CASE p = m
    <3>1. ~ \E q \in candidates : q.seq < m.seq
      BY <1>1, <1>2, <1>7
    <3> QED BY <1>3, <1>6, <2>1, <3>1
  <2>2. CASE p # m
    <3>1. ASSUME p \in candidates PROVE m.seq < p.seq
      BY <1>1, <1>2, <1>7, <2>2, <3>1
    <3> QED BY <1>3, <2>2, <3>1
  <2> QED BY <2>1, <2>2
<1> QED BY <1>1, <1>6, <1>8 DEF U

LEMMA PhotosAreValid ==
  ASSUME NEW d \in Documents, NEW kind
  PROVE  ValidPhotos(kind, NewItems(d, kind))
<1> SUFFICES ASSUME NEW n \in NewItems(d, kind)
             PROVE  /\ \A p \in n.photos : SectionOf[p.path] = kind
                    /\ \A p, q \in n.photos : p.path = q.path => p = q
                    /\ n.photos # {} => Cardinality({p \in n.photos : p.primary}) = 1
  BY DEF ValidPhotos
<1>1. PICK i \in Kept(d) : i.kind = kind /\ n.photos = Images(d, i)
  BY NewItemsFacts
<1> DEFINE U == Usable(d, i)
<1>2. \A x \in n.photos : \E p \in U : x = [path |-> p.path, primary |-> IsPrimary(U, p)]
  BY <1>1 DEF Images
<1>3. \A x \in n.photos : SectionOf[x.path] = kind
  BY <1>1, <1>2, UsableFacts
<1>4. \A x, y \in n.photos : x.path = y.path => x = y
  <2>1. TAKE x, y \in n.photos
  <2>2. PICK p \in U : x = [path |-> p.path, primary |-> IsPrimary(U, p)]
    BY <1>2
  <2>3. PICK q \in U : y = [path |-> q.path, primary |-> IsPrimary(U, q)]
    BY <1>2
  <2>4. p.path = q.path => p = q
    BY UsableFacts
  <2> QED BY <2>2, <2>3, <2>4
<1>5. ASSUME n.photos # {} PROVE Cardinality({x \in n.photos : x.primary}) = 1
  <2>1. U # {}
    BY <1>1, <1>5 DEF Images
  <2>2. PICK m \in U : \A p \in U : IsPrimary(U, p) <=> p = m
    BY <2>1, OneIsPrimary
  <2> DEFINE first == [path |-> m.path, primary |-> IsPrimary(U, m)]
  <2>3. first \in n.photos /\ first.primary
    BY <1>1, <2>2 DEF Images
  <2>4. \A x \in n.photos : x.primary => x = first
    BY <1>2, <2>2
  <2>5. {x \in n.photos : x.primary} = {first}
    BY <2>3, <2>4
  <2> QED BY <2>5, FS_Singleton
<1> QED BY <1>3, <1>4, <1>5

-----------------------------------------------------------------------------
(* The whole conversion.                                                   *)

LEMMA ConvertFields ==
  ASSUME NEW d \in Documents
  PROVE  /\ convert(d).pens = NewItems(d, "pen")
         /\ convert(d).inks = NewItems(d, "ink")
         /\ convert(d).swatches = NewItems(d, "swatch")
         /\ convert(d).fills = NewFills(d)
         /\ convert(d).activity = NewActivity(d)
         /\ convert(d).retention = IF d.retention = 0 THEN Forever ELSE d.retention
         /\ convert(d).keep = IF d.keep = None THEN DEFAULT_KEEP ELSE Clamped(d.keep)
         /\ convert(d).showcase \subseteq d.showcase
         /\ convert(d) = [pens |-> convert(d).pens, inks |-> convert(d).inks,
              swatches |-> convert(d).swatches, fills |-> convert(d).fills,
              activity |-> convert(d).activity, retention |-> convert(d).retention,
              keep |-> convert(d).keep, showcase |-> convert(d).showcase]
BY DEF convert

LEMMA ItemsHaveTypes ==
  ASSUME NEW d \in Documents, NEW kind
  PROVE  NewItems(d, kind) \subseteq Item
<1> SUFFICES ASSUME NEW n \in NewItems(d, kind) PROVE n \in Item
  OBVIOUS
<1>1. PICK i \in Kept(d) :
        n = [seq |-> i.seq, id |-> Id(Kept(d), i), of |-> i.of, photos |-> Images(d, i),
             details |-> i.details \cap {"price", "notes"}, notes_public |-> FALSE]
  BY NewItemsFacts
<1>2. i.seq \in Nat /\ i.of \in Ids \cup {NoId} /\ Id(Kept(d), i) \in Ids \cup Nat
  BY KeptFacts DEF Id
<1>3. Images(d, i) \subseteq [path : Paths, primary : BOOLEAN]
  <2>1. \A p \in Usable(d, i) : p.path \in Paths /\ IsPrimary(Usable(d, i), p) \in BOOLEAN
    BY UsableFacts DEF IsPrimary
  <2> QED BY <2>1 DEF Images
<1>4. i.details \cap {"price", "notes"} \in SUBSET Details
  BY DEF Details
<1> QED BY <1>1, <1>2, <1>3, <1>4 DEF Item

LEMMA ActivityFacts ==
  ASSUME NEW d \in Documents
  PROVE  NewActivity(d) \subseteq Entry
<1> SUFFICES ASSUME NEW n \in NewActivity(d) PROVE n \in Entry
  OBVIOUS
<1>1. PICK e \in d.log : n = NewEntry(e) /\ e.kind # "other" /\ e.action # "other" /\ e.at > 0
  BY DEF NewActivity
<1>2. e \in OldEntry
  BY DocumentFacts
<1>3. /\ e.seq \in Nat /\ e.at \in 1..MaxTime
      /\ e.kind \in {"pen", "ink", "swatch"}
      /\ e.id \in Ids \cup {NoId} /\ e.ink \in Ids \cup {NoId} /\ e.previous \in Ids \cup {NoId}
  BY <1>1, <1>2, TimeAssumption DEF OldEntry
<1>4. NewAction(e.action) \in {"created", "updated", "deleted"} \cup Inkings
  BY <1>1, <1>2 DEF OldEntry, NewAction, Inkings
<1> QED BY <1>1, <1>3, <1>4 DEF NewEntry, Entry

LEMMA FillsHaveTypes ==
  ASSUME NEW d \in Documents
  PROVE  NewFills(d) \subseteq Fill
<1> SUFFICES ASSUME NEW f \in NewFills(d) PROVE f \in Fill
  OBVIOUS
<1>1. PICK g \in Known(d) :
        f = [seq |-> g.seq, pen |-> g.pen, ink |-> g.ink, inked |-> g.inked,
             emptied |-> g.emptied, noted |-> FALSE]
  BY NewFillsFacts
<1>2. g \in Rebuilt(d) /\ g.pen \in IdsOf(NewItems(d, "pen")) /\ g.ink \in IdsOf(NewItems(d, "ink"))
  BY <1>1 DEF Known
<1>3. g.pen \in Ids \cup Nat /\ g.ink \in Ids \cup Nat
  BY <1>2, ItemsHaveTypes DEF IdsOf, Item
<1> QED BY <1>1, <1>2, <1>3, RebuiltFacts DEF Fill

LEMMA SettingsFacts ==
  ASSUME NEW d \in Documents
  PROVE  /\ convert(d).retention \in Nat \cup {Forever}
         /\ convert(d).retention # Forever => convert(d).retention > 0
         /\ convert(d).keep \in 1..MAX_KEEP
         /\ convert(d).showcase \subseteq Flags
<1>1. d.retention \in Nat /\ d.keep \in Int \cup {None} /\ d.showcase \subseteq Flags
  BY DocumentsAssumption
<1>2. convert(d).keep \in 1..MAX_KEEP
  BY <1>1, ConvertFields, KeepAssumption DEF Clamped
<1> QED BY <1>1, <1>2, ConvertFields

(* Whatever ids, photos, ink history and numbers a 2.x folder holds, its   *)
(* conversion passes what validation checks of these.                      *)
THEOREM ConversionIsValid ==
  ASSUME NEW d \in Documents
  PROVE  validate(convert(d))
<1>1. /\ Unique(convert(d).pens) /\ Unique(convert(d).inks) /\ Unique(convert(d).swatches)
  BY ConvertFields, IdsAreUnique
<1>2. \A w \in convert(d).swatches : w.of \in IdsOf(convert(d).inks)
  BY ConvertFields, SwatchesHaveInks
<1>3. /\ ValidPhotos("pen", convert(d).pens)
      /\ ValidPhotos("ink", convert(d).inks)
      /\ ValidPhotos("swatch", convert(d).swatches)
  BY ConvertFields, PhotosAreValid
<1>4. /\ Timeline(convert(d).fills)
      /\ \A f \in convert(d).fills :
           f.pen \in IdsOf(convert(d).pens) /\ f.ink \in IdsOf(convert(d).inks)
  BY ConvertFields, FillsAreValid
<1>5. \A e \in convert(d).activity : e.at > 0
  BY ConvertFields, ActivityFacts, TimeAssumption DEF Entry
<1> QED BY <1>1, <1>2, <1>3, <1>4, <1>5, SettingsFacts DEF validate

LEMMA ConversionIsCollection ==
  ASSUME NEW d \in Documents
  PROVE  IsCollection(convert(d))
<1>1. /\ convert(d).pens \subseteq Item /\ convert(d).inks \subseteq Item
      /\ convert(d).swatches \subseteq Item
  BY ConvertFields, ItemsHaveTypes
<1>2. convert(d).fills \subseteq Fill /\ convert(d).activity \subseteq Entry
  BY ConvertFields, FillsHaveTypes, ActivityFacts
<1> QED BY <1>1, <1>2, ConvertFields, SettingsFacts DEF IsCollection

(* After the conversion each pen holds what 2.x says it held.              *)
LEMMA ConversionKeepsInks ==
  ASSUME NEW d \in Documents, NEW pen \in IdsOf(NewItems(d, "pen"))
  PROVE  {f.ink : f \in {g \in NewFills(d) : g.pen = pen /\ g.emptied = Open}}
           = {e.ink : e \in Holding(d, pen)} \cap IdsOf(NewItems(d, "ink"))
<1> DEFINE open == {g \in NewFills(d) : g.pen = pen /\ g.emptied = Open}
<1>1. ASSUME NEW f \in open
      PROVE  \E e \in Holding(d, pen) : f.ink = e.ink /\ e.ink \in IdsOf(NewItems(d, "ink"))
  <2>1. PICK g \in Known(d) :
          f = [seq |-> g.seq, pen |-> g.pen, ink |-> g.ink, inked |-> g.inked,
               emptied |-> g.emptied, noted |-> FALSE]
    BY NewFillsFacts
  <2>2. g.ink \in IdsOf(NewItems(d, "ink")) /\ g \in Rebuilt(d) /\ g.pen = pen /\ g.emptied = Open
    BY <2>1 DEF Known
  <2>3. CASE g \in Unlogged(d)
    <3>1. PICK e \in Current(d) : g = [seq |-> e.seq, pen |-> e.pen, ink |-> e.ink,
                                       inked |-> StartOf(d, e), emptied |-> Open]
      BY <2>3, UnloggedFacts
    <3> QED BY <2>1, <2>2, <3>1 DEF Holding
  <2>4. CASE \E l \in Logged(d) : g = Reconciled(d, l)
    <3>1. PICK l \in Logged(d) : g = Reconciled(d, l)
      BY <2>4
    <3> QED BY <2>1, <2>2, <3>1, ReconciledFacts
  <2> QED BY <2>2, <2>3, <2>4 DEF Rebuilt
<1>2. ASSUME NEW e \in Holding(d, pen), e.ink \in IdsOf(NewItems(d, "ink"))
      PROVE  \E f \in open : f.ink = e.ink
  <2>1. e \in Current(d) /\ e.pen = pen
    BY DEF Holding
  <2>2. \E g \in Rebuilt(d) : g.pen = pen /\ g.ink = e.ink /\ g.emptied = Open
    <3>1. CASE \E l \in Logged(d) : l.pen = pen /\ Reconciled(d, l).emptied = Open
      <4>1. PICK l \in Logged(d) : l.pen = pen /\ Reconciled(d, l).emptied = Open
        BY <3>1
      <4>2. PICK h \in Holding(d, pen) : h.ink = l.ink
        BY <4>1, ReconciledFacts
      <4>3. h = e
        BY <2>1, <4>2, CurrentFacts DEF Holding
      <4>4. Reconciled(d, l).pen = pen /\ Reconciled(d, l).ink = e.ink
        BY <4>1, <4>2, <4>3, ReconciledFacts
      <4> QED BY <4>1, <4>4 DEF Rebuilt
    <3>2. CASE ~ \E l \in Logged(d) : l.pen = pen /\ Reconciled(d, l).emptied = Open
      <4>1. [seq |-> e.seq, pen |-> e.pen, ink |-> e.ink, inked |-> StartOf(d, e),
             emptied |-> Open] \in Unlogged(d)
        BY <2>1, <3>2 DEF Unlogged
      <4> QED BY <2>1, <4>1 DEF Rebuilt
    <3> QED BY <3>1, <3>2
  <2>3. PICK g \in Rebuilt(d) : g.pen = pen /\ g.ink = e.ink /\ g.emptied = Open
    BY <2>2
  <2>4. g \in Known(d)
    BY <1>2, <2>3 DEF Known
  <2>5. [seq |-> g.seq, pen |-> g.pen, ink |-> g.ink, inked |-> g.inked,
         emptied |-> g.emptied, noted |-> FALSE] \in NewFills(d)
    BY <2>4, NewFillsFacts
  <2> QED BY <2>3, <2>5
<1> QED BY <1>1, <1>2

-----------------------------------------------------------------------------
(* The showcase.                                                           *)

(* The collections the showcase is made of: a swatch's ink is there.       *)
Shareable(c) == IsCollection(c) /\ \A w \in c.swatches : w.of \in IdsOf(c.inks)

LEMMA ItemExcept ==
  ASSUME NEW i \in Item, NEW x
  PROVE  [i EXCEPT !.details = x] = [seq |-> i.seq, id |-> i.id, of |-> i.of, photos |-> i.photos,
                                     details |-> x, notes_public |-> i.notes_public]
BY DEF Item

LEMMA FillExcept ==
  ASSUME NEW f \in Fill
  PROVE  [f EXCEPT !.noted = FALSE] = [seq |-> f.seq, pen |-> f.pen, ink |-> f.ink,
                                      inked |-> f.inked, emptied |-> f.emptied, noted |-> FALSE]
<1>1. \A x : [f EXCEPT !.noted = x] = [seq |-> f.seq, pen |-> f.pen, ink |-> f.ink,
                                     inked |-> f.inked, emptied |-> f.emptied, noted |-> x]
  BY DEF Fill
<1> QED BY <1>1, Zenon

LEMMA ShownFacts ==
  ASSUME NEW items, items \subseteq Item, NEW s
  PROVE  /\ Shown(items, s) \subseteq Item
         /\ IdsOf(Shown(items, s)) = IdsOf(items)
         /\ \A n \in Shown(items, s) : \E i \in items : n.id = i.id /\ n.of = i.of
         /\ Shown(Shown(items, s), s) = Shown(items, s)
<1> DEFINE cut(i) == {d \in i.details \cap s : d = "notes" => i.notes_public}
           show(i) == [i EXCEPT !.details = cut(i)]
<1>1. Shown(items, s) = {show(i) : i \in items}
  BY DEF Shown
<1>2. ASSUME NEW i \in Item
      PROVE  /\ show(i) = [seq |-> i.seq, id |-> i.id, of |-> i.of, photos |-> i.photos,
                          details |-> cut(i), notes_public |-> i.notes_public]
             /\ show(i) \in Item
             /\ cut(show(i)) = cut(i)
             /\ show(show(i)) = show(i)
  <2>1. show(i) = [seq |-> i.seq, id |-> i.id, of |-> i.of, photos |-> i.photos,
                   details |-> cut(i), notes_public |-> i.notes_public]
    <3> HIDE DEF cut
    <3> QED BY ItemExcept
  <2>2. cut(i) \in SUBSET Details
    BY DEF Item
  <2> HIDE DEF cut
  <2>3. show(i) \in Item
    BY <2>1, <2>2 DEF Item
  <2>4. cut(show(i)) = cut(i)
    <3>1. show(i).details = cut(i) /\ show(i).notes_public = i.notes_public
      BY <2>1
    <3> HIDE DEF show
    <3> QED BY <3>1 DEF cut
  <2>5. show(show(i)) = [seq |-> show(i).seq, id |-> show(i).id, of |-> show(i).of,
                         photos |-> show(i).photos, details |-> cut(show(i)),
                         notes_public |-> show(i).notes_public]
    BY <2>3, ItemExcept
  <2>6. show(show(i)) = show(i)
    BY <2>1, <2>4, <2>5
  <2> QED BY <2>1, <2>3, <2>4, <2>6
<1>3. Shown(Shown(items, s), s) = {show(n) : n \in Shown(items, s)}
  BY DEF Shown
<1> HIDE DEF show, cut
<1>4. \A i \in items : show(i) \in Item /\ show(i).id = i.id /\ show(i).of = i.of /\ show(show(i)) = show(i)
  BY <1>2
<1>5. IdsOf(Shown(items, s)) = IdsOf(items)
  BY <1>1, <1>4 DEF IdsOf
<1>6. Shown(Shown(items, s), s) = Shown(items, s)
  BY <1>1, <1>3, <1>4
<1> QED BY <1>1, <1>4, <1>5, <1>6

(* For every collection and all settings, a visitor is told of nothing     *)
(* that the visitor cannot see.                                            *)
THEOREM ShowcasesAreClosed ==
  ASSUME NEW c, Shareable(c)
  PROVE  Closed(project(c))
<1>1. c.pens \subseteq Item /\ c.inks \subseteq Item /\ c.swatches \subseteq Item
      /\ c.fills \subseteq Fill /\ c.activity \subseteq Entry
  BY DEF Shareable, IsCollection
<1>2. CASE "enabled" \notin c.showcase
  BY <1>2 DEF project, Closed
<1>3. CASE "enabled" \in c.showcase
  <2>1. /\ project(c).pens = Pens(c) /\ project(c).inks = Inks(c)
        /\ project(c).swatches = Swatches(c) /\ project(c).fills = Fills(c)
        /\ project(c).activity = Activity(c)
    BY <1>3 DEF project
  <2>2. \A f \in Fills(c) : f.pen \in IdsOf(Pens(c)) /\ f.ink \in IdsOf(Inks(c))
    <3>1. \A g \in Fill : [g EXCEPT !.noted = FALSE].pen = g.pen
                        /\ [g EXCEPT !.noted = FALSE].ink = g.ink
      BY DEF Fill
    <3> QED BY <1>1, <3>1 DEF Fills
  <2>3. \A w \in Swatches(c) : w.of \in IdsOf(Inks(c))
    <3>1. CASE ShowSwatches(c.showcase)
      <4>1. IdsOf(Inks(c)) = IdsOf(c.inks)
        BY <1>1, <3>1, ShownFacts DEF Inks, ShowSwatches
      <4>2. \A w \in Swatches(c) : \E i \in c.swatches : w.of = i.of
        BY <1>1, <3>1, ShownFacts DEF Swatches
      <4> QED BY <4>1, <4>2 DEF Shareable
    <3>2. CASE ~ ShowSwatches(c.showcase)
      BY <3>2 DEF Swatches
    <3> QED BY <3>1, <3>2
  <2>4. \A e \in Activity(c) :
          /\ e.id \in IdsOf(Pens(c) \cup Inks(c) \cup Swatches(c)) \cup {NoId}
          /\ {e.ink, e.previous} \subseteq IdsOf(Inks(c)) \cup {NoId}
    <3>1. \A e \in Activity(c) : \E t \in Told(c) : e = PublicActivity(c, t)
      BY DEF Activity, Newest
    <3>2. ASSUME NEW t \in Told(c)
          PROVE  LET e == PublicActivity(c, t)
                 IN /\ e.id \in IdsOf(Pens(c)) \cup IdsOf(Inks(c)) \cup IdsOf(Swatches(c)) \cup {NoId}
                    /\ e.ink \in IdsOf(Inks(c)) \cup {NoId}
                    /\ e.previous \in IdsOf(Inks(c)) \cup {NoId}
      <4>1. t \in Entry
        BY <1>1 DEF Told
      <4> DEFINE ids == CASE t.kind = "pen" -> IdsOf(Pens(c))
                          [] t.kind = "ink" -> IdsOf(Inks(c))
                          [] OTHER -> IdsOf(Swatches(c))
      <4>2. PublicActivity(c, t) =
              [t EXCEPT !.id = If(@, ids), !.ink = If(@, IdsOf(Inks(c))),
                        !.previous = If(@, IdsOf(Inks(c)))]
        BY DEF PublicActivity
      <4>3. ids \subseteq IdsOf(Pens(c)) \cup IdsOf(Inks(c)) \cup IdsOf(Swatches(c))
        OBVIOUS
      <4> HIDE DEF ids
      <4>4. /\ PublicActivity(c, t).id = If(t.id, ids)
            /\ PublicActivity(c, t).ink = If(t.ink, IdsOf(Inks(c)))
            /\ PublicActivity(c, t).previous = If(t.previous, IdsOf(Inks(c)))
        BY <4>1, <4>2 DEF Entry
      <4> QED BY <4>3, <4>4 DEF If
    <3>3. IdsOf(Pens(c) \cup Inks(c) \cup Swatches(c))
            = IdsOf(Pens(c)) \cup IdsOf(Inks(c)) \cup IdsOf(Swatches(c))
      BY DEF IdsOf
    <3> QED BY <3>1, <3>2, <3>3
  <2> QED BY <2>1, <2>2, <2>3, <2>4 DEF Closed
<1> QED BY <1>2, <1>3

(* What a collection looks like without what is hidden.                    *)
LEMMA WithoutHiddenFields ==
  ASSUME NEW c, Shareable(c)
  PROVE  LET w == WithoutHidden(c)
             s == c.showcase
         IN /\ w.showcase = s
            /\ w.pens = IF "pens" \in s THEN Shown(c.pens, s) ELSE {}
            /\ w.inks = IF "inks" \in s THEN Shown(c.inks, s) ELSE {}
            /\ w.swatches = IF {"inks", "swatches"} \subseteq s THEN Shown(c.swatches, s) ELSE {}
            /\ w.fills = IF {"pens", "inks"} \subseteq s
                         THEN {[f EXCEPT !.noted = FALSE] : f \in c.fills} ELSE {}
            /\ w.activity = {e \in c.activity :
                   /\ e.kind = "pen" => "pens" \in s
                   /\ e.kind = "swatch" => "swatches" \in s
                   /\ e.kind \in {"ink", "swatch"} \/ e.action \in Inkings => "inks" \in s}
<1> DEFINE s == c.showcase
           public(items) ==
             {[i EXCEPT !.details = {d \in @ : d \in s /\ (d = "notes" => i.notes_public)}] :
               i \in items}
<1>1. ASSUME NEW items, items \subseteq Item PROVE public(items) = Shown(items, s)
  <2>1. \A i \in items : {d \in i.details : d \in s /\ (d = "notes" => i.notes_public)}
                       = {d \in i.details \cap s : d = "notes" => i.notes_public}
    OBVIOUS
  <2> QED BY <2>1 DEF Shown
<1>2. /\ c = [pens |-> c.pens, inks |-> c.inks, swatches |-> c.swatches, fills |-> c.fills,
              activity |-> c.activity, retention |-> c.retention, keep |-> c.keep,
              showcase |-> c.showcase]
      /\ c.pens \subseteq Item /\ c.inks \subseteq Item /\ c.swatches \subseteq Item
  BY DEF Shareable, IsCollection
<1>3. /\ public(c.pens) = Shown(c.pens, s)
      /\ public(c.inks) = Shown(c.inks, s)
      /\ public(c.swatches) = Shown(c.swatches, s)
  BY <1>1, <1>2
<1>4. WithoutHidden(c) =
        [c EXCEPT
          !.pens = IF "pens" \in s THEN public(@) ELSE {},
          !.inks = IF "inks" \in s THEN public(@) ELSE {},
          !.swatches = IF {"inks", "swatches"} \subseteq s THEN public(@) ELSE {},
          !.fills = IF {"pens", "inks"} \subseteq s THEN {[f EXCEPT !.noted = FALSE] : f \in @}
                    ELSE {},
          !.activity = {e \in @ : /\ e.kind = "pen" => "pens" \in s
                                  /\ e.kind = "swatch" => "swatches" \in s
                                  /\ e.kind \in {"ink", "swatch"} \/ e.action \in Inkings
                                       => "inks" \in s}]
  BY DEF WithoutHidden
<1> HIDE DEF public
<1> QED BY <1>2, <1>3, <1>4

(* For every collection and all settings, a visitor is told the same as if *)
(* nothing that is hidden had ever been entered.                           *)
THEOREM NothingHiddenShows ==
  ASSUME NEW c, Shareable(c)
  PROVE  project(c) = project(WithoutHidden(c))
<1> DEFINE w == WithoutHidden(c)
           s == c.showcase
<1>1. /\ c.pens \subseteq Item /\ c.inks \subseteq Item /\ c.swatches \subseteq Item
      /\ c.fills \subseteq Fill /\ c.activity \subseteq Entry
  BY DEF Shareable, IsCollection
<1>2. /\ w.showcase = s
      /\ w.pens = IF "pens" \in s THEN Shown(c.pens, s) ELSE {}
      /\ w.inks = IF "inks" \in s THEN Shown(c.inks, s) ELSE {}
      /\ w.swatches = IF {"inks", "swatches"} \subseteq s THEN Shown(c.swatches, s) ELSE {}
      /\ w.fills = IF {"pens", "inks"} \subseteq s
                   THEN {[f EXCEPT !.noted = FALSE] : f \in c.fills} ELSE {}
      /\ w.activity = {e \in c.activity :
             /\ e.kind = "pen" => "pens" \in s
             /\ e.kind = "swatch" => "swatches" \in s
             /\ e.kind \in {"ink", "swatch"} \/ e.action \in Inkings => "inks" \in s}
  BY WithoutHiddenFields
<1> HIDE DEF w
<1>3. Pens(w) = Pens(c)
  BY <1>1, <1>2, ShownFacts DEF Pens, ShowPens
<1>4. Inks(w) = Inks(c)
  BY <1>1, <1>2, ShownFacts DEF Inks, ShowInks
<1>5. Swatches(w) = Swatches(c)
  BY <1>1, <1>2, ShownFacts DEF Swatches, ShowSwatches, ShowInks
<1>6. Fills(w) = Fills(c)
  <2> DEFINE plain(f) == [f EXCEPT !.noted = FALSE]
             seen(f) == f.pen \in IdsOf(Pens(c)) /\ f.ink \in IdsOf(Inks(c))
  <2>1. /\ Fills(c) = {plain(f) : f \in {g \in c.fills : seen(g)}}
        /\ Fills(w) = {plain(f) : f \in {g \in w.fills : seen(g)}}
    BY <1>3, <1>4 DEF Fills
  <2>2. CASE {"pens", "inks"} \subseteq s
    <3>1. w.fills = {plain(f) : f \in c.fills}
      BY <1>2, <2>2
    <3>2. \A f \in Fill : plain(f) = [seq |-> f.seq, pen |-> f.pen, ink |-> f.ink, inked |-> f.inked,
                                      emptied |-> f.emptied, noted |-> FALSE]
      BY FillExcept
    <3>3. \A f \in Fill : plain(f) \in Fill
      BY <3>2 DEF Fill
    <3> HIDE DEF plain
    <3>4. \A f \in Fill : plain(plain(f)) = plain(f)
      BY <3>2, <3>3
    <3>5. \A f \in Fill : seen(plain(f)) <=> seen(f)
      BY <3>2
    <3> HIDE DEF seen
    <3>6. \A f \in c.fills : f \in Fill
      BY <1>1
    <3> QED BY <2>1, <3>1, <3>4, <3>5, <3>6
  <2>3. CASE ~ ({"pens", "inks"} \subseteq s)
    <3>1. \A f : ~ seen(f)
      BY <2>3 DEF Pens, Inks, ShowPens, ShowInks, IdsOf
    <3> HIDE DEF seen
    <3> QED BY <2>1, <3>1
  <2> QED BY <2>2, <2>3
<1>7. Told(w) = Told(c)
  BY <1>1, <1>2 DEF Told, ShowPens, ShowInks, ShowSwatches, Entry
<1>8. \A e : PublicActivity(w, e) = PublicActivity(c, e)
  BY <1>3, <1>4, <1>5 DEF PublicActivity
<1>9. Activity(w) = Activity(c)
  <2>1. {PublicActivity(w, e) : e \in Told(w)} = {PublicActivity(c, e) : e \in Told(c)}
    BY <1>7, <1>8
  <2> QED BY <1>2, <2>1 DEF Activity
<1> QED BY <1>2, <1>3, <1>4, <1>5, <1>6, <1>9 DEF project, w

-----------------------------------------------------------------------------
(* The importer and the program on one folder.                             *)

(* The induction hypothesis: an import under way has the claim on a folder *)
(* without a collection and has copied what is not left to copy, and what  *)
(* is stored mentions only photos that are there.                          *)
IInv ==
  /\ claim \in {"import", "server", None}
  /\ images \in [Paths -> Contents \cup {None}]
  /\ todo \subseteq Paths
  /\ old = None => job = None /\ todo = {}
  /\ old # None =>
       /\ claim = "import" /\ stored = None
       /\ old \in Documents /\ job = convert(old)
       /\ \A p \in PhotosOf(job) : p \in todo \/ images[p] # None
  /\ stored # None =>
       /\ Shareable(stored)
       /\ \A p \in PhotosOf(stored) : images[p] # None

LEMMA PhotosOfFacts ==
  ASSUME NEW c, IsCollection(c)
  PROVE  /\ PhotosOf(c) \subseteq Paths
         /\ PhotosOf(c) = UNION {{p.path : p \in i.photos} : i \in c.pens \cup c.inks \cup c.swatches}
<1>1. c.pens \cup c.inks \cup c.swatches \subseteq Item
  BY DEF IsCollection
<1>2. \A i \in Item : i.photos \subseteq [path : Paths, primary : BOOLEAN]
  BY DEF Item
<1> QED BY <1>1, <1>2 DEF PhotosOf

LEMMA ConversionIsShareable ==
  ASSUME NEW d \in Documents
  PROVE  Shareable(convert(d))
BY ConversionIsCollection, ConvertFields, SwatchesHaveInks DEF Shareable

(* What the program finds in the folder.                                   *)
LEMMA LoadedFacts ==
  ASSUME IInv
  PROVE  Shareable(Loaded) /\ \A p \in PhotosOf(Loaded) : images[p] # None
<1>1. CASE stored # None
  BY <1>1 DEF IInv, Loaded
<1>2. CASE stored = None
  <2>1. Shareable(Empty)
    BY KeepAssumption DEF Shareable, IsCollection, Empty
  <2>2. PhotosOf(Empty) = {}
    BY DEF PhotosOf, Empty
  <2> QED BY <1>2, <2>1, <2>2 DEF Loaded
<1> QED BY <1>1, <1>2

LEMMA SettingsSaved ==
  ASSUME NEW c, Shareable(c), NEW choice \in ShowcaseChoices
  PROVE  LET e == [c EXCEPT !.showcase = choice] IN Shareable(e) /\ PhotosOf(e) = PhotosOf(c)
<1>1. c = [pens |-> c.pens, inks |-> c.inks, swatches |-> c.swatches, fills |-> c.fills,
           activity |-> c.activity, retention |-> c.retention, keep |-> c.keep,
           showcase |-> c.showcase]
  BY DEF Shareable, IsCollection
<1>2. [c EXCEPT !.showcase = choice] =
        [pens |-> c.pens, inks |-> c.inks, swatches |-> c.swatches, fills |-> c.fills,
         activity |-> c.activity, retention |-> c.retention, keep |-> c.keep,
         showcase |-> choice]
  BY <1>1
<1> QED BY <1>2, ChoicesAssumption DEF Shareable, IsCollection, PhotosOf

LEMMA PenSaved ==
  ASSUME NEW c, Shareable(c), NEW pen \in c.pens
  PROVE  LET e == [c EXCEPT !.pens = (@ \ {pen}) \cup {Completed(pen)}]
         IN Shareable(e) /\ PhotosOf(e) = PhotosOf(c) /\ pen.id \in Ids \cup Nat
<1> DEFINE new == Completed(pen)
           e == [c EXCEPT !.pens = (@ \ {pen}) \cup {new}]
<1>1. /\ c = [pens |-> c.pens, inks |-> c.inks, swatches |-> c.swatches, fills |-> c.fills,
              activity |-> c.activity, retention |-> c.retention, keep |-> c.keep,
              showcase |-> c.showcase]
      /\ c.pens \subseteq Item /\ pen \in Item
  BY DEF Shareable, IsCollection
<1>2. new \in Item /\ new.photos = pen.photos
  BY <1>1 DEF Item, Completed
<1> HIDE DEF new
<1>3. e = [pens |-> (c.pens \ {pen}) \cup {new}, inks |-> c.inks, swatches |-> c.swatches,
           fills |-> c.fills, activity |-> c.activity, retention |-> c.retention,
           keep |-> c.keep, showcase |-> c.showcase]
  BY <1>1
<1> HIDE DEF e
<1>4. Shareable(e)
  BY <1>1, <1>2, <1>3 DEF Shareable, IsCollection
<1>5. PhotosOf(e) = PhotosOf(c)
  <2>1. {i.photos : i \in e.pens \cup e.inks \cup e.swatches}
          = {i.photos : i \in c.pens \cup c.inks \cup c.swatches}
    BY <1>2, <1>3
  <2> QED BY <2>1 DEF PhotosOf
<1> QED BY <1>1, <1>4, <1>5 DEF e, new, Item

LEMMA InkAdded ==
  ASSUME NEW c, Shareable(c), NEW seq \in AddedSeqs, NEW path \in Paths
  PROVE  LET e == [c EXCEPT !.inks = @ \cup {NewInk(seq, path)}]
         IN Shareable(e) /\ PhotosOf(e) \subseteq PhotosOf(c) \cup {path}
<1> DEFINE new == NewInk(seq, path)
           e == [c EXCEPT !.inks = @ \cup {new}]
<1>1. /\ c = [pens |-> c.pens, inks |-> c.inks, swatches |-> c.swatches, fills |-> c.fills,
              activity |-> c.activity, retention |-> c.retention, keep |-> c.keep,
              showcase |-> c.showcase]
      /\ c.inks \subseteq Item
  BY DEF Shareable, IsCollection
<1>2. new \in Item /\ \A p \in new.photos : p.path = path
  BY ChoicesAssumption DEF Item, NewInk
<1> HIDE DEF new
<1>3. e = [pens |-> c.pens, inks |-> c.inks \cup {new}, swatches |-> c.swatches,
           fills |-> c.fills, activity |-> c.activity, retention |-> c.retention,
           keep |-> c.keep, showcase |-> c.showcase]
  BY <1>1
<1> HIDE DEF e
<1>4. Shareable(e)
  <2>1. IdsOf(c.inks) \subseteq IdsOf(e.inks)
    BY <1>3 DEF IdsOf
  <2> QED BY <1>1, <1>2, <1>3, <2>1 DEF Shareable, IsCollection
<1>5. PhotosOf(e) \subseteq PhotosOf(c) \cup {path}
  BY <1>2, <1>3 DEF PhotosOf
<1> QED BY <1>4, <1>5 DEF e, new

(* What a record is after two of its fields have changed.                  *)
LEMMA LogReplaced ==
  ASSUME NEW pens, NEW inks, NEW swatches, NEW fills, NEW activity, NEW retention, NEW keep,
         NEW showcase, NEW f, NEW a, NEW c,
         c = [pens |-> pens, inks |-> inks, swatches |-> swatches, fills |-> fills,
              activity |-> activity, retention |-> retention, keep |-> keep,
              showcase |-> showcase]
  PROVE  [c EXCEPT !.fills = f, !.activity = a]
         = [pens |-> pens, inks |-> inks, swatches |-> swatches, fills |-> f,
            activity |-> a, retention |-> retention, keep |-> keep, showcase |-> showcase]
<1>1. PICK d : d = [c EXCEPT !.fills = f]
  OBVIOUS
<1>2. d = [pens |-> pens, inks |-> inks, swatches |-> swatches, fills |-> f,
           activity |-> activity, retention |-> retention, keep |-> keep,
           showcase |-> showcase]
  BY <1>1
<1>3. PICK e : e = [d EXCEPT !.activity = a]
  OBVIOUS
<1>4. e = [pens |-> pens, inks |-> inks, swatches |-> swatches, fills |-> f,
           activity |-> a, retention |-> retention, keep |-> keep, showcase |-> showcase]
  BY <1>2, <1>3
<1>5. [c EXCEPT !.fills = f, !.activity = a] = [[c EXCEPT !.fills = f] EXCEPT !.activity = a]
  OBVIOUS
<1>6. [c EXCEPT !.fills = f, !.activity = a] = e
  BY <1>1, <1>3, <1>5, Zenon
<1> QED BY <1>4, <1>6

(* An entry in the activity log, and forgetting what is past the retention *)
(* limit, leave the items and their photos alone.                          *)
LEMMA LogChanged ==
  ASSUME NEW c, Shareable(c), NEW f \in SUBSET Fill, NEW a \in SUBSET Entry, NEW e,
         e = [pens |-> c.pens, inks |-> c.inks, swatches |-> c.swatches, fills |-> f,
              activity |-> a, retention |-> c.retention, keep |-> c.keep,
              showcase |-> c.showcase]
  PROVE  Shareable(e) /\ PhotosOf(e) = PhotosOf(c)
<1>1. /\ e.pens = c.pens /\ e.inks = c.inks /\ e.swatches = c.swatches
      /\ e.fills = f /\ e.activity = a
      /\ e.retention = c.retention /\ e.keep = c.keep /\ e.showcase = c.showcase
  OBVIOUS
<1> QED BY <1>1 DEF Shareable, IsCollection, PhotosOf

LEMMA PrunedFacts ==
  ASSUME NEW c, Shareable(c), NEW now
  PROVE  Shareable(Pruned(c, now)) /\ PhotosOf(Pruned(c, now)) = PhotosOf(c)
<1> DEFINE f == {x \in c.fills : x.emptied = Open \/ x.emptied >= now - c.retention}
           a == {x \in c.activity : x.at >= now - c.retention}
<1>1. f \in SUBSET Fill /\ a \in SUBSET Entry
  BY DEF Shareable, IsCollection
<1>2. CASE c.retention = Forever
  BY <1>2 DEF Pruned
<1>3. CASE c.retention # Forever
  <2>1. Pruned(c, now) = [c EXCEPT !.fills = f, !.activity = a]
    BY <1>3, Zenon DEF Pruned
  <2>2. PICK e : e = Pruned(c, now)
    OBVIOUS
  <2> HIDE DEF f, a
  <2>3. c = [pens |-> c.pens, inks |-> c.inks, swatches |-> c.swatches, fills |-> c.fills,
             activity |-> c.activity, retention |-> c.retention, keep |-> c.keep,
             showcase |-> c.showcase]
    BY DEF Shareable, IsCollection
  <2>4. e = [pens |-> c.pens, inks |-> c.inks, swatches |-> c.swatches, fills |-> f,
             activity |-> a, retention |-> c.retention, keep |-> c.keep,
             showcase |-> c.showcase]
    BY <2>1, <2>2, <2>3, LogReplaced, Zenon
  <2>5. Shareable(e) /\ PhotosOf(e) = PhotosOf(c)
    BY <1>1, <2>4, LogChanged
  <2> QED BY <2>2, <2>5
<1> QED BY <1>2, <1>3

LEMMA EnteredFacts ==
  ASSUME NEW c, Shareable(c), NEW n \in LogSeqs, NEW now \in Nows,
         NEW kind \in {"pen", "ink"}, NEW action \in {"created", "updated"},
         NEW id \in Ids \cup Nat
  PROVE  LET e == Entered(c, n, now, kind, action, id)
         IN Shareable(e) /\ PhotosOf(e) = PhotosOf(c)
<1> DEFINE entry == [seq |-> n, at |-> now, kind |-> kind, action |-> action, id |-> id,
                     ink |-> NoId, previous |-> NoId]
           a == c.activity \cup {entry}
           e == Entered(c, n, now, kind, action, id)
<1>1. entry \in Entry
  BY RecordingAssumption DEF Entry
<1>2. c.activity \subseteq Entry
  BY DEF Shareable, IsCollection
<1>3. c = [pens |-> c.pens, inks |-> c.inks, swatches |-> c.swatches, fills |-> c.fills,
           activity |-> c.activity, retention |-> c.retention, keep |-> c.keep,
           showcase |-> c.showcase]
  BY DEF Shareable, IsCollection
<1>4. e = [c EXCEPT !.activity = a]
  BY Zenon DEF Entered
<1> HIDE DEF entry, a, e
<1>5. e = [pens |-> c.pens, inks |-> c.inks, swatches |-> c.swatches, fills |-> c.fills,
           activity |-> a, retention |-> c.retention, keep |-> c.keep,
           showcase |-> c.showcase]
  <2>1. \A x \in {c} : x = [pens |-> c.pens, inks |-> c.inks, swatches |-> c.swatches,
             fills |-> c.fills, activity |-> c.activity, retention |-> c.retention,
             keep |-> c.keep, showcase |-> c.showcase]
          => [x EXCEPT !.activity = a] = [pens |-> c.pens, inks |-> c.inks,
               swatches |-> c.swatches, fills |-> c.fills, activity |-> a,
               retention |-> c.retention, keep |-> c.keep, showcase |-> c.showcase]
    OBVIOUS
  <2> QED BY <2>1, <1>3, <1>4, Zenon
<1>6. c.fills \in SUBSET Fill /\ a \in SUBSET Entry
  BY <1>1, <1>2 DEF a, Shareable, IsCollection
<1>7. Shareable(e) /\ PhotosOf(e) = PhotosOf(c)
  BY <1>5, <1>6, LogChanged
<1> QED BY <1>7 DEF e

(* The photos of what is stored after a step are there, and the ones that  *)
(* were in use hold what they held.                                        *)
PhotosKept == stored' # None =>
  \A p \in PhotosOf(stored') :
    /\ images'[p] # None
    /\ stored # None /\ p \in PhotosOf(stored) => images'[p] = images[p]

(* The same collection and the same photos: nothing to show.               *)
LEMMA SamePhotos ==
  ASSUME IInv, images' = images,
         \/ stored' = stored
         \/ PhotosOf(stored') = PhotosOf(Loaded)
  PROVE  PhotosKept
<1>1. CASE stored' = stored
  BY <1>1 DEF IInv, PhotosKept
<1>2. CASE PhotosOf(stored') = PhotosOf(Loaded)
  BY <1>2, LoadedFacts DEF PhotosKept
<1> QED BY <1>1, <1>2

(* Every step keeps the induction hypothesis, and the photos in use.       *)
LEMMA StepKeeps ==
  ASSUME IInv, [Next]_vars
  PROVE  IInv' /\ PhotosKept
<1>0. /\ None \notin {"import", "server"} /\ None \notin Contents /\ Contents # {}
      /\ \A d \in Documents : d # None /\ convert(d) # None
  BY ConstantsAssumption, NoneAssumption
<1>1. CASE OpenFolder
  <2>1. IInv'
    BY <1>0, <1>1 DEF IInv, OpenFolder, importing
  <2>2. PhotosKept
    BY <1>1, SamePhotos DEF OpenFolder
  <2> QED BY <2>1, <2>2
<1>2. ASSUME NEW d \in Documents, ReadOld(d) PROVE IInv' /\ PhotosKept
  <2>1. PhotosOf(convert(d)) \subseteq Paths
    BY ConversionIsCollection, PhotosOfFacts
  <2>2. IInv'
    BY <1>0, <1>2, <2>1 DEF IInv, ReadOld
  <2>3. PhotosKept
    BY <1>2, SamePhotos DEF ReadOld
  <2> QED BY <2>2, <2>3
<1>3. CASE RefuseImport \/ CopyFails \/ Kill
  <2>1. IInv'
    BY <1>0, <1>3 DEF IInv, RefuseImport, CopyFails, Kill, Ended
  <2>2. PhotosKept
    BY <1>3, SamePhotos DEF RefuseImport, CopyFails, Kill
  <2> QED BY <2>1, <2>2
<1>4. ASSUME NEW p \in Paths, NEW content \in Contents, CopyPhoto(p, content)
      PROVE  IInv' /\ PhotosKept
  <2>1. old # None /\ stored = None
    BY <1>4 DEF CopyPhoto, IInv
  <2>2. images' = [images EXCEPT ![p] = content] /\ todo' = todo \ {p}
    BY <1>4 DEF CopyPhoto
  <2>3. images' \in [Paths -> Contents \cup {None}]
    BY <2>2 DEF IInv
  <2>4. PhotosOf(job) \subseteq Paths
    BY <2>1, ConversionIsCollection, PhotosOfFacts DEF IInv
  <2>5. \A q \in PhotosOf(job) : q \in todo' \/ images'[q] # None
    <3>1. TAKE q \in PhotosOf(job)
    <3>2. CASE q = p
      BY <1>0, <2>2, <3>2 DEF IInv
    <3>3. CASE q # p
      BY <2>1, <2>2, <2>4, <3>3 DEF IInv
    <3> QED BY <3>2, <3>3
  <2>6. IInv'
    BY <1>4, <2>1, <2>3, <2>5 DEF IInv, CopyPhoto
  <2>7. PhotosKept
    BY <1>4, <2>1 DEF CopyPhoto, PhotosKept
  <2> QED BY <2>6, <2>7
<1>5. CASE Save \/ SaveFails
  <2>1. old # None /\ todo = {} /\ images' = images /\ Ended
    BY <1>5 DEF Save, SaveFails, IInv
  <2>2. /\ job = convert(old) /\ old \in Documents
        /\ stored = None /\ (stored' = stored \/ stored' = job)
        /\ \A p \in PhotosOf(job) : images[p] # None
    BY <1>5, <2>1 DEF Save, SaveFails, IInv
  <2>3. Shareable(job)
    BY <2>2, ConversionIsShareable
  <2>4. IInv'
    BY <1>0, <2>1, <2>2, <2>3 DEF IInv, Ended
  <2>5. PhotosKept
    BY <2>1, <2>2 DEF PhotosKept
  <2> QED BY <2>4, <2>5
<1>6. CASE StartServer \/ StopServer
  <2>1. IInv'
    BY <1>0, <1>6 DEF IInv, StartServer, StopServer, importing
  <2>2. PhotosKept
    BY <1>6, SamePhotos DEF StartServer, StopServer
  <2> QED BY <2>1, <2>2
<1>7. ASSUME NEW choice \in ShowcaseChoices, NEW now \in Nows, SaveSettings(choice, now)
      PROVE  IInv' /\ PhotosKept
  <2> DEFINE c == [Loaded EXCEPT !.showcase = choice]
  <2>1. Shareable(Loaded) /\ \A p \in PhotosOf(Loaded) : images[p] # None
    BY LoadedFacts
  <2>2. stored' = Pruned(c, now) /\ images' = images /\ old = None /\ claim' = claim /\ UNCHANGED importing
    BY <1>0, <1>7 DEF SaveSettings, Apply, IInv
  <2>3. Shareable(c) /\ PhotosOf(c) = PhotosOf(Loaded)
    BY <2>1, SettingsSaved
  <2> HIDE DEF c
  <2>4. Shareable(stored') /\ PhotosOf(stored') = PhotosOf(Loaded)
    BY <2>2, <2>3, PrunedFacts
  <2>5. IInv'
    BY <2>1, <2>2, <2>4 DEF IInv, importing
  <2> QED BY <2>2, <2>4, <2>5, SamePhotos
<1>8. ASSUME NEW pen \in Loaded.pens, NEW n \in LogSeqs, NEW now \in Nows, SavePen(pen, n, now)
      PROVE  IInv' /\ PhotosKept
  <2> DEFINE c == [Loaded EXCEPT !.pens = (@ \ {pen}) \cup {Completed(pen)}]
             d == Entered(c, n, now, "pen", "updated", pen.id)
  <2>1. Shareable(Loaded) /\ \A p \in PhotosOf(Loaded) : images[p] # None
    BY LoadedFacts
  <2>2. stored' = Pruned(d, now) /\ images' = images /\ old = None /\ claim' = claim /\ UNCHANGED importing
    BY <1>0, <1>8 DEF SavePen, Apply, IInv
  <2>3. Shareable(c) /\ PhotosOf(c) = PhotosOf(Loaded) /\ pen.id \in Ids \cup Nat
    BY <2>1, PenSaved
  <2> HIDE DEF c
  <2>4. Shareable(d) /\ PhotosOf(d) = PhotosOf(Loaded)
    BY <2>3, EnteredFacts
  <2> HIDE DEF d
  <2>5. Shareable(stored') /\ PhotosOf(stored') = PhotosOf(Loaded)
    BY <2>2, <2>4, PrunedFacts
  <2>6. IInv'
    BY <2>1, <2>2, <2>5 DEF IInv, importing
  <2> QED BY <2>2, <2>5, <2>6, SamePhotos
<1>9. ASSUME NEW seq \in AddedSeqs, NEW path \in Paths, NEW n \in LogSeqs, NEW now \in Nows,
             AddInk(seq, path, n, now)
      PROVE  IInv' /\ PhotosKept
  <2> DEFINE content == CHOOSE v \in Contents : TRUE
             c == [Loaded EXCEPT !.inks = @ \cup {NewInk(seq, path)}]
             d == Entered(c, n, now, "ink", "created", seq)
  <2>1. Shareable(Loaded) /\ \A p \in PhotosOf(Loaded) : images[p] # None
    BY LoadedFacts
  <2>2. /\ stored' = Pruned(d, now)
        /\ images' = [images EXCEPT ![path] = content]
        /\ images[path] = None /\ old = None
        /\ claim' = claim /\ UNCHANGED importing
    BY <1>0, <1>9 DEF AddInk, Apply, IInv
  <2>3. Shareable(c) /\ PhotosOf(c) \subseteq PhotosOf(Loaded) \cup {path}
    BY <2>1, InkAdded
  <2> HIDE DEF c
  <2>4. Shareable(d) /\ PhotosOf(d) = PhotosOf(c)
    BY <2>3, ChoicesAssumption, EnteredFacts
  <2> HIDE DEF d
  <2>5. Shareable(stored') /\ PhotosOf(stored') \subseteq PhotosOf(Loaded) \cup {path}
    BY <2>2, <2>3, <2>4, PrunedFacts
  <2>6. content \in Contents
    BY <1>0
  <2> HIDE DEF content
  <2>7. /\ images' \in [Paths -> Contents \cup {None}]
        /\ images'[path] # None
        /\ \A p \in PhotosOf(Loaded) : images'[p] = images[p]
    <3>1. PhotosOf(Loaded) \subseteq Paths
      BY <2>1, PhotosOfFacts DEF Shareable
    <3> QED BY <1>0, <2>1, <2>2, <2>6, <3>1 DEF IInv
  <2>8. IInv'
    BY <2>1, <2>2, <2>5, <2>7 DEF IInv, importing
  <2>9. PhotosKept
    BY <2>1, <2>5, <2>7 DEF PhotosKept, Loaded
  <2> QED BY <2>8, <2>9
<1>10. CASE UNCHANGED vars
  <2>1. IInv'
    BY <1>10 DEF IInv, vars
  <2> QED BY <1>10, <2>1, SamePhotos DEF vars
<1> QED
  BY <1>1, <1>2, <1>3, <1>4, <1>5, <1>6, <1>7, <1>8, <1>9, <1>10 DEF Next

LEMMA InductiveInvariant == Spec => []IInv
<1>1. Init => IInv
  BY ConstantsAssumption DEF Init, IInv
<1>2. IInv /\ [Next]_vars => IInv'
  BY StepKeeps
<1> QED BY <1>1, <1>2, PTL DEF Spec

(* The importer and the program keep their state well-formed.              *)
THEOREM TypeCorrect == Spec => []TypeOK
<1>1. IInv => TypeOK
  BY ConversionIsCollection, NoneAssumption DEF IInv, TypeOK, Shareable
<1> QED BY <1>1, InductiveInvariant, PTL

(* No import fails validation for its ids, photos, ink history or numbers. *)
THEOREM ImportsAreValid == Spec => []ImportIsValid
<1>1. IInv => ImportIsValid
  BY ConversionIsValid DEF IInv, ImportIsValid
<1> QED BY <1>1, InductiveInvariant, PTL

(* After an import each pen holds what 2.x says it held.                   *)
THEOREM PensAreRight == Spec => []PensHoldWhatTheyHeld
<1>1. IInv => PensHoldWhatTheyHeld
  BY ConvertFields, ConversionKeepsInks DEF IInv, PensHoldWhatTheyHeld
<1> QED BY <1>1, InductiveInvariant, PTL

(* Photos in use are there and stay as they are.                           *)
THEOREM PhotosStay == Spec => PhotosAreKept
<1>1. IInv /\ [Next]_vars => [PhotosKept]_vars
  BY StepKeeps
<1>2. [PhotosKept]_vars => [stored' # None =>
       \A p \in PhotosOf(stored') :
         /\ images'[p] # None
         /\ stored # None /\ p \in PhotosOf(stored) => images'[p] = images[p]]_vars
  BY DEF PhotosKept
<1> QED BY <1>1, <1>2, InductiveInvariant, PTL DEF Spec, PhotosAreKept

(* In every state what visitors are told is closed ...                     *)
THEOREM AlwaysClosed == Spec => []ShowcaseIsClosed
<1>1. IInv => ShowcaseIsClosed
  BY LoadedFacts, ShowcasesAreClosed DEF ShowcaseIsClosed
<1> QED BY <1>1, InductiveInvariant, PTL

(* ... and the same as if nothing that is hidden had been entered.         *)
THEOREM AlwaysHidden == Spec => []HiddenDoesNotShow
<1>1. IInv => HiddenDoesNotShow
  BY LoadedFacts, NothingHiddenShows DEF HiddenDoesNotShow
<1> QED BY <1>1, InductiveInvariant, PTL
=============================================================================
