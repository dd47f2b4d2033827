----------------------------- MODULE UpdatesProofs -----------------------------
(***************************************************************************)
(* Proofs about Updates, for every number of requests, every pair of       *)
(* intervals and every span of time.  Spacing needs to know that one       *)
(* request asks at a time, and what it found when it began.                *)
(***************************************************************************)
EXTENDS Updates, TLAPS

\* One request asks at a time, long enough after every question before it.
OneAsks ==
  /\ \A r, q \in Requests : pc[r] = "asking" /\ pc[q] = "asking" => r = q
  /\ \A r \in Requests : pc[r] = "asking" =>
       /\ since[r] <= clock
       /\ \A a \in asked : since[r] >= a.to + Gap(a)

\* What is known is at least as new as every question that was answered.
AskedIsKnown ==
  \A a \in asked :
    /\ a.from <= a.to
    /\ last # None
    /\ a.to <= last.at
    /\ a.ok => last.found # None

IInv == TypeOK /\ OneAsks /\ AskedIsKnown /\ QuestionsAreSpaced

LEMMA GapIsTime == \A a : Gap(a) \in Nat
BY IntervalAssumption DEF Gap

LEMMA Learned ==
  ASSUME IInv, NEW r \in Requests, NEW ok \in BOOLEAN, Learn(r, ok)
  PROVE  IInv'
<1> USE IntervalAssumption, TimeAssumption, NoneAssumption DEF Hours
<1> DEFINE new == [by |-> r, from |-> since[r], to |-> clock, ok |-> ok]
<1>1. /\ asked' = asked \cup {new}
      /\ since[r] \in Nat /\ clock \in Nat /\ clock' = clock /\ since[r] <= clock
      /\ new.from = since[r] /\ new.to = clock /\ new.ok = ok
  BY DEF Learn, IInv, TypeOK, OneAsks
<1>2. TypeOK'
  <2>1. last' = [at |-> clock, found |-> Found(ok)]
    BY DEF Learn, AskedAt
  <2>2. Found(ok) \in Hours \cup {None} /\ (Found(ok) # None => Found(ok) <= clock)
    BY <1>1 DEF Found, Asked, IInv, TypeOK
  <2>3. last' \in Asked /\ last'.at = clock /\ last'.found = Found(ok)
    BY <1>1, <2>1, <2>2 DEF Asked, IInv, TypeOK
  <2>4. new \in [by : Requests, from : Hours, to : Hours, ok : BOOLEAN]
    BY DEF IInv, TypeOK
  <2>5. pc' \in [Requests -> {"idle", "waiting", "asking"}]
    BY DEF Learn, Goto, IInv, TypeOK
  <2>6. UNCHANGED <<clock, checking, since>>
    BY DEF Learn
  <2>7. QED
    BY <1>1, <2>2, <2>3, <2>4, <2>5, <2>6 DEF IInv, TypeOK
<1>3. OneAsks'
  <2>1. \A q \in Requests : pc'[q] # "asking"
    <3>1. pc' = [pc EXCEPT ![r] = "idle"] /\ pc[r] = "asking"
      BY DEF Learn, Goto
    <3>2. QED
      BY <3>1 DEF IInv, TypeOK, OneAsks
  <2>2. QED
    BY <2>1 DEF OneAsks
<1>4. AskedIsKnown'
  <2>1. last' = [at |-> clock, found |-> Found(ok)]
    BY DEF Learn, AskedAt
  <2>2. ASSUME NEW a \in asked
        PROVE  a.from <= a.to /\ a.to <= clock /\ (a.ok => Found(ok) # None)
    BY <2>2 DEF IInv, AskedIsKnown, TypeOK, Found, Asked
  <2>3. ok => Found(ok) # None
    BY DEF Found, IInv, TypeOK
  <2>4. [at |-> clock, found |-> Found(ok)] # None
    <3>1. Found(ok) \in Hours \cup {None}
      BY DEF Found, Asked, IInv, TypeOK
    <3>2. [at |-> clock, found |-> Found(ok)] \in Asked
      BY <3>1 DEF Asked, IInv, TypeOK
    <3>3. QED
      BY <3>2
  <2>5. QED
    BY <1>1, <2>1, <2>2, <2>3, <2>4 DEF AskedIsKnown
<1>5. QuestionsAreSpaced'
  <2>1. \A a \in asked : new.from >= a.to + Gap(a)
    BY <1>1 DEF Learn, IInv, OneAsks
  <2>2. QED
    BY <1>1, <2>1 DEF QuestionsAreSpaced, IInv, Gap
<1>6. QED
  BY <1>2, <1>3, <1>4, <1>5 DEF IInv

\* A request that asks begins late enough: what is known is too old to reuse.
LEMMA Began ==
  ASSUME IInv, NEW r \in Requests, Ask(r)
  PROVE  IInv'
<1> USE IntervalAssumption, TimeAssumption, NoneAssumption DEF Hours
<1>1. TypeOK'
  BY DEF Ask, Goto, KeepLast, IInv, TypeOK
<1>2. ASSUME NEW a \in asked
      PROVE  clock >= a.to + Gap(a)
  <2>1. last # None /\ a.to <= last.at /\ (a.ok => last.found # None)
    BY DEF IInv, AskedIsKnown
  <2>2. ~ (clock - last.at < Wait)
    BY <2>1 DEF Ask, Recent
  <2>3. clock \in Nat /\ last.at \in Nat /\ a.to \in Nat
    BY <2>1 DEF IInv, TypeOK, Asked
  <2>4. Gap(a) <= Wait /\ Gap(a) \in Nat /\ Wait \in Nat
    BY <2>1 DEF Gap, Wait
  <2>5. QED
    BY <2>1, <2>2, <2>3, <2>4
<1>3. OneAsks'
  <2>1. /\ pc' = [pc EXCEPT ![r] = "asking"]
        /\ since' = [since EXCEPT ![r] = clock]
        /\ UNCHANGED <<clock, asked>>
        /\ \A q \in Requests : pc[q] # "asking"
    BY DEF Ask, Goto, MutexFree
  <2>2. clock <= clock
    BY DEF IInv, TypeOK
  <2>3. QED
    BY <1>2, <2>1, <2>2 DEF OneAsks, IInv, TypeOK, Gap
<1>4. AskedIsKnown' /\ QuestionsAreSpaced'
  BY DEF Ask, KeepLast, IInv, AskedIsKnown, QuestionsAreSpaced, Gap
<1>5. QED
  BY <1>1, <1>3, <1>4 DEF IInv

LEMMA Inductive == Spec => []IInv
<1> USE IntervalAssumption, TimeAssumption, NoneAssumption DEF Hours
<1>1. Init => IInv
  BY DEF Init, IInv, TypeOK, OneAsks, AskedIsKnown, QuestionsAreSpaced
<1>2. IInv /\ [Next]_vars => IInv'
  <2> SUFFICES ASSUME IInv, [Next]_vars
               PROVE  IInv'
    OBVIOUS
  <2>1. CASE Tick
    <3>1. TypeOK'
      BY <2>1 DEF Tick, IInv, TypeOK, Asked
    <3>2. OneAsks'
      BY <2>1 DEF Tick, IInv, TypeOK, OneAsks, Gap
    <3>3. AskedIsKnown' /\ QuestionsAreSpaced'
      BY <2>1 DEF Tick, IInv, AskedIsKnown, QuestionsAreSpaced, Gap
    <3>4. QED
      BY <3>1, <3>2, <3>3 DEF IInv
  <2>2. CASE Toggle
    BY <2>2 DEF Toggle, IInv, TypeOK, OneAsks, AskedIsKnown, QuestionsAreSpaced, Gap
  <2>3. ASSUME NEW r \in Requests, Arrive(r) \/ Reuse(r) \/ Drop(r)
        PROVE  IInv'
    BY <2>3 DEF Arrive, Reuse, Drop, Goto, IInv, TypeOK, OneAsks, AskedIsKnown,
                QuestionsAreSpaced, Gap
  <2>4. CASE UNCHANGED vars
    BY <2>4 DEF vars, IInv, TypeOK, OneAsks, AskedIsKnown, QuestionsAreSpaced, Gap
  <2>5. QED
    BY <2>1, <2>2, <2>3, <2>4, Began, Learned DEF Next
<1>3. QED
  BY <1>1, <1>2, PTL DEF Spec

-----------------------------------------------------------------------------
\* Every state has its type, and what is known is no later than now.
THEOREM TypeCorrect == Spec => []TypeOK
<1>1. IInv => TypeOK
  BY DEF IInv
<1>2. QED
  BY <1>1, Inductive, PTL

\* However many requests arrive together, questions keep their distance.
THEOREM GitHubIsLeftAlone == Spec => []QuestionsAreSpaced
<1>1. IInv => QuestionsAreSpaced
  BY DEF IInv
<1>2. QED
  BY <1>1, Inductive, PTL

\* What a check found is shown until a later one finds something.
THEOREM FoundStays == Spec => FoundIsKept
<1>1. TypeOK /\ [Next]_vars =>
        [last # None /\ last.found # None =>
           /\ last' # None
           /\ last'.found # None
           /\ last'.found >= last.found]_vars
  <2> USE TimeAssumption, NoneAssumption DEF Hours
  <2> SUFFICES ASSUME TypeOK, [Next]_vars, last # None, last.found # None
               PROVE  last' # None /\ last'.found # None /\ last'.found >= last.found
    OBVIOUS
  <2>1. last.found \in Hours /\ last.found <= clock /\ last.found >= last.found
    BY DEF TypeOK, Asked
  <2>2. ASSUME NEW r \in Requests, NEW ok \in BOOLEAN, Learn(r, ok)
        PROVE  last' # None /\ last'.found # None /\ last'.found >= last.found
    <3>1. last' = [at |-> clock, found |-> Found(ok)]
      BY <2>2 DEF Learn, AskedAt
    <3>2. Found(ok) \in Hours /\ Found(ok) >= last.found
      BY <2>1 DEF Found, TypeOK
    <3>3. last' \in Asked /\ last'.found = Found(ok)
      BY <3>1, <3>2 DEF Asked, TypeOK
    <3>4. QED
      BY <3>2, <3>3
  <2>3. CASE last' = last
    BY <2>1, <2>3
  <2>4. QED
    BY <2>2, <2>3 DEF Next, Tick, Toggle, Arrive, Reuse, Ask, KeepLast, Drop, vars
<1>2. QED
  BY <1>1, TypeCorrect, PTL DEF Spec, FoundIsKept
=============================================================================
