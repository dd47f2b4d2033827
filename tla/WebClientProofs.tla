--------------------------- MODULE WebClientProofs ---------------------------
(***************************************************************************)
(* Proofs about WebClient, for any number of windows, parts and requests   *)
(* under way: the safety properties that the run web_client checks on a    *)
(* small instance.                                                         *)
(***************************************************************************)
EXTENDS WebClient, TLAPS

\* A window names a revision only if it is of the full collection it showed last.
RevisionsWereShown == \A w \in Windows : revision[w] \in {seen[w], NoRevision}

\* What is on screen is what the revision is of, or nothing, or a visitor's view.
DataIsOfItsRevision ==
  \A w \in Windows :
    data[w] # None /\ revision[w] # NoRevision => data[w] = revision[w]

\* A change under way was made from the collection whose revision it names, and
\* leaves there what its user did not change.
WellMade(q) ==
  /\ q.base \in {q.seen, NoRevision}
  /\ q.base # NoRevision =>
       \A p \in Parts \ q.meant : p \in DOMAIN q.to => q.to[p] = q.base[p]

ChangesAreWellMade ==
  \A w \in Windows : \A q \in requests[w] : q.kind = "change" => WellMade(q)

IInv == TypeOK /\ RevisionsWereShown /\ DataIsOfItsRevision /\ ChangesAreWellMade

Requests == Changes \cup {Load, LoadPublic}

-----------------------------------------------------------------------------
\* A change that puts values of some parts in the place of others is a request.
LEMMA ChangeIsARequest ==
  ASSUME NEW w \in Windows, NEW D \in SUBSET Parts, NEW to \in [D -> Values],
         NEW meant \in SUBSET Parts, TypeOK
  PROVE  Change(w, to, meant) \in Changes
<1>1. to \in UNION {[E -> Values] : E \in SUBSET Parts}
  OBVIOUS
<1>2. revision[w] \in Collections \cup {NoRevision} /\ seen[w] \in Collections \cup {None}
  BY DEF TypeOK
<1>3. QED
  BY <1>1, <1>2 DEF Change, Changes

\* What is stored stays a collection.
LEMMA ChangedIsACollection ==
  ASSUME NEW c \in Collections, NEW q \in Changes
  PROVE  Changed(c, q) \in Collections
<1>1. PICK D \in SUBSET Parts : q.to \in [D -> Values]
  BY DEF Changes
<1>2. QED
  BY <1>1 DEF Changed, Collections

LEMMA VisibleIsACollection ==
  ASSUME NEW c \in Collections
  PROVE  Visible(c) \in Collections
BY NeutralAssumption DEF Visible, Collections

\* A step of a window that sends one more request keeps the types of requests.
LEMMA SendTypes ==
  ASSUME TypeOK, NEW w \in Windows, NEW q \in Requests, Send(w, q)
  PROVE  requests' \in [Windows -> SUBSET Requests]
BY DEF TypeOK, Send, Requests

LEMMA AnswerTypes ==
  ASSUME TypeOK, NEW w \in Windows, NEW a \in Answers, Answer(w, a)
  PROVE  answers' \in [Windows -> SUBSET Answers]
BY DEF TypeOK, Answer

\* Every variable keeps its type in every step.
LEMMA Typing == TypeOK /\ [Next]_vars => TypeOK'
<1> SUFFICES ASSUME TypeOK, [Next]_vars PROVE TypeOK'
  OBVIOUS
<1>a. Load \in Requests /\ LoadPublic \in Requests /\ Changes \subseteq Requests
  BY DEF Requests
<1>l. ASSUME NEW w \in Windows, Loading(w)
      PROVE  /\ mode' \in [Windows -> {"owner", "visitor", None}]
             /\ requests' \in [Windows -> SUBSET Requests]
  BY <1>a, <1>l, SendTypes DEF Loading, TypeOK
<1>p. ASSUME NEW w \in Windows, LoadingPublic(w)
      PROVE  /\ mode' \in [Windows -> {"owner", "visitor", None}]
             /\ data' \in [Windows -> Collections \cup {None}]
             /\ requests' \in [Windows -> SUBSET Requests]
  BY <1>a, <1>p, SendTypes DEF LoadingPublic, TypeOK
<1>t. ASSUME NEW w \in Windows, Act(w) PROVE acts' \in 0..MaxActs
  BY <1>t, BoundsAssumption DEF Act, TypeOK
<1>1. ASSUME NEW w \in Windows, Start(w) PROVE TypeOK'
  BY <1>1, <1>l, <1>p DEF Start, TypeOK, Requests, Loading, LoadingPublic
<1>2. ASSUME NEW w \in Windows, SignIn(w) PROVE TypeOK'
  BY <1>2, <1>l, <1>t DEF SignIn, TypeOK, Requests, Loading
<1>3. ASSUME NEW w \in Windows, SignOut(w) PROVE TypeOK'
  BY <1>3, <1>p, <1>t DEF SignOut, TypeOK, Requests, LoadingPublic
<1>4. ASSUME NEW w \in Windows, SessionChanges(w) PROVE TypeOK'
  BY <1>4 DEF SessionChanges, TypeOK, screen
<1>5. ASSUME NEW w \in Windows, NEW i \in Items, NEW v \in Values, Save(w, i, v)
      PROVE TypeOK'
  <2>1. Change(w, [p \in {i} |-> v], {i}) \in Requests
    BY <1>a, ChangeIsARequest DEF Parts
  <2>2. QED
    BY <1>5, <1>t, <2>1, SendTypes DEF Save, TypeOK, screen, Requests
<1>6. ASSUME NEW w \in Windows, NEW f \in Fields, NEW v \in Values, UpdateSettings(w, f, v)
      PROVE TypeOK'
  <2> DEFINE to == [p \in Fields |-> IF p = f THEN v ELSE data[w][p]]
  <2>1. data[w] \in Collections
    BY <1>6 DEF UpdateSettings, TypeOK
  <2>2. to \in [Fields -> Values]
    BY <2>1 DEF Collections, Parts
  <2>3. Change(w, to, {f}) \in Requests
    BY <1>a, <2>2, ChangeIsARequest DEF Parts
  <2>4. QED
    BY <1>6, <1>t, <2>3, SendTypes DEF UpdateSettings, TypeOK, screen, Requests
<1>7. ASSUME NEW w \in Windows, NEW c \in Backups, RestoreBackup(w, c) PROVE TypeOK'
  <2>1. Change(w, c, Parts) \in Requests
    BY <1>a, ChangeIsARequest, CollectionsAssumption DEF Collections
  <2>2. QED
    BY <1>7, <1>t, <2>1, SendTypes DEF RestoreBackup, TypeOK, screen, Requests
<1>8. ASSUME NEW w \in Windows, NEW q \in requests[w], Handle(w, q) PROVE TypeOK'
  <2>1. q \in Requests /\ stored \in Collections
    BY DEF TypeOK, Requests
  <2>2. requests' \in [Windows -> SUBSET Requests]
    BY <1>8 DEF Handle, TypeOK, Requests
  <2>3. stored' \in Collections /\ answers' \in [Windows -> SUBSET Answers]
    <3>1. CASE Accept(w, q)
      <4>1. q \in Changes
        BY <2>1, <3>1 DEF Accept, Requests, Load, LoadPublic
      <4>2. stored' \in Collections
        BY <2>1, <3>1, <4>1, ChangedIsACollection DEF Accept
      <4>3. [outcome |-> "all", collection |-> stored'] \in Answers
        BY <4>2 DEF Answers
      <4>4. QED
        BY <3>1, <4>2, <4>3, AnswerTypes DEF Accept
    <3>2. CASE Conflict(w, q)
      BY <2>1, <3>2, AnswerTypes DEF Conflict, Answers
    <3>3. CASE GiveAll(w, q)
      BY <2>1, <3>3, AnswerTypes DEF GiveAll, Answers
    <3>4. CASE GiveVisible(w, q)
      BY <2>1, <3>4, AnswerTypes, VisibleIsACollection DEF GiveVisible, Answers
    <3>5. CASE Unauthorized(w, q)
      BY <2>1, <3>5, AnswerTypes DEF Unauthorized, Answers
    <3>6. CASE Fail
      BY <2>1, <3>6 DEF Fail, TypeOK
    <3>7. QED
      BY <1>8, <3>1, <3>2, <3>3, <3>4, <3>5, <3>6 DEF Handle
  <2>4. QED
    BY <1>8, <2>2, <2>3 DEF Handle, TypeOK, screen, Requests
<1>9. ASSUME NEW w \in Windows, NEW a \in answers[w], LoseAnswer(w, a) PROVE TypeOK'
  BY <1>9 DEF LoseAnswer, TypeOK, screen
<1>10. ASSUME NEW w \in Windows, NEW a \in answers[w], Arrive(w, a) PROVE TypeOK'
  <2>1. answers' \in [Windows -> SUBSET Answers]
    BY <1>10 DEF Arrive, TypeOK
  <2>2. a \in Answers
    BY DEF TypeOK
  <2>3. ASSUME a.outcome \in {"all", "visible"} PROVE a.collection \in Collections
    BY <2>2, <2>3 DEF Answers
  <2>4. CASE Take(w, a)
    BY <1>10, <2>1, <2>3, <2>4 DEF Arrive, Take, Apply, TypeOK
  <2>5. CASE TakeVisible(w, a)
    BY <1>10, <2>1, <2>3, <2>5 DEF Arrive, TakeVisible, ApplyVisible, TypeOK
  <2>6. CASE Reload(w, a)
    BY <1>10, <1>l, <2>1, <2>6 DEF Arrive, Reload, Loading, TypeOK, Requests
  <2>7. CASE FallBack(w, a)
    BY <1>10, <1>p, <2>1, <2>7 DEF Arrive, FallBack, LoadingPublic, TypeOK, Requests
  <2>8. CASE Ignore(w, a)
    BY <1>10, <2>1, <2>8 DEF Arrive, Ignore, screen, TypeOK
  <2>9. QED
    BY <1>10, <2>4, <2>5, <2>6, <2>7, <2>8 DEF Arrive
<1>11. CASE UNCHANGED vars
  BY <1>11 DEF vars, TypeOK
<1>12. QED
  BY <1>1, <1>2, <1>3, <1>4, <1>5, <1>6, <1>7, <1>8, <1>9, <1>10, <1>11 DEF Next

\* The types hold in every behaviour: the server has a collection, every request
\* can be handled, and what a visitor's window is given has every part.
THEOREM TypeCorrect == Spec => []TypeOK
<1>1. Init => TypeOK
  BY CollectionsAssumption, BoundsAssumption DEF Init, TypeOK
<1>2. QED
  BY <1>1, Typing, PTL DEF Spec

-----------------------------------------------------------------------------
\* A change made now is well made if it keeps what the window shows of the parts
\* its user did not mean.
LEMMA NewChangesAreWellMade ==
  ASSUME IInv, NEW w \in Windows, NEW to, NEW meant \in SUBSET Parts,
         \A p \in Parts \ meant : p \in DOMAIN to => data[w] # None /\ to[p] = data[w][p]
  PROVE  WellMade(Change(w, to, meant))
BY DEF IInv, RevisionsWereShown, DataIsOfItsRevision, WellMade, Change

\* Requests stay well made when a well made one is added to them.
LEMMA SendKeepsThem ==
  ASSUME IInv, NEW w \in Windows, NEW q, Send(w, q), q.kind = "change" => WellMade(q)
  PROVE  ChangesAreWellMade'
<1> SUFFICES ASSUME NEW u \in Windows, NEW r \in requests'[u], r.kind = "change"
             PROVE  WellMade(r)
  BY DEF ChangesAreWellMade, WellMade
<1>1. r \in requests[u] \/ r = q
  BY DEF Send, IInv, TypeOK
<1>2. QED
  BY <1>1 DEF IInv, ChangesAreWellMade

\* And when one is taken from them.
LEMMA FewerAreWellMade ==
  ASSUME IInv, \A w \in Windows : requests'[w] \subseteq requests[w]
  PROVE  ChangesAreWellMade'
BY DEF IInv, ChangesAreWellMade, WellMade

\* A step that leaves the screen alone leaves what is known of it alone.
LEMMA ScreenStays ==
  ASSUME IInv, UNCHANGED screen
  PROVE  RevisionsWereShown' /\ DataIsOfItsRevision'
BY DEF IInv, screen, RevisionsWereShown, DataIsOfItsRevision

LEMMA LoadingKeepsThem ==
  ASSUME IInv, NEW w \in Windows, Loading(w)
  PROVE  RevisionsWereShown' /\ DataIsOfItsRevision' /\ ChangesAreWellMade'
<1>1. ChangesAreWellMade'
  <2>1. Load.kind # "change"
    BY DEF Load
  <2>2. QED
    BY <2>1, SendKeepsThem DEF Loading
<1>2. QED
  BY <1>1 DEF IInv, Loading, RevisionsWereShown, DataIsOfItsRevision

LEMMA LoadingPublicKeepsThem ==
  ASSUME IInv, NEW w \in Windows, LoadingPublic(w)
  PROVE  RevisionsWereShown' /\ DataIsOfItsRevision' /\ ChangesAreWellMade'
<1>1. ChangesAreWellMade'
  <2>1. LoadPublic.kind # "change"
    BY DEF LoadPublic
  <2>2. QED
    BY <2>1, SendKeepsThem DEF LoadingPublic
<1>2. QED
  BY <1>1 DEF IInv, TypeOK, LoadingPublic, RevisionsWereShown, DataIsOfItsRevision

LEMMA Inductive == IInv /\ [Next]_vars => IInv'
<1> SUFFICES ASSUME IInv, [Next]_vars
             PROVE  RevisionsWereShown' /\ DataIsOfItsRevision' /\ ChangesAreWellMade'
  BY Typing DEF IInv
<1> DEFINE Goal == RevisionsWereShown' /\ DataIsOfItsRevision' /\ ChangesAreWellMade'
<1>0. TypeOK
  BY DEF IInv
<1>1. ASSUME NEW w \in Windows, Start(w) PROVE Goal
  BY <1>1, LoadingKeepsThem, LoadingPublicKeepsThem DEF Start
<1>2. ASSUME NEW w \in Windows, SignIn(w) PROVE Goal
  BY <1>2, LoadingKeepsThem DEF SignIn
<1>3. ASSUME NEW w \in Windows, SignOut(w) PROVE Goal
  BY <1>3, LoadingPublicKeepsThem DEF SignOut
<1>4. ASSUME NEW w \in Windows, SessionChanges(w) PROVE Goal
  BY <1>4, ScreenStays, FewerAreWellMade DEF SessionChanges
<1>5. ASSUME NEW w \in Windows, NEW i \in Items, NEW v \in Values, Save(w, i, v)
      PROVE Goal
  <2>1. WellMade(Change(w, [p \in {i} |-> v], {i}))
    BY NewChangesAreWellMade DEF Parts
  <2>2. QED
    BY <1>5, <2>1, SendKeepsThem, ScreenStays DEF Save
<1>6. ASSUME NEW w \in Windows, NEW f \in Fields, NEW v \in Values, UpdateSettings(w, f, v)
      PROVE Goal
  <2>1. WellMade(Change(w, [p \in Fields |-> IF p = f THEN v ELSE data[w][p]], {f}))
    BY <1>6, NewChangesAreWellMade DEF Parts, UpdateSettings
  <2>2. QED
    BY <1>6, <2>1, SendKeepsThem, ScreenStays DEF UpdateSettings
<1>7. ASSUME NEW w \in Windows, NEW c \in Backups, RestoreBackup(w, c) PROVE Goal
  <2>1. WellMade(Change(w, c, Parts))
    BY NewChangesAreWellMade
  <2>2. QED
    BY <1>7, <2>1, SendKeepsThem, ScreenStays DEF RestoreBackup
<1>8. ASSUME NEW w \in Windows, NEW q \in requests[w], Handle(w, q) PROVE Goal
  BY <1>0, <1>8, ScreenStays, FewerAreWellMade DEF Handle, TypeOK
<1>9. ASSUME NEW w \in Windows, NEW a \in answers[w], LoseAnswer(w, a) PROVE Goal
  BY <1>9, ScreenStays, FewerAreWellMade DEF LoseAnswer
<1>10. ASSUME NEW w \in Windows, NEW a \in answers[w], Arrive(w, a) PROVE Goal
  <2>1. CASE Take(w, a)
    <3>1. RevisionsWereShown' /\ DataIsOfItsRevision'
      BY <1>0, <2>1
      DEF IInv, TypeOK, Take, Apply, RevisionsWereShown, DataIsOfItsRevision
    <3>2. QED
      BY <2>1, <3>1, FewerAreWellMade DEF Take, Apply
  <2>2. CASE TakeVisible(w, a)
    <3>1. RevisionsWereShown' /\ DataIsOfItsRevision'
      BY <1>0, <2>2
      DEF IInv, TypeOK, TakeVisible, ApplyVisible, RevisionsWereShown, DataIsOfItsRevision
    <3>2. QED
      BY <2>2, <3>1, FewerAreWellMade DEF TakeVisible, ApplyVisible
  <2>3. CASE Reload(w, a)
    BY <2>3, LoadingKeepsThem DEF Reload
  <2>4. CASE FallBack(w, a)
    BY <2>4, LoadingPublicKeepsThem DEF FallBack
  <2>5. CASE Ignore(w, a)
    BY <2>5, ScreenStays, FewerAreWellMade DEF Ignore
  <2>6. QED
    BY <1>10, <2>1, <2>2, <2>3, <2>4, <2>5 DEF Arrive
<1>11. CASE UNCHANGED vars
  BY <1>11, ScreenStays, FewerAreWellMade DEF vars, screen
<1>12. QED
  BY <1>1, <1>2, <1>3, <1>4, <1>5, <1>6, <1>7, <1>8, <1>9, <1>10, <1>11 DEF Next

LEMMA Invariant == Spec => []IInv
<1>1. Init => IInv
  BY CollectionsAssumption, BoundsAssumption
  DEF Init, IInv, TypeOK, RevisionsWereShown, DataIsOfItsRevision, ChangesAreWellMade
<1>2. QED
  BY <1>1, Inductive, PTL DEF Spec

-----------------------------------------------------------------------------
\* The server's collection changes only when it takes a change under way that
\* names the revision it has.
LEMMA OnlyTaken ==
  ASSUME IInv, [Next]_vars, stored' # stored
  PROVE  \E w \in Windows : \E q \in requests[w] :
           /\ Taken(w, q) /\ q.kind = "change" /\ q.base = stored
           /\ q \in Changes /\ WellMade(q) /\ stored' = Changed(stored, q)
<1>1. PICK w \in Windows : \E q \in requests[w] : Handle(w, q)
  BY DEF Next, vars, Start, SignIn, SignOut, SessionChanges, Save, UpdateSettings,
         RestoreBackup, LoseAnswer, Arrive
<1>2. PICK q \in requests[w] : Handle(w, q)
  BY <1>1
<1>3. Accept(w, q)
  BY <1>2 DEF Handle, Conflict, GiveAll, GiveVisible, Unauthorized, Fail
<1>4. q \in Changes
  BY <1>3 DEF IInv, TypeOK, Accept, Load, LoadPublic
<1>5. Taken(w, q)
  BY <1>2 DEF IInv, TypeOK, Handle, Taken
<1>6. QED
  BY <1>2, <1>3, <1>4, <1>5 DEF IInv, ChangesAreWellMade, Accept, Accepts

\* No window overwrites what it has not shown.
THEOREM OnlySeenIsOverwritten == Spec => NothingUnseenIsOverwritten
<1>1. ASSUME IInv, [Next]_vars, stored' # stored
      PROVE  \E w \in Windows : \E q \in requests[w] : Taken(w, q) /\ q.seen = stored
  <2>1. stored # NoRevision
    BY <1>1, NoneAssumption DEF IInv, TypeOK
  <2>2. QED
    BY <1>1, <2>1, OnlyTaken DEF WellMade
<1>2. QED
  BY <1>1, Invariant, PTL DEF Spec, NothingUnseenIsOverwritten

\* A change leaves what its user did not mean as it is on the server.
THEOREM OthersAreKept == Spec => OnlyWhatWasMeant
<1>1. ASSUME IInv, [Next]_vars, stored' # stored
      PROVE  \E w \in Windows : \E q \in requests[w] : Taken(w, q) /\ OthersStay(q)
  <2>1. stored # NoRevision
    BY <1>1, NoneAssumption DEF IInv, TypeOK
  <2>w. PICK w \in Windows : \E q \in requests[w] :
          /\ Taken(w, q) /\ q.kind = "change" /\ q.base = stored
          /\ q \in Changes /\ WellMade(q) /\ stored' = Changed(stored, q)
    BY <1>1, OnlyTaken
  <2>2. PICK q \in requests[w] :
          /\ Taken(w, q) /\ q.kind = "change" /\ q.base = stored
          /\ q \in Changes /\ WellMade(q) /\ stored' = Changed(stored, q)
    BY <2>w
  <2>3. ASSUME NEW p \in Parts \ q.meant PROVE stored'[p] = stored[p]
    BY <2>1, <2>2 DEF WellMade, Changed
  <2>4. QED
    BY <2>2, <2>3 DEF OthersStay
<1>2. QED
  BY <1>1, Invariant, PTL DEF Spec, OnlyWhatWasMeant
=============================================================================
