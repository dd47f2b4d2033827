------------------------------ MODULE WebClient ------------------------------
(***************************************************************************)
(* The collection on screen (web/src/lib/stores/collection.svelte.ts) in   *)
(* several windows, with the requests of web/src/lib/api.ts and the        *)
(* handlers of server/src/lib.rs that answer them.  A window does not wait *)
(* for an answer before it sends the next request, so that requests reach  *)
(* the server, and answers the window, in any order.                       *)
(*                                                                         *)
(* What one change does to the collection is module Collection, that the   *)
(* store takes changes one at a time is module Store, and how a session    *)
(* begins and ends is module Sessions.  Here a collection is the values of *)
(* its parts, and its revision, the hash of its bytes, is itself.          *)
(*                                                                         *)
(* Definitions marked VARIANT are not the code: each is a slip the code    *)
(* could have had, kept to show which property would notice it.            *)
(***************************************************************************)
EXTENDS Naturals, FiniteSets

CONSTANTS
  Windows,
  Items,        \* pens, inks and swatches: a command saves one of them
  Fields,       \* of the settings: a command saves all of them at once
  Values,
  Shown,        \* the parts that the showcase shows
  Neutral,      \* what a visitor's window puts in place of the other parts
  Initial,      \* BOUND: what the server has when the windows open
  Backups,      \* BOUND: the collections in the backups there are
  MaxUnderWay,  \* BOUND: how many requests a window has under way
  MaxActs,      \* BOUND: how often somebody signs in or out or changes something
  None,         \* nothing on screen, nobody looking
  NoRevision    \* the revision '' of a visitor's window

Parts == Items \cup Fields
Collections == [Parts -> Values]

ASSUME PartsAssumption == Items \cap Fields = {}
ASSUME BoundsAssumption == MaxUnderWay \in Nat /\ MaxActs \in Nat
ASSUME NeutralAssumption == Neutral \in Values
ASSUME CollectionsAssumption == Initial \cup Backups \subseteq Collections
ASSUME NoneAssumption ==
  \A c \in Collections : c # None /\ c # NoRevision

VARIABLES
  stored,    \* the collection on the server
  session,   \* per window: whether its cookie's session is there
  mode, data, revision,  \* CollectionStore, per window
  seen,      \* history: the last full collection that was put on its screen
  requests,  \* per window: sent, and not yet handled
  answers,   \* per window: on their way back
  acts       \* how often somebody did something

screen == <<mode, data, revision, seen>>
vars == <<stored, session, mode, data, revision, seen, requests, answers, acts>>

\* A change: what it puts in the place of which parts, and the revision it was
\* sent with.  `meant` and `seen` are history: the parts its user changed, and
\* the last full collection the window had shown.
Changes ==
  [kind : {"change"}, to : UNION {[D -> Values] : D \in SUBSET Parts},
   base : Collections \cup {NoRevision},
   meant : SUBSET Parts, seen : Collections \cup {None}]

Load == [kind |-> "load"]
LoadPublic == [kind |-> "public"]

\* Of an answer that failed a window shows only a message: it is left out.
Answers ==
  [outcome : {"all", "visible"}, collection : Collections] \cup
  [outcome : {"conflict", "unauthorized"}]

TypeOK ==
  /\ stored \in Collections
  /\ session \in [Windows -> BOOLEAN]
  /\ mode \in [Windows -> {"owner", "visitor", None}]
  /\ data \in [Windows -> Collections \cup {None}]
  /\ revision \in [Windows -> Collections \cup {NoRevision}]
  /\ seen \in [Windows -> Collections \cup {None}]
  /\ requests \in [Windows -> SUBSET (Changes \cup {Load, LoadPublic})]
  /\ answers \in [Windows -> SUBSET Answers]
  /\ acts \in 0..MaxActs

Init ==
  /\ stored \in Initial
  /\ session \in [Windows -> BOOLEAN]
  /\ mode = [w \in Windows |-> None]
  /\ data = [w \in Windows |-> None]
  /\ revision = [w \in Windows |-> NoRevision]
  /\ seen = [w \in Windows |-> None]
  /\ requests = [w \in Windows |-> {}]
  /\ answers = [w \in Windows |-> {}]
  /\ acts = 0

-----------------------------------------------------------------------------
(* What a window sends.                                                    *)

Act(w) ==
  /\ acts < MaxActs /\ acts' = acts + 1
  /\ Cardinality(requests[w]) + Cardinality(answers[w]) < MaxUnderWay

Send(w, q) == requests' = [requests EXCEPT ![w] = @ \cup {q}]

\* load: the owner's collection, with what was there on screen meanwhile.
Loading(w) ==
  /\ Send(w, Load)
  /\ mode' = [mode EXCEPT ![w] = "owner"]
  /\ UNCHANGED <<data, revision, seen>>

\* loadPublic: the revision of what was there stays until the answer comes.
LoadingPublic(w) ==
  /\ Send(w, LoadPublic)
  /\ mode' = [mode EXCEPT ![w] = "visitor"]
  /\ data' = [data EXCEPT ![w] = None]
  /\ UNCHANGED <<revision, seen>>

\* The page opens and asks whether it is signed in.
Start(w) ==
  /\ mode[w] = None
  /\ session[w] => Loading(w)
  /\ ~session[w] => LoadingPublic(w)
  /\ UNCHANGED <<stored, session, answers, acts>>

\* The form for signing in is shown to visitors.
SignIn(w) ==
  /\ mode[w] = "visitor" /\ Act(w)
  /\ session' = [session EXCEPT ![w] = TRUE]
  /\ Loading(w)
  /\ UNCHANGED <<stored, answers>>

\* The visitor's view follows even if the request to sign out failed.
SignOut(w) ==
  /\ mode[w] = "owner" /\ Act(w)
  /\ session' \in {session, [session EXCEPT ![w] = FALSE]}
  /\ LoadingPublic(w)
  /\ UNCHANGED <<stored, answers>>

\* It expires, or the program restarts, or another window signs out; or another
\* window of the same browser signs in.
SessionChanges(w) ==
  /\ session' = [session EXCEPT ![w] = ~ @]
  /\ UNCHANGED <<stored, screen, requests, answers, acts>>

Change(w, to, meant) ==
  [kind |-> "change", to |-> to, base |-> revision[w], meant |-> meant, seen |-> seen[w]]

\* An editor saves its draft, which it took from the data when it was opened,
\* before any of the answers that came since; or a menu or an undo button
\* changes an item.
Save(w, i, v) ==
  /\ mode[w] = "owner" /\ Act(w)
  /\ Send(w, Change(w, [p \in {i} |-> v], {i}))
  /\ UNCHANGED <<stored, session, screen, answers>>

\* A change of one setting takes the others from the data when its turn comes.
\* The queue for turns is the page's, and the page can be left and opened again.
UpdateSettings(w, f, v) ==
  /\ mode[w] = "owner" /\ Act(w)
  /\ data[w] # None
  /\ Send(w, Change(w, [p \in Fields |-> IF p = f THEN v ELSE data[w][p]], {f}))
  /\ UNCHANGED <<stored, session, screen, answers>>

\* The confirmation may outlast the page that asked for it.
RestoreBackup(w, c) ==
  /\ mode[w] # None /\ Act(w)
  /\ Send(w, Change(w, c, Parts))
  /\ UNCHANGED <<stored, session, screen, answers>>

-----------------------------------------------------------------------------
(* What the server answers.                                                *)

Answer(w, a) == answers' = [answers EXCEPT ![w] = @ \cup {a}]

Changed(c, q) == [p \in Parts |-> IF p \in DOMAIN q.to THEN q.to[p] ELSE c[p]]

\* VARIANT: what was left out is not completed.
VisibleOnly(c) == [p \in Shown |-> c[p]]

\* project, and visitorCollection, which completes what was left out.
Visible(c) == [p \in Parts |-> IF p \in Shown THEN c[p] ELSE Neutral]

\* run_command and restore_backup take a change only for the revision stored.
Accepts(w, q) == session[w] /\ q.base = stored

Accept(w, q) ==
  /\ q.kind = "change" /\ Accepts(w, q)
  /\ stored' = Changed(stored, q)
  /\ Answer(w, [outcome |-> "all", collection |-> stored'])

Conflict(w, q) ==
  /\ q.kind = "change" /\ session[w] /\ q.base # stored
  /\ Answer(w, [outcome |-> "conflict"])
  /\ UNCHANGED stored

\* get_collection.
GiveAll(w, q) ==
  /\ q = Load /\ session[w]
  /\ Answer(w, [outcome |-> "all", collection |-> stored])
  /\ UNCHANGED stored

\* public_collection.
GiveVisible(w, q) ==
  /\ q = LoadPublic
  /\ Answer(w, [outcome |-> "visible", collection |-> Visible(stored)])
  /\ UNCHANGED stored

\* require_admin.
Unauthorized(w, q) ==
  /\ q # LoadPublic /\ ~session[w]
  /\ Answer(w, [outcome |-> "unauthorized"])
  /\ UNCHANGED stored

\* The request does not get there, or is refused for what it says, or the
\* showcase is off, or reading or writing fails.
Fail == UNCHANGED <<stored, answers>>

Handle(w, q) ==
  /\ \/ Accept(w, q) \/ Conflict(w, q)
     \/ GiveAll(w, q) \/ GiveVisible(w, q)
     \/ Unauthorized(w, q) \/ Fail
  /\ requests' = [requests EXCEPT ![w] = @ \ {q}]
  /\ UNCHANGED <<session, screen, acts>>

\* The connection breaks after the request was handled.
LoseAnswer(w, a) ==
  /\ answers' = [answers EXCEPT ![w] = @ \ {a}]
  /\ UNCHANGED <<stored, session, screen, requests, acts>>

-----------------------------------------------------------------------------
(* What a window makes of an answer.                                       *)

\* apply: whoever is looking by now.
Apply(w, c) ==
  /\ data' = [data EXCEPT ![w] = c]
  /\ revision' = [revision EXCEPT ![w] = c]
  /\ seen' = [seen EXCEPT ![w] = c]
  /\ UNCHANGED <<mode, requests>>

\* VARIANT: the revision is left as it was.
ApplyVisibleOnly(w, c) ==
  /\ data' = [data EXCEPT ![w] = c]
  /\ UNCHANGED <<mode, revision, seen, requests>>

\* The end of loadPublic: what a visitor sees has no revision.
ApplyVisible(w, c) ==
  /\ data' = [data EXCEPT ![w] = c]
  /\ revision' = [revision EXCEPT ![w] = NoRevision]
  /\ UNCHANGED <<mode, seen, requests>>

Take(w, a) == a.outcome = "all" /\ Apply(w, a.collection)

TakeVisible(w, a) == a.outcome = "visible" /\ ApplyVisible(w, a.collection)

\* VARIANT: the draft goes again, to be taken at whatever revision is there now.
TryAgain(w, a) ==
  /\ a.outcome = "conflict"
  /\ \E i \in Items, v \in Values :
       Send(w, [Change(w, [p \in {i} |-> v], {i}) EXCEPT !.base = stored])
  /\ UNCHANGED screen

\* A conflict is not tried again, but what was changed elsewhere is loaded.
Reload(w, a) ==
  /\ a.outcome = "conflict"
  /\ Loading(w)

\* The handler for a session that ended.
FallBack(w, a) ==
  /\ a.outcome = "unauthorized" /\ mode[w] = "owner"
  /\ LoadingPublic(w)

\* Only a message is shown.
Ignore(w, a) ==
  /\ a.outcome = "unauthorized" /\ mode[w] # "owner"
  /\ UNCHANGED <<screen, requests>>

Arrive(w, a) ==
  /\ Take(w, a) \/ TakeVisible(w, a) \/ Reload(w, a) \/ FallBack(w, a) \/ Ignore(w, a)
  /\ answers' = [answers EXCEPT ![w] = @ \ {a}]
  /\ UNCHANGED <<stored, session, acts>>

Next ==
  \E w \in Windows :
    \/ Start(w) \/ SignIn(w) \/ SignOut(w) \/ SessionChanges(w)
    \/ \E i \in Items, v \in Values : Save(w, i, v)
    \/ \E f \in Fields, v \in Values : UpdateSettings(w, f, v)
    \/ \E c \in Backups : RestoreBackup(w, c)
    \/ \E q \in requests[w] : Handle(w, q)
    \/ \E a \in answers[w] : LoseAnswer(w, a) \/ Arrive(w, a)

Spec == Init /\ [][Next]_vars

-----------------------------------------------------------------------------
(* Properties.                                                             *)

Taken(w, q) == q \in requests[w] /\ q \notin requests'[w] /\ stored' # stored

OthersStay(q) == \A p \in Parts \ q.meant : stored'[p] = stored[p]

\* No window overwrites what it has not shown: a change that the server takes
\* replaces the very collection that its window had last put on screen in full,
\* whatever answers came late, in another order or not at all
\* (storage.rs: a stale window cannot overwrite newer data).
NothingUnseenIsOverwritten ==
  [][stored' # stored =>
       \E w \in Windows : \E q \in requests[w] : Taken(w, q) /\ q.seen = stored]_vars

\* A window changes only what its user changed, although it sends the whole of
\* the settings for a change of one of them: the others are never put back to
\* older values, nor to the neutral ones that a visitor's view is completed with
\* (Settings.svelte, visitor.ts).
OnlyWhatWasMeant ==
  [][stored' # stored =>
       \E w \in Windows : \E q \in requests[w] : Taken(w, q) /\ OthersStay(q)]_vars
=============================================================================
