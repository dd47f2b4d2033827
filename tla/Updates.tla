-------------------------------- MODULE Updates --------------------------------
(***************************************************************************)
(* The update check of crates/server/src/lib.rs: update_status and         *)
(* UpdateCheck::latest.  Requests arrive at any time and wait for each     *)
(* other on a mutex held across the question to GitHub; a client that goes *)
(* away drops its request wherever it waits, and with it the mutex.        *)
(* Asking GitHub is updates::latest_release: an answer or an error.        *)
(***************************************************************************)
EXTENDS Integers

CONSTANTS
  Requests,                \* concurrent GET /api/update requests
  UPDATE_CHECK_INTERVAL,   \* how long a successful check is reused
  UPDATE_RETRY_INTERVAL,   \* how long to wait after a failed one
  MaxTime,                 \* BOUND: the last hour looked at
  None

ASSUME IntervalAssumption ==
  /\ UPDATE_RETRY_INTERVAL \in Nat \ {0}
  /\ UPDATE_CHECK_INTERVAL \in Nat
  /\ UPDATE_RETRY_INTERVAL < UPDATE_CHECK_INTERVAL
ASSUME TimeAssumption == MaxTime \in Nat

Hours == 0..MaxTime

VARIABLES
  clock,
  checking,  \* settings.check_for_updates
  last,      \* UpdateCheck.last: when GitHub was last asked, what is known
  pc,        \* where each request is
  since,     \* when a request asked GitHub
  asked      \* history: the questions that were seen to their end

vars == <<clock, checking, last, pc, since, asked>>

\* `found` is the hour of the last successful check; which release it found
\* makes no difference here.
Asked == [at : Hours, found : Hours \cup {None}]

ASSUME NoneAssumption == (\A hour \in Hours : hour # None) /\ (\A a \in Asked : a # None)

TypeOK ==
  /\ clock \in Hours
  /\ checking \in BOOLEAN
  /\ last \in Asked \cup {None}
  /\ pc \in [Requests -> {"idle", "waiting", "asking"}]
  /\ since \in [Requests -> Hours]
  /\ asked \subseteq [by : Requests, from : Hours, to : Hours, ok : BOOLEAN]
  /\ last # None => last.at <= clock /\ (last.found # None => last.found <= last.at)

Init ==
  /\ clock = 0
  /\ checking = TRUE
  /\ last = None
  /\ pc = [r \in Requests |-> "idle"]
  /\ since = [r \in Requests |-> 0]
  /\ asked = {}

Goto(r, place) == pc' = [pc EXCEPT ![r] = place]

Tick ==
  /\ clock < MaxTime
  /\ clock' = clock + 1
  /\ UNCHANGED <<checking, last, pc, since, asked>>

Toggle ==
  /\ checking' = ~ checking
  /\ UNCHANGED <<clock, last, pc, since, asked>>

\* update_status: with checking off, the request ends here.
Arrive(r) ==
  /\ pc[r] = "idle"
  /\ checking
  /\ Goto(r, "waiting")
  /\ UNCHANGED <<clock, checking, last, since, asked>>

\* VARIANT: the mutex is not held while asking.
NeverHeld(r) == TRUE

MutexFree(r) == \A q \in Requests : pc[q] # "asking"

Wait == IF last.found # None THEN UPDATE_CHECK_INTERVAL ELSE UPDATE_RETRY_INTERVAL

\* What is known is recent enough: the request gets last.found.
Recent == last # None /\ clock - last.at < Wait

Reuse(r) ==
  /\ pc[r] = "waiting"
  /\ MutexFree(r)
  /\ Recent
  /\ Goto(r, "idle")
  /\ UNCHANGED <<clock, checking, last, since, asked>>

\* VARIANT: what was known is taken out of the mutex before asking.
TakeFirst(r) == last' = None

KeepLast(r) == last' = last

Ask(r) ==
  /\ pc[r] = "waiting"
  /\ MutexFree(r)
  /\ ~ Recent
  /\ Goto(r, "asking")
  /\ since' = [since EXCEPT ![r] = clock]
  /\ KeepLast(r)
  /\ UNCHANGED <<clock, checking, asked>>

\* The hour of the check that found what is shown from now on.
Found(ok) ==
  IF ok THEN clock
  ELSE IF last # None THEN last.found ELSE None

\* VARIANT: the wait is counted from when the question was put.
AskedWhenPut(r) == since[r]

AskedAt(r) == clock

\* GitHub answered, or did not: latest ends, and the mutex is dropped.
Learn(r, ok) ==
  /\ pc[r] = "asking"
  /\ last' = [at |-> AskedAt(r), found |-> Found(ok)]
  /\ asked' = asked \cup {[by |-> r, from |-> since[r], to |-> clock, ok |-> ok]}
  /\ Goto(r, "idle")
  /\ UNCHANGED <<clock, checking, since>>

\* The client went away: the request's future is dropped at its await.
Drop(r) ==
  /\ pc[r] \in {"waiting", "asking"}
  /\ Goto(r, "idle")
  /\ UNCHANGED <<clock, checking, last, since, asked>>

Next ==
  \/ Tick
  \/ Toggle
  \/ \E r \in Requests :
       \/ Arrive(r) \/ Reuse(r) \/ Ask(r) \/ Drop(r)
       \/ \E ok \in BOOLEAN : Learn(r, ok)

Spec == Init /\ [][Next]_vars

-----------------------------------------------------------------------------
(* Properties.                                                             *)

\* However many requests arrive together, GitHub is left alone after each
\* question that was seen to its end: for the check interval when it was
\* answered, for the retry interval when it was not.
Gap(a) == IF a.ok THEN UPDATE_CHECK_INTERVAL ELSE UPDATE_RETRY_INTERVAL

QuestionsAreSpaced ==
  \A a, b \in asked :
    a # b => b.from >= a.to + Gap(a) \/ a.from >= b.to + Gap(b)

\* Once a release was found it is shown from then on ("Keep showing what an
\* earlier check found"), whatever fails or is dropped half-way, and it is
\* only ever replaced by a later one.
FoundIsKept ==
  [][last # None /\ last.found # None =>
       /\ last' # None
       /\ last'.found # None
       /\ last'.found >= last.found]_vars

\* "How long to wait after a failed update check before trying again"
\* (lib.rs:40): once the last question has failed and that time is over, a
\* request may ask again.  It does not hold when an earlier check had found a
\* release: see the README.
LastFailed == \E a \in asked : ~ a.ok /\ \A b \in asked : b.to <= a.to /\ (b.to = a.to => ~ b.ok)

RetriesAfterTheInterval ==
  LastFailed /\ last # None /\ clock - last.at >= UPDATE_RETRY_INTERVAL => ~ Recent
=============================================================================
