------------------------------- MODULE Sessions -------------------------------
(***************************************************************************)
(* Signing in: the password the program runs with (server/src/config.rs,   *)
(* password.rs, main.rs), the sessions and the failed attempts it keeps in *)
(* memory (server/src/auth.rs), and the browsers that sign in and out.     *)
(*                                                                         *)
(* A sign-in takes the locks of its two maps one after the other and       *)
(* checks the password on a blocking thread in between, so that sign-ins   *)
(* from one address overlap: each lock, and the check, is a step.          *)
(*                                                                         *)
(* Instants are kept as ages, which Elapse raises; an age stops where no   *)
(* comparison tells it from a greater one.                                 *)
(*                                                                         *)
(* Definitions marked VARIANT are not the code: each is a slip the code    *)
(* could have had, kept to show which property would notice it.            *)
(***************************************************************************)
EXTENDS Integers, FiniteSets

CONSTANTS
  Browsers,         \* each has one cookie jar and, BOUND, one sign-in under way
  Addresses,        \* the addresses connections come from
  AddressOf,        \* where each browser connects from; a proxy gives many one
  Passwords,        \* user name and password together
  Tokens,           \* BOUND: the session tokens ever made
  SESSION_TTL, MAX_FAILURES, FAILURE_WINDOW,
  None,             \* no password, no file, no cookie
  Damaged,          \* a password file that cannot be read
  Insecure          \* Credentials::Insecure

ASSUME BrowsersAssumption == IsFiniteSet(Browsers)
ASSUME AddressAssumption == AddressOf \in [Browsers -> Addresses]
ASSUME LimitsAssumption ==
  /\ SESSION_TTL \in Nat \ {0}
  /\ MAX_FAILURES \in Nat \ {0}
  /\ FAILURE_WINDOW \in Nat \ {0}
ASSUME NoneAssumption == None \notin Passwords /\ None \notin Tokens
ASSUME DamagedAssumption == Damaged \notin Passwords /\ Damaged # None
ASSUME InsecureAssumption == Insecure \notin Passwords /\ Insecure # None

VARIABLES
  credentials,  \* what the running program accepts; None: it is not running
  sessions,     \* its sessions, records [token, age, typed]
  failures,     \* per address: how many failures, since when
  signin,       \* per browser: where its sign-in is
  cookie,       \* per browser: the token in its cookie
  file,         \* password.json
  setting,      \* the password set-password is saving
  ended         \* history: the tokens of the sessions that were signed out

vars == <<credentials, sessions, failures, signin, cookie, file, setting, ended>>

web == <<sessions, failures, signin, cookie, ended>>
disk == <<file, setting>>

\* typed is history: the password the session was made for.
Session == [token : Tokens, age : 0..SESSION_TTL, typed : Passwords]

\* An entry of the failures map; count 0 when the address has none.
Failures == [count : Nat, since : 0..FAILURE_WINDOW]
NoFailures == [count |-> 0, since |-> 0]

\* A sign-in between its steps: "check" on the blocking thread, then "wrong", or
\* "right" before and "cleared" after the failures are cleared.
SignIn == [at : {"check", "wrong", "right", "cleared"}, typed : Passwords]

TypeOK ==
  /\ credentials \in Passwords \cup {Insecure, None}
  /\ sessions \subseteq Session
  /\ failures \in [Addresses -> Failures]
  /\ signin \in [Browsers -> SignIn \cup {None}]
  /\ cookie \in [Browsers -> Tokens \cup {None}]
  /\ file \in Passwords \cup {Damaged, None}
  /\ setting \in Passwords \cup {None}
  /\ ended \subseteq Tokens

Init ==
  /\ credentials = None
  /\ sessions = {}
  /\ failures = [a \in Addresses |-> NoFailures]
  /\ signin = [b \in Browsers |-> None]
  /\ cookie = [b \in Browsers |-> None]
  /\ file \in Passwords \cup {Damaged, None}
  /\ setting = None
  /\ ended = {}

Running == credentials # None

-----------------------------------------------------------------------------
(* set-password: what is typed is written to a temporary file and synced,  *)
(* and that file renamed.  It takes no claim on the data folder: the       *)
(* program may be running.  What an interrupted save leaves in the         *)
(* temporary file is never read: the next one truncates it.                *)
(* BOUND: one set-password at a time.  A second one run meanwhile would    *)
(* truncate the temporary file the first is about to rename.               *)

\* VARIANT: the file is written where it stands.
WriteInPlace(p) ==
  /\ setting = None
  /\ setting' = p
  /\ file' = Damaged
  /\ UNCHANGED <<credentials, web>>

WriteTemporary(p) ==
  /\ setting = None
  /\ setting' = p
  /\ UNCHANGED <<credentials, file, web>>

RenameTemporary ==
  /\ setting # None
  /\ file' = setting
  /\ setting' = None
  /\ UNCHANGED <<credentials, web>>

\* Interrupted, or a write failed.
InterruptSave ==
  /\ setting # None
  /\ setting' = None
  /\ UNCHANGED <<credentials, file, web>>

-----------------------------------------------------------------------------
(* Starting and stopping the program.                                      *)

\* VARIANT: a password file is taken as it is.
ChosenUnread(given, allowInsecure) ==
  IF given # None THEN {given} ELSE {file} \ {None}

\* What the program runs with when the environment gives it a password
\* (None: it gives none) and, perhaps, the permission to run without.
\* A damaged file is an error, not "none"; nothing at all is one, too.
Chosen(given, allowInsecure) ==
  CASE given # None -> {given}
    [] given = None /\ file \in Passwords -> {file}
    [] given = None /\ file = None /\ allowInsecure -> {Insecure}
    [] OTHER -> {}

\* VARIANT: sessions outlive the program.
KeptState == UNCHANGED <<sessions, failures>>

\* AppState::new: no sessions and no failures.
FreshState ==
  /\ sessions' = {}
  /\ failures' = [a \in Addresses |-> NoFailures]

Start(given, allowInsecure) ==
  /\ ~Running
  /\ credentials' \in Chosen(given, allowInsecure)
  /\ FreshState
  /\ UNCHANGED <<signin, cookie, ended, disk>>

\* A stop or a crash: the sign-ins under way get no answer.
Stop ==
  /\ Running
  /\ credentials' = None
  /\ signin' = [b \in Browsers |-> None]
  /\ UNCHANGED <<sessions, failures, cookie, ended, disk>>

-----------------------------------------------------------------------------
(* Sessions.                                                               *)

Valid(t) == \E s \in sessions : s.token = t /\ s.age < SESSION_TTL

\* is_authorized: what lets a browser through require_admin.
Authorized(b) == Running /\ (credentials = Insecure \/ Valid(cookie[b]))

KeptSessions == {s \in sessions : s.age < SESSION_TTL}

\* create: expired sessions are dropped, and a token nobody had is added.
Create(b, t, answered) ==
  /\ signin[b] # None
  /\ signin[b].at = "cleared"
  /\ t \notin {s.token : s \in sessions} \cup ended \cup {cookie[c] : c \in Browsers}
  /\ sessions' = KeptSessions \cup {[token |-> t, age |-> 0, typed |-> signin[b].typed]}
  /\ cookie' = IF answered THEN [cookie EXCEPT ![b] = t] ELSE cookie
  /\ signin' = [signin EXCEPT ![b] = None]
  /\ UNCHANGED <<credentials, failures, ended, disk>>

\* VARIANT: signing out only takes the cookie away.
WithoutNothing(t) == sessions

\* end
Without(t) == {s \in sessions : s.token # t}

Logout(b) ==
  /\ Running
  /\ cookie[b] # None
  /\ sessions' = Without(cookie[b])
  /\ cookie' = [cookie EXCEPT ![b] = None]
  /\ ended' = ended \cup {cookie[b]}
  /\ UNCHANGED <<credentials, failures, signin, disk>>

-----------------------------------------------------------------------------
(* Signing in.                                                             *)

\* What is_locked_out leaves of an entry: nothing once the window is over.
Current(f) == IF f.since >= FAILURE_WINDOW THEN NoFailures ELSE f

\* VARIANT: one failure more than the limit locks an address out.
LockedOutLate(a) == Current(failures[a]).count > MAX_FAILURES

LockedOut(a) == Current(failures[a]).count >= MAX_FAILURES

\* login, up to the blocking thread.
Attempt(b, p) ==
  LET a == AddressOf[b] IN
  /\ Running
  /\ signin[b] = None
  /\ ~LockedOut(a)
  /\ failures' = [failures EXCEPT ![a] = Current(@)]
  /\ signin' = [signin EXCEPT ![b] = [at |-> "check", typed |-> p]]
  /\ UNCHANGED <<credentials, sessions, cookie, ended, disk>>

\* VARIANT: being refused starts the window again.
RefusedRenews(a) == [failures[a] EXCEPT !.since = 0]

\* A locked out address gets its answer at once, and nothing changes.
Refused(a) == failures[a]

Refuse(b) ==
  LET a == AddressOf[b] IN
  /\ Running
  /\ signin[b] = None
  /\ LockedOut(a)
  /\ failures' = [failures EXCEPT ![a] = Refused(a)]
  /\ UNCHANGED <<credentials, sessions, signin, cookie, ended, disk>>

\* credentials_ok
Accepts(p) == credentials \in {p, Insecure}

Check(b) ==
  /\ signin[b] # None
  /\ signin[b].at = "check"
  /\ signin' = [signin EXCEPT ![b].at = IF Accepts(signin[b].typed) THEN "right" ELSE "wrong"]
  /\ UNCHANGED <<credentials, sessions, failures, cookie, ended, disk>>

\* A later failure counts in the window of the first, over or not.
OneMore(f) == [f EXCEPT !.count = @ + 1]

RecordFailure(b) ==
  /\ signin[b] # None
  /\ signin[b].at = "wrong"
  /\ failures' = [failures EXCEPT ![AddressOf[b]] = OneMore(@)]
  /\ signin' = [signin EXCEPT ![b] = None]
  /\ UNCHANGED <<credentials, sessions, cookie, ended, disk>>

ClearFailures(b) ==
  /\ signin[b] # None
  /\ signin[b].at = "right"
  /\ failures' = [failures EXCEPT ![AddressOf[b]] = NoFailures]
  /\ signin' = [signin EXCEPT ![b].at = "cleared"]
  /\ UNCHANGED <<credentials, sessions, cookie, ended, disk>>

\* The browser goes away while its password is checked: the handler is dropped
\* where it waits, and neither counts nor clears.
GoAway(b) ==
  /\ signin[b] # None
  /\ signin[b].at = "check"
  /\ signin' = [signin EXCEPT ![b] = None]
  /\ UNCHANGED <<credentials, sessions, failures, cookie, ended, disk>>

-----------------------------------------------------------------------------
(* Time passes, for the browsers' cookies too (Max-Age).                   *)

Older(age, limit) == IF age < limit THEN age + 1 ELSE age

OlderFailures(f) ==
  IF f.count = 0 THEN f ELSE [f EXCEPT !.since = Older(@, FAILURE_WINDOW)]

\* VARIANT: a session that is looked at stays young.
Renewed(s) == [s EXCEPT !.age = IF \E b \in Browsers : cookie[b] = s.token THEN 0 ELSE Older(@, SESSION_TTL)]

OlderSession(s) == [s EXCEPT !.age = Older(@, SESSION_TTL)]

Elapse ==
  /\ Running
  /\ sessions' = {OlderSession(s) : s \in sessions}
  /\ failures' = [a \in Addresses |-> OlderFailures(failures[a])]
  /\ UNCHANGED <<credentials, signin, cookie, ended, disk>>

ForgetCookie(b) ==
  /\ cookie[b] # None
  /\ cookie' = [cookie EXCEPT ![b] = None]
  /\ UNCHANGED <<credentials, sessions, failures, signin, ended, disk>>

-----------------------------------------------------------------------------
Next ==
  \/ \E p \in Passwords : WriteTemporary(p)
  \/ RenameTemporary
  \/ InterruptSave
  \/ \E given \in Passwords \cup {None}, allowInsecure \in BOOLEAN : Start(given, allowInsecure)
  \/ Stop
  \/ \E b \in Browsers :
       \/ \E p \in Passwords : Attempt(b, p)
       \/ Refuse(b)
       \/ Check(b)
       \/ RecordFailure(b)
       \/ ClearFailures(b)
       \/ \E t \in Tokens, answered \in BOOLEAN : Create(b, t, answered)
       \/ GoAway(b)
       \/ Logout(b)
       \/ ForgetCookie(b)
  \/ Elapse

Spec == Init /\ [][Next]_vars

\* The clock does not stop; nothing is asked of the people who sign in.
Fairness == WF_vars(Elapse)

FairSpec == Spec /\ Fairness

-----------------------------------------------------------------------------
(* Properties.                                                             *)

\* The sign-ins from address a that have not been counted yet.
UnderWay(a) == {b \in Browsers : AddressOf[b] = a /\ signin[b] # None}

\* The limit on failed sign-ins holds although a sign-in is let through before
\* the ones under way are counted (auth.rs:208-223): the wrong passwords an
\* address has tried, counted or not, exceed the limit by at most the sign-ins
\* that can overlap.
GuessesAreLimited ==
  \A a \in Addresses :
    failures[a].count + Cardinality(UnderWay(a))
      <= MAX_FAILURES - 1 + Cardinality({b \in Browsers : AddressOf[b] = a})

\* Whoever the running program lets in has typed the password it runs with:
\* neither a cookie from before a restart nor a password that has been replaced
\* is enough (docs/using-inkubator.md:74).
SignedInKnowThePassword ==
  Running =>
    /\ \A s \in sessions : Accepts(s.typed)
    /\ \A b \in Browsers : Authorized(b) =>
         \/ credentials = Insecure
         \/ \E s \in sessions : s.token = cookie[b] /\ s.typed = credentials

\* Signing out ends the session, whoever still has the cookie, and no later
\* sign-in or restart brings it back.
SignedOutStaysOut == \A t \in ended : ~Valid(t)

\* set-password may be interrupted anywhere, if only one runs at a time: once
\* there is a password, the program can be started again, with the old one or the
\* new one.
PasswordIsNeverLost ==
  [][(file \in Passwords) => file' \in {file, setting} /\ file' # None]_vars

\* A lockout ends, however often the address asks meanwhile, and so does a
\* session, however much it is used (docs/using-inkubator.md:13).
LockoutsAndSessionsEnd ==
  /\ \A a \in Addresses : LockedOut(a) ~> (~Running \/ ~LockedOut(a))
  /\ \A t \in Tokens : Valid(t) ~> (~Running \/ ~Valid(t))

-----------------------------------------------------------------------------
(* What the documentation says and the code does not do.                   *)

\* The failure that locks an address out starts the time it is refused for
\* (docs/troubleshooting.md:65).  The code counts that time from the first one:
\* see the README.
LockoutStartsTheWindow ==
  [][\A a \in Addresses :
       failures[a].count < MAX_FAILURES /\ failures'[a].count >= MAX_FAILURES
         => failures'[a].since = 0]_vars
=============================================================================
