---------------------------- MODULE SessionsProofs ----------------------------
(***************************************************************************)
(* Proofs about Sessions, for all browsers and addresses, every limit and  *)
(* any number of tokens: the safety properties that the run sessions       *)
(* checks on a small instance.                                             *)
(***************************************************************************)
EXTENDS Sessions, FiniteSetTheorems, TLAPS

\* A sign-in ends with the program it was for, and one that was found right
\* was found right by the password the program still runs with.
SignInsAreForThisRun ==
  \A b \in Browsers : signin[b] # None =>
    /\ Running
    /\ signin[b].at \in {"right", "cleared"} => Accepts(signin[b].typed)

SessionsAreForThisRun == Running => \A s \in sessions : Accepts(s.typed)

EndedAreGone == \A t \in ended : \A s \in sessions : s.token # t

Behind(a) == {b \in Browsers : AddressOf[b] = a}

-----------------------------------------------------------------------------
LEMMA OlderStays ==
  ASSUME NEW limit \in Nat, NEW age \in 0..limit
  PROVE  Older(age, limit) \in 0..limit
BY DEF Older

LEMMA FailuresStay ==
  ASSUME NEW f \in Failures
  PROVE  /\ Current(f) \in Failures /\ Current(f).count <= f.count
         /\ OneMore(f) \in Failures /\ OneMore(f).count = f.count + 1
         /\ OlderFailures(f) \in Failures /\ OlderFailures(f).count = f.count
<1> USE LimitsAssumption DEF Failures
<1>1. NoFailures \in Failures /\ NoFailures.count = 0
  BY DEF NoFailures
<1>2. Current(f) \in Failures /\ Current(f).count <= f.count
  BY <1>1 DEF Current
<1>3. OneMore(f) \in Failures /\ OneMore(f).count = f.count + 1
  BY DEF OneMore
<1>4. OlderFailures(f) \in Failures /\ OlderFailures(f).count = f.count
  BY OlderStays DEF OlderFailures
<1>5. QED
  BY <1>2, <1>3, <1>4

\* Every variable keeps its type in every step.
LEMMA Typing == TypeOK /\ [Next]_vars => TypeOK'
<1> SUFFICES ASSUME TypeOK, [Next]_vars PROVE TypeOK'
  OBVIOUS
<1> USE NoneAssumption, DamagedAssumption, InsecureAssumption, AddressAssumption
<1>0. NoFailures \in Failures
  BY LimitsAssumption DEF NoFailures, Failures
<1>1. ASSUME NEW p \in Passwords, WriteTemporary(p) PROVE TypeOK'
  BY <1>1 DEF TypeOK, WriteTemporary, web
<1>2. CASE RenameTemporary
  BY <1>2 DEF TypeOK, RenameTemporary, web
<1>3. CASE InterruptSave
  BY <1>3 DEF TypeOK, InterruptSave, web
<1>4. ASSUME NEW given \in Passwords \cup {None}, NEW allow \in BOOLEAN, Start(given, allow)
      PROVE TypeOK'
  <2>1. credentials' \in Passwords \cup {Insecure}
    BY <1>4 DEF Start, Chosen
  <2>2. QED
    BY <1>0, <1>4, <2>1 DEF TypeOK, Start, FreshState, disk
<1>5. CASE Stop
  BY <1>5 DEF TypeOK, Stop, disk
<1>6. ASSUME NEW b \in Browsers, NEW p \in Passwords, Attempt(b, p) PROVE TypeOK'
  <2>1. [at |-> "check", typed |-> p] \in SignIn
    BY DEF SignIn
  <2>2. signin' \in [Browsers -> SignIn \cup {None}]
    BY <1>6, <2>1 DEF TypeOK, Attempt
  <2>3. failures' \in [Addresses -> Failures]
    BY <1>6, FailuresStay DEF TypeOK, Attempt
  <2>4. QED
    BY <1>6, <2>2, <2>3 DEF TypeOK, Attempt, disk
<1>7. ASSUME NEW b \in Browsers, Refuse(b) PROVE TypeOK'
  BY <1>7 DEF TypeOK, Refuse, Refused, disk
<1>8. ASSUME NEW b \in Browsers, Check(b) PROVE TypeOK'
  <2>1. signin' \in [Browsers -> SignIn \cup {None}]
    BY <1>8 DEF TypeOK, Check, SignIn
  <2>2. QED
    BY <1>8, <2>1 DEF TypeOK, Check, disk
<1>9. ASSUME NEW b \in Browsers, RecordFailure(b) PROVE TypeOK'
  <2>1. failures' \in [Addresses -> Failures]
    BY <1>9, FailuresStay DEF TypeOK, RecordFailure
  <2>2. QED
    BY <1>9, <2>1 DEF TypeOK, RecordFailure, disk
<1>10. ASSUME NEW b \in Browsers, ClearFailures(b) PROVE TypeOK'
  <2>1. signin' \in [Browsers -> SignIn \cup {None}]
    BY <1>10 DEF TypeOK, ClearFailures, SignIn
  <2>2. QED
    BY <1>0, <1>10, <2>1 DEF TypeOK, ClearFailures, disk
<1>11. ASSUME NEW b \in Browsers, NEW t \in Tokens, NEW answered \in BOOLEAN,
              Create(b, t, answered)
       PROVE TypeOK'
  <2>1. [token |-> t, age |-> 0, typed |-> signin[b].typed] \in Session
    BY <1>11, LimitsAssumption DEF TypeOK, Create, Session, SignIn
  <2>2. sessions' \subseteq Session
    BY <1>11, <2>1 DEF TypeOK, Create, KeptSessions
  <2>3. cookie' \in [Browsers -> Tokens \cup {None}] /\ signin' \in [Browsers -> SignIn \cup {None}]
    BY <1>11 DEF TypeOK, Create
  <2>4. QED
    BY <1>11, <2>2, <2>3 DEF TypeOK, Create, disk
<1>12. ASSUME NEW b \in Browsers, GoAway(b) PROVE TypeOK'
  BY <1>12 DEF TypeOK, GoAway, disk
<1>13. ASSUME NEW b \in Browsers, Logout(b) PROVE TypeOK'
  BY <1>13 DEF TypeOK, Logout, Without, disk
<1>14. ASSUME NEW b \in Browsers, ForgetCookie(b) PROVE TypeOK'
  BY <1>14 DEF TypeOK, ForgetCookie, disk
<1>15. CASE Elapse
  <2>1. \A s \in sessions : OlderSession(s) \in Session
    BY OlderStays, LimitsAssumption DEF TypeOK, Session, OlderSession
  <2>2. failures' \in [Addresses -> Failures]
    BY <1>15, FailuresStay DEF TypeOK, Elapse
  <2>3. QED
    BY <1>15, <2>1, <2>2 DEF TypeOK, Elapse, disk
<1>16. CASE UNCHANGED vars
  BY <1>16 DEF TypeOK, vars
<1>17. QED
  BY <1>1, <1>2, <1>3, <1>4, <1>5, <1>6, <1>7, <1>8, <1>9, <1>10, <1>11, <1>12, <1>13,
     <1>14, <1>15, <1>16 DEF Next

LEMMA InitTyped == Init => TypeOK
BY LimitsAssumption DEF Init, TypeOK, NoFailures, Failures

\* Type correctness: the tables, cookies, files and ages keep their ranges.
THEOREM TypeCorrect == Spec => []TypeOK
<1>1. QED
  BY InitTyped, Typing, PTL DEF Spec

-----------------------------------------------------------------------------
(* The limit on failed sign-ins.                                           *)

LEMMA Counting ==
  ASSUME NEW a
  PROVE  /\ IsFiniteSet(UnderWay(a)) /\ Cardinality(UnderWay(a)) \in Nat
         /\ Cardinality(Behind(a)) \in Nat
         /\ Cardinality(UnderWay(a)) <= Cardinality(Behind(a))
         /\ IsFiniteSet(UnderWay(a)') /\ Cardinality(UnderWay(a)') \in Nat
         /\ Cardinality(UnderWay(a)') <= Cardinality(Behind(a))
         /\ \A S \in SUBSET UnderWay(a) : Cardinality(S) <= Cardinality(UnderWay(a))
<1>1. UnderWay(a) \subseteq Behind(a) /\ UnderWay(a)' \subseteq Behind(a) /\ Behind(a) \subseteq Browsers
  BY DEF UnderWay, Behind
<1>2. IsFiniteSet(Behind(a))
  BY <1>1, BrowsersAssumption, FS_Subset
<1>3. IsFiniteSet(UnderWay(a)) /\ IsFiniteSet(UnderWay(a)')
  BY <1>1, <1>2, FS_Subset
<1>4. \A S \in SUBSET UnderWay(a) : Cardinality(S) <= Cardinality(UnderWay(a))
  BY <1>3, FS_Subset
<1>5. /\ Cardinality(UnderWay(a)) <= Cardinality(Behind(a))
      /\ Cardinality(UnderWay(a)') <= Cardinality(Behind(a))
  BY <1>1, <1>2, FS_Subset
<1>6. QED
  BY <1>2, <1>3, <1>4, <1>5, FS_CardinalityType

\* The limit of one address, in this state.
Limited(a) ==
  failures[a].count + Cardinality(UnderWay(a)) <= MAX_FAILURES - 1 + Cardinality(Behind(a))

LEMMA LimitedIs == GuessesAreLimited <=> \A a \in Addresses : Limited(a)
BY DEF GuessesAreLimited, Limited, Behind

LEMMA FewerStaysLimited ==
  ASSUME TypeOK, TypeOK', NEW a \in Addresses, Limited(a),
         UnderWay(a)' \subseteq UnderWay(a), failures'[a].count <= failures[a].count
  PROVE  Limited(a)'
<1>1. Cardinality(UnderWay(a)') <= Cardinality(UnderWay(a))
  BY Counting
<1>2. failures[a].count \in Nat /\ failures'[a].count \in Nat
  BY DEF TypeOK, Failures
<1>3. QED
  BY <1>1, <1>2, Counting, LimitsAssumption DEF Limited, Behind

\* A sign-in that is let through finds less than the limit, however many others
\* of its address are under way.
LEMMA AttemptIsLimited ==
  ASSUME TypeOK, TypeOK', NEW a \in Addresses, Limited(a),
         NEW b \in Browsers, NEW p \in Passwords, Attempt(b, p)
  PROVE  Limited(a)'
<1> USE AddressAssumption, LimitsAssumption
<1>1. failures'[a].count \in Nat /\ failures[a] \in Failures
  BY DEF TypeOK, Failures
<1>2. CASE a = AddressOf[b]
  <2>1. failures'[a].count = Current(failures[a]).count /\ ~(Current(failures[a]).count >= MAX_FAILURES)
    BY <1>2 DEF Attempt, LockedOut, TypeOK
  <2>2. failures'[a].count <= MAX_FAILURES - 1
    BY <1>1, <2>1
  <2>3. QED
    BY <1>1, <2>2, Counting DEF Limited, Behind
<1>3. CASE a # AddressOf[b]
  <2>1. UnderWay(a)' \subseteq UnderWay(a)
    BY <1>3 DEF UnderWay, Attempt, TypeOK
  <2>2. failures'[a] = failures[a]
    BY <1>3 DEF Attempt, TypeOK
  <2>3. failures'[a].count <= failures[a].count
    BY <1>1, <2>2 DEF Failures
  <2>4. QED
    BY <2>1, <2>3, FewerStaysLimited
<1>4. QED
  BY <1>2, <1>3

\* A failure that is counted is no longer under way.
LEMMA RecordIsLimited ==
  ASSUME TypeOK, TypeOK', NEW a \in Addresses, Limited(a),
         NEW b \in Browsers, RecordFailure(b)
  PROVE  Limited(a)'
<1> USE AddressAssumption, LimitsAssumption
<1>1. failures[a] \in Failures /\ failures[a].count \in Nat
  BY DEF TypeOK, Failures
<1>2. UnderWay(a)' = UnderWay(a) \ {b}
  BY DEF UnderWay, RecordFailure, TypeOK
<1>3. CASE a = AddressOf[b]
  <2>1. failures'[a].count = failures[a].count + 1
    BY <1>1, <1>3, FailuresStay DEF RecordFailure, TypeOK
  <2>2. b \in UnderWay(a)
    BY <1>3 DEF UnderWay, RecordFailure
  <2>3. Cardinality(UnderWay(a)') = Cardinality(UnderWay(a)) - 1
    BY <1>2, <2>2, Counting, FS_RemoveElement
  <2>4. QED
    BY <1>1, <2>1, <2>3, Counting DEF Limited, Behind
<1>4. CASE a # AddressOf[b]
  <2>1. failures'[a] = failures[a]
    BY <1>4 DEF RecordFailure, TypeOK
  <2>2. QED
    BY <1>1, <1>2, <2>1, FewerStaysLimited
<1>5. QED
  BY <1>3, <1>4

LEMMA LimitKept ==
  ASSUME TypeOK, TypeOK', GuessesAreLimited, [Next]_vars
  PROVE  GuessesAreLimited'
<1> SUFFICES ASSUME NEW a \in Addresses PROVE Limited(a)'
  BY LimitedIs DEF GuessesAreLimited, Limited, Behind
<1> USE AddressAssumption
<1>0. Limited(a) /\ failures[a] \in Failures /\ failures[a].count \in Nat
  BY LimitedIs DEF TypeOK, Failures
<1>1. ASSUME UNCHANGED <<failures, signin>> PROVE Limited(a)'
  BY <1>0, <1>1 DEF Limited, UnderWay, Behind
<1>2. ASSUME failures' = failures, UnderWay(a)' \subseteq UnderWay(a) PROVE Limited(a)'
  BY <1>0, <1>2, FewerStaysLimited
<1>3. ASSUME NEW p \in Passwords, WriteTemporary(p) PROVE Limited(a)'
  BY <1>1, <1>3 DEF WriteTemporary, web
<1>4. CASE RenameTemporary \/ InterruptSave
  BY <1>1, <1>4 DEF RenameTemporary, InterruptSave, web
<1>5. ASSUME NEW given \in Passwords \cup {None}, NEW allow \in BOOLEAN, Start(given, allow)
      PROVE Limited(a)'
  <2>1. failures'[a].count = 0
    BY <1>5 DEF Start, FreshState, NoFailures
  <2>2. UnderWay(a)' \subseteq UnderWay(a)
    BY <1>5 DEF UnderWay, Start
  <2>3. QED
    BY <1>0, <2>1, <2>2, FewerStaysLimited
<1>6. CASE Stop
  BY <1>2, <1>6 DEF Stop, UnderWay
<1>7. ASSUME NEW b \in Browsers, NEW p \in Passwords, Attempt(b, p) PROVE Limited(a)'
  BY <1>0, <1>7, AttemptIsLimited
<1>8. ASSUME NEW b \in Browsers, Refuse(b) PROVE Limited(a)'
  <2>1. failures' = failures
    BY <1>8 DEF Refuse, Refused, TypeOK
  <2>2. QED
    BY <1>1, <1>8, <2>1 DEF Refuse
<1>9. ASSUME NEW b \in Browsers, Check(b) PROVE Limited(a)'
  <2>1. UnderWay(a)' \subseteq UnderWay(a)
    BY <1>9 DEF UnderWay, Check, TypeOK
  <2>2. QED
    BY <1>2, <1>9, <2>1 DEF Check
<1>10. ASSUME NEW b \in Browsers, RecordFailure(b) PROVE Limited(a)'
  BY <1>0, <1>10, RecordIsLimited
<1>11. ASSUME NEW b \in Browsers, ClearFailures(b) PROVE Limited(a)'
  <2>1. UnderWay(a)' \subseteq UnderWay(a)
    BY <1>11 DEF UnderWay, ClearFailures, TypeOK
  <2>2. failures'[a] \in {failures[a], NoFailures}
    BY <1>11 DEF ClearFailures, TypeOK
  <2>3. failures'[a].count <= failures[a].count
    BY <1>0, <2>2 DEF NoFailures
  <2>4. QED
    BY <1>0, <2>1, <2>3, FewerStaysLimited
<1>12. ASSUME NEW b \in Browsers, NEW t \in Tokens, NEW answered \in BOOLEAN,
              Create(b, t, answered)
       PROVE Limited(a)'
  <2>1. UnderWay(a)' \subseteq UnderWay(a)
    BY <1>12 DEF UnderWay, Create, TypeOK
  <2>2. QED
    BY <1>2, <1>12, <2>1 DEF Create
<1>13. ASSUME NEW b \in Browsers, GoAway(b) PROVE Limited(a)'
  <2>1. UnderWay(a)' \subseteq UnderWay(a)
    BY <1>13 DEF UnderWay, GoAway, TypeOK
  <2>2. QED
    BY <1>2, <1>13, <2>1 DEF GoAway
<1>14. ASSUME NEW b \in Browsers, Logout(b) \/ ForgetCookie(b) PROVE Limited(a)'
  BY <1>1, <1>14 DEF Logout, ForgetCookie
<1>15. CASE Elapse
  <2>1. failures'[a].count = failures[a].count
    BY <1>0, <1>15, FailuresStay DEF Elapse
  <2>2. UnderWay(a)' \subseteq UnderWay(a)
    BY <1>15 DEF UnderWay, Elapse
  <2>3. QED
    BY <1>0, <2>1, <2>2, FewerStaysLimited
<1>16. CASE UNCHANGED vars
  BY <1>1, <1>16 DEF vars
<1>17. QED
  BY <1>3, <1>4, <1>5, <1>6, <1>7, <1>8, <1>9, <1>10, <1>11, <1>12, <1>13, <1>14, <1>15, <1>16
  DEF Next

\* However sign-ins from one address overlap, the wrong passwords it has tried
\* exceed the limit by at most the number that can overlap (auth.rs:208-223).
THEOREM LimitHolds == Spec => []GuessesAreLimited
<1>1. Init => GuessesAreLimited
  <2> SUFFICES ASSUME Init, NEW a \in Addresses PROVE Limited(a)
    BY LimitedIs
  <2>1. failures[a].count = 0
    BY DEF Init, NoFailures
  <2>2. QED
    BY <2>1, Counting, LimitsAssumption DEF Limited
<1>2. QED
  BY <1>1, InitTyped, Typing, LimitKept, PTL DEF Spec

-----------------------------------------------------------------------------
(* Who is let in.                                                          *)

RightSignIns == SignInsAreForThisRun /\ SessionsAreForThisRun

LEMMA SignInsKept ==
  ASSUME TypeOK, RightSignIns, [Next]_vars
  PROVE  SignInsAreForThisRun'
<1> SUFFICES ASSUME NEW b \in Browsers, signin'[b] # None
             PROVE  /\ credentials' # None
                    /\ signin'[b].at \in {"right", "cleared"} =>
                         credentials' \in {signin'[b].typed, Insecure}
  BY DEF SignInsAreForThisRun, Running, Accepts
<1> DEFINE Good == /\ credentials # None
                   /\ signin[b].at \in {"right", "cleared"} =>
                        credentials \in {signin[b].typed, Insecure}
<1>1. signin[b] # None => Good
  BY DEF RightSignIns, SignInsAreForThisRun, Running, Accepts
<1>2. ASSUME credentials' = credentials, signin'[b] = signin[b]
      PROVE  /\ credentials' # None
             /\ signin'[b].at \in {"right", "cleared"} =>
                  credentials' \in {signin'[b].typed, Insecure}
  BY <1>1, <1>2
<1>3. CASE \/ \E p \in Passwords : WriteTemporary(p)
           \/ RenameTemporary \/ InterruptSave
           \/ Elapse
           \/ \E c \in Browsers : Logout(c) \/ ForgetCookie(c) \/ Refuse(c)
           \/ UNCHANGED vars
  BY <1>2, <1>3 DEF WriteTemporary, RenameTemporary, InterruptSave, Elapse, Logout,
                    ForgetCookie, Refuse, web, vars
<1>4. ASSUME NEW given \in Passwords \cup {None}, NEW allow \in BOOLEAN, Start(given, allow)
      PROVE  FALSE
  BY <1>1, <1>4 DEF Start, Running
<1>5. CASE Stop
  BY <1>5 DEF Stop
<1>6. ASSUME NEW c \in Browsers, NEW p \in Passwords, Attempt(c, p)
      PROVE  credentials' # None /\ (signin'[b] = signin[b] \/ signin'[b].at = "check")
  BY <1>6 DEF Attempt, Running, TypeOK
<1>7. ASSUME NEW c \in Browsers, Check(c), c = b
      PROVE  /\ signin[b] # None
             /\ signin'[b].typed = signin[b].typed
             /\ signin'[b].at = "right" => credentials \in {signin[b].typed, Insecure}
             /\ signin'[b].at # "cleared"
  <2>1. signin[b] \in SignIn
    BY <1>7 DEF Check, TypeOK
  <2>2. signin' = [signin EXCEPT ![b].at = IF Accepts(signin[b].typed) THEN "right" ELSE "wrong"]
    BY <1>7 DEF Check
  <2>3. signin'[b] = [signin[b] EXCEPT !.at = IF Accepts(signin[b].typed) THEN "right" ELSE "wrong"]
    BY <2>2 DEF TypeOK
  <2>4. /\ signin'[b].typed = signin[b].typed
        /\ signin'[b].at = IF Accepts(signin[b].typed) THEN "right" ELSE "wrong"
    BY <2>1, <2>3 DEF SignIn
  <2>5. QED
    BY <1>7, <2>4 DEF Accepts, Check
<1>8. ASSUME NEW c \in Browsers, ClearFailures(c), c = b
      PROVE  signin[b] # None /\ signin[b].at = "right" /\ signin'[b].typed = signin[b].typed
  BY <1>8 DEF ClearFailures, TypeOK, SignIn
<1>9. ASSUME NEW c \in Browsers, Check(c) \/ ClearFailures(c)
      PROVE  credentials' = credentials /\ (c # b => signin'[b] = signin[b])
  BY <1>9 DEF Check, ClearFailures, TypeOK
<1>10. ASSUME NEW c \in Browsers, RecordFailure(c) \/ GoAway(c)
       PROVE  credentials' = credentials /\ signin'[b] = signin[b]
  BY <1>10 DEF RecordFailure, GoAway, TypeOK
<1>11. ASSUME NEW c \in Browsers, NEW t \in Tokens, NEW answered \in BOOLEAN,
              Create(c, t, answered)
       PROVE  credentials' = credentials /\ signin'[b] = signin[b]
  BY <1>11 DEF Create, TypeOK
<1>12. ASSUME NEW c \in Browsers, NEW p \in Passwords, Attempt(c, p)
       PROVE  credentials' = credentials
  BY <1>12 DEF Attempt
<1>13. QED
  BY <1>1, <1>2, <1>3, <1>4, <1>5, <1>6, <1>7, <1>8, <1>9, <1>10, <1>11, <1>12 DEF Next

LEMMA SessionsKept ==
  ASSUME TypeOK, RightSignIns, [Next]_vars
  PROVE  SessionsAreForThisRun'
<1> SUFFICES ASSUME credentials' # None, NEW s \in sessions'
             PROVE  credentials' \in {s.typed, Insecure}
  BY DEF SessionsAreForThisRun, Running, Accepts
<1>1. ASSUME credentials' = credentials, s \in sessions
      PROVE  credentials' \in {s.typed, Insecure}
  BY <1>1 DEF RightSignIns, SessionsAreForThisRun, Running, Accepts
<1>2. ASSUME NEW given \in Passwords \cup {None}, NEW allow \in BOOLEAN, Start(given, allow)
      PROVE  FALSE
  BY <1>2 DEF Start, FreshState
<1>3. CASE Stop
  BY <1>3 DEF Stop
<1>4. ASSUME NEW c \in Browsers, NEW t \in Tokens, NEW answered \in BOOLEAN,
             Create(c, t, answered)
      PROVE  credentials' \in {s.typed, Insecure}
  <2>1. credentials' = credentials /\ credentials \in {signin[c].typed, Insecure}
    BY <1>4 DEF Create, RightSignIns, SignInsAreForThisRun, Accepts
  <2>2. s \in sessions \/ s.typed = signin[c].typed
    BY <1>4 DEF Create, KeptSessions
  <2>3. QED
    BY <1>1, <2>1, <2>2
<1>5. CASE Elapse
  <2>1. PICK old \in sessions : s = OlderSession(old)
    BY <1>5 DEF Elapse
  <2>2. s.typed = old.typed
    BY <2>1 DEF OlderSession, TypeOK, Session
  <2>3. QED
    BY <1>5, <2>2 DEF Elapse, RightSignIns, SessionsAreForThisRun, Running, Accepts
<1>6. CASE \/ \E p \in Passwords : WriteTemporary(p)
           \/ RenameTemporary \/ InterruptSave
           \/ \E c \in Browsers :
                \/ \E p \in Passwords : Attempt(c, p)
                \/ Refuse(c) \/ Check(c) \/ RecordFailure(c) \/ ClearFailures(c)
                \/ GoAway(c) \/ Logout(c) \/ ForgetCookie(c)
           \/ UNCHANGED vars
  BY <1>1, <1>6 DEF WriteTemporary, RenameTemporary, InterruptSave, Attempt, Refuse, Check,
    RecordFailure, ClearFailures, GoAway, Logout, Without, ForgetCookie, web, vars
<1>7. QED
  BY <1>2, <1>3, <1>4, <1>5, <1>6 DEF Next

\* Whoever the running program lets in has typed the password it runs with,
\* over any number of restarts, password changes and kept cookies.
THEOREM OnlyTheRightPassword == Spec => []SignedInKnowThePassword
<1>1. Init => RightSignIns
  BY DEF Init, RightSignIns, SignInsAreForThisRun, SessionsAreForThisRun, Running
<1>2. TypeOK /\ RightSignIns /\ [Next]_vars => RightSignIns'
  BY SignInsKept, SessionsKept DEF RightSignIns
<1>3. TypeOK /\ RightSignIns => SignedInKnowThePassword
  BY DEF RightSignIns, SessionsAreForThisRun, SignedInKnowThePassword, Authorized, Valid, Accepts
<1>4. QED
  BY <1>1, <1>2, <1>3, InitTyped, Typing, PTL DEF Spec

-----------------------------------------------------------------------------
(* Signing out, and the password file.                                     *)

LEMMA GoneKept ==
  ASSUME TypeOK, EndedAreGone, [Next]_vars
  PROVE  EndedAreGone'
<1> SUFFICES ASSUME NEW t \in ended', NEW s \in sessions' PROVE s.token # t
  BY DEF EndedAreGone
<1>1. ASSUME t \in ended, s \in sessions PROVE s.token # t
  BY <1>1 DEF EndedAreGone
<1>2. ASSUME NEW given \in Passwords \cup {None}, NEW allow \in BOOLEAN, Start(given, allow)
      PROVE FALSE
  BY <1>2 DEF Start, FreshState
<1>3. ASSUME NEW c \in Browsers, NEW u \in Tokens, NEW answered \in BOOLEAN,
             Create(c, u, answered)
      PROVE  s.token # t
  BY <1>1, <1>3 DEF Create, KeptSessions
<1>4. ASSUME NEW c \in Browsers, Logout(c) PROVE s.token # t
  BY <1>1, <1>4 DEF Logout, Without
<1>5. CASE Elapse
  <2>1. PICK old \in sessions : s = OlderSession(old)
    BY <1>5 DEF Elapse
  <2>2. s.token = old.token
    BY <2>1 DEF OlderSession, TypeOK, Session
  <2>3. QED
    BY <1>5, <2>2 DEF Elapse, EndedAreGone
<1>6. CASE \/ \E p \in Passwords : WriteTemporary(p)
           \/ RenameTemporary \/ InterruptSave \/ Stop
           \/ \E c \in Browsers :
                \/ \E p \in Passwords : Attempt(c, p)
                \/ Refuse(c) \/ Check(c) \/ RecordFailure(c) \/ ClearFailures(c)
                \/ GoAway(c) \/ ForgetCookie(c)
           \/ UNCHANGED vars
  BY <1>1, <1>6 DEF WriteTemporary, RenameTemporary, InterruptSave, Stop, Attempt, Refuse,
    Check, RecordFailure, ClearFailures, GoAway, ForgetCookie, web, vars
<1>7. QED
  BY <1>2, <1>3, <1>4, <1>5, <1>6 DEF Next

\* A session that was signed out is never valid again.
THEOREM SignedOutForGood == Spec => []SignedOutStaysOut
<1>1. Init => EndedAreGone
  BY DEF Init, EndedAreGone
<1>2. EndedAreGone => SignedOutStaysOut
  BY DEF EndedAreGone, SignedOutStaysOut, Valid
<1>3. QED
  BY <1>1, <1>2, InitTyped, Typing, GoneKept, PTL DEF Spec

\* An interrupted set-password leaves the password there was.
THEOREM PasswordKept == Spec => PasswordIsNeverLost
<1>1. TypeOK /\ [Next]_vars =>
        [(file \in Passwords) => file' \in {file, setting} /\ file' # None]_vars
  <2> SUFFICES ASSUME TypeOK, [Next]_vars, file \in Passwords
               PROVE  file' \in {file, setting} /\ file' # None
    OBVIOUS
  <2>1. CASE file' = file
    BY <2>1, NoneAssumption
  <2>2. CASE RenameTemporary
    BY <2>2 DEF RenameTemporary
  <2>3. RenameTemporary \/ file' = file
    BY DEF Next, WriteTemporary, InterruptSave, Start, Stop, Attempt, Refuse, Check,
      RecordFailure, ClearFailures, Create, GoAway, Logout, ForgetCookie, Elapse, disk, vars
  <2>4. QED
    BY <2>1, <2>2, <2>3
<1>2. QED
  BY <1>1, InitTyped, Typing, PTL DEF Spec, PasswordIsNeverLost

=============================================================================
