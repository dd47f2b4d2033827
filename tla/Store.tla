-------------------------------- MODULE Store --------------------------------
(***************************************************************************)
(* crates/core/src/storage.rs: how the collection reaches the disk when    *)
(* several programs, threads and clients are about, and what a crash       *)
(* leaves.  One action is one step between two points where another thread *)
(* or a crash can come in: taking the folder's claim, taking the mutex,    *)
(* reading the shared copy, renaming the staged file over the old one,     *)
(* syncing the folder, answering.                                          *)
(*                                                                         *)
(* Threads are the requests of crates/server/src/lib.rs: a command runs    *)
(* Store::apply once (run_command; the importer's Store::save takes the    *)
(* same steps), a reader runs Store::load again and again.  What a command *)
(* does to the collection is module Collection; here a collection is the   *)
(* set of the commands that made it, so its revision is the set itself.    *)
(***************************************************************************)
EXTENDS FiniteSets

CONSTANTS
  Programs,   \* processes that open the same data folder
  Commands,   \* requests that change the collection, each sent once
  Readers,    \* threads that read it
  None,       \* the shared copy before the first read
  Free        \* a mutex nobody holds

Threads == Commands \cup Readers
Collections == SUBSET Commands

ASSUME ThreadsAssumption == Commands \cap Readers = {}
ASSUME NoneAssumption == \A v \in Collections : v # None
ASSUME FreeAssumption == Free \notin Threads

VARIABLES
  open,       \* the programs that have the folder open
  changing,   \* Shared.changing: who holds each program's mutex
  current,    \* Shared.current: each program's copy of the collection
  file,       \* inkubator.json, as a program sees it
  survivors,  \* what inkubator.json may be after a power loss
  pc, prog,   \* where each thread is, and in which program
  base,       \* the collection whose revision a command names
  shown       \* the collections clients have been given

folder == <<file, survivors>>
vars == <<open, changing, current, file, survivors, pc, prog, base, shown>>

Waiting == "waiting"   \* for the mutex
Ended == {"ok", "conflict", "refused", "failed"}
CommandStates == {"unsent", "waiting", "holding", "staging", "renamed", "written"} \cup Ended
ReaderStates == {"unsent", "reading", "waiting", "holding"}
Inside == {"holding", "staging", "renamed"}   \* with the mutex

\* Types, and the mutex: a thread is on the locked stretch of load or apply
\* exactly while its program's mutex names it.
TypeOK ==
  /\ open \subseteq Programs
  /\ changing \in [Programs -> Threads \cup {Free}]
  /\ current \in [Programs -> {None} \cup Collections]
  /\ file \in Collections
  /\ survivors \subseteq Collections
  /\ pc \in [Threads -> CommandStates \cup ReaderStates]
  /\ \A g \in Readers : pc[g] \in ReaderStates
  /\ \A c \in Commands : pc[c] \in CommandStates
  /\ prog \in [Threads -> Programs]
  /\ base \in [Commands -> Collections]
  /\ shown \subseteq Collections
  /\ \A p \in Programs, t \in Threads :
       changing[p] = t <=> prog[t] = p /\ pc[t] \in Inside

Init ==
  /\ open = {}
  /\ changing = [p \in Programs |-> Free]
  /\ current = [p \in Programs |-> None]
  /\ file = {}
  /\ survivors = {{}}
  /\ pc = [t \in Threads |-> "unsent"]
  /\ prog \in {[t \in Threads |-> p] : p \in Programs}
  /\ base = [c \in Commands |-> {}]
  /\ shown = {}

-----------------------------------------------------------------------------
(* Programs.                                                               *)

\* VARIANT: the lock file is not locked.
ClaimNothing(p) == p \notin open

\* claim: .inkubator.lock is locked without waiting, until the program ends.
Claim(p) == open = {}

Open(p) ==
  /\ Claim(p)
  /\ open' = open \cup {p}
  /\ UNCHANGED <<changing, current, folder, pc, prog, base, shown>>

\* Threads cut short when the programs in P end.
CutShort(P) ==
  /\ changing' = [p \in Programs |-> IF p \in P THEN Free ELSE changing[p]]
  /\ current' = [p \in Programs |-> IF p \in P THEN None ELSE current[p]]
  /\ pc' = [t \in Threads |->
       IF prog[t] \notin P \/ pc[t] \in Ended \cup {"unsent"} THEN pc[t]
       ELSE IF t \in Commands THEN "failed" ELSE "unsent"]

\* The program stops or is killed; the operating system drops its claim.
Kill(p) ==
  /\ p \in open
  /\ open' = open \ {p}
  /\ CutShort({p})
  /\ UNCHANGED <<folder, prog, base, shown>>

\* The machine stops: a rename whose folder was not synced may be undone.
PowerLoss ==
  /\ open' = {}
  /\ CutShort(Programs)
  /\ file' \in survivors
  /\ survivors' = {file'}
  /\ UNCHANGED <<prog, base, shown>>

-----------------------------------------------------------------------------
(* Taking turns.                                                           *)

Goto(t, state) == pc' = [pc EXCEPT ![t] = state]

\* VARIANT: changes do not take turns.
AlwaysMine(t) == TRUE

MutexFree(t) == changing[prog[t]] = Free

Acquire(t) ==
  /\ pc[t] = Waiting
  /\ MutexFree(t)
  /\ changing' = [changing EXCEPT ![prog[t]] = t]
  /\ Goto(t, "holding")
  /\ UNCHANGED <<open, current, folder, prog, base, shown>>

Release(t) == changing' = [changing EXCEPT ![prog[t]] = Free]

Remember(t, value) == current' = [current EXCEPT ![prog[t]] = value]

\* load_unlocked: the shared copy, or the file when there is none.
Loaded(t) == IF current[prog[t]] # None THEN current[prog[t]] ELSE file

-----------------------------------------------------------------------------
(* Reading: Store::load.                                                   *)

Get(g, p) ==
  /\ pc[g] = "unsent"
  /\ p \in open
  /\ prog' = [prog EXCEPT ![g] = p]
  /\ Goto(g, "reading")
  /\ UNCHANGED <<open, changing, current, folder, base, shown>>

\* The shared copy is read without the mutex.
ReadCurrent(g) ==
  /\ pc[g] = "reading"
  /\ current[prog[g]] # None
  /\ shown' = shown \cup {current[prog[g]]}
  /\ Goto(g, "unsent")
  /\ UNCHANGED <<open, changing, current, folder, prog, base>>

FindNoCurrent(g) ==
  /\ pc[g] = "reading"
  /\ current[prog[g]] = None
  /\ Goto(g, Waiting)
  /\ UNCHANGED <<open, changing, current, folder, prog, base, shown>>

\* The file is read with the mutex held, unless another thread did meanwhile.
ReadFile(g) ==
  /\ pc[g] = "holding"
  /\ Remember(g, Loaded(g))
  /\ shown' = shown \cup {Loaded(g)}
  /\ Release(g)
  /\ Goto(g, "unsent")
  /\ UNCHANGED <<open, folder, prog, base>>

ReadFileFails(g) ==
  /\ pc[g] = "holding"
  /\ current[prog[g]] = None
  /\ Release(g)
  /\ Goto(g, "unsent")
  /\ UNCHANGED <<open, current, folder, prog, base, shown>>

-----------------------------------------------------------------------------
(* Changing: Store::apply.                                                 *)

Send(c, p, b) ==
  /\ pc[c] = "unsent"
  /\ p \in open
  /\ b \in shown
  /\ prog' = [prog EXCEPT ![c] = p]
  /\ base' = [base EXCEPT ![c] = b]
  /\ Goto(c, Waiting)
  /\ UNCHANGED <<open, changing, current, folder, shown>>

RevisionMatches(c) == base[c] = Loaded(c)

\* load_unlocked, the revision check and the command itself; nothing is
\* changed on disk yet.
Check(c) ==
  /\ pc[c] = "holding"
  /\ Remember(c, Loaded(c))
  /\ \/ RevisionMatches(c) /\ Goto(c, "staging") /\ UNCHANGED changing
     \/ ~RevisionMatches(c) /\ Goto(c, "conflict") /\ Release(c)
     \/ RevisionMatches(c) /\ Goto(c, "refused") /\ Release(c)
  /\ UNCHANGED <<open, folder, prog, base, shown>>

LoadFails(c) ==
  /\ pc[c] = "holding"
  /\ current[prog[c]] = None
  /\ Goto(c, "failed")
  /\ Release(c)
  /\ UNCHANGED <<open, current, folder, prog, base, shown>>

\* VARIANT: a failed write leaves the shared copy as it was.
KeepCurrent(c) == UNCHANGED current

\* "The file may or may not have been replaced; read it again next time."
ForgetCurrent(c) == Remember(c, None)

\* VARIANT: the error path does not give the mutex back.
GiveUpHolding(c) ==
  /\ ForgetCurrent(c)
  /\ Goto(c, "failed")
  /\ UNCHANGED <<open, changing, folder, prog, base, shown>>

\* atomic_write returns an error and so does apply.
GiveUp(c) ==
  /\ ForgetCurrent(c)
  /\ Goto(c, "failed")
  /\ Release(c)
  /\ UNCHANGED <<open, folder, prog, base, shown>>

StageFails(c) == pc[c] = "staging" /\ GiveUp(c)

\* The staged file was synced before; until the folder is, either survives.
Rename(c) ==
  /\ pc[c] = "staging"
  /\ file' = Loaded(c) \cup {c}
  /\ survivors' = survivors \cup {file'}
  /\ Goto(c, "renamed")
  /\ UNCHANGED <<open, changing, current, prog, base, shown>>

SyncFails(c) == pc[c] = "renamed" /\ GiveUp(c)

\* VARIANT: the folder is not synced.
StillUnsynced == UNCHANGED survivors

SyncDir == survivors' = {file}

\* The write is complete: the shared copy follows it, and the mutex is dropped.
Finish(c) ==
  /\ pc[c] = "renamed"
  /\ SyncDir
  /\ Remember(c, file)
  /\ Release(c)
  /\ Goto(c, "written")
  /\ UNCHANGED <<open, file, prog, base, shown>>

\* The client is told, with the collection apply returned.
Answer(c) ==
  /\ pc[c] = "written"
  /\ Goto(c, "ok")
  /\ shown' = shown \cup {base[c] \cup {c}}
  /\ UNCHANGED <<open, changing, current, folder, prog, base>>

-----------------------------------------------------------------------------
ReaderStep(g) ==
  \/ ReadCurrent(g) \/ FindNoCurrent(g) \/ Acquire(g) \/ ReadFile(g) \/ ReadFileFails(g)

CommandStep(c) ==
  \/ Acquire(c) \/ Check(c) \/ LoadFails(c) \/ StageFails(c) \/ Rename(c)
  \/ SyncFails(c) \/ Finish(c) \/ Answer(c)

Next ==
  \/ \E p \in Programs : Open(p) \/ Kill(p)
  \/ PowerLoss
  \/ \E g \in Readers : (\E p \in Programs : Get(g, p)) \/ ReaderStep(g)
  \/ \E c \in Commands :
       (\E p \in Programs, b \in Collections : Send(c, p, b)) \/ CommandStep(c)

Spec == Init /\ [][Next]_vars

\* A blocking thread that can go on does, and the disk does not fail every read
\* for ever.  Nothing is assumed of who gets the mutex next (std's Mutex is not
\* fair), of clients, of restarts or of when writes fail.
Fairness ==
  /\ \A g \in Readers : WF_vars(ReaderStep(g)) /\ SF_vars(ReadFile(g))
  /\ \A c \in Commands : WF_vars(CommandStep(c))

FairSpec == Spec /\ Fairness

-----------------------------------------------------------------------------
(* What the store promises.                                                *)

Acknowledged == {c \in Commands : pc[c] = "ok"}
Rejected == {c \in Commands : pc[c] \in {"conflict", "refused"}}

\* A change a client was told is saved is in the file and stays there whatever
\* a power loss leaves, and one a client was told is not saved never is: the
\* rename, the folder sync, the answer and the crash are separate steps.
AnswersHold ==
  \A v \in survivors \cup {file} : Acknowledged \subseteq v /\ v \cap Rejected = {}

\* When nobody is writing, the copy every reader is served without a lock is
\* the file's: after failed writes, crashes and with a second program about.
CopyIsCurrent ==
  \A p \in open :
    (\A c \in Commands : pc[c] # "renamed") => current[p] \in {None, file}

\* The store looks like one value that commands change in one step, from the
\* value they name: with the shared copy as the value once there is one.
Value ==
  IF \E p \in open : current[p] # None
    THEN current[CHOOSE p \in open : current[p] # None] ELSE file

\* What is left of a command's place in the code when its steps are not seen.
OutcomeOf(state) ==
  IF state = "written" THEN "applied"
  ELSE IF state \in Ended \cup {"unsent"} THEN state ELSE "sent"

Outcome == [c \in Commands |-> OutcomeOf(pc[c])]

Abstract == INSTANCE AtomicStore WITH value <- Value, outcome <- Outcome

ImplementsAtomicStore == Abstract!Spec

\* A command that was sent is answered, or cut short by a crash: the mutex is
\* given back on every path through apply and load, errors included.
EveryCommandEnds == \A c \in Commands : pc[c] = Waiting ~> pc[c] \in Ended
=============================================================================
