----------------------------- MODULE StoreProofs -----------------------------
(***************************************************************************)
(* Proofs about Store, for any number of programs, commands and readers.   *)
(***************************************************************************)
EXTENDS Store, TLAPS

-----------------------------------------------------------------------------
(* The inductive invariant.  TypeOK, AnswersHold and CopyIsCurrent say     *)
(* nothing of a writer between its check and its sync, nor of who may be   *)
(* inside a program: those are the parts added here.                       *)

OneProgram == \A p, q \in open : p = q

ClosedIsEmpty == \A p \in Programs \ open : changing[p] = Free /\ current[p] = None

BusyIsOpen == \A t \in Threads : pc[t] \notin Ended \cup {"unsent"} => prog[t] \in open

\* What a writer has read stays so until its rename, and its rename adds to that.
WriterOwnsFile ==
  \A c \in Commands :
    /\ pc[c] \in {"staging", "renamed"} => current[prog[c]] = base[c]
    /\ pc[c] = "staging" => file = base[c]
    /\ pc[c] = "renamed" => file = base[c] \cup {c}

FileSurvives == file \in survivors /\ \A v \in survivors : v \subseteq file

Stored == {c \in Commands : pc[c] \in {"written", "ok"}}

StoredSurvives ==
  /\ \A v \in survivors : Stored \subseteq v
  /\ \A p \in open : current[p] # None => Stored \subseteq current[p]

\* A command is in no file before its rename.
OnlyRenamedIsStored ==
  \A c \in Commands, v \in survivors :
    c \in v => pc[c] \in {"renamed", "written", "ok", "failed"}

IInv ==
  /\ TypeOK
  /\ OneProgram
  /\ ClosedIsEmpty
  /\ BusyIsOpen
  /\ WriterOwnsFile
  /\ FileSurvives
  /\ StoredSurvives
  /\ OnlyRenamedIsStored
  /\ CopyIsCurrent

LEMMA OpenKeeps ==
  ASSUME NEW p \in Programs, IInv, Open(p)
  PROVE  IInv'
<1> USE ThreadsAssumption, NoneAssumption, FreeAssumption DEF IInv, Open, folder, Claim,
      Threads, Collections, Inside, Ended, CommandStates, ReaderStates
<1>1. WriterOwnsFile' /\ FileSurvives' /\ OnlyRenamedIsStored'
  BY DEF WriterOwnsFile, FileSurvives, OnlyRenamedIsStored
<1>2. TypeOK'
  BY SMT DEF TypeOK
<1>3. OneProgram'
  BY SMT DEF OneProgram
<1>4. ClosedIsEmpty'
  BY SMT DEF ClosedIsEmpty
<1>5. BusyIsOpen'
  BY SMT DEF BusyIsOpen
<1>6. StoredSurvives'
  BY SMT DEF TypeOK, StoredSurvives, ClosedIsEmpty, Stored
<1>7. CopyIsCurrent'
  BY SMT DEF TypeOK, CopyIsCurrent, ClosedIsEmpty
<1> QED  BY <1>1, <1>2, <1>3, <1>4, <1>5, <1>6, <1>7

LEMMA KillKeeps ==
  ASSUME NEW p \in Programs, IInv, Kill(p)
  PROVE  IInv'
<1> USE ThreadsAssumption, NoneAssumption, FreeAssumption DEF IInv, Kill, folder, CutShort,
      Threads, Collections, Inside, Ended, CommandStates, ReaderStates
<1>1. FileSurvives'
  BY DEF FileSurvives
<1>2. TypeOK'
  BY SMT DEF TypeOK
<1>3. OneProgram'
  BY SMT DEF OneProgram
<1>4. ClosedIsEmpty'
  BY SMT DEF ClosedIsEmpty
<1>5. BusyIsOpen'
  BY SMT DEF BusyIsOpen
<1>6. WriterOwnsFile'
  BY SMT DEF TypeOK, WriterOwnsFile
<1>7. StoredSurvives'
  BY SMT DEF TypeOK, StoredSurvives, Stored
<1>8. OnlyRenamedIsStored'
  BY SMT DEF OnlyRenamedIsStored
<1>9. CopyIsCurrent'
  BY SMT DEF TypeOK, CopyIsCurrent, OneProgram
<1> QED  BY <1>1, <1>2, <1>3, <1>4, <1>5, <1>6, <1>7, <1>8, <1>9

LEMMA PowerLossKeeps ==
  ASSUME IInv, PowerLoss
  PROVE  IInv'
<1> USE ThreadsAssumption, NoneAssumption, FreeAssumption DEF IInv, PowerLoss, folder,
      CutShort, Threads, Collections, Inside, Ended, CommandStates, ReaderStates
<1>1. TypeOK'
  BY SMT DEF TypeOK
<1>2. OneProgram'
  BY SMT DEF OneProgram
<1>3. ClosedIsEmpty'
  BY SMT DEF ClosedIsEmpty
<1>4. BusyIsOpen'
  BY SMT DEF TypeOK, BusyIsOpen
<1>5. WriterOwnsFile'
  BY SMT DEF TypeOK, WriterOwnsFile
<1>6. FileSurvives'
  BY SMT DEF FileSurvives
<1>7. StoredSurvives'
  BY SMT DEF StoredSurvives, Stored
<1>8. OnlyRenamedIsStored'
  BY SMT DEF OnlyRenamedIsStored
<1>9. CopyIsCurrent'
  BY SMT DEF CopyIsCurrent
<1> QED  BY <1>1, <1>2, <1>3, <1>4, <1>5, <1>6, <1>7, <1>8, <1>9

LEMMA GetKeeps ==
  ASSUME NEW g \in Readers, NEW p \in Programs, IInv, Get(g, p)
  PROVE  IInv'
<1> USE ThreadsAssumption, NoneAssumption, FreeAssumption DEF IInv, Get, folder, Goto,
      Threads, Collections, Inside, Ended, CommandStates, ReaderStates
<1>1. OneProgram' /\ ClosedIsEmpty' /\ FileSurvives'
  BY DEF OneProgram, ClosedIsEmpty, FileSurvives
<1>2. TypeOK'
  BY SMT DEF TypeOK
<1>3. BusyIsOpen'
  BY SMT DEF TypeOK, BusyIsOpen
<1>4. WriterOwnsFile'
  BY SMT DEF WriterOwnsFile
<1>5. StoredSurvives'
  BY SMT DEF StoredSurvives, Stored
<1>6. OnlyRenamedIsStored'
  BY SMT DEF OnlyRenamedIsStored
<1>7. CopyIsCurrent'
  BY SMT DEF CopyIsCurrent
<1> QED  BY <1>1, <1>2, <1>3, <1>4, <1>5, <1>6, <1>7

LEMMA ReadCurrentKeeps ==
  ASSUME NEW g \in Readers, IInv, ReadCurrent(g)
  PROVE  IInv'
<1> USE ThreadsAssumption, NoneAssumption, FreeAssumption DEF IInv, ReadCurrent, folder,
      Goto, Threads, Collections, Inside, Ended, CommandStates, ReaderStates
<1>1. OneProgram' /\ ClosedIsEmpty' /\ FileSurvives'
  BY DEF OneProgram, ClosedIsEmpty, FileSurvives
<1>2. TypeOK'
  BY SMT DEF TypeOK
<1>3. BusyIsOpen'
  BY SMT DEF BusyIsOpen
<1>4. WriterOwnsFile'
  BY SMT DEF WriterOwnsFile
<1>5. StoredSurvives'
  BY SMT DEF StoredSurvives, Stored
<1>6. OnlyRenamedIsStored'
  BY SMT DEF OnlyRenamedIsStored
<1>7. CopyIsCurrent'
  BY SMT DEF CopyIsCurrent
<1> QED  BY <1>1, <1>2, <1>3, <1>4, <1>5, <1>6, <1>7

LEMMA FindNoCurrentKeeps ==
  ASSUME NEW g \in Readers, IInv, FindNoCurrent(g)
  PROVE  IInv'
<1> USE ThreadsAssumption, NoneAssumption, FreeAssumption DEF IInv, FindNoCurrent, folder,
      Goto, Waiting, Threads, Collections, Inside, Ended, CommandStates, ReaderStates
<1>1. OneProgram' /\ ClosedIsEmpty' /\ FileSurvives'
  BY DEF OneProgram, ClosedIsEmpty, FileSurvives
<1>2. TypeOK'
  BY SMT DEF TypeOK
<1>3. BusyIsOpen'
  BY SMT DEF BusyIsOpen
<1>4. WriterOwnsFile'
  BY SMT DEF WriterOwnsFile
<1>5. StoredSurvives'
  BY SMT DEF StoredSurvives, Stored
<1>6. OnlyRenamedIsStored'
  BY SMT DEF OnlyRenamedIsStored
<1>7. CopyIsCurrent'
  BY SMT DEF CopyIsCurrent
<1> QED  BY <1>1, <1>2, <1>3, <1>4, <1>5, <1>6, <1>7

LEMMA AcquireKeeps ==
  ASSUME NEW t \in Threads, IInv, Acquire(t)
  PROVE  IInv'
<1> USE ThreadsAssumption, NoneAssumption, FreeAssumption DEF IInv, Acquire, folder, Goto,
      Waiting, MutexFree, Threads, Collections, Inside, Ended, CommandStates, ReaderStates
<1>1. OneProgram' /\ FileSurvives'
  BY DEF OneProgram, FileSurvives
<1>2. TypeOK'
  BY SMT DEF TypeOK
<1>3. ClosedIsEmpty'
  BY SMT DEF TypeOK, ClosedIsEmpty, BusyIsOpen
<1>4. BusyIsOpen'
  BY SMT DEF BusyIsOpen
<1>5. WriterOwnsFile'
  BY SMT DEF WriterOwnsFile
<1>6. StoredSurvives'
  BY SMT DEF StoredSurvives, Stored
<1>7. OnlyRenamedIsStored'
  BY SMT DEF OnlyRenamedIsStored
<1>8. CopyIsCurrent'
  BY SMT DEF CopyIsCurrent
<1> QED  BY <1>1, <1>2, <1>3, <1>4, <1>5, <1>6, <1>7, <1>8

LEMMA ReadFileKeeps ==
  ASSUME NEW g \in Readers, IInv, ReadFile(g)
  PROVE  IInv'
<1> USE ThreadsAssumption, NoneAssumption, FreeAssumption DEF IInv, ReadFile, folder, Goto,
      Remember, Loaded, Release, Threads, Collections, Inside, Ended, CommandStates,
      ReaderStates
<1>1. OneProgram' /\ FileSurvives'
  BY DEF OneProgram, FileSurvives
<1>2. TypeOK'
  BY SMT DEF TypeOK
<1>3. ClosedIsEmpty'
  BY SMT DEF TypeOK, ClosedIsEmpty
<1>4. BusyIsOpen'
  BY SMT DEF BusyIsOpen
<1>5. WriterOwnsFile'
  BY SMT DEF TypeOK, WriterOwnsFile
<1>6. StoredSurvives'
  BY SMT DEF TypeOK, StoredSurvives, FileSurvives, Stored
<1>7. OnlyRenamedIsStored'
  BY SMT DEF OnlyRenamedIsStored
<1>8. CopyIsCurrent'
  BY SMT DEF CopyIsCurrent
<1> QED  BY <1>1, <1>2, <1>3, <1>4, <1>5, <1>6, <1>7, <1>8

LEMMA ReadFileFailsKeeps ==
  ASSUME NEW g \in Readers, IInv, ReadFileFails(g)
  PROVE  IInv'
<1> USE ThreadsAssumption, NoneAssumption, FreeAssumption DEF IInv, ReadFileFails, folder,
      Goto, Release, Threads, Collections, Inside, Ended, CommandStates, ReaderStates
<1>1. OneProgram' /\ FileSurvives'
  BY DEF OneProgram, FileSurvives
<1>2. TypeOK'
  BY SMT DEF TypeOK
<1>3. ClosedIsEmpty'
  BY SMT DEF ClosedIsEmpty
<1>4. BusyIsOpen'
  BY SMT DEF BusyIsOpen
<1>5. WriterOwnsFile'
  BY SMT DEF WriterOwnsFile
<1>6. StoredSurvives'
  BY SMT DEF StoredSurvives, Stored
<1>7. OnlyRenamedIsStored'
  BY SMT DEF OnlyRenamedIsStored
<1>8. CopyIsCurrent'
  BY SMT DEF CopyIsCurrent
<1> QED  BY <1>1, <1>2, <1>3, <1>4, <1>5, <1>6, <1>7, <1>8

LEMMA SendKeeps ==
  ASSUME NEW c \in Commands, NEW p \in Programs, NEW b \in Collections, IInv, Send(c, p, b)
  PROVE  IInv'
<1> USE ThreadsAssumption, NoneAssumption, FreeAssumption DEF IInv, Send, folder, Goto,
      Waiting, Threads, Collections, Inside, Ended, CommandStates, ReaderStates
<1>1. OneProgram' /\ ClosedIsEmpty' /\ FileSurvives'
  BY DEF OneProgram, ClosedIsEmpty, FileSurvives
<1>2. TypeOK'
  BY SMT DEF TypeOK
<1>3. BusyIsOpen'
  BY SMT DEF TypeOK, BusyIsOpen
<1>4. WriterOwnsFile'
  BY SMT DEF WriterOwnsFile
<1>5. StoredSurvives'
  BY SMT DEF StoredSurvives, Stored
<1>6. OnlyRenamedIsStored'
  BY SMT DEF OnlyRenamedIsStored
<1>7. CopyIsCurrent'
  BY SMT DEF CopyIsCurrent
<1> QED  BY <1>1, <1>2, <1>3, <1>4, <1>5, <1>6, <1>7

LEMMA CheckKeeps ==
  ASSUME NEW c \in Commands, IInv, Check(c)
  PROVE  IInv'
<1> USE ThreadsAssumption, NoneAssumption, FreeAssumption DEF IInv, Check, folder, Goto,
      Remember, Loaded, Release, RevisionMatches, Threads, Collections, Inside, Ended,
      CommandStates, ReaderStates
<1>1. OneProgram' /\ FileSurvives'
  BY DEF OneProgram, FileSurvives
<1>2. TypeOK'
  BY SMT DEF TypeOK
<1>3. ClosedIsEmpty'
  BY SMT DEF TypeOK, ClosedIsEmpty
<1>4. BusyIsOpen'
  BY SMT DEF TypeOK, BusyIsOpen
<1>5. WriterOwnsFile'
  BY SMT DEF TypeOK, OneProgram, ClosedIsEmpty, WriterOwnsFile, StoredSurvives, BusyIsOpen,
         CopyIsCurrent, FileSurvives, OnlyRenamedIsStored, Stored
<1>6. StoredSurvives'
  BY SMT DEF TypeOK, StoredSurvives, FileSurvives, Stored
<1>7. OnlyRenamedIsStored'
  BY SMT DEF TypeOK, OnlyRenamedIsStored
<1>8. CopyIsCurrent'
  BY SMT DEF TypeOK, CopyIsCurrent
<1> QED  BY <1>1, <1>2, <1>3, <1>4, <1>5, <1>6, <1>7, <1>8

LEMMA LoadFailsKeeps ==
  ASSUME NEW c \in Commands, IInv, LoadFails(c)
  PROVE  IInv'
<1> USE ThreadsAssumption, NoneAssumption, FreeAssumption DEF IInv, LoadFails, folder, Goto,
      Release, Threads, Collections, Inside, Ended, CommandStates, ReaderStates
<1>1. OneProgram' /\ FileSurvives'
  BY DEF OneProgram, FileSurvives
<1>2. TypeOK'
  BY SMT DEF TypeOK
<1>3. ClosedIsEmpty'
  BY SMT DEF ClosedIsEmpty
<1>4. BusyIsOpen'
  BY SMT DEF BusyIsOpen
<1>5. WriterOwnsFile'
  BY SMT DEF WriterOwnsFile
<1>6. StoredSurvives'
  BY SMT DEF StoredSurvives, Stored
<1>7. OnlyRenamedIsStored'
  BY SMT DEF OnlyRenamedIsStored
<1>8. CopyIsCurrent'
  BY SMT DEF CopyIsCurrent
<1> QED  BY <1>1, <1>2, <1>3, <1>4, <1>5, <1>6, <1>7, <1>8

LEMMA GiveUpKeeps ==
  ASSUME NEW c \in Commands, IInv, GiveUp(c), pc[c] \in {"staging", "renamed"}
  PROVE  IInv'
<1> USE ThreadsAssumption, NoneAssumption, FreeAssumption DEF IInv, GiveUp, folder, Goto,
      Release, ForgetCurrent, Remember, Threads, Collections, Inside, Ended, CommandStates,
      ReaderStates
<1>1. OneProgram' /\ FileSurvives'
  BY DEF OneProgram, FileSurvives
<1>2. TypeOK'
  BY SMT DEF TypeOK
<1>3. ClosedIsEmpty'
  BY SMT DEF ClosedIsEmpty
<1>4. BusyIsOpen'
  BY SMT DEF BusyIsOpen
<1>5. WriterOwnsFile'
  BY SMT DEF TypeOK, WriterOwnsFile
<1>6. StoredSurvives'
  BY SMT DEF StoredSurvives, Stored
<1>7. OnlyRenamedIsStored'
  BY SMT DEF OnlyRenamedIsStored
<1>8. CopyIsCurrent'
  BY SMT DEF TypeOK, CopyIsCurrent, OneProgram, ClosedIsEmpty
<1> QED  BY <1>1, <1>2, <1>3, <1>4, <1>5, <1>6, <1>7, <1>8

LEMMA RenameKeeps ==
  ASSUME NEW c \in Commands, IInv, Rename(c)
  PROVE  IInv'
<1> USE ThreadsAssumption, NoneAssumption, FreeAssumption DEF IInv, Rename, folder, Goto,
      Loaded, Threads, Collections, Inside, Ended, CommandStates, ReaderStates
<1>1. OneProgram' /\ ClosedIsEmpty'
  BY DEF OneProgram, ClosedIsEmpty
<1>2. TypeOK'
  BY SMT DEF TypeOK
<1>3. BusyIsOpen'
  BY SMT DEF BusyIsOpen
<1>4. WriterOwnsFile'
  BY SMT DEF TypeOK, WriterOwnsFile, OneProgram, ClosedIsEmpty
<1>5. FileSurvives'
  BY SMT DEF TypeOK, FileSurvives, WriterOwnsFile, OneProgram
<1>6. StoredSurvives'
  BY SMT DEF TypeOK, StoredSurvives, OneProgram, WriterOwnsFile, ClosedIsEmpty, Stored
<1>7. OnlyRenamedIsStored'
  BY SMT DEF TypeOK, OnlyRenamedIsStored, OneProgram, WriterOwnsFile, FileSurvives
<1>8. CopyIsCurrent'
  BY SMT DEF TypeOK, CopyIsCurrent
<1> QED  BY <1>1, <1>2, <1>3, <1>4, <1>5, <1>6, <1>7, <1>8

LEMMA FinishKeeps ==
  ASSUME NEW c \in Commands, IInv, Finish(c)
  PROVE  IInv'
<1> USE ThreadsAssumption, NoneAssumption, FreeAssumption DEF IInv, Finish, folder, Goto,
      Remember, Release, SyncDir, Threads, Collections, Inside, Ended, CommandStates,
      ReaderStates
<1>1. OneProgram'
  BY DEF OneProgram
<1>2. TypeOK'
  BY SMT DEF TypeOK
<1>3. ClosedIsEmpty'
  BY SMT DEF TypeOK, ClosedIsEmpty
<1>4. BusyIsOpen'
  BY SMT DEF BusyIsOpen
<1>5. WriterOwnsFile'
  BY SMT DEF TypeOK, WriterOwnsFile
<1>6. FileSurvives'
  BY SMT DEF FileSurvives
<1>7. StoredSurvives'
  BY SMT DEF TypeOK, StoredSurvives, OneProgram, WriterOwnsFile, ClosedIsEmpty, Stored
<1>8. OnlyRenamedIsStored'
  BY SMT DEF TypeOK, OnlyRenamedIsStored, FileSurvives
<1>9. CopyIsCurrent'
  BY SMT DEF TypeOK, CopyIsCurrent, OneProgram, ClosedIsEmpty
<1> QED  BY <1>1, <1>2, <1>3, <1>4, <1>5, <1>6, <1>7, <1>8, <1>9

LEMMA AnswerKeeps ==
  ASSUME NEW c \in Commands, IInv, Answer(c)
  PROVE  IInv'
<1> USE ThreadsAssumption, NoneAssumption, FreeAssumption DEF IInv, Answer, folder, Goto,
      Threads, Collections, Inside, Ended, CommandStates, ReaderStates
<1>1. OneProgram' /\ ClosedIsEmpty' /\ FileSurvives'
  BY DEF OneProgram, ClosedIsEmpty, FileSurvives
<1>2. TypeOK'
  BY SMT DEF TypeOK
<1>3. BusyIsOpen'
  BY SMT DEF BusyIsOpen
<1>4. WriterOwnsFile'
  BY SMT DEF WriterOwnsFile
<1>5. StoredSurvives'
  BY SMT DEF StoredSurvives, Stored
<1>6. OnlyRenamedIsStored'
  BY SMT DEF OnlyRenamedIsStored
<1>7. CopyIsCurrent'
  BY SMT DEF CopyIsCurrent
<1> QED  BY <1>1, <1>2, <1>3, <1>4, <1>5, <1>6, <1>7

-----------------------------------------------------------------------------
LEMMA InitHolds == Init => IInv
<1> SUFFICES ASSUME Init PROVE IInv
  OBVIOUS
<1> USE ThreadsAssumption, NoneAssumption, FreeAssumption
    DEF Init, Threads, Collections, Inside, Ended, CommandStates, ReaderStates
<1>1. TypeOK
  BY DEF TypeOK
<1>2. OneProgram /\ ClosedIsEmpty /\ BusyIsOpen
  BY DEF OneProgram, ClosedIsEmpty, BusyIsOpen
<1>3. WriterOwnsFile /\ FileSurvives /\ StoredSurvives /\ OnlyRenamedIsStored
  BY DEF WriterOwnsFile, FileSurvives, StoredSurvives, Stored, OnlyRenamedIsStored
<1>4. CopyIsCurrent
  BY DEF CopyIsCurrent
<1> QED  BY <1>1, <1>2, <1>3, <1>4 DEF IInv

LEMMA NextKeeps == IInv /\ [Next]_vars => IInv'
<1> SUFFICES ASSUME IInv, [Next]_vars PROVE IInv'
  OBVIOUS
<1>1. ASSUME NEW p \in Programs, Open(p) \/ Kill(p) PROVE IInv'
  BY <1>1, OpenKeeps, KillKeeps
<1>2. CASE PowerLoss
  BY <1>2, PowerLossKeeps
<1>3. ASSUME NEW g \in Readers, NEW p \in Programs, Get(g, p) PROVE IInv'
  BY <1>3, GetKeeps
<1>4. ASSUME NEW g \in Readers, ReaderStep(g) PROVE IInv'
  <2> g \in Threads
    BY DEF Threads
  <2> QED
    BY <1>4, ReadCurrentKeeps, FindNoCurrentKeeps, AcquireKeeps, ReadFileKeeps,
       ReadFileFailsKeeps DEF ReaderStep
<1>5. ASSUME NEW c \in Commands, NEW p \in Programs, NEW b \in Collections, Send(c, p, b)
      PROVE  IInv'
  BY <1>5, SendKeeps
<1>6. ASSUME NEW c \in Commands, CommandStep(c) PROVE IInv'
  <2>1. CASE Acquire(c)
    BY <2>1, AcquireKeeps DEF Threads
  <2>2. CASE StageFails(c) \/ SyncFails(c)
    BY <2>2, GiveUpKeeps DEF StageFails, SyncFails
  <2> QED
    BY <1>6, <2>1, <2>2, CheckKeeps, LoadFailsKeeps, RenameKeeps, FinishKeeps, AnswerKeeps
    DEF CommandStep
<1>7. CASE UNCHANGED vars
  BY <1>7 DEF vars, IInv, TypeOK, OneProgram, ClosedIsEmpty, BusyIsOpen, WriterOwnsFile,
     FileSurvives, StoredSurvives, Stored, OnlyRenamedIsStored, CopyIsCurrent, Threads
<1> QED  BY <1>1, <1>2, <1>3, <1>4, <1>5, <1>6, <1>7 DEF Next

\* Every reachable state of the store satisfies the inductive invariant.
THEOREM Inductive == Spec => []IInv
  BY InitHolds, NextKeeps, PTL DEF Spec

-----------------------------------------------------------------------------
(* What follows from it.                                                   *)

\* Types, and that a thread is on the locked stretch exactly while its
\* program's mutex names it, whatever stops or fails.
THEOREM TypeCorrect == Spec => []TypeOK
  BY Inductive, PTL DEF IInv

\* The copy that load serves without the mutex is the file's whenever no
\* rename is waiting for its sync.
THEOREM ReadersAreCurrent == Spec => []CopyIsCurrent
  BY Inductive, PTL DEF IInv

\* What a client was told is saved survives every crash; what it was told is
\* not saved is in no file.
THEOREM AnswersAreKept == Spec => []AnswersHold
<1>1. IInv => AnswersHold
  BY DEF IInv, AnswersHold, Acknowledged, Rejected, Stored, StoredSurvives,
     OnlyRenamedIsStored, FileSurvives, TypeOK, Collections
<1> QED  BY <1>1, Inductive, PTL

-----------------------------------------------------------------------------
(* The store implements AtomicStore.                                       *)

LEMMA ValueOfOpen ==
  ASSUME IInv, NEW p \in open
  PROVE  Value = IF current[p] # None THEN current[p] ELSE file
<1>1. \A q \in open : q = p
  BY DEF IInv, OneProgram
<1> QED  BY <1>1 DEF Value

LEMMA ValueOfClosed ==
  ASSUME open = {}
  PROVE  Value = file
  BY DEF Value

\* A thread's step to another state moves its own outcome only.
LEMMA OutcomeOfReader ==
  ASSUME IInv, NEW g \in Readers, NEW s, Goto(g, s)
  PROVE  Outcome' = Outcome
  BY ThreadsAssumption DEF IInv, TypeOK, Goto, Outcome, Threads

LEMMA OutcomeOfCommand ==
  ASSUME IInv, NEW c \in Commands, NEW s, Goto(c, s)
  PROVE  Outcome' = [Outcome EXCEPT ![c] = OutcomeOf(s)]
<1>1. \A d \in Commands : pc'[d] = IF d = c THEN s ELSE pc[d]
  BY DEF IInv, TypeOK, Goto, Threads
<1> QED  BY <1>1 DEF Outcome

LEMMA AcquireStutters ==
  ASSUME IInv, NEW c \in Commands, Acquire(c)
  PROVE  UNCHANGED <<Value, shown, base, Outcome>>
<1>1. Outcome' = [Outcome EXCEPT ![c] = "sent"] /\ Outcome[c] = "sent"
  BY OutcomeOfCommand DEF Acquire, Waiting, Outcome, OutcomeOf, Ended
<1>2. Outcome' = Outcome
  BY <1>1 DEF Outcome
<1> QED  BY <1>2 DEF Acquire, folder, Value

LEMMA ReaderImplements ==
  ASSUME IInv, NEW g \in Readers,
         ReaderStep(g) \/ \E p \in Programs : Get(g, p)
  PROVE  [Abstract!Next]_(Abstract!vars)
<1> USE DEF Abstract!vars
<1>1. CASE \E p \in Programs : Get(g, p)
  <2>1. Outcome' = Outcome
    BY <1>1, OutcomeOfReader DEF Get
  <2> QED  BY <1>1, <2>1 DEF Get, folder, Value
<1>2. CASE ReadCurrent(g)
  <2>1. prog[g] \in open
    BY <1>2 DEF ReadCurrent, IInv, BusyIsOpen, Ended, Threads
  <2>2. Value = current[prog[g]] /\ Value' = Value
    BY <1>2, <2>1, ValueOfOpen DEF ReadCurrent, folder, Value
  <2>3. Outcome' = Outcome
    BY <1>2, OutcomeOfReader DEF ReadCurrent
  <2> QED  BY <1>2, <2>2, <2>3 DEF ReadCurrent, Abstract!Next, Abstract!Show
<1>3. CASE FindNoCurrent(g) \/ Acquire(g) \/ ReadFileFails(g)
  <2>1. Outcome' = Outcome
    BY <1>3, OutcomeOfReader DEF FindNoCurrent, Acquire, ReadFileFails
  <2> QED  BY <1>3, <2>1 DEF FindNoCurrent, Acquire, ReadFileFails, folder, Value
<1>4. CASE ReadFile(g)
  <2>1. prog[g] \in open /\ prog[g] \in Programs
    BY <1>4 DEF ReadFile, IInv, BusyIsOpen, TypeOK, Ended, Threads
  <2>2. Value = Loaded(g)
    BY <2>1, ValueOfOpen DEF Loaded
  <2>3. Value' = Loaded(g)
    <3>1. open' = open /\ \A p \in open : p = prog[g]
      BY <1>4, <2>1 DEF ReadFile, IInv, OneProgram
    <3>2. current'[prog[g]] = Loaded(g) /\ file' = file
      BY <1>4, <2>1 DEF ReadFile, Remember, IInv, TypeOK, folder
    <3> QED  BY <2>1, <3>1, <3>2 DEF Value, Loaded
  <2>4. Outcome' = Outcome
    BY <1>4, OutcomeOfReader DEF ReadFile
  <2> QED  BY <1>4, <2>2, <2>3, <2>4 DEF ReadFile, Abstract!Next, Abstract!Show
<1> QED  BY <1>1, <1>2, <1>3, <1>4 DEF ReaderStep

LEMMA CommandImplements ==
  ASSUME IInv, NEW c \in Commands,
         CommandStep(c) \/ \E p \in Programs, b \in Collections : Send(c, p, b)
  PROVE  [Abstract!Next]_(Abstract!vars)
<1> DEFINE p == prog[c]
<1> USE DEF Abstract!vars
<1>1. CASE \E q \in Programs, b \in Collections : Send(c, q, b)
  <2>1. PICK q \in Programs, b \in Collections : Send(c, q, b)
    BY <1>1
  <2>2. Outcome' = [Outcome EXCEPT ![c] = "sent"]
    BY <2>1, OutcomeOfCommand DEF Send, Waiting, OutcomeOf, Ended
  <2>3. Outcome[c] = "unsent"
    BY <2>1 DEF Send, Outcome, OutcomeOf, Ended
  <2>4. Abstract!Send(c, b)
    BY <2>1, <2>2, <2>3 DEF Send, folder, Value, Abstract!Send
  <2> QED  BY <2>4 DEF Abstract!Next, Collections
<1>2. CASE Acquire(c)
  BY <1>2, AcquireStutters
<1>3. CASE pc[c] \in Inside \cup {"written"}
  \* Inside its program, a command is "sent" and the value is that program's.
  <2>1. p \in open /\ p \in Programs /\ \A q \in open : q = p
    BY <1>3 DEF IInv, BusyIsOpen, OneProgram, TypeOK, Ended, Threads, Inside
  <2>2. Value = Loaded(c)
    BY <2>1, ValueOfOpen DEF Loaded
  <2>3. ASSUME open' = open
        PROVE  Value' = IF current'[p] # None THEN current'[p] ELSE file'
    BY <2>1, <2>3 DEF Value
  <2>4. Outcome[c] = IF pc[c] = "written" THEN "applied" ELSE "sent"
    BY <1>3 DEF Outcome, OutcomeOf, Inside, Ended
  <2>5. CASE Check(c)
    <3>1. Value' = Value
      BY <2>1, <2>2, <2>3, <2>5 DEF Check, Remember, Loaded, folder, IInv, TypeOK
    <3>2. CASE Goto(c, "staging")
      <4>1. Outcome' = [Outcome EXCEPT ![c] = "sent"]
        BY <3>2, OutcomeOfCommand DEF OutcomeOf, Ended
      <4>2. Outcome' = Outcome
        BY <2>4, <2>5, <4>1 DEF Check, Outcome
      <4> QED  BY <2>5, <3>1, <4>2 DEF Check
    <3>3. CASE Goto(c, "conflict") /\ ~RevisionMatches(c)
      <4>1. Outcome' = [Outcome EXCEPT ![c] = "conflict"]
        BY <3>3, OutcomeOfCommand DEF OutcomeOf, Ended
      <4> QED
        BY <2>2, <2>4, <2>5, <3>1, <3>3, <4>1
        DEF Check, RevisionMatches, Abstract!Next, Abstract!Reject
    <3>4. CASE Goto(c, "refused") /\ RevisionMatches(c)
      <4>1. Outcome' = [Outcome EXCEPT ![c] = "refused"]
        BY <3>4, OutcomeOfCommand DEF OutcomeOf, Ended
      <4> QED
        BY <2>2, <2>4, <2>5, <3>1, <3>4, <4>1
        DEF Check, RevisionMatches, Abstract!Next, Abstract!Reject
    <3> QED  BY <2>5, <3>2, <3>3, <3>4 DEF Check
  <2>6. CASE LoadFails(c) \/ StageFails(c)
    <3>1. Value' = Value
      BY <2>1, <2>2, <2>3, <2>6 DEF LoadFails, StageFails, GiveUp, ForgetCurrent, Remember,
         Loaded, folder, IInv, TypeOK, WriterOwnsFile
    <3>2. Outcome' = [Outcome EXCEPT ![c] = "failed"]
      BY <2>6, OutcomeOfCommand DEF LoadFails, StageFails, GiveUp, OutcomeOf, Ended
    <3>3. shown' = shown /\ base' = base /\ Outcome[c] = "sent"
      BY <2>4, <2>6 DEF LoadFails, StageFails, GiveUp
    <3> QED  BY <3>1, <3>2, <3>3 DEF Abstract!Next, Abstract!Fail
  <2>7. CASE Rename(c)
    <3>1. current[p] = base[c] /\ base[c] # None
      BY <2>7, NoneAssumption DEF Rename, IInv, TypeOK, WriterOwnsFile
    <3>2. Value' = Value
      BY <2>1, <2>2, <2>3, <2>7, <3>1 DEF Rename, Loaded
    <3>3. Outcome' = [Outcome EXCEPT ![c] = "sent"]
      BY <2>7, OutcomeOfCommand DEF Rename, OutcomeOf, Ended
    <3>4. Outcome' = Outcome
      BY <2>4, <2>7, <3>3 DEF Rename, Outcome
    <3> QED  BY <2>7, <3>2, <3>4 DEF Rename
  <2>8. CASE SyncFails(c) \/ Finish(c)
    <3>1. current[p] = base[c] /\ base[c] # None /\ file = base[c] \cup {c} /\ file # None
      BY <2>8, NoneAssumption DEF SyncFails, Finish, IInv, TypeOK, WriterOwnsFile
    <3>2. Value = base[c]
      BY <2>2, <3>1 DEF Loaded
    <3>3. Value' = file
      BY <2>1, <2>3, <2>8, <3>1 DEF SyncFails, Finish, GiveUp, ForgetCurrent, Remember,
         folder, IInv, TypeOK
    <3>4. \E s \in {"applied", "failed"} : Outcome' = [Outcome EXCEPT ![c] = s]
      BY <2>8, OutcomeOfCommand DEF SyncFails, Finish, GiveUp, OutcomeOf, Ended
    <3>5. shown' = shown /\ base' = base /\ Outcome[c] = "sent"
      BY <2>4, <2>8 DEF SyncFails, Finish, GiveUp
    <3> QED  BY <3>1, <3>2, <3>3, <3>4, <3>5 DEF Abstract!Next, Abstract!Apply
  <2>9. CASE Answer(c)
    <3>1. Value' = Value
      BY <2>9 DEF Answer, folder, Value
    <3>2. Outcome' = [Outcome EXCEPT ![c] = "ok"]
      BY <2>9, OutcomeOfCommand DEF Answer, OutcomeOf, Ended
    <3> QED  BY <2>4, <2>9, <3>1, <3>2 DEF Answer, Abstract!Next, Abstract!Acknowledge
  <2>10. CASE Acquire(c)
    BY <2>10, AcquireStutters
  <2> QED
    BY <1>1, <2>5, <2>6, <2>7, <2>8, <2>9, <2>10 DEF CommandStep
<1> QED
  BY <1>1, <1>2, <1>3 DEF CommandStep, Inside, Check, LoadFails, StageFails, Rename,
     SyncFails, Finish, Answer

\* Opening, stopping and losing power.
LEMMA CrashImplements ==
  ASSUME IInv, IInv', PowerLoss \/ \E p \in Programs : Open(p) \/ Kill(p)
  PROVE  [Abstract!Next]_(Abstract!vars)
<1> USE DEF Abstract!vars
<1>1. CASE \E p \in Programs : Open(p)
  <2>1. PICK p \in Programs : Open(p)
    BY <1>1
  <2>2. Value = file
    BY <2>1, ValueOfClosed DEF Open, Claim
  <2>3. Value' = file
    BY <2>1 DEF Open, Claim, Value, folder, IInv, ClosedIsEmpty
  <2>4. Outcome' = Outcome
    BY <2>1 DEF Open, Outcome
  <2> QED  BY <2>1, <2>2, <2>3, <2>4 DEF Open
<1>2. CASE PowerLoss \/ \E p \in Programs : Kill(p)
  <2>1. open' = {} /\ file' \in survivors /\ file' \subseteq file /\ shown' = shown /\ base' = base
    BY <1>2 DEF PowerLoss, Kill, folder, IInv, FileSurvives, OneProgram
  <2>2. Value' = file'
    BY <2>1 DEF Value
  <2>3. \A c \in Commands :
          pc'[c] = IF pc[c] \in Ended \cup {"unsent"} THEN pc[c] ELSE "failed"
    BY <1>2 DEF PowerLoss, Kill, CutShort, IInv, TypeOK, OneProgram, BusyIsOpen, Threads
  <2>4. Outcome' = [c \in Commands |->
          IF Outcome[c] \in {"sent", "applied"} THEN "failed" ELSE Outcome[c]]
    BY <2>3 DEF Outcome, OutcomeOf, Ended
  <2>5. Abstract!InState("ok") \subseteq Value'
    BY <2>1, <2>2 DEF Abstract!InState, Outcome, OutcomeOf, Ended, IInv, StoredSurvives, Stored
  <2>6. \/ file \subseteq Value
        \/ \E c \in Abstract!InState("sent") : base[c] = Value /\ file = Value \cup {c}
    <3>1. CASE \E c \in Commands : pc[c] = "renamed"
      <4>1. PICK c \in Commands : pc[c] = "renamed"
        BY <3>1
      <4>2. prog[c] \in open /\ current[prog[c]] = base[c] /\ base[c] # None
        BY <4>1, NoneAssumption DEF IInv, BusyIsOpen, WriterOwnsFile, TypeOK, Ended, Threads
      <4>3. Value = base[c] /\ file = Value \cup {c}
        BY <4>1, <4>2, ValueOfOpen DEF IInv, WriterOwnsFile
      <4>4. c \in Abstract!InState("sent")
        BY <4>1 DEF Abstract!InState, Outcome, OutcomeOf, Ended
      <4> QED  BY <4>3, <4>4
    <3>2. CASE \A c \in Commands : pc[c] # "renamed"
      BY <3>2, ValueOfOpen, ValueOfClosed DEF IInv, CopyIsCurrent
    <3> QED  BY <3>1, <3>2
  <2>7. Abstract!Crash
    BY <2>1, <2>2, <2>4, <2>5, <2>6 DEF Abstract!Crash
  <2> QED  BY <2>7 DEF Abstract!Next
<1> QED  BY <1>1, <1>2

\* The mutex, the shared copy, the staged file, the folder sync and the claim
\* together make the store one value that a command changes in one step, from
\* exactly the value its revision names.
THEOREM StoreIsAtomic == Spec => ImplementsAtomicStore
<1>1. Init => Abstract!Init
  BY DEF Init, Abstract!Init, Outcome, OutcomeOf, Ended, Value, Threads
<1>2. IInv /\ IInv' /\ [Next]_vars => [Abstract!Next]_(Abstract!vars)
  <2> SUFFICES ASSUME IInv, IInv', [Next]_vars PROVE [Abstract!Next]_(Abstract!vars)
    OBVIOUS
  <2>1. CASE UNCHANGED vars
    BY <2>1 DEF vars, Abstract!vars, Value, Outcome
  <2> QED  BY <2>1, ReaderImplements, CommandImplements, CrashImplements DEF Next
<1> QED  BY <1>1, <1>2, Inductive, PTL DEF Spec, ImplementsAtomicStore, Abstract!Spec

=============================================================================
