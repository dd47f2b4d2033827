---------------------------- MODULE RestoreProofs ----------------------------
(***************************************************************************)
(* Proofs about Restore, for every number of requests, photos, settings    *)
(* and clock readings, and every choice of faults.  The invariant says of  *)
(* each step of a restore where the photos of the collection are meanwhile *)
(* and that from the revision check to the write the collection is the one *)
(* the client had loaded, of which there is a backup.  That the photos are *)
(* somewhere, also after a write that failed, is the one thing that needs  *)
(* the directory to be synced once the collection was renamed into place   *)
(* (Synced).                                                               *)
(***************************************************************************)
EXTENDS Restore, FiniteSetTheorems, TLAPS

\* Writing the collection never fails once it was renamed into place.
Synced == "sync" \notin Faults

\* Where r's restore has put things.
Holding(r) ==
  /\ pc[r] \in {"idle", "asked", "saved"} => old[r] = None
  /\ pc[r] # "idle" => zip[r] \in Collection
  /\ pc[r] \in {"saved", "moved", "swapped"} =>
       /\ base[r] = file
       /\ file # None => \E b \in autos : b.holds = file
  /\ pc[r] = "saved" => Stored.photos \subseteq InImages
  /\ pc[r] \in {"moved", "swapped", "failed", "written"} => old[r] \in SUBSET Photos
  /\ pc[r] \in {"moved", "swapped"} \/ (Synced /\ pc[r] = "failed") =>
       Stored.photos \subseteq old[r]
  /\ pc[r] = "swapped" => images = zip[r].photos
  /\ pc[r] = "written" =>
       /\ file = zip[r]
       /\ images = zip[r].photos

IInv ==
  /\ TypeOK
  /\ IsFiniteSet(autos)
  /\ Synced => PhotosAreSomewhere
  /\ \A r \in Requests : Holding(r)

\* The photos of a collection that can be backed up are all in images/.
LEMMA BackedUpPhotosAreThere ==
  ASSUME TypeOK, CanBackUp
  PROVE  Stored.photos \subseteq InImages
BY DEF CanBackUp, InImages

LEMMA StoredIsACollection ==
  ASSUME TypeOK
  PROVE  Stored \in Collection
BY SettingsAssumption DEF TypeOK, Stored, Collection

LEMMA NoFileNoPhotos ==
  ASSUME file = None
  PROVE  Stored.photos = {}
BY DEF Stored

\* Writing auto-<now>.zip leaves one file per time.
LEMMA OneBackupPerTime ==
  ASSUME TypeOK, IsFiniteSet(autos), NEW gone
  PROVE  /\ WithBackup \ gone \subseteq Backup
         /\ \A b, c \in WithBackup \ gone : b.at = c.at => b = c
         /\ IsFiniteSet(WithBackup \ gone)
<1>1. [at |-> now, holds |-> Stored] \in Backup
  BY StoredIsACollection DEF TypeOK, Backup
<1>2. WithBackup \subseteq Backup
  BY <1>1 DEF WithBackup, TypeOK
<1>3. \A b, c \in WithBackup : b.at = c.at => b = c
  BY DEF WithBackup, TypeOK
<1>4. IsFiniteSet(WithBackup \ gone)
  <2>1. IsFiniteSet({b \in autos : b.at # now})
    BY FS_Subset
  <2>2. IsFiniteSet(WithBackup)
    BY <2>1, FS_AddElement DEF WithBackup
  <2>3. QED
    BY <2>2, FS_Difference
<1>5. QED
  BY <1>2, <1>3, <1>4

-----------------------------------------------------------------------------
\* A step of r outside the mutex's reach of the others leaves their places alone.
LEMMA OthersAreOutside ==
  ASSUME TypeOK, NEW r \in Requests, pc[r] \in Inside, NEW q \in Requests, q # r
  PROVE  pc[q] \in {"idle", "asked"}
BY DEF TypeOK, Inside

\* While nobody holds the mutex, the photos are in images/ or were stranded.
LEMMA BetweenRestores ==
  ASSUME IInv, MutexFree
  PROVE  /\ Synced => Stored.photos \subseteq InImages \cup stranded
         /\ \A r \in Requests : pc[r] \in {"idle", "asked"} /\ old[r] = None
<1>1. \A r \in Requests : pc[r] \in {"idle", "asked"}
  BY DEF IInv, TypeOK, MutexFree
<1>2. \A r \in Requests : old[r] = None
  BY <1>1 DEF IInv, Holding
<1>3. QED
  BY <1>1, <1>2 DEF IInv, PhotosAreSomewhere

\* A change between restores leaves the collection's photos in reach.
LEMMA ChangeInBetween ==
  ASSUME IInv, MutexFree,
         file' \in Collection, images' \in {None} \cup SUBSET Photos,
         Synced => file'.photos \subseteq InImages' \cup stranded,
         UNCHANGED <<stranded, autos, now, requests>>
  PROVE  IInv'
<1>1. Stored' = file'
  BY NoneAssumption DEF Stored
<1>2. TypeOK'
  BY DEF IInv, TypeOK, requests
<1>3. (Synced => PhotosAreSomewhere)'
  BY <1>1 DEF PhotosAreSomewhere, Synced
<1>4. \A r \in Requests : Holding(r)'
  BY BetweenRestores DEF Holding, requests, IInv
<1>5. QED
  BY <1>2, <1>3, <1>4 DEF IInv

\* What other requests do between restores.
LEMMA OtherSteps ==
  ASSUME IInv,
         \/ \E p \in Photos : AddPhoto(p) \/ RemovePhoto(p)
         \/ \E s \in Settings : UpdateSettings(s)
         \/ ScheduledBackup \/ Tick
  PROVE  IInv'
<1> USE StoredIsACollection
<1>1. ASSUME NEW p \in Photos, AddPhoto(p)
      PROVE  IInv'
  <2>1. /\ file' \in Collection
        /\ file'.photos = Stored.photos \cup {p}
        /\ images' = images \cup {p}
        /\ images' \in SUBSET Photos
    BY <1>1 DEF AddPhoto, IInv, TypeOK, Collection
  <2>2. Synced => file'.photos \subseteq InImages' \cup stranded
    BY <1>1, <2>1, BetweenRestores, NoneAssumption DEF AddPhoto, InImages
  <2>3. QED
    BY <1>1, <2>1, <2>2, ChangeInBetween DEF AddPhoto
<1>2. ASSUME NEW p \in Photos, RemovePhoto(p)
      PROVE  IInv'
  <2>1. /\ file' \in Collection
        /\ file'.photos = Stored.photos \ {p}
        /\ images' = IF images = None THEN None ELSE images \ {p}
        /\ images' \in {None} \cup SUBSET Photos
    BY <1>2 DEF RemovePhoto, IInv, TypeOK, Collection
  <2>2. Synced => file'.photos \subseteq InImages' \cup stranded
    <3>1. InImages' = InImages \ {p}
      BY <2>1, NoneAssumption DEF InImages, IInv, TypeOK
    <3>2. QED
      BY <1>2, <2>1, <3>1, BetweenRestores DEF RemovePhoto
  <2>3. QED
    BY <1>2, <2>1, <2>2, ChangeInBetween DEF RemovePhoto
<1>3. ASSUME NEW s \in Settings, UpdateSettings(s)
      PROVE  IInv'
  <2>1. file' \in Collection /\ file'.photos = Stored.photos
    BY <1>3 DEF UpdateSettings, IInv, Collection
  <2>2. Synced => file'.photos \subseteq InImages' \cup stranded
    BY <1>3, <2>1, BetweenRestores DEF UpdateSettings, InImages
  <2>3. QED
    BY <1>3, <2>1, <2>2, ChangeInBetween DEF UpdateSettings, IInv, TypeOK
<1>4. ASSUME ScheduledBackup
      PROVE  IInv'
  <2>1. PICK gone \in SUBSET Excess(WithBackup, file.settings.keep) :
          autos' = WithBackup \ gone
    BY <1>4 DEF ScheduledBackup
  <2>2. TypeOK' /\ IsFiniteSet(autos')
    BY <1>4, <2>1, OneBackupPerTime DEF ScheduledBackup, IInv, TypeOK, requests
  <2>3. (Synced => PhotosAreSomewhere)'
    BY <1>4 DEF ScheduledBackup, IInv, PhotosAreSomewhere, Stored, InImages, requests, Synced
  <2>4. \A r \in Requests : Holding(r)'
    BY <1>4, BetweenRestores DEF ScheduledBackup, Holding, requests, IInv
  <2>5. QED
    BY <2>2, <2>3, <2>4 DEF IInv
<1>5. ASSUME Tick
      PROVE  IInv'
  BY <1>5 DEF Tick, IInv, TypeOK, PhotosAreSomewhere, Holding, Stored, InImages, requests, Synced
<1>6. QED
  BY <1>1, <1>2, <1>3, <1>4, <1>5

-----------------------------------------------------------------------------
\* A restore that ends with the photos in reach leaves the invariant.
LEMMA Answered ==
  ASSUME IInv, NEW r \in Requests, Answer(r),
         \A q \in Requests : q # r => pc[q] \in {"idle", "asked"},
         file' \in Collection \cup {None},
         images' \in {None} \cup SUBSET Photos, stranded' \subseteq Photos,
         Synced => Stored'.photos \subseteq InImages' \cup stranded',
         UNCHANGED <<autos, now>>
  PROVE  IInv'
<1>1. TypeOK'
  BY DEF IInv, TypeOK, Answer, Inside
<1>2. (Synced => PhotosAreSomewhere)'
  BY DEF PhotosAreSomewhere, Synced
<1>3. ASSUME NEW q \in Requests
      PROVE  Holding(q)'
  <2>1. CASE q = r
    BY <2>1 DEF Holding, Answer, IInv, TypeOK
  <2>2. CASE q # r
    BY <2>2 DEF Holding, Answer, IInv, TypeOK
  <2>3. QED
    BY <2>1, <2>2
<1>4. QED
  BY <1>1, <1>2, <1>3 DEF IInv

\* A step of r inside the mutex leaves the other requests' places alone.
LEMMA OthersStayOutside ==
  ASSUME IInv, NEW r \in Requests, NEW q \in Requests, q # r,
         pc[q] \in {"idle", "asked"},
         pc'[q] = pc[q], zip'[q] = zip[q], old'[q] = old[q]
  PROVE  Holding(q)'
BY DEF Holding, IInv

LEMMA RestoreSteps ==
  ASSUME IInv, NEW r \in Requests, RestoreStep(r)
  PROVE  IInv'
<1> USE DEF IInv
<1>1. CASE Ask(r)
  <2>1. TypeOK'
    BY <1>1 DEF Ask, TypeOK, Inside
  <2>2. (Synced => PhotosAreSomewhere)'
    BY <1>1 DEF Ask, PhotosAreSomewhere, Stored, InImages, Synced
  <2>3. ASSUME NEW q \in Requests
        PROVE  Holding(q)'
    BY <1>1 DEF Ask, Holding, TypeOK, Stored, InImages
  <2>4. QED
    BY <1>1, <2>1, <2>2, <2>3 DEF Ask
<1>2. CASE SaveFirst(r)
  <2>1. TypeOK'
    <3>1. autos' \subseteq Backup /\ \A b, c \in autos' : b.at = c.at => b = c
      <4>1. WithBackup \ {} = WithBackup
        OBVIOUS
      <4>2. QED
        BY <1>2, <4>1, OneBackupPerTime DEF SaveFirst, StateSaved, TypeOK
    <3>2. QED
      BY <1>2, <3>1 DEF SaveFirst, TypeOK, MutexFree, Inside
  <2>2. (Synced => PhotosAreSomewhere)'
    BY <1>2 DEF SaveFirst, PhotosAreSomewhere, Stored, InImages, Synced
  <2>3. Stored.photos \subseteq InImages
    BY <1>2, BackedUpPhotosAreThere, NoFileNoPhotos DEF SaveFirst
  <2>4. file # None => \E b \in autos' : b.holds = file
    <3>1. [at |-> now, holds |-> Stored] \in WithBackup
      BY DEF WithBackup
    <3>2. [at |-> now, holds |-> Stored].holds = Stored
      OBVIOUS
    <3>3. QED
      BY <1>2, <3>1, <3>2 DEF SaveFirst, StateSaved, Stored
  <2>5. Holding(r)'
    BY <1>2, <2>3, <2>4 DEF SaveFirst, SameRevision, Holding, TypeOK, Stored, InImages
  <2>6. ASSUME NEW q \in Requests, q # r
        PROVE  Holding(q)'
    BY <1>2, <2>6, BetweenRestores, OthersStayOutside DEF SaveFirst, TypeOK
  <2>7. IsFiniteSet(autos')
    <3>1. WithBackup \ {} = WithBackup
      OBVIOUS
    <3>2. QED
      BY <1>2, <3>1, OneBackupPerTime DEF SaveFirst, StateSaved
  <2>8. QED
    BY <2>1, <2>2, <2>5, <2>6, <2>7
<1>3. CASE Refuse(r)
  <2>1. (Synced => PhotosAreSomewhere)'
    BY <1>3 DEF Refuse, Answer, PhotosAreSomewhere, Stored, InImages, Holding, TypeOK, Synced
  <2>2. TypeOK'
    BY <1>3 DEF Refuse, Answer, TypeOK, Inside
  <2>3. ASSUME NEW q \in Requests
        PROVE  Holding(q)'
    BY <1>3 DEF Refuse, Answer, Holding, TypeOK, Stored, InImages
  <2>4. QED
    BY <1>3, <2>1, <2>2, <2>3 DEF Refuse
<1>4. CASE pc[r] \in Inside /\ ~ Refuse(r)
  <2> USE <1>4
  <2>0. \A q \in Requests : q # r => pc[q] \in {"idle", "asked"}
    BY OthersAreOutside
  <2>1. CASE MoveOut(r)
    <3>1. TypeOK'
      BY <2>1 DEF MoveOut, TypeOK, Inside
    <3>2. (Synced => PhotosAreSomewhere)'
      BY <2>1 DEF MoveOut, PhotosAreSomewhere, Stored, InImages, Holding, TypeOK, Synced
    <3>3. Holding(r)'
      BY <2>1 DEF MoveOut, Holding, TypeOK, Stored, InImages
    <3>4. ASSUME NEW q \in Requests, q # r
          PROVE  Holding(q)'
      BY <2>0, <2>1, <3>4, OthersStayOutside DEF MoveOut, TypeOK
    <3>5. QED
      BY <2>1, <3>1, <3>2, <3>3, <3>4 DEF MoveOut
  <2>2. CASE MoveIn(r)
    <3>1. TypeOK'
      BY <2>2 DEF MoveIn, MovedIn, TypeOK, Inside, Holding, Collection
    <3>2. (Synced => PhotosAreSomewhere)'
      BY <2>2, NoneAssumption DEF MoveIn, MovedIn, PhotosAreSomewhere, Stored, InImages, Holding, TypeOK, Synced
    <3>3. Holding(r)'
      BY <2>2 DEF MoveIn, MovedIn, Holding, TypeOK, Stored
    <3>4. ASSUME NEW q \in Requests, q # r
          PROVE  Holding(q)'
      BY <2>0, <2>2, <3>4, OthersStayOutside DEF MoveIn, TypeOK
    <3>5. QED
      BY <2>2, <3>1, <3>2, <3>3, <3>4 DEF MoveIn
  <2>3. CASE MoveInFails(r) \/ WriteFails(r)
    <3>0. zip[r] \in Collection
      BY DEF Holding, Inside
    <3>1. TypeOK'
      <4>1. images' \in {None} \cup SUBSET Photos /\ file' \in Collection \cup {None}
        BY <2>3, <3>0 DEF MoveInFails, WriteFails, TypeOK, Collection
      <4>2. QED
        BY <2>3, <4>1 DEF MoveInFails, WriteFails, TypeOK, Inside
    <3>2. (Synced => PhotosAreSomewhere)'
      BY <2>3, NoneAssumption
      DEF MoveInFails, WriteFails, PhotosAreSomewhere, Stored, InImages, Holding, TypeOK, Synced
    <3>3. Holding(r)'
      BY <2>3 DEF MoveInFails, WriteFails, Holding, TypeOK, Stored, Synced
    <3>4. ASSUME NEW q \in Requests, q # r
          PROVE  Holding(q)'
      BY <2>0, <2>3, <3>4, OthersStayOutside DEF MoveInFails, WriteFails, TypeOK
    <3>5. QED
      BY <2>3, <3>1, <3>2, <3>3, <3>4 DEF MoveInFails, WriteFails
  <2>4. CASE Write(r)
    <3>1. file' \in Collection /\ images = zip[r].photos
      BY <2>4 DEF Write, Holding
    <3>2. TypeOK'
      BY <2>4, <3>1 DEF Write, TypeOK, Inside
    <3>3. Holding(r)'
      BY <2>4 DEF Write, Holding, TypeOK
    <3>4. (Synced => PhotosAreSomewhere)'
      BY <2>4, <3>1, NoneAssumption DEF Write, PhotosAreSomewhere, Stored, InImages, Collection, Synced
    <3>5. ASSUME NEW q \in Requests, q # r
          PROVE  Holding(q)'
      BY <2>0, <2>4, <3>5, OthersStayOutside DEF Write, TypeOK
    <3>6. QED
      BY <2>4, <3>2, <3>3, <3>4, <3>5 DEF Write
  <2>5. CASE CreateFails(r)
    <3>1. Stored'.photos \subseteq InImages' \cup stranded' /\ stranded' \subseteq Photos
      BY <2>5 DEF CreateFails, Holding, Stored, TypeOK
    <3>2. QED
      BY <2>0, <2>5, <3>1, Answered DEF CreateFails, TypeOK
  <2>6. CASE PutBack(r)
    <3>1. (Synced => Stored'.photos \subseteq InImages') /\ images' \in SUBSET Photos
      BY <2>6, NoneAssumption DEF PutBack, Holding, Stored, InImages
    <3>2. QED
      BY <2>0, <2>6, <3>1, Answered DEF PutBack, TypeOK
  <2>7. CASE PutBackFails(r)
    <3>1. /\ Synced => Stored'.photos \subseteq stranded'
          /\ stranded' \subseteq Photos
          /\ images' \in {None} \cup SUBSET Photos
      BY <2>7 DEF PutBackFails, Holding, Stored, TypeOK, Collection
    <3>2. QED
      BY <2>0, <2>7, <3>1, Answered DEF PutBackFails, TypeOK
  <2>8. CASE CleanUp(r)
    <3>1. file = zip[r] /\ images = zip[r].photos /\ zip[r] \in Collection /\ old[r] \in SUBSET Photos
      BY <2>8 DEF CleanUp, Holding
    <3>2. stranded' \subseteq Photos
      BY <2>8, <3>1 DEF CleanUp, TypeOK
    <3>3. Stored'.photos \subseteq InImages'
      BY <2>8, <3>1, NoneAssumption DEF CleanUp, Stored, InImages, Collection
    <3>4. QED
      BY <2>0, <2>8, <3>2, <3>3, Answered DEF CleanUp, TypeOK
  <2>9. QED
    BY <2>1, <2>2, <2>3, <2>4, <2>5, <2>6, <2>7, <2>8
    DEF RestoreStep, Ask, SaveFirst, Inside
<1>5. QED
  BY <1>1, <1>2, <1>3, <1>4 DEF RestoreStep, Inside, MoveOut, CreateFails, MoveIn, MoveInFails,
     Write, WriteFails, PutBack, PutBackFails, CleanUp

LEMMA StopStep ==
  ASSUME IInv, Stop
  PROVE  IInv'
<1>1. \A r \in Requests : old[r] # None => old[r] \subseteq LeftOnStart
  BY DEF LeftOnStart
<1>2. LeftOnStart \subseteq Photos
  BY DEF LeftOnStart, IInv, TypeOK
<1>3. TypeOK'
  BY <1>2 DEF Stop, IInv, TypeOK, Inside
<1>4. InImages' = InImages /\ Stored' = Stored
  BY NoneAssumption DEF Stop, InImages, Stored, IInv, TypeOK
<1>5. stranded \subseteq stranded'
  BY DEF Stop, LeftOnStart
<1>6. (Synced => PhotosAreSomewhere)'
  BY <1>1, <1>4, <1>5 DEF IInv, PhotosAreSomewhere, Stop, Synced
<1>7. \A r \in Requests : Holding(r)'
  BY DEF Stop, Holding
<1>8. QED
  BY <1>3, <1>6, <1>7 DEF IInv, Stop

LEMMA Inductive == Spec => []IInv
<1>1. Init => IInv
  BY FS_EmptySet DEF Init, IInv, TypeOK, PhotosAreSomewhere, Holding, Stored, InImages, Inside
<1>2. IInv /\ [Next]_vars => IInv'
  <2> SUFFICES ASSUME IInv, [Next]_vars
               PROVE  IInv'
    OBVIOUS
  <2>1. CASE UNCHANGED vars
    BY <2>1 DEF vars, IInv, TypeOK, PhotosAreSomewhere, Holding, Stored, InImages, Synced
  <2>2. CASE Next
    BY <2>2, OtherSteps, RestoreSteps, StopStep DEF Next
  <2>3. QED
    BY <2>1, <2>2
<1>3. QED
  BY <1>1, <1>2, PTL DEF Spec

-----------------------------------------------------------------------------
\* Restores, schedules and other changes keep to their types, to one backup file
\* per time and to one holder of the mutex.
THEOREM TypeCorrect == Spec => []TypeOK
<1>1. IInv => TypeOK
  BY DEF IInv
<1>2. QED
  BY <1>1, Inductive, PTL

\* Whatever step a restore fails at or is stopped at, every photo the collection
\* references is in images/ or in the folder moved aside, as long as the directory
\* can be synced once the collection was renamed into place.
THEOREM NoPhotoIsLost ==
  ASSUME "sync" \notin Faults
  PROVE  Spec => []PhotosAreSomewhere
<1>1. IInv => PhotosAreSomewhere
  BY DEF IInv, Synced
<1>2. QED
  BY <1>1, Inductive, PTL

\* What a restore replaces is what its window had loaded, and is in a backup.
THEOREM UndoIsKept == Spec => ReplacedIsSeenAndSaved
<1>1. IInv => [\A r \in Requests :
                 pc[r] = "swapped" /\ file' # file =>
                   /\ file = base[r]
                   /\ file # None => \E b \in autos : b.holds = file]_vars
  BY DEF IInv, Holding
<1>2. QED
  BY <1>1, Inductive, PTL DEF ReplacedIsSeenAndSaved

\* The schedule's deletions spare the backup it makes: it is due only when no other
\* is later.
LEMMA ScheduleMakesOne ==
  ASSUME TypeOK, ScheduledBackup
  PROVE  \E b \in autos' : b.at = now /\ b.holds = Stored
<1> DEFINE new == [at |-> now, holds |-> Stored]
           later == {c \in WithBackup : c.at > new.at}
<1>1. PICK gone \in SUBSET Excess(WithBackup, file.settings.keep) : autos' = WithBackup \ gone
  BY DEF ScheduledBackup
<1>2. Stored = file /\ file.settings \in [keep : Nat \ {0}, every : Nat \cup {None}]
  BY SettingsAssumption DEF ScheduledBackup, Stored, TypeOK, Collection
<1>3. ASSUME NEW b \in autos
      PROVE  ~ (b.at > now)
  <2>1. b.at \in Nat /\ now \in Nat
    BY TimesAssumption DEF TypeOK, Backup
  <2>2. file.settings.every \in Nat /\ now - b.at >= file.settings.every
    BY <1>2 DEF ScheduledBackup, Due
  <2>3. QED
    BY <2>1, <2>2
<1>4. later = {}
  BY <1>3, TimesAssumption DEF WithBackup, TypeOK
<1>5. Cardinality(later) = 0
  BY <1>4, FS_EmptySet
<1>6. new \notin Excess(WithBackup, file.settings.keep)
  <2> SUFFICES ASSUME new \in Excess(WithBackup, file.settings.keep)
               PROVE  FALSE
    OBVIOUS
  <2> HIDE DEF new
  <2>1. Cardinality(later) >= file.settings.keep
    BY Zenon DEF Excess
  <2>2. QED
    BY <1>2, <1>5, <2>1
<1>7. new \in autos'
  BY <1>1, <1>6 DEF WithBackup
<1>8. QED
  BY <1>7

-----------------------------------------------------------------------------
(* Which backups go.                                                       *)

Later(backups, b) == {c \in backups : c.at > b.at}

\* However many of the excess ones go, whoever goes has `keep` later ones that do
\* not: of those that do not stay, take one with the fewest later ones.
LEMMA EnoughAreKept ==
  ASSUME NEW W, IsFiniteSet(W), \A b \in W : b.at \in Nat,
         NEW keep \in Nat, NEW gone \in SUBSET Excess(W, keep), NEW b \in gone
  PROVE  Cardinality(Later(W \ gone, b)) >= keep
<1> DEFINE L(c) == Later(W, c)
           left == Later(W \ gone, b)
           lost == {L(c) : c \in gone \cap L(b)}
<1>1. gone \subseteq W /\ \A c \in gone : Cardinality(L(c)) >= keep
  BY DEF Excess, Later
<1>2. \A c \in W : L(c) \subseteq W /\ IsFiniteSet(L(c)) /\ Cardinality(L(c)) \in Nat
  BY FS_Subset, FS_CardinalityType DEF Later
<1>3. IsFiniteSet(left) /\ Cardinality(left) \in Nat
  BY FS_Subset, FS_CardinalityType DEF Later
<1>4. CASE lost = {}
  <2>1. gone \cap L(b) = {}
    BY <1>4
  <2>2. left = L(b)
    BY <2>1 DEF Later
  <2>3. QED
    BY <1>1, <2>2
<1>5. CASE lost # {}
  <2>1. lost \subseteq FiniteSubsetsOf(W)
    BY <1>1, <1>2 DEF FiniteSubsetsOf
  <2>2. PICK S \in lost : \A T \in lost : <<T, S>> \notin StrictSubsetOrdering(W)
    <3> HIDE DEF lost
    <3>1. IsWellFoundedOn(StrictSubsetOrdering(W), FiniteSubsetsOf(W))
      BY FS_StrictSubsetOrderingWellFounded
    <3>2. QED
      BY <1>5, <2>1, <3>1, WFMin
  <2>3. PICK c \in gone \cap L(b) : S = L(c)
    BY <2>2
  <2>4. c \in W /\ c.at > b.at /\ b \in W
    BY <1>1, <2>3 DEF Later
  <2>5. L(c) \subseteq L(b)
    BY <2>4 DEF Later
  <2>6. ASSUME NEW d \in L(c)
        PROVE  d \notin gone
    <3> SUFFICES ASSUME d \in gone
                 PROVE  FALSE
      OBVIOUS
    <3>1. d \in W /\ d.at > c.at
      BY <2>6 DEF Later
    <3>2. L(d) \in lost
      BY <2>5, <2>6
    <3>3. L(d) \subseteq L(c) /\ d \notin L(d)
      BY <2>4, <3>1 DEF Later
    <3>4. <<L(d), S>> \in StrictSubsetOrdering(W)
      BY <1>2, <2>3, <2>4, <2>6, <3>1, <3>3 DEF StrictSubsetOrdering
    <3>5. QED
      BY <2>2, <3>2, <3>4
  <2>7. L(c) \subseteq left
    BY <2>5, <2>6 DEF Later
  <2>8. Cardinality(L(c)) <= Cardinality(left)
    BY <1>3, <2>7, FS_Subset
  <2>9. QED
    BY <1>1, <1>2, <1>3, <2>3, <2>4, <2>8
<1>6. QED
  BY <1>4, <1>5

\* A backup goes only when as many later ones as the owner keeps are still there,
\* or one of the same millisecond takes its place, also when deleting others
\* failed before and whatever the clock did.
THEOREM NewerOnesAreKept == Spec => PrunedOnlyForNewer
<1>1. TypeOK /\ IsFiniteSet(autos) /\ [Next]_vars =>
        [\A b \in autos :
           \/ \E c \in autos' : c.at = b.at
           \/ Cardinality({c \in autos' : c.at > b.at}) >= Stored.settings.keep]_vars
  <2> SUFFICES ASSUME TypeOK, IsFiniteSet(autos), [Next]_vars, NEW b \in autos
               PROVE  \/ \E c \in autos' : c.at = b.at
                      \/ Cardinality({c \in autos' : c.at > b.at}) >= Stored.settings.keep
    OBVIOUS
  <2>1. CASE autos' = autos
    BY <2>1
  <2>2. PICK c \in WithBackup : c.at = b.at
    <3>1. CASE b.at = now
      <4>1. [at |-> now, holds |-> Stored] \in WithBackup
        BY DEF WithBackup
      <4>2. [at |-> now, holds |-> Stored].at = now
        OBVIOUS
      <4>3. QED
        BY <3>1, <4>1, <4>2
    <3>2. CASE b.at # now
      BY <3>2 DEF WithBackup
    <3>3. QED
      BY <3>1, <3>2
  <2>3. CASE autos' = WithBackup
    BY <2>2, <2>3
  <2>4. CASE ScheduledBackup
    <3>1. PICK gone \in SUBSET Excess(WithBackup, file.settings.keep) :
            autos' = WithBackup \ gone
      BY <2>4 DEF ScheduledBackup
    <3>2. Stored = file /\ file.settings \in [keep : Nat \ {0}, every : Nat \cup {None}]
      BY <2>4, SettingsAssumption DEF ScheduledBackup, Stored, TypeOK, Collection
    <3>3. IsFiniteSet(WithBackup) /\ WithBackup \subseteq Backup
      <4>1. WithBackup \ {} = WithBackup
        OBVIOUS
      <4>2. QED
        BY <4>1, OneBackupPerTime
    <3>4. \A d \in WithBackup : d.at \in Nat
      BY <3>3, TimesAssumption DEF Backup
    <3>5. CASE c \notin gone
      BY <2>2, <3>1, <3>5
    <3>6. CASE c \in gone
      <4>1. file.settings.keep \in Nat
        BY <3>2
      <4>2. Cardinality(Later(WithBackup \ gone, c)) >= file.settings.keep
        BY <3>3, <3>4, <3>6, <4>1, EnoughAreKept
      <4>3. Later(WithBackup \ gone, c) = {d \in autos' : d.at > b.at}
        BY <2>2, <3>1 DEF Later
      <4>4. QED
        BY <3>2, <4>2, <4>3
    <3>7. QED
      BY <3>5, <3>6
  <2>5. QED
    BY <2>1, <2>3, <2>4
    DEF Next, vars, requests, RestoreStep, Ask, Refuse, SaveFirst, StateSaved, MoveOut,
        CreateFails, MoveIn, MoveInFails, Write, WriteFails, PutBack, PutBackFails, CleanUp,
        AddPhoto, RemovePhoto, UpdateSettings, Tick, Stop
<1>2. IInv => TypeOK /\ IsFiniteSet(autos)
  BY DEF IInv
<1>3. QED
  BY <1>1, <1>2, Inductive, PTL DEF Spec, PrunedOnlyForNewer

-----------------------------------------------------------------------------
(* When nothing but a write can fail.                                      *)

\* images/ is away only while a restore has yet to put photos there, and after
\* every restore the collection's photos are in it.
Recovers ==
  /\ images = None => \E r \in Requests : pc[r] \in {"moved", "failed"}
  /\ \A r \in Requests : pc[r] = "failed" => images = None
  /\ MutexFree => Stored.photos \subseteq InImages

LEMMA RecoversFromARestore ==
  ASSUME Faults \subseteq {"write"}, IInv, Recovers, NEW r \in Requests, RestoreStep(r)
  PROVE  Recovers'
<1> USE DEF Recovers
<1>1. /\ {"stop", "move", "mkdir", "sync"} \cap Faults = {}
      /\ Synced
  BY DEF Synced
<1>2. TypeOK /\ Holding(r)
  BY DEF IInv
<1>3. CASE Ask(r)
  BY <1>2, <1>3 DEF Ask, TypeOK, MutexFree, Inside, Stored, InImages
<1>4. CASE SaveFirst(r)
  BY <1>2, <1>4 DEF SaveFirst, TypeOK, MutexFree, Inside
<1>5. CASE Refuse(r)
  <2>1. Stored.photos \subseteq InImages \/ ~ MutexFree'
    BY <1>2, <1>5 DEF Refuse, Answer, TypeOK, Holding, MutexFree, Inside
  <2>2. Stored' = Stored /\ InImages' = InImages
    BY <1>5 DEF Refuse, Stored, InImages
  <2>3. QED
    BY <1>2, <1>5, <2>1, <2>2 DEF Refuse, Answer, TypeOK
<1>6. CASE pc[r] \in Inside /\ ~ Refuse(r)
  <2>1. \A q \in Requests : q # r => pc[q] \in {"idle", "asked"}
    BY <1>2, <1>6, OthersAreOutside
  <2>2. CASE MoveOut(r) \/ MoveIn(r) \/ Write(r) \/ WriteFails(r)
    <3>1. pc'[r] \in Inside /\ ~ MutexFree'
      BY <1>2, <2>2 DEF MoveOut, MoveIn, Write, WriteFails, TypeOK, MutexFree, Inside
    <3>2. images' = None => pc'[r] \in {"moved", "failed"}
      BY <1>1, <1>2, <2>1, <2>2, NoneAssumption
      DEF MoveOut, MoveIn, MovedIn, Write, WriteFails, TypeOK, Holding, Collection
    <3>3. \A q \in Requests : pc'[q] = "failed" => images' = None
      BY <1>1, <1>2, <2>1, <2>2 DEF MoveOut, MoveIn, Write, WriteFails, TypeOK
    <3>4. QED
      BY <3>1, <3>2, <3>3
  <2>3. CASE PutBack(r) \/ CleanUp(r)
    <3>1. images' # None /\ Stored'.photos \subseteq images'
      BY <1>1, <1>2, <2>3, NoneAssumption
      DEF PutBack, CleanUp, Holding, TypeOK, Stored, Collection
    <3>2. \A q \in Requests : pc'[q] # "failed"
      BY <1>2, <2>1, <2>3 DEF PutBack, CleanUp, Answer, TypeOK
    <3>3. QED
      BY <3>1, <3>2 DEF InImages
  <2>4. QED
    BY <1>1, <1>6, <2>2, <2>3
    DEF RestoreStep, Ask, SaveFirst, CreateFails, MoveInFails, PutBackFails, Inside
<1>7. QED
  BY <1>3, <1>4, <1>5, <1>6 DEF RestoreStep, Inside, MoveOut, CreateFails, MoveIn, MoveInFails,
     Write, WriteFails, PutBack, PutBackFails, CleanUp

\* A restore can be undone, and a backup made, whenever no restore is at it: if
\* restores are not stopped, folders can be moved and created, and the directory
\* synced.  Writing the collection may fail.  Each of the other four faults can
\* make it false.
THEOREM UndoCanBeDone ==
  ASSUME Faults \subseteq {"write"}
  PROVE  Spec => []UndoIsPossible
<1>1. Init => Recovers
  BY NoneAssumption DEF Init, Recovers, MutexFree, Stored, InImages, Inside
<1>2. IInv /\ Recovers /\ [Next]_vars => Recovers'
  <2> SUFFICES ASSUME IInv, Recovers, [Next]_vars
               PROVE  Recovers'
    OBVIOUS
  <2> USE DEF Recovers
  <2>1. CASE UNCHANGED vars
    BY <2>1 DEF vars, MutexFree, Stored, InImages
  <2>2. ASSUME NEW p \in Photos, AddPhoto(p) \/ RemovePhoto(p)
        PROVE  Recovers'
    <3>1. images # None /\ images \in SUBSET Photos /\ Stored.photos \subseteq images
      BY <2>2 DEF AddPhoto, RemovePhoto, IInv, TypeOK, MutexFree, InImages, Inside
    <3>2. Stored'.photos \subseteq images' /\ images' # None
      BY <2>2, <3>1, NoneAssumption, StoredIsACollection
      DEF AddPhoto, RemovePhoto, Stored, IInv, TypeOK, Collection
    <3>3. QED
      BY <2>2, <3>2 DEF AddPhoto, RemovePhoto, MutexFree, InImages, requests, Inside
  <2>3. ASSUME NEW s \in Settings, UpdateSettings(s)
        PROVE  Recovers'
    <3>1. Stored'.photos = Stored.photos
      BY <2>3, NoneAssumption, StoredIsACollection DEF UpdateSettings, Stored, IInv, Collection
    <3>2. QED
      BY <2>3, <3>1 DEF UpdateSettings, MutexFree, InImages, requests
  <2>4. CASE ScheduledBackup \/ Tick
    BY <2>4 DEF ScheduledBackup, Tick, MutexFree, Stored, InImages, requests
  <2>5. QED
    BY <2>1, <2>2, <2>3, <2>4, RecoversFromARestore DEF Next, Stop
<1>3. Recovers => UndoIsPossible
  BY DEF Recovers, UndoIsPossible, CanBackUp, MutexFree, InImages, Inside
<1>4. QED
  BY <1>1, <1>2, <1>3, Inductive, PTL DEF Spec

-----------------------------------------------------------------------------
(* A restore is one step of module DataFolder.                             *)

Quiet == \A r \in Requests : pc[r] \notin Underway

\* Outside a swap the photos are those of images/, during one those moved away.
LEMMA BeheldAtRest ==
  ASSUME Quiet
  PROVE  Beheld = InImages
BY DEF Quiet, Beheld

LEMMA BeheldAtRestNext ==
  ASSUME Quiet'
  PROVE  Beheld' = InImages'
BY DEF Quiet, Beheld

LEMMA BeheldInSwap ==
  ASSUME TypeOK, NEW r \in Requests, pc[r] \in Underway
  PROVE  Beheld = old[r]
<1>1. \A q \in Requests : pc[q] \in Underway => q = r
  BY DEF TypeOK, Underway, Inside
<1>2. (CHOOSE q \in Requests : pc[q] \in Underway) = r
  BY <1>1
<1>3. QED
  BY <1>2 DEF Beheld

LEMMA FreeIsQuiet ==
  ASSUME MutexFree
  PROVE  Quiet
BY DEF MutexFree, Quiet, Underway, Inside

LEMMA PhotosOfFile ==
  ASSUME TypeOK
  PROVE  /\ Folder!PhotosOf(file) = Stored.photos
         /\ \A c \in Collection : Folder!PhotosOf(c) = c.photos
BY NoneAssumption DEF Folder!PhotosOf, Stored

\* A step that leaves files and folders alone, and the place of every swap.
LEMMA NothingToSee ==
  ASSUME file' = file, images' = images, stranded' = stranded, autos' = autos, old' = old,
         \A r \in Requests : pc'[r] \in Underway <=> pc[r] \in Underway
  PROVE  UNCHANGED Folder!vars
<1>1. Beheld' = Beheld
  <2> DEFINE swap == {r \in Requests : pc[r] \in Underway}
  <2>1. swap' = swap
    OBVIOUS
  <2>2. /\ (\E r \in Requests : pc[r] \in Underway) <=> swap # {}
        /\ (\E r \in Requests : pc'[r] \in Underway) <=> swap' # {}
        /\ (CHOOSE r \in Requests : pc[r] \in Underway) = (CHOOSE r \in Requests : r \in swap)
        /\ (CHOOSE r \in Requests : pc'[r] \in Underway) = (CHOOSE r \in Requests : r \in swap')
    OBVIOUS
  <2>3. QED
    BY <2>1, <2>2 DEF Beheld, InImages
<1>2. QED
  BY <1>1 DEF Folder!vars

\* Whoever makes a backup makes one of all photos.
LEMMA BackingUp ==
  ASSUME TypeOK, Quiet, Quiet', CanBackUp, file # None, NEW gone,
         autos' = WithBackup \ gone, \E b \in autos' : b.holds = file,
         UNCHANGED <<file, images, stranded>>
  PROVE  Folder!BackUp
<1> DEFINE held(bs) == {b.holds : b \in bs}
<1>1. Beheld = InImages /\ Beheld' = Beheld
  BY BeheldAtRest DEF Beheld, Quiet, InImages
<1>2. Folder!PhotosOf(file) \subseteq Beheld
  BY <1>1, PhotosOfFile, BackedUpPhotosAreThere
<1>3. [at |-> now, holds |-> Stored].holds = file
  BY DEF Stored
<1>4. held(autos') \in SUBSET (held(autos) \cup {file}) /\ file \in held(autos')
  BY <1>3 DEF WithBackup
<1>5. QED
  BY <1>1, <1>2, <1>4 DEF Folder!BackUp

LEMMA OthersImplement ==
  ASSUME IInv, IInv',
         \/ \E p \in Photos : AddPhoto(p) \/ RemovePhoto(p)
         \/ \E s \in Settings : UpdateSettings(s)
         \/ ScheduledBackup \/ Tick
  PROVE  [Folder!Next]_(Folder!vars)
<1> USE StoredIsACollection, FreeIsQuiet, BeheldAtRest, BeheldAtRestNext, PhotosOfFile
<1>0. TypeOK
  BY DEF IInv
<1>1. ASSUME NEW p \in Photos, AddPhoto(p)
      PROVE  \E c \in Collection : Folder!Change(c)
  <2>1. Quiet /\ Quiet'
    BY <1>1 DEF AddPhoto, requests, Quiet
  <2>2. /\ file' \in Collection
        /\ file'.photos = Stored.photos \cup {p}
        /\ Beheld' = Beheld \cup {p}
    <3>1. file' \in Collection /\ file'.photos = Stored.photos \cup {p}
      BY <1>0, <1>1 DEF AddPhoto, Collection
    <3>2. InImages' = InImages \cup {p}
      BY <1>0, <1>1, NoneAssumption DEF AddPhoto, InImages, TypeOK
    <3>3. QED
      BY <2>1, <3>1, <3>2
  <2>3. Folder!Change(file')
    <3>1. {p} \in SUBSET Photos
      OBVIOUS
    <3>2. file'.photos \subseteq Folder!PhotosOf(file) \cup {p}
      BY <1>0, <2>2
    <3>3. Beheld' = (Beheld \cup {p}) \ (Folder!PhotosOf(file) \ file'.photos)
      BY <1>0, <2>2
    <3>4. QED
      BY <1>1, <3>1, <3>2, <3>3 DEF Folder!Change, AddPhoto
  <2>4. QED
    BY <2>2, <2>3
<1>2. ASSUME NEW p \in Photos, RemovePhoto(p)
      PROVE  \E c \in Collection : Folder!Change(c)
  <2>1. Quiet /\ Quiet'
    BY <1>2 DEF RemovePhoto, requests, Quiet
  <2>2. /\ file' \in Collection
        /\ file'.photos = Stored.photos \ {p}
        /\ Beheld' = Beheld \ {p}
    <3>1. file' \in Collection /\ file'.photos = Stored.photos \ {p}
      BY <1>0, <1>2 DEF RemovePhoto, Collection
    <3>2. InImages' = InImages \ {p}
      BY <1>0, <1>2, NoneAssumption DEF RemovePhoto, InImages, TypeOK
    <3>3. QED
      BY <2>1, <3>1, <3>2
  <2>3. Folder!Change(file')
    <3>1. file'.photos \subseteq Folder!PhotosOf(file) \cup {}
      BY <1>0, <2>2
    <3>2. Beheld' = (Beheld \cup {}) \ (Folder!PhotosOf(file) \ file'.photos)
      BY <1>0, <1>2, <2>2 DEF RemovePhoto
    <3>3. QED
      BY <1>2, <3>1, <3>2 DEF Folder!Change, RemovePhoto
  <2>4. QED
    BY <2>2, <2>3
<1>3. ASSUME NEW s \in Settings, UpdateSettings(s)
      PROVE  \E c \in Collection : Folder!Change(c)
  <2>1. Quiet /\ Quiet'
    BY <1>3 DEF UpdateSettings, requests, Quiet
  <2>2. /\ file' \in Collection
        /\ file'.photos = Stored.photos
        /\ Beheld' = Beheld
    <3>1. file' \in Collection /\ file'.photos = Stored.photos
      BY <1>0, <1>3 DEF UpdateSettings, Collection
    <3>2. InImages' = InImages
      BY <1>0, <1>3, NoneAssumption DEF UpdateSettings, InImages, TypeOK
    <3>3. QED
      BY <2>1, <3>1, <3>2
  <2>3. Folder!Change(file')
    <3>1. file'.photos \subseteq Folder!PhotosOf(file) \cup {}
      BY <1>0, <2>2
    <3>2. Beheld' = (Beheld \cup {}) \ (Folder!PhotosOf(file) \ file'.photos)
      BY <1>0, <2>2
    <3>3. QED
      BY <1>3, <3>1, <3>2 DEF Folder!Change, UpdateSettings
  <2>4. QED
    BY <2>2, <2>3
<1>4. ASSUME ScheduledBackup
      PROVE  Folder!BackUp
  <2>1. PICK gone \in SUBSET Excess(WithBackup, file.settings.keep) :
          autos' = WithBackup \ gone
    BY <1>4 DEF ScheduledBackup
  <2>2. \E b \in autos' : b.holds = file
    BY <1>0, <1>4, ScheduleMakesOne DEF ScheduledBackup, Stored
  <2>3. Quiet /\ Quiet'
    BY <1>4 DEF ScheduledBackup, requests, Quiet
  <2>4. QED
    BY <1>0, <1>4, <2>1, <2>2, <2>3, BackingUp DEF ScheduledBackup
<1>5. ASSUME Tick
      PROVE  UNCHANGED Folder!vars
  BY <1>5, NothingToSee DEF Tick, requests
<1>6. QED
  BY <1>1, <1>2, <1>3, <1>4, <1>5 DEF Folder!Next

\* Between its first and its last step inside the swap, a restore shows the photos
\* it moved away.
LEMMA SwapGoesOn ==
  ASSUME TypeOK, TypeOK', NEW r \in Requests, pc[r] \in Underway, pc'[r] \in Underway,
         old' = old, UNCHANGED <<file, stranded, autos>>
  PROVE  UNCHANGED Folder!vars
<1>1. Beheld = old[r]
  BY BeheldInSwap
<1>2. Beheld' = old'[r]
  <2>1. \A q \in Requests : pc'[q] \in Underway => q = r
    BY DEF TypeOK, Underway, Inside
  <2>2. (CHOOSE q \in Requests : pc'[q] \in Underway) = r
    BY <2>1
  <2>3. QED
    BY <2>2 DEF Beheld
<1>3. QED
  BY <1>1, <1>2 DEF Folder!vars

\* A restore that ends, ends the only swap there is.
LEMMA QuietAfterwards ==
  ASSUME IInv, NEW r \in Requests, pc[r] \in Inside, pc' = [pc EXCEPT ![r] = pc'[r]],
         pc'[r] \notin Underway
  PROVE  Quiet'
<1>1. \A q \in Requests : q # r => pc'[q] \in {"idle", "asked"}
  BY OthersAreOutside DEF IInv, TypeOK
<1>2. QED
  BY <1>1 DEF Quiet, Underway

LEMMA RestoreImplements ==
  ASSUME Synced, IInv, IInv', NEW r \in Requests, RestoreStep(r)
  PROVE  [Folder!Next]_(Folder!vars)
<1>0. /\ TypeOK /\ Holding(r)
      /\ TypeOK'
  BY DEF IInv
<1>1. CASE Ask(r)
  <2>1. UNCHANGED Folder!vars
    BY <1>0, <1>1, NothingToSee DEF Ask, TypeOK, Underway
  <2>2. QED
    BY <2>1
<1>2. CASE SaveFirst(r)
  <2>1. Quiet /\ Quiet'
    BY <1>0, <1>2, FreeIsQuiet DEF SaveFirst, Quiet, Underway, TypeOK
  <2>2. CASE file = None
    <3>1. UNCHANGED Folder!vars
      BY <1>0, <1>2, <2>1, <2>2, NothingToSee DEF SaveFirst, StateSaved, Quiet
    <3>2. QED
      BY <3>1
  <2>3. CASE file # None
    <3>1. autos' = WithBackup \ {}
      BY <1>2, <2>3 DEF SaveFirst, StateSaved
    <3>2. \E b \in autos' : b.holds = file
      <4>1. [at |-> now, holds |-> Stored] \in autos'
        BY <3>1 DEF WithBackup
      <4>2. [at |-> now, holds |-> Stored].holds = file
        BY <2>3 DEF Stored
      <4>3. QED
        BY <4>1, <4>2
    <3>3. Folder!BackUp
      BY <1>0, <1>2, <2>1, <2>3, <3>1, <3>2, BackingUp DEF SaveFirst
    <3>4. QED
      BY <3>3 DEF Folder!Next
  <2>4. QED
    BY <2>2, <2>3
<1>3. CASE Refuse(r)
  <2>1. UNCHANGED <<file, images, stranded, autos>> /\ old' = old
    BY <1>0, <1>3 DEF Refuse, Answer, Holding, TypeOK
  <2>2. \A q \in Requests : pc'[q] \in Underway <=> pc[q] \in Underway
    BY <1>0, <1>3 DEF Refuse, Answer, TypeOK, Underway
  <2>3. UNCHANGED Folder!vars
    BY <2>1, <2>2, NothingToSee
  <2>4. QED
    BY <2>3
<1>4. CASE MoveOut(r)
  \* What was in images/ is now what a failure would put back.
  <2>1. Quiet
    BY <1>0, <1>4, OthersAreOutside DEF MoveOut, Quiet, Underway, Inside
  <2>2. Beheld = images
    BY <1>4, <2>1, BeheldAtRest DEF MoveOut, InImages
  <2>3. pc'[r] \in Underway /\ old'[r] = images
    BY <1>0, <1>4 DEF MoveOut, Underway, TypeOK
  <2>4. (CHOOSE q \in Requests : pc'[q] \in Underway) = r
    <3>1. \A q \in Requests : pc'[q] \in Underway => q = r
      BY <1>0, <2>3 DEF TypeOK, Underway, Inside
    <3>2. QED
      BY <2>3, <3>1
  <2>5. Beheld' = images
    BY <2>3, <2>4 DEF Beheld
  <2>6. QED
    BY <1>4, <2>2, <2>5 DEF MoveOut, Folder!vars
<1>5. CASE MoveIn(r) \/ MoveInFails(r) \/ WriteFails(r)
  <2>1. UNCHANGED <<file, stranded, autos, old>>
    BY <1>5 DEF MoveIn, MoveInFails, WriteFails, Synced
  <2>2. pc[r] \in Underway /\ pc'[r] \in Underway
    BY <1>0, <1>5 DEF MoveIn, MoveInFails, WriteFails, Underway, TypeOK
  <2>3. UNCHANGED Folder!vars
    BY <1>0, <2>1, <2>2, SwapGoesOn
  <2>4. QED
    BY <2>3
<1>6. CASE Write(r)
  \* The new photos count as soon as the collection does.
  <2>1. Quiet'
    BY <1>0, <1>6, QuietAfterwards DEF Write, Inside, Underway, TypeOK
  <2>2. zip[r] \in Collection /\ images = zip[r].photos
    BY <1>6, <1>0 DEF Write, Holding
  <2>3. images # None
    BY <2>2, NoneAssumption DEF Collection
  <2>4. Beheld' = zip[r].photos
    BY <1>6, <2>1, <2>2, <2>3, BeheldAtRestNext DEF Write, InImages
  <2>5. file # None => file \in {b.holds : b \in autos}
    BY <1>0, <1>6 DEF Write, Holding
  <2>6. Folder!Replace(zip[r])
    BY <1>6, <2>4, <2>5 DEF Folder!Replace, Write
  <2>7. QED
    BY <2>2, <2>6 DEF Folder!Next
<1>7. CASE CleanUp(r)
  <2>1. Quiet
    BY <1>0, <1>7, OthersAreOutside DEF CleanUp, Quiet, Underway, Inside
  <2>2. Quiet'
    <3>1. pc[r] = "written" /\ pc' = [pc EXCEPT ![r] = "idle"]
      BY <1>7 DEF CleanUp, Answer
    <3>2. pc'[r] = "idle"
      BY <1>0, <3>1 DEF TypeOK
    <3>3. QED
      BY <3>1, <3>2, QuietAfterwards DEF Inside, Underway
  <2>3. Beheld' = Beheld
    BY <1>7, <2>1, <2>2, BeheldAtRest, BeheldAtRestNext DEF CleanUp, InImages
  <2>4. stranded \subseteq stranded' /\ stranded' \in SUBSET Photos
    BY <1>0, <1>7 DEF CleanUp, TypeOK
  <2>5. Folder!Litter
    BY <1>7, <2>3, <2>4 DEF Folder!Litter, CleanUp
  <2>6. QED
    BY <2>5 DEF Folder!Next
<1>8. CASE PutBack(r)
  <2>1. Beheld = old[r] /\ old[r] \in SUBSET Photos
    BY <1>0, <1>8, BeheldInSwap DEF PutBack, Underway, Holding
  <2>2. Quiet'
    BY <1>0, <1>8, QuietAfterwards DEF PutBack, Answer, Inside, Underway, TypeOK
  <2>3. Beheld' = old[r]
    BY <1>8, <2>1, <2>2, BeheldAtRestNext, NoneAssumption DEF PutBack, InImages
  <2>4. QED
    BY <1>8, <2>1, <2>3 DEF PutBack, Folder!vars
<1>9. CASE CreateFails(r) \/ PutBackFails(r)
  <2>1. Beheld = old[r]
    BY <1>0, <1>9, BeheldInSwap DEF CreateFails, PutBackFails, Underway
  <2>2. Quiet'
    BY <1>0, <1>9, QuietAfterwards DEF CreateFails, PutBackFails, Answer, Inside, Underway, TypeOK
  <2>3. Beheld' \in SUBSET Photos
    BY <1>0, <2>2, BeheldAtRestNext DEF InImages, TypeOK
  <2>4. Beheld \cup stranded \subseteq stranded' /\ stranded' \in SUBSET Photos
    BY <1>0, <1>9, <2>1 DEF CreateFails, PutBackFails, TypeOK
  <2>5. Folder!Mishap
    BY <1>9, <2>3, <2>4 DEF Folder!Mishap, CreateFails, PutBackFails
  <2>6. QED
    BY <2>5 DEF Folder!Next
<1>10. QED
  BY <1>1, <1>2, <1>3, <1>4, <1>5, <1>6, <1>7, <1>8, <1>9 DEF RestoreStep

\* A stop in the middle of a swap is a mishap, later it may only leave litter.
LEMMA StopImplements ==
  ASSUME IInv, IInv', Stop
  PROVE  [Folder!Next]_(Folder!vars)
<1>0. TypeOK /\ TypeOK'
  BY DEF IInv
<1>1. Quiet' /\ Beheld' = InImages
  <2>1. Quiet'
    BY DEF Stop, Quiet, Underway
  <2>2. QED
    BY <2>1, BeheldAtRestNext, NoneAssumption DEF Stop, InImages
<1>2. stranded \subseteq stranded' /\ stranded' \in SUBSET Photos
  BY <1>0 DEF Stop, LeftOnStart, TypeOK
<1>3. CASE Quiet
  <2>1. Beheld = InImages
    BY <1>3, BeheldAtRest
  <2>2. Folder!Litter
    BY <1>1, <1>2, <2>1 DEF Stop, Folder!Litter
  <2>3. QED
    BY <2>2 DEF Folder!Next
<1>4. CASE ~ Quiet
  <2>1. PICK r \in Requests : pc[r] \in Underway
    BY <1>4 DEF Quiet
  <2>2. Beheld = old[r] /\ old[r] \in SUBSET Photos
    BY <1>0, <2>1, BeheldInSwap DEF IInv, Holding, Underway
  <2>3. old[r] \subseteq stranded'
    BY <2>2, NoneAssumption DEF Stop, LeftOnStart
  <2>4. Beheld' \in SUBSET Photos
    BY <1>0, <1>1 DEF InImages, TypeOK
  <2>5. Folder!Mishap
    BY <1>2, <2>2, <2>3, <2>4 DEF Stop, Folder!Mishap
  <2>6. QED
    BY <2>5 DEF Folder!Next
<1>5. QED
  BY <1>3, <1>4

\* Whatever fails, however many restores, schedules and other changes are under way
\* and wherever the program stops, the folder changes as module DataFolder says: a
\* restore is one step for everyone else, or none.  That the directory can be
\* synced is needed again: else the collection is the new one and the photos are
\* the old ones.
THEOREM RestoreIsOneStep ==
  ASSUME "sync" \notin Faults
  PROVE  Spec => ImplementsDataFolder
<1>1. Init => Folder!Init
  <2>1. ASSUME Init
        PROVE  Quiet
    BY <2>1 DEF Init, Quiet, Underway
  <2>2. QED
    BY <2>1, BeheldAtRest DEF Init, Folder!Init, InImages
<1>2. IInv /\ IInv' /\ [Next]_vars => [Folder!Next]_(Folder!vars)
  <2> SUFFICES ASSUME IInv, IInv', [Next]_vars
               PROVE  [Folder!Next]_(Folder!vars)
    OBVIOUS
  <2>1. CASE UNCHANGED vars
    <3>1. UNCHANGED Folder!vars
      BY <2>1, NothingToSee DEF vars
    <3>2. QED
      BY <3>1
  <2>2. QED
    BY <2>1, OthersImplement, RestoreImplements, StopImplements DEF Next, Synced
<1>3. QED
  BY <1>1, <1>2, Inductive, PTL DEF Spec, ImplementsDataFolder, Folder!Spec
=============================================================================
