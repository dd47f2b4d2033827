----------------------------- MODULE PhotosProofs -----------------------------
(***************************************************************************)
(* Proofs about Photos, for every number of clients, viewers, pictures and *)
(* file names.  TypeOK is inductive as it stands: its last conjunct, that  *)
(* a backup holds the photos it references, is what a restore relies on.   *)
(***************************************************************************)
EXTENDS Photos, TLAPS

BackupType ==
  [collection : Collection, images : Files, replaced : SUBSET Archived]

\* A backup of the data folder as it is holds what it references.
LEMMA BackupOfNowHoldsItsPhotos ==
  ASSUME TypeOK, CanBackUp
  PROVE  /\ BackupOfNow \in BackupType
         /\ \A p \in BackupOfNow.collection.photos : BackupOfNow.images[p] # None
<1>1. BackupOfNow.images \in Files
  BY DEF BackupOfNow, TypeOK, Files
<1>2. BackupOfNow \in BackupType
  BY <1>1 DEF BackupOfNow, BackupType, TypeOK, Collection
<1>3. ASSUME NEW p \in BackupOfNow.collection.photos
      PROVE  BackupOfNow.images[p] # None
  BY <1>3 DEF BackupOfNow, CanBackUp, TypeOK, Collection
<1>4. QED
  BY <1>2, <1>3

\* Every state has its type, and a backup holds every photo its collection
\* references: write_backup refuses to leave one out.
THEOREM TypeCorrect == Spec => []TypeOK
<1>1. Init => TypeOK
  BY DEF Init, TypeOK, Collection, Files, NoFiles
<1>2. TypeOK /\ [Next]_vars => TypeOK'
  <2> SUFFICES ASSUME TypeOK, [Next]_vars
               PROVE  TypeOK'
    OBVIOUS
  <2>1. ASSUME NEW c \in Clients, OpenEditor(c) \/ CloseEditor(c) \/ Load(c)
        PROVE  TypeOK'
    BY <2>1 DEF OpenEditor, CloseEditor, Load, TypeOK, Collection, folder
  <2>2. ASSUME NEW c \in Clients, NEW p \in Paths, RemoveFromDraft(c, p)
        PROVE  TypeOK'
    BY <2>2 DEF RemoveFromDraft, TypeOK, folder
  <2>3. ASSUME NEW c \in Clients, NEW picture \in Pictures, NEW p \in Paths,
               Upload(c, picture, p)
        PROVE  TypeOK'
    BY <2>3 DEF Upload, TypeOK, Files
  <2>4. ASSUME NEW c \in Clients, NEW picture \in Pictures, NEW p \in Paths,
               UploadCutShort(c, picture, p)
        PROVE  TypeOK'
    BY <2>4 DEF UploadCutShort, Stop, TypeOK, Files
  <2>5. ASSUME Crash
        PROVE  TypeOK'
    BY <2>5 DEF Crash, Stop, TypeOK
  <2>6. ASSUME NEW c \in Clients, NEW new \in Collection, Apply(c, new),
               draft' \in [Clients -> {None} \cup SUBSET Paths]
        PROVE  TypeOK'
    BY <2>6 DEF Apply, TypeOK, Collection
  <2>7. ASSUME NEW c \in Clients, Save(c)
        PROVE  TypeOK'
    BY <2>7, <2>6 DEF Save, TypeOK, Collection
  <2>8. ASSUME NEW c \in Clients, Delete(c) \/ UpdateSettings(c)
        PROVE  TypeOK'
    BY <2>8, <2>6 DEF Delete, UpdateSettings, TypeOK, Collection
  <2>9. ASSUME NEW c \in Clients, Retire(c)
        PROVE  TypeOK'
    <3>1. PICK T \in SUBSET Retired(c) : \E D \in SUBSET T :
            /\ thumbs' = [p \in Paths |-> IF p \in T THEN None ELSE thumbs[p]]
            /\ images' = [p \in Paths |-> IF p \in D THEN None ELSE images[p]]
            /\ replaced' \subseteq Archived
      BY <2>9 DEF Retire, TypeOK, Moved
    <3>2. thumbs' \in Files /\ images' \in Files
      BY <3>1 DEF TypeOK, Files
    <3>3. QED
      BY <2>9, <3>1, <3>2 DEF Retire, TypeOK
  <2>10. ASSUME NEW v \in Viewers, WriteThumb(v) \/ \E p \in Paths : ReadForThumb(v, p)
         PROVE  TypeOK'
    BY <2>10 DEF WriteThumb, ReadForThumb, TypeOK, Files, folder
  <2>11. ASSUME MakeBackup
         PROVE  TypeOK'
    BY <2>11, BackupOfNowHoldsItsPhotos DEF MakeBackup, TypeOK, folder, BackupType
  <2>12. ASSUME NEW c \in Clients, Restore(c)
         PROVE  TypeOK'
    <3>1. backup \in BackupType
      BY <2>12 DEF Restore, TypeOK, BackupType
    <3>2. collection' \in Collection /\ images' \in Files /\ replaced' \subseteq Archived
      BY <2>12, <3>1 DEF Restore, TypeOK, BackupType
    <3>3. /\ backup' \in BackupType
          /\ \A p \in backup'.collection.photos : backup'.images[p] # None
      BY <2>12, <3>1, BackupOfNowHoldsItsPhotos DEF Restore, TypeOK
    <3>4. thumbs' \in Files /\ loaded' \in [Clients -> Collection]
      BY <2>12, <3>1 DEF Restore, TypeOK, Files, NoFiles, BackupType
    <3>5. QED
      BY <2>12, <3>2, <3>3, <3>4 DEF Restore, TypeOK, BackupType
  <2>13. CASE UNCHANGED vars
    BY <2>13 DEF vars, TypeOK
  <2>14. QED
    BY <2>1, <2>2, <2>3, <2>4, <2>5, <2>7, <2>8, <2>9, <2>10, <2>11, <2>12, <2>13
    DEF Next, Edit, Change
<1>3. QED
  BY <1>1, <1>2, PTL DEF Spec

-----------------------------------------------------------------------------
\* Only four steps touch the photo files.
LEMMA WhatTouchesPhotos ==
  ASSUME [Next]_vars
  PROVE  \/ UNCHANGED images
         \/ \E c \in Clients, picture \in Pictures, p \in Paths :
              FirstUnused(p) /\ images' = [images EXCEPT ![p] = picture]
         \/ \E c \in Clients : Retire(c) \/ Restore(c)
  BY DEF Next, Edit, Change, OpenEditor, CloseEditor, Load, RemoveFromDraft, Upload,
         UploadCutShort, Crash, Save, Delete, UpdateSettings, Apply, WriteThumb, ReadForThumb,
         MakeBackup, folder, vars

\* Retiring empties some of the files it was asked to and that are not referenced.
LEMMA RetireOnlyEmpties ==
  ASSUME TypeOK, NEW c \in Clients, Retire(c), NEW p \in Paths
  PROVE  /\ collection' = collection
         /\ images'[p] \in {None, images[p]}
         /\ p \in collection.photos => images'[p] = images[p]
<1>1. PICK T \in SUBSET Retired(c) : \E D \in SUBSET T :
        images' = [q \in Paths |-> IF q \in D THEN None ELSE images[q]]
  BY DEF Retire
<1>2. QED
  BY <1>1 DEF Retire, Retired

\* Nothing takes away the file of a photo that stays referenced.
THEOREM PhotosStay == Spec => PhotosInUseStay
<1>1. TypeOK /\ [Next]_vars =>
        [\A p \in collection.photos \cap collection'.photos :
           images[p] # None => images'[p] # None]_vars
  <2> SUFFICES ASSUME TypeOK, [Next]_vars,
                      NEW p \in collection.photos \cap collection'.photos, images[p] # None
               PROVE  images'[p] # None
    OBVIOUS
  <2>0. p \in Paths /\ images \in Files
    BY DEF TypeOK, Collection
  <2>1. CASE UNCHANGED images
    BY <2>1
  <2>2. ASSUME NEW picture \in Pictures, NEW q \in Paths, images' = [images EXCEPT ![q] = picture]
        PROVE  images'[p] # None
    BY <2>0, <2>2, NoneAssumption DEF Files
  <2>3. ASSUME NEW c \in Clients, Retire(c)
        PROVE  images'[p] # None
    BY <2>0, <2>3, RetireOnlyEmpties
  <2>4. ASSUME NEW c \in Clients, Restore(c)
        PROVE  images'[p] # None
    BY <2>4 DEF Restore, TypeOK
  <2>5. QED
    BY <2>1, <2>2, <2>3, <2>4, WhatTouchesPhotos
<1>2. QED
  BY <1>1, TypeCorrect, PTL DEF Spec, PhotosInUseStay

\* A file shows what was uploaded until it goes, except across a restore.
THEOREM NoCollisions == Spec => UploadsDoNotCollide
<1>1. TypeOK /\ [Next]_vars =>
        [\A p \in Paths :
           \/ images[p] = None \/ images'[p] \in {None, images[p]}
           \/ \E c \in Clients : Restore(c)]_vars
  <2> SUFFICES ASSUME TypeOK, [Next]_vars, NEW p \in Paths, images[p] # None,
                      ~ \E c \in Clients : Restore(c)
               PROVE  images'[p] \in {None, images[p]}
    OBVIOUS
  <2>1. CASE UNCHANGED images
    BY <2>1
  <2>2. ASSUME NEW picture \in Pictures, NEW q \in Paths, FirstUnused(q),
               images' = [images EXCEPT ![q] = picture]
        PROVE  images'[p] = images[p]
    BY <2>2 DEF FirstUnused, Unused, TypeOK, Files
  <2>3. ASSUME NEW c \in Clients, Retire(c)
        PROVE  images'[p] \in {None, images[p]}
    BY <2>3, RetireOnlyEmpties
  <2>4. QED
    BY <2>1, <2>2, <2>3, WhatTouchesPhotos
<1>2. QED
  BY <1>1, TypeCorrect, PTL DEF Spec, UploadsDoNotCollide

\* What was set aside in replaced-photos/ is not overwritten by what follows.
THEOREM SetAsideStays == Spec => SetAsideIsKept
<1>1. TypeOK /\ [Next]_vars =>
        [replaced \subseteq replaced' \/ \E c \in Clients : Restore(c)]_vars
  <2> SUFFICES ASSUME TypeOK, [Next]_vars, ~ \E c \in Clients : Restore(c)
               PROVE  replaced \subseteq replaced'
    OBVIOUS
  <2>1. ASSUME NEW c \in Clients, Retire(c)
        PROVE  replaced \subseteq replaced'
    <3>1. PICK D \in SUBSET Paths :
            \/ replaced' = replaced
            \/ replaced' = Moved(D) \cup
                 {a \in replaced : \A m \in Moved(D) : m.path # a.path \/ m.copy # a.copy}
      BY <2>1 DEF Retire, Retired, TypeOK
    <3>2. ASSUME NEW a \in replaced, NEW m \in Moved(D), m.path = a.path
          PROVE  m.copy # a.copy
      BY <3>2 DEF Moved, FreeCopy
    <3>3. QED
      BY <3>1, <3>2
  <2>2. CASE ~ \E c \in Clients : Retire(c)
    BY <2>2 DEF Next, Edit, Change, OpenEditor, CloseEditor, Load, RemoveFromDraft, Upload,
         UploadCutShort, Crash, Stop, Save, Delete, UpdateSettings, Apply, WriteThumb,
         ReadForThumb, MakeBackup, folder, vars
  <2>3. QED
    BY <2>1, <2>2
<1>2. QED
  BY <1>1, TypeCorrect, PTL DEF Spec, SetAsideIsKept
=============================================================================
