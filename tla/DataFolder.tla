------------------------------ MODULE DataFolder ------------------------------
(***************************************************************************)
(* What crates/core/src/backup.rs promises the owner of a data folder: the *)
(* collection and its photos are replaced together, in one step, or not at *)
(* all, and "the current state is saved as a backup first".  Module Photos *)
(* takes a restore to be such a step; module Restore has the steps it is   *)
(* made of, and implements this one.                                       *)
(*                                                                         *)
(* If the program may stop within a restore, or a folder cannot be moved,  *)
(* the photos may end up aside (a mishap); the collection never does.      *)
(***************************************************************************)
CONSTANTS
  Photos,
  Contents,   \* the collections there can be, each with its photos
  Mishaps,    \* whether a restore can be cut short, or fail to put things back
  None        \* nothing has been saved yet

VARIABLES
  collection,
  photos,     \* the photos in the folder
  backups,    \* the collections of which there is an automatic backup
  aside       \* photos left in folders that nothing refers to

vars == <<collection, photos, backups, aside>>

PhotosOf(c) == IF c = None THEN {} ELSE c.photos

Init ==
  /\ collection = None
  /\ photos = {}
  /\ backups = {}
  /\ aside = {}

\* The owner changes something: photos are uploaded for it, and those that it
\* leaves unused are retired.
Change(c) ==
  /\ \E new \in SUBSET Photos :
       /\ c.photos \subseteq PhotosOf(collection) \cup new
       /\ photos' = (photos \cup new) \ (PhotosOf(collection) \ c.photos)
  /\ collection' = c
  /\ UNCHANGED <<backups, aside>>

\* The state as it is becomes a backup, which needs all of its photos; older
\* backups may go.
BackUp ==
  /\ collection # None
  /\ PhotosOf(collection) \subseteq photos
  /\ backups' \in SUBSET (backups \cup {collection})
  /\ collection \in backups'
  /\ UNCHANGED <<collection, photos, aside>>

\* Collection and photos are replaced, when there is a backup of what they replace.
Replace(c) ==
  /\ collection # None => collection \in backups
  /\ collection' = c
  /\ photos' = c.photos
  /\ UNCHANGED <<backups, aside>>

\* What cannot be deleted of the photos that were replaced stays behind.
Litter ==
  /\ aside' \in SUBSET Photos
  /\ aside \subseteq aside'
  /\ UNCHANGED <<collection, photos, backups>>

\* A restore does not get to its end, nor back to its beginning.
Mishap ==
  /\ Mishaps
  /\ photos' \in SUBSET Photos
  /\ aside' \in SUBSET Photos
  /\ photos \cup aside \subseteq aside'
  /\ UNCHANGED <<collection, backups>>

Next ==
  \/ \E c \in Contents : Change(c) \/ Replace(c)
  \/ BackUp \/ Litter \/ Mishap

Spec == Init /\ [][Next]_vars
=============================================================================
