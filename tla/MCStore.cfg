SPECIFICATION FairSpec
CONSTANTS
  Programs = {p1, p2}
  Commands = {c1, c2, c3}
  Readers = {g1}
  None = None
  Free = Free
INVARIANTS
  TypeOK
  AnswersHold
  CopyIsCurrent
PROPERTIES
  ImplementsAtomicStore
  EveryCommandEnds
