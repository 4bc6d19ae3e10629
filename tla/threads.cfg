SPECIFICATION ThreadsSpec
CONSTANTS
  Node = {n1, n2}
  Agent = {a1, a2}
  None = None
  Vanish = TRUE
  Destroys = TRUE
CHECK_DEADLOCK FALSE
SYMMETRY Symmetry
INVARIANTS ThreadsTypeOK LockedWalksAreSafe PointersInList
PROPERTIES OnlyTheHolderChanges ImplementsAtomic
