SPECIFICATION Spec
CONSTANTS
  k1 = k1
  k2 = k2
  ks = ks
  a = a
  b = b
  v1 = v1
  v2 = v2
  null = null
  Keys = {k1, k2}
  Keyset = ks
  Subs = {a, b}
  Vals = {v1, v2}
  None = null
  Tables <- AllShapes
  Given <- MCGiven
  Stored <- MCStored
  Indexes <- SomeIndex
  Renames = FALSE
  MaxOps = 3
INVARIANTS
  TypeOK AppliedIsSql NoConflictMissed NeverPartial NoFalseRefusal
  DuplicateIsReal SelectAgreesWithCommit 
