SPECIFICATION Spec
CONSTANTS
  t1 = t1
  t2 = t2
  u1 = u1
  u2 = u2
  row = row
  Rels = {t1, t2}
  Units = {u1, u2}
  UnitOf <- MCUnitOf
  Rows <- MCRows
  MaxOps = 3
  MaxBytes = 3
  MaxRowBytes = 1
  MaxNest = 3
  MaxCid = 2
  MaxStmts = 2
  MaxXacts = 2
INVARIANTS TypeOK LevelOrder OneUnit BoundWhileRunning LedgerInStep ByteBudget
PROPERTY RollbackRestores
