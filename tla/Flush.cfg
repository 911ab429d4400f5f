SPECIFICATION Spec
CONSTANTS
  MaxRetries = 2
  MaxInflight = 2
  MaxXacts = 2
INVARIANTS TypeOK PhaseIsTrue StreamClean AttemptBound
PROPERTIES KeepsItsPromise EveryFlushEnds
