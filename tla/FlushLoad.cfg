SPECIFICATION Spec
CONSTANTS
  MaxRetries = 1
  MaxInflight = 2
  MaxXacts = 2
INVARIANT LoadFailureMeansNothing
