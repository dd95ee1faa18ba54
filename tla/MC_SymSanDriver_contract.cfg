CONSTANTS
  e1 = e1
  e2 = e2
  Null = Null
  Entries <- MCEntries
  MaxTasks = 3
  SolverList <- MCSolverZ3
  Stages <- MCStages
  SolverResults <- MCContractResults

SPECIFICATION Spec

INVARIANT TypeOK
INVARIANT NoStaleSolve
INVARIANT SolveWithinStages
INVARIANT ValidatedOnlyAfterSat
PROPERTY TaskFullyTried
PROPERTY TaskEventuallyTaken
PROPERTY TaskQueueSpec
