CONSTANTS
  e1 = e1
  e2 = e2
  Null = Null
  Entries <- MCEntries
  MaxTasks = 2
  SolverList <- MCSolverZ3
  Stages <- MCStages
  SolverResults <- MCAllResults

SPECIFICATION Spec

INVARIANT NoStaleSolve
