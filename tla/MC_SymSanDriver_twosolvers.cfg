CONSTANTS
  e1 = e1
  e2 = e2
  Null = Null
  Entries <- MCEntries
  MaxTasks = 2
  SolverList <- MCSolverZ3Jit
  Stages <- MCStagesJit2
  SolverResults <- MCContractResults

SPECIFICATION Spec

PROPERTY TaskFullyTried
