CONSTANTS
  Labels <- MCLabels
  OrigKind <- MCOrigKind
  Tables <- MCTables
  Runs <- MCRuns
  Null = Null

SPECIFICATION Spec

\* A tracer run ends after its last message, and a crash ends the process.
CHECK_DEADLOCK FALSE

INVARIANT PolarityKept
