CONSTANTS
  Labels <- MCLabels
  OrigKind <- MCOrigKind
  Tables <- MCTables
  Runs <- MCRuns
  Null = Null

SPECIFICATION Spec

\* A tracer run ends after its last message, and a crash ends the process.
CHECK_DEADLOCK FALSE

INVARIANT TypeOK
INVARIANT ArgsPointAtOwnByte
INVARIANT InputsExactlyOnce
INVARIANT I2sRuns
INVARIANT CmapIndex
INVARIANT ParsedOnce
INVARIANT LabelsExpandedOnce
INVARIANT ArgsMatchAst
INVARIANT ConcatWidths
INVARIANT PlaceholdersResolved
