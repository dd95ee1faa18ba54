CONSTANTS
  Labels <- MCLabels
  OrigKind <- MCOrigKind

SPECIFICATION MCSpec

\* construct_tasks runs once per branch and stops.
CHECK_DEADLOCK FALSE

INVARIANT TypeOK
INVARIANT NnfMeaning
INVARIANT DnfMeaning
