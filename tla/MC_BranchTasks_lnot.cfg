CONSTANTS
  MaxLabel <- MCMaxLabel
  Traces <- MCNoXorNode
SPECIFICATION BranchSpec
\* construct_tasks runs once per branch and stops.
CHECK_DEADLOCK FALSE
INVARIANT NoCrash
