CONSTANTS
  MaxLabel <- MCMaxLabel
  Traces <- MCTrees
SPECIFICATION BranchSpec
\* construct_tasks runs once per branch and stops.
CHECK_DEADLOCK FALSE
INVARIANT TypeOK SkeletonMeaning TasksMeaning
