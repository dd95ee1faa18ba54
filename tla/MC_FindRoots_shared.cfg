CONSTANTS
  MaxLabel <- MCMaxLabel
  Traces <- MCShared
SPECIFICATION Spec
INVARIANT SkeletonMeaning
CHECK_DEADLOCK FALSE
