CONSTANTS
  l1 = l1
  l2 = l2
  bogus = bogus
  Labels <- MCLabels
  SymbolicLabels <- MCSymbolic
  Bogus <- bogus
  MaxResult <- MCMaxResult
  PipeBuf <- MCPipeBufSmall
  SpawnOutcomes <- MCOutcomes
  Traces <- MCTraces
SPECIFICATION Spec
INVARIANT HandledFaithful
CHECK_DEADLOCK FALSE
