CONSTANTS
  l1 = l1
  l2 = l2
  bogus = bogus
  Labels <- MCLabels
  SymbolicLabels <- MCSymbolic
  Bogus <- bogus
  MaxResult <- MCMaxResult
  PipeBuf <- MCPipeBufLarge
  SpawnOutcomes <- MCOutcomesFtruncate
  Traces <- MCTraces
SPECIFICATION Spec
INVARIANT TypeOK HandledFaithful CacheFaithful Complete
PROPERTY FuzzCountReturns
CHECK_DEADLOCK FALSE
