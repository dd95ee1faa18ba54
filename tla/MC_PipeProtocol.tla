-------------------------- MODULE MC_PipeProtocol --------------------------
(* Instantiation of PipeProtocol for TLC: two labels, one of whose memcmp  *)
(* has two symbolic operands, memcmp content of up to two units, and       *)
(* every trace of one or two records.                                      *)
EXTENDS PipeProtocol, TLC

CONSTANTS l1, l2, bogus

MCLabels == {l1, l2}
MCSymbolic == {l2}
MCMaxResult == 2

MCRecords ==
  [type : {"cond", "gep", "fsize"}, label : MCLabels, result : {0}]
  \cup [type : {"memcmp"}, label : MCLabels, result : 0..MCMaxResult]

MCTraces == UNION {[1..n -> MCRecords] : n \in 1..2}

\* Every write fits in PIPE_BUF: memcmp content of up to 4 KiB.
MCPipeBufLarge == 1 + MCMaxResult
\* A memcmp_msg with the longest content is larger than PIPE_BUF.
MCPipeBufSmall == MCMaxResult

MCOutcomes == {"ok", "pipe_fail", "fork_fail"}
MCOutcomesFtruncate == MCOutcomes \cup {"ftruncate_fail"}
=============================================================================
