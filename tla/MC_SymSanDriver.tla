-------------------------- MODULE MC_SymSanDriver --------------------------
(* Instantiation of SymSanDriver for TLC.                                  *)
EXTENDS SymSanDriver, TLC

CONSTANTS e1, e2

MCEntries == {e1, e2}

\* afl_custom_init pushes a single Z3Solver.
MCSolverZ3 == <<"z3">>
\* Two back-ends with different stage counts, as the solver vector allows.
MCSolverZ3Jit == <<"z3", "jit">>

MCStages == [s \in {"z3", "jit"} |-> IF s = "z3" THEN 2 ELSE 1]
MCStagesJit2 == [s \in {"z3", "jit"} |-> IF s = "z3" THEN 1 ELSE 2]

\* The results the solver contract of rgd::Solver names.
MCContractResults == {"SAT", "UNSAT", "TIMEOUT"}
\* Any other return value as well (the else branch of lines 1199-1201).
MCAllResults == {"SAT", "UNSAT", "TIMEOUT", "ERROR"}

MCSymmetry == Permutations(MCEntries)
=============================================================================
