--------------------------- MODULE FormulaRewrite ---------------------------
(***************************************************************************)
(* construct_tasks of src/driver/aflpp/symsan.cpp for one branch          *)
(* condition: the skeleton find_roots returns is rewritten to NNF for the *)
(* target direction, split into DNF, and each clause is handed to         *)
(* construct_task.                                                        *)
(***************************************************************************)
EXTENDS NnfDnf

VARIABLES
  formula,   \* the skeleton find_roots built for the branch label
  target,    \* target_direction: the negation of the direction taken
  nnf,       \* the skeleton after to_nnf
  dnf,       \* the clauses to_dnf returned
  pc         \* "built" | "abandoned" | "tasks" | "crashed"

vars == <<formula, target, nnf, dnf, pc>>

(* construct_task (lines 361-382) parses every leaf of a clause; for a     *)
(* leaf whose label is below CONST_OFFSET parse_constraint returns nullptr *)
(* and line 375 writes through it.                                        *)
ParsesAll(clauses) == \A i \in 1..Len(clauses) : \A j \in 1..Len(clauses[i]) :
                        clauses[i][j].label # 0

\* Lines 806-809: a constant formula yields no task.
Abandon ==
  /\ pc = "built" /\ formula.kind = "Bool"
  /\ pc' = "abandoned"
  /\ UNCHANGED <<formula, target, nnf, dnf>>

\* Lines 820-835: to NNF for the target direction, to DNF, one task per clause.
Rewrite ==
  /\ pc = "built" /\ formula.kind # "Bool"
  /\ nnf' = ToNnf(target, formula)
  /\ dnf' = ToDnf(nnf', <<>>)
  /\ pc' = IF ParsesAll(dnf') THEN "tasks" ELSE "crashed"
  /\ UNCHANGED <<formula, target>>

Next == Abandon \/ Rewrite

Rewritten == pc \in {"tasks", "crashed"}

-----------------------------------------------------------------------------
(* Properties.                                                              *)

TypeOK ==
  /\ target \in BOOLEAN
  /\ pc \in {"built", "abandoned", "tasks", "crashed"}
  /\ WellFormed(formula) /\ WellFormed(nnf)
  \* formula_t: non-empty clauses whose members are not LAnd or LOr
  /\ \A i \in 1..Len(dnf) : dnf[i] # <<>> /\ \A j \in 1..Len(dnf[i]) :
        WellFormed(dnf[i][j]) /\ dnf[i][j].kind \notin {"LAnd", "LOr"}

(* to_nnf(target, f) holds exactly when f evaluates to the target          *)
(* direction: De Morgan, double negation and comparison negation keep its *)
(* meaning, for every valuation of the comparisons, with a kept LNot read *)
(* as NnfEval reads it.                                                    *)
NnfMeaning ==
  Rewritten => \A v \in Assignments : NnfEval(nnf, v) = (Eval(formula, v) = target)

(* The DNF to_dnf returns is equivalent to its input: some clause (one    *)
(* search task) is satisfiable by a valuation exactly when the formula is. *)
DnfMeaning ==
  Rewritten => \A v \in Assignments : DnfValue(dnf, v) = NnfEval(nnf, v)

=============================================================================
