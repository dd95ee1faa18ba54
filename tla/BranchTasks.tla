----------------------------- MODULE BranchTasks -----------------------------
(***************************************************************************)
(* construct_tasks of src/driver/aflpp/symsan.cpp (lines 793-838) end to   *)
(* end: find_roots turns the branch label of a union table into a          *)
(* skeleton (FindRoots), and the skeleton is rewritten to NNF for the      *)
(* target direction and split into DNF clauses, one search task each       *)
(* (FormulaRewrite).  The two components share the AstNode root: the      *)
(* skeleton FindRoots writes is the formula FormulaRewrite reads.          *)
(*                                                                         *)
(* FormulaRewrite's reference semantics reads a leaf through a fixed      *)
(* OrigKind; here the original comparison of a leaf is that of its label  *)
(* in the union table, so the properties evaluate leaves through           *)
(* FindRoots' Val, and OrigKind is given a placeholder value only.         *)
(***************************************************************************)
EXTENDS FindRoots

VARIABLES
  target,  \* target_direction: neg_ctx->direction of handle_cond (line 851)
  nnf,     \* the root AstNode after to_nnf
  dnf,     \* the formula_t to_dnf filled
  rwpc     \* the rewrite's progress: "built" | "tasks" | "crashed"

RW == INSTANCE FormulaRewrite
        WITH formula <- skel, pc <- rwpc,
             Labels <- LabelIds, OrigKind <- [l \in LabelIds |-> "Equal"]

bvars == <<vars, target, nnf, dnf, rwpc>>

(* handle_cond flips the direction the tracer took, which any valuation  *)
(* of the comparisons may have produced, so both targets occur.           *)
BranchInit ==
  /\ Init
  /\ target \in BOOLEAN
  /\ nnf = skel /\ dnf = <<>> /\ rwpc = "built"

\* Lines 803-809: find_roots, and return false on a constant skeleton.
FindRootsPhase == FindRootsStep /\ UNCHANGED <<target, nnf, dnf, rwpc>>

\* Lines 818-835: to_nnf, to_dnf and construct_task on the built skeleton.
RewritePhase == pc = "built" /\ RW!Rewrite /\ UNCHANGED <<table, root, pc>>

BranchNext == FindRootsPhase \/ RewritePhase

BranchSpec == BranchInit /\ [][BranchNext]_bvars

-----------------------------------------------------------------------------
(* Properties.                                                              *)

\* A clause leaf holds when its label's comparison, or its negation if to_nnf
\* negated the leaf, is true in valuation v.
ClauseLeafHolds(n, v) ==
  (Val(table, n.label, v) = 1) = (n.kind = OpMap[table[n.label].pred])

(* Every search task construct_tasks builds for a branch is a way to take  *)
(* the branch in the target direction, and every way to take it is one of *)
(* the tasks: for each valuation of the atomic comparisons, some DNF       *)
(* clause holds exactly when the branch label evaluates to target          *)
(* (spec 4.4, invariant 6, composed with 4.3).                             *)
TasksMeaning ==
  rwpc = "tasks" =>
    \A v \in Valuations(table) :
      (\E i \in 1..Len(dnf) : \A j \in 1..Len(dnf[i]) : ClauseLeafHolds(dnf[i][j], v))
        = (Val(table, root, v) = IF target THEN 1 ELSE 0)

(* Every branch whose skeleton is not a constant becomes search tasks      *)
(* without crashing the fuzzer: to_nnf leaves no LNot, Xor or Bool node    *)
(* that to_dnf would make a clause leaf with label 0 (spec scenario C).    *)
NoCrash == rwpc # "crashed"

=============================================================================
