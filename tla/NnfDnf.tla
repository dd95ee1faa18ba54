------------------------------- MODULE NnfDnf -------------------------------
(***************************************************************************)
(* The boolean skeletons of src/driver/aflpp/symsan.cpp and the rewrites  *)
(* construct_tasks applies to them: negation normal form for the target   *)
(* direction (to_nnf) and disjunctive normal form (to_dnf).  Pure         *)
(* operators, shared by FormulaRewrite and TaskBuilder.                    *)
(*                                                                         *)
(* A skeleton node is a record [kind, label, children]: LAnd, LOr and LNot *)
(* nodes carry label 0 (find_roots never sets it), a relational leaf       *)
(* carries the ICmp label it was built from and its comparison kind.      *)
(* The value of a leaf is the truth of that label's original comparison,  *)
(* or its negation when the leaf's kind was negated.                      *)
(***************************************************************************)
EXTENDS Naturals, Sequences, FiniteSets

CONSTANTS
  Labels,     \* ICmp labels the skeleton's leaves come from
  OrigKind    \* label -> the comparison kind OP_MAP gives its ICmp

RelationalKinds == {"Equal", "Distinct", "Ult", "Ule", "Ugt", "Uge",
                    "Slt", "Sle", "Sgt", "Sge"}

ASSUME OrigKind \in [Labels -> RelationalKinds] /\ 0 \notin Labels

(* rgd::negate_cmp (ast.h): the comparison that holds exactly when the    *)
(* given one does not.  Any other kind (an Xor or a Bool find_roots left  *)
(* in the skeleton) fails the assert of line 752; the node is kept as it  *)
(* is, and its label 0 makes construct_task fail on it later.             *)
Negate(k) ==
  CASE k = "Equal" -> "Distinct" [] k = "Distinct" -> "Equal"
    [] k = "Ult" -> "Uge"        [] k = "Uge" -> "Ult"
    [] k = "Ule" -> "Ugt"        [] k = "Ugt" -> "Ule"
    [] k = "Slt" -> "Sge"        [] k = "Sge" -> "Slt"
    [] k = "Sle" -> "Sgt"        [] k = "Sgt" -> "Sle"
    [] OTHER -> k

Leaf(l) == [kind |-> OrigKind[l], label |-> l, children |-> <<>>]
Node(k, cs) == [kind |-> k, label |-> 0, children |-> cs]
\* find_roots folded the whole formula to a constant.
BoolNode == Node("Bool", <<>>)

-----------------------------------------------------------------------------
(* to_nnf (lines 727-762).  Under a negative expectation an LNot is        *)
(* replaced by its child rewritten positively, LAnd and LOr swap, and a    *)
(* leaf's comparison is negated.  Under a positive expectation an LNot     *)
(* makes its children negative, but the LNot node itself stays.            *)

\* Mutant of ToNnf: LAnd and LOr are not swapped under negation.
RECURSIVE ToNnfNoDeMorgan(_, _)
ToNnfNoDeMorgan(expected, node) ==
  IF ~expected
  THEN CASE node.kind = "LNot" -> ToNnfNoDeMorgan(TRUE, node.children[1])
         [] node.kind \in {"LAnd", "LOr"} ->
              [node EXCEPT !.children = [i \in DOMAIN @ |-> ToNnfNoDeMorgan(FALSE, @[i])]]
         [] OTHER -> [node EXCEPT !.kind = Negate(@)]
  ELSE LET e == node.kind # "LNot" IN
       [node EXCEPT !.children = [i \in DOMAIN @ |-> ToNnfNoDeMorgan(e, @[i])]]

RECURSIVE ToNnf(_, _)
ToNnf(expected, node) ==
  IF ~expected
  THEN CASE node.kind = "LNot" -> ToNnf(TRUE, node.children[1])
         [] node.kind = "LAnd" ->
              [node EXCEPT !.kind = "LOr",
                           !.children = [i \in DOMAIN @ |-> ToNnf(FALSE, @[i])]]
         [] node.kind = "LOr" ->
              [node EXCEPT !.kind = "LAnd",
                           !.children = [i \in DOMAIN @ |-> ToNnf(FALSE, @[i])]]
         [] OTHER -> [node EXCEPT !.kind = Negate(@)]
  ELSE LET e == node.kind # "LNot" IN
       [node EXCEPT !.children = [i \in DOMAIN @ |-> ToNnf(e, @[i])]]

-----------------------------------------------------------------------------
(* to_dnf (lines 766-791) appends the clauses of node to formula.  LAnd    *)
(* appends the pairwise concatenations of its children's clauses (or      *)
(* replaces the whole formula by the right clauses when the left has       *)
(* none), LOr appends the clauses of both children, any other node is a    *)
(* one-leaf clause.                                                        *)

\* The clauses of `left` each concatenated with each clause of `right`, in loop order.
Products(left, right) ==
  [k \in 1..Len(left) * Len(right) |->
     LET i == ((k - 1) \div Len(right)) + 1
         j == ((k - 1) % Len(right)) + 1
     IN left[i] \o right[j]]

\* Mutant of ToDnf: LAnd takes the union of its children's clauses.
RECURSIVE ToDnfNoProduct(_, _)
ToDnfNoProduct(node, formula) ==
  CASE node.kind \in {"LAnd", "LOr"} ->
         ToDnfNoProduct(node.children[2], ToDnfNoProduct(node.children[1], formula))
    [] OTHER -> Append(formula, <<node>>)

\* Mutant of ToDnf: the LOr branch is missing, so an LOr becomes one leaf.
RECURSIVE ToDnfOrAsLeaf(_, _)
ToDnfOrAsLeaf(node, formula) ==
  CASE node.kind = "LAnd" ->
         LET left  == ToDnfOrAsLeaf(node.children[1], <<>>)
             right == ToDnfOrAsLeaf(node.children[2], <<>>)
         IN IF left = <<>> THEN right ELSE formula \o Products(left, right)
    [] OTHER -> Append(formula, <<node>>)

RECURSIVE ToDnf(_, _)
ToDnf(node, formula) ==
  CASE node.kind = "LAnd" ->
         LET left  == ToDnf(node.children[1], <<>>)
             right == ToDnf(node.children[2], <<>>)
         IN IF left = <<>> THEN right ELSE formula \o Products(left, right)
    [] node.kind = "LOr" -> ToDnf(node.children[2], ToDnf(node.children[1], formula))
    [] OTHER -> Append(formula, <<node>>)

-----------------------------------------------------------------------------
(* Reference semantics: the truth of a skeleton when each label's         *)
(* original comparison has the value v[label].                            *)

LeafValue(n, v) == IF n.kind = OrigKind[n.label] THEN v[n.label] ELSE ~v[n.label]

RECURSIVE Eval(_, _)
Eval(n, v) ==
  CASE n.kind = "LAnd" -> Eval(n.children[1], v) /\ Eval(n.children[2], v)
    [] n.kind = "LOr"  -> Eval(n.children[1], v) \/ Eval(n.children[2], v)
    [] n.kind = "LNot" -> ~Eval(n.children[1], v)
    [] OTHER -> LeafValue(n, v)

(* The reading of to_nnf's output its author intends: an LNot that       *)
(* to_nnf kept has already pushed its negation into its child, so it is   *)
(* read as its child.                                                      *)
RECURSIVE NnfEval(_, _)
NnfEval(n, v) ==
  CASE n.kind = "LAnd" -> NnfEval(n.children[1], v) /\ NnfEval(n.children[2], v)
    [] n.kind = "LOr"  -> NnfEval(n.children[1], v) \/ NnfEval(n.children[2], v)
    [] n.kind = "LNot" -> NnfEval(n.children[1], v)
    [] OTHER -> LeafValue(n, v)

DnfValue(clauses, v) == \E i \in 1..Len(clauses) : \A j \in 1..Len(clauses[i]) :
                          NnfEval(clauses[i][j], v)

Assignments == [Labels -> BOOLEAN]

(* A well-formed skeleton: connectives carry label 0 and their arity, a    *)
(* leaf carries a label and that label's comparison or its negation.      *)
RECURSIVE WellFormed(_)
WellFormed(n) ==
  \/ /\ n.label \in Labels /\ n.children = <<>>
     /\ n.kind \in {OrigKind[n.label], Negate(OrigKind[n.label])}
  \/ /\ n.kind = "LNot" /\ n.label = 0 /\ Len(n.children) = 1
     /\ WellFormed(n.children[1])
  \/ /\ n.kind \in {"LAnd", "LOr"} /\ n.label = 0 /\ Len(n.children) = 2
     /\ WellFormed(n.children[1]) /\ WellFormed(n.children[2])
  \/ n = BoolNode

=============================================================================
