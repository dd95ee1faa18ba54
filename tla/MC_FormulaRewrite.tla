------------------------- MODULE MC_FormulaRewrite -------------------------
(* Instantiation of FormulaRewrite for TLC: every skeleton find_roots can  *)
(* return over three ICmp labels, up to two levels of connectives.  Each  *)
(* label occurs at most once, because find_roots' visited set stops a     *)
(* label from being expanded twice.                                       *)
EXTENDS FormulaRewrite, TLC

MCLabels == {1, 2, 3}
MCOrigKind == (1 :> "Ult") @@ (2 :> "Equal") @@ (3 :> "Sle")

RECURSIVE LabelsOf(_)
LabelsOf(n) == IF n.children = <<>> THEN {n.label}
               ELSE UNION {LabelsOf(n.children[i]) : i \in DOMAIN n.children}

\* Skeletons of depth at most d with pairwise distinct leaf labels.
RECURSIVE Skeletons(_)
Skeletons(d) ==
  IF d = 0 THEN {Leaf(l) : l \in Labels}
  ELSE LET S == Skeletons(d - 1) IN
       S \cup {Node("LNot", <<a>>) : a \in S}
         \cup {Node(k, <<p[1], p[2]>>) :
                  k \in {"LAnd", "LOr"},
                  p \in {p \in S \X S : LabelsOf(p[1]) \cap LabelsOf(p[2]) = {}}}

MCInit ==
  /\ formula \in Skeletons(2) \cup {BoolNode}
  /\ target \in BOOLEAN
  /\ nnf = formula /\ dnf = <<>> /\ pc = "built"

MCSpec == MCInit /\ [][Next]_vars
=============================================================================
