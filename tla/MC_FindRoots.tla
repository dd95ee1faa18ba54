--------------------------- MODULE MC_FindRoots ---------------------------
(* Instantiation of FindRoots for TLC.  Every union table starts with the  *)
(* same six labels: two input labels, an atomic comparison over each, and *)
(* the ZExt to i32 of each comparison, as clang lowers a bool used as an   *)
(* int.  One or two more labels are built from these by every operation  *)
(* find_roots treats specially, with constants 0 and 1, and the last is    *)
(* the branch label.                                                       *)
EXTENDS FindRoots, TLC

Info(op, pred, size, l1, l2, op1, op2) ==
  [op |-> op, pred |-> pred, size |-> size, l1 |-> l1, l2 |-> l2, op1 |-> op1, op2 |-> op2]

Base ==
  << Info("Input", "none", 8, 0, 0, 0, 0),      \* 1: input byte 0
     Info("Load", "none", 16, 1, 2, 0, 0),      \* 2: two bytes loaded from 1
     Info("ICmp", "bvult", 1, 2, 0, 0, 5),      \* 3: x < 5
     Info("ICmp", "bveq", 1, 0, 1, 7, 0),       \* 4: 7 == y
     Info("ZExt", "none", 32, 3, 0, 0, 0),      \* 5: (int)(x < 5)
     Info("ZExt", "none", 32, 4, 0, 0, 0) >>    \* 6: (int)(7 == y)

MCMaxLabel == 8

Ops == {"And", "Or", "Xor"}

(* The labels a new label k may be: a logic op on i1 or on i32 over two   *)
(* different labels or a constant lhs 0 or 1 (x op x is folded before it  *)
(* reaches the tracer), a ZExt of a bool, an eq/ne of an i32 against  *)
(* 0 or 1, and, when boolCmp holds, an eq/ne of an i1 against 0 or 1.    *)
NewLabels(t, k, boolCmp) ==
  LET Of(sz) == {l \in 1..k-1 : t[l].size = sz}
      logic == {x \in Ops \X {1, 32} \X (0..k-1) \X (1..k-1) \X {0, 1} :
                  /\ x[4] \in Of(x[2]) /\ x[3] \in Of(x[2]) \cup {0}
                  /\ x[3] # 0 => x[5] = 0 /\ x[3] # x[4]}
      cmpOf == IF boolCmp THEN Of(32) \cup Of(1) ELSE Of(32)
  IN {Info(x[1], "none", x[2], x[3], x[4], x[5], 0) : x \in logic}
     \cup {Info("ZExt", "none", 32, l, 0, 0, 0) : l \in Of(1)}
     \cup {Info("ICmp", p, 1, l, 0, 0, c) : p \in {"bveq", "bvneq"}, l \in cmpOf, c \in {0, 1}}

RECURSIVE Tables(_, _)
Tables(n, boolCmp) ==
  IF n = Len(Base) THEN {Base}
  ELSE UNION {{Append(t, i) : i \in NewLabels(t, n, boolCmp)} : t \in Tables(n - 1, boolCmp)}

(* How often label l occurs in the operand tree of r; find_roots does not *)
(* look below an Input or a Load.                                           *)
RECURSIVE Occ(_, _, _)
Occ(t, r, l) ==
  LET o(x) == IF x >= CONST_OFFSET THEN Occ(t, x, l) ELSE 0
  IN (IF r = l THEN 1 ELSE 0) +
     (IF t[r].op \in {"Input", "Load"} THEN 0 ELSE o(t[r].l1) + o(t[r].l2))

Tree(t, r) == \A l \in DOMAIN t : Occ(t, r, l) <= 1

AllTraces(boolCmp) ==
  {[table |-> t, root |-> Len(t)] :
     t \in {t \in UNION {Tables(n, boolCmp) : n \in Len(Base)+1..MCMaxLabel} :
              t[Len(t)].size = 1}}

\* Conditions without a shared label, as the i1 logic clang emits.
MCTrees == {tr \in AllTraces(FALSE) : Tree(tr.table, tr.root)}
(* Conditions on which find_roots returns false for a node it did not     *)
(* make constant: those that reuse a comparison, e.g. c1 && (c1 || c2),   *)
(* and those that compare an i1 with a constant.                          *)
MCShared == AllTraces(TRUE) \ MCTrees
=============================================================================
