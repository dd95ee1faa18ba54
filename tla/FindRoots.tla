------------------------------ MODULE FindRoots ------------------------------
(***************************************************************************)
(* The formula simplifier of src/driver/aflpp/symsan.cpp: find_roots,     *)
(* strip_zext and simplify_{land,lor,xor}, which turn the label of a      *)
(* branch condition into a boolean skeleton whose leaves are ICmp labels, *)
(* and the first step of construct_tasks, which abandons the branch when  *)
(* the skeleton is a constant.                                             *)
(*                                                                         *)
(* The union table is a function from labels to dfsan_label_info records  *)
(* [op, pred, size, l1, l2, op1, op2]: op is "Input" (op 0), "Load",      *)
(* "ZExt", "And", "Or", "Xor" or "ICmp" with its predicate in pred; an    *)
(* operand label 0 means the operand is the constant in op1 / op2.        *)
(* find_roots writes into an rgd::AstNode it is handed and may be handed  *)
(* the same node twice, so the recursion threads the node and the visited *)
(* set through every call and returns [node, r, vis].                     *)
(*                                                                         *)
(* The model is of a release build (NDEBUG): the asserts of lines 421,    *)
(* 448, 490, 517, 559, 563 and 585 are compiled out and the code after    *)
(* them runs on whatever node find_roots left.                             *)
(***************************************************************************)
EXTENDS Integers, Sequences, FiniteSets

CONSTANTS
  MaxLabel,   \* labels of the union table are 1..MaxLabel
  Traces      \* the [table, root] pairs a tracer run can hand to handle_cond

CONST_OFFSET == 1
LabelIds == 1..MaxLabel

VARIABLES
  table,   \* the union table the tracer wrote
  root,    \* msg.label of the branch handle_cond passes to construct_tasks
  skel,    \* the AstNode find_roots built
  pc       \* "traced" | "abandoned" | "built"

vars == <<table, root, skel, pc>>

(* OP_MAP (lines 115-145), restricted to the relational comparisons, the  *)
(* only entries find_roots looks up.                                       *)
OpMap ==
  [bveq |-> "Equal", bvneq |-> "Distinct", bvugt |-> "Ugt", bvuge |-> "Uge",
   bvult |-> "Ult", bvule |-> "Ule", bvsgt |-> "Sgt", bvsge |-> "Sge",
   bvslt |-> "Slt", bvsle |-> "Sle"]

RelKinds == {OpMap[p] : p \in DOMAIN OpMap}

\* A default-constructed rgd::AstNode: kind Bool, every field zero.
EmptyNode == [kind |-> "Bool", label |-> 0, bits |-> 0, bval |-> 0, children |-> <<>>]

Res(n, r, vis) == [node |-> n, r |-> r, vis |-> vis]
AddChild(n, c) == [n EXCEPT !.children = Append(@, c)]
SetBool(n, b) == [n EXCEPT !.kind = "Bool", !.bval = b]

(* strip_zext (lines 389-399): walks down a chain of ZExt; on reaching an *)
(* operand of size 1 it returns that operand's own first operand, l1.     *)
RECURSIVE StripLoop(_, _, _)
StripLoop(t, label, i) ==
  IF t[i].op = "ZExt"
  THEN LET j == t[i].l1 IN
       IF t[j].size = 1 THEN t[j].l1 ELSE StripLoop(t, label, j)
  ELSE label

StripZext(t, label) == StripLoop(t, label, label)

(* The operands simplify_{land,lor,xor} work on (lines 406-407 and their  *)
(* copies): a constant lhs is 0, both sides stripped of ZExt.             *)
Lhs(t, info) == IF info.l1 >= CONST_OFFSET THEN StripZext(t, info.l1) ELSE 0
Rhs(t, info) == StripZext(t, info.l2)
Unsimplifiable(t, info) ==
  Rhs(t, info) = info.l2 /\ Lhs(t, info) = info.l1 /\ info.size # 1

RECURSIVE FindRoots(_, _, _, _), VisitOperands(_, _, _, _, _),
          SimplifyAndOr(_, _, _, _, _, _), SimplifyXor(_, _, _, _),
          FoldBoolCmp(_, _, _, _, _)

(* The operand walk shared by the unsimplifiable case of the simplifiers  *)
(* (lines 408-415) and the tail of find_roots (lines 700-707): x, then y, *)
(* both written into the same node ret, their results or'ed.              *)
VisitOperands(t, x, y, ret, vis) ==
  LET a == FindRoots(t, x, ret, vis)
      b == FindRoots(t, y, a.node, a.vis)
  IN Res(b.node, a.r \/ b.r, b.vis)

(* simplify_land (lines 401-469) with z = 0 and k = "LAnd", and           *)
(* simplify_lor (lines 471-538), its dual, with z = 1 and k = "LOr": z    *)
(* absorbs, 1 - z is the identity.  The rhs is parsed first into a new    *)
(* child; a side find_roots found nothing in is read as a constant by its *)
(* boolvalue, whatever the node holds.                                     *)
SimplifyAndOr(t, info, ret, vis, z, k) ==
  LET lhs == Lhs(t, info)
      R   == FindRoots(t, Rhs(t, info), EmptyNode, vis)
      ret1 == AddChild(ret, R.node)
      L   == FindRoots(t, lhs, EmptyNode, R.vis)
      ret2 == AddChild(ret1, L.node)
  IN CASE Unsimplifiable(t, info) -> VisitOperands(t, Rhs(t, info), lhs, ret, vis)
       [] ~R.r /\ R.node.bval = z -> Res(SetBool(ret1, z), FALSE, R.vis)
       [] lhs = 0 /\ info.op1 = z -> Res(SetBool(ret1, z), FALSE, R.vis)
       [] lhs = 0 -> Res(R.node, R.r, R.vis)
       [] ~L.r /\ L.node.bval = z -> Res(SetBool(ret2, z), FALSE, L.vis)
       [] ~L.r /\ ~R.r -> Res(SetBool(ret2, 1 - z), FALSE, L.vis)
       [] ~L.r -> Res(R.node, R.r, L.vis)
       [] OTHER -> Res([ret2 EXCEPT !.kind = k, !.bits = 1], TRUE, L.vis)

\* Mutant of SimplifyLand: the info->op1.i == 0 test on a constant lhs is dropped.
SimplifyLandNoConstCheck(t, info, ret, vis) ==
  SimplifyAndOr(t, [info EXCEPT !.op1 = 1], ret, vis, 0, "LAnd")

SimplifyLand(t, info, ret, vis) == SimplifyAndOr(t, info, ret, vis, 0, "LAnd")
SimplifyLor(t, info, ret, vis) == SimplifyAndOr(t, info, ret, vis, 1, "LOr")

(* simplify_xor (lines 540-596).  A constant rhs turns ret into a Bool;   *)
(* with a constant l1 the result is the folded constant, otherwise the    *)
(* walk goes on with that Bool node.  A constant 1 makes an LNot, two     *)
(* symbolic sides an Xor node (line 594).                                  *)
SimplifyXor(t, info, ret, vis) ==
  LET lhs == Lhs(t, info)
      R   == FindRoots(t, Rhs(t, info), EmptyNode, vis)
      ret0 == [AddChild(ret, R.node) EXCEPT !.bits = 1]
      ret1 == IF R.r THEN ret0 ELSE [ret0 EXCEPT !.kind = "Bool"]
      L   == FindRoots(t, lhs, EmptyNode, R.vis)
      ret2 == AddChild(ret1, L.node)
  IN CASE Unsimplifiable(t, info) -> VisitOperands(t, Rhs(t, info), lhs, ret, vis)
       [] ~R.r /\ info.l1 = 0 ->
            Res([ret1 EXCEPT !.bval = (R.node.bval + info.op1) % 2], FALSE, R.vis)
       [] lhs = 0 /\ info.op1 = 1 -> Res([ret1 EXCEPT !.kind = "LNot"], TRUE, R.vis)
       [] lhs = 0 -> Res(R.node, R.r, R.vis)
       [] ~L.r /\ L.node.bval = 0 -> Res(R.node, R.r, L.vis)
       [] ~L.r -> Res([ret2 EXCEPT !.kind = "LNot"], R.r, L.vis)
       [] OTHER -> Res([ret2 EXCEPT !.kind = "Xor"], TRUE, L.vis)

(* Lines 635-689: an ICmp one of whose sides reduced to a boolean b is    *)
(* folded into b or LNot b when the other side is a constant, and into    *)
(* Bool 0 otherwise.  Any predicate but bveq is read as bvneq.  The fold  *)
(* does not return: the walk goes on to the operands (lines 700-707).     *)
FoldBoolCmp(t, label, b, ret, vis) ==
  LET info  == t[label]
      other == IF b.side = 1 THEN info.l2 ELSE info.l1
      c     == IF b.side = 1 THEN info.op2 ELSE info.op1
      same  == IF info.pred = "bveq" THEN c = 1 ELSE c = 0
      folded == IF same THEN b.node
                ELSE [AddChild(ret, b.node) EXCEPT !.kind = "LNot"]
  IN IF other = 0
     THEN VisitOperands(t, info.l2, info.l1, folded, vis)
     ELSE Res(SetBool(ret, 0), FALSE, vis)

(* find_roots (lines 598-712).                                             *)
FindRoots(t, label, ret, vis) ==
  IF label < CONST_OFFSET \/ label \in vis THEN Res(ret, FALSE, vis)
  ELSE
  LET info == t[label]
      v1 == vis \cup {label}
      L == IF info.l1 >= CONST_OFFSET
           THEN FindRoots(t, StripZext(t, info.l1), EmptyNode, v1)
           ELSE Res(EmptyNode, FALSE, v1)
      R == IF info.l2 >= CONST_OFFSET
           THEN FindRoots(t, StripZext(t, info.l2), EmptyNode, L.vis)
           ELSE Res(EmptyNode, FALSE, L.vis)
  IN CASE info.op \in {"Input", "Load"} -> Res(ret, FALSE, v1)
       [] info.op = "And" -> SimplifyLand(t, info, ret, v1)
       [] info.op = "Or"  -> SimplifyLor(t, info, ret, v1)
       [] info.op = "Xor" -> SimplifyXor(t, info, ret, v1)
       [] info.op = "ICmp" /\ L.r ->
            FoldBoolCmp(t, label, [side |-> 1, node |-> L.node], ret, R.vis)
       [] info.op = "ICmp" /\ R.r ->
            FoldBoolCmp(t, label, [side |-> 2, node |-> R.node], ret, R.vis)
       [] info.op = "ICmp" ->
            Res([ret EXCEPT !.bits = 1, !.kind = OpMap[info.pred], !.label = label],
                TRUE, R.vis)
       [] OTHER -> VisitOperands(t, info.l2, info.l1, ret, v1)

-----------------------------------------------------------------------------
(* construct_tasks, lines 799-809: find_roots from a fresh root node with  *)
(* an empty visited set; a Bool skeleton abandons the branch.              *)
\* Mutant of FindRootsStep: the root->kind() == rgd::Bool test is dropped.
FindRootsStepNoAbandon ==
  /\ pc = "traced"
  /\ skel' = FindRoots(table, root, EmptyNode, {}).node
  /\ pc' = "built"
  /\ UNCHANGED <<table, root>>

FindRootsStep ==
  /\ pc = "traced"
  /\ skel' = FindRoots(table, root, EmptyNode, {}).node
  /\ pc' = IF skel'.kind = "Bool" THEN "abandoned" ELSE "built"
  /\ UNCHANGED <<table, root>>

Init ==
  /\ \E tr \in Traces : table = tr.table /\ root = tr.root
  /\ skel = EmptyNode
  /\ pc = "traced"

Next == FindRootsStep

Spec == Init /\ [][Next]_vars

-----------------------------------------------------------------------------
(* Reference semantics.  An atomic comparison is an ICmp over input bytes *)
(* and constants; a valuation gives each its truth value, 0 or 1, and the *)
(* value of every other label follows from its op.                        *)

Atoms(t) == {l \in DOMAIN t : t[l].op = "ICmp" /\
               \A o \in {t[l].l1, t[l].l2} \ {0} : t[o].op \in {"Input", "Load"}}

Valuations(t) == [Atoms(t) -> {0, 1}]

Holds(pred, a, b) ==
  CASE pred = "bveq" -> a = b            [] pred = "bvneq" -> a # b
    [] pred \in {"bvult", "bvslt"} -> a < b  [] pred \in {"bvule", "bvsle"} -> a <= b
    [] pred \in {"bvugt", "bvsgt"} -> a > b  [] pred \in {"bvuge", "bvsge"} -> a >= b

RECURSIVE Val(_, _, _)
Val(t, l, v) ==
  LET a == IF t[l].l1 >= CONST_OFFSET THEN Val(t, t[l].l1, v) ELSE t[l].op1
      b == IF t[l].l2 >= CONST_OFFSET THEN Val(t, t[l].l2, v) ELSE t[l].op2
  IN CASE l \in DOMAIN v     -> v[l]
       [] t[l].op = "ZExt" -> a
       [] t[l].op = "And"  -> a * b
       [] t[l].op = "Or"   -> IF a + b > 0 THEN 1 ELSE 0
       [] t[l].op = "Xor"  -> (a + b) % 2
       [] t[l].op = "ICmp" -> IF Holds(t[l].pred, a, b) THEN 1 ELSE 0
       [] OTHER -> 0

(* How to_nnf and to_dnf read a skeleton: LAnd and LOr by their first two *)
(* children, LNot by its first, a relational leaf by its label's value.   *)
RECURSIVE SkelVal(_, _, _)
SkelVal(t, n, v) ==
  CASE n.kind = "Bool" -> n.bval = 1
    [] n.kind = "LAnd" -> SkelVal(t, n.children[1], v) /\ SkelVal(t, n.children[2], v)
    [] n.kind = "LOr"  -> SkelVal(t, n.children[1], v) \/ SkelVal(t, n.children[2], v)
    [] n.kind = "LNot" -> ~SkelVal(t, n.children[1], v)
    [] n.kind = "Xor"  -> SkelVal(t, n.children[1], v) # SkelVal(t, n.children[2], v)
    [] OTHER -> Val(t, n.label, v) = 1

-----------------------------------------------------------------------------
(* Properties.                                                              *)

RECURSIVE NodeOK(_)
NodeOK(n) ==
  /\ n.kind \in RelKinds \cup {"Bool", "LAnd", "LOr", "LNot", "Xor"}
  /\ n.label \in {0} \cup LabelIds /\ n.bits \in {0, 1} /\ n.bval \in {0, 1}
  /\ \A i \in DOMAIN n.children : NodeOK(n.children[i])

TypeOK ==
  /\ pc \in {"traced", "abandoned", "built"}
  /\ root \in LabelIds /\ table[root].size = 1
  /\ NodeOK(skel)
  /\ pc = "built" => skel.kind # "Bool"

(* The skeleton find_roots builds means the branch condition: for every   *)
(* valuation of the atomic comparisons it is true exactly when the root   *)
(* label is 1.  When it is a Bool, construct_tasks abandons the branch,   *)
(* which is only right when the condition is that constant.               *)
SkeletonMeaning ==
  pc # "traced" =>
    \A v \in Valuations(table) : SkelVal(table, skel, v) = (Val(table, root, v) = 1)

=============================================================================
