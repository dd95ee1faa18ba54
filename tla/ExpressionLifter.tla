--------------------------- MODULE ExpressionLifter ---------------------------
(***************************************************************************)
(* The expression lifter of src/driver/aflpp/symsan.cpp: parse_constraint, *)
(* do_uta_rel and map_arg, which turn the ICmp label of a clause leaf into *)
(* a Constraint, its AST and the mapping of its arguments.                 *)
(*                                                                         *)
(* The union table has the format of FindRoots: a function from labels to  *)
(* dfsan_label_info records [op, pred, size, l1, l2, op1, op2]; an Input   *)
(* label reads the byte at offset op1, a Load label reads l2 bytes from    *)
(* the offset of its Input label l1, and an operand label below            *)
(* CONST_OFFSET is the constant op1 / op2.  An AstNode is a record         *)
(* [kind, bits, label, index, children]; the structural hash (xxhash) and  *)
(* the byte values of `inputs` and of constants are left out.             *)
(* do_uta_rel threads the Constraint and the visited set through the walk, *)
(* so the recursion returns [ok, node, c, vis].                            *)
(***************************************************************************)
EXTENDS Integers, SequencesExt, FiniteSets

CONSTANT Null   \* the nullptr parse_constraint returns

CONST_OFFSET == 1

(* OP_MAP (lines 115-145): the rgd kind of each operation and of each      *)
(* relational predicate of an ICmp.                                        *)
OpKinds ==
  [Extract |-> "Extract", Trunc |-> "Extract", Concat |-> "Concat",
   ZExt |-> "ZExt", SExt |-> "SExt", Add |-> "Add", Sub |-> "Sub",
   UDiv |-> "UDiv", SDiv |-> "SDiv", SRem |-> "SRem", Shl |-> "Shl",
   LShr |-> "LShr", AShr |-> "AShr", And |-> "And", Or |-> "Or", Xor |-> "Xor"]
PredKinds ==
  [bveq |-> "Equal", bvneq |-> "Distinct", bvugt |-> "Ugt", bvuge |-> "Uge",
   bvult |-> "Ult", bvule |-> "Ule", bvsgt |-> "Sgt", bvsge |-> "Sge",
   bvslt |-> "Slt", bvsle |-> "Sle"]

\* OP_MAP.find(info->op) != OP_MAP.end()
InOpMap(info) ==
  \/ info.op \in DOMAIN OpKinds
  \/ info.op = "ICmp" /\ info.pred \in DOMAIN PredKinds

LiftKind(info) == IF info.op = "ICmp" THEN PredKinds[info.pred] ELSE OpKinds[info.op]

UnaryOps == {"ZExt", "SExt", "Extract", "Trunc"}

EmptyConstraint == [input_args |-> <<>>, local_map |-> <<>>,
                    shapes |-> <<>>, const_num |-> 0, label |-> 0, kind |-> "none",
                    ast |-> Null]

-----------------------------------------------------------------------------
(* map_arg (lines 162-185), one byte at a time: a byte not yet in          *)
(* local_map gets the next input_args slot; the first byte of the load     *)
(* records the load's length as its shape, the others record 0.           *)

\* Mutant of MapArgByte: a byte already in local_map gets a new slot anyway.
MapArgByteNoFind(c, offset, first, length) ==
  LET c1 == [c EXCEPT !.local_map  = (offset :> Len(c.input_args)) @@ @,
                      !.input_args = Append(@, [sym |-> TRUE, g |-> 0])]
  IN [c1 EXCEPT !.shapes = (offset :> IF first THEN length ELSE 0) @@ @]

MapArgByte(c, offset, first, length) ==
  LET c1 == IF offset \in DOMAIN c.local_map THEN c
            ELSE [c EXCEPT !.local_map  = @ @@ (offset :> Len(c.input_args)),
                           !.input_args = Append(@, [sym |-> TRUE, g |-> 0])]
  IN [c1 EXCEPT !.shapes = (offset :> IF first THEN length ELSE 0) @@ @]

RECURSIVE MapArgFrom(_, _, _, _)
MapArgFrom(c, offset, i, length) ==
  IF i >= length THEN c
  ELSE MapArgFrom(MapArgByte(c, offset + i, i = 0, length), offset, i + 1, length)

MapArg(c, offset, length) == MapArgFrom(c, offset, 0, length)

-----------------------------------------------------------------------------
(* do_uta_rel (lines 188-344).                                             *)

Lifted(ok, n, c, vis) == [ok |-> ok, node |-> n, c |-> c, vis |-> vis]
AstNode(kind, bits, label, index, cs) ==
  [kind |-> kind, bits |-> bits, label |-> label, index |-> index, children |-> cs]

\* Lines 203-208: a visited label becomes a node with only label and bits
\* set; the rest keeps the defaults of a new AstNode (kind Bool).
Placeholder(label, bits) == AstNode("Bool", bits, label, 0, <<>>)

(* Lines 211-244: an input byte or a load becomes a Read leaf of the       *)
(* loaded width at its offset, its bytes mapped by map_arg.               *)
ReadLeaf(t, label, c, vis) ==
  LET info == t[label]
      off  == IF info.op = "Input" THEN info.op1 ELSE t[info.l1].op1
      len  == IF info.op = "Input" THEN 1 ELSE info.l2
  IN Lifted(TRUE, AstNode("Read", len * 8, label, off, <<>>), MapArg(c, off, len), vis)

\* Mutant of ConstLeaf: the Concat special case is missing.
ConstLeafFullWidth(t, info, other, c, vis) ==
  Lifted(TRUE, AstNode("Constant", info.size, 0, Len(c.input_args), <<>>),
         [c EXCEPT !.input_args = Append(@, [sym |-> FALSE, g |-> 0]),
                   !.const_num  = @ + 1],
         vis)

(* Lines 269-294 and 311-335: an operand below CONST_OFFSET becomes a      *)
(* Constant leaf with the next input_args slot; the constant of a Concat  *)
(* is as wide as the node less the other operand.                          *)
ConstLeaf(t, info, other, c, vis) ==
  LET bits == IF info.op = "Concat" THEN info.size - t[other].size ELSE info.size
  IN Lifted(TRUE, AstNode("Constant", bits, 0, Len(c.input_args), <<>>),
            [c EXCEPT !.input_args = Append(@, [sym |-> FALSE, g |-> 0]),
                      !.const_num  = @ + 1],
            vis)

RECURSIVE DoUtaRel(_, _, _, _)

\* Mutant of Operand: the walked operand is never added to visited.
OperandNoVisit(t, info, x, other, c, vis) ==
  IF x >= CONST_OFFSET THEN DoUtaRel(t, x, c, vis) ELSE ConstLeaf(t, info, other, c, vis)

\* Mutant of Operand: the operand is marked visited before its walk.
OperandVisitFirst(t, info, x, other, c, vis) ==
  IF x >= CONST_OFFSET THEN DoUtaRel(t, x, c, vis \cup {x}) ELSE ConstLeaf(t, info, other, c, vis)

\* Lines 263-294 / 305-335: one operand, recorded as visited after its walk.
Operand(t, info, x, other, c, vis) ==
  IF x >= CONST_OFFSET
  THEN LET r == DoUtaRel(t, x, c, vis) IN
       IF r.ok THEN [r EXCEPT !.vis = @ \cup {x}] ELSE r
  ELSE ConstLeaf(t, info, other, c, vis)

(* Lines 249-343: an operation OP_MAP knows, its first operand, and its    *)
(* second unless it is unary; an Extract keeps its offset op2 in index.    *)
OpNode(t, label, c, vis) ==
  LET info == t[label]
      l    == Operand(t, info, info.l1, info.l2, c, vis)
      mk(cs, idx) == AstNode(LiftKind(info), info.size, label, idx, cs)
  IN IF ~l.ok THEN l
     ELSE IF info.op \in UnaryOps
     THEN Lifted(TRUE, mk(<<l.node>>, IF info.op = "Extract" THEN info.op2 ELSE 0), l.c, l.vis)
     ELSE LET r == Operand(t, info, info.l2, info.l1, l.c, l.vis) IN
          IF ~r.ok THEN r ELSE Lifted(TRUE, mk(<<l.node, r.node>>, 0), r.c, r.vis)

DoUtaRel(t, label, c, vis) ==
  IF label < CONST_OFFSET THEN Lifted(FALSE, Null, c, vis)
  ELSE IF label \in vis THEN Lifted(TRUE, Placeholder(label, t[label].size), c, vis)
  ELSE IF t[label].op \in {"Input", "Load"} THEN ReadLeaf(t, label, c, vis)
  ELSE IF ~InOpMap(t[label]) THEN Lifted(FALSE, Null, c, vis)
  ELSE OpNode(t, label, c, vis)

(* parse_constraint (lines 346-359): a fresh Constraint and visited set;   *)
(* nullptr when do_uta_rel fails.                                          *)
ParseConstraint(t, label) ==
  LET r == DoUtaRel(t, label, EmptyConstraint, {}) IN
  IF r.ok THEN [r.c EXCEPT !.ast = r.node, !.label = label] ELSE Null

-----------------------------------------------------------------------------
(* Reference definitions the properties compare the lifter with.           *)

\* The labels of the AST's expanded nodes (not placeholders or constants).
RECURSIVE Expanded(_)
Expanded(n) ==
  LET rest == FlattenSeq([i \in 1..Len(n.children) |-> Expanded(n.children[i])])
  IN IF n.kind \in {"Bool", "Constant"} THEN <<>> ELSE <<n.label>> \o rest

\* The input_args slots the AST's Constant leaves name, in tree order.
RECURSIVE ConstSlots(_)
ConstSlots(n) ==
  IF n.kind = "Constant" THEN <<n.index>>
  ELSE FlattenSeq([i \in 1..Len(n.children) |-> ConstSlots(n.children[i])])

\* The AST's nodes children first, left to right.
RECURSIVE PostOrder(_)
PostOrder(n) ==
  FlattenSeq([i \in 1..Len(n.children) |-> PostOrder(n.children[i])]) \o <<n>>

RECURSIVE Concats(_)
\* The Concat nodes of the AST.
Concats(n) ==
  (IF n.kind = "Concat" THEN {n} ELSE {})
  \cup UNION {Concats(n.children[i]) : i \in 1..Len(n.children)}

(* The input bytes the expression of a label reads, found by walking every *)
(* operand of the union table with no visited set.                         *)
RECURSIVE BytesOf(_, _)
BytesOf(t, l) ==
  CASE l < CONST_OFFSET -> {}
    [] t[l].op = "Input" -> {t[l].op1}
    [] t[l].op = "Load"  -> {t[t[l].l1].op1 + k : k \in 0..(t[l].l2 - 1)}
    [] OTHER -> BytesOf(t, t[l].l1) \cup
                (IF t[l].op \in UnaryOps THEN {} ELSE BytesOf(t, t[l].l2))

=============================================================================
