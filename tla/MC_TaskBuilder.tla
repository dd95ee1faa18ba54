--------------------------- MODULE MC_TaskBuilder ---------------------------
(* Instantiation of TaskBuilder for TLC.  Four ICmp labels over the       *)
(* input bytes 0, 1 and 3 of a union table:                                *)
(*   1: a comparison of a 16-bit value built from bytes 0-1 with a         *)
(*      constant: the plain load, a Concat of a constant with byte 1, an   *)
(*      Extract of the load, the load added to itself, or the load        *)
(*      compared with its own first byte;                                  *)
(*   2: byte 1 compared with a constant (it shares byte 1 with label 1);   *)
(*   3: byte 3 compared with byte 0 (local order differs from offset       *)
(*      order; two runs of bytes), or a ZExt of byte 3 compared with a     *)
(*      Concat of byte 3 and a constant, which meets label 8 twice;        *)
(*   4: a comparison over an operation OP_MAP does not know, so do_uta_rel *)
(*      fails.                                                             *)
(* A tracer run reads two branch messages.                                 *)
EXTENDS TaskBuilder, TLC

MCLabels == {1, 2, 3, 4}
MCOrigKind == (1 :> "Equal") @@ (2 :> "Ult") @@ (3 :> "Sle") @@ (4 :> "Equal")

Info(op, pred, size, l1, l2, op1, op2) ==
  [op |-> op, pred |-> pred, size |-> size, l1 |-> l1, l2 |-> l2, op1 |-> op1, op2 |-> op2]

\* Labels 2 and 4-9, the same in every table.
MCBase ==
  (2 :> Info("ICmp", "bvult", 1, 6, 0, 0, 9))
  @@ (4 :> Info("ICmp", "bveq", 1, 9, 0, 0, 0))
  @@ (5 :> Info("Input", "none", 8, 0, 0, 0, 0))
  @@ (6 :> Info("Input", "none", 8, 0, 0, 1, 0))
  @@ (7 :> Info("Load", "none", 16, 5, 2, 0, 0))
  @@ (8 :> Info("Input", "none", 8, 0, 0, 3, 0))
  @@ (9 :> Info("fsize", "none", 64, 0, 0, 0, 0))

\* Label 1 and the label 10 it may be built on.
MCLabel1 ==
  { (1 :> Info("ICmp", "bveq", 1, 7, 0, 0, 5)) @@ (10 :> Info("Input", "none", 8, 0, 0, 2, 0)),
    (1 :> Info("ICmp", "bveq", 1, 10, 0, 0, 5)) @@ (10 :> Info("Concat", "none", 16, 0, 6, 7, 0)),
    (1 :> Info("ICmp", "bveq", 1, 10, 0, 0, 5)) @@ (10 :> Info("Extract", "none", 8, 7, 0, 0, 8)),
    (1 :> Info("ICmp", "bveq", 1, 10, 7, 0, 0)) @@ (10 :> Info("Add", "none", 16, 7, 7, 0, 0)),
    (1 :> Info("ICmp", "bveq", 1, 7, 10, 0, 0)) @@ (10 :> Info("ZExt", "none", 16, 5, 0, 0, 0)) }

\* Label 3 and the labels 11 and 12 it may be built on.
MCLabel3 ==
  { (3 :> Info("ICmp", "bvsle", 1, 8, 5, 0, 0))
      @@ (11 :> Info("Input", "none", 8, 0, 0, 4, 0)) @@ (12 :> Info("Input", "none", 8, 0, 0, 5, 0)),
    (3 :> Info("ICmp", "bvsle", 1, 11, 12, 0, 0))
      @@ (11 :> Info("ZExt", "none", 16, 8, 0, 0, 0)) @@ (12 :> Info("Concat", "none", 16, 8, 0, 0, 1)) }

MCTables == {MCBase @@ t1 @@ t3 : t1 \in MCLabel1, t3 \in MCLabel3}

\* Skeletons find_roots can return over these labels.
MCFormulas ==
  LET a12 == Node("LAnd", <<Leaf(1), Leaf(2)>>) IN
  { Leaf(1), a12,
    Node("LOr", <<Leaf(3), a12>>),
    Node("LNot", <<Node("LOr", <<Leaf(2), Leaf(3)>>)>>),
    Leaf(4), BoolNode }

MCMsgs ==
  {[tainted |-> TRUE, formula |-> f, taken |-> b] : f \in MCFormulas, b \in BOOLEAN}
  \cup {[tainted |-> FALSE, formula |-> BoolNode, taken |-> FALSE]}

MCRuns == {<<m1, m2>> : m1, m2 \in MCMsgs}
=============================================================================
