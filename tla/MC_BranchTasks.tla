--------------------------- MODULE MC_BranchTasks ---------------------------
(* Instantiation of BranchTasks for TLC over the union tables of           *)
(* MC_FindRoots.                                                           *)
EXTENDS BranchTasks, MC_FindRoots

\* Trees without an i1 xor of two comparisons, which find_roots turns into
\* an Xor node; what is left is the LAnd/LOr/LNot logic clang emits.
MCNoXorNode == {tr \in MCTrees : \A l \in DOMAIN tr.table :
                  ~(tr.table[l].op = "Xor" /\ tr.table[l].size = 1
                    /\ tr.table[l].l1 # 0 /\ tr.table[l].l2 # 0)}
=============================================================================
