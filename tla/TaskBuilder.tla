----------------------------- MODULE TaskBuilder -----------------------------
(***************************************************************************)
(* The task pipeline of one tracer run in src/driver/aflpp/symsan.cpp:     *)
(* handle_cond -> construct_tasks -> construct_task (with the per-run     *)
(* expr_cache) -> SearchTask::finalize (src/include/task.h).              *)
(*                                                                         *)
(* A Constraint is abstracted to what finalize reads: its input_args       *)
(* (only whether each slot is symbolic, and the global index written into *)
(* it), local_map (input offset -> local arg index), shapes and const_num. *)
(* Constraints are lifted from the run's union table by ExpressionLifter. *)
(***************************************************************************)
EXTENDS NnfDnf, ExpressionLifter

CONSTANTS
  Tables,    \* the union tables a tracer run can write
  Runs       \* the message sequences a tracer run can produce

(* last_offset is a uint32_t initialised to -1.  Offsets are far below    *)
(* 2^31, so the only wrap-around the code meets is the sentinel:          *)
(* 0xFFFFFFFF + 1 = 0.  NoOffset stands for 0xFFFFFFFF and the integer     *)
(* sum NoOffset + 1 - 0 gives that same 0.                                 *)
NoOffset == -1

VARIABLES
  table,       \* the union table in shared memory, written by the tracer
  msgs,        \* cond_type messages still to be read from the pipe
  expr_cache,  \* label -> Constraint, cleared at the start of the run
  tasks,       \* the tasks handed to task_mgr->add_task, in order
  parsed,      \* history: the labels parse_constraint was called on
  fault        \* "none" | "nullptr" | "oob": the fuzzer has crashed

vars == <<table, msgs, expr_cache, tasks, parsed, fault>>

-----------------------------------------------------------------------------
(* SearchTask::finalize (task.h lines 121-205).  `gidx` is declared once   *)
(* outside both loops; the inner loop walks local_map, a std::map, in      *)
(* ascending offset order.                                                 *)

MemcmpKinds == {"Memcmp", "MemcmpN"}

\* Mutant of GlobalIndex: a known offset keeps the gidx of the previous byte.
GlobalIndexStale(st, offset) ==
  IF offset \in DOMAIN st.sym_map THEN st.gidx ELSE Len(st.inputs)

\* Lines 132-142: the global slot of an offset, a new one at the end of inputs.
GlobalIndex(st, offset) ==
  IF offset \in DOMAIN st.sym_map THEN st.sym_map[offset] ELSE Len(st.inputs)

\* Mutant of CmapAdd: emplace overwrites the constraints already recorded.
CmapAddOverwrite(cmap, g, i) == (g :> <<i>>) @@ cmap

\* Lines 146-151: record that constraint i uses global slot g.
CmapAdd(cmap, g, i) ==
  IF g \in DOMAIN cmap THEN [cmap EXCEPT ![g] = Append(@, i)] ELSE cmap @@ (g :> <<i>>)

\* Mutant of RunBreak: the `last_offset != -1` test is missing.
RunBreakNoFirstCheck(st, offset) == (st.last_offset + 1) # offset

\* Line 159: a byte that does not follow the previous one starts a new run.
RunBreak(st, offset) == st.last_offset # NoOffset /\ (st.last_offset + 1) # offset

\* Mutant of RecordInput: the offset is not entered in sym_map.
RecordInputNoSymMap(st, offset, c) ==
  [st EXCEPT !.inputs = Append(@, offset),
             !.shapes = @ @@ (offset :> c.shapes[offset])]

\* Lines 135-138: a byte seen for the first time gets the next global slot.
RecordInput(st, offset, c) ==
  [st EXCEPT !.sym_map = @ @@ (offset :> Len(st.inputs)),
             !.inputs  = Append(@, offset),
             !.shapes  = @ @@ (offset :> c.shapes[offset])]

\* Lines 129-168: one input byte of constraint i.
FinalizeByte(st, i, c, offset) ==
  LET found == offset \in DOMAIN st.sym_map
      g     == GlobalIndex(st, offset)
      lidx  == c.local_map[offset]
      cm    == st.cm
      brk   == RunBreak(st, offset)
      st1   == IF found THEN st ELSE RecordInput(st, offset, c)
  IN [st1 EXCEPT
        !.gidx    = g,
        !.cmap    = IF cm.comparison \in MemcmpKinds THEN @ ELSE CmapAdd(@, g, i),
        !.cm      = [cm EXCEPT
                       !.input_args[lidx + 1].g = g,
                       !.i2s = IF brk THEN Append(@, <<(st.last_offset + 1 - st.size), st.size>>)
                               ELSE @],
        !.size        = IF brk THEN 1 ELSE @ + 1,
        !.last_offset = offset]

\* Mutant of FinalizeConstraint: the ConsMeta is never pushed.
FinalizeConstraintNoPush(st, i, c, comparison) ==
  LET st0 == [st EXCEPT !.cm = [input_args |-> c.input_args, comparison |-> comparison,
                                i2s |-> <<>>],
                        !.last_offset = NoOffset, !.size = 0]
      st1 == FoldLeft(LAMBDA acc, o : FinalizeByte(acc, i, c, o),
                      st0, SetToSortSeq(DOMAIN c.local_map, <))
  IN [st1 EXCEPT !.max_const_num = IF @ < c.const_num THEN c.const_num ELSE @]

(* Lines 124-195: constraint i with the comparison comparisons[i]; the     *)
(* last run of consecutive bytes is pushed after the loop (line 170).     *)
FinalizeConstraint(st, i, c, comparison) ==
  LET st0 == [st EXCEPT !.cm = [input_args |-> c.input_args, comparison |-> comparison,
                                i2s |-> <<>>],
                        !.last_offset = NoOffset, !.size = 0]
      st1 == FoldLeft(LAMBDA acc, o : FinalizeByte(acc, i, c, o),
                      st0, SetToSortSeq(DOMAIN c.local_map, <))
      cm1 == [st1.cm EXCEPT !.i2s = Append(@, <<(st1.last_offset + 1 - st1.size), st1.size>>)]
  IN [st1 EXCEPT !.consmeta = Append(@, cm1),
                 !.max_const_num = IF @ < c.const_num THEN c.const_num ELSE @]

\* finalize() for the task's constraints and the comparisons it reads.
Finalize(cons, comparisons) ==
  LET st0 == [sym_map |-> <<>>, gidx |-> 0, inputs |-> <<>>, shapes |-> <<>>,
              cmap |-> <<>>, consmeta |-> <<>>, max_const_num |-> 0,
              cm |-> Null, last_offset |-> NoOffset, size |-> 0]
      st == FoldLeft(LAMBDA acc, i : FinalizeConstraint(acc, i, cons[i], comparisons[i]),
                     st0, [k \in 1..Len(cons) |-> k])
  IN [constraints |-> cons, inputs |-> st.inputs, shapes |-> st.shapes,
      cmap |-> st.cmap, consmeta |-> st.consmeta, max_const_num |-> st.max_const_num]

-----------------------------------------------------------------------------
(* construct_task (lines 361-382).  A leaf whose label is in expr_cache    *)
(* reuses the cached Constraint as it is; otherwise the leaf is parsed,    *)
(* tagged with the leaf's (post-NNF) comparison and cached.  parse_constraint *)
(* returning nullptr makes line 375 write through it: the fuzzer crashes.  *)

\* Mutant of LeafStep: expr_cache is filled but never consulted.
LeafStepNoCache(acc, node) ==
  LET c == ParseConstraint(table, node.label) IN
  IF acc.fault # "none" THEN acc
  ELSE IF c = Null THEN [acc EXCEPT !.fault = "nullptr"]
  ELSE LET c2 == [c EXCEPT !.kind = node.kind, !.ast.kind = node.kind] IN
       [acc EXCEPT !.cons = Append(@, c2), !.cache = (node.label :> c2) @@ @,
                   !.parsed = Append(@, node.label)]

\* Lines 364-378: one leaf of the clause.
LeafStep(acc, node) ==
  LET c == ParseConstraint(table, node.label) IN
  IF acc.fault # "none" THEN acc
  ELSE IF node.label \in DOMAIN acc.cache
       THEN [acc EXCEPT !.cons = Append(@, acc.cache[node.label])]
  ELSE IF c = Null THEN [acc EXCEPT !.fault = "nullptr"]
  ELSE LET c2 == [c EXCEPT !.kind = node.kind, !.ast.kind = node.kind] IN
       [acc EXCEPT !.cons = Append(@, c2), !.cache = (node.label :> c2) @@ @,
                   !.parsed = Append(@, node.label)]

(* Line 380: finalize() reads comparisons[i], a vector construct_task     *)
(* never fills.  Reading element i of an empty std::vector is undefined:  *)
(* the build either faults on the null data pointer or reads whatever is  *)
(* there.  Of that value finalize only tells apart Memcmp/MemcmpN from    *)
(* the rest.                                                               *)
ComparisonReads(n) ==
  {[crash |-> TRUE, value |-> <<>>]}
  \cup {[crash |-> FALSE, value |-> v] : v \in [1..n -> {"Memcmp", "Other"}]}

(* construct_task for one clause; acc carries the run's expr_cache, the    *)
(* labels parsed so far and the fault, if any.  The task keeps its clause *)
(* so that properties can compare the two.                                 *)
ConstructTask(acc, clause, read) ==
  LET a1 == FoldLeft(LeafStep, [acc EXCEPT !.cons = <<>>], clause) IN
  IF a1.fault # "none" THEN a1
  ELSE IF read.crash THEN [a1 EXCEPT !.fault = "oob"]
  ELSE [a1 EXCEPT !.tasks = Append(@, [clause |-> clause] @@ Finalize(a1.cons, read.value))]

-----------------------------------------------------------------------------
(* One tracer run's branch messages.  A message is the skeleton find_roots *)
(* returns for the branch label (the FormulaSimplifier is modelled        *)
(* elsewhere), the direction taken, and whether it is tainted at all.     *)


(* CovManager::is_branch_interesting (cov.h, not under src/): whether the  *)
(* flipped branch reaches a new edge.  Either answer is possible.          *)
IsBranchInteresting == BOOLEAN

\* handle_cond (lines 840-863) with construct_tasks (lines 793-838).
handle_cond ==
  /\ fault = "none" /\ msgs # <<>>
  /\ LET m == Head(msgs) IN
     \/ /\ ~m.tainted
        /\ UNCHANGED <<expr_cache, tasks, parsed, fault>>
     \/ /\ m.tainted
        /\ \E interesting \in IsBranchInteresting :
             \/ /\ ~interesting \/ m.formula = BoolNode
                /\ UNCHANGED <<expr_cache, tasks, parsed, fault>>
             \/ /\ interesting /\ m.formula # BoolNode
                /\ LET dnf == ToDnf(ToNnf(~m.taken, m.formula), <<>>)
                       n   == Len(dnf)
                       longest == Max({Len(dnf[k]) : k \in 1..n})
                       acc0 == [cache |-> expr_cache, parsed |-> parsed, fault |-> "none",
                                tasks |-> tasks, cons |-> <<>>]
                   IN \E reads \in [1..n -> ComparisonReads(longest)] :
                        LET acc == FoldLeft(LAMBDA a, k : ConstructTask(a, dnf[k], reads[k]),
                                            acc0, [k \in 1..n |-> k])
                        IN /\ expr_cache' = acc.cache /\ parsed' = acc.parsed
                           /\ fault' = acc.fault
                           /\ tasks' = IF acc.fault = "none" THEN acc.tasks ELSE tasks
  /\ msgs' = Tail(msgs)
  /\ UNCHANGED table

Next == handle_cond

Init ==
  /\ table \in Tables
  /\ msgs \in Runs
  /\ expr_cache = <<>>   \* clear_global_caches() at line 1067
  /\ tasks = <<>> /\ parsed = <<>> /\ fault = "none"

Spec == Init /\ [][Next]_vars

-----------------------------------------------------------------------------
(* Properties.  Constraint and ConsMeta indices are 1-based here; global   *)
(* input slots g are 0-based as in the code, so slot g is inputs[g + 1].   *)

TypeOK ==
  /\ fault \in {"none", "nullptr", "oob"}
  /\ DOMAIN expr_cache \subseteq Labels
  /\ parsed \in Seq(Labels)
  /\ \A t \in ToSet(tasks) :
       /\ Len(t.consmeta) = Len(t.constraints)
       /\ Len(t.constraints) = Len(t.clause)
       /\ t.max_const_num \in Nat

(* Spec invariant 10: after finalize, every symbolic argument of every     *)
(* ConsMeta names the global slot that holds that argument's own input    *)
(* byte (the slot finalize rewrites input_args[lidx].second to).          *)
ArgsPointAtOwnByte ==
  \A t \in ToSet(tasks) : \A i \in 1..Len(t.constraints) :
    LET c == t.constraints[i] IN
    \A o \in DOMAIN c.local_map :
      LET g == t.consmeta[i].input_args[c.local_map[o] + 1].g IN
      g < Len(t.inputs) /\ t.inputs[g + 1] = o

(* Spec invariant 3: a finalized task's inputs hold every offset any of    *)
(* its constraints reads, each exactly once, even when constraints share  *)
(* bytes.                                                                  *)
InputsExactlyOnce ==
  \A t \in ToSet(tasks) :
    /\ IsInjective(t.inputs)
    /\ ToSet(t.inputs) = UNION {DOMAIN t.constraints[i].local_map : i \in 1..Len(t.constraints)}

\* The maximal runs of consecutive offsets of a non-empty set, as (start, length).
MaximalRuns(S) ==
  {<<s, n>> \in S \X (1..Cardinality(S)) :
     /\ s - 1 \notin S /\ s + n \notin S
     /\ \A k \in 0..(n - 1) : s + k \in S}

(* The i2s_candidates of each ConsMeta are exactly the maximal runs of     *)
(* consecutive input bytes of its constraint, in ascending order (the      *)
(* run detection of finalize lines 155-170).                               *)
I2sRuns ==
  \A t \in ToSet(tasks) : \A i \in 1..Len(t.constraints) :
    LET S == DOMAIN t.constraints[i].local_map
        r == t.consmeta[i].i2s
    IN S # {} =>
       /\ ToSet(r) = MaximalRuns(S) /\ Len(r) = Cardinality(MaximalRuns(S))
       /\ \A k \in 1..(Len(r) - 1) : r[k][1] < r[k + 1][1]

(* cmap maps each global slot to exactly the constraints that read its     *)
(* byte, leaving out those whose comparison is a memcmp (spec: cmap        *)
(* excludes Memcmp and MemcmpN).  Two constraints sharing a byte must both *)
(* be listed.                                                              *)
CmapIndex ==
  \A t \in ToSet(tasks) : \A g \in 0..(Len(t.inputs) - 1) : \A i \in 1..Len(t.constraints) :
    (g \in DOMAIN t.cmap /\ i \in ToSet(t.cmap[g]))
      <=> (t.inputs[g + 1] \in DOMAIN t.constraints[i].local_map
           /\ t.consmeta[i].comparison \notin MemcmpKinds)

(* Spec scenario B: within one tracer run the expression cache makes each  *)
(* relational label be lifted at most once, however many branches and    *)
(* DNF clauses mention it.                                                 *)
ParsedOnce == IsInjective(parsed)

(* Spec 4.5: every constraint of a task is solved with the comparison of   *)
(* its clause leaf, the post-NNF polarity, also when the constraint came  *)
(* from expr_cache.                                                        *)
PolarityKept ==
  \A t \in ToSet(tasks) : \A j \in 1..Len(t.clause) :
    t.constraints[j].kind = t.clause[j].kind

(* Spec 4.2: within one parse_constraint no label is expanded twice.  The  *)
(* visited set of do_uta_rel is filled only after an operand's walk        *)
(* returns, and a label met again, under the same node or in another      *)
(* subtree, becomes a placeholder carrying its label and width.           *)
LabelsExpandedOnce ==
  \A l \in DOMAIN expr_cache : IsInjective(Expanded(expr_cache[l].ast))

(* The argument list of every cached Constraint matches its AST and the   *)
(* union table: the Constant leaves name, one each, exactly the constant  *)
(* slots of input_args and const_num counts them, and local_map gives a   *)
(* distinct symbolic slot to exactly the input bytes the label's          *)
(* expression reads (do_uta_rel with map_arg, lines 162-344).             *)
ArgsMatchAst ==
  \A l \in DOMAIN expr_cache :
    LET c     == expr_cache[l]
        K     == ConstSlots(c.ast)
        slots == 0..(Len(c.input_args) - 1)
    IN /\ IsInjective(K) /\ Len(K) = c.const_num
       /\ ToSet(K) = {i \in slots : ~c.input_args[i + 1].sym}
       /\ DOMAIN c.local_map = BytesOf(table, l)
       /\ IsInjective(c.local_map)
       /\ Range(c.local_map) = {i \in slots : c.input_args[i + 1].sym}

(* Spec 4.2, Concat width: the two operands of every Concat node of a      *)
(* lifted AST add up to its width, also when one of them is a constant,   *)
(* whose width do_uta_rel derives from the other operand (lines 273-281,  *)
(* 315-323).                                                               *)
ConcatWidths ==
  \A l \in DOMAIN expr_cache : \A n \in Concats(expr_cache[l].ast) :
    n.children[1].bits + n.children[2].bits = n.bits

(* A label do_uta_rel meets again becomes a placeholder with only its      *)
(* label and width (lines 204-208), and what it stands for is found only   *)
(* through the node that expanded that label.  In every cached Constraint *)
(* each placeholder comes after such a node in post-order, children first *)
(* and left to right, and has its width: the visited set is filled only   *)
(* after a walk returns (lines 268, 310), never before it starts.         *)
PlaceholdersResolved ==
  \A l \in DOMAIN expr_cache :
    LET s == PostOrder(expr_cache[l].ast) IN
    \A i \in 1..Len(s) : s[i].kind = "Bool" =>
      \E j \in 1..(i - 1) : /\ s[j].label = s[i].label /\ s[j].bits = s[i].bits
                          /\ s[j].kind \notin {"Bool", "Constant"}

=============================================================================
