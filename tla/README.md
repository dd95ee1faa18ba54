# TLA+ models of the SymSan AFL++ custom mutator

This directory holds TLA+ models of `src/driver/aflpp/symsan.cpp` and `src/include/task.h`, and the TLC configurations that check them.
The driver is a custom mutator for AFL++:

- For every new queue entry it runs a taint-tracing build of the target (the *tracer*).
- It turns each interesting branch condition into search tasks.
- It feeds the solutions of those tasks back to AFL++ as mutations.

Each model is translated from the source. Where the code under `src/` calls something that is not there (TaskManager, CovManager, the solvers, `negate_cmp`), that part is modelled from `spec.md` and marked `spec_modelled` in `PROJECT.json`.

## The system and how its parts interact

| Part | Code | What it does |
|---|---|---|
| Driver state | `my_mutator_t` (symsan.cpp 67-107), `afl_custom_init` (877-947) | The current task, solver index and stage, mutation state, the solvers, the traced entries, the current queue entry. |
| Trace stage | `afl_custom_fuzz_count` (1026-1130), `spawn_symsan_child` (954-1019) | Traces an entry once: fork, read `pipe_msg`s, `handle_cond` on each branch. Returns *tasks x total stages* as the number of `fuzz` calls. |
| Branch handler | `handle_cond` (840-863), `construct_tasks` (793-838) | For an interesting flipped branch: `find_roots` → `to_nnf` → `to_dnf` → one `construct_task` per DNF clause → `add_task`. |
| Formula simplifier | `find_roots`, `simplify_land/lor/xor`, `strip_zext` (389-712) | Builds a boolean skeleton (LAnd/LOr/LNot over ICmp leaves) from the label graph. |
| NNF/DNF rewriter | `to_nnf` (727-762), `to_dnf` (766-791) | Pushes the target polarity down and splits the skeleton into clauses. |
| Expression lifter | `do_uta_rel` (188-344), `map_arg` (162-185), `parse_constraint` (346-359) | Lifts one ICmp label into a `Constraint`: AST, input bytes, argument slots. |
| Task builder | `construct_task` (361-382), `expr_cache` (151-160), `SearchTask::finalize` (task.h 121-205) | Shares constraints through the per-run cache and aggregates them into a task: global input slots, `cmap`, `i2s_candidates`, shapes. |
| Solve stage | `afl_custom_fuzz` (1132-1204) | Pops tasks FIFO, walks solvers x stages, calls `solve()`, returns the mutation. |
| Feedback | `afl_custom_queue_new_entry` (1207-1220) | Marks the candidate VALIDATED when AFL++ keeps a mutation of the current entry. |
| Not under `src/` | TaskManager, CovManager, Z3/JIT solvers, `ast.h` | Modelled from the spec, at the level of detail the driver needs. |

AFL++ calls the callbacks in this order for each queue entry:

1. `fuzz_count`, which also drops the current task.
2. `fuzz`, `stage_max` times, running each mutation.
3. `queue_new_entry`, whenever any stage finds a new entry derived from the current one.

The driver's progress on a task (`cur_solver_index`, `cur_solver_stage`, `cur_mutation_state`) is carried across these calls. Most of the hard behaviour comes from that.

## Modules

| Module | Models | State / actions |
|---|---|---|
| `SymSanDriver` | the three callbacks, the FIFO TaskManager, the AFL++ host loop | VARIABLES are the `my_mutator_t` fields, the task queue, the host's `queue_cur`, phase and remaining calls. Actions: `afl_custom_fuzz_count` (skip / spawn failure / run yielding `k` tasks), `afl_custom_fuzz` (a chain of record transformers, one per block: `FetchTask`, `BumpStage`, `NextSolver`, `ApplyResult`), `afl_custom_queue_new_entry`, and the host steps `HostPick`, `HostValidate`, `HostOtherStage`. |
| `PipeProtocol` | the `fuzz_count` message loop (1042-1115) and `spawn_symsan_child`'s outcomes | VARIABLES: the tracer's records, the units written and consumed, the tracer's state, `pid`, the loop's position (`rpc`), the last `pipe_msg`, the labels handed to `handle_cond`, `memcmp_cache`. Actions: the tracer writes one message (split if longer than `PipeBuf`), exits or crashes; the driver spawns, reads a header, a gep_msg or a memcmp_msg, and waits. A field read from a unit of another kind is garbage, one the read did not reach keeps its old value. |
| `TaskQueue` | the task discipline the callbacks promise, without solvers, stages or host | Abstract spec. VARIABLES: traced entries, pending tasks, the task in hand. Actions: Trace (append the entry's tasks, drop the task in hand), TraceFailed, Take (pop the oldest, possibly retiring it at once), Retire. `WF(Take)`. |
| `FindRoots` | `find_roots`, `strip_zext`, `simplify_land/lor/xor`, the abandon step of `construct_tasks` | VARIABLES: the union table, the branch label, the AstNode built, and `pc`. `FindRoots`, `SimplifyAndOr` (land with z = 0, lor with z = 1), `SimplifyXor`, `FoldBoolCmp` and `VisitOperands` are mutually RECURSIVE. They thread the node they write into and the visited set, because `find_roots` may be handed the same node twice. A default AstNode is kind Bool with boolvalue 0, and the simplifiers read a side that found nothing by that boolvalue. One action, `FindRootsStep`. The reference semantics `Val` (the value of a label, given the truth of the atomic comparisons) and `SkelVal` (how `to_nnf`/`to_dnf` read a skeleton) check it. |
| `NnfDnf` | `to_nnf`, `to_dnf`, `negate_cmp`, the skeleton | Pure RECURSIVE operators, plus a truth-table semantics (`Eval`, `NnfEval`, `DnfValue`) used as the reference. |
| `FormulaRewrite` | `construct_tasks` for one branch | One step: abandon a constant formula, or rewrite it and parse every clause leaf (`crashed` if a leaf cannot be parsed). |
| `BranchTasks` | `construct_tasks` end to end (793-838) with `handle_cond`'s target direction | Composition: EXTENDS `FindRoots` and `RW == INSTANCE FormulaRewrite WITH formula <- skel, pc <- rwpc`. Steps: `FindRootsPhase` (find_roots and the constant check), then `RewritePhase` (to_nnf, to_dnf, construct_task) on the skeleton just built. Leaves are evaluated through the union table (`Val`), so FormulaRewrite's `OrigKind` gets a placeholder only. |
| `ExpressionLifter` | `parse_constraint`, `do_uta_rel`, `map_arg`, the `OP_MAP` table | Pure operators over the union table (the format of `FindRoots`). `DoUtaRel` is RECURSIVE and threads the Constraint and the visited set; it returns `[ok, node, c, vis]`. `ReadLeaf` (Input and Load), `ConstLeaf` (with the Concat width rule), `Operand` (walk, then insert into visited), `OpNode` (unary or binary), `Placeholder` (a visited label: only label and bits set). Both failure returns give `Null`. Reference definitions for the properties: `Expanded`, `ConstSlots`, `Concats`, and `BytesOf`, which walks the table without a visited set. |
| `TaskBuilder` | `handle_cond`, `construct_tasks`, `construct_task`, `expr_cache`, `SearchTask::finalize` | One tracer run. VARIABLES: the union table, the remaining branch messages, `expr_cache`, the tasks handed to the task manager, the labels parsed so far, and the fault, if any. One action per message (`handle_cond`). Clause leaves are lifted by `ExpressionLifter`'s `ParseConstraint`, and a parsed constraint's root gets the leaf's comparison (line 376). `Finalize` translates both loops of `finalize` byte by byte (`GlobalIndex`, `RecordInput`, `CmapAdd`, `RunBreak`). |
| `MC_*` | TLC instantiations | Small constant sets, input domains, and the cfg files. |

Definitions keep the source's names where TLA+ allows. `PROJECT.json` `map` gives, for every definition, the lines it translates.

## Runs

| Run (cfg) | Expect | Checks | What it shows |
|---|---|---|---|
| `MC_SymSanDriver_contract` | pass | TypeOK, NoStaleSolve, SolveWithinStages, ValidatedOnlyAfterSat, TaskFullyTried, TaskEventuallyTaken, TaskQueueSpec | With one solver (as `afl_custom_init` configures) and SAT/UNSAT/TIMEOUT results: every task is tried at every stage before it is dropped, never against another entry's buffer, promotion follows a SAT, and every queued task is eventually taken. The driver implements `TaskQueue` (see Refinement). |
| `MC_SymSanDriver_anyresult` | pass | SolveWithinStages | Even with ERROR results, `solve()` never gets a stage the solver lacks. |
| `MC_SymSanDriver_error` | violation | NoStaleSolve | An ERROR result (any value other than SAT, UNSAT or TIMEOUT) returns size 0 and leaves stage and task as they were (1198-1201), so the call is lost from the budget `fuzz_count` returned. The custom stage ends with a task still queued, and the next entry's stage solves it against that entry's buffer. |
| `MC_SymSanDriver_twosolvers` | violation | TaskFullyTried | `auto &solver = data->solvers[i]; solver = data->solvers[i+1]` writes through the reference, so `solvers` becomes `<<jit, jit>>` and z3 is never tried again. |
| `MC_FormulaRewrite_meaning` | pass | TypeOK, NnfMeaning, DnfMeaning | For all 332 initial states (skeletons of depth ≤ 2 over three labels x both directions), NNF means "formula = target" and the DNF is equivalent to it, for every valuation. |
| `MC_BranchTasks_lnot` | violation | NoCrash | A branch on `1 ^ (x <u 5)`, with `x` the 2-byte load at offset 0 (label 7 is `Xor` of the constant 1 and label 3, `ICmp ult` of the load and 5), becomes `LNot(x <u 5)` in `find_roots`. With target direction true, `to_nnf` keeps the LNot, `to_dnf` makes it a label-0 leaf, and `parse_constraint(0)` fails and is written through at line 375. Trees with an i1 xor of two comparisons are left out of this run so that the counterexample is this path and not the Xor node. |
| `MC_BranchTasks_meaning` | pass | TypeOK, SkeletonMeaning, TasksMeaning | For every one of the 1890 union tables of the tree kind (no label reached twice) the skeleton is true exactly when the branch label is 1, and a Bool skeleton is the constant value of the condition. For both target directions, whenever `construct_tasks` builds tasks, some DNF clause holds exactly when the branch goes the target direction: the composition of find_roots, to_nnf and to_dnf keeps the meaning. |
| `MC_FindRoots_shared` | violation | SkeletonMeaning | A label reached a second time returns false with an untouched node. The simplifiers read that as 0, so `c3 && (c3 \|\| c4)` becomes Bool 0 and the branch is abandoned. The ICmp-of-bool fold (635-689) does not return either: the operand walk after it returns false, so `1 ^ (c3 == 0)` becomes Bool 1. |
| `MC_PipeProtocol_drain` | pass | TypeOK, HandledFaithful, CacheFaithful, Complete, FuzzCountReturns | With every write atomic and no content sent for symbolic memcmps, over every trace of one or two messages, every spawn outcome (including the `ftruncate` failure that hands the caller pid 0) and every tracer crash point: the conds reach `handle_cond` in order, the cache holds only content sent for that label, everything is drained before `waitpid`, and `fuzz_count` returns. |
| `MC_PipeProtocol_split` | violation | HandledFaithful | A memcmp_msg longer than PIPE_BUF arrives in two writes. The single `read` at 1095 is short and breaks, and the rest of the content is parsed as a `pipe_msg` with the stale label: a cond the tracer never sent. |
| `MC_TaskBuilder_finalize` | pass | TypeOK, ArgsPointAtOwnByte, InputsExactlyOnce, I2sRuns, CmapIndex, ParsedOnce, LabelsExpandedOnce, ArgsMatchAst, ConcatWidths, PlaceholdersResolved | Over ten union tables and two-message runs with shared labels and shared bytes. `do_uta_rel` expands each label once per constraint, even when it is both operands of an Add or is met again under a Concat. Every placeholder comes, in post-order, after the node that expanded its label, and has that node's width. The Constant leaves name exactly the constant slots of `input_args`, and `local_map` gives distinct slots to exactly the bytes the label reads. Concat constants get the width the other operand leaves. After finalize, every argument slot names its own byte, bytes are recorded once, `i2s_candidates` are the maximal runs, `cmap` lists exactly the non-memcmp readers, and each label is lifted once per run. |
| `MC_TaskBuilder_polarity` | violation | PolarityKept | A cache hit reuses the comparison of the branch that first lifted the label, even when the clause has the negated comparison. |

Every property of a passing run has a mutant in `PROJECT.json`: a plausible bug in the mapped code that TLC finds with that run's cfg. Examples are a stage not reset on a new task, a missing `else gidx = gitr->second`, a dropped `last_offset != -1` test, and `emplace` overwriting `cmap`.

## Divergences recorded without a run

The following disagreements between the code and the spec were met while modelling. TLC produced a counterexample for each while the modules were written. The violation runs kept are those for the bugs with the widest effect, and the properties for the rest were taken out of the modules. They are listed here, and among the hazards of `PROJECT.json`, so that later work can take them up.

- **Xor skeleton node (594).** `xor` of two comparisons becomes an `Xor` node with label 0, which `to_nnf` and `to_dnf` cannot rewrite. `to_dnf` makes it a clause leaf, and `construct_task` crashes on it as on the kept LNot. `NoCrash` fails on the Xor trees, which `MC_BranchTasks_lnot` leaves out so that its counterexample is the LNot path.
- **strip_zext (395).** `strip_zext` returns `l1` of the one-bit operand, not the operand itself. So `(int)(7 == y) == 0` stays one leaf instead of becoming `LNot (7 == y)`.
- **Symbolic memcmp content (1091).** If the tracer follows spec section 6 and sends a memcmp_msg for a symbolic memcmp too, the driver does not read it and parses it as a header.
- **memcmp buffer (1094).** `make_shared<u8>(msg_size)` allocates one byte, and every read of memcmp content writes past it.
- **Byte shapes (task.h 138, symsan.cpp 178).** Across constraints, a 2-byte load and a 1-byte read of the same byte give it shapes 0 and 1, and `finalize` keeps the first. Within one constraint, `map_arg` keeps the last: the TaskBuilder table that compares a load with its own first byte records shape 1 for byte 0, so the 2-byte group loses its width. Spec 4.2 says the first byte of a group carries the group's length.
- **Argument slots (spec section 3).** The spec says `local_map`'s values are the contiguous range from `RET_OFFSET` = 2. In the code they start at 0, and constant slots are interleaved with them in `input_args` (`ArgsMatchAst` checks what the code does).
- **ftruncate failure (symsan.cpp 981).** `spawn_symsan_child` returns 0 when `ftruncate` fails, and the caller tests only `pid < 0`. It reads the pipe to EOF and calls `waitpid(0, ...)`, which fails with ECHILD: the fork server called `setsid` and no tracer was forked. So `fuzz_count` returns, as `MC_PipeProtocol_drain` checks, but the entry, already in `fuzzed_inputs`, gets no tasks and is never traced again.
- **comparisons (task.h 129).** `construct_task` never fills `task->comparisons`, so `finalize` reads past the end of an empty vector. `TaskBuilder` keeps this as a nondeterministic outcome of the finalize step (see Undefined behaviour).

## Bounds and why they are enough

- **Driver.**
  - Two queue entries. Two are enough for a task to be carried into the next entry's custom stage and for another stage's entry to arrive during validation. With SAT/UNSAT/TIMEOUT results the queue always empties within each custom stage, so tasks of two traces are never pending together in the contract run; they are in the error run, which is how it reaches `NoStaleSolve`.
  - At most 3 tasks per trace in the contract run and 2 in the others. Three tasks of one trace let a task wait behind two others, which the FIFO order of the refinement is about (a LIFO `get_next_task` is caught).
  - One solver with 2 stages in the contract run; z3 with 2 stages and jit with 1 where two solvers matter. Two stages are the fewest at which a stage bump, an exhaustion and a reset are all distinct.
  - `stage_left` is bounded by tasks x stages.
- **Rewrite.** All skeletons of depth ≤ 2 with distinct labels (find_roots' visited set keeps labels distinct) over three labels. Every rewrite rule, De Morgan under LNot, and a 2x2 DNF product all occur.
- **FindRoots.**
  - Six base labels: an input byte, a 2-byte load, a comparison over each, and the ZExt to i32 of each comparison, which is how clang lowers a bool used as an int.
  - One or two further labels, each drawn from every operation `find_roots` treats specially, with constants 0 and 1:
    - i1 and i32 And/Or/Xor over two different labels, or over a constant lhs;
    - ZExt of a bool;
    - eq/ne of an i32 against a constant;
    - in the shared run, eq/ne of an i1 against a constant.
  - The last label is the branch. Two levels are enough for a constant-folded side, a cast round trip inside a comparison, and a label reached twice.
  - Values are 0/1, because every label is a boolean or a cast of one.
  - `BranchTasks` runs over the same tables, with both target directions. Its meaning run reaches multi-clause DNFs, clauses of two leaves, and both `tasks` and `crashed` outcomes.
- **PipeProtocol.**
  - Two labels, one of whose memcmps has two symbolic operands, and memcmp content of 0 to 2 units.
  - Every trace of one or two messages of the five kinds is covered, so a message can be followed by one whose header is misread.
  - The drain run uses `PipeBuf` = 3, so every write fits. The split run uses 2, so the longest memcmp_msg does not fit.
  - Spawn may succeed, fail in `pipe()`, fail in `fork()`, or fail in `ftruncate` (the drain run). The tracer may crash after any write.
  - A unit stands for one field or one content chunk. Byte counts matter only through how a read cuts them.
- **TaskBuilder.**
  - Four ICmp labels over input bytes 0, 1 and 3, in ten union tables:
    - label 1 compares a 16-bit value with a constant or with part of itself. The value is the 2-byte load, a Concat of a constant with byte 1, an Extract of the load, the load added to itself, or the load against the ZExt of its own first byte. These variants reach the Concat width rule, an Extract, a label that is both operands of one node, and one byte read by two labels of one constraint;
    - label 2 reads byte 1, which it shares with the load;
    - label 3 compares byte 3 with byte 0, so local order differs from offset order and there are two i2s runs. Its other variant compares the ZExt of byte 3 with a Concat of byte 3 and a constant, which meets byte 3 again in another subtree;
    - label 4 is built on an operation `OP_MAP` does not know, so its lift fails.
  - Six skeletons over these labels, both directions, two messages per run. This is enough for a label to be cached by one branch and reused by the next with either polarity.
  - Constants carry no values: only the slot positions matter to `finalize`.

## Refinement

`TaskQueue` says what the three callbacks promise about tasks, with solvers, stages and the AFL++ host left out:
- an entry is traced at most once;
- a trace appends its tasks in order and ends work on the task in hand;
- tasks are taken strictly oldest first;
- a pending task is eventually taken.

`SymSanDriver` defines `Abs == INSTANCE TaskQueue WITH traced <- fuzzed_inputs, pending <- task_queue, current <- cur_task`. The contract run checks `TaskQueueSpec == Abs!Spec` as a PROPERTY. Each driver step is therefore a TaskQueue step or leaves the three variables alone, and the driver's fairness implies `WF(Take)`. One `afl_custom_fuzz` call can pop a task and find it UNSAT, so Take may retire the task it takes. A LIFO `get_next_task` breaks the refinement.

## Fairness

`SymSanDriver` uses `WF_vars(Next)`. AFL++ keeps fuzzing, and once it starts the custom stage it makes exactly the number of calls `fuzz_count` returned. The host model never abandons a custom stage part-way (AFL++'s skip and stop requests are outside this repository), so the drop of a half-tried task at line 1121 is not exercised. `PipeProtocol` has weak fairness on the tracer and on the driver. The tracer is a process that runs until it exits or is killed, and the driver's read blocks only while the pipe is open. Its cfgs say `CHECK_DEADLOCK FALSE`, because `fuzz_count` returning is the end of the run. TaskBuilder, FindRoots, FormulaRewrite and BranchTasks check only safety: a tracer run and a rewrite end, so their cfgs say `CHECK_DEADLOCK FALSE`.

## Undefined behaviour

The models assume a release build with `NDEBUG`: the `assert`s of `symsan.cpp` (lines 421, 448, 490, 517, 559, 563, 585) are compiled out and the code after them runs. For example `1 ^ (c3 == 0)` would abort at the assert of line 559 in a debug build; in `FindRoots` it goes on to the fold.


`finalize` reads `comparisons[i]` of an empty vector. The model lets the build either crash or read some value. Of that value, `finalize` only distinguishes Memcmp/MemcmpN from the rest. Both outcomes are explored, so the aggregation properties are checked on the runs that do not crash.

## Not modelled, and the plan

- **CoverageManager** stays a nondeterministic answer. `EdgeCovManager` is not under `src/`, and spec 4.7 does not say whether `is_branch_interesting` records the edge it reports as new. Whether the same flipped branch yields tasks once or on every visit depends on that, so a property about it would rest on a guess.
- **Solvers** stay opaque ids with `stages()` and a `solve()` that may return any result. Their search and the JIT are not under `src/`, and the driver depends only on the result.
- Left out by design:
  - shared memory and file setup, and argv rewriting (pure I/O);
  - the structural hash `xxhash`, and the byte values of inputs and constants (nothing in the driver branches on them);
  - the JIT and the solvers' internals (not under `src/`);
  - the lit test `src/tests/atomicrmw.c`.
