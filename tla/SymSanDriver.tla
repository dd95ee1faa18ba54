---------------------------- MODULE SymSanDriver ----------------------------
(***************************************************************************)
(* The AFL++ custom-mutator driver of src/driver/aflpp/symsan.cpp: the     *)
(* three host callbacks afl_custom_fuzz_count, afl_custom_fuzz and         *)
(* afl_custom_queue_new_entry, the FIFO task manager they share, and the   *)
(* AFL++ host loop that calls them.                                        *)
(*                                                                         *)
(* The tracer run and the lifting pipeline of fuzz_count are abstracted to *)
(* "the run of entry e yields k search tasks" (modelled in detail by the   *)
(* formula modules); a task is identified by the entry it was built from   *)
(* and its position.  A solver is an opaque id with a number of stages     *)
(* whose solve() returns any result of SolverResults.                      *)
(***************************************************************************)
EXTENDS Integers, Sequences, SequencesExt, FiniteSets

CONSTANTS
  Entries,        \* AFL queue entries (their file-name pointers)
  MaxTasks,       \* most tasks one tracer run yields
  SolverList,     \* data->solvers as pushed by afl_custom_init
  Stages,         \* solver id -> solver->stages()
  SolverResults,  \* results solve() may return
  Null            \* nullptr / no value

ASSUME MaxTasks \in Nat /\ SolverList \in Seq(DOMAIN Stages) /\ SolverList # <<>>
ASSUME SolverResults \subseteq {"SAT", "UNSAT", "TIMEOUT", "ERROR"}

Task == [entry : Entries, n : 1..MaxTasks]
MutationStates == {"INVALID", "IN_VALIDATION", "VALIDATED"}

VARIABLES
  \* my_mutator_t fields
  cur_task, cur_solver_index, cur_solver_stage, cur_mutation_state,
  solvers, fuzzed_inputs, cur_queue_entry,
  task_queue,       \* FIFOTaskManager contents
  \* AFL++ host
  queue_cur,        \* afl->queue_cur
  phase,            \* where the host loop is: "pick" | "count" | "custom" | "validate"
  stage_left,       \* calls of afl_custom_fuzz left in the custom stage
  \* history, kept only to state properties
  last_solve,       \* the solve() call of the last afl_custom_fuzz, or Null
  tried             \* <<solver, stage>> pairs solve() has run on cur_task

drv  == <<cur_task, cur_solver_index, cur_solver_stage, cur_mutation_state,
          solvers, fuzzed_inputs, cur_queue_entry, task_queue>>
host == <<queue_cur, phase, stage_left>>
hist == <<last_solve, tried>>
vars == <<drv, host, hist>>

-----------------------------------------------------------------------------
(* FIFOTaskManager (rgd::TaskManager): add_task appends, get_next_task pops *)
(* the head or returns nullptr when empty.                                  *)

\* Mutant of GetNextTask: the newest task is popped, as from a stack.
GetNextTaskLifo(q) == IF q = <<>> THEN [task |-> Null, queue |-> q]
                                  ELSE [task |-> Last(q), queue |-> Front(q)]

GetNextTask(q) == IF q = <<>> THEN [task |-> Null, queue |-> q]
                              ELSE [task |-> Head(q), queue |-> Tail(q)]

\* Sum of solver->stages() over data->solvers.
MaxStages(sv) == FoldSeq(LAMBDA s, acc : Stages[s] + acc, 0, sv)

-----------------------------------------------------------------------------
(* afl_custom_fuzz is one host call; it is modelled as a chain of record   *)
(* transformers, one per block of the handler, over a snapshot d of the    *)
(* driver state.  d.out is what the call returns: "go" while running,      *)
(* "input" (buf unchanged), "mutation" (output_buf) or "zero" (size 0).    *)
(* Indices are 1-based: C index i is i+1 here, C's (size_t)-1 is 0.        *)

Snapshot == [task |-> cur_task, idx |-> cur_solver_index,
             stage |-> cur_solver_stage, state |-> cur_mutation_state,
             queue |-> task_queue, solvers |-> solvers, out |-> "go"]

\* Mutant of FetchTask: the new task keeps the previous task's stage.
FetchTaskNoStageReset(d) ==
  IF d.task = Null \/ d.state = "VALIDATED"
  THEN LET g == GetNextTask(d.queue) IN
       IF g.task = Null
       THEN [d EXCEPT !.task = Null, !.queue = g.queue, !.out = "input"]
       ELSE [d EXCEPT !.task = g.task, !.queue = g.queue,
                      !.idx = 1, !.state = "INVALID"]
  ELSE d

\* Lines 1143-1155: fetch a task when there is none or the last one was validated.
FetchTask(d) ==
  IF d.task = Null \/ d.state = "VALIDATED"
  THEN LET g == GetNextTask(d.queue) IN
       IF g.task = Null
       THEN [d EXCEPT !.task = Null, !.queue = g.queue, !.out = "input"]
       ELSE [d EXCEPT !.task = g.task, !.queue = g.queue,
                      !.idx = 1, !.stage = 0, !.state = "INVALID"]
  ELSE d

\* Lines 1157-1160: the previous candidate was not promoted: next stage.
BumpStage(d) == IF d.state = "IN_VALIDATION" THEN [d EXCEPT !.stage = @ + 1] ELSE d

\* Mutant of StagesExhausted: `>` for `>=`.
StagesExhaustedOffByOne(d) == d.stage > Stages[d.solvers[d.idx]]

\* Line 1163: the current solver has run all its stages.
StagesExhausted(d) == d.stage >= Stages[d.solvers[d.idx]]

\* Mutant of NextSolver: the stage is not reset for the next solver or task.
NextSolverNoStageReset(d) ==
  IF ~StagesExhausted(d) THEN d
  ELSE LET i0 == d.idx
           i1 == d.idx + 1
       IN IF i1 > Len(d.solvers)
          THEN LET g == GetNextTask(d.queue) IN
               IF g.task = Null
               THEN [d EXCEPT !.idx = i1, !.task = Null, !.queue = g.queue,
                              !.out = "input"]
               ELSE [d EXCEPT !.idx = 1, !.task = g.task, !.queue = g.queue,
                              !.solvers = [@ EXCEPT ![i0] = d.solvers[1]]]
          ELSE [d EXCEPT !.idx = i1, !.solvers = [@ EXCEPT ![i0] = d.solvers[i1]]]

(* Lines 1162-1179.  `auto &solver = data->solvers[i]` is a reference to  *)
(* the vector slot, so `solver = data->solvers[j]` copies solver j into    *)
(* slot i.                                                                 *)
NextSolver(d) ==
  IF ~StagesExhausted(d) THEN d
  ELSE LET i0 == d.idx
           i1 == d.idx + 1
       IN IF i1 > Len(d.solvers)
          THEN LET g == GetNextTask(d.queue) IN
               IF g.task = Null
               THEN [d EXCEPT !.idx = i1, !.task = Null, !.queue = g.queue,
                              !.out = "input"]
               ELSE [d EXCEPT !.idx = 1, !.task = g.task, !.queue = g.queue,
                              !.solvers = [@ EXCEPT ![i0] = d.solvers[1]],
                              !.stage = 0]
          ELSE [d EXCEPT !.idx = i1, !.solvers = [@ EXCEPT ![i0] = d.solvers[i1]],
                         !.stage = 0]

\* Mutant of ApplyResult: a TIMEOUT retries the same stage.
ApplyResultNoStageBump(d, r) ==
  CASE r = "SAT"     -> [d EXCEPT !.state = "IN_VALIDATION", !.out = "mutation"]
    [] r = "TIMEOUT" -> [d EXCEPT !.state = "INVALID", !.out = "input"]
    [] r = "UNSAT"   -> [d EXCEPT !.task = Null, !.out = "input"]
    [] r = "ERROR"   -> [d EXCEPT !.out = "zero"]

\* Lines 1182-1201: the outcome of solver->solve().
ApplyResult(d, r) ==
  CASE r = "SAT"     -> [d EXCEPT !.state = "IN_VALIDATION", !.out = "mutation"]
    [] r = "TIMEOUT" -> [d EXCEPT !.state = "INVALID", !.stage = @ + 1, !.out = "input"]
    [] r = "UNSAT"   -> [d EXCEPT !.task = Null, !.out = "input"]
    [] r = "ERROR"   -> [d EXCEPT !.out = "zero"]

\* The host after a call: run a mutation, else go on or leave the stage.
HostAfterFuzz(out) ==
  /\ stage_left' = stage_left - 1
  /\ phase' = CASE out = "mutation" -> "validate"
                [] stage_left - 1 > 0 -> "custom"
                [] OTHER -> "pick"

Commit(d, solve) ==
  /\ cur_task' = d.task
  /\ cur_solver_index' = d.idx
  /\ cur_solver_stage' = d.stage
  /\ cur_mutation_state' = d.state
  /\ task_queue' = d.queue
  /\ solvers' = d.solvers
  /\ last_solve' = solve
  /\ tried' = (IF d.task = cur_task THEN tried ELSE {})
              \cup (IF solve # Null /\ solve.task = d.task
                    THEN {<<solve.solver, solve.stage>>} ELSE {})
  /\ HostAfterFuzz(d.out)
  /\ UNCHANGED <<fuzzed_inputs, cur_queue_entry, queue_cur>>

afl_custom_fuzz ==
  /\ phase = "custom"
  /\ LET d1 == FetchTask(Snapshot)
         d2 == NextSolver(BumpStage(d1))
     IN \/ d1.out = "input" /\ Commit(d1, Null)
        \/ d1.out = "go" /\ d2.out = "input" /\ Commit(d2, Null)
        \/ d1.out = "go" /\ d2.out = "go" /\
           \E r \in SolverResults :
              Commit(ApplyResult(d2, r),
                     [task |-> d2.task, solver |-> d2.solvers[d2.idx],
                      stage |-> d2.stage, input |-> queue_cur, result |-> r])

-----------------------------------------------------------------------------
(* afl_custom_fuzz_count (lines 1026-1130) for the host's queue_cur.        *)

\* Mutant of FuzzCountBound: one mutation per task.
FuzzCountBoundTasksOnly(q, sv) == Len(q)

\* Line 1128: the number of mutations the host is told to ask for.
FuzzCountBound(q, sv) == Len(q) * MaxStages(sv)

\* Lines 1032-1036: an entry is traced at most once.
FuzzCountSkip ==
  /\ queue_cur \in fuzzed_inputs
  /\ phase' = "pick" /\ stage_left' = 0
  /\ UNCHANGED <<drv, queue_cur, hist>>

\* Lines 1039-1056: pipe() or fork() failed after the entry was recorded.
FuzzCountSpawnFail ==
  /\ queue_cur \notin fuzzed_inputs
  /\ fuzzed_inputs' = fuzzed_inputs \cup {queue_cur}
  /\ cur_queue_entry' = queue_cur
  /\ phase' = "pick" /\ stage_left' = 0
  /\ UNCHANGED <<cur_task, cur_solver_index, cur_solver_stage, cur_mutation_state,
                 solvers, task_queue, queue_cur, hist>>

(* Lines 1039-1130: the tracer runs, every interesting branch becomes k    *)
(* tasks appended in discovery order, the current task is dropped, and the *)
(* bound is returned.                                                      *)
FuzzCountRun ==
  /\ queue_cur \notin fuzzed_inputs
  /\ \E k \in 0..MaxTasks :
       LET q == task_queue \o [i \in 1..k |-> [entry |-> queue_cur, n |-> i]]
           bound == FuzzCountBound(q, solvers)
       IN /\ task_queue' = q
          /\ stage_left' = bound
          /\ phase' = IF bound > 0 THEN "custom" ELSE "pick"
  /\ fuzzed_inputs' = fuzzed_inputs \cup {queue_cur}
  /\ cur_queue_entry' = queue_cur
  /\ cur_task' = Null
  /\ tried' = {}
  /\ UNCHANGED <<cur_solver_index, cur_solver_stage, cur_mutation_state,
                 solvers, queue_cur, last_solve>>

afl_custom_fuzz_count ==
  /\ phase = "count"
  /\ FuzzCountSkip \/ FuzzCountSpawnFail \/ FuzzCountRun

-----------------------------------------------------------------------------
(* afl_custom_queue_new_entry (lines 1208-1220): promote the candidate when *)
(* the new entry was derived from the entry being solved.                  *)

\* Mutant of Promotes: the mutation state is not checked.
PromotesAnyState(orig) == cur_queue_entry = orig

Promotes(orig) == cur_queue_entry = orig /\ cur_mutation_state = "IN_VALIDATION"

afl_custom_queue_new_entry(orig) ==
  /\ cur_mutation_state' = IF Promotes(orig) THEN "VALIDATED" ELSE cur_mutation_state
  /\ UNCHANGED <<cur_task, cur_solver_index, cur_solver_stage, solvers,
                 fuzzed_inputs, cur_queue_entry, task_queue, hist>>

-----------------------------------------------------------------------------
(* The AFL++ host (outside src/): fuzz_one picks an entry, runs its other   *)
(* stages (which may add queue entries derived from it), calls             *)
(* fuzz_count, then fuzz stage_max times, running each mutation.            *)

HostPick(e) ==
  /\ phase = "pick"
  /\ queue_cur' = e /\ phase' = "count"
  /\ UNCHANGED <<drv, stage_left, hist>>

\* A mutation was run: it is a new queue entry or it is not.
HostValidate ==
  /\ phase = "validate"
  /\ \/ afl_custom_queue_new_entry(queue_cur)
     \/ UNCHANGED <<drv, hist>>
  /\ phase' = IF stage_left > 0 THEN "custom" ELSE "pick"
  /\ UNCHANGED <<queue_cur, stage_left>>

\* Another stage of fuzz_one (deterministic, havoc) found a new entry.
HostOtherStage ==
  /\ phase \in {"pick", "count"} /\ queue_cur # Null
  /\ afl_custom_queue_new_entry(queue_cur)
  /\ UNCHANGED host

Init ==
  /\ cur_task = Null /\ cur_solver_index = 0 /\ cur_solver_stage = -1
  /\ cur_mutation_state = "INVALID" /\ solvers = SolverList
  /\ fuzzed_inputs = {} /\ cur_queue_entry = Null /\ task_queue = <<>>
  /\ queue_cur = Null /\ phase = "pick" /\ stage_left = 0
  /\ last_solve = Null /\ tried = {}

Next ==
  \/ \E e \in Entries : HostPick(e)
  \/ afl_custom_fuzz_count
  \/ afl_custom_fuzz
  \/ HostValidate
  \/ HostOtherStage

\* AFL++ keeps running fuzz_one and finishes each stage it starts.
Spec == Init /\ [][Next]_vars /\ WF_vars(Next)

-----------------------------------------------------------------------------
(* Properties.                                                              *)

TypeOK ==
  /\ cur_task \in Task \cup {Null}
  /\ cur_solver_index \in 0..Len(SolverList) + 1
  /\ cur_solver_stage \in -1..Max({Stages[s] : s \in DOMAIN Stages})
  /\ cur_mutation_state \in MutationStates
  /\ solvers \in Seq(DOMAIN Stages) /\ Len(solvers) = Len(SolverList)
  /\ fuzzed_inputs \subseteq Entries
  /\ cur_queue_entry \in Entries \cup {Null}
  /\ task_queue \in Seq(Task)
  /\ queue_cur \in Entries \cup {Null}
  /\ phase \in {"pick", "count", "custom", "validate"}
  /\ stage_left \in Nat
  /\ tried \subseteq (DOMAIN Stages) \X Nat

\* Every (solver, stage) pair the configured solver list offers.
AllPairs == UNION {{<<SolverList[i], s>> : s \in 0..Stages[SolverList[i]] - 1} :
                     i \in 1..Len(SolverList)}

(* The bound fuzz_count returns (line 1128) is enough for the host's calls *)
(* of afl_custom_fuzz to consume every task of the entry: a task is never  *)
(* carried into the custom stage of another entry and solved against that *)
(* entry's buffer, which its offsets and initial bytes do not describe.   *)
NoStaleSolve ==
  last_solve # Null => last_solve.task.entry = last_solve.input

(* The stage machine of afl_custom_fuzz never calls solve() with a stage   *)
(* the solver does not have (lines 1157-1185).                             *)
SolveWithinStages ==
  last_solve # Null => last_solve.stage < Stages[last_solve.solver]

(* afl_custom_fuzz moves past a task as validated (line 1143) only when   *)
(* the last solve() on that task returned SAT: queue_new_entry promotes    *)
(* nothing but a candidate the solver produced for the current task.      *)
ValidatedOnlyAfterSat ==
  cur_mutation_state = "VALIDATED" /\ cur_task # Null =>
     /\ last_solve # Null
     /\ last_solve.task = cur_task
     /\ last_solve.result = "SAT"

(* A task leaves the driver (popped over, dropped or reset by fuzz_count) *)
(* only after it was validated, was found UNSAT, or has been tried at      *)
(* every stage of every solver afl_custom_init configured.                 *)
TaskFullyTried ==
  [][cur_task # Null /\ cur_task' # cur_task =>
       \/ cur_mutation_state = "VALIDATED"
       \/ /\ last_solve' # Null /\ last_solve'.task = cur_task
          /\ last_solve'.result = "UNSAT"
       \/ AllPairs \subseteq tried]_vars

(* Every task fuzz_count queues is eventually taken out of the task        *)
(* manager by afl_custom_fuzz, as long as the host keeps fuzzing.          *)
TaskEventuallyTaken ==
  \A t \in Task : [](t \in ToSet(task_queue) => <>(t \notin ToSet(task_queue)))


(* The driver implements the task discipline of TaskQueue: fuzzed_inputs  *)
(* is the set of traced entries, the FIFOTaskManager's queue the pending  *)
(* tasks, cur_task the task in hand.  Every step of the callbacks is a     *)
(* step of TaskQueue or leaves all three unchanged, and the host's calls   *)
(* take every pending task in the end.                                     *)
Abs == INSTANCE TaskQueue WITH traced <- fuzzed_inputs, pending <- task_queue,
                               current <- cur_task
TaskQueueSpec == Abs!Spec

=============================================================================
