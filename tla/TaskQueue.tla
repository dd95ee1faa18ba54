------------------------------ MODULE TaskQueue ------------------------------
(***************************************************************************)
(* What the trace and solve stages of the driver promise about search      *)
(* tasks, with solvers, stages and the AFL++ host left out: each queue     *)
(* entry is traced at most once; a trace appends the tasks it built, in   *)
(* the order it built them, and ends work on the task in hand; the solve   *)
(* stage takes pending tasks strictly first-in first-out, one at a time,   *)
(* and works on a task until it retires it; and a pending task is          *)
(* eventually taken.                                                       *)
(***************************************************************************)
EXTENDS Naturals, Sequences

CONSTANTS
  Entries,   \* AFL queue entries
  MaxTasks,  \* most tasks one trace builds
  Null       \* no task in hand

Task == [entry : Entries, n : 1..MaxTasks]

VARIABLES
  traced,    \* entries already traced
  pending,   \* tasks built and not yet taken, oldest first
  current    \* the task being solved, or Null

avars == <<traced, pending, current>>

\* The k tasks a trace of entry e builds, in discovery order.
NewTasks(e, k) == [i \in 1..k |-> [entry |-> e, n |-> i]]

Init == traced = {} /\ pending = <<>> /\ current = Null

\* Entry e is traced: its tasks join the tail, work on the task in hand ends.
Trace(e) ==
  /\ e \notin traced
  /\ traced' = traced \cup {e}
  /\ \E k \in 0..MaxTasks : pending' = pending \o NewTasks(e, k)
  /\ current' = Null

\* Entry e is recorded as traced, but no tracer ran.
TraceFailed(e) ==
  /\ e \notin traced
  /\ traced' = traced \cup {e}
  /\ UNCHANGED <<pending, current>>

(* The oldest pending task is taken, replacing any task in hand; it may   *)
(* be retired in the same step, as one solve call can take a task and     *)
(* find it unsatisfiable.                                                   *)
Take ==
  /\ pending # <<>>
  /\ current' \in {Head(pending), Null}
  /\ pending' = Tail(pending)
  /\ UNCHANGED traced

\* Work on the task in hand ends without a new one.
Retire ==
  /\ current # Null
  /\ current' = Null
  /\ UNCHANGED <<traced, pending>>

Next ==
  \/ \E e \in Entries : Trace(e) \/ TraceFailed(e)
  \/ Take
  \/ Retire

Spec == Init /\ [][Next]_avars /\ WF_avars(Take)

=============================================================================
