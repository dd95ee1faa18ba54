----------------------------- MODULE PipeProtocol -----------------------------
(***************************************************************************)
(* One trace stage of src/driver/aflpp/symsan.cpp (afl_custom_fuzz_count, *)
(* lines 1026-1130, with spawn_symsan_child, lines 954-1019): the driver  *)
(* spawns the tracer, drains the pipe it writes, and reaps it.  The       *)
(* tracer, which is not under src/, is modelled from spec sections 5 and  *)
(* 6: it writes every record with one write() and may die at any point.  *)
(*                                                                         *)
(* The byte stream is abstracted to units: a pipe_msg is two units (its   *)
(* first 16 bytes hold msg_type, its last 16 label and result), a gep_msg *)
(* one, a memcmp_msg one unit for its label and one per content unit.     *)
(* Every unit remembers the record and the field it was written for.  A   *)
(* write of at most PipeBuf units reaches the pipe at once; a longer one  *)
(* may reach it in pieces.  read(n) returns what is in the pipe, at most  *)
(* n units, blocks on an empty pipe while the write end is open, and      *)
(* returns 0 once it is closed.                                           *)
(***************************************************************************)
EXTENDS Integers, Sequences, SequencesExt, FiniteSets

CONSTANTS
  Labels,          \* labels the tracer reports
  SymbolicLabels,  \* memcmp labels both of whose operands are symbolic
  Bogus,           \* a label read from bytes that were not a label
  MaxResult,       \* largest memcmp length, in units
  PipeBuf,         \* PIPE_BUF, in units: longer writes are not atomic
  SpawnOutcomes,   \* which of "ok", "pipe_fail", "fork_fail", "ftruncate_fail" occur
  Traces           \* the record sequences a traced execution can produce

MsgTypes == {"cond", "gep", "memcmp", "fsize"}
Msg == [type : MsgTypes \cup {"other"}, label : Labels \cup {Bogus}, result : 0..MaxResult]

VARIABLES
  records,   \* the records the tracer emits, in program order
  written,   \* units of Stream the tracer has written
  consumed,  \* units of Stream the driver has read
  tracer,    \* "none" | "running" | "exited" | "crashed"
  pid,       \* spawn_symsan_child's result: "child" | 0 | -1
  rpc,       \* where afl_custom_fuzz_count is
  msg,       \* the pipe_msg buffer, kept across iterations
  handled,   \* labels passed to handle_cond, in order
  cache      \* memcmp_cache: label -> content units

vars == <<records, written, consumed, tracer, pid, rpc, msg, handled, cache>>

U(src, i, j) == [src |-> src, rec |-> i, idx |-> j]

(* The writes the tracer makes for record i (spec 6): the pipe_msg, then  *)
(* a gep_msg, or a memcmp_msg with its content unless both operands are   *)
(* symbolic.                                                               *)
RecWrites(r, i) ==
  << <<U("hdr1", i, 0), U("hdr2", i, 0)>> >> \o
  CASE r.type = "gep" -> << <<U("gep", i, 0)>> >>
    [] r.type = "memcmp" /\ r.label \notin SymbolicLabels ->
         << <<U("mclabel", i, 0)>> \o [j \in 1..r.result |-> U("mcdata", i, j)] >>
    [] OTHER -> <<>>

Writes == FlattenSeq([i \in 1..Len(records) |-> RecWrites(records[i], i)])
Stream == FlattenSeq(Writes)
\* Units of Stream up to the end of write w.
WriteEnd(w) == Len(FlattenSeq(SubSeq(Writes, 1, w)))

WriterOpen == tracer = "running"
Avail == written - consumed
Unit(k) == Stream[consumed + k]

\* A buffer holding bytes that were written as something else.
Garbage == [type : MsgTypes \cup {"other"}, label : {Bogus}, result : 0..MaxResult]

CondLabels == LET conds == SelectSeq(records, LAMBDA r : r.type = "cond")
              IN [i \in 1..Len(conds) |-> conds[i].label]

-----------------------------------------------------------------------------
(* The tracer (spec 5 and 6).                                              *)

\* The write the next unit belongs to.
CurWrite == CHOOSE w \in 1..Len(Writes) : WriteEnd(w) > written /\
                                         \A v \in 1..w-1 : WriteEnd(v) <= written

TracerWrite ==
  /\ tracer = "running" /\ written < Len(Stream)
  /\ LET rem == WriteEnd(CurWrite) - written
     IN \E n \in IF Len(Writes[CurWrite]) <= PipeBuf THEN {rem} ELSE 1..rem :
          written' = written + n
  /\ UNCHANGED <<records, consumed, tracer, pid, rpc, msg, handled, cache>>

\* The traced program returns and the child exits, closing the write end.
TracerExit ==
  /\ tracer = "running" /\ written = Len(Stream)
  /\ tracer' = "exited"
  /\ UNCHANGED <<records, written, consumed, pid, rpc, msg, handled, cache>>

\* The traced program crashes, or the fuzzer's watchdog kills it.
TracerCrash ==
  /\ tracer = "running" /\ written < Len(Stream)
  /\ tracer' = "crashed"
  /\ UNCHANGED <<records, written, consumed, pid, rpc, msg, handled, cache>>

-----------------------------------------------------------------------------
(* The driver.                                                             *)

(* spawn_symsan_child (lines 954-1019): a failed ftruncate returns 0       *)
(* before forking, a failed fork returns its -1, a forked child runs the   *)
(* tracer.                                                                  *)
SpawnedPid(o) == CASE o = "ok" -> 1 [] o = "ftruncate_fail" -> 0 [] OTHER -> -1

\* Mutant of FuzzCountSpawn: the pid < 0 test of line 1053 is dropped.
FuzzCountSpawnNoForkCheck ==
  /\ rpc = "spawn"
  /\ \E o \in SpawnOutcomes :
       IF o = "pipe_fail"
       THEN rpc' = "done" /\ UNCHANGED <<pid, tracer, cache>>
       ELSE /\ pid' = SpawnedPid(o)
            /\ tracer' = IF o = "ok" THEN "running" ELSE "none"
            /\ cache' = [l \in {} |-> <<>>]
            /\ rpc' = "header"
  /\ UNCHANGED <<records, written, consumed, msg, handled>>

\* Mutant of FuzzCountSpawn: clear_global_caches() (line 1067) is not called.
FuzzCountSpawnNoClear ==
  /\ rpc = "spawn"
  /\ \E o \in SpawnOutcomes :
       IF o = "pipe_fail" \/ SpawnedPid(o) < 0
       THEN /\ rpc' = "done"
            /\ pid' = (IF o = "pipe_fail" THEN pid ELSE -1)
            /\ UNCHANGED <<tracer, cache>>
       ELSE /\ pid' = SpawnedPid(o)
            /\ tracer' = IF o = "ok" THEN "running" ELSE "none"
            /\ rpc' = "header"
            /\ UNCHANGED cache
  /\ UNCHANGED <<records, written, consumed, msg, handled>>

(* Lines 1042-1067: a failed pipe() or fork() returns 0 at once; otherwise *)
(* the write end is closed, the caches are cleared and the loop starts.    *)
FuzzCountSpawn ==
  /\ rpc = "spawn"
  /\ \E o \in SpawnOutcomes :
       IF o = "pipe_fail" \/ SpawnedPid(o) < 0
       THEN /\ rpc' = "done"
            /\ pid' = (IF o = "pipe_fail" THEN pid ELSE -1)
            /\ UNCHANGED <<tracer, cache>>
       ELSE /\ pid' = SpawnedPid(o)
            /\ tracer' = IF o = "ok" THEN "running" ELSE "none"
            /\ cache' = [l \in {} |-> <<>>]
            /\ rpc' = "header"
  /\ UNCHANGED <<records, written, consumed, msg, handled>>

(* The pipe_msg read from units: msg_type from the first, label and       *)
(* result from the second; a field read from a unit written as something  *)
(* else is garbage, a field the read did not reach keeps its old value.   *)
ParseHeader(units, old) ==
  LET types == IF units[1].src = "hdr1" THEN {records[units[1].rec].type}
               ELSE MsgTypes \cup {"other"}
      tail  == IF Len(units) = 1 THEN {[label |-> old.label, result |-> old.result]}
               ELSE IF units[2].src = "hdr2"
               THEN {[label |-> records[units[2].rec].label,
                      result |-> records[units[2].rec].result]}
               ELSE {[label |-> Bogus, result |-> r] : r \in 0..MaxResult}
  IN {[type |-> t, label |-> x.label, result |-> x.result] : t \in types, x \in tail}

\* info->l1 and l2 of a label read from the stream (lines 1089-1091).
BothSymbolic(l) == IF l = Bogus THEN BOOLEAN ELSE {l \in SymbolicLabels}

\* Mutant of Dispatch: the both-operands-symbolic test of line 1091 is dropped.
DispatchNoSymbolicSkip(m) ==
  CASE m.type = "cond" -> handled' = Append(handled, m.label) /\ rpc' = "header"
    [] m.type = "gep" -> rpc' = "gep" /\ UNCHANGED handled
    [] m.type = "memcmp" -> rpc' = "memcmp" /\ UNCHANGED handled
    [] OTHER -> rpc' = "header" /\ UNCHANGED handled

(* The switch of lines 1071-1112 on a received pipe_msg: a cond goes to   *)
(* handle_cond, a gep or a memcmp whose operands are not both symbolic    *)
(* has a second read to come, everything else is skipped.                  *)
Dispatch(m) ==
  CASE m.type = "cond" -> handled' = Append(handled, m.label) /\ rpc' = "header"
    [] m.type = "gep" -> rpc' = "gep" /\ UNCHANGED handled
    [] m.type = "memcmp" ->
         \E sym \in BothSymbolic(m.label) :
           rpc' = (IF sym THEN "header" ELSE "memcmp") /\ UNCHANGED handled
    [] OTHER -> rpc' = "header" /\ UNCHANGED handled

(* The loop condition read(pipefds[0], &msg, sizeof(msg)) > 0 (line 1069): *)
(* any positive count is taken as a whole message; 0 ends the loop.        *)
ReadHeader ==
  /\ rpc = "header"
  /\ Avail > 0 \/ ~WriterOpen
  /\ IF Avail = 0
     THEN rpc' = "wait" /\ UNCHANGED <<consumed, msg, handled>>
     ELSE LET n == IF Avail < 2 THEN Avail ELSE 2
          IN \E m \in ParseHeader([k \in 1..n |-> Unit(k)], msg) :
               /\ msg' = m /\ consumed' = consumed + n
               /\ Dispatch(m)
  /\ UNCHANGED <<records, written, tracer, pid, cache>>

\* Mutant of ReadGep: the read is taken to return the whole gep_msg.
ReadGepAssumesFull ==
  /\ rpc = "gep"
  /\ Avail > 0 \/ ~WriterOpen
  /\ consumed' = consumed + 1
  /\ rpc' = "header"
  /\ UNCHANGED <<records, written, tracer, pid, msg, handled, cache>>

(* Lines 1076-1087: a short read or a label mismatch breaks out of the    *)
(* switch, a gep_msg read whole goes to handle_gep, which does nothing;   *)
(* either way the units read are gone.                                     *)
ReadGep ==
  /\ rpc = "gep"
  /\ Avail > 0 \/ ~WriterOpen
  /\ consumed' = consumed + (IF Avail > 0 THEN 1 ELSE 0)
  /\ rpc' = "header"
  /\ UNCHANGED <<records, written, tracer, pid, msg, handled, cache>>

LabelOf(u) == IF u.src = "mclabel" THEN records[u.rec].label ELSE Bogus

\* Mutant of ReadMemcmp: the label double check of line 1101 is inverted.
ReadMemcmpInvertedCheck ==
  /\ rpc = "memcmp"
  /\ Avail > 0 \/ ~WriterOpen
  /\ LET k == 1 + msg.result
         n == IF Avail < k THEN Avail ELSE k
     IN /\ consumed' = consumed + n
        /\ cache' = IF n = k /\ LabelOf(Unit(1)) # msg.label
                    THEN [l \in DOMAIN cache \cup {msg.label} |->
                            IF l = msg.label THEN [j \in 1..msg.result |-> Unit(1 + j)]
                            ELSE cache[l]]
                    ELSE cache
  /\ rpc' = "header"
  /\ UNCHANGED <<records, written, tracer, pid, msg, handled>>

(* Lines 1088-1107: one read() of sizeof(memcmp_msg) + result bytes.  A   *)
(* short read or a label mismatch breaks; otherwise the content is cached *)
(* under the label.                                                         *)
ReadMemcmp ==
  /\ rpc = "memcmp"
  /\ Avail > 0 \/ ~WriterOpen
  /\ LET k == 1 + msg.result
         n == IF Avail < k THEN Avail ELSE k
     IN /\ consumed' = consumed + n
        /\ cache' = IF n = k /\ LabelOf(Unit(1)) = msg.label
                    THEN [l \in DOMAIN cache \cup {msg.label} |->
                            IF l = msg.label THEN [j \in 1..msg.result |-> Unit(1 + j)]
                            ELSE cache[l]]
                    ELSE cache
  /\ rpc' = "header"
  /\ UNCHANGED <<records, written, tracer, pid, msg, handled>>

(* Line 1115: waitpid(pid, NULL, 0).  For the tracer's pid it returns     *)
(* once the child has exited.  pid 0 (a failed ftruncate) asks for any     *)
(* child of the caller's process group; the fork server called setsid and  *)
(* no tracer was forked, so the call fails at once with ECHILD.            *)
Waitpid ==
  /\ rpc = "wait"
  /\ pid = 0 \/ (pid = 1 /\ tracer \in {"exited", "crashed"})
  /\ rpc' = "done"
  /\ UNCHANGED <<records, written, consumed, tracer, pid, msg, handled, cache>>

TracerStep == TracerWrite \/ TracerExit \/ TracerCrash
DriverStep == FuzzCountSpawn \/ ReadHeader \/ ReadGep \/ ReadMemcmp \/ Waitpid

Init ==
  /\ records \in Traces
  /\ written = 0 /\ consumed = 0
  /\ tracer = "none" /\ pid = -1 /\ rpc = "spawn"
  /\ msg \in Garbage    \* pipe_msg msg; is not initialised
  /\ handled = <<>>
  \* memcmp_cache as the previous trace stage left it
  /\ cache \in {[l \in {} |-> <<>>]} \cup {(l :> <<U("stale", 0, 0)>>) : l \in Labels}

Next == TracerStep \/ DriverStep

(* The tracer runs until it exits or is killed; the driver's reads return  *)
(* whenever the pipe has data or is closed.                                *)
Spec == Init /\ [][Next]_vars /\ WF_vars(TracerStep) /\ WF_vars(DriverStep)
-----------------------------------------------------------------------------
(* Properties.                                                              *)

UnitRec == [src : {"hdr1", "hdr2", "gep", "mclabel", "mcdata", "stale"}, rec : Nat, idx : Nat]

TypeOK ==
  /\ 0 <= consumed /\ consumed <= written /\ written <= Len(Stream)
  /\ tracer \in {"none", "running", "exited", "crashed"}
  /\ pid \in {-1, 0, 1}
  /\ rpc \in {"spawn", "header", "gep", "memcmp", "wait", "done"}
  /\ msg \in Msg
  /\ handled \in Seq(Labels \cup {Bogus})
  /\ DOMAIN cache \subseteq Labels \cup {Bogus}
  /\ \A l \in DOMAIN cache : cache[l] \in Seq(UnitRec)

(* handle_cond sees the tracer's branch messages in program order (spec 5), *)
(* none twice, none skipped before a later one, and no branch made of      *)
(* bytes the tracer wrote as something else.                               *)
HandledFaithful == IsPrefix(handled, CondLabels)

(* Once the trace stage has got past spawning the tracer, what           *)
(* memcmp_cache holds for a label is the content the tracer sent with that *)
(* label's memcmp in this stage.                                           *)
CacheFaithful ==
  pid \in {0, 1} => \A l \in DOMAIN cache : \E i \in 1..Len(records) :
     /\ records[i].type = "memcmp" /\ records[i].label = l
     /\ cache[l] = [j \in 1..records[i].result |-> U("mcdata", i, j)]

(* When the tracer ran to completion and fuzz_count has reaped it, every    *)
(* branch it reported went to handle_cond and every memcmp with concrete    *)
(* content is cached.                                                      *)
Complete ==
  rpc = "done" /\ pid = 1 /\ tracer = "exited" =>
    /\ handled = CondLabels
    /\ \A i \in 1..Len(records) :
         records[i].type = "memcmp" /\ records[i].label \notin SymbolicLabels =>
           records[i].label \in DOMAIN cache

(* Every trace stage ends: afl_custom_fuzz_count returns to AFL++.          *)
FuzzCountReturns == <>(rpc = "done")

=============================================================================
