------------------------------- MODULE Target -------------------------------
(***************************************************************************)
(* One process of an instrumented benchmark: main() of the target library, *)
(* the threads of the benchmark calling the probes, and the segment of     *)
(* shared memory the probes write.  Steps are the stores a reader of the   *)
(* segment can tell apart, because the driver kills a slow target at any   *)
(* instant and then reads what it left behind.                             *)
(***************************************************************************)
EXTENDS Coverage, FiniteSets

CONSTANTS
  Threads, Main, NoThread,
  CondBrCount,     \* __testcoca_cond_br_count; branches are 1..CondBrCount
  GoalCount,       \* __testcoca_goal_count; goals are 0..GoalCount - 1
  Hooks,           \* the probes compiled into this benchmark
  InputCount,      \* inputs of the test
  InputImages,     \* what the segment may hold when the process starts
  AtExitCalls      \* bound: probes the benchmark's atexit handlers call

HeaderSize       == 17     \* termination, two counts, checksum
flattened_size   == 5      \* what a probe asks room for
sizeof_record    == 8      \* what a record occupies

Branches  == 1..CondBrCount
Goals     == 0..(GoalCount - 1)
SlotIndex == 0..(CondBrCount - 1)

Images == [size : Nat, termination : Byte, brCount : Nat, checksum : Nat,
           saved : Nat, slots : [SlotIndex -> [id : Nat, coverage : Byte]]]

ASSUME ThreadsAssumption == Main \in Threads /\ NoThread \notin Threads
ASSUME CountsAssumption ==
  /\ CondBrCount \in Nat /\ GoalCount \in Nat
  /\ InputCount \in Nat /\ AtExitCalls \in Nat
(* Records and goal flags share one area; the instrumenter is asked for    *)
(* one kind or the other.                                                  *)
ASSUME HooksAssumption ==
  /\ Hooks \subseteq {"br", "goal", "error", "read"}
  /\ ~({"br", "goal"} \subseteq Hooks)
ASSUME ImagesAssumption == InputImages # {} /\ InputImages \subseteq Images

Call(hook, id, coverage) == [hook |-> hook, id |-> id, coverage |-> coverage]
NoCall == Call("none", 0, covFALSE)
Calls  == { call \in { Call("br", id, d) : id \in Branches, d \in Directions }
                  \cup { Call("goal", id, covTRUE) : id \in Goals }
                  \cup { Call(hook, 0, covFALSE) : hook \in {"error", "read"} }
              : call.hook \in Hooks }

VARIABLES
  proc,          \* "running", "exited", "crashed" or "killed"
  size,          \* get_size() of the segment
  termination, brCount, checksum, saved, slots, goals,   \* what is in it
  mutex, index, index_map, read_inputs,                  \* class target
  pc, call,      \* of each thread: where it is, and the probe it is in
  leaving,       \* threads inside exit()
  atexit,        \* probe calls the exit handlers still have to make
  executed,      \* history: conditions the benchmark evaluated
  completed,     \* history: conditions whose probe returned
  reported       \* history: terminations a probe asked for

segment == <<termination, brCount, checksum, saved, slots, goals>>
object  == <<index, index_map, read_inputs>>
history == <<executed, completed, reported>>
vars    == <<proc, size, segment, mutex, object, pc, call, leaving, atexit, history>>

Init ==
  /\ proc = "running"
  /\ \E image \in InputImages :
       /\ size = image.size
       /\ termination = image.termination /\ brCount = image.brCount
       /\ checksum = image.checksum /\ saved = image.saved
       /\ slots = image.slots
  /\ goals = {}
  /\ mutex = NoThread /\ index = 0 /\ index_map = [id \in {} |-> 0] /\ read_inputs = 0
  /\ pc = [t \in Threads |-> IF t = Main THEN "load" ELSE "unborn"]
  /\ call = [t \in Threads |-> NoCall]
  /\ leaving = {} /\ atexit \in 0..AtExitCalls
  /\ executed = {} /\ completed = {} /\ reported = {}

Goto(t, label) == pc' = [pc EXCEPT ![t] = label]

-----------------------------------------------------------------------------
Bug_WipesHeaderOnly == slots
Wiped == [i \in SlotIndex |-> ZeroRecord]

(* main(): the configuration and the inputs are copied out of the segment  *)
(* before it is cleared.                                                   *)
Clear ==
  /\ pc[Main] = "load"
  /\ termination' = normal /\ brCount' = 0 /\ checksum' = 0 /\ saved' = 0
  /\ slots' = Wiped /\ goals' = {}
  /\ Goto(Main, "header")
  /\ UNCHANGED <<proc, mutex, object, call, leaving, atexit, history>>

(* The header is written and original_main() entered: from here on the     *)
(* benchmark's threads may come to life.                                   *)
PutHeader ==
  /\ pc[Main] = "header"
  /\ termination' = normal /\ brCount' = CondBrCount /\ checksum' = 0
  /\ saved' = HeaderSize
  /\ pc' = [t \in Threads |-> "user"]
  /\ UNCHANGED <<proc, slots, goals, mutex, object, call, leaving, atexit,
                 history>>

CallExit(t) == leaving' = leaving \cup {t} /\ Goto(t, "exit")

(* original_main() returned; set_termination(normal) takes no lock.        *)
SetNormal ==
  /\ pc[Main] = "user"
  /\ termination' = normal
  /\ CallExit(Main)
  /\ UNCHANGED <<proc, brCount, checksum, saved, slots, goals, mutex, object,
                 call, atexit, history>>

-----------------------------------------------------------------------------
(* The benchmark calls a probe, from its own code or from a handler that   *)
(* exit() runs.                                                            *)
CallProbe(t, c) ==
  /\ \/ pc[t] = "user" /\ UNCHANGED atexit
     \/ pc[t] = "exit" /\ atexit > 0 /\ atexit' = atexit - 1
  /\ c \in Calls
  /\ call' = [call EXCEPT ![t] = c] /\ Goto(t, "lock")
  /\ executed' = IF c.hook = "br" THEN executed \cup {<<c.id, c.coverage>>}
                 ELSE executed
  /\ UNCHANGED <<proc, segment, mutex, object, leaving, completed, reported>>

Bug_NoMutualExclusion == TRUE
MutexIsFree == mutex = NoThread

Acquire(t) ==
  /\ pc[t] = "lock" /\ MutexIsFree
  /\ mutex' = t /\ Goto(t, "body")
  /\ UNCHANGED <<proc, segment, object, call, leaving, atexit, history>>

In(t, hook) == pc[t] = "body" /\ call[t].hook = hook

can_accept_bytes(n) == ~(size < saved + n)

Bug_StaysLocked == mutex
Unlocked == NoThread

(* End of the scope of the lock_guard, back in the caller's code.          *)
Release(t) ==
  /\ mutex' = Unlocked
  /\ Goto(t, IF t \in leaving THEN "exit" ELSE "user")
  /\ call' = [call EXCEPT ![t] = NoCall]

(* set_termination() and exit(0), with the lock still held: exit() does    *)
(* not unwind the stack.                                                   *)
ReportAndExit(t, reason) ==
  /\ termination' = reason /\ reported' = reported \cup {reason}
  /\ CallExit(t)
  /\ call' = [call EXCEPT ![t] = NoCall]
  /\ UNCHANGED <<proc, brCount, checksum, saved, slots, goals, mutex, object,
                 atexit, executed, completed>>

Overflow(t) ==
  /\ In(t, "br") \/ In(t, "goal")
  /\ ~can_accept_bytes(flattened_size)
  /\ ReportAndExit(t, medium_overflow)

ErrorProbe(t) == In(t, "error") /\ ReportAndExit(t, ver_error_reached)

(* input_model::read.                                                      *)
ReadExhausted(t) ==
  /\ In(t, "read") /\ read_inputs >= InputCount
  /\ ReportAndExit(t, insufficient_data)

ReadInput(t) ==
  /\ In(t, "read") /\ read_inputs < InputCount
  /\ read_inputs' = read_inputs + 1
  /\ Release(t)
  /\ UNCHANGED <<proc, segment, index, index_map, leaving, atexit, history>>

GoalProbe(t) ==
  /\ In(t, "goal") /\ can_accept_bytes(flattened_size)
  /\ goals' = goals \cup {call[t].id}
  /\ Release(t)
  /\ UNCHANGED <<proc, termination, brCount, checksum, saved, slots, object,
                 leaving, atexit, history>>

-----------------------------------------------------------------------------
Bug_SkipsASlot == index + 1
NextSlot == index

(* process_br_instr: a branch seen for the first time takes the next slot. *)
NewBranch(t) ==
  /\ In(t, "br") /\ can_accept_bytes(flattened_size)
  /\ call[t].id \notin DOMAIN index_map
  /\ index_map' = [id \in DOMAIN index_map \cup {call[t].id} |->
                     IF id = call[t].id THEN NextSlot ELSE index_map[id]]
  /\ checksum' = checksum + call[t].id
  /\ Goto(t, "cov")
  /\ UNCHANGED <<proc, termination, brCount, saved, slots, goals, mutex, index,
                 read_inputs, call, leaving, atexit, history>>

Bug_IdAlone(t) == checksum
WithCoverage(t) == checksum + call[t].coverage

AddCoverage(t) ==
  /\ pc[t] = "cov"
  /\ checksum' = WithCoverage(t)
  /\ Goto(t, "id")
  /\ UNCHANGED <<proc, termination, brCount, saved, slots, goals, mutex, object,
                 call, leaving, atexit, history>>

StoreId(t) ==
  /\ pc[t] = "id"
  /\ index' = index + 1
  /\ slots' = [slots EXCEPT ![index_map[call[t].id]].id = call[t].id]
  /\ Goto(t, "store")
  /\ UNCHANGED <<proc, termination, brCount, checksum, saved, goals, mutex,
                 index_map, read_inputs, call, leaving, atexit, history>>

Complete(t) == completed' = completed \cup {<<call[t].id, call[t].coverage>>}

StoreCoverage(t) ==
  /\ pc[t] = "store"
  /\ slots' = [slots EXCEPT ![index_map[call[t].id]].coverage = call[t].coverage]
  /\ Complete(t) /\ Release(t)
  /\ UNCHANGED <<proc, termination, brCount, checksum, saved, goals, object,
                 leaving, atexit, executed, reported>>

saved_cov(t) == slots[index_map[call[t].id]].coverage

Bug_NeverMerges(t)      == TRUE
Bug_MergesEverything(t) == saved_cov(t) = BOTH
NothingNew(t) == saved_cov(t) = BOTH \/ saved_cov(t) = call[t].coverage

(* A branch seen before, with nothing new to tell ...                      *)
OldBranch(t) ==
  /\ In(t, "br") /\ can_accept_bytes(flattened_size)
  /\ call[t].id \in DOMAIN index_map
  /\ NothingNew(t)
  /\ Complete(t) /\ Release(t)
  /\ UNCHANGED <<proc, segment, object, leaving, atexit, executed, reported>>

Bug_Backwards(t) == saved_cov(t) - BOTH
MissingFromSum(t) == BOTH - saved_cov(t)

(* ... or with its other direction.                                        *)
OtherDirection(t) ==
  /\ In(t, "br") /\ can_accept_bytes(flattened_size)
  /\ call[t].id \in DOMAIN index_map
  /\ ~NothingNew(t)
  /\ checksum' = checksum + MissingFromSum(t)
  /\ Goto(t, "both")
  /\ UNCHANGED <<proc, termination, brCount, saved, slots, goals, mutex, object,
                 call, leaving, atexit, history>>

StoreBoth(t) ==
  /\ pc[t] = "both"
  /\ slots' = [slots EXCEPT ![index_map[call[t].id]].coverage = BOTH]
  /\ Complete(t) /\ Release(t)
  /\ UNCHANGED <<proc, termination, brCount, checksum, saved, goals, object,
                 leaving, atexit, executed, reported>>

-----------------------------------------------------------------------------
(* The benchmark calls exit() itself.                                      *)
UserExit(t) ==
  /\ pc[t] = "user"
  /\ CallExit(t)
  /\ UNCHANGED <<proc, segment, mutex, object, call, atexit, history>>

NoHandlerLeft == atexit = 0

(* exit() has no handler left to run and ends the process, whatever the    *)
(* other threads are doing.                                                *)
ExitDone(t) ==
  /\ pc[t] = "exit" /\ NoHandlerLeft
  /\ proc' = "exited"
  /\ UNCHANGED <<segment, mutex, object, pc, call, leaving, atexit, history>>

(* A signal: the benchmark fails, or the library on its way to it.         *)
Crash(t) ==
  /\ pc[t] \in {"load", "header", "user", "exit"}
  /\ proc' = "crashed"
  /\ UNCHANGED <<segment, mutex, object, pc, call, leaving, atexit, history>>

(* The driver's timeout.                                                   *)
Kill ==
  /\ proc' = "killed"
  /\ UNCHANGED <<segment, mutex, object, pc, call, leaving, atexit, history>>

(* What a thread does inside the library, and what the benchmark chooses.  *)
Probe(t) ==
  \/ Acquire(t) \/ Overflow(t) \/ ErrorProbe(t) \/ ReadExhausted(t)
  \/ ReadInput(t) \/ GoalProbe(t) \/ NewBranch(t) \/ AddCoverage(t)
  \/ StoreId(t) \/ StoreCoverage(t) \/ OldBranch(t) \/ OtherDirection(t)
  \/ StoreBoth(t)

Benchmark(t) ==
  \/ \E c \in Calls : CallProbe(t, c)
  \/ UserExit(t)
  \/ Crash(t)

Startup == Clear \/ PutHeader

Next ==
  /\ proc = "running" /\ UNCHANGED size
  /\ \/ Startup \/ SetNormal \/ Kill
     \/ \E t \in Threads : Probe(t) \/ Benchmark(t) \/ ExitDone(t)

Spec == Init /\ [][Next]_vars

(* The kernel runs every thread, and the mutex starves none.  What the     *)
(* benchmark does between two probes is its own choice, except that its    *)
(* exit handlers run to their end.                                         *)
ExitHandler(t) == pc[t] = "exit" /\ \E c \in Calls : CallProbe(t, c)

Takes(action) == proc = "running" /\ UNCHANGED size /\ action

Fairness ==
  \A t \in Threads :
    /\ SF_vars(Takes(Acquire(t)))
    /\ WF_vars(Takes(Probe(t) \/ ExitHandler(t) \/ ExitDone(t)))

FairSpec == Spec /\ Fairness

-----------------------------------------------------------------------------
(* What a reader of the segment finds: it stops at the first zero id.      *)
Scanned == { i \in SlotIndex : \A j \in 0..i : slots[j].id # 0 }
Covered == UNION { CondsOf(slots[i].id, slots[i].coverage) : i \in Scanned }

Loaded  == pc[Main] \notin {"load", "header"}

Idle    == {"unborn", "user", "lock", "exit"}
Outside == Idle \cup {"load", "header"}
Inside  == {"body", "cov", "id", "store", "both"}

(* Every variable has its type.                                            *)
TypeOK ==
  /\ proc \in {"running", "exited", "crashed", "killed"}
  /\ termination \in Byte /\ brCount \in Nat /\ checksum \in Nat
  /\ saved \in Nat /\ size \in Nat
  /\ slots \in [SlotIndex -> [id : Nat, coverage : Byte]]
  /\ goals \subseteq Goals
  /\ mutex \in Threads \cup {NoThread}
  /\ index \in Nat /\ read_inputs \in Nat
  /\ DOMAIN index_map \subseteq Branches
  /\ \A id \in DOMAIN index_map : index_map[id] \in Nat
  /\ pc \in [Threads -> Outside \cup Inside]
  /\ call \in [Threads -> Calls \cup {NoCall}]
  /\ leaving \subseteq Threads /\ atexit \in Nat
  /\ executed \subseteq Branches \X Directions
  /\ completed \subseteq Branches \X Directions
  /\ reported \subseteq {insufficient_data, ver_error_reached, medium_overflow}

(* The records stand one after the other without a hole, one per branch,   *)
(* and only zeroes follow: a reader that stops at the first zero id has    *)
(* missed nothing, whenever the target was stopped (target.cpp:24-41).     *)
RecordsAreContiguous ==
  Loaded =>
    \A i, j \in SlotIndex : i < j =>
      /\ slots[i].id = 0 => slots[j] = ZeroRecord
      /\ slots[i].id # 0 => slots[i].id # slots[j].id

(* A condition whose probe has returned is in the segment for good, even   *)
(* if the process is killed or crashes the next instant.                   *)
CompletedIsRecorded == completed \subseteq Covered

(* Whatever else a reader finds was evaluated too, but for one case: a     *)
(* process stopped between the two halves of a new record shows its branch *)
(* as FALSE.                                                               *)
OnlyTornIsExtra ==
  Loaded =>
    \A c \in Covered \ executed :
      \E t \in Threads : pc[t] = "store" /\ c = <<call[t].id, covFALSE>>

(* With no thread inside a probe the segment tells exactly what the        *)
(* benchmark evaluated, unless a probe gave up on a full segment.          *)
QuietIsExact ==
  /\ Loaded /\ medium_overflow \notin reported
  /\ \A t \in Threads : pc[t] \in {"user", "exit"}
  => Covered = executed

(* The probes give up before they write past the segment: the last record  *)
(* ends in it, its padding left out (target_termination.hpp:14).           *)
RecordsFitRegion ==
  Loaded /\ index > 0 =>
    HeaderSize + sizeof_record * (index - 1) + flattened_size <= size

(* A thread has left with the lock, and a handler's probe waits for it.    *)
Stuck ==
  /\ mutex \in leaving /\ pc[mutex] \notin Inside
  /\ \E t \in leaving : pc[t] = "lock"

(* A benchmark that has called exit() ends without the driver's help, so   *)
(* that what it reported is not replaced by a timeout; the one exception   *)
(* is an exit handler's probe after a probe that left with the lock held   *)
(* (target.cpp:20-21, 75-76, input_model.hpp:38-39).                       *)
LeavingEnds == leaving # {} ~> (proc # "running" \/ Stuck)
=============================================================================
