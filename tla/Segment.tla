------------------------------- MODULE Segment -------------------------------
(***************************************************************************)
(* The segment of shared memory itself: one driver after another creates   *)
(* or finds it, clears it, appends a test's header and bytes to it; the    *)
(* target takes them out in order, clears it, appends its own header, and  *)
(* stores records at fixed offsets, where the driver's analysers look.     *)
(* A byte is known by who wrote it, so that a reader who looks elsewhere   *)
(* than the writer wrote, or too late, is seen.  What a record says is in  *)
(* Target, what the driver makes of it in Analyzer and TestSuiteRun.       *)
(***************************************************************************)
EXTENDS Integers, Sequences

CONSTANTS
  Sizes,         \* what init_shared_memory may be asked for
  Page,          \* the grain at which memory is mapped
  Lengths,       \* of the inputs of a test
  MaxExecutions, \* bound
  MaxSlot        \* bound: slots the benchmark's probes write

sizeof_saved == 8
HeaderSize   == 17

(* How many bytes behind `saved' can be touched at all.                    *)
Mapped(bytes) == ((bytes + sizeof_saved + Page - 1) \div Page) * Page - sizeof_saved

(* clear() wipes as many bytes as the region has, starting behind saved:   *)
(* eight more than there are, in the rest of the last page.                *)
Cleared(bytes) == bytes + sizeof_saved

ASSUME PageAssumption == Page \in Nat \ {0}
ASSUME SizesAssumption ==
  Sizes \subseteq Nat /\ \A s \in Sizes : Cleared(s) <= Mapped(s)
ASSUME BoundsAssumption ==
  Lengths \subseteq Nat /\ MaxExecutions \in Nat /\ MaxSlot \in Nat

(* What each side appends or takes out, in this order.                     *)
Bug_CountFirst == <<"max_exec_megabytes", "input_count", "byte_count", "bytes">>
SendOrder == <<"max_exec_megabytes", "byte_count", "input_count", "bytes">>
LoadOrder == <<"max_exec_megabytes", "byte_count", "input_count", "bytes">>
Bug_ChecksumEarly == <<"termination", "checksum", "br_count", "goal_count">>
PutOrder  == <<"termination", "br_count", "goal_count", "checksum">>

sizeof(field) ==
  CASE field = "max_exec_megabytes" -> 2
    [] field \in {"byte_count", "input_count", "checksum", "record"} -> 8
    [] field \in {"br_count", "goal_count"} -> 4
    [] field \in {"termination", "goal"} -> 1

(* Where the driver looks for what the target wrote.                       *)
Output == {"termination", "br_count", "goal_count", "checksum", "record", "goal"}
ReadAt(field) ==
  CASE field = "termination"        -> 0
    [] field = "br_count"           -> 1
    [] field = "goal_count"         -> 5
    [] field = "checksum"           -> 9
    [] field \in {"record", "goal"} -> HeaderSize

(* A byte: of which execution, of which field, and how far into it.        *)
Fields == Output \cup {"max_exec_megabytes", "byte_count", "input_count", "bytes"}
Cells  == [execution : Nat, of : Fields, at : Nat]
Zero   == [execution |-> 0, of |-> "nothing", at |-> 0]

VARIABLES
  size, saved, memory,       \* the segment
  driver,                    \* the driver's place in run_test_suite
  execution, length, sent,   \* how many so far; the test's bytes; fields sent
  target,                    \* the target's place in main()
  cursor, taken, put,        \* fields taken out and put in by the target
  intact                     \* history: it has taken what was sent

segment    == <<size, saved, memory>>
driverVars == <<driver, execution, length, sent>>
targetVars == <<target, cursor, taken, put, intact>>
vars       == <<segment, driverVars, targetVars>>

NoTarget ==
  target' = "none" /\ cursor' = 0 /\ taken' = 0 /\ put' = 0 /\ intact' = TRUE

Init ==
  /\ size = 0 /\ saved = 0 /\ memory = [i \in {} |-> Zero]
  /\ driver = "none" /\ execution = 0 /\ length = 0 /\ sent = 0
  /\ target = "none" /\ cursor = 0 /\ taken = 0 /\ put = 0 /\ intact = TRUE

-----------------------------------------------------------------------------
Cell(field, k) == [execution |-> execution, of |-> field, at |-> k]

(* clear(): what lies there is wiped, however much of it is in use.        *)
Bug_WipesSaved == [i \in DOMAIN memory |-> IF i < saved THEN Zero ELSE memory[i]]
Wiped == [i \in DOMAIN memory |-> IF i < Cleared(size) THEN Zero ELSE memory[i]]

(* n bytes, from the k-th byte of a field on, stored at an address.        *)
Stored(address, field, k, n) ==
  [i \in DOMAIN memory |->
     IF address <= i /\ i < address + n THEN Cell(field, k + i - address) ELSE memory[i]]

(* accept_bytes() asks nothing about the room there is.                    *)
Accepted(field, n) == Stored(saved, field, 0, n)
Mappable(address)  == address <= Mapped(size)

-----------------------------------------------------------------------------
(* The driver.  The segment outlives it, nothing ever removes it, and the  *)
(* next driver finds what was in it, but for what it cuts off.             *)
InitSharedMemory(s) ==
  /\ driver = "none"
  /\ size' = s
  /\ memory' = [i \in 0..(Mapped(s) - 1) |->
                  IF i < size /\ i < s THEN memory[i] ELSE Zero]
  /\ driver' = "test"
  /\ UNCHANGED <<saved, execution, length, sent, targetVars>>

Clear(n) ==
  /\ driver = "test" /\ execution < MaxExecutions
  /\ memory' = Wiped /\ saved' = 0
  /\ execution' = execution + 1 /\ length' = n /\ sent' = 0
  /\ driver' = "send"
  /\ UNCHANGED <<size, targetVars>>

Width(field) == IF field = "bytes" THEN length ELSE sizeof(field)

Send(field) ==
  /\ driver = "send" /\ sent < 4 /\ field = SendOrder[sent + 1]
  /\ memory' = Accepted(field, Width(field))
  /\ IF Mappable(saved + Width(field))
     THEN saved' = saved + Width(field) /\ sent' = sent + 1 /\ UNCHANGED driver
     ELSE driver' = "none" /\ UNCHANGED <<saved, sent>>   \* it dies of it
  /\ UNCHANGED <<size, execution, length, targetVars>>

StartTarget ==
  /\ driver = "send" /\ sent = 4
  /\ driver' = "wait" /\ target' = "start"
  /\ UNCHANGED <<segment, execution, length, sent, cursor, taken, put, intact>>

(* The target has ended, or is killed.                                     *)
WaitOver ==
  /\ driver = "wait"
  /\ target' = "ended" /\ driver' = "classify"
  /\ UNCHANGED <<segment, execution, length, sent, cursor, taken, put, intact>>

SetTermination == memory' = Stored(0, "termination", 0, 1)

(* The driver's verdict, timeout among them, or the target's own.          *)
Classify ==
  /\ driver = "classify"
  /\ SetTermination \/ UNCHANGED memory
  /\ driver' = "read"
  /\ UNCHANGED <<size, saved, execution, length, sent, targetVars>>

(* The segment is read, and it is the next test's turn, ...                *)
AddExecution ==
  /\ driver = "read" /\ driver' = "test"
  /\ NoTarget
  /\ UNCHANGED <<segment, execution, length, sent>>

(* ... or the driver ends.                                                 *)
DriverEnds ==
  /\ driver = "test" /\ driver' = "none"
  /\ UNCHANGED <<segment, execution, length, sent, targetVars>>

-----------------------------------------------------------------------------
(* The target.                                                             *)
Goto(place) == target' = place

MapRegion ==
  /\ target = "start" /\ Goto("load") /\ cursor' = 0
  /\ UNCHANGED <<segment, driverVars, taken, put, intact>>

(* The byte count is the one sent, if these were its bytes.                *)
LoadedWidth(field) ==
  IF field # "bytes" THEN sizeof(field) ELSE IF intact THEN length ELSE 0

Load(field) ==
  /\ target = "load" /\ taken < 4 /\ field = LoadOrder[taken + 1]
  /\ Mappable(cursor + LoadedWidth(field))
  /\ intact' = (intact /\ \A k \in 0..(LoadedWidth(field) - 1) :
                            memory[cursor + k] = Cell(field, k))
  /\ cursor' = cursor + LoadedWidth(field) /\ taken' = taken + 1
  /\ UNCHANGED <<segment, driverVars, target, put>>

ClearAgain ==
  /\ target = "load" /\ taken = 4
  /\ memory' = Wiped /\ saved' = 0 /\ cursor' = 0
  /\ Goto("put")
  /\ UNCHANGED <<size, driverVars, taken, put, intact>>

PutField(field) ==
  /\ target = "put" /\ put < 4 /\ field = PutOrder[put + 1]
  /\ Mappable(saved + sizeof(field))
  /\ memory' = Accepted(field, sizeof(field)) /\ saved' = saved + sizeof(field)
  /\ put' = put + 1
  /\ UNCHANGED <<size, driverVars, target, cursor, taken, intact>>

OriginalMain ==
  /\ target = "put" /\ put = 4 /\ Goto("main")
  /\ UNCHANGED <<segment, driverVars, cursor, taken, put, intact>>

(* A probe asks for room, and the answer does not depend on the slot.  A   *)
(* benchmark has one kind of slot or the other; a mixture is more than it  *)
(* can do.                                                                 *)
flattened_size == 5
can_accept_bytes(n) == size >= saved + n

StoreSlot(field, slot) ==
  /\ target = "main" /\ can_accept_bytes(flattened_size)
  /\ Mappable(HeaderSize + sizeof(field) * (slot + 1))
  /\ memory' = Stored(HeaderSize + sizeof(field) * slot, field,
                      sizeof(field) * slot, sizeof(field))
  /\ UNCHANGED <<size, saved, driverVars, targetVars>>

Overflow ==
  /\ target = "main" /\ ~can_accept_bytes(flattened_size)
  /\ SetTermination /\ Goto("ended")
  /\ UNCHANGED <<size, saved, driverVars, cursor, taken, put, intact>>

(* main() returns, or a probe reports an error.                            *)
Leave ==
  /\ target = "main"
  /\ SetTermination /\ Goto("ended")
  /\ UNCHANGED <<size, saved, driverVars, cursor, taken, put, intact>>

(* It may end of anything else, of touching what is not mapped too.        *)
Die ==
  /\ target \notin {"none", "ended"} /\ Goto("ended")
  /\ UNCHANGED <<segment, driverVars, cursor, taken, put, intact>>

Next ==
  \/ \E s \in Sizes : InitSharedMemory(s)
  \/ \E n \in Lengths : Clear(n)
  \/ \E field \in Fields : Send(field) \/ Load(field) \/ PutField(field)
  \/ StartTarget \/ WaitOver \/ Classify \/ AddExecution \/ DriverEnds
  \/ MapRegion \/ ClearAgain \/ OriginalMain
  \/ \E field \in {"record", "goal"}, slot \in 0..MaxSlot : StoreSlot(field, slot)
  \/ Overflow \/ Leave \/ Die

Spec == Init /\ [][Next]_vars

-----------------------------------------------------------------------------
(* Every variable has its type.                                            *)
TypeOK ==
  /\ size \in Nat /\ saved \in Nat
  /\ \A i \in DOMAIN memory : memory[i] \in Cells \cup {Zero}
  /\ driver \in {"none", "test", "send", "wait", "classify", "read"}
  /\ target \in {"none", "start", "load", "put", "main", "ended"}
  /\ execution \in Nat /\ length \in Nat /\ cursor \in Nat
  /\ sent \in 0..4 /\ taken \in 0..4 /\ put \in 0..4
  /\ intact \in BOOLEAN

(* Two processes, two cursors and no tag on any value: still the target    *)
(* takes out field by field what the driver put in, whatever an earlier    *)
(* execution or an earlier driver left (run.cpp:119-124, main.cpp:29-30).  *)
InputArrives == intact

Written == { i \in DOMAIN memory : i < Cleared(size) /\ memory[i] # Zero }

(* What the driver finds in the cleared part of the segment is of this     *)
(* execution, be it the target's or its own (run.cpp:119, main.cpp:32).    *)
NothingStale ==
  driver \in {"send", "wait", "classify", "read"} =>
    \A i \in Written : memory[i].execution = execution

(* What the target appends and stores is where the driver reads it: the    *)
(* offsets are written down three times (shared_memory.cpp:86-109,         *)
(* target.cpp:28-32, run_analyzer.cpp:17-19).                              *)
FoundWhereRead ==
  \A i \in Written : memory[i].of \in Output => i = ReadAt(memory[i].of) + memory[i].at
=============================================================================
