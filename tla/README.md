# TLA+ models of TestCoCa

TestCoCa runs an instrumented C program once for every test of a test suite and
reports how many branch conditions the suite covers, or whether it reaches an
error. A Python runner instruments and builds the program and starts the driver.
The driver and the instrumented program ("target") talk through one segment of
shared memory, which the driver reads after the target has ended, crashed or been
killed. These modules model that conversation and its bytes, the code on both
sides of it, the instrumenter, the schedule of the executions, and the runner.

## Inventory

| Part | Code | State | Operations |
|---|---|---|---|
| Target library | `src/target` | mutex, `index`, `index_map`, input cursor, the segment | `main`, `process_br_instr`, `process_goal`, `process_ver_error`, `on_read`, `exit` |
| Shared memory | `src/connection` (`shared_memory`) | termination byte, two counts, checksum, records, `saved`, `cursor` | `open_or_create`, `set_size`, `map_region`, `clear`, `<<`, `>>`, `can_accept_bytes`, `get_termination`, `set_termination` |
| Target executor | `src/connection/src/target_executor.cpp` | child process, timeout | `execute_target`, `wait_for_wrapper` |
| Test suite loop | `src/driver/src/run.cpp` | tests left, wave | `run_test_suite`, `calculate_waves`, `save_results_to_json` |
| Analysers | `src/driver/src/run_analyzer.cpp` | branch count, coverage map; goals; error flag | `add_execution`, `reset`, `get_result` |
| Test parser and input model | `src/driver/src/test_parser.cpp`, `src/iomodels` | byte buffer, cursor | `write_typed`, `write_untyped`, `parse_dir`, `load`, `read` |
| Instrumenter | `src/instrumenter` | names, the two counters, blocks to delete | `instrument_br`, `instrument_err`, `instrument_goals`, `renameFunctions` |
| Runner | `src/runner/TestCoCa.py` | files in the output directory | `build`, `run_tests`, `prepare_test_suite`, `main` |
| Benchmark manager | `benchmarks/benman.py` | output tree | `build`, `test`, `clear` |

Interactions: the runner starts instrumenter, compiler and driver and trusts
their exit codes; the driver writes a test's bytes into the segment, starts a
target, waits with a timer and perhaps kills it; the target copies the input
out of the segment, clears it and records coverage in it while its threads run;
the driver classifies the termination and hands the segment to an analyser.

What is hard to test here:

* the driver may kill a target between any two stores and then reads the segment;
* the segment starts out holding the driver's own input, so a target that dies
  early leaves bytes that were never results;
* benchmarks may have threads, and probes leave through `exit(0)` with the lock
  of the library held, while exit handlers may call probes again;
* `main()` reports without that lock;
* executions are repeated in waves, and their segments are merged;
* the driver and the target each know the widths of the input types, and only
  agree by agreeing on every one of them;
* the runner passes files from tool to tool through one directory, where
  earlier builds, also failed ones, have left theirs.

What makes each part correct:

* target: at any instant the segment can be read, and says what was evaluated;
* executor: the termination byte tells how the target really ended;
* loop: every test is run once per wave until it does not time out, the budget
  is kept, and the results are saved whatever the targets do once they are started
  and have cleared the segment;
* segment: what one side appends, the other finds, and finds nothing older;
* analysers: nothing is lost or invented in merging, and the counts are bounded;
* instrumenter: every decision and every goal has a number of its own, and the
  counts the target announces are those of the numbers;
* parser and input model: the target reads the values the test states;
* runner: what is tested was built from the file that was given.

`PROJECT.json` lists the parts, the hazards with their lines, and which
definition models which lines.

## Modules

```
Coverage ------------------ values shared by all
  Execution --------------- abstract: what one execution promises the driver
  Target ------------------ detailed: the instrumented process, store by store
    TargetImage ----------- what a reader makes of the segment (with Sums), and
                            Target implements Execution
      TargetInv ----------- the inductive invariant
        TargetProofs ------ invariants, checksum and refinement: TLAPS proofs
        MCTarget
  TestSuiteRun ------------ driver loop, executor, analysers; INSTANCE Execution
    TestSuiteRunProofs ---- inductive invariant and TLAPS proofs
    MCTestSuiteRun
  Analyzer ---------------- the three analysers, record by record and byte by byte
    AnalyzerProofs -------- inductive invariant and TLAPS proofs
    MCAnalyzer
Sums ---------------------- adding up an array, for the checksum
Segment ------------------- the shared memory, byte by byte, over many executions
  SegmentProofs ----------- inductive invariant and TLAPS proofs
  MCSegment
Instrumenter -------------- the walk over the benchmark's blocks
  InstrumenterProofs ------ inductive invariant and TLAPS proofs
  MCInstrumenter
Waves --------------------- calculate_waves
  WavesProofs ------------- loop invariant and TLAPS proofs
  MCWaves
TestInput ----------------- writing and reading the bytes of a test
  TestInputProofs --------- inductive invariant and TLAPS proofs
  MCTestInput
Pipeline ------------------ the runner over the files of an output directory
  PipelineProofs ---------- inductive invariant and TLAPS proofs
  MCPipeline
```

### Target

A process with a fixed set of `Threads`; only `Main` lives until the benchmark
has started. `pc` of a thread is where it is in the library: `load` and
`header` are `main()` before and after the clearing of the segment, `user` is
the benchmark's own code, `lock` waits for the mutex, `body` has it, `cov`,
`id`, `store` and `both` stand between two stores of `process_br_instr`, and
`exit` is inside `exit()`. `size` is what `get_size()` returns, and differs from
one input image to the next. The segment is the variables `termination`,
`brCount`, `checksum`, `saved`, `slots` (the records) and `goals`; the object
`target` is `mutex`, `index`, `index_map` and `read_inputs`.

| Action | Code |
|---|---|
| `Clear`, `PutHeader`, `SetNormal` | `main.cpp` 26-32, 34-42, 44 |
| `CallProbe`, `Acquire`, `Release` | the hooks, the `lock_guard` and its end |
| `NewBranch`, `AddCoverage`, `StoreId`, `StoreCoverage` | `target.cpp` 24-42, one store each |
| `OldBranch`, `OtherDirection`, `StoreBoth` | `target.cpp` 44-50 |
| `Overflow`, `ErrorProbe`, `ReadExhausted` | the exits with the lock held |
| `GoalProbe`, `ReadInput` | `target.cpp` 53-70, `input_model.hpp` 34-78 |
| `UserExit`, `ExitDone`, `Crash` | the benchmark's end, by `exit()` or by a signal |
| `Kill` | the driver's timeout |

The benchmark is arbitrary: any thread may call any probe compiled into it at
any time. `executed`, `completed` and `reported` are history variables.
`RecordsAreContiguous`, `CompletedIsRecorded`, `OnlyTornIsExtra` and
`QuietIsExact` say together why the driver may read a target killed at any
store: the records have no hole, they have everything whose probe returned,
and nothing else but, at most, the branch of a record cut in two, shown as
FALSE. `ChecksumTellsTorn` says that the checksum detects exactly that, and
`CertifiedIsExecuted` what follows for a reader who heeds it. `Hash` is the
analyser's sum, one record after the other.
`LeavingEnds` says that a process in which a thread is inside `exit()` ends,
unless it is `Stuck`: a thread left with the lock held, and a probe of an exit
handler waits for it. A hazard without a property of its
own: `main()` stores normal without the lock, and may replace the
error a thread has just found.

Abstractions: the stores of one record are taken in program order, as compiled
for x86 without reordering across the stores to the segment; `clear` and the
writing of the header are one step each, since the probes cannot run meanwhile
and a reader finds no record in either; the checksum and `saved` do not wrap
(both stay far below 2^64); the handlers of `exit()` are a number of probe
calls shared by the threads inside `exit()`, as glibc removes a handler from
the list before it calls it; a handler that is running is not interrupted by
another thread's end of `exit()` unless its own calls are all made.

### Execution

The same process told through what a reader can find: `phase`, the termination
byte, the set of conditions `covered`, and whether the checksum is `certified`.
While the process runs a condition is `inflight` and then in `covered`; at
death it may have been half written. `TargetImage` gives the refinement mapping
and `ImplementsExecution` is checked as a PROPERTY of `MCTarget` and proved in
`TargetProofs`. `certified` speaks of a stopped target only: while it runs, the
probes are ahead of the records with the checksum, and nobody reads it.
`TestSuiteRun` uses `Execution` as the target, so that the driver is checked
against what the target is proved to do.

### TestSuiteRun

`NextWave`, `StartTest`, `WaveDone`, `Save` are the loop of `run_test_suite`,
which takes the tests in the order of their list (`Place`), from `run.cpp` 111 on;
`WaitOver`, `TimerExpires`, `Terminate`, `SetTimeout`, `Classify` are
`execute_target`; `AddExecution` is the analysers and the erasing of the test;
`TargetStep` and `TargetEnds` are the process running meanwhile. Between the
start of the target and its `Clear` the segment holds the test's input;
`InputView` says what that looks like when read as results. The target may end
there too, and with any exit code: a constructor function may call `exit(0)`. The
branch and the error analyser are run side by side, though the driver creates one
of them.

The driver ends in four ways. `Save` writes the results. `StartFails` is a process
that cannot be created: `bp::child` throws (`target_executor.cpp` 44), neither
`run` nor `main` catches it, and there are no results. `AnalyserDies` is an
analyser that reads past the mapped pages of a segment that was never cleared.
`AssertionFails` is the assertion of `get_result`, in a build that has it.
`ResultsAreSaved` excepts the first of these, and the other two if a segment was
not cleared or not whole (`trusted`). A segment of results ends with a zero id
before its pages do if it has room for a record of every branch, which
`RoomForAllIsEnough` of `Target` is about; in one that has not, the analyser could
die of records that reach to the very end of a page.

In `TrustedCoverageIsExact` and `TrustedVerdictIsExact` an execution is trusted
if it cleared the segment and its checksum fits: the driver itself does not make
that difference, which is what the violated properties below show.

### Analyzer

`test_type` is the analyser `create_run_analyzer` made; `add_execution` of each
reads segments that come from another process, of whose contents nothing is
assumed.

| Action | Code (`run_analyzer.cpp`) |
|---|---|
| `BeginScan`, `SkipRecord`, `MergeRecord`, `EmplaceRecord`, `EndScan` | the loop over records, 15-57 |
| `BeginFlags`, `AddFlag`, `EndFlags` | the loop over goals, 95-112, a byte at a time |
| `ReadPastEnd` | the same loop when a segment that was never cleared announces more goals than there are bytes: the driver dies |
| `AddTermination` | 141-146 |
| `Reset`, `GetResult` | 59-73, 114-128, 148-154; nothing in `src` calls `reset` |

A byte is the set of its bits, so that OR is union, and the sum of the bytes is
counted bit by bit. `accepted` remembers what
the segments said, `honest` whether all goal bytes were 0 or 1. What the
driver prints as covered is `conditions_covered` or `goals_hit`. `total` is what
the first is compared with, twice the number of branches in a `uint32_t`:
`CoveredAtMostTotal`, the assertion of the branch analyser, holds for any segments
as long as that number is below 2^31. From there on `total` wraps, and one record
in range can be more than it. No program has so many branches, but a segment that
was never cleared may announce them; then a build with assertions aborts
(`AssertionFails`; the default build is a release build, without), and another
goes on, dividing by zero for a count of exactly 2^31. The goal analyser adds up
bytes and stays below its total only for honest segments (`HitsAtMostTotal`).
The quotient and the wording are left out.

### Segment

The bytes behind `saved`, each known by the execution and the field it was
written for (`memory`), for one driver after another: `driver` is its place in
`run_test_suite`, `target` that of the target in `main()`.

| Action | Code |
|---|---|
| `InitSharedMemory` | `init_shared_memory`: the segment is created, or found as an earlier driver left it, cut or grown |
| `Clear`, `Send` | `run.cpp` 119-124, one `<<` or copy each; the driver dies of a test that runs past the mapped pages |
| `StartTarget`, `WaitOver`, `Classify`, `AddExecution`, `DriverEnds` | `execute_target` and the loop around it |
| `MapRegion`, `Load`, `ClearAgain`, `PutField`, `OriginalMain` | `main.cpp` 26-42, with `input_model::load` |
| `StoreSlot`, `Overflow`, `Leave`, `Die` | the probes, by where they write; the ends of the target |

The getters' offsets (`ReadAt`), the order of `<<` in `main()` (`PutOrder`), the
order of `<<` in the driver (`SendOrder`) and of `>>` in the target (`LoadOrder`)
are four separate pieces of code; `InputArrives` and `FoundWhereRead` say that
they fit together. `clear()` wipes `region.get_size()` bytes from behind `saved`,
eight more than belong to the region; they are in its last page
(`SizesAssumption`), since the driver asks for whole megabytes and the region is
eight bytes longer. Memory is mapped in pages, so that a write a little past the
region is silent and one past the page ends the process (`Mappable`).
Abstractions: a driver waits for its target to be gone before it goes on (a
driver that is killed while its target runs is left out, and so are two drivers
at once: the code has no protection against either); a benchmark may write
records and goals, which is more than one can do; the values of bytes are in
`TestInput`, `Target` and `Analyzer`.

### Instrumenter

A benchmark is a sequence of blocks, each of one function, with what is in it
that the instrumenter looks for: a conditional branch at its end, selects, calls
of `__testcoca_process_goal`, and its successors. Switches are gone by then.

| Action | Code (`llvm_instrumenter.cpp`) |
|---|---|
| `RenameFunctions` | 29-39 |
| `Terminator`, `FirstSelect`, `BranchesDone` | `instrument_br` 101-124, for one block each, and the constant |
| `InstrumentErr` | 90-99 |
| `VisitBlock`, `NumberGoal`, `CallsDone`, `GoalsDone` | `instrument_goals` 126-165: entry and unreachable blocks are skipped, the calls in the others numbered, dead blocks deleted at the end |

`name` is a prefix and what follows it; `setName` on a name that is taken, which
LLVM answers with a suffix, does not occur with these prefixes. Only the first
select of a block is instrumented: that is what `Decisions` are. A goal call in
an entry block would keep the number the runner's text transformation gave it;
the transformation puts every goal after a label, which begins a block of its
own, and `GoalIdsAreDense` is about the calls outside entry blocks. A dead block
is one without predecessors; what only dead blocks lead to is kept, and
`ReachableIsKept` says that nothing is deleted that can be reached.

### Waves

`calculate_waves`, one action per return and per turn of the loop;
`ExpectedWaves` is the closed form it is compared with. The first wave is 100 ms
also when the limit is smaller; `BudgetIsSpent` excepts that case.

### TestInput

The state is the driver's `TestBuffer` (`size`, `offset`, and, for the bytes,
the list of what was written and where each entry `starts`) and the target's
input model (`cursor`, `read_inputs`, the `value` read last). `inputs` remembers
what the test said.

| Definition | Code |
|---|---|
| `ParseInput`, `ParseFails` | one turn of `parse_test`, `test_parser.cpp` 217-263, with the growth of the buffer in `write`, 33-44 |
| `write_typed`, `Integral`, `Accepted` | 141-215: for each type name the type the text is cast to, the type written, and the type noted |
| `write_untyped`, `write_negative`, `write_positive` | 95-139 |
| `Load` | `input_model.cpp` 24-31 |
| `ReadInput`, `Exhausted` | `input_model.hpp` 34-78: the type, then as many bytes as `num_bytes` gives it |
| `ReadAstray` | the same when `cursor` is not where an entry starts: any byte may be taken for a type, or for none, which ends the process |

Abstractions. A text is an integer, a number with a fraction, the empty text or
anything else; trimming, hexadecimal and character literals belong to
what a text is. `Values` gives the number of values of each integer size, so that a small
instance has the same edges as 8 to 128 bits have; the proofs hold for any even
numbers of which the smaller divide the larger, as powers of two do. A floating point number is written and read as one block of bits whose
rounding is not modelled, and a float or double therefore has no part in
`ReadsWhatIsMeant`. The target is a 64-bit one: `long` stands
for `longlong` and `loff_t`, `ulong` for `ulonglong`, `size_t`, `sector_t`,
`pthread_t` and `pchar`. Negating the least 128-bit number, which the source
marks as doubtful, wraps.

### Pipeline

`ll`, `instrumented_ll`, `target` and `result` are files in the output directory;
each holds the version of the source it stems from and how far it has come.
`source` is the input file, `nearby` a target that may lie beside it.

| Action | Code |
|---|---|
| `Invoke`, `Reject` | `main` of `TestCoCa.py`, 363-389, with any options |
| `CompileSource`, `CompileLabelled` | `instrument` 115-125, `instrument_testcomp` 138-168 |
| `Instrument`, `InstrumentRefuses` | the instrumenter, `run.cpp` 61-109 and its early returns, 27-78 |
| `Link` | `build` 185-230 |
| `StartTesting`, `PrepareSuite`, `SkipTesting` | `main` 389-407, `prepare_test_suite` 286-300 |
| `StartDriver`, `Drive`, `DriverRefuses` | `run_tests` 233-253; the driver's clearing, saving and early returns, `run.cpp` 160-230 |
| `StageFails` | `execute_command` 31-37: an exception ends the runner |
| `ClearOutput` | `clear` of the benchmark manager, `benman.py` 226-231 |
| `EditSource` | whoever edits the file, between invocations |

`extracted` says whether there are tests in `test-suite` of the output directory.
A request with `archive` gives the tests as a `test-suite.zip`, which is extracted
there, and with `clear_output_dir` the driver then deletes them again before it
reads them (`StartDriver`; `run.cpp` 183-186): it reports on no tests, and
`ReportIsOfLastBuild` says of which it reports. Archives of another name are
extracted beside that directory and, like a directory of tests, stay (`archive` is
false for both); tests that the user keeps in the output directory's own
`test-suite` are left out.

`built` remembers what the target was to be when it was linked, and `silent`
that a tool in this invocation failed and yet exited with 0, as the
instrumenter and the driver do on every early return, and as the
transformation of goals does when it returns `False`, which nobody looks at. The three properties are
about invocations where that did not happen; `honest` in `built` keeps it for
later invocations that skip building. Benchmark manager runs are requests to
build without testing and to test without building. The clang-tidy copy of a
source is taken for the source; adding labels, transforming goals and compiling
is one step, as nothing else reads the files in between; a tool that fails
leaves its output as it was or of no use.

## Runs

Passing runs:

| Run | Bounds | Shows |
|---|---|---|
| `target_branches` | 2 threads, 2 branches, branch and error probes, segments with and without room, 1 probe call in exit handlers | the properties of the records, the checksum, and the refinement |
| `target_leaving` | 2 threads, goal, error and input probes, segments with and without room, 2 handler calls | once a thread leaves, the process ends, or a handler waits for the lock its own thread holds (`Stuck`) |
| `waves_all` | 5 test counts, limits around every threshold | budget, closed form |
| `analyzer_union` | all segments of at most 2 records over 3 ids and 4 coverages, all of 2 flags of 2 bits; a `uint32_t` of 8 values, and counts from 0 to the first that cannot be doubled in it | union, assertion, bound of the goals, growth |
| `suite_results` | 2 tests, 2 waves | termination, schedule, trusted results, and when results are saved |
| `instrumenter_ids` | all flow graphs of 3 blocks with up to 2 selects and goal calls each, an error function defined or declared, all options | numbers dense and unique, nothing reachable deleted, the error function found |
| `segment_carries` | 3 sizes within a page of 64 bytes, one of them 0, 4 input lengths (none, fitting, past the region, past the page), 3 executions, any number of drivers, 3 slots | input arrives, nothing old is read, fields are where they are read |
| `input_agrees` | 2 inputs, types of 3 to 7 bits, every type name, 17 integers at the edges, fractions, empty and bad texts | the buffer is long enough, reader and writer stay in step, and values are what the test means |
| `pipeline_builds` | 2 versions of the source, 3 invocations with any options | what is reported is of the last build, and of the tests given |

Two threads are enough for every race on one mutex and one map, two branches for
the order of slots and for a branch being new, half recorded or complete beside
another. Two handler calls let a handler that waited and went on wait again.
Two records per segment and any number of segments give every order
of merging into one map entry; two bits give bytes that are flags and bytes that
are not. Three blocks are an entry, a block that may be dead or not, and one that
may be reached only through it. Three executions are one that leaves bytes, one
that could read them, and one after a driver has come anew. In `suite_results` one branch is enough because
the analyser treats branches alone (that is `MapIsUnion`); two tests
and two waves give a test erased, kept, run again, and a result of one test
standing when another is added. In `input_agrees` one input may be misread, or make the buffer
grow, and the other then shows it; the integers are 0, 1, -1 and those on
both sides of an edge of a type. In
`pipeline_builds` the first invocation leaves a complete build, the second may
leave half of another, and the third is judged; the two versions are symmetric,
since nothing tells one from the other (`Branchy` has a target of each).
No probe call is bounded; in `Target` only `AtExitCalls` and the constants
bound a run, in `TestInput` only `MaxInputs`, in `Pipeline` only `MaxInvocations`.

Runs in which TLC finds the property violated, each quoting what the code's own
comment says (`findings` in `PROJECT.json`):

| Run | What happens |
|---|---|
| `target_overrun` | `saved` is not advanced by records, so `medium_overflow` never comes: in a region of 32 bytes the third record is stored at byte 33 and on |
| `suite_crash` | a crash after start-up is recorded as normal |
| `input_zero` | a value that cannot be parsed is written as four bytes and read as one, and the inputs after it are misread |

`CHECK_DEADLOCK FALSE` stands in the runs whose system really stops: a process
that has ended, a driver that is done, inputs that are used up. The analyser and
the pipeline never stop (a source can always be edited).

## Fairness

`Target!FairSpec`: every thread inside the library goes on (weak fairness of
its probe steps, of its exit handlers and of the end of `exit()`), since the
kernel schedules every thread; the mutex starves no thread (strong fairness of
`Acquire`). Nothing is asked of the benchmark's own code, which may loop for
ever. `TestSuiteRun!FairSpec`: weak fairness of the driver, whose timer is part
of it; nothing is asked of the target.

## Proofs

Every invariant that a passing run checks is proved for all values of the constants, and
so are the action property of the analysers and the refinement of `Execution`.
In each proof module `IInv` is the inductive invariant, there is one lemma for
each action or each conjunct, and the theorems follow from `Invariance`
(`Spec => []IInv`).

`TargetProofs`: any set of threads, any number of branches, goals, handler calls
and inputs, any size and any initial contents of the segment.

* `TypeCorrect`, `ContiguousRecords`, `NothingCompletedIsLost`,
  `NothingElseIsRecorded`, `QuietTargetIsExact`: the type invariant and the four
  properties of the records.
* `ChecksumShowsTornUpdates`, `RightChecksumIsHonest`: what the checksum tells,
  and that records whose checksum fits are conditions the benchmark evaluated.
* `TargetIsAnExecution`: every store of the target is a step or a stutter of
  `Execution` under the mapping of `TargetImage`.
* `RoomForAllIsEnough`: with room for a record of every branch (a megabyte has it
  for some 130000) no record passes the end of the region, since no branch ever
  takes a second slot. `target_overrun` shows that nothing else prevents it.
* `WaitsForWorkOrExit`: a thread that waits for the lock waits for one at work in
  a probe, or for one that left by `exit()` with it: the safety half of
  `LeavingEnds`.

Assumed are the named assumptions of `Target`: there is a main thread, the
counts are naturals, branches and goals are not both instrumented, and the
initial image has the segment's type. The properties are not inductive: that a
new branch finds an empty slot depends on how many are taken. `CountInv` ties
`index` to the number of branches in `index_map`, so that a branch not yet in
the map leaves `index` below the number of branches; `SlotsInv` makes map and
slots each other's inverse; `ThreadsInv` gives mutual exclusion, under which the
half-done work of one thread is all there is; `CompletedInv`, `CalledInv`,
`ExecutedInv` and `AccountedInv` tie the records to the history. For the
checksum, `SumInv` says at each place where an update can be cut short how far
the stored sum is ahead of the records. It rests on lemmas about `PartialSums`:
that there is such a function (built by induction over sets of naturals), and
that changing one term changes the sum by the difference (`SumChanges`).

`TestSuiteRunProofs`: any tests in any order, any number of branches, up to four
waves, any inputs, over targets of which only what `Execution` says is known.

* `AlwaysATermination`, `EveryTestItsRuns`, `CoverageOfTrustedRuns`,
  `VerdictOfTrustedRuns`, `TypeCorrect`.
* `DiesOfUntrustedOnly`: the driver dies only if some segment was not cleared or
  not whole. For `AssertionFails` this is not by the model's shape: it needs that
  the number of branches is the program's own (`CountInv`).
* `TimeoutsAreTimeouts` has a hypothesis, `NoInputLooksTimedOut`: the first byte
  of the segment is the low byte of `max_exec_megabytes` until the target clears
  it, and 2 is the code of a timeout. With 2 (or 258, ...) megabytes a target
  that dies before it clears the segment counts as timed out and is run again;
  the default is 4. The run has inputs that begin with 4 and 6.
* `DriverComesToAnEnd`: the safety half of `ResultsAreSaved`. `StepsLeft` counts
  waves, tests of the wave and the place in the loop; every step of the driver
  lowers it, also those that end it without results, and no step of the target
  raises it.

`DriverInv` says which test is in hand where, `ProcessInv` that the target lives
only while the driver waits, `SegmentInv` and `VerdictInv` what the segment and
its first byte are worth before and after the target cleared it.

`TestInputProofs`: any texts, any number of inputs, widths as above, and any
initial size that holds the largest value with its type (17 bytes; the code
starts with more).

* `NoOverrun`: no value is copied past the end of the buffer, though it is
  doubled only once.
* `ReadsWhereWritten`: `ReadsInStep`.
* `ReadsTheMeaning`: `ReadsWhatIsMeant`.
* `TypeCorrect`.

`LayoutInv` says that the entries lie one after the other, each the one its text
calls for, so that no two start at one place; `CursorInv` where the cursor is
while nothing was zeroed; `ValueInv` that the n-th value read is the n-th written. The lemmas about `write_typed` and `write_untyped` show that every
entry but the zeroed one has the size that `num_bytes` gives its type: two tables
in two programs agree. For the meaning of what is read, `WrapIgnoresMultiples`
and `WrapOfWrap` say that an integer may go through any type that is at least as
wide as the last; `RowHoldsMeant` goes through the rows of `write_typed`,
`UntypedHoldsMeant` through the widths of `write_untyped`.

`AnalyzerProofs`: any segments. `NothingLostInMerging`, `NothingLostInGoals`,
`CoverageIsAtMostAll`, `HonestFlagsCountOnce`, `TypeCorrect` and the action
property `CoverageOnlyGrows`, from `SegmentsAssumption`, `UintAssumption`,
`BitsAssumption` and `RoomAssumption`. `CoverageIsAtMostAll` is about counts below
half of `Uint32`, for which `total` is what it is meant to be. The invariant says what has been merged at every turn of the
loops (`Said`, `Flagged`), and that no record outside `1..br_instr_count` is
kept; the bound then is one of the cardinality of a set of ids. For the goals,
honest flags have no bit but the last, so that the sum counts goals.

`WavesProofs`: any limit and any number of tests. `BudgetKept`,
`LoopComputesClosedForm` and `TypeCorrect`, from `InputsAssumption`. `LoopInv`
says that after n turns the waves are the first n terms and what remains is the
limit less their sum for every test. The rest is division: the share each test
gets of what remains is its quotient by their number.

`PipelineProofs`: any versions, targets beside the source and number of
invocations. `TargetIsBuiltAsWanted`, `ReportsTheLastBuild`,
`ClearedDirectoriesAreFresh` and `TypeCorrect`, from `BesideAssumption` and
`MaxInvocationsAssumption`. `StageInv` says what each file must be when its
stage has been passed, if no tool lied: that is why files of earlier builds do
not get through; `RunnerInv` ties the result to the end of the run.

`InstrumenterProofs`: any benchmarks that are `WellFormed` and any options.
`DecisionsAreNumbered`, `GoalsAreNumbered`, `OnlyDeadBlocksGo`,
`ErrorFunctionIsFound` and `TypeCorrect`, from `ModulesAssumption` and
`TargetAssumption`. The numbering is an invariant only of the part of the
benchmark that has been walked: `Placed` and `Numbered` name that part, and the
lemma `OneMore` says that giving the next number to something new keeps a
numbering dense and unique. That a deleted block cannot be reached needs one set:
all blocks but the deleted one have every entry in them and no branch out.

`SegmentProofs`: any page, sizes, lengths and bounds. `InputAlwaysArrives`,
`NothingOldIsRead`, `WrittenWhereRead` and `TypeCorrect` (`TypeOK` of `Segment`
is in no run), from `PageAssumption`, `SizesAssumption` and `BoundsAssumption`.
The invariant has the addresses the model does not: where the n-th field begins
(`SentAt`, `PutAt`), and that up to `saved` the memory is what was sent
(`Arrived`), as long as nobody has cleared it.

What the proofs changed in the models: `phase` of `TargetImage` and the widths
of `write_negative` and `write_positive` had cases that could both apply, where
the code tries one after the other; that the number of values of each width
divides that of the wider ones was not assumed, though a negative `uchar`
and an `int128` above the greatest one depend on it; and `TimeoutMeansExpired` needs the hypothesis above, which the
inputs of the run had happened to satisfy.

Model-checked only: the liveness properties `LeavingEnds` and `ResultsAreSaved`,
which need fairness and `ENABLED` beyond the halves named above, and the runs that end in a violation.

## Plan

1. done: every module of the tree above, its runs, and the proofs of all its
   invariants; `Target` implements `Execution`.
2. An abstract specification of the whole driver (a suite of tests, each run
   until it does not time out, and one result) that `TestSuiteRun` implements.
3. The goal probes of `Target` against what `Analyzer` assumes of a segment:
   flags that are 0 or 1, and as many as announced.

## Not modelled

* Option tables, program information, `iomanager` and the configuration
  singleton: nothing the properties are about is read back from them.
* Logging, XML, the layout of results and of `result.json`, the quotient printed
  as coverage.
* The benchmark manager's comparison with the expected result and its search for
  benchmarks: it compares what is in `result.json` whatever the runner's exit code
  was, which is the first condition of `ReportIsOfLastBuild` dropped.
* Two drivers on the segment at once, and a target that outlives a killed driver:
  the segment has one fixed name and no owner, so that there is nothing the code
  promises about them.
* Constructor functions of a benchmark that call a probe before `main()`.
* `__VERIFIER_nondet_bool`'s comparison of the char it has read, and the loop of
  `__VERIFIER_nondet_memory` over single bytes.
* Code that is not called: `process_llvm_ir_goals`, `runOnFunction`, string
  operators of the segment, `exhausted`, `can_deliver_bytes`, `remove`.
* The build system and the benchmarks' data; the `utility` library is not part of
  the repository.
