---------------------------- MODULE TestSuiteRun ----------------------------
(***************************************************************************)
(* run_test_suite and execute_target: the driver takes its tests through   *)
(* waves of growing time limits, starting for each test one target on the  *)
(* shared segment, killing it when its time is up, and adding what the     *)
(* segment then holds to the results.  The target is an Execution; the     *)
(* branch and the error analyser run side by side.                         *)
(***************************************************************************)
EXTENDS Coverage, FiniteSets

CONSTANTS
  Tests, NoTest,
  Place,            \* of a test in the list of tests
  WaveCount,        \* number of waves calculate_waves made
  CondBrCount,      \* of the instrumented program
  InputView         \* what each test's input looks like, read as results

Views == [termination : Byte, brCount : Nat,
          covered : SUBSET (Nat \X Byte), certified : BOOLEAN]

ASSUME TestsAssumption == NoTest \notin Tests /\ IsFiniteSet(Tests)
ASSUME PlaceAssumption ==
  /\ Place \in [Tests -> Nat]
  /\ \A t, u \in Tests : Place[t] = Place[u] => t = u
ASSUME CountsAssumption ==
  /\ CondBrCount \in Nat \ {0}
  /\ WaveCount \in 0..4 /\ (Tests # {} => WaveCount > 0)
ASSUME ViewAssumption == InputView \in [Tests -> Views]

VARIABLES
  (* the target and the segment, as Execution has them *)
  phase, termination, brCount, covered, certified, executed, inflight,
  ended,            \* how the target last ended: "exit 0", "exit n", "signal"
  (* the driver *)
  pc, wave, tests, todo, test,
  br_instr_count, coverage, goal_reached,       \* the analysers
  (* history *)
  runs,             \* executions each test has had
  last,             \* termination each test's last execution ended with
  executedSoFar,    \* conditions all executions evaluated
  recordedSoFar,    \* conditions they had on record when they stopped
  errorSoFar,       \* the error was some execution's last word
  errorTimedOut,    \* ... and that execution was then timed out
  trusted,          \* every execution cleared the segment and left it whole
  (* history of the current execution *)
  cleared,          \* it has cleared the segment
  errorReported,    \* its last word is that the error was reached
  expired           \* its time was up

target  == <<phase, brCount, covered, certified, executed, inflight>>
results == <<br_instr_count, coverage, goal_reached>>
history == <<runs, last, executedSoFar, recordedSoFar, errorSoFar,
             errorTimedOut, trusted>>
driver  == <<wave, tests, todo, test>>
current == <<cleared, errorReported, expired>>
vars    == <<target, termination, ended, pc, driver, results, history, current>>

Process == INSTANCE Execution

Init ==
  /\ phase = "dead" /\ termination = normal /\ brCount = 0 /\ covered = {}
  /\ certified = TRUE /\ executed = {} /\ inflight = {} /\ ended = "exit 0"
  /\ pc = "wave" /\ wave = 0 /\ tests = Tests /\ todo = {} /\ test = NoTest
  /\ br_instr_count = 0 /\ coverage = {} /\ goal_reached = FALSE
  /\ runs = [t \in Tests |-> 0] /\ last = [t \in Tests |-> normal]
  /\ executedSoFar = {} /\ recordedSoFar = {} /\ trusted = TRUE
  /\ errorSoFar = FALSE /\ errorTimedOut = FALSE
  /\ cleared = FALSE /\ errorReported = FALSE /\ expired = FALSE

-----------------------------------------------------------------------------
Bug_OneWaveMore == wave <= WaveCount
WavesLeft == wave < WaveCount

NextWave ==
  /\ pc = "wave" /\ WavesLeft
  /\ wave' = wave + 1 /\ todo' = tests /\ pc' = "test"
  /\ UNCHANGED <<target, termination, ended, tests, test, results, history,
                 current>>

(* The input of the next test is written over the cleared segment.         *)
SendInput(t) ==
  /\ pc = "test" /\ t \in todo
  /\ \A u \in todo : Place[t] <= Place[u]
  /\ termination' = InputView[t].termination /\ brCount' = InputView[t].brCount
  /\ covered' = InputView[t].covered /\ certified' = InputView[t].certified
  /\ executed' = {} /\ inflight' = {}
  /\ cleared' = FALSE /\ errorReported' = FALSE /\ expired' = FALSE

StartTest(t) ==
  /\ SendInput(t)
  /\ test' = t /\ todo' = todo \ {t} /\ pc' = "waiting" /\ phase' = "loading"
  /\ runs' = [runs EXCEPT ![t] = @ + 1]
  /\ UNCHANGED <<ended, wave, tests, results, last, executedSoFar,
                 recordedSoFar, errorSoFar, errorTimedOut, trusted>>

(* The process cannot be created, and what bp::child throws nobody catches.*)
StartFails(t) ==
  /\ SendInput(t) /\ pc' = "failed"
  /\ UNCHANGED <<phase, ended, driver, results, history>>

WaveDone ==
  /\ pc = "test" /\ todo = {} /\ pc' = "wave"
  /\ UNCHANGED <<target, termination, ended, driver, results, history,
                 current>>

(* get_result asserts that no more is covered than there can be.  That can *)
(* only fail, in a build with assertions, if twice the count of branches   *)
(* does not fit its 32 bits (see Analyzer), so not if it is the program's. *)
AssertionFails ==
  /\ pc = "wave" /\ wave = WaveCount /\ br_instr_count > CondBrCount
  /\ pc' = "died"
  /\ UNCHANGED <<target, termination, ended, driver, results, history,
                 current>>

(* Otherwise there is a result, and it is saved.                           *)
Save ==
  /\ pc = "wave" /\ wave = WaveCount /\ pc' = "done"
  /\ UNCHANGED <<target, termination, ended, driver, results, history,
                 current>>

-----------------------------------------------------------------------------
(* The target runs while the driver waits for it, and may still run when   *)
(* the driver has given up waiting.                                        *)
Alive == phase # "dead" /\ pc \in {"waiting", "expired"}

TargetStep ==
  /\ Alive /\ Process!Next /\ phase' # "dead"
  /\ cleared' = (cleared \/ Process!Clear)
  /\ errorReported' = (phase' = "running" /\ termination' = ver_error_reached)
  /\ UNCHANGED <<ended, pc, driver, results, history, expired>>

(* It ends by itself, be it before main() has cleared the segment: the     *)
(* loader may fail, and a constructor of the benchmark crash or exit.      *)
TargetEnds ==
  /\ Alive /\ Process!Die
  /\ ended' \in {"exit 0", "exit n", "signal"}
  /\ UNCHANGED <<pc, driver, results, history, current>>

(* wait_for_wrapper: the target has ended ...                              *)
WaitOver ==
  /\ pc = "waiting" /\ phase = "dead" /\ pc' = "classify"
  /\ UNCHANGED <<target, termination, ended, driver, results, history,
                 current>>

Bug_TimerStartsLate ==
  /\ pc = "waiting" /\ phase = "running" /\ pc' = "expired" /\ expired' = TRUE
  /\ UNCHANGED <<target, termination, ended, driver, results, history, cleared,
                 errorReported>>

(* ... or its time is up, whatever state it is in.                         *)
TimerExpires ==
  /\ pc = "waiting" /\ pc' = "expired" /\ expired' = TRUE
  /\ UNCHANGED <<target, termination, ended, driver, results, history, cleared,
                 errorReported>>

(* terminate() kills the target, unless it has just ended by itself.       *)
Terminate ==
  /\ pc = "expired" /\ pc' = "killed"
  /\ \/ phase # "dead" /\ Process!Die /\ ended' = "signal"
     \/ phase = "dead" /\ UNCHANGED <<target, termination, ended>>
  /\ UNCHANGED <<driver, results, history, current>>

Bug_KeepsTermination == termination
TimedOut == timeout

SetTimeout ==
  /\ pc = "killed" /\ pc' = "classify"
  /\ termination' = TimedOut
  /\ UNCHANGED <<target, ended, driver, results, history, current>>

Bug_TrustsByte == termination
Classified ==
  IF valid_termination(termination) THEN termination
  ELSE IF ended = "exit 0" THEN normal ELSE crash

Classify ==
  /\ pc = "classify" /\ pc' = "executed"
  /\ termination' = Classified
  /\ UNCHANGED <<target, ended, driver, results, history, current>>

-----------------------------------------------------------------------------
Bug_DropsLastBranch(count) ==
  { c \in covered : c[1] \in 1..(count - 1) /\ c[2] \in Directions }
Kept(count) == { c \in covered : c[1] \in 1..count /\ c[2] \in Directions }

Bug_ForgetsEarlierRuns == termination = ver_error_reached
ErrorSeen == goal_reached \/ termination = ver_error_reached

Bug_ErasesAlways == tests \ {test}
StillToRun == IF termination = timeout THEN tests ELSE tests \ {test}

(* add_execution of the analysers, and the test is kept for the next wave  *)
(* or erased.  The process is gone and forgotten, the segment stays.       *)
AddExecution ==
  /\ pc = "executed" /\ pc' = "test"
  /\ br_instr_count' = IF br_instr_count = 0 THEN brCount ELSE br_instr_count
  /\ coverage' = coverage \cup Kept(br_instr_count')
  /\ goal_reached' = ErrorSeen
  /\ tests' = StillToRun
  /\ test' = NoTest
  /\ last' = [last EXCEPT ![test] = termination]
  /\ executedSoFar' = executedSoFar \cup executed
  /\ recordedSoFar' = recordedSoFar \cup (IF cleared THEN covered ELSE {})
  /\ errorSoFar' = (errorSoFar \/ errorReported)
  /\ errorTimedOut' = (errorTimedOut \/ (errorReported /\ expired))
  /\ trusted' = (trusted /\ cleared /\ certified)
  /\ ended' = "exit 0" /\ executed' = {} /\ inflight' = {}
  /\ cleared' = FALSE /\ errorReported' = FALSE /\ expired' = FALSE
  /\ UNCHANGED <<phase, termination, brCount, covered, certified, wave, todo,
                 runs>>

(* Or the analyser reads on beyond the segment: a test's input need not    *)
(* have a zero id where the records of results end.  (Results do, in a     *)
(* segment with room for all branches: RoomForAllIsEnough of Target.)      *)
AnalyserDies ==
  /\ pc = "executed" /\ ~cleared /\ pc' = "died"
  /\ trusted' = FALSE
  /\ UNCHANGED <<target, termination, ended, driver, results, runs, last,
                 executedSoFar, recordedSoFar, errorSoFar, errorTimedOut,
                 current>>

Driver ==
  \/ NextWave \/ (\E t \in Tests : StartTest(t) \/ StartFails(t)) \/ WaveDone
  \/ AssertionFails \/ Save
  \/ WaitOver \/ TimerExpires \/ Terminate \/ SetTimeout \/ Classify
  \/ AddExecution \/ AnalyserDies

Next == Driver \/ TargetStep \/ TargetEnds

Spec == Init /\ [][Next]_vars

(* The driver and the timer are never held up; the target owes nothing.    *)
FairSpec == Spec /\ WF_vars(Driver)

-----------------------------------------------------------------------------
(* Every variable of the driver has its type.                              *)
TypeOK ==
  /\ phase \in {"loading", "cleared", "running", "dead"}
  /\ termination \in Byte /\ ended \in {"exit 0", "exit n", "signal"}
  /\ pc \in {"wave", "test", "waiting", "expired", "killed", "classify",
             "executed", "done", "failed", "died"}
  /\ wave \in 0..WaveCount /\ tests \subseteq Tests /\ todo \subseteq tests
  /\ test \in Tests \cup {NoTest}
  /\ br_instr_count \in Nat /\ goal_reached \in BOOLEAN
  /\ coverage \subseteq (Nat \X Directions)
  /\ runs \in [Tests -> Nat] /\ last \in [Tests -> Byte]

(* The driver dereferences an optional termination (run.cpp:133): there is *)
(* always one once execute_target has returned, even though the first byte *)
(* of a target that never got to clear the segment is the driver's own.    *)
TerminationIsValid == pc = "executed" => valid_termination(termination)

(* A test is run once in each wave until an execution of it does not time  *)
(* out, and never again: erasing while iterating skips none and repeats    *)
(* none (run.cpp:116-141).                                                 *)
OncePerWaveUntilDone ==
  \A t \in Tests :
    IF t \in tests
    THEN /\ runs[t] = (IF t \in todo THEN wave - 1 ELSE wave)
         /\ runs[t] > 0 /\ t # test => last[t] = timeout
    ELSE runs[t] \in 1..wave /\ last[t] # timeout

(* What a reader is told was a timeout is a target whose time was up, and  *)
(* the other way round (target_termination.hpp:11).                        *)
TimeoutMeansExpired == pc = "executed" => (termination = timeout <=> expired)

(* As long as every target cleared the segment and left a checksum that    *)
(* fits, the coverage is neither more than what was evaluated nor less     *)
(* than what was recorded, over all tests and waves.                       *)
TrustedCoverageIsExact ==
  trusted => recordedSoFar \subseteq coverage /\ coverage \subseteq executedSoFar

(* Under the same condition the error verdict is right in both directions, *)
(* but for a target that reports the error too late.                       *)
TrustedVerdictIsExact ==
  trusted => /\ goal_reached => errorSoFar
             /\ errorSoFar => goal_reached \/ errorTimedOut

(* The results are saved in the end, however long the targets hang and     *)
(* however they end, unless one could not be started at all, or the driver *)
(* died of a segment that was not cleared or whose checksum was wrong: if  *)
(* all are cleared and whole it does not die (run.cpp:111-157).            *)
ResultsAreSaved ==
  <>(pc = "done" \/ pc = "failed" \/ (pc = "died" /\ ~trusted))

(* A benchmark that crashed is not taken for one that finished normally    *)
(* (target_termination.hpp:8-9).                                           *)
CrashIsReported ==
  pc = "executed" /\ brCount = CondBrCount /\ ended = "signal" /\ ~expired
    => termination # normal
=============================================================================
