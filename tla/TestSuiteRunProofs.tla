------------------------- MODULE TestSuiteRunProofs -------------------------
(***************************************************************************)
(* The driver runs each test as often as it should, takes a time-out for a *)
(* time-out, and is right about coverage and verdict as long as the        *)
(* segments are: proofs, for any tests, waves and behaviour of the target. *)
(***************************************************************************)
EXTENDS TestSuiteRun, FiniteSetTheorems, TLAPS

Conditions == Process!Conditions

(* The places of the driver at which a test is in hand.                    *)
InHand == {"waiting", "expired", "killed", "classify", "executed"}

(* What the target itself can write to the first byte.                     *)
Written == {normal, insufficient_data, ver_error_reached, medium_overflow}

(* A test in hand is one that is kept, and is not to be run again in this  *)
(* wave; outside of the waves nothing is left to run.                      *)
DriverInv ==
  /\ IF pc \in InHand THEN test \in tests \ todo ELSE pc = "died" \/ test = NoTest
  /\ pc \in {"wave", "done"} => todo = {}
  /\ pc \notin {"wave", "done", "died"} => wave > 0

(* The target lives only while the driver waits for it.                    *)
ProcessInv ==
  /\ brCount \in Nat /\ covered \subseteq Nat \X Byte /\ certified \in BOOLEAN
  /\ executed \subseteq Conditions /\ inflight \subseteq executed
  /\ cleared \in BOOLEAN /\ errorReported \in BOOLEAN /\ expired \in BOOLEAN
  /\ pc \notin {"waiting", "expired"} => phase = "dead"
  /\ phase = "loading" => ~cleared
  /\ phase \in {"cleared", "running"} => cleared
  /\ phase \in {"loading", "cleared"} => executed = {}

(* Once it is cleared the segment holds nothing but what was evaluated,    *)
(* unless it is torn, and nothing at all before it is published.           *)
SegmentInv ==
  cleared =>
    /\ covered \subseteq executed \/ (phase = "dead" /\ ~certified)
    /\ brCount = CondBrCount \/ (brCount = 0 /\ covered = {})
    /\ phase = "running" => brCount = CondBrCount
    /\ phase = "cleared" => covered = {}

(* The first byte is the input's until the target clears it, then what the *)
(* target wrote last, and in the end the driver's verdict over both.       *)
VerdictInv ==
  /\ pc = "waiting" => ~expired
  /\ pc \in {"expired", "killed"} => expired
  /\ pc \in {"classify", "executed"} /\ expired => termination = timeout
  /\ cleared /\ (pc \in {"waiting", "expired", "killed"}
                   \/ (pc \in {"classify", "executed"} /\ ~expired)) =>
       /\ termination \in Written
       /\ errorReported <=> termination = ver_error_reached
  /\ pc \in {"waiting", "classify"} /\ ~cleared /\ ~expired =>
       termination = InputView[test].termination
  /\ pc = "executed" /\ ~cleared /\ ~expired /\ termination = timeout =>
       InputView[test].termination = timeout

(* While everything is trusted, the analysers have the program's own       *)
(* number of branches, if any.                                             *)
CountInv == trusted => br_instr_count \in {0, CondBrCount}

(* The driver dies only of a segment that is not to be trusted.            *)
DeathInv == pc = "died" => ~trusted

IInv ==
  /\ TypeOK /\ DriverInv /\ ProcessInv /\ SegmentInv /\ VerdictInv /\ CountInv
  /\ DeathInv
  /\ TerminationIsValid /\ OncePerWaveUntilDone
  /\ TrustedCoverageIsExact /\ TrustedVerdictIsExact

-----------------------------------------------------------------------------
(* The words of Execution are those of this module.                        *)
LEMMA SameWords ==
  /\ Process!normal = normal /\ Process!insufficient_data = insufficient_data
  /\ Process!ver_error_reached = ver_error_reached
  /\ Process!medium_overflow = medium_overflow
  /\ Process!covFALSE = covFALSE /\ Process!Directions = Directions
BY DEF Process!normal, normal, Process!insufficient_data, insufficient_data,
  Process!ver_error_reached, ver_error_reached, Process!medium_overflow,
  medium_overflow, Process!covFALSE, covFALSE, Process!Directions, Directions,
  Process!covTRUE, covTRUE

(* A condition of the program is something a record may stand for.         *)
LEMMA ConditionsAreRecords == Conditions \subseteq Nat \X Byte
<1>1. 1..CondBrCount \subseteq Nat /\ Directions \subseteq Byte
  BY CountsAssumption DEF Directions, covFALSE, covTRUE, Byte
<1>2. Conditions = (1..CondBrCount) \X Directions
  BY SameWords DEF Conditions, Process!Conditions
<1>3. QED  BY <1>1, <1>2

(* What Die does to the segment: it ends whole, or it ends torn.           *)
LEMMA DieMeans ==
  ASSUME TypeOK, ProcessInv, SegmentInv, Process!Die
  PROVE  /\ phase # "dead" /\ phase' = "dead"
         /\ covered' \subseteq Nat \X Byte /\ certified' \in BOOLEAN
         /\ UNCHANGED <<termination, brCount, executed, inflight>>
         /\ cleared => covered' \subseteq executed \/ ~certified'
         /\ cleared => brCount = CondBrCount \/ covered' = {}
<1>1. phase # "dead" /\ phase' = "dead"
      /\ UNCHANGED <<termination, brCount, executed, inflight>>
  BY DEF Process!Die
<1>2. CASE covered' = covered
           /\ certified' \in (IF inflight = {} THEN {certified} ELSE BOOLEAN)
  BY <1>1, <1>2 DEF ProcessInv, SegmentInv
<1>3. CASE \E c \in inflight : covered' = covered \cup {<<c[1], covFALSE>>}
                               /\ certified' = (c[2] = covFALSE)
  <2>1. PICK c \in inflight : covered' = covered \cup {<<c[1], covFALSE>>}
                              /\ certified' = (c[2] = covFALSE)
    BY <1>3
  <2>2. c \in executed /\ c[1] \in Nat /\ c = <<c[1], c[2]>>
    BY CountsAssumption DEF ProcessInv, Conditions, Process!Conditions
  <2>3. <<c[1], covFALSE>> \in Nat \X Byte  BY <2>2 DEF covFALSE, Byte
  <2>4. c[2] = covFALSE => <<c[1], covFALSE>> \in executed  BY <2>2
  <2>5. cleared => phase = "running" /\ brCount = CondBrCount
    BY <1>1, <2>2 DEF ProcessInv, SegmentInv, TypeOK
  <2> QED  BY <1>1, <2>1, <2>3, <2>4, <2>5 DEF ProcessInv, SegmentInv
<1>4. QED  BY <1>1, <1>2, <1>3, SameWords DEF Process!Die

(* What a step of the target may do, told for the driver.                  *)
LEMMA TargetStepMeans ==
  ASSUME TypeOK, ProcessInv, SegmentInv, TargetStep
  PROVE  /\ phase \in {"loading", "cleared", "running"}
         /\ phase' \in {"cleared", "running"} /\ cleared'
         /\ pc \in {"waiting", "expired"} /\ termination' \in Written \cup {termination}
         /\ IF phase = "loading" THEN termination' = normal /\ phase' = "cleared"
            ELSE phase' = "running"
         /\ errorReported' <=> phase' = "running" /\ termination' = ver_error_reached
         /\ UNCHANGED <<ended, pc, driver, results, history, expired>>
         /\ executed' \subseteq Conditions /\ inflight' \subseteq executed'
         /\ executed \subseteq executed' /\ (phase' = "cleared" => executed' = {})
         /\ brCount' \in Nat /\ certified' \in BOOLEAN
         /\ covered' \subseteq Nat \X Byte /\ covered' \subseteq executed'
         /\ (IF phase' = "cleared" THEN brCount' = 0 /\ covered' = {}
             ELSE brCount' = CondBrCount)
<1> USE SameWords DEF TypeOK, ProcessInv, SegmentInv
<1>1. /\ Process!Next /\ phase # "dead" /\ phase' # "dead" /\ pc \in {"waiting", "expired"}
      /\ cleared' = (cleared \/ Process!Clear)
      /\ errorReported' = (phase' = "running" /\ termination' = ver_error_reached)
      /\ UNCHANGED <<ended, pc, driver, results, history, expired>>
  BY DEF TargetStep, Alive
<1>2. CASE Process!Clear
  BY <1>1, <1>2 DEF Process!Clear, Written, normal
<1>3. CASE Process!Publish
  BY <1>1, <1>3, CountsAssumption DEF Process!Publish, Written
<1>4. ASSUME NEW c \in Conditions, Process!Evaluate(c) \/ Process!Begin(c)
      PROVE  /\ phase = "running" /\ phase' = "running"
             /\ executed' \subseteq Conditions /\ inflight' \subseteq executed'
             /\ executed \subseteq executed'
             /\ UNCHANGED <<termination, brCount, covered, certified>>
  BY <1>4 DEF Process!Evaluate, Process!Begin
<1>5. CASE Process!Finish
  <2>1. covered' = covered \cup inflight /\ inflight \subseteq Nat \X Byte
    BY <1>5, ConditionsAreRecords DEF Process!Finish
  <2> QED  BY <1>1, <1>5, <2>1 DEF Process!Finish, Written
<1>6. ASSUME NEW t \in {normal, insufficient_data, ver_error_reached}, Process!Report(t)
      PROVE  /\ phase = "running" /\ phase' = "running" /\ termination' \in Written
             /\ UNCHANGED <<brCount, covered, certified, executed, inflight>>
  BY <1>6 DEF Process!Report, Written
<1>7. CASE Process!Overflow
  BY <1>1, <1>7 DEF Process!Overflow, Written
<1>8. CASE Process!Die  BY <1>1, <1>8 DEF Process!Die
<1>9. CASE \E c \in Conditions : Process!Evaluate(c) \/ Process!Begin(c)
  BY <1>1, <1>4, <1>9
<1>10. CASE \E t \in {normal, insufficient_data, ver_error_reached} : Process!Report(t)
  BY <1>1, <1>6, <1>10
<1>11. QED
  BY <1>1, <1>2, <1>3, <1>5, <1>7, <1>8, <1>9, <1>10 DEF Process!Next, Conditions

-----------------------------------------------------------------------------
(* What the driver does between its tests and while it waits.              *)
LEMMA QuietStep ==
  ASSUME NextWave \/ WaveDone \/ Save \/ AssertionFails \/ WaitOver \/ TimerExpires
  PROVE  /\ UNCHANGED <<target, termination, ended, tests, test, results, history,
                        cleared, errorReported>>
         /\ \/ pc = "wave" /\ pc' = "test" /\ wave < WaveCount /\ wave' = wave + 1
                 /\ todo' = tests /\ expired' = expired
            \/ pc = "test" /\ pc' = "wave" /\ todo = {}
                 /\ UNCHANGED <<wave, todo, expired>>
            \/ pc = "wave" /\ pc' = "done" /\ UNCHANGED <<wave, todo, expired>>
            \/ pc = "wave" /\ pc' = "died" /\ br_instr_count > CondBrCount
                 /\ UNCHANGED <<wave, todo, expired>>
            \/ pc = "waiting" /\ phase = "dead" /\ pc' = "classify"
                 /\ UNCHANGED <<wave, todo, expired>>
            \/ pc = "waiting" /\ pc' = "expired" /\ expired' = TRUE
                 /\ UNCHANGED <<wave, todo>>
<1> USE DEF target, results, history, driver, current
<1>1. CASE NextWave  BY <1>1 DEF NextWave, WavesLeft
<1>2. CASE WaveDone  BY <1>2 DEF WaveDone
<1>3. CASE Save  BY <1>3 DEF Save
<1>4. CASE AssertionFails  BY <1>4 DEF AssertionFails
<1>5. CASE WaitOver  BY <1>5 DEF WaitOver
<1>6. CASE TimerExpires  BY <1>6 DEF TimerExpires
<1>7. QED  BY <1>1, <1>2, <1>3, <1>4, <1>5, <1>6

LEMMA TypeStep == ASSUME IInv, [Next]_vars PROVE TypeOK'
<1>0. TypeOK  BY DEF IInv
<1>1. CASE NextWave \/ WaveDone \/ Save \/ AssertionFails \/ WaitOver \/ TimerExpires
  <2>1. UNCHANGED <<target, termination, ended, tests, test, results, history>>
    BY <1>1, QuietStep
  <2>2. pc' \in {"test", "wave", "done", "died", "classify", "expired"} /\ todo' \subseteq tests
    BY <1>0, <1>1, QuietStep DEF TypeOK
  <2>3. wave' \in 0..WaveCount
    <3>1. wave \in 0..WaveCount  BY <1>0 DEF TypeOK
    <3>2. wave' = wave \/ (wave' = wave + 1 /\ wave < WaveCount)  BY <1>1, QuietStep
    <3> QED  BY <3>1, <3>2, CountsAssumption
  <2> QED  BY <1>0, <2>1, <2>2, <2>3 DEF TypeOK, target, results, history
<1>2. ASSUME NEW t \in Tests, StartTest(t) PROVE TypeOK'
  <2>1. InputView[t].termination \in Byte  BY ViewAssumption DEF Views
  <2>2. runs' = [runs EXCEPT ![t] = runs[t] + 1]  BY <1>2 DEF StartTest
  <2>3. runs' \in [Tests -> Nat]
    <3>1. runs \in [Tests -> Nat]  BY <1>0 DEF TypeOK
    <3> QED  BY <2>2, <3>1
  <2>4. /\ UNCHANGED <<ended, wave, tests, br_instr_count, coverage, goal_reached, last>>
        /\ phase' = "loading" /\ pc' = "waiting" /\ test' = t
        /\ todo' \subseteq todo /\ termination' \in Byte
    BY <1>2, <2>1 DEF StartTest, SendInput, results
  <2> QED  BY <1>0, <2>3, <2>4 DEF TypeOK
<1>3. CASE Terminate \/ TargetEnds
  <2>1. UNCHANGED <<driver, results, history>> /\ pc' \in {pc, "killed"}
    BY <1>3 DEF Terminate, TargetEnds
  <2>2. /\ UNCHANGED <<phase, termination>> \/ (phase' = "dead" /\ termination' = termination)
        /\ ended' \in {ended, "exit 0", "exit n", "signal"}
    BY <1>3 DEF Terminate, TargetEnds, Process!Die, target
  <2> QED  BY <1>0, <2>1, <2>2 DEF TypeOK, driver, results, history
<1>4. CASE SetTimeout \/ Classify
  <2>1. termination' \in {termination, timeout, normal, crash}
    BY <1>4 DEF SetTimeout, TimedOut, Classify, Classified
  <2>2. termination' \in Byte
    <3>1. termination \in Byte  BY <1>0 DEF TypeOK
    <3>2. {timeout, normal, crash} \subseteq Byte  BY DEF timeout, normal, crash, Byte
    <3> QED  BY <2>1, <3>1, <3>2
  <2> QED
    BY <1>0, <1>4, <2>2 DEF TypeOK, SetTimeout, Classify, target, driver, results, history
<1>5. CASE AddExecution
  <2>1. test \in tests \ todo  BY <1>5 DEF AddExecution, IInv, DriverInv, InHand
  <2>2. br_instr_count' \in Nat  BY <1>0, <1>5 DEF TypeOK, AddExecution, IInv, ProcessInv
  <2>3. coverage' \subseteq Nat \X Directions
    BY <1>0, <1>5, <2>2 DEF TypeOK, AddExecution, Kept, IInv, ProcessInv
  <2>4. goal_reached' \in BOOLEAN  BY <1>0, <1>5 DEF TypeOK, AddExecution, ErrorSeen
  <2>5. tests' \subseteq Tests /\ todo' \subseteq tests'
    BY <1>0, <1>5, <2>1 DEF TypeOK, AddExecution, StillToRun
  <2>6. last' \in [Tests -> Byte]  BY <1>0, <1>5 DEF TypeOK, AddExecution
  <2> QED  BY <1>0, <1>5, <2>2, <2>3, <2>4, <2>5, <2>6 DEF TypeOK, AddExecution
<1>6. CASE TargetStep
  <2>1. Written \subseteq Byte
    BY DEF Written, Byte, normal, insufficient_data, ver_error_reached, medium_overflow
  <2>2. /\ termination' \in Written \cup {termination} /\ phase' \in {"cleared", "running"}
        /\ UNCHANGED <<ended, pc, driver, results, history>>
    BY <1>6, TargetStepMeans DEF IInv
  <2> QED  BY <1>0, <2>1, <2>2 DEF TypeOK, driver, results, history
<1>7. CASE UNCHANGED vars
  BY <1>0, <1>7 DEF TypeOK, vars, target, results, history, driver
<1>8. ASSUME NEW t \in Tests, StartFails(t) PROVE TypeOK'
  <2>1. InputView[t].termination \in Byte  BY ViewAssumption DEF Views
  <2> QED
    BY <1>0, <1>8, <2>1 DEF TypeOK, StartFails, SendInput, driver, results, history
<1>9. CASE AnalyserDies
  BY <1>0, <1>9 DEF TypeOK, AnalyserDies, target, results, driver
<1>10. QED
  BY <1>1, <1>2, <1>3, <1>4, <1>5, <1>6, <1>7, <1>8, <1>9 DEF Next, Driver

LEMMA DriverStep == ASSUME IInv, [Next]_vars PROVE DriverInv'
<1> USE DEF IInv, DriverInv, InHand
<1>1. CASE NextWave \/ WaveDone \/ Save \/ AssertionFails \/ WaitOver \/ TimerExpires
  <2>1. IF pc' \in InHand THEN test' \in tests' \ todo'
        ELSE pc' = "died" \/ test' = NoTest
    BY <1>1, QuietStep
  <2>2. pc' \notin {"wave", "done", "died"} => wave' > 0
    <3>1. wave \in 0..WaveCount  BY DEF TypeOK
    <3>2. wave \in Nat  BY <3>1, CountsAssumption
    <3>3. pc' \notin {"wave", "done", "died"} =>
            (pc = "wave" /\ wave' = wave + 1) \/ (pc = "waiting" /\ wave' = wave)
      BY <1>1, QuietStep
    <3> QED  BY <3>2, <3>3
  <2>3. pc' \in {"wave", "done"} => todo' = {}
    BY <1>1, QuietStep
  <2> QED  BY <2>1, <2>2, <2>3
<1>2. ASSUME NEW t \in Tests, StartTest(t) \/ StartFails(t) PROVE DriverInv'
  BY <1>2 DEF StartTest, StartFails, SendInput, TypeOK, driver
<1>3. CASE Terminate \/ TargetEnds \/ SetTimeout \/ Classify \/ AnalyserDies
  BY <1>3 DEF Terminate, TargetEnds, SetTimeout, Classify, AnalyserDies, Alive, driver
<1>4. CASE AddExecution
  BY <1>4 DEF AddExecution
<1>5. CASE TargetStep  BY <1>5 DEF TargetStep, Alive, driver
<1>6. CASE UNCHANGED vars  BY <1>6 DEF vars, driver
<1>7. QED  BY <1>1, <1>2, <1>3, <1>4, <1>5, <1>6 DEF Next, Driver

LEMMA ProcessStep == ASSUME IInv, [Next]_vars PROVE ProcessInv'
<1> USE DEF IInv, ProcessInv
<1>1. CASE NextWave \/ WaveDone \/ Save \/ AssertionFails \/ WaitOver \/ TimerExpires
  <2>1. UNCHANGED <<target, cleared, errorReported>>
    BY <1>1, QuietStep
  <2>2. expired' \in BOOLEAN /\ (pc' \notin {"waiting", "expired"} => phase = "dead")
    BY <1>1, QuietStep
  <2> QED  BY <2>1, <2>2 DEF target
<1>2. ASSUME NEW t \in Tests, StartTest(t) \/ StartFails(t) PROVE ProcessInv'
  <2>1. InputView[t] \in Views  BY ViewAssumption
  <2> QED  BY <1>2, <2>1 DEF StartTest, StartFails, SendInput, Views
<1>3. CASE Terminate \/ TargetEnds
  BY <1>3, DieMeans DEF Terminate, TargetEnds, Alive, current, target
<1>4. CASE SetTimeout \/ Classify \/ AddExecution \/ AnalyserDies
  BY <1>4 DEF SetTimeout, Classify, AddExecution, AnalyserDies, current, target
<1>5. CASE TargetStep
  BY <1>5, TargetStepMeans DEF TargetStep, Alive
<1>6. CASE UNCHANGED vars  BY <1>6 DEF vars, current, target
<1>7. QED  BY <1>1, <1>2, <1>3, <1>4, <1>5, <1>6 DEF Next, Driver

LEMMA SegmentStep == ASSUME IInv, [Next]_vars PROVE SegmentInv'
<1> USE DEF IInv, TypeOK, SegmentInv, vars, target, results, history, driver, current
<1>1. CASE NextWave \/ WaveDone \/ Save \/ AssertionFails \/ WaitOver \/ TimerExpires
  BY <1>1, QuietStep
<1>2. ASSUME NEW t \in Tests, StartTest(t) \/ StartFails(t) PROVE SegmentInv'
  BY <1>2 DEF StartTest, StartFails, SendInput
<1>3. CASE Terminate \/ TargetEnds
  BY <1>3, DieMeans DEF Terminate, TargetEnds
<1>4. CASE SetTimeout \/ Classify \/ AddExecution \/ AnalyserDies
  BY <1>4 DEF SetTimeout, Classify, AddExecution, AnalyserDies
<1>5. CASE TargetStep  BY <1>5, TargetStepMeans
<1>6. CASE UNCHANGED vars  BY <1>6
<1>7. QED  BY <1>1, <1>2, <1>3, <1>4, <1>5, <1>6 DEF Next, Driver

LEMMA VerdictStep == ASSUME IInv, [Next]_vars PROVE VerdictInv'
<1> USE DEF IInv, VerdictInv
<1>0. timeout \notin Written /\ timeout # normal /\ timeout # crash
  BY DEF Written, timeout, normal, crash, insufficient_data, ver_error_reached,
    medium_overflow
<1>1. CASE NextWave \/ WaveDone \/ Save \/ AssertionFails \/ WaitOver \/ TimerExpires
  <2>1. UNCHANGED <<termination, test, cleared, errorReported>>  BY <1>1, QuietStep
  <2>2. \/ pc' \notin InHand
        \/ pc = "waiting" /\ pc' = "classify" /\ expired' = expired
        \/ pc = "waiting" /\ pc' = "expired" /\ expired' = TRUE
    BY <1>1, QuietStep DEF InHand
  <2> QED  BY <2>1, <2>2 DEF InHand
<1>2. ASSUME NEW t \in Tests, StartTest(t) \/ StartFails(t) PROVE VerdictInv'
  BY <1>2 DEF StartTest, StartFails, SendInput
<1>3. CASE Terminate
  <2>1. /\ pc = "expired" /\ pc' = "killed"
        /\ UNCHANGED <<termination, test, cleared, errorReported, expired>>
    BY <1>3 DEF Terminate, Process!Die, driver, current
  <2> QED  BY <2>1
<1>4. CASE TargetEnds
  <2>1. UNCHANGED <<pc, termination, test, cleared, errorReported, expired>>
    BY <1>4 DEF TargetEnds, Process!Die, driver, current
  <2> QED  BY <2>1
<1>5. CASE SetTimeout
  <2>1. /\ pc = "killed" /\ pc' = "classify" /\ termination' = timeout
        /\ UNCHANGED <<test, cleared, errorReported, expired>>
    BY <1>5 DEF SetTimeout, TimedOut, driver, current
  <2> QED  BY <2>1
<1>6. CASE Classify
  <2>1. /\ pc = "classify" /\ pc' = "executed" /\ termination' = Classified
        /\ UNCHANGED <<test, cleared, errorReported, expired>>
    BY <1>6 DEF Classify, driver, current
  <2>2. \A v \in Written \cup {timeout} : valid_termination(v)
    BY DEF Written, valid_termination, timeout, normal, insufficient_data,
      ver_error_reached, medium_overflow
  <2>3. termination \in Written \cup {timeout} => termination' = termination
    BY <2>1, <2>2 DEF Classified
  <2>4. termination' \in {termination, normal, crash}  BY <2>1 DEF Classified
  <2> QED  BY <1>0, <2>1, <2>3, <2>4
<1>7. CASE AddExecution \/ AnalyserDies  BY <1>7 DEF AddExecution, AnalyserDies, current
<1>8. CASE TargetStep
  <2>1. /\ cleared' /\ pc \in {"waiting", "expired"}
        /\ termination' \in Written \cup {termination}
        /\ IF phase = "loading" THEN termination' = normal ELSE phase' = "running"
        /\ errorReported' <=> phase' = "running" /\ termination' = ver_error_reached
        /\ UNCHANGED <<pc, test, expired>>
    BY <1>8, TargetStepMeans DEF Written, driver
  <2>2. phase # "loading" => cleared
    BY <1>8, TargetStepMeans DEF ProcessInv
  <2>3. termination' \in Written  BY <2>1, <2>2 DEF Written
  <2>4. errorReported' <=> termination' = ver_error_reached
    BY <1>8, <2>1, TargetStepMeans DEF normal, ver_error_reached
  <2> QED  BY <2>1, <2>3, <2>4
<1>9. CASE UNCHANGED vars  BY <1>9 DEF vars, current, driver
<1>10. QED
  BY <1>1, <1>2, <1>3, <1>4, <1>5, <1>6, <1>7, <1>8, <1>9 DEF Next, Driver

(* Every step but AddExecution leaves the results and most of the history. *)
LEMMA ResultsStay ==
  ASSUME [Next]_vars, ~AddExecution
  PROVE  UNCHANGED <<results, tests, last, executedSoFar, recordedSoFar, errorSoFar,
                     errorTimedOut>> /\ (trusted' => trusted)
<1> USE DEF results, history, driver
<1>1. CASE NextWave \/ WaveDone \/ Save \/ AssertionFails \/ WaitOver \/ TimerExpires
  <2>1. UNCHANGED <<tests, results, history>>  BY <1>1, QuietStep
  <2> QED  BY <2>1
<1>2. ASSUME NEW t \in Tests, StartTest(t) \/ StartFails(t)
      PROVE  UNCHANGED <<results, tests, last, executedSoFar, recordedSoFar, errorSoFar,
                         errorTimedOut, trusted>>
  BY <1>2 DEF StartTest, StartFails, history
<1>3. CASE Terminate \/ TargetEnds \/ SetTimeout \/ Classify
  <2>1. UNCHANGED <<driver, results, history>>
    BY <1>3 DEF Terminate, TargetEnds, SetTimeout, Classify
  <2> QED  BY <2>1
<1>4. CASE TargetStep  BY <1>4 DEF TargetStep
<1>5. CASE UNCHANGED vars  BY <1>5 DEF vars
<1>6. CASE AnalyserDies  BY <1>6 DEF AnalyserDies
<1>7. QED  BY <1>1, <1>2, <1>3, <1>4, <1>5, <1>6 DEF Next, Driver

LEMMA CountStep == ASSUME IInv, [Next]_vars PROVE CountInv'
<1> USE DEF IInv, CountInv
<1>1. CASE AddExecution
  BY <1>1 DEF AddExecution, SegmentInv
<1>2. CASE ~AddExecution  BY <1>2, ResultsStay DEF results
<1>3. QED  BY <1>1, <1>2

LEMMA DeathStep == ASSUME IInv, [Next]_vars PROVE DeathInv'
<1> USE DEF IInv, DeathInv
<1>1. CASE AnalyserDies  BY <1>1 DEF AnalyserDies
<1>2. CASE AssertionFails
  <2>1. br_instr_count > CondBrCount /\ trusted' = trusted
    BY <1>2 DEF AssertionFails, history
  <2>2. br_instr_count \in Nat  BY DEF TypeOK
  <2>3. br_instr_count \notin {0, CondBrCount}  BY <2>1, <2>2, CountsAssumption
  <2> QED  BY <2>1, <2>3 DEF CountInv
<1>3. CASE NextWave \/ WaveDone \/ Save \/ WaitOver \/ TimerExpires
  BY <1>3 DEF NextWave, WaveDone, Save, WaitOver, TimerExpires
<1>4. ASSUME NEW t \in Tests, StartTest(t) \/ StartFails(t) PROVE DeathInv'
  BY <1>4 DEF StartTest, StartFails
<1>5. CASE Terminate \/ SetTimeout \/ Classify \/ AddExecution
  BY <1>5 DEF Terminate, SetTimeout, Classify, AddExecution
<1>6. CASE TargetStep \/ TargetEnds
  BY <1>6 DEF TargetStep, TargetEnds, history
<1>7. CASE UNCHANGED vars  BY <1>7 DEF vars, history
<1>8. QED  BY <1>1, <1>2, <1>3, <1>4, <1>5, <1>6, <1>7 DEF Next, Driver

LEMMA CoverageStep == ASSUME IInv, [Next]_vars PROVE TrustedCoverageIsExact'
<1> USE DEF IInv, TrustedCoverageIsExact
<1>1. CASE AddExecution
  <2> SUFFICES ASSUME trusted' PROVE recordedSoFar' \subseteq coverage'
                                  /\ coverage' \subseteq executedSoFar'
    OBVIOUS
  <2>1. /\ trusted /\ cleared /\ certified
        /\ coverage' = coverage \cup Kept(br_instr_count')
        /\ executedSoFar' = executedSoFar \cup executed
        /\ recordedSoFar' = recordedSoFar \cup covered
        /\ br_instr_count' = IF br_instr_count = 0 THEN brCount ELSE br_instr_count
    BY <1>1 DEF AddExecution
  <2>2. covered \subseteq executed /\ executed \subseteq (1..CondBrCount) \X Directions
    BY <2>1, SameWords DEF SegmentInv, ProcessInv, Conditions, Process!Conditions
  <2>3. br_instr_count' = CondBrCount \/ covered = {}
    BY <2>1 DEF SegmentInv, CountInv
  <2>4. Kept(br_instr_count') = covered  BY <2>2, <2>3 DEF Kept
  <2> QED  BY <2>1, <2>2, <2>4
<1>2. CASE ~AddExecution  BY <1>2, ResultsStay DEF results
<1>3. QED  BY <1>1, <1>2

LEMMA TrustedVerdictStep == ASSUME IInv, [Next]_vars PROVE TrustedVerdictIsExact'
<1> USE DEF IInv, TrustedVerdictIsExact
<1>1. CASE AddExecution
  <2> SUFFICES ASSUME trusted'
               PROVE  /\ goal_reached' => errorSoFar'
                      /\ errorSoFar' => goal_reached' \/ errorTimedOut'
    OBVIOUS
  <2>1. /\ trusted /\ cleared /\ pc = "executed"
        /\ goal_reached' <=> goal_reached \/ termination = ver_error_reached
        /\ errorSoFar' <=> errorSoFar \/ errorReported
        /\ errorTimedOut' <=> errorTimedOut \/ (errorReported /\ expired)
    BY <1>1 DEF AddExecution, ErrorSeen
  <2>2. termination = ver_error_reached => errorReported
    BY <2>1 DEF VerdictInv, ver_error_reached, timeout
  <2>3. errorReported => termination = ver_error_reached \/ expired
    BY <2>1 DEF VerdictInv
  <2> QED  BY <2>1, <2>2, <2>3
<1>2. CASE ~AddExecution  BY <1>2, ResultsStay DEF results
<1>3. QED  BY <1>1, <1>2

LEMMA ValidStep == ASSUME IInv, [Next]_vars PROVE TerminationIsValid'
<1> USE DEF TerminationIsValid
<1>1. CASE Classify
  <2>1. valid_termination(normal) /\ valid_termination(crash)
    BY DEF valid_termination, normal, crash, medium_overflow
  <2>2. valid_termination(Classified)  BY <2>1 DEF Classified
  <2> QED  BY <1>1, <2>2 DEF Classify, valid_termination, medium_overflow
<1>2. CASE ~Classify
  <2>1. pc' = "executed" => pc = "executed" /\ termination' = termination
    <3>1. CASE NextWave \/ WaveDone \/ Save \/ AssertionFails \/ WaitOver \/ TimerExpires  BY <3>1, QuietStep
    <3>2. ASSUME NEW t \in Tests, StartTest(t) \/ StartFails(t) PROVE pc' # "executed"
      BY <3>2 DEF StartTest, StartFails
    <3>3. CASE Terminate \/ SetTimeout \/ AddExecution \/ AnalyserDies
      BY <3>3 DEF Terminate, SetTimeout, AddExecution, AnalyserDies
    <3>4. CASE TargetEnds  BY <3>4 DEF TargetEnds, Process!Die
    <3>5. CASE TargetStep  BY <3>5 DEF TargetStep, Alive
    <3>6. CASE UNCHANGED vars  BY <3>6 DEF vars
    <3> QED  BY <1>2, <3>1, <3>2, <3>3, <3>4, <3>5, <3>6 DEF Next, Driver
  <2> QED  BY <2>1 DEF IInv
<1>3. QED  BY <1>1, <1>2

LEMMA OnceStep == ASSUME IInv, [Next]_vars PROVE OncePerWaveUntilDone'
<1>0. /\ wave \in Nat /\ runs \in [Tests -> Nat] /\ last \in [Tests -> Byte]
      /\ todo \subseteq tests /\ tests \subseteq Tests
  <2>1. wave \in 0..WaveCount  BY DEF IInv, TypeOK
  <2>2. wave \in Nat  BY <2>1, CountsAssumption
  <2> QED  BY <2>2 DEF IInv, TypeOK
<1>1. CASE NextWave
  <2>1. /\ todo = {} /\ test = NoTest /\ wave' = wave + 1 /\ todo' = tests
        /\ UNCHANGED <<runs, last, tests, test>>
    BY <1>1 DEF NextWave, IInv, DriverInv, InHand, history
  <2> QED  BY <1>0, <2>1, TestsAssumption DEF IInv, OncePerWaveUntilDone
<1>2. ASSUME NEW t \in Tests, StartTest(t) PROVE OncePerWaveUntilDone'
  <2>1. /\ t \in todo /\ test = NoTest /\ test' = t /\ todo' = todo \ {t}
        /\ runs' = [runs EXCEPT ![t] = runs[t] + 1]
        /\ UNCHANGED <<last, tests, wave>>
    BY <1>2 DEF StartTest, SendInput, IInv, DriverInv, InHand
  <2>2. SUFFICES ASSUME NEW u \in Tests
                 PROVE  IF u \in tests
                        THEN /\ runs'[u] = (IF u \in todo' THEN wave - 1 ELSE wave)
                             /\ runs'[u] > 0 /\ u # t => last[u] = timeout
                        ELSE runs'[u] \in 1..wave /\ last[u] # timeout
    BY <2>1 DEF OncePerWaveUntilDone
  <2>3. IF u \in tests
        THEN /\ runs[u] = (IF u \in todo THEN wave - 1 ELSE wave)
             /\ runs[u] > 0 => last[u] = timeout
        ELSE runs[u] \in 1..wave /\ last[u] # timeout
    BY <2>1, TestsAssumption DEF IInv, OncePerWaveUntilDone
  <2>4. runs'[u] = IF u = t THEN runs[t] + 1 ELSE runs[u]  BY <1>0, <2>1
  <2>5. CASE u = t
    BY <1>0, <2>1, <2>3, <2>4, <2>5
  <2>6. CASE u # t  BY <2>1, <2>3, <2>4, <2>6
  <2> QED  BY <2>5, <2>6
<1>3. CASE AddExecution
  <2>1. /\ test \in tests /\ test \notin todo /\ wave > 0 /\ test' = NoTest
        /\ tests' = StillToRun /\ last' = [last EXCEPT ![test] = termination]
        /\ UNCHANGED <<runs, todo, wave>>
    BY <1>3 DEF AddExecution, IInv, DriverInv, InHand
  <2>2. SUFFICES ASSUME NEW u \in Tests
                 PROVE  IF u \in tests'
                        THEN /\ runs[u] = (IF u \in todo THEN wave - 1 ELSE wave)
                             /\ runs[u] > 0 => last'[u] = timeout
                        ELSE runs[u] \in 1..wave /\ last'[u] # timeout
    BY <2>1, TestsAssumption DEF OncePerWaveUntilDone
  <2>3. IF u \in tests
        THEN /\ runs[u] = (IF u \in todo THEN wave - 1 ELSE wave)
             /\ runs[u] > 0 /\ u # test => last[u] = timeout
        ELSE runs[u] \in 1..wave /\ last[u] # timeout
    BY DEF IInv, OncePerWaveUntilDone
  <2>4. last'[u] = IF u = test THEN termination ELSE last[u]  BY <1>0, <2>1
  <2>5. CASE u = test
    <3>1. runs[u] = wave  BY <2>1, <2>3, <2>5
    <3>2. u \in tests' <=> termination = timeout  BY <2>1, <2>5 DEF StillToRun
    <3> QED  BY <1>0, <2>1, <2>4, <2>5, <3>1, <3>2
  <2>6. CASE u # test
    <3>1. u \in tests' <=> u \in tests  BY <2>1, <2>6 DEF StillToRun
    <3> QED  BY <2>3, <2>4, <2>6, <3>1
  <2> QED  BY <2>5, <2>6
<1>4. CASE UNCHANGED <<runs, last, tests, todo, test, wave>>
  BY <1>4 DEF IInv, OncePerWaveUntilDone
<1>5. QED
  <2>1. CASE WaveDone \/ Save \/ AssertionFails \/ WaitOver \/ TimerExpires
    <3>1. UNCHANGED driver
      BY <2>1 DEF WaveDone, Save, AssertionFails, WaitOver, TimerExpires, driver
    <3> QED  BY <1>4, <2>1, <3>1, QuietStep DEF history, driver
  <2>2. CASE Terminate \/ TargetEnds \/ SetTimeout \/ Classify \/ TargetStep
             \/ AnalyserDies
    BY <1>4, <2>2 DEF Terminate, TargetEnds, SetTimeout, Classify, TargetStep,
      AnalyserDies, history, driver
  <2>3. CASE UNCHANGED vars  BY <1>4, <2>3 DEF vars, history, driver
  <2>4. ASSUME NEW t \in Tests, StartFails(t) PROVE OncePerWaveUntilDone'
    BY <1>4, <2>4 DEF StartFails, history, driver
  <2> QED  BY <1>1, <1>2, <1>3, <2>1, <2>2, <2>3, <2>4 DEF Next, Driver

-----------------------------------------------------------------------------
LEMMA InitIInv == Init => IInv
<1> SUFFICES ASSUME Init PROVE IInv  OBVIOUS
<1>1. TypeOK
  <2>1. normal \in Byte /\ 0 \in 0..WaveCount
    BY CountsAssumption DEF normal, Byte
  <2> QED  BY <2>1 DEF Init, TypeOK
<1>2. DriverInv /\ ProcessInv /\ SegmentInv /\ CountInv /\ DeathInv
  BY DEF Init, DriverInv, InHand, ProcessInv, SegmentInv, CountInv, DeathInv
<1>3. VerdictInv /\ TerminationIsValid
  BY DEF Init, VerdictInv, TerminationIsValid
<1>4. OncePerWaveUntilDone
  <2>1. \A t \in Tests : t \in tests /\ t \notin todo /\ runs[t] = 0 /\ wave = 0
    BY DEF Init
  <2> QED  BY <2>1 DEF OncePerWaveUntilDone
<1>5. TrustedCoverageIsExact /\ TrustedVerdictIsExact
  BY DEF Init, TrustedCoverageIsExact, TrustedVerdictIsExact
<1>6. QED  BY <1>1, <1>2, <1>3, <1>4, <1>5 DEF IInv

LEMMA Invariance == Spec => []IInv
<1>1. IInv /\ [Next]_vars => IInv'
  <2> SUFFICES ASSUME IInv, [Next]_vars PROVE IInv'  OBVIOUS
  <2> QED
    BY TypeStep, DriverStep, ProcessStep, SegmentStep, VerdictStep, CountStep, DeathStep,
      ValidStep, OnceStep, CoverageStep, TrustedVerdictStep DEF IInv
<1>2. QED  BY <1>1, InitIInv, PTL DEF Spec

(* Every variable of the driver keeps its type (run.cpp:80-217).           *)
THEOREM TypeCorrect == Spec => []TypeOK
<1>1. IInv => TypeOK  BY DEF IInv
<1>2. QED  BY <1>1, Invariance, PTL

(* The optional termination the driver dereferences is always there,       *)
(* whatever is in the segment of a target that never cleared it            *)
(* (run.cpp:133).                                                          *)
THEOREM AlwaysATermination == Spec => []TerminationIsValid
<1>1. IInv => TerminationIsValid  BY DEF IInv
<1>2. QED  BY <1>1, Invariance, PTL

(* The loop that erases from the list it walks runs every test once in     *)
(* every wave until it no longer times out (run.cpp:112-142).              *)
THEOREM EveryTestItsRuns == Spec => []OncePerWaveUntilDone
<1>1. IInv => OncePerWaveUntilDone  BY DEF IInv
<1>2. QED  BY <1>1, Invariance, PTL

(* Over all tests and waves the coverage lies between what was recorded    *)
(* and what was evaluated, if every segment was cleared and left whole.    *)
THEOREM CoverageOfTrustedRuns == Spec => []TrustedCoverageIsExact
<1>1. IInv => TrustedCoverageIsExact  BY DEF IInv
<1>2. QED  BY <1>1, Invariance, PTL

(* Under the same condition the verdict over the error call is right.      *)
THEOREM VerdictOfTrustedRuns == Spec => []TrustedVerdictIsExact
<1>1. IInv => TrustedVerdictIsExact  BY DEF IInv
<1>2. QED  BY <1>1, Invariance, PTL

(* The analysers' assertion cannot fail while every target cleared the     *)
(* segment and left it whole: the count of branches is then the program's  *)
(* own, whichever targets were killed and when (run_analyzer.cpp:70).      *)
THEOREM DiesOfUntrustedOnly == Spec => [](pc = "died" => ~trusted)
<1>1. IInv => (pc = "died" => ~trusted)  BY DEF IInv, DeathInv
<1>2. QED  BY <1>1, Invariance, PTL

(* No test's input begins with the byte of a time-out: max_exec_megabytes  *)
(* is not 2 modulo 256.  (It is the user's choice, and 4 by default.)      *)
NoInputLooksTimedOut == \A t \in Tests : InputView[t].termination # timeout

(* A termination is a time-out exactly if the time was up.  For targets    *)
(* that die before they clear the segment this hangs on the input.         *)
THEOREM TimeoutsAreTimeouts ==
  ASSUME NoInputLooksTimedOut PROVE Spec => []TimeoutMeansExpired
<1>1. IInv => TimeoutMeansExpired
  <2> SUFFICES ASSUME IInv, pc = "executed" PROVE termination = timeout <=> expired
    BY DEF TimeoutMeansExpired
  <2>1. expired => termination = timeout  BY DEF IInv, VerdictInv
  <2>2. cleared /\ ~expired => termination # timeout
    <3>1. timeout \notin Written
      BY DEF Written, timeout, normal, insufficient_data, ver_error_reached, medium_overflow
    <3> QED  BY <3>1 DEF IInv, VerdictInv
  <2>3. ~cleared /\ ~expired => termination # timeout
    <3>1. test \in Tests  BY DEF IInv, TypeOK, DriverInv, InHand
    <3> QED  BY <3>1, NoInputLooksTimedOut DEF IInv, VerdictInv, NoInputLooksTimedOut
  <2> QED  BY <2>1, <2>2, <2>3
<1>2. QED  BY <1>1, Invariance, PTL

-----------------------------------------------------------------------------
(* How many steps the driver has left at most: in a wave three steps are   *)
(* its own and five to seven are each test's.                              *)
Rank ==
  [done |-> 0, failed |-> 0, died |-> 0, wave |-> 1, test |-> 2, executed |-> 3, classify |-> 4,
   killed |-> 5, expired |-> 6, waiting |-> 7]

StepsPerWave == 7 * Cardinality(Tests) + 2
StepsLeft == (WaveCount - wave) * StepsPerWave + 7 * Cardinality(todo) + Rank[pc]

(* The safety half of ResultsAreSaved: wherever the driver is, each of its *)
(* steps brings it closer to its end by a number that the target, whatever *)
(* it does, cannot put up again (run.cpp:111-145, target_executor.cpp).    *)
DriverAdvances ==
  [][/\ StepsLeft \in Nat /\ StepsLeft' <= StepsLeft
     /\ Driver => StepsLeft' < StepsLeft]_vars

LEMMA Counts ==
  ASSUME IInv
  PROVE  /\ Cardinality(Tests) \in Nat /\ StepsPerWave \in Nat
         /\ IsFiniteSet(todo) /\ Cardinality(todo) \in Nat
         /\ Cardinality(tests) \in Nat /\ Cardinality(tests) <= Cardinality(Tests)
         /\ WaveCount \in Nat /\ wave \in Nat /\ wave <= WaveCount
         /\ (WaveCount - wave) * StepsPerWave \in Nat
         /\ Rank[pc] \in 0..7 /\ StepsLeft \in Nat
<1>1. todo \subseteq Tests /\ tests \subseteq Tests /\ wave \in 0..WaveCount
  BY DEF IInv, TypeOK
<1>2. IsFiniteSet(Tests) /\ IsFiniteSet(todo) /\ IsFiniteSet(tests)
  BY <1>1, TestsAssumption, FS_Subset
<1>3. /\ Cardinality(Tests) \in Nat /\ Cardinality(todo) \in Nat
      /\ Cardinality(tests) \in Nat
  BY <1>2, FS_CardinalityType
<1>4. Cardinality(tests) <= Cardinality(Tests)
  BY <1>1, TestsAssumption, FS_Subset
<1>5. StepsPerWave \in Nat  BY <1>3 DEF StepsPerWave
<1>6. WaveCount \in Nat /\ wave \in Nat /\ wave <= WaveCount
  BY <1>1, CountsAssumption
<1>7. (WaveCount - wave) * StepsPerWave \in Nat
  <2>1. WaveCount - wave \in Nat  BY <1>6
  <2>. QED  BY <2>1, <1>5
<1>8. Rank[pc] \in 0..7
  <2>1. pc \in {"wave", "test", "waiting", "expired", "killed", "classify",
                "executed", "done", "failed", "died"}
    BY DEF IInv, TypeOK
  <2>. QED  BY <2>1 DEF Rank
<1>9. StepsLeft \in Nat
  <2>1. 7 * Cardinality(todo) \in Nat  BY <1>3
  <2>2. Rank[pc] \in Nat  BY <1>8
  <2>. QED  BY <1>7, <2>1, <2>2 DEF StepsLeft
<1>. QED  BY <1>2, <1>3, <1>4, <1>5, <1>6, <1>7, <1>8, <1>9

(* Without a new wave and a new test it is the place that counts.          *)
LEMMA NextPlace ==
  ASSUME IInv, UNCHANGED <<wave, todo>>, Rank[pc'] \in Int, Rank[pc'] < Rank[pc]
  PROVE  StepsLeft' < StepsLeft
<1>1. /\ (WaveCount - wave) * StepsPerWave \in Nat /\ Cardinality(todo) \in Nat
      /\ Rank[pc] \in Int
  BY Counts
<1>. DEFINE w == (WaveCount - wave) * StepsPerWave
            c == Cardinality(todo)
<1>2. StepsLeft = w + 7 * c + Rank[pc] /\ StepsLeft' = w + 7 * c + Rank[pc']
  BY DEF StepsLeft
<1>. HIDE DEF w, c
<1>3. w \in Nat /\ c \in Nat  BY <1>1 DEF w, c
<1>. QED  BY <1>1, <1>2, <1>3

LEMMA DriverStepCounts ==
  ASSUME IInv, Driver
  PROVE  StepsLeft' < StepsLeft
<1>. DEFINE w == (WaveCount - wave) * StepsPerWave
            c == Cardinality(todo)
<1>1. /\ w \in Nat /\ c \in Nat /\ StepsPerWave \in Nat /\ IsFiniteSet(todo)
      /\ WaveCount \in Nat /\ wave \in Nat
  BY Counts
<1>2. CASE NextWave
  <2>1. /\ wave' = wave + 1 /\ todo' = tests /\ pc = "wave" /\ pc' = "test"
        /\ todo = {}
    BY <1>2 DEF NextWave, IInv, DriverInv
  <2>2. c = 0 /\ Cardinality(todo') = Cardinality(tests)  BY <2>1, FS_EmptySet
  <2>3. (WaveCount - (wave + 1)) * StepsPerWave = w - StepsPerWave
    <3>. DEFINE s == StepsPerWave
    <3>. HIDE DEF s
    <3>1. s \in Int  BY <1>1 DEF s
    <3>2. (WaveCount - (wave + 1)) * s = (WaveCount - wave) * s - s
      BY <1>1, <3>1
    <3>. QED  BY <3>2 DEF s
  <2>4. StepsLeft = w + 1  BY <1>1, <2>1, <2>2 DEF StepsLeft, Rank
  <2>5. StepsLeft' = (w - StepsPerWave) + 7 * Cardinality(tests) + 2
    BY <2>1, <2>2, <2>3 DEF StepsLeft, Rank
  <2>. DEFINE n == Cardinality(Tests)
              k == Cardinality(tests)
  <2>6. n \in Nat /\ k \in Nat /\ k <= n /\ StepsPerWave = 7 * n + 2
    BY Counts DEF StepsPerWave
  <2>. HIDE DEF n, w
  <2>7. StepsLeft' = (w - StepsPerWave) + 7 * k + 2  BY <2>5
  <2>. HIDE DEF k
  <2>. QED  BY <1>1, <2>4, <2>6, <2>7
<1>3. CASE \E t \in Tests : StartTest(t)
  <2>1. PICK t \in Tests : StartTest(t)  BY <1>3
  <2>2. /\ t \in todo /\ todo' = todo \ {t} /\ pc = "test" /\ pc' = "waiting"
        /\ wave' = wave
    BY <2>1 DEF StartTest, SendInput
  <2>3. Cardinality(todo') = c - 1  BY <1>1, <2>2, FS_RemoveElement
  <2>4. StepsLeft = w + 7 * c + 2 /\ StepsLeft' = w + 7 * (c - 1) + 7
    BY <2>2, <2>3 DEF StepsLeft, Rank
  <2>. HIDE DEF w, c
  <2>. QED  BY <1>1, <2>4
<1>4. CASE WaveDone
  BY <1>4, NextPlace DEF WaveDone, driver, Rank
<1>5. CASE Save \/ AssertionFails
  BY <1>5, NextPlace DEF Save, AssertionFails, driver, Rank
<1>6. CASE WaitOver \/ TimerExpires
  BY <1>6, NextPlace DEF WaitOver, TimerExpires, driver, Rank
<1>7. CASE Terminate
  BY <1>7, NextPlace DEF Terminate, driver, Rank
<1>8. CASE SetTimeout
  BY <1>8, NextPlace DEF SetTimeout, driver, Rank
<1>9. CASE Classify
  BY <1>9, NextPlace DEF Classify, driver, Rank
<1>10. CASE AddExecution
  <2>1. pc = "executed" /\ pc' = "test" /\ UNCHANGED <<wave, todo>>
    BY <1>10 DEF AddExecution
  <2>. QED  BY <2>1, NextPlace DEF Rank
<1>11. CASE AnalyserDies
  BY <1>11, NextPlace DEF AnalyserDies, driver, Rank
<1>12. CASE \E t \in Tests : StartFails(t)
  <2>1. pc = "test" /\ pc' = "failed" /\ UNCHANGED <<wave, todo>>
    BY <1>12 DEF StartFails, SendInput, driver
  <2>. QED  BY <2>1, NextPlace DEF Rank
<1>. QED
  BY <1>2, <1>3, <1>4, <1>5, <1>6, <1>7, <1>8, <1>9, <1>10, <1>11, <1>12 DEF Driver

(* The driver takes at most as many steps as its tests and waves call for. *)
THEOREM DriverComesToAnEnd == Spec => DriverAdvances
<1>0. (IInv => StepsLeft \in Nat)'
  <2>1. IInv => StepsLeft \in Nat  BY Counts
  <2>. QED  BY <2>1, PTL
<1>1. ASSUME IInv, IInv', [Next]_vars
      PROVE  [/\ StepsLeft \in Nat /\ StepsLeft' <= StepsLeft
              /\ Driver => StepsLeft' < StepsLeft]_vars
  <2>. SUFFICES ASSUME Next
                PROVE  /\ StepsLeft \in Nat /\ StepsLeft' <= StepsLeft
                       /\ Driver => StepsLeft' < StepsLeft
    BY <1>1
  <2>1. StepsLeft \in Nat  BY <1>1, Counts
  <2>2. StepsLeft' \in Nat
    BY <1>0, <1>1
  <2>3. Driver => StepsLeft' < StepsLeft  BY <1>1, DriverStepCounts
  <2>4. TargetStep \/ TargetEnds => StepsLeft' = StepsLeft
    BY DEF TargetStep, TargetEnds, driver, StepsLeft
  <2>. QED  BY <2>1, <2>2, <2>3, <2>4 DEF Next
<1>. QED  BY <1>1, Invariance, PTL DEF Spec, DriverAdvances
=============================================================================
