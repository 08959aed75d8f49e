-------------------------------- MODULE Waves --------------------------------
(***************************************************************************)
(* calculate_waves: the time limits, in milliseconds, of the rounds in     *)
(* which the driver runs a suite of tests, computed from the limit the     *)
(* user gives for the whole of it.                                         *)
(***************************************************************************)
EXTENDS Integers, Sequences

CONSTANTS Limits, TestCounts      \* the inputs to try

ASSUME InputsAssumption == Limits \subseteq Nat /\ TestCounts \subseteq Nat

TEST_MIN_DURATION            == 100
TEST_MAX_WAVE_COUNT          == 4
TEST_DURATION_INCREASE_RATIO == 5

VARIABLES limit, test_count, waves, remaining, current, pc

vars == <<limit, test_count, waves, remaining, current, pc>>

Init ==
  /\ limit \in Limits /\ test_count \in TestCounts
  /\ waves = << >> /\ remaining = limit /\ current = TEST_MIN_DURATION
  /\ pc = "start"

Return(result) ==
  /\ waves' = result /\ pc' = "done"
  /\ UNCHANGED <<limit, test_count, remaining, current>>

NoTests == pc = "start" /\ test_count = 0 /\ Return(<< >>)

OneTest == pc = "start" /\ test_count = 1 /\ Return(<<limit>>)

TooLittleTime ==
  /\ pc = "start" /\ test_count > 1
  /\ limit \div test_count < TEST_MIN_DURATION
  /\ Return(<<TEST_MIN_DURATION>>)

EnterLoop ==
  /\ pc = "start" /\ test_count > 1
  /\ limit \div test_count >= TEST_MIN_DURATION
  /\ pc' = "loop"
  /\ UNCHANGED <<limit, test_count, waves, remaining, current>>

total_consumed == current * test_count

Bug_OneWaveMore == Len(waves) <= TEST_MAX_WAVE_COUNT
RoomForAWave == Len(waves) < TEST_MAX_WAVE_COUNT

Longer == current * TEST_DURATION_INCREASE_RATIO

Bug_NothingConsumed == remaining
LeftOver == remaining - total_consumed

AddWave ==
  /\ pc = "loop" /\ RoomForAWave
  /\ total_consumed <= remaining
  /\ waves' = Append(waves, current)
  /\ remaining' = LeftOver
  /\ current' = Longer
  /\ UNCHANGED <<limit, test_count, pc>>

LeaveLoop ==
  /\ pc = "loop"
  /\ ~RoomForAWave \/ total_consumed > remaining
  /\ pc' = "top_up"
  /\ UNCHANGED <<limit, test_count, waves, remaining, current>>

Bug_ForEveryTest == remaining
Share == remaining \div test_count

(* What is left goes to the last wave.                                     *)
TopUp ==
  /\ pc = "top_up"
  /\ Return(IF waves = << >> THEN <<TEST_MIN_DURATION>>
            ELSE [waves EXCEPT ![Len(waves)] = @ + Share])

Next ==
  NoTests \/ OneTest \/ TooLittleTime \/ EnterLoop \/ AddWave \/ LeaveLoop \/ TopUp

Spec == Init /\ [][Next]_vars

-----------------------------------------------------------------------------
Nth(i) == IF i <= Len(waves) THEN waves[i] ELSE 0
Total  == Nth(1) + Nth(2) + Nth(3) + Nth(4)

Affordable == test_count >= 1 /\ limit \div test_count >= TEST_MIN_DURATION

(* Every variable has its type; there are never more than four waves.      *)
TypeOK ==
  /\ limit \in Nat /\ test_count \in Nat
  /\ waves \in Seq(Nat) /\ Len(waves) <= TEST_MAX_WAVE_COUNT
  /\ remaining \in Nat /\ current \in Nat
  /\ pc \in {"start", "loop", "top_up", "done"}

(* If every test times out in every wave, the suite still takes no more    *)
(* than the limit, and wastes less than a millisecond per test of it       *)
(* (run.cpp:63-78).                                                        *)
BudgetIsSpent ==
  pc = "done" /\ Affordable
    => /\ test_count * Total <= limit
       /\ limit < test_count * (Total + 1)

(* The waves, told without the loop: the first terms of 100, 500, 2500,    *)
(* 12500 that the limit has room for, the last one stretched.              *)
Terms ==
  LET first == TEST_MIN_DURATION
      ratio == TEST_DURATION_INCREASE_RATIO
  IN  <<first, first * ratio, first * ratio * ratio, first * ratio * ratio * ratio>>

Upto(i, k) == IF i <= k THEN Terms[i] ELSE 0
Prefix(k)  == Upto(1, k) + Upto(2, k) + Upto(3, k) + Upto(4, k)

ExpectedWaves ==
  LET fits  == { k \in 1..TEST_MAX_WAVE_COUNT : test_count * Prefix(k) <= limit }
      count == CHOOSE k \in fits : \A other \in fits : other <= k
  IN  [i \in 1..count |->
         IF i < count THEN Terms[i] ELSE limit \div test_count - Prefix(count - 1)]

(* The loop computes them.                                                 *)
WavesAsExpected ==
  pc = "done" /\ test_count > 1 /\ Affordable => waves = ExpectedWaves
=============================================================================
