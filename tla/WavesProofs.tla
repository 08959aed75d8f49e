----------------------------- MODULE WavesProofs -----------------------------
(***************************************************************************)
(* The waves keep the budget and use it up: proofs, for every limit and    *)
(* every number of tests.                                                  *)
(***************************************************************************)
EXTENDS Waves, TLAPS

USE DEF TEST_MIN_DURATION, TEST_MAX_WAVE_COUNT, TEST_DURATION_INCREASE_RATIO

(* Division of natural numbers, by what determines it.                     *)
LEMMA Division ==
  ASSUME NEW a \in Nat, NEW b \in Nat \ {0}
  PROVE  /\ a \div b \in Nat
         /\ b * (a \div b) <= a
         /\ a < b * (a \div b) + b
OBVIOUS

LEMMA QuotientIs ==
  ASSUME NEW a \in Nat, NEW b \in Nat \ {0}, NEW q \in Int,
         b * q <= a, a < b * q + b
  PROVE  q = a \div b
<1>. DEFINE p == a \div b
<1>1. p \in Nat /\ b * p <= a /\ a < b * p + b  BY Division
<1>. HIDE DEF p
<1>2. CASE p < q
  <2>1. b * (p + 1) <= b * q  BY <1>1, <1>2
  <2>2. b * (p + 1) = b * p + b  BY <1>1
  <2>. QED  BY <1>1, <2>1, <2>2
<1>3. CASE q < p
  <2>1. b * (q + 1) <= b * p  BY <1>1, <1>3
  <2>2. b * (q + 1) = b * q + b  OBVIOUS
  <2>. QED  BY <1>1, <2>1, <2>2
<1>. QED  BY <1>1, <1>2, <1>3 DEF p

LEMMA Products ==
  ASSUME NEW a \in Nat, NEW x \in Int, NEW y \in Int
  PROVE  /\ a * x \in Int /\ x * a = a * x
         /\ a * (x + y) = a * x + a * y
         /\ a * (x + 1) = a * x + a
         /\ x <= y => a * x <= a * y
OBVIOUS

(* The terms of the sequence of waves and what they sum up to.             *)
LEMMA TermValues ==
  /\ Terms[1] = 100 /\ Terms[2] = 500 /\ Terms[3] = 2500 /\ Terms[4] = 12500
  /\ Prefix(0) = 0 /\ Prefix(1) = 100 /\ Prefix(2) = 600 /\ Prefix(3) = 3100
  /\ Prefix(4) = 15600
<1>1. Terms = <<100, 500, 2500, 12500>>  BY DEF Terms
<1>. QED  BY <1>1 DEF Prefix, Upto

LEMMA NextTerm ==
  ASSUME NEW n \in 0..3
  PROVE  /\ Terms[n + 1] \in Nat /\ Prefix(n) \in Nat
         /\ Prefix(n + 1) = Prefix(n) + Terms[n + 1]
         /\ n < 3 => Terms[n + 2] = Terms[n + 1] * 5
<1>1. CASE n = 0  BY <1>1, TermValues
<1>2. CASE n = 1  BY <1>2, TermValues
<1>3. CASE n = 2  BY <1>3, TermValues
<1>4. CASE n = 3  BY <1>4, TermValues
<1>. QED  BY <1>1, <1>2, <1>3, <1>4

-----------------------------------------------------------------------------
(* The loop has made the first waves of the sequence, and what it has not  *)
(* given to them remains; once it is left, for want of time or of waves,   *)
(* there is at least one.                                                  *)
Made(n) ==
  /\ Len(waves) = n
  /\ \A i \in 1..n : waves[i] = Terms[i]
  /\ remaining = limit - test_count * Prefix(n)
  /\ n < 4 => current = Terms[n + 1]

LoopInv ==
  /\ pc = "start" => waves = << >> /\ remaining = limit /\ current = 100
  /\ pc \in {"loop", "top_up"} =>
       /\ test_count > 1 /\ Affordable
       /\ \E n \in 0..4 : Made(n)
  /\ pc = "top_up" =>
       \A n \in 0..4 : Made(n) => n > 0 /\ (n < 4 => limit < test_count * Prefix(n + 1))

Result == BudgetIsSpent /\ WavesAsExpected

IInv == TypeOK /\ LoopInv /\ Result

LEMMA AffordsOneWave ==
  ASSUME limit \in Nat, test_count \in Nat, Affordable
  PROVE  test_count * 100 <= limit
<1>. DEFINE q == limit \div test_count
<1>1. test_count \in Nat \ {0} /\ q >= 100  BY DEF Affordable
<1>2. q \in Nat /\ test_count * q <= limit  BY <1>1, Division
<1>. HIDE DEF q
<1>3. test_count * 100 <= test_count * q  BY <1>1, <1>2
<1>. QED  BY <1>2, <1>3

(* What is left goes to the last wave: now the waves are the expected ones *)
(* and what they take of the budget is all but a rest of the division.     *)
LEMMA ToppedUp ==
  ASSUME TypeOK, LoopInv, TopUp
  PROVE  /\ waves' \in Seq(Nat) /\ Len(waves') <= 4
         /\ test_count * Total' <= limit
         /\ limit < test_count * (Total' + 1)
         /\ waves' = ExpectedWaves
<1>1. pc = "top_up" /\ test_count \in Nat \ {0} /\ limit \in Nat /\ remaining \in Nat
  <2>1. pc = "top_up"  BY DEF TopUp
  <2>2. test_count > 1  BY <2>1 DEF LoopInv
  <2>3. limit \in Nat /\ test_count \in Nat /\ remaining \in Nat  BY DEF TypeOK
  <2>. QED  BY <2>1, <2>2, <2>3
<1>2. PICK n \in 0..4 : Made(n)
  <2>1. pc \in {"loop", "top_up"}  BY <1>1
  <2>. QED  BY <2>1 DEF LoopInv
<1>3. n \in 1..4 /\ (n < 4 => limit < test_count * Prefix(n + 1))
  BY <1>1, <1>2 DEF LoopInv
<1>4. Len(waves) = n /\ \A i \in 1..n : waves[i] = Terms[i]  BY <1>2 DEF Made
<1>5. remaining = limit - test_count * Prefix(n)  BY <1>2 DEF Made
<1>6. Prefix(n) \in Nat /\ Prefix(n - 1) \in Nat /\ Prefix(n) = Prefix(n - 1) + Terms[n]
  <2>1. n = 1 \/ n = 2 \/ n = 3 \/ n = 4  BY <1>3
  <2>. QED  BY <2>1, TermValues
<1>. DEFINE share == remaining \div test_count
            all == Prefix(n) + share
<1>7. /\ share \in Nat /\ test_count * all <= limit
      /\ limit < test_count * (all + 1) /\ limit \div test_count = all
  <2>1. share \in Nat /\ test_count * share <= remaining
        /\ remaining < test_count * share + test_count
    BY <1>1, Division
  <2>. HIDE DEF share
  <2>2. /\ test_count * all = test_count * Prefix(n) + test_count * share
        /\ test_count * (all + 1) = test_count * all + test_count
        /\ test_count * Prefix(n) \in Int /\ test_count * share \in Int
        /\ all \in Nat
    BY <1>1, <1>6, <2>1, Products
  <2>3. test_count * all <= limit /\ limit < test_count * all + test_count
    BY <1>1, <1>5, <2>1, <2>2
  <2>. HIDE DEF all
  <2>4. all = limit \div test_count
    BY <1>1, <2>2, <2>3, QuotientIs
  <2>. QED  BY <2>1, <2>2, <2>3, <2>4
<1>8. waves # << >> /\ waves \in Seq(Nat)
  <2>1. waves \in Seq(Nat)  BY DEF TypeOK
  <2>. QED  BY <2>1, <1>3, <1>4
<1>9. waves' = [waves EXCEPT ![n] = waves[n] + share]
  BY <1>4, <1>8 DEF TopUp, Return, Share
<1>. HIDE DEF share
<1>10. \A i \in 1..4 : Terms[i] \in Nat  BY TermValues
<1>11. /\ waves' \in Seq(Nat) /\ Len(waves') = n
       /\ \A i \in 1..n : waves'[i] = IF i = n THEN Terms[n] + share ELSE Terms[i]
  <2>1. waves[n] + share \in Nat  BY <1>3, <1>4, <1>7, <1>10
  <2>. QED  BY <2>1, <1>3, <1>4, <1>8, <1>9
<1>12. Total' = all
  <2>1. Total' = (IF 1 <= n THEN waves'[1] ELSE 0) + (IF 2 <= n THEN waves'[2] ELSE 0)
               + (IF 3 <= n THEN waves'[3] ELSE 0) + (IF 4 <= n THEN waves'[4] ELSE 0)
    BY <1>11 DEF Total, Nth
  <2>2. CASE n = 1  BY <2>1, <2>2, <1>7, <1>11, TermValues
  <2>3. CASE n = 2  BY <2>1, <2>3, <1>7, <1>11, TermValues
  <2>4. CASE n = 3  BY <2>1, <2>4, <1>7, <1>11, TermValues
  <2>5. CASE n = 4  BY <2>1, <2>5, <1>7, <1>11, TermValues
  <2>. QED  BY <1>3, <2>2, <2>3, <2>4, <2>5
<1>13. waves' = ExpectedWaves
  <2>. DEFINE fits == { k \in 1..4 : test_count * Prefix(k) <= limit }
              last == limit \div test_count - Prefix(n - 1)
  <2>1. n \in fits
    <3>1. test_count * Prefix(n) \in Int  BY <1>1, <1>6, Products
    <3>. QED  BY <3>1, <1>1, <1>3, <1>5
  <2>2. \A k \in fits : k <= n
    <3>. SUFFICES ASSUME NEW k \in 1..4, n < k, test_count * Prefix(k) <= limit
                  PROVE  FALSE
      BY <1>3
    <3>1. Prefix(n + 1) \in Nat /\ Prefix(k) \in Nat /\ Prefix(n + 1) <= Prefix(k) /\ n < 4
      <4>1. n \in {1, 2, 3} /\ k \in {2, 3, 4} /\ n + 1 <= k  BY <1>3
      <4>. QED  BY <4>1, TermValues
    <3>2. /\ test_count * Prefix(n + 1) <= test_count * Prefix(k)
          /\ test_count * Prefix(n + 1) \in Int /\ test_count * Prefix(k) \in Int
      BY <3>1, <1>1, Products
    <3>. QED  BY <3>1, <3>2, <1>1, <1>3
  <2>3. (CHOOSE k \in fits : \A other \in fits : other <= k) = n
    <3>1. \A k \in fits : (\A other \in fits : other <= k) => k = n
      BY <2>1, <2>2, <1>3
    <3>. HIDE DEF fits
    <3>. QED  BY <2>1, <2>2, <3>1
  <2>4. ExpectedWaves = [i \in 1..n |-> IF i < n THEN Terms[i] ELSE last]
    <3>. DEFINE count == CHOOSE k \in fits : \A other \in fits : other <= k
    <3>1. ExpectedWaves =
            [i \in 1..count |-> IF i < count THEN Terms[i]
                               ELSE limit \div test_count - Prefix(count - 1)]
      BY Zenon DEF ExpectedWaves
    <3>2. count = n  BY <2>3
    <3>. HIDE DEF count
    <3>. QED  BY <3>1, <3>2
  <2>5. last = Terms[n] + share
    BY <1>3, <1>7, <1>10, <1>6
  <2>6. waves' = [i \in 1..n |-> waves'[i]]  BY <1>11
  <2>. HIDE DEF last
  <2>7. \A i \in 1..n : waves'[i] = IF i < n THEN Terms[i] ELSE last
    BY <1>3, <1>11, <2>5
  <2>. QED  BY <2>4, <2>6, <2>7
<1>. QED  BY <1>3, <1>7, <1>11, <1>12, <1>13

LEMMA StepInv == IInv /\ [Next]_vars => IInv'
<1>. SUFFICES ASSUME IInv, [Next]_vars PROVE IInv'  OBVIOUS
<1>. TypeOK /\ LoopInv /\ Result  BY DEF IInv
<1>0. limit \in Nat /\ test_count \in Nat  BY DEF TypeOK
<1>1. CASE NoTests \/ OneTest \/ TooLittleTime
  <2>1. /\ pc = "start" /\ pc' = "done" /\ UNCHANGED <<limit, test_count, remaining, current>>
        /\ waves' \in Seq(Nat) /\ Len(waves') <= 4
    <3>1. << >> \in Seq(Nat) /\ <<limit>> \in Seq(Nat) /\ <<100>> \in Seq(Nat)
          /\ Len(<< >>) = 0 /\ Len(<<limit>>) = 1 /\ Len(<<100>>) = 1
      BY <1>0
    <3>2. CASE NoTests  BY <3>1, <3>2 DEF NoTests, Return
    <3>3. CASE OneTest  BY <3>1, <3>3 DEF OneTest, Return
    <3>4. CASE TooLittleTime  BY <3>1, <3>4 DEF TooLittleTime, Return
    <3>. QED  BY <1>1, <3>2, <3>3, <3>4
  <2>2. TypeOK' /\ LoopInv'  BY <2>1 DEF TypeOK, LoopInv
  <2>3. CASE OneTest
    <3>1. test_count = 1 /\ waves' = <<limit>>  BY <2>3 DEF OneTest, Return
    <3>2. Total' = limit  BY <1>0, <3>1 DEF Total, Nth
    <3>3. Result'
      BY <1>0, <2>1, <3>1, <3>2 DEF Result, BudgetIsSpent, WavesAsExpected
    <3>. QED  BY <2>2, <3>3 DEF IInv
  <2>4. CASE NoTests \/ TooLittleTime
    <3>1. ~Affordable /\ ~Affordable'
      <4>1. ~Affordable  BY <2>4, <1>0, Division DEF NoTests, TooLittleTime, Affordable
      <4>. QED  BY <4>1, <2>1 DEF Affordable
    <3>. QED  BY <2>2, <3>1 DEF IInv, Result, BudgetIsSpent, WavesAsExpected
  <2>. QED  BY <1>1, <2>3, <2>4
<1>2. CASE EnterLoop
  <2>1. /\ pc = "start" /\ pc' = "loop" /\ test_count > 1 /\ Affordable /\ Affordable'
        /\ UNCHANGED <<limit, test_count, waves, remaining, current>>
    BY <1>0, <1>2 DEF EnterLoop, Affordable
  <2>2. Made(0)  BY <1>0, <2>1, TermValues DEF LoopInv, Made
  <2>3. Made(0)'  BY <2>1, <2>2 DEF Made
  <2>4. LoopInv'  BY <2>1, <2>3 DEF LoopInv
  <2>. QED
    BY <2>1, <2>4 DEF IInv, TypeOK, Result, BudgetIsSpent, WavesAsExpected
<1>3. CASE AddWave
  <2>1. /\ pc = "loop" /\ pc' = "loop" /\ UNCHANGED <<limit, test_count>>
        /\ Len(waves) < 4 /\ test_count > 1 /\ Affordable
        /\ waves' = Append(waves, current) /\ current' = current * 5
        /\ remaining' = remaining - current * test_count
        /\ current * test_count <= remaining
        /\ waves \in Seq(Nat) /\ current \in Nat /\ remaining \in Nat
    BY <1>3 DEF AddWave, RoomForAWave, LeftOver, total_consumed, Longer, LoopInv, TypeOK
  <2>2. PICK n \in 0..4 : Made(n)  BY <2>1 DEF LoopInv
  <2>3. n \in 0..3 /\ Len(waves) = n  BY <2>1, <2>2 DEF Made
  <2>4. waves' \in Seq(Nat) /\ Len(waves') = n + 1 /\ waves'[n + 1] = current
        /\ \A i \in 1..n : waves'[i] = waves[i]
    BY <2>1, <2>3
  <2>5. current = Terms[n + 1] /\ (n + 1 < 4 => current' = Terms[n + 2])
    <3>1. current = Terms[n + 1]  BY <2>2, <2>3 DEF Made
    <3>2. current' = current * 5  BY <2>1
    <3>3. n < 3 => Terms[n + 2] = Terms[n + 1] * 5  BY <2>3, NextTerm
    <3>. QED  BY <3>1, <3>2, <3>3, <2>3
  <2>6. remaining' = limit - test_count * Prefix(n + 1)
    <3>1. remaining = limit - test_count * Prefix(n)  BY <2>2 DEF Made
    <3>2. remaining' = remaining - current * test_count  BY <2>1
    <3>3. /\ current \in Nat /\ Prefix(n) \in Nat
          /\ Prefix(n + 1) = Prefix(n) + current
      BY <2>3, <2>5, NextTerm
    <3>4. /\ current * test_count = test_count * current
          /\ test_count * Prefix(n + 1) = test_count * Prefix(n) + test_count * current
          /\ test_count * current \in Int /\ test_count * Prefix(n) \in Int
      BY <3>3, <1>0, Products
    <3>. QED  BY <3>1, <3>2, <3>4, <1>0
  <2>7. Made(n + 1)'
    <3>1. \A i \in 1..(n + 1) : waves'[i] = Terms[i]
      BY <2>2, <2>3, <2>4, <2>5 DEF Made
    <3>2. n + 1 < 4 => current' = Terms[(n + 1) + 1]  BY <2>3, <2>5
    <3>. QED  BY <2>1, <2>4, <2>6, <3>1, <3>2 DEF Made
  <2>8. LoopInv'
    <3>1. Affordable'  BY <2>1 DEF Affordable
    <3>. QED  BY <2>1, <2>3, <2>7, <3>1 DEF LoopInv
  <2>9. TypeOK'
    <3>1. current' \in Nat /\ remaining' \in Nat  BY <1>0, <2>1
    <3>. QED  BY <1>0, <2>1, <2>3, <2>4, <3>1 DEF TypeOK
  <2>. QED  BY <2>1, <2>8, <2>9 DEF IInv, Result, BudgetIsSpent, WavesAsExpected
<1>4. CASE LeaveLoop
  <2>1. /\ pc = "loop" /\ pc' = "top_up"
        /\ UNCHANGED <<limit, test_count, waves, remaining, current>>
        /\ test_count > 1 /\ Affordable
        /\ Len(waves) >= 4 \/ current * test_count > remaining
    BY <1>4 DEF LeaveLoop, RoomForAWave, total_consumed, LoopInv, TypeOK
  <2>2. ASSUME NEW n \in 0..4, Made(n)
        PROVE  n > 0 /\ (n < 4 => limit < test_count * Prefix(n + 1))
    <3>1. /\ Len(waves) = n /\ remaining = limit - test_count * Prefix(n)
          /\ n < 4 => current = Terms[n + 1]
      BY <2>2 DEF Made
    <3>2. n < 4 => limit < test_count * Prefix(n + 1)
      <4>. SUFFICES ASSUME n < 4 PROVE limit < test_count * Prefix(n + 1)  OBVIOUS
      <4>1. Terms[n + 1] * test_count > limit - test_count * Prefix(n)  BY <2>1, <3>1
      <4>2. n = 0 \/ n = 1 \/ n = 2 \/ n = 3  OBVIOUS
      <4>. QED  BY <4>1, <4>2, <1>0, TermValues
    <3>3. n # 0
      BY <3>2, <1>0, <2>1, TermValues, AffordsOneWave
    <3>. QED  BY <3>2, <3>3
  <2>3. \A n \in 0..4 : Made(n)' <=> Made(n)  BY <2>1 DEF Made
  <2>4. LoopInv'
    <3>1. Affordable'  BY <2>1 DEF Affordable
    <3>. QED  BY <2>1, <2>2, <2>3, <3>1 DEF LoopInv
  <2>. QED
    BY <2>1, <2>4 DEF IInv, TypeOK, Result, BudgetIsSpent, WavesAsExpected
<1>5. CASE TopUp
  <2>1. /\ pc' = "done" /\ UNCHANGED <<limit, test_count, remaining, current>>
    BY <1>5 DEF TopUp, Return
  <2>2. TypeOK' /\ LoopInv'
    BY <1>5, <2>1, ToppedUp DEF TypeOK, LoopInv
  <2>3. ExpectedWaves' = ExpectedWaves  BY <2>1 DEF ExpectedWaves
  <2>4. Result'
    BY <1>5, <2>1, <2>3, ToppedUp DEF Result, BudgetIsSpent, WavesAsExpected
  <2>. QED  BY <2>2, <2>4 DEF IInv
<1>6. CASE UNCHANGED vars
  <2>1. UNCHANGED <<limit, test_count, waves, remaining, current, pc>>
    BY <1>6 DEF vars
  <2>2. TypeOK' /\ Affordable' = Affordable /\ Total' = Total
        /\ ExpectedWaves' = ExpectedWaves
    BY <2>1 DEF TypeOK, Affordable, Total, Nth, ExpectedWaves
  <2>3. LoopInv'  BY <2>1 DEF LoopInv, Made, Affordable
  <2>. QED
    BY <2>1, <2>2, <2>3 DEF IInv, Result, BudgetIsSpent, WavesAsExpected
<1>. QED  BY <1>1, <1>2, <1>3, <1>4, <1>5, <1>6 DEF Next

THEOREM Invariance == Spec => []IInv
<1>1. Init => IInv
  BY InputsAssumption
     DEF Init, IInv, TypeOK, LoopInv, Result, BudgetIsSpent, WavesAsExpected
<1>2. IInv /\ [Next]_vars => IInv'  BY StepInv
<1>. QED  BY <1>1, <1>2, PTL DEF Spec

(* Every variable has its type, and there are never more than four waves.  *)
THEOREM TypeCorrect == Spec => []TypeOK
<1>1. IInv => TypeOK  BY DEF IInv
<1>. QED  BY <1>1, Invariance, PTL

(* The budget is kept, and all of it used but a rest of the division.      *)
THEOREM BudgetKept == Spec => []BudgetIsSpent
<1>1. IInv => BudgetIsSpent  BY DEF IInv, Result
<1>. QED  BY <1>1, Invariance, PTL

(* The loop of calculate_waves computes what the closed form says.         *)
THEOREM LoopComputesClosedForm == Spec => []WavesAsExpected
<1>1. IInv => WavesAsExpected  BY DEF IInv, Result
<1>. QED  BY <1>1, Invariance, PTL
=============================================================================
