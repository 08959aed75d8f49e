--------------------------- MODULE AnalyzerProofs ---------------------------
(***************************************************************************)
(* What the analysers keep is the union of what the segments said, whatever*)
(* they said: proofs, for any set of segments.                             *)
(***************************************************************************)
EXTENDS Analyzer, FiniteSetTheorems, TLAPS

(* What the first n records of the segment say.                            *)
Said(n) ==
  UNION { CondsOf(segment.records[i].id, segment.records[i].coverage) :
            i \in { j \in 1..n : InRange(segment.records[j]) } }

BranchInv ==
  /\ DOMAIN coverage \subseteq 1..br_instr_count
  /\ test_type = "BRANCH_COVERAGE" =>
       IF Idle THEN Conditions = accepted
       ELSE /\ position \in 1..(Len(segment.records) + 1)
            /\ Conditions = accepted \cup Said(position - 1)

(* What the first n bytes of the segment say.                              *)
Flagged(n) == UNION { {i} \X segment.flags[i] : i \in 0..(n - 1) }

GoalInv ==
  test_type = "TESTCOMP_COVERAGE" =>
    IF Idle THEN GoalBits = accepted
    ELSE /\ position <= goal_count /\ position <= Room
         /\ GoalBits = accepted \cup Flagged(position)

IInv == KeptOK /\ BranchInv /\ GoalInv

-----------------------------------------------------------------------------
LEMMA MergeIsUnion ==
  ASSUME NEW id, NEW old \in Coverages, NEW new \in Coverages
  PROVE  /\ Merged(old, new) \in Coverages
         /\ CondsOf(id, Merged(old, new)) = CondsOf(id, old) \cup CondsOf(id, new)
<1>1. Coverages = {0, 1, 2} /\ Directions = {0, 1} /\ BOTH = 2
  BY DEF Coverages, Directions, covFALSE, covTRUE, BOTH
<1>2. Merged(old, new) = IF old # BOTH /\ old # new THEN BOTH ELSE old
  BY DEF Merged, Merge
<1>3. CASE old = BOTH  BY <1>1, <1>2, <1>3 DEF CondsOf
<1>4. CASE old = new  BY <1>2, <1>4
<1>5. CASE old # BOTH /\ old # new
  <2>1. Merged(old, new) = BOTH  BY <1>2, <1>5
  <2>2. CASE new = BOTH  BY <1>1, <1>5, <2>1, <2>2 DEF CondsOf
  <2>3. CASE new # BOTH
    <3>1. Directions = {old} \cup {new}  BY <1>1, <1>5, <2>3
    <3>2. CondsOf(id, BOTH) = {id} \X Directions  BY DEF CondsOf
    <3>3. CondsOf(id, old) = {id} \X {old} /\ CondsOf(id, new) = {id} \X {new}
      BY <1>5, <2>3 DEF CondsOf
    <3>. QED  BY <1>1, <2>1, <3>1, <3>2, <3>3
  <2>. QED  BY <2>2, <2>3
<1>. QED  BY <1>3, <1>4, <1>5

(* What a uint32_t holds are natural numbers, and zero is one of them.     *)
LEMMA CountsAreNat == Counts \subseteq Nat /\ 0 \in Counts
BY UintAssumption DEF Counts

LEMMA RecordType ==
  ASSUME KeptOK, ~Idle
  PROVE  /\ segment \in Segment
         /\ Len(segment.records) \in Nat
         /\ \A i \in 1..Len(segment.records) :
              /\ segment.records[i].id \in Nat \ {0}
              /\ segment.records[i].coverage \in Nat
              /\ InRange(segment.records[i]) =>
                   segment.records[i].coverage \in Coverages
         /\ \A i \in 0..(Room - 1) : segment.flags[i] \in Bitset
<1>1. segment \in Segment  BY DEF KeptOK, Idle
<1>2. /\ segment.records \in Seq(Record)
      /\ segment.flags \in [0..(Room - 1) -> Bitset]
  BY <1>1 DEF Segment
<1>3. \A i \in 1..Len(segment.records) : segment.records[i] \in Record
  BY <1>2
<1>4. \A r \in Record : /\ r.id \in Nat \ {0} /\ r.coverage \in Nat
                        /\ InRange(r) => r.coverage \in Coverages
  <2>. SUFFICES ASSUME NEW r \in Record
                PROVE  /\ r.id \in Nat \ {0} /\ r.coverage \in Nat
                       /\ InRange(r) => r.coverage \in Coverages
    OBVIOUS
  <2>1. r.id \in Counts \ {0} /\ r.coverage \in Byte  BY DEF Record
  <2>2. r.id \in Nat \ {0} /\ r.coverage \in Nat
    <3>1. r.id \in Nat \ {0}  BY <2>1, CountsAreNat, Zenon
    <3>2. r.coverage \in Nat  BY <2>1 DEF Byte
    <3>. QED  BY <3>1, <3>2
  <2>3. InRange(r) => r.coverage \in Coverages
    BY <2>2 DEF InRange, Coverages, Directions, covFALSE, covTRUE, BOTH
  <2>. QED  BY <2>2, <2>3
<1>5. Len(segment.records) \in Nat  BY <1>2
<1>6. \A i \in 0..(Room - 1) : segment.flags[i] \in Bitset  BY <1>2
<1>. QED  BY <1>1, <1>3, <1>4, <1>5, <1>6

(* Storing one record adds its conditions, be it merged or new.            *)
LEMMA OneRecord ==
  ASSUME KeptOK, NEW id, NEW new \in Coverages,
         NEW c,
         c = IF id \in DOMAIN coverage THEN Merged(coverage[id], new) ELSE new,
         coverage' = [x \in DOMAIN coverage \cup {id} |->
                        IF x = id THEN c ELSE coverage[x]]
  PROVE  /\ c \in Coverages
         /\ Conditions' = Conditions \cup CondsOf(id, new)
<1>1. c \in Coverages  BY MergeIsUnion DEF KeptOK
<1>. DEFINE others == UNION { CondsOf(x, coverage[x]) : x \in DOMAIN coverage \ {id} }
<1>2. Conditions' = others \cup CondsOf(id, c)
  BY DEF Conditions
<1>3. CASE id \in DOMAIN coverage
  <2>1. Conditions = others \cup CondsOf(id, coverage[id])
    BY <1>3 DEF Conditions
  <2>2. CondsOf(id, c) = CondsOf(id, coverage[id]) \cup CondsOf(id, new)
    BY <1>3, MergeIsUnion DEF KeptOK
  <2>. HIDE DEF others
  <2>. QED  BY <1>1, <1>2, <2>1, <2>2
<1>4. CASE id \notin DOMAIN coverage
  <2>1. Conditions = others  BY <1>4 DEF Conditions
  <2>. HIDE DEF others
  <2>. QED  BY <1>1, <1>2, <1>4, <2>1
<1>. QED  BY <1>3, <1>4

-----------------------------------------------------------------------------
LEMMA NoGoalsType == NoGoals \in [0..(0 - 1) -> Bitset]
<1>1. 0..(0 - 1) = {}  OBVIOUS
<1>2. NoGoals \in [{} -> Bitset]  BY DEF NoGoals
<1>. QED  BY <1>1, <1>2

LEMMA InitHolds ==
  ASSUME Init
  PROVE  IInv
<1>1. KeptOK  BY NoGoalsType, CountsAreNat DEF Init, KeptOK, NoRecords
<1>2. Conditions = {} /\ GoalBits = {}
  BY DEF Init, NoRecords, NoGoals, Conditions, GoalBits
<1>. QED  BY <1>1, <1>2 DEF Init, IInv, BranchInv, GoalInv, Idle, NoRecords

(* The record that is read next.                                           *)
LEMMA NextRecord ==
  ASSUME IInv, More
  PROVE  /\ position \in 1..Len(segment.records) /\ Len(segment.records) \in Nat
         /\ record.id \in Nat \ {0} /\ record.coverage \in Nat
         /\ InRange(record) => record.coverage \in Coverages
         /\ Conditions = accepted \cup Said(position - 1)
<1>1. KeptOK /\ ~Idle /\ test_type = "BRANCH_COVERAGE" /\ position <= Len(segment.records)
  BY DEF IInv, More, Scanning
<1>2. /\ position \in 1..(Len(segment.records) + 1)
      /\ Conditions = accepted \cup Said(position - 1)
  BY <1>1, Zenon DEF IInv, BranchInv
<1>3. Len(segment.records) \in Nat  BY <1>1, RecordType
<1>4. position \in 1..Len(segment.records)  BY <1>1, <1>2, <1>3
<1>. QED  BY <1>1, <1>2, <1>3, <1>4, RecordType DEF record

(* Types of what is kept.                                                  *)
LEMMA KeepsTypes ==
  ASSUME IInv, [Next]_vars
  PROVE  KeptOK'
<1>0. KeptOK  BY DEF IInv
<1>. USE SegmentsAssumption
<1>1. ASSUME NEW s \in Segments, BeginScan(s), UNCHANGED test_type  PROVE KeptOK'
  <2>1. s \in Segment /\ s.brCount \in Counts  BY DEF Segment
  <2>. QED  BY <1>0, <1>1, <2>1 DEF KeptOK, BeginScan, testcomp, history
<1>2. ASSUME NEW s \in Segments, BeginFlags(s), UNCHANGED test_type  PROVE KeptOK'
  <2>1. s \in Segment /\ s.goalCount \in Counts  BY DEF Segment
  <2>2. goal_count' \in Counts /\ goals' \in [0..(goal_count' - 1) -> Bitset]
    BY <1>0, <1>2, <2>1 DEF KeptOK, BeginFlags, GoalCount, Bitset
  <2>. QED  BY <1>0, <1>2, <2>1, <2>2 DEF KeptOK, BeginFlags, branch, history
<1>3. ASSUME NEW s \in Segments, AddTermination(s), UNCHANGED test_type  PROVE KeptOK'
  BY <1>0, <1>3 DEF KeptOK, AddTermination, branch, testcomp, scan, history
<1>4. ASSUME More, Advance, UNCHANGED test_type,
             DOMAIN coverage' \subseteq Nat \ {0},
             \A id \in DOMAIN coverage' : coverage'[id] \in Coverages
      PROVE  KeptOK'
  BY <1>0, <1>4, NextRecord DEF KeptOK, Advance, testcomp, history
<1>5. ASSUME SkipRecord, UNCHANGED test_type  PROVE KeptOK'
  BY <1>0, <1>4, <1>5 DEF SkipRecord, KeptOK
<1>6. ASSUME MergeRecord, UNCHANGED test_type  PROVE KeptOK'
  <2>1. Merged(coverage[record.id], record.coverage) \in Coverages
    BY <1>0, <1>6, NextRecord, MergeIsUnion DEF MergeRecord, KeptOK
  <2>. QED  BY <1>0, <1>4, <1>6, <2>1 DEF MergeRecord, KeptOK
<1>7. ASSUME EmplaceRecord, UNCHANGED test_type  PROVE KeptOK'
  BY <1>0, <1>4, <1>7, NextRecord DEF EmplaceRecord, KeptOK
<1>8. ASSUME EndScan, UNCHANGED test_type  PROVE KeptOK'
  BY <1>0, <1>8 DEF KeptOK, EndScan, Finish, branch, testcomp
<1>9. ASSUME AddFlag, UNCHANGED test_type  PROVE KeptOK'
  <2>1. ~Idle /\ position \in 0..(Room - 1)
    BY <1>0, <1>9, RoomAssumption DEF KeptOK, AddFlag, Adding
  <2>2. segment.flags[position] \in Bitset  BY <1>0, <2>1, RecordType
  <2>3. goals' \in [0..(goal_count - 1) -> Bitset]
    BY <1>0, <1>9, <2>2 DEF KeptOK, AddFlag, Or, Bitset
  <2>. QED  BY <1>0, <1>9, <2>3 DEF KeptOK, AddFlag, branch, history
<1>10. ASSUME ReadPastEnd, UNCHANGED test_type  PROVE KeptOK'
  BY <1>0, <1>10 DEF KeptOK, ReadPastEnd, branch, testcomp, scan, history
<1>11. ASSUME EndFlags, UNCHANGED test_type  PROVE KeptOK'
  BY <1>0, <1>11 DEF KeptOK, EndFlags, Finish, branch, testcomp
<1>12. ASSUME Reset  PROVE KeptOK'
  <2>1. /\ br_instr_count' \in Counts /\ DOMAIN coverage' \subseteq Nat \ {0}
        /\ \A id \in DOMAIN coverage' : coverage'[id] \in Coverages
    BY <1>0, <1>12, CountsAreNat DEF KeptOK, Reset, NoRecords, branch
  <2>2. goal_count' \in Counts /\ goals' \in [0..(goal_count' - 1) -> Bitset]
    <3>1. CASE test_type = "TESTCOMP_COVERAGE"
      <4>1. goal_count' = 0 /\ goals' = NoGoals  BY <1>12, <3>1 DEF Reset
      <4>. QED  BY <4>1, NoGoalsType, CountsAreNat
    <3>2. CASE test_type # "TESTCOMP_COVERAGE"
      BY <1>0, <1>12, <3>2 DEF KeptOK, Reset, testcomp
    <3>. QED  BY <3>1, <3>2
  <2>. QED  BY <1>0, <1>12, <2>1, <2>2 DEF KeptOK, Reset, scan
<1>13. ASSUME GetResult \/ (AssertionFails /\ UNCHANGED test_type)  PROVE KeptOK'
  BY <1>0, <1>13 DEF KeptOK, GetResult, AssertionFails, branch, testcomp, scan, history
<1>14. CASE UNCHANGED vars
  BY <1>0, <1>14 DEF KeptOK, vars, branch, testcomp, scan, history
<1>. QED
  BY <1>1, <1>2, <1>3, <1>5, <1>6, <1>7, <1>8, <1>9, <1>10, <1>11, <1>12, <1>13,
     <1>14 DEF Next

(* The analyser of one test type leaves what the others keep alone.        *)
LEMMA OtherBranch ==
  ASSUME BranchInv, br_instr_count' = br_instr_count, coverage' = coverage,
         test_type' = test_type, test_type # "BRANCH_COVERAGE"
  PROVE  BranchInv'
BY DEF BranchInv

LEMMA OtherGoal ==
  ASSUME test_type' = test_type, test_type # "TESTCOMP_COVERAGE"
  PROVE  GoalInv'
BY DEF GoalInv

(* The first n records and one more.                                       *)
LEMMA SaidNext ==
  ASSUME NEW n \in Nat \ {0}
  PROVE  Said(n) = Said(n - 1) \cup
           (IF InRange(segment.records[n])
            THEN CondsOf(segment.records[n].id, segment.records[n].coverage) ELSE {})
<1>1. 1..n = 1..(n - 1) \cup {n}  OBVIOUS
<1>. DEFINE R(m) == { j \in 1..m : InRange(segment.records[j]) }
<1>2. R(n) = R(n - 1) \cup (IF InRange(segment.records[n]) THEN {n} ELSE {})
  BY <1>1, Zenon
<1>3. \A m : Said(m) = UNION { CondsOf(segment.records[i].id, segment.records[i].coverage) : i \in R(m) }
  BY DEF Said
<1>. HIDE DEF R
<1>. QED  BY <1>2, <1>3

LEMMA FlaggedNext ==
  ASSUME NEW n \in Nat
  PROVE  Flagged(n + 1) = Flagged(n) \cup ({n} \X segment.flags[n])
<1>1. 0..((n + 1) - 1) = 0..(n - 1) \cup {n}  OBVIOUS
<1>. QED  BY <1>1, Zenon DEF Flagged

(* A record dealt with.                                                    *)
LEMMA ScanStep ==
  ASSUME IInv, More, Advance, test_type' = test_type,
         DOMAIN coverage' \subseteq 1..br_instr_count,
         Conditions' = Conditions \cup
           (IF InRange(record) THEN CondsOf(record.id, record.coverage) ELSE {})
  PROVE  BranchInv' /\ GoalInv'
<1>1. /\ position \in Nat \ {0} /\ position + 1 \in 1..(Len(segment.records) + 1)
      /\ Conditions = accepted \cup Said(position - 1)
  BY NextRecord
<1>2. /\ segment' = segment /\ position' = position + 1
      /\ br_instr_count' = br_instr_count /\ accepted' = accepted
      /\ test_type = "BRANCH_COVERAGE" /\ ~Idle /\ ~Idle'
  BY DEF Advance, More, Scanning, history, Idle
<1>3. (Said(position - 1))' = Said(position)  BY <1>1, <1>2 DEF Said, InRange
<1>4. Conditions' = accepted \cup Said(position)
  BY <1>1, SaidNext DEF record
<1>5. BranchInv'  BY <1>1, <1>2, <1>3, <1>4 DEF BranchInv
<1>. QED  BY <1>2, <1>5, OtherGoal

LEMMA KeepsUnions ==
  ASSUME IInv, [Next]_vars
  PROVE  BranchInv' /\ GoalInv'
<1>0. KeptOK /\ BranchInv /\ GoalInv  BY DEF IInv
<1>. USE SegmentsAssumption
<1>1. ASSUME NEW s \in Segments, Idle, BeginScan(s), UNCHANGED test_type
      PROVE  BranchInv' /\ GoalInv'
  <2>1. s \in Segment /\ s.brCount \in Nat /\ s # NoSegment
    BY CountsAreNat DEF Segment
  <2>2. s.records \in Seq(Record)  BY <2>1 DEF Segment
  <2>3. /\ segment' = s /\ position' = 1 /\ coverage' = coverage /\ accepted' = accepted
        /\ test_type = "BRANCH_COVERAGE" /\ Conditions = accepted
        /\ br_instr_count' = IF br_instr_count = 0 THEN s.brCount ELSE br_instr_count
    BY <1>0, <1>1 DEF BeginScan, history, BranchInv
  <2>4. DOMAIN coverage \subseteq 1..br_instr_count'
    BY <1>0, <2>1, <2>3, CountsAreNat DEF BranchInv, KeptOK
  <2>5. position' \in 1..(Len(s.records) + 1)  BY <2>2, <2>3
  <2>6. (Said(position - 1))' = {}  BY <2>3 DEF Said
  <2>7. Conditions' = accepted' \cup (Said(position - 1))'
    BY <2>3, <2>6 DEF Conditions
  <2>8. BranchInv'
    BY <1>1, <2>1, <2>3, <2>4, <2>5, <2>7 DEF BranchInv, Idle
  <2>. QED  BY <1>1, <2>3, <2>8, OtherGoal
<1>2. ASSUME NEW s \in Segments, Idle, BeginFlags(s), UNCHANGED test_type
      PROVE  BranchInv' /\ GoalInv'
  <2>1. s \in Segment /\ s.goalCount \in Nat /\ s # NoSegment
    BY CountsAreNat DEF Segment
  <2>2. /\ segment' = s /\ position' = 0 /\ accepted' = accepted
        /\ test_type = "TESTCOMP_COVERAGE" /\ GoalBits = accepted
        /\ br_instr_count' = br_instr_count /\ coverage' = coverage
        /\ goal_count' \in Nat
    BY <1>0, <1>2, <2>1, CountsAreNat
       DEF BeginFlags, history, GoalInv, branch, GoalCount, KeptOK
  <2>3. GoalBits' = GoalBits
    <3>1. CASE goal_count = 0
      <4>1. DOMAIN goals = {}  BY <1>0, <3>1 DEF KeptOK
      <4>2. goals' = [i \in 0..(s.goalCount - 1) |-> {}]  BY <1>2, <3>1 DEF BeginFlags
      <4>3. \A i \in DOMAIN goals' : {i} \X goals'[i] = {}  BY <4>2
      <4>4. GoalBits' = {}  BY <4>3 DEF GoalBits
      <4>. QED  BY <4>1, <4>4, Zenon DEF GoalBits
    <3>2. CASE goal_count # 0  BY <1>2, <3>2 DEF BeginFlags, GoalBits
    <3>. QED  BY <3>1, <3>2
  <2>4. (Flagged(position))' = {}  BY <2>2 DEF Flagged
  <2>5. GoalInv'
    BY <2>1, <2>2, <2>3, <2>4, RoomAssumption DEF GoalInv, Idle
  <2>. QED  BY <1>0, <1>2, <2>2, <2>5, OtherBranch
<1>3. ASSUME NEW s \in Segments, AddTermination(s), UNCHANGED test_type
      PROVE  BranchInv' /\ GoalInv'
  <2>1. /\ br_instr_count' = br_instr_count /\ coverage' = coverage
        /\ test_type = "ERROR_CALL"
    BY <1>3 DEF AddTermination, branch
  <2>. QED  BY <1>0, <1>3, <2>1, OtherBranch, OtherGoal
<1>4. ASSUME SkipRecord, UNCHANGED test_type  PROVE BranchInv' /\ GoalInv'
  <2>1. Conditions' = Conditions /\ DOMAIN coverage' \subseteq 1..br_instr_count
    BY <1>0, <1>4 DEF SkipRecord, Conditions, BranchInv
  <2>. QED  BY <1>4, <2>1, ScanStep DEF SkipRecord
<1>5. ASSUME MergeRecord \/ EmplaceRecord, UNCHANGED test_type
      PROVE  BranchInv' /\ GoalInv'
  <2>. DEFINE c == IF record.id \in DOMAIN coverage
                   THEN Merged(coverage[record.id], record.coverage) ELSE record.coverage
  <2>1. More /\ Advance /\ InRange(record)
    BY <1>5 DEF MergeRecord, EmplaceRecord
  <2>2. coverage' = [id \in DOMAIN coverage \cup {record.id} |->
                       IF id = record.id THEN c ELSE coverage[id]]
    <3>1. CASE MergeRecord
      <4>1. record.id \in DOMAIN coverage
            /\ coverage' = [coverage EXCEPT ![record.id] = Merged(@, record.coverage)]
        BY <3>1 DEF MergeRecord
      <4>. QED  BY <4>1
    <3>2. CASE EmplaceRecord  BY <3>2 DEF EmplaceRecord
    <3>. QED  BY <1>5, <3>1, <3>2
  <2>3. record.coverage \in Coverages /\ record.id \in Nat \ {0}
    BY <2>1, NextRecord
  <2>4. Conditions' = Conditions \cup CondsOf(record.id, record.coverage)
    BY <1>0, <2>2, <2>3, OneRecord
  <2>5. record.id \in 1..br_instr_count
    BY <1>0, <2>1, <2>3 DEF InRange, KeptOK
  <2>6. DOMAIN coverage' \subseteq 1..br_instr_count
    <3>1. DOMAIN coverage' = DOMAIN coverage \cup {record.id}  BY <2>2
    <3>. QED  BY <1>0, <2>5, <3>1 DEF BranchInv
  <2>. QED  BY <1>5, <2>1, <2>4, <2>6, ScanStep
<1>6. ASSUME EndScan, UNCHANGED test_type  PROVE BranchInv' /\ GoalInv'
  <2>1. /\ test_type = "BRANCH_COVERAGE" /\ ~Idle /\ position > Len(segment.records)
        /\ segment' = NoSegment /\ br_instr_count' = br_instr_count
        /\ coverage' = coverage /\ accepted' = accepted \cup ConditionsOf(segment.records)
    BY <1>0, <1>6, RecordType DEF EndScan, Scanning, More, Finish, branch, KeptOK
  <2>2. /\ position \in 1..(Len(segment.records) + 1)
        /\ Conditions = accepted \cup Said(position - 1)
    BY <1>0, <2>1, Zenon DEF BranchInv
  <2>3. Len(segment.records) \in Nat  BY <1>0, <2>1, RecordType
  <2>4. position - 1 = Len(segment.records)  BY <2>1, <2>2, <2>3
  <2>5. Said(Len(segment.records)) = ConditionsOf(segment.records)
    BY DEF Said, ConditionsOf
  <2>6. Conditions' = accepted'
    BY <2>1, <2>2, <2>4, <2>5 DEF Conditions
  <2>7. BranchInv'  BY <1>0, <2>1, <2>6 DEF BranchInv, Idle
  <2>. QED  BY <1>6, <2>1, <2>7, OtherGoal
<1>7. ASSUME AddFlag, UNCHANGED test_type  PROVE BranchInv' /\ GoalInv'
  <2>1. /\ test_type = "TESTCOMP_COVERAGE" /\ ~Idle /\ ~Idle'
        /\ position < goal_count /\ position < Room /\ position' = position + 1
        /\ goals' = [goals EXCEPT ![position] = goals[position] \cup segment.flags[position]]
        /\ goal_count' = goal_count /\ segment' = segment /\ accepted' = accepted
        /\ br_instr_count' = br_instr_count /\ coverage' = coverage
    BY <1>7 DEF AddFlag, Adding, branch, history, Idle, Or
  <2>2. /\ position \in 0..(goal_count - 1) /\ goals \in [0..(goal_count - 1) -> Bitset]
        /\ position \in Nat /\ goal_count \in Nat
    BY <1>0, <2>1, CountsAreNat DEF KeptOK
  <2>3. GoalBits = accepted \cup Flagged(position)
    BY <1>0, <2>1 DEF GoalInv
  <2>4. GoalBits' = GoalBits \cup ({position} \X segment.flags[position])
    <3>. DEFINE D == 0..(goal_count - 1)
                others == UNION { {i} \X goals[i] : i \in D \ {position} }
    <3>1. DOMAIN goals = D /\ DOMAIN goals' = D /\ position \in D  BY <2>1, <2>2
    <3>2. GoalBits = others \cup ({position} \X goals[position])
      BY <3>1 DEF GoalBits
    <3>3. GoalBits' = others \cup ({position} \X goals'[position])
      BY <2>1, <3>1 DEF GoalBits
    <3>4. goals'[position] = goals[position] \cup segment.flags[position]
      BY <2>1, <3>1
    <3>. HIDE DEF others
    <3>. QED  BY <3>2, <3>3, <3>4
  <2>5. (Flagged(position))' = Flagged(position + 1)  BY <2>1 DEF Flagged
  <2>6. GoalBits' = accepted' \cup (Flagged(position))'
    BY <2>1, <2>2, <2>3, <2>4, <2>5, FlaggedNext
  <2>7. position' <= goal_count' /\ position' <= Room
    BY <2>1, <2>2, RoomAssumption
  <2>8. GoalInv'  BY <2>1, <2>6, <2>7 DEF GoalInv
  <2>. QED  BY <1>0, <1>7, <2>1, <2>8, OtherBranch
<1>8. ASSUME ReadPastEnd, UNCHANGED test_type  PROVE BranchInv' /\ GoalInv'
  <2>1. UNCHANGED <<test_type, br_instr_count, coverage, goal_count, goals, segment,
                    position, accepted>> /\ test_type = "TESTCOMP_COVERAGE"
    BY <1>8 DEF ReadPastEnd, Adding, branch, testcomp, scan, history
  <2>2. GoalBits' = GoalBits /\ (Flagged(position))' = Flagged(position)
    BY <2>1 DEF GoalBits, Flagged
  <2>3. GoalInv'  BY <1>0, <2>1, <2>2 DEF GoalInv, Idle
  <2>. QED  BY <1>0, <2>1, <2>3, OtherBranch
<1>9. ASSUME EndFlags, UNCHANGED test_type  PROVE BranchInv' /\ GoalInv'
  <2>1. /\ test_type = "TESTCOMP_COVERAGE" /\ ~Idle /\ position >= goal_count
        /\ segment' = NoSegment /\ br_instr_count' = br_instr_count
        /\ coverage' = coverage /\ goals' = goals
        /\ accepted' = accepted \cup FlagsOf(segment)
    BY <1>9 DEF EndFlags, Adding, Finish, branch, testcomp
  <2>2. position <= goal_count /\ GoalBits = accepted \cup Flagged(position)
    BY <1>0, <2>1 DEF GoalInv
  <2>3. position = goal_count  BY <1>0, <2>1, <2>2, CountsAreNat DEF KeptOK
  <2>4. Flagged(goal_count) = FlagsOf(segment)  BY DEF Flagged, FlagsOf
  <2>5. GoalBits' = accepted'  BY <2>1, <2>2, <2>3, <2>4 DEF GoalBits
  <2>6. GoalInv'  BY <2>1, <2>5 DEF GoalInv, Idle
  <2>. QED  BY <1>0, <1>9, <2>1, <2>6, OtherBranch
<1>10. ASSUME Reset  PROVE BranchInv' /\ GoalInv'
  <2>1. Idle /\ Idle' /\ accepted' = {} /\ test_type' = test_type
    BY <1>10 DEF Reset, scan, Idle
  <2>2. BranchInv'
    <3>1. CASE test_type = "BRANCH_COVERAGE"
      <4>1. DOMAIN coverage' = {} /\ Conditions' = {}
        BY <1>10, <3>1 DEF Reset, NoRecords, Conditions
      <4>. QED  BY <2>1, <4>1 DEF BranchInv
    <3>2. CASE test_type # "BRANCH_COVERAGE"
      BY <1>0, <1>10, <2>1, <3>2, OtherBranch DEF Reset, branch
    <3>. QED  BY <3>1, <3>2
  <2>3. GoalInv'
    <3>1. CASE test_type = "TESTCOMP_COVERAGE"
      <4>1. GoalBits' = {}  BY <1>10, <3>1 DEF Reset, NoGoals, GoalBits
      <4>. QED  BY <2>1, <4>1 DEF GoalInv
    <3>2. CASE test_type # "TESTCOMP_COVERAGE"  BY <2>1, <3>2, OtherGoal
    <3>. QED  BY <3>1, <3>2
  <2>. QED  BY <2>2, <2>3
<1>11. ASSUME GetResult \/ (AssertionFails /\ UNCHANGED test_type) \/ UNCHANGED vars
       PROVE  BranchInv' /\ GoalInv'
  <2>1. UNCHANGED <<test_type, br_instr_count, coverage, goal_count, goals, segment,
                    position, accepted>>
    BY <1>11 DEF GetResult, AssertionFails, vars, branch, testcomp, scan, history
  <2>2. /\ GoalBits' = GoalBits /\ (Flagged(position))' = Flagged(position)
        /\ Conditions' = Conditions /\ (Said(position - 1))' = Said(position - 1)
    BY <2>1 DEF GoalBits, Flagged, Conditions, Said, InRange
  <2>3. GoalInv'  BY <1>0, <2>1, <2>2 DEF GoalInv, Idle
  <2>4. BranchInv'  BY <1>0, <2>1, <2>2 DEF BranchInv, Idle
  <2>. QED  BY <2>3, <2>4
<1>. QED
  BY <1>1, <1>2, <1>3, <1>4, <1>5, <1>6, <1>7, <1>8, <1>9, <1>10, <1>11 DEF Next

-----------------------------------------------------------------------------
(* The inductive invariant holds for any segments, well formed or not.     *)
THEOREM Invariance == Spec => []IInv
<1>1. Init => IInv  BY InitHolds
<1>2. IInv /\ [Next]_vars => IInv'  BY KeepsTypes, KeepsUnions DEF IInv
<1>. QED  BY <1>1, <1>2, PTL DEF Spec

(* The coverage map is the union of what the in-range records of all       *)
(* segments say (BranchCoverageAnalyzer::add_execution).                   *)
THEOREM NothingLostInMerging == Spec => []MapIsUnion
<1>1. IInv => MapIsUnion  BY DEF IInv, BranchInv, MapIsUnion
<1>. QED  BY <1>1, Invariance, PTL

(* The goals' bytes are the OR of what all segments have for them          *)
(* (TestCompCoverageAnalyzer::add_execution).                              *)
THEOREM NothingLostInGoals == Spec => []GoalsAreUnion
<1>1. IInv => GoalsAreUnion  BY DEF IInv, GoalInv, GoalsAreUnion
<1>. QED  BY <1>1, Invariance, PTL

(* The assertion of get_result: at most two conditions for each branch the *)
(* first segment announced, in whatever order ids and counts come, and for *)
(* every count below 2^31; above it the doubled count wraps (total).       *)
THEOREM CoverageIsAtMostAll == Spec => []CoveredAtMostTotal
<1>1. IInv => CoveredAtMostTotal
  <2>. SUFFICES ASSUME IInv PROVE CoveredAtMostTotal  OBVIOUS
  <2>. DEFINE ids == 1..br_instr_count
  <2>1. DOMAIN coverage \subseteq ids /\ br_instr_count \in Nat
    BY CountsAreNat DEF IInv, BranchInv, KeptOK
  <2>2. IsFiniteSet(ids) /\ Cardinality(ids) = br_instr_count
    BY <2>1, FS_Interval
  <2>3. BothIds \subseteq ids  BY <2>1 DEF BothIds
  <2>4. /\ Cardinality(DOMAIN coverage) \in Nat
        /\ Cardinality(DOMAIN coverage) <= br_instr_count
    BY <2>1, <2>2, FS_Subset, FS_CardinalityType
  <2>5. Cardinality(BothIds) \in Nat /\ Cardinality(BothIds) <= br_instr_count
    BY <2>2, <2>3, FS_Subset, FS_CardinalityType
  <2>6. ASSUME br_instr_count < Uint32 \div 2 PROVE total = 2 * br_instr_count
    <3>1. 2 * br_instr_count \in 0..(Uint32 - 1)  BY <2>1, <2>6, UintAssumption
    <3>2. \A n \in 0..(Uint32 - 1) : n % Uint32 = n  BY UintAssumption
    <3>. QED  BY <3>1, <3>2 DEF total
  <2>. QED  BY <2>1, <2>4, <2>5, <2>6 DEF CoveredAtMostTotal, conditions_covered
<1>. QED  BY <1>1, Invariance, PTL

(* No step but a reset takes anything back.                                *)
LEMMA NothingTakenBack ==
  ASSUME IInv, Next, ~Reset
  PROVE  Conditions \subseteq Conditions' /\ GoalBits \subseteq GoalBits'
<1>0. KeptOK /\ BranchInv /\ GoalInv  BY DEF IInv
<1>1. CASE UNCHANGED <<coverage, goals>>  BY <1>1 DEF Conditions, GoalBits
<1>2. CASE MergeRecord \/ EmplaceRecord
  <2>. DEFINE c == IF record.id \in DOMAIN coverage
                   THEN Merged(coverage[record.id], record.coverage) ELSE record.coverage
  <2>1. More /\ Advance /\ InRange(record)
    BY <1>2 DEF MergeRecord, EmplaceRecord
  <2>2. coverage' = [id \in DOMAIN coverage \cup {record.id} |->
                       IF id = record.id THEN c ELSE coverage[id]]
    <3>1. CASE MergeRecord
      <4>1. record.id \in DOMAIN coverage
            /\ coverage' = [coverage EXCEPT ![record.id] = Merged(@, record.coverage)]
        BY <3>1 DEF MergeRecord
      <4>. QED  BY <4>1
    <3>2. CASE EmplaceRecord  BY <3>2 DEF EmplaceRecord
    <3>. QED  BY <1>2, <3>1, <3>2
  <2>3. Conditions' = Conditions \cup CondsOf(record.id, record.coverage)
    BY <1>0, <2>1, <2>2, NextRecord, OneRecord
  <2>4. GoalBits' = GoalBits  BY <2>1 DEF Advance, testcomp, GoalBits
  <2>. QED  BY <2>3, <2>4
<1>3. ASSUME NEW s \in Segments, Idle, BeginFlags(s)
      PROVE  Conditions' = Conditions /\ GoalBits \subseteq GoalBits'
  <2>1. CASE goal_count = 0
    <3>1. DOMAIN goals = {}  BY <1>0, <2>1 DEF KeptOK
    <3>2. GoalBits = {}  BY <3>1, Zenon DEF GoalBits
    <3>. QED  BY <1>3, <3>2 DEF BeginFlags, branch, Conditions
  <2>2. CASE goal_count # 0
    BY <1>3, <2>2 DEF BeginFlags, branch, Conditions, GoalBits
  <2>. QED  BY <2>1, <2>2
<1>4. ASSUME AddFlag
      PROVE  Conditions' = Conditions /\ GoalBits \subseteq GoalBits'
  <2>1. DOMAIN goals' = DOMAIN goals /\ coverage' = coverage
    BY <1>4 DEF AddFlag, branch
  <2>2. \A i \in DOMAIN goals : goals[i] \subseteq goals'[i]
    BY <1>4 DEF AddFlag, Or
  <2>. QED  BY <2>1, <2>2 DEF Conditions, GoalBits
<1>5. ASSUME \/ \E s \in Segments : BeginScan(s) \/ AddTermination(s)
             \/ SkipRecord \/ EndScan \/ ReadPastEnd \/ EndFlags \/ GetResult
             \/ AssertionFails
      PROVE  UNCHANGED <<coverage, goals>>
  BY <1>5 DEF BeginScan, AddTermination, SkipRecord, Advance, EndScan, Finish,
     ReadPastEnd, EndFlags, GetResult, AssertionFails, branch, testcomp
<1>. QED  BY <1>1, <1>2, <1>3, <1>4, <1>5 DEF Next

(* What was once found covered stays so until the analyser is reset.       *)
THEOREM CoverageOnlyGrows == Spec => CoverageGrows
<1>1. IInv /\ [Next]_vars =>
        [~Reset => Conditions \subseteq Conditions' /\ GoalBits \subseteq GoalBits']_vars
  BY NothingTakenBack
<1>. QED  BY <1>1, Invariance, PTL DEF Spec, CoverageGrows

-----------------------------------------------------------------------------
(* Counting.  While every flag added so far was 0 or 1, so is every byte   *)
(* kept; without goals there are no bytes.                                 *)
HonestInv ==
  IF test_type = "TESTCOMP_COVERAGE"
    THEN honest /\ (Idle \/ \A i \in 0..(position - 1) : segment.flags[i] \subseteq {0})
           => \A i \in DOMAIN goals : goals[i] \subseteq {0}
    ELSE goal_count = 0 /\ goals = NoGoals

(* What the goals' part of the invariant depends on.                       *)
LEMMA HonestStays ==
  ASSUME HonestInv, test_type' = test_type, UNCHANGED <<goal_count, goals>>,
         test_type = "TESTCOMP_COVERAGE" =>
           UNCHANGED <<segment, position, honest>>
  PROVE  HonestInv'
BY DEF HonestInv, Idle

LEMMA KeepsHonest ==
  ASSUME IInv, HonestInv, [Next]_vars
  PROVE  HonestInv'
<1>0. KeptOK /\ GoalInv  BY DEF IInv
<1>1. ASSUME \/ UNCHANGED test_type /\ \E s \in Segments : BeginScan(s) \/ AddTermination(s)
             \/ UNCHANGED test_type /\ (SkipRecord \/ MergeRecord \/ EmplaceRecord)
             \/ UNCHANGED test_type /\ (EndScan \/ ReadPastEnd \/ AssertionFails)
             \/ GetResult \/ UNCHANGED vars
      PROVE  HonestInv'
  <2>1. UNCHANGED <<test_type, goal_count, goals, honest>>
    BY <1>1 DEF BeginScan, AddTermination, SkipRecord, MergeRecord, EmplaceRecord,
       Advance, EndScan, Finish, ReadPastEnd, GetResult, AssertionFails, vars, testcomp, history
  <2>2. test_type = "TESTCOMP_COVERAGE" => UNCHANGED <<segment, position>>
    BY <1>1 DEF BeginScan, AddTermination, SkipRecord, MergeRecord, EmplaceRecord,
       More, Scanning, EndScan, ReadPastEnd, GetResult, AssertionFails, vars, scan
  <2>. QED  BY <2>1, <2>2, HonestStays
<1>2. ASSUME UNCHANGED test_type, NEW s \in Segments, Idle, BeginFlags(s)
      PROVE  HonestInv'
  <2>1. test_type = "TESTCOMP_COVERAGE" /\ honest' = honest
    BY <1>2 DEF BeginFlags, history
  <2>2. CASE goal_count = 0
    <3>1. \A i \in DOMAIN goals' : goals'[i] = {}  BY <1>2, <2>2 DEF BeginFlags
    <3>. QED  BY <1>2, <2>1, <3>1 DEF HonestInv
  <2>3. CASE goal_count # 0
    <3>1. goals' = goals  BY <1>2, <2>3 DEF BeginFlags
    <3>. QED  BY <1>2, <2>1, <3>1 DEF HonestInv
  <2>. QED  BY <2>2, <2>3
<1>3. ASSUME UNCHANGED test_type, AddFlag
      PROVE  HonestInv'
  <2>1. /\ test_type = "TESTCOMP_COVERAGE" /\ ~Idle /\ position \in 0..(goal_count - 1)
        /\ goals' = [goals EXCEPT ![position] = goals[position] \cup segment.flags[position]]
        /\ position' = position + 1 /\ segment' = segment /\ honest' = honest
        /\ DOMAIN goals = 0..(goal_count - 1) /\ position \in Nat
    <3>1. goal_count \in Nat /\ position \in Nat /\ DOMAIN goals = 0..(goal_count - 1)
      BY <1>0, CountsAreNat DEF KeptOK
    <3>. QED  BY <1>3, <3>1 DEF AddFlag, Adding, history, Or
  <2>. SUFFICES ASSUME honest, \A i \in 0..position : segment.flags[i] \subseteq {0},
                       NEW i \in DOMAIN goals
                PROVE  goals'[i] \subseteq {0}
    BY <1>3, <2>1 DEF HonestInv, Idle
  <2>2. \A j \in DOMAIN goals : goals[j] \subseteq {0}
    <3>1. \A j \in 0..(position - 1) : segment.flags[j] \subseteq {0}  BY <2>1
    <3>. QED  BY <2>1, <3>1 DEF HonestInv
  <2>3. segment.flags[position] \subseteq {0}  BY <2>1
  <2>. QED  BY <2>1, <2>2, <2>3
<1>4. ASSUME UNCHANGED test_type, EndFlags
      PROVE  HonestInv'
  <2>1. /\ test_type = "TESTCOMP_COVERAGE" /\ ~Idle /\ position = goal_count
        /\ goals' = goals
        /\ honest' = (honest /\ \A i \in 0..(goal_count - 1) : segment.flags[i] \subseteq {0})
    <3>1. goal_count \in Nat /\ position \in Nat
      BY <1>0, CountsAreNat DEF KeptOK
    <3>2. /\ test_type = "TESTCOMP_COVERAGE" /\ ~Idle /\ position >= goal_count
          /\ goals' = goals
          /\ honest' = (honest /\ \A i \in 0..(goal_count - 1) : segment.flags[i] \subseteq {0})
      BY <1>4 DEF EndFlags, Adding, Finish, testcomp
    <3>3. position <= goal_count  BY <1>0, <3>2 DEF GoalInv
    <3>. QED  BY <3>1, <3>2, <3>3
  <2>. SUFFICES ASSUME honest' PROVE \A i \in DOMAIN goals : goals[i] \subseteq {0}
    BY <2>1, <1>4 DEF HonestInv
  <2>. QED  BY <2>1 DEF HonestInv
<1>5. ASSUME Reset  PROVE HonestInv'
  BY <1>5 DEF Reset, HonestInv, NoGoals, testcomp
<1>. QED
  BY <1>1, <1>2, <1>3, <1>4, <1>5 DEF Next

LEMMA HonestyInvariance == Spec => [](IInv /\ HonestInv)
<1>1. Init => IInv /\ HonestInv
  <2>1. Init => HonestInv  BY DEF Init, HonestInv, NoGoals
  <2>. QED  BY <2>1, InitHolds
<1>2. IInv /\ HonestInv /\ [Next]_vars => (IInv /\ HonestInv)'
  BY KeepsHonest, KeepsTypes, KeepsUnions DEF IInv
<1>. QED  BY <1>1, <1>2, PTL DEF Spec

LEMMA BytesWithBit ==
  ASSUME KeptOK, NEW b
  PROVE  /\ Cardinality(HaveBit(b)) \in Nat
         /\ Cardinality(HaveBit(b)) <= goal_count
<1>1. goal_count \in Nat /\ DOMAIN goals = 0..(goal_count - 1)
  BY CountsAreNat DEF KeptOK
<1>2. IsFiniteSet(DOMAIN goals) /\ Cardinality(DOMAIN goals) = goal_count
  BY <1>1, FS_Interval
<1>3. HaveBit(b) \subseteq DOMAIN goals  BY DEF HaveBit
<1>. QED  BY <1>2, <1>3, FS_Subset, FS_CardinalityType

(* No more goals are counted as hit than the first segment announced, as   *)
(* long as the flags of all segments were 0 or 1 (get_result's sum).       *)
THEOREM HonestFlagsCountOnce == Spec => []HitsAtMostTotal
<1>1. ASSUME IInv, HonestInv PROVE HitsAtMostTotal
  <2>. SUFFICES ASSUME honest, Idle PROVE goals_hit <= goal_count
    BY DEF HitsAtMostTotal
  <2>0. KeptOK  BY <1>1 DEF IInv
  <2>1. \A i \in DOMAIN goals : goals[i] \subseteq {0}
    BY <1>1 DEF HonestInv, NoGoals
  <2>2. \A b : b # 0 => HaveBit(b) = {}  BY <2>1 DEF HaveBit
  <2>3. \A b : b # 0 => Cardinality(HaveBit(b)) = 0  BY <2>2, FS_EmptySet
  <2>4. goals_hit = Cardinality(HaveBit(0))
    <3>1. Cardinality(HaveBit(0)) \in Nat  BY <2>0, BytesWithBit
    <3>. QED  BY <2>3, <3>1 DEF goals_hit
  <2>. QED  BY <2>0, <2>4, BytesWithBit
<1>. QED  BY <1>1, HonestyInvariance, PTL

LEMMA ResultTypes ==
  ASSUME IInv PROVE conditions_covered \in Nat /\ goals_hit \in Nat
<1>1. br_instr_count \in Nat /\ DOMAIN coverage \subseteq 1..br_instr_count
  BY CountsAreNat DEF IInv, KeptOK, BranchInv
<1>2. IsFiniteSet(1..br_instr_count)  BY <1>1, FS_Interval
<1>3. BothIds \subseteq 1..br_instr_count  BY <1>1 DEF BothIds
<1>4. Cardinality(DOMAIN coverage) \in Nat /\ Cardinality(BothIds) \in Nat
  BY <1>1, <1>2, <1>3, FS_Subset, FS_CardinalityType
<1>5. \A b \in 0..7 : Cardinality(HaveBit(b)) \in Nat  BY BytesWithBit DEF IInv
<1>. QED  BY <1>4, <1>5 DEF conditions_covered, goals_hit

(* Every variable of the analysers has its type, whatever is read.         *)
THEOREM TypeCorrect == Spec => []TypeOK
<1>. DEFINE ResultOK == result \in Nat
<1>1. Init => IInv /\ ResultOK
  <2>1. Init => ResultOK  BY DEF Init
  <2>. QED  BY <2>1, InitHolds
<1>2. IInv /\ ResultOK /\ [Next]_vars => (IInv /\ ResultOK)'
  <2>. SUFFICES ASSUME IInv, ResultOK, [Next]_vars PROVE ResultOK'
    BY KeepsTypes, KeepsUnions DEF IInv
  <2>1. CASE GetResult
    <3>1. \/ result' = conditions_covered \/ result' = goals_hit \/ result' \in {0, 1}
      BY <2>1 DEF GetResult, IInv, KeptOK, TestType
    <3>. QED  BY <3>1, ResultTypes
  <2>2. CASE ~GetResult
    BY <2>2 DEF Next, BeginScan, BeginFlags, AddTermination, SkipRecord, MergeRecord,
       EmplaceRecord, Advance, EndScan, Finish, AddFlag, ReadPastEnd, EndFlags,
       AssertionFails, Reset, vars
  <2>. QED  BY <2>1, <2>2
<1>3. IInv /\ ResultOK => TypeOK  BY DEF IInv, TypeOK
<1>. QED  BY <1>1, <1>2, <1>3, PTL DEF Spec
=============================================================================
