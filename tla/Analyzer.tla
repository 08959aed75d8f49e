------------------------------ MODULE Analyzer ------------------------------
(***************************************************************************)
(* The three analysers: what the driver keeps of the segments its targets  *)
(* leave behind, read record by record or byte by byte.  A segment is      *)
(* whatever the target left, its own input included, so nothing is assumed *)
(* of it but that a zero id ends the records.                              *)
(***************************************************************************)
EXTENDS Coverage, Sequences, FiniteSets

CONSTANTS
  Segments,      \* the segments to read
  NoSegment,
  Uint32,        \* values of a uint32_t, 2^32
  Bits,          \* the bits of a byte, 0..7
  Room           \* bytes that can be read after the header

(* A byte as the set of its bits; what follows the header is read as       *)
(* records by one analyser and as flags, a byte for each goal, by another. *)
Bitset   == SUBSET Bits
Counts   == 0..(Uint32 - 1)
Record   == [id : Counts \ {0}, coverage : Byte]
Segment  == [termination : Byte, brCount : Counts, goalCount : Counts,
             checksum : Nat, records : Seq(Record), flags : [0..(Room - 1) -> Bitset]]

TestType == {"BRANCH_COVERAGE", "TESTCOMP_COVERAGE", "ERROR_CALL"}

ASSUME SegmentsAssumption == Segments \subseteq Segment /\ NoSegment \notin Segments
ASSUME UintAssumption == Uint32 \in Nat \ {0} /\ Uint32 % 2 = 0
ASSUME BitsAssumption == Bits \subseteq 0..7 /\ 0 \in Bits
ASSUME RoomAssumption == Room \in Nat

VARIABLES
  test_type,                      \* of the analyser create_run_analyzer made
  br_instr_count, coverage,       \* BranchCoverageAnalyzer
  goal_count, goals,              \* TestCompCoverageAnalyzer
  goal_reached,                   \* ErrorCallAnalyzer
  segment, position, hash,        \* the scan of add_execution
  result,                         \* what get_result() last counted
  crashed,                        \* the driver died of what it read
  accepted,                       \* history: what the segments added said
  honest                          \* history: ... all flags being 0 or 1

branch  == <<br_instr_count, coverage>>
testcomp == <<goal_count, goals>>
scan    == <<segment, position, hash>>
history == <<accepted, honest>>
vars    == <<test_type, branch, testcomp, goal_reached, scan, result, crashed,
             history>>

NoRecords == [id \in {} |-> covFALSE]
NoGoals   == [i \in {} |-> {}]

Init ==
  /\ test_type \in TestType
  /\ br_instr_count = 0 /\ coverage = NoRecords
  /\ goal_count = 0 /\ goals = NoGoals
  /\ goal_reached = FALSE
  /\ segment = NoSegment /\ position = 0 /\ hash = 0
  /\ result = 0 /\ crashed = FALSE
  /\ accepted = {} /\ honest = TRUE

Idle == segment = NoSegment

Finish ==
  /\ segment' = NoSegment /\ position' = 0 /\ hash' = 0
  /\ UNCHANGED <<branch, testcomp, goal_reached, result, crashed>>

-----------------------------------------------------------------------------
(* BranchCoverageAnalyzer.                                                 *)
Bug_AnyCoverage(r) == r.id <= br_instr_count
Bug_AnyId(r)       == r.coverage <= BOTH

(* What a record contributes: an id the target announced and a coverage    *)
(* that exists.                                                            *)
InRange(r) == r.id <= br_instr_count /\ r.coverage <= BOTH

ConditionsOf(records) ==
  UNION { CondsOf(records[i].id, records[i].coverage) :
            i \in { j \in 1..Len(records) : InRange(records[j]) } }

(* add_execution: the first count that is not zero is kept for good.       *)
BeginScan(s) ==
  /\ test_type = "BRANCH_COVERAGE" /\ Idle
  /\ segment' = s /\ position' = 1 /\ hash' = 0
  /\ br_instr_count' = IF br_instr_count = 0 THEN s.brCount ELSE br_instr_count
  /\ UNCHANGED <<coverage, testcomp, goal_reached, result, crashed, history>>

Scanning == test_type = "BRANCH_COVERAGE" /\ ~Idle
More == Scanning /\ position <= Len(segment.records)

record == segment.records[position]

Advance ==
  /\ hash' = hash + record.id + record.coverage
  /\ position' = position + 1
  /\ UNCHANGED <<br_instr_count, testcomp, goal_reached, segment, result,
                 crashed, history>>

SkipRecord == More /\ ~InRange(record) /\ Advance /\ UNCHANGED coverage

Bug_FirstWins(old, new) == old
Bug_LastWins(old, new)  == new
Merged(old, new) == Merge(old, new)

MergeRecord ==
  /\ More /\ InRange(record) /\ record.id \in DOMAIN coverage
  /\ Advance
  /\ coverage' = [coverage EXCEPT ![record.id] = Merged(@, record.coverage)]

EmplaceRecord ==
  /\ More /\ InRange(record) /\ record.id \notin DOMAIN coverage
  /\ Advance
  /\ coverage' = [id \in DOMAIN coverage \cup {record.id} |->
                    IF id = record.id THEN record.coverage ELSE coverage[id]]

(* A wrong checksum makes a warning, and the records stay.                 *)
EndScan ==
  /\ Scanning /\ ~More /\ Finish
  /\ accepted' = accepted \cup ConditionsOf(segment.records)
  /\ UNCHANGED honest

BothIds == { id \in DOMAIN coverage : coverage[id] = BOTH }

conditions_covered == Cardinality(DOMAIN coverage) + Cardinality(BothIds)

(* Twice the count, in the count's own 32 bits.                            *)
total == (2 * br_instr_count) % Uint32

(* A build without NDEBUG aborts here; one with it goes on.                *)
AssertionFails ==
  /\ test_type = "BRANCH_COVERAGE" /\ Idle
  /\ conditions_covered > total
  /\ crashed' = TRUE
  /\ UNCHANGED <<branch, testcomp, goal_reached, scan, result, history>>

-----------------------------------------------------------------------------
(* TestCompCoverageAnalyzer.                                               *)
Bug_LatestCount(s) == s.goalCount
GoalCount(s) == IF goal_count = 0 THEN s.goalCount ELSE goal_count

(* Only the first count makes room for the goals.                          *)
BeginFlags(s) ==
  /\ test_type = "TESTCOMP_COVERAGE" /\ Idle
  /\ segment' = s /\ position' = 0 /\ hash' = 0
  /\ goal_count' = GoalCount(s)
  /\ goals' = IF goal_count = 0 THEN [i \in 0..(s.goalCount - 1) |-> {}] ELSE goals
  /\ UNCHANGED <<branch, goal_reached, result, crashed, history>>

Adding == test_type = "TESTCOMP_COVERAGE" /\ ~Idle

Bug_Overwrites(old, new) == new
Or(old, new) == old \cup new

AddFlag ==
  /\ Adding /\ position < goal_count /\ position < Room
  /\ goals' = [goals EXCEPT ![position] = Or(@, segment.flags[position])]
  /\ position' = position + 1
  /\ UNCHANGED <<branch, goal_count, goal_reached, segment, hash, result,
                 crashed, history>>

(* The count is the segment's own word, and nothing is compared with the   *)
(* size of the segment.                                                    *)
ReadPastEnd ==
  /\ Adding /\ position < goal_count /\ position >= Room
  /\ crashed' = TRUE
  /\ UNCHANGED <<branch, testcomp, goal_reached, scan, result, history>>

FlagsOf(s) == UNION { {i} \X s.flags[i] : i \in 0..(goal_count - 1) }

EndFlags ==
  /\ Adding /\ position >= goal_count /\ Finish
  /\ accepted' = accepted \cup FlagsOf(segment)
  /\ honest' = (honest /\ \A i \in 0..(goal_count - 1) : segment.flags[i] \subseteq {0})

(* The bytes are added up, as if each were 0 or 1: each bit counts for its *)
(* weight in as many bytes as have it.                                     *)
HaveBit(b) == { i \in DOMAIN goals : b \in goals[i] }

goals_hit ==
  Cardinality(HaveBit(0)) + 2 * Cardinality(HaveBit(1))
    + 4 * Cardinality(HaveBit(2)) + 8 * Cardinality(HaveBit(3))
    + 16 * Cardinality(HaveBit(4)) + 32 * Cardinality(HaveBit(5))
    + 64 * Cardinality(HaveBit(6)) + 128 * Cardinality(HaveBit(7))

-----------------------------------------------------------------------------
(* ErrorCallAnalyzer.                                                      *)
AddTermination(s) ==
  /\ test_type = "ERROR_CALL"
  /\ goal_reached' = (goal_reached \/ s.termination = ver_error_reached)
  /\ UNCHANGED <<branch, testcomp, scan, result, crashed, history>>

-----------------------------------------------------------------------------
Reset ==
  /\ Idle
  /\ IF test_type = "BRANCH_COVERAGE" THEN br_instr_count' = 0 /\ coverage' = NoRecords
     ELSE UNCHANGED branch
  /\ IF test_type = "TESTCOMP_COVERAGE" THEN goal_count' = 0 /\ goals' = NoGoals
     ELSE UNCHANGED testcomp
  /\ goal_reached' = (goal_reached /\ test_type # "ERROR_CALL")
  /\ accepted' = {} /\ honest' = TRUE
  /\ UNCHANGED <<test_type, scan, result, crashed>>

GetResult ==
  /\ Idle
  /\ result' = CASE test_type = "BRANCH_COVERAGE"   -> conditions_covered
                 [] test_type = "TESTCOMP_COVERAGE" -> goals_hit
                 [] test_type = "ERROR_CALL"        -> IF goal_reached THEN 1 ELSE 0
  /\ UNCHANGED <<test_type, branch, testcomp, goal_reached, scan, crashed, history>>

Next ==
  /\ ~crashed
  /\ \/ /\ UNCHANGED test_type
        /\ \/ Idle /\ \E s \in Segments : BeginScan(s) \/ BeginFlags(s) \/ AddTermination(s)
           \/ SkipRecord \/ MergeRecord \/ EmplaceRecord \/ EndScan
           \/ AddFlag \/ ReadPastEnd \/ EndFlags \/ AssertionFails
     \/ Reset \/ GetResult

Spec == Init /\ [][Next]_vars

-----------------------------------------------------------------------------
Conditions == UNION { CondsOf(id, coverage[id]) : id \in DOMAIN coverage }
GoalBits   == UNION { {i} \X goals[i] : i \in DOMAIN goals }

(* What is kept from one segment to the next has its type, ...             *)
KeptOK ==
  /\ test_type \in TestType
  /\ br_instr_count \in Counts
  /\ DOMAIN coverage \subseteq Nat \ {0}
  /\ \A id \in DOMAIN coverage : coverage[id] \in Coverages
  /\ goal_count \in Counts /\ goals \in [0..(goal_count - 1) -> Bitset]
  /\ goal_reached \in BOOLEAN /\ crashed \in BOOLEAN /\ honest \in BOOLEAN
  /\ segment \in Segment \cup {NoSegment}
  /\ position \in Nat /\ hash \in Nat

(* ... and so has every variable.                                          *)
TypeOK == KeptOK /\ result \in Nat

(* The assertion of get_result: there are never more conditions covered    *)
(* than the program has, whatever the segments held, as long as the number *)
(* of branches can be doubled; from 2^31 on it cannot, and there           *)
(* AssertionFails (run_analyzer.cpp:70).                                   *)
CoveredAtMostTotal ==
  br_instr_count < Uint32 \div 2 => conditions_covered <= total

(* Merging record by record loses nothing and invents nothing: between two *)
(* executions the map stands for the union of what the segments' in-range  *)
(* records say (run_analyzer.cpp:44-51).                                   *)
MapIsUnion == test_type = "BRANCH_COVERAGE" /\ Idle => Conditions = accepted

(* The same of the goals' bytes: between two executions each is the OR of  *)
(* what the segments had for it since goals were first announced           *)
(* (run_analyzer.cpp:95-112).                                              *)
GoalsAreUnion == test_type = "TESTCOMP_COVERAGE" /\ Idle => GoalBits = accepted

(* No more goals are hit than announced, though the bytes are added up and *)
(* later segments may announce any number: what it takes is that each flag *)
(* was 0 or 1 (run_analyzer.cpp:119-127).                                  *)
HitsAtMostTotal == honest /\ Idle => goals_hit <= goal_count

(* Adding an execution never takes a condition or a goal back, not even    *)
(* halfway through (the driver prints a result that can only have grown).  *)
CoverageGrows ==
  [][ ~Reset => Conditions \subseteq Conditions' /\ GoalBits \subseteq GoalBits' ]_vars
=============================================================================
