----------------------------- MODULE MCAnalyzer -----------------------------
(* Every segment of up to two records over three ids and coverages that    *)
(* exist or do not, announcing 0 to 4 branches, of which 4 is the 2^31 of  *)
(* a uint32_t of eight values; and every segment of two flags, announcing  *)
(* no goal, one, two or more than there is room for, with bytes that are   *)
(* flags or not.                                                           *)
EXTENDS Analyzer
CONSTANT MaxRecords
MCRecords  == [id : 1..3, coverage : 0..3]
MCFlags    == [0..(Room - 1) -> {{}, {0}, {1}, {0, 1}}]
NoFlags    == [i \in 0..(Room - 1) |-> {}]
MCSegments ==
  { [termination |-> ver_error_reached, brCount |-> count, goalCount |-> 0,
     checksum |-> 0, records |-> records, flags |-> NoFlags] :
      count \in 0..4, records \in UNION { [1..n -> MCRecords] : n \in 0..MaxRecords } }
  \cup
  { [termination |-> normal, brCount |-> 0, goalCount |-> count,
     checksum |-> 0, records |-> <<>>, flags |-> flags] :
      count \in {0, 1, 2, Room + 1}, flags \in MCFlags }
=============================================================================
