------------------------------ MODULE Coverage ------------------------------
(***************************************************************************)
(* Vocabulary shared by the target, the driver and the analysers: the      *)
(* values of condition_coverage and target_termination as they stand in    *)
(* the bytes of the shared memory, and the conditions a coverage record    *)
(* stands for.                                                             *)
(***************************************************************************)
EXTENDS Integers

covFALSE == 0
covTRUE  == 1
BOTH     == 2

Directions == {covFALSE, covTRUE}
Coverages  == Directions \cup {BOTH}

normal            == 0
crash             == 1
timeout           == 2
insufficient_data == 3
ver_error_reached == 4
medium_overflow   == 5

Byte == 0..255

valid_termination(termination) == termination <= medium_overflow

(* A record of zeroes: what clear() leaves, and the end of the records. *)
ZeroRecord == [id |-> 0, coverage |-> covFALSE]

(* What is stored when coverage "new" is seen where "old" is on record. *)
Merge(old, new) == IF old # BOTH /\ old # new THEN BOTH ELSE old

(* A condition is a branch with one of its two outcomes. *)
CondsOf(id, coverage) ==
  {id} \X (IF coverage = BOTH THEN Directions ELSE {coverage})
=============================================================================
