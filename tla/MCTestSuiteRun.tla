--------------------------- MODULE MCTestSuiteRun ---------------------------
(* Tests whose inputs look like results of one kind or another.  One branch *)
(* stands for the program's; the count 2 and the id 2 stand for the 512 and *)
(* the 256 a one-byte input of value 0 is read as.                          *)
EXTENDS TestSuiteRun
CONSTANTS a, b
View(t, count, conditions, right) ==
  [termination |-> t, brCount |-> count, covered |-> conditions, certified |-> right]
TwoTests == {a, b}
OneTest  == {a}
AFirst   == [t \in Tests |-> IF t = a THEN 1 ELSE 2]
(* 4 is the default of max_exec_megabytes, 6 is no termination.            *)
Default  == [t \in Tests |-> View(4, 2, {<<2, covFALSE>>}, TRUE)]
Harmless == [t \in Tests |-> View(6, 0, {}, TRUE)]
Mixed    == [t \in Tests |-> IF t = a THEN View(6, 2, {<<2, covFALSE>>}, TRUE)
                                      ELSE View(4, 0, {}, FALSE)]
=============================================================================
