--------------------------- MODULE MCInstrumenter ---------------------------
(* Benchmarks of main, with three blocks and any edges to those that are    *)
(* not its entry, and of an error function after it, or declared only.      *)
EXTENDS Instrumenter

(* Selects and goal calls of a block: none, one or more than one of each.  *)
Contents == {<<0, 0>>, <<1, 2>>, <<2, 1>>}

MCBlock(f, entry, succs, content) ==
  [function |-> f, entry |-> entry, conditional |-> succs = {2, 3},
   selects |-> content[1], calls |-> content[2], succs |-> succs]

ErrorBlocks == {<<>>, <<MCBlock("reach_error", TRUE, {}, <<0, 1>>)>>}

MCModules ==
  { [declared |-> IF error = <<>> THEN {"reach_error"} ELSE {},
     blocks |-> [b \in 1..3 |-> MCBlock("main", b = 1, succs[b], content[b])] \o error]
    : succs \in [1..3 -> SUBSET {2, 3}], content \in [1..3 -> Contents],
      error \in ErrorBlocks }
=============================================================================
