----------------------------- MODULE MCTestInput -----------------------------
(* Types of 3 to 7 bits stand for 8 to 128, and the integers are those at  *)
(* the edges of the types: -1, 0, 1 and the ends of every width.           *)
EXTENDS TestInput
MCValues ==
  [n \in Sizes |-> CASE n = 1 -> 8 [] n = 2 -> 16 [] n = 4 -> 32 [] n = 8 -> 64 [] n = 16 -> 128]
Number(kind, v) == [kind |-> kind, value |-> v]
Edges == {-64, -33, -32, -9, -8, -1, 0, 1, 7, 8, 15, 16, 31, 32, 63, 64, 127}
MCTexts ==
  { Number("integer", v) : v \in Edges }
  \cup {Number("fraction", 1), Number("fraction", -2), Number("empty", 0), Number("other", 0)}
=============================================================================
