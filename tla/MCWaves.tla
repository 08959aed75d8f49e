------------------------------- MODULE MCWaves -------------------------------
(* Limits around every threshold 100, 600, 3100, 15600 times a test count. *)
EXTENDS Waves
MCCounts == {0, 1, 2, 3, 7}
MCLimits ==
  { n * threshold + d : n \in 1..7, threshold \in {0, 50, 100, 600, 3100, 15600, 78100},
                        d \in {0, 1, 5, 23} }
  \cup { n * threshold - 1 : n \in 1..7, threshold \in {100, 600, 3100, 15600, 78100} }
=============================================================================
