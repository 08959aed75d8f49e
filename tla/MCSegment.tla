----------------------------- MODULE MCSegment ------------------------------
(* Sizes within one page, 0 among them, as max_exec_megabytes may be 0 and *)
(* no probe then finds room; tests that are empty, that fit, that fill     *)
(* more than the segment but not the page, and that run past it.           *)
EXTENDS Segment
MCSizes   == {0, 24, 40}
MCLengths == {0, 3, 30, 45}
=============================================================================
