------------------------------ MODULE MCTarget ------------------------------
(* Model values and input images for the runs of TargetImage.              *)
EXTENDS TargetInv
CONSTANTS t1, t2
OneThread  == {t1}
TwoThreads == {t1, t2}
(* The driver's configuration and input bytes, read as if they were        *)
(* results: with and without something that looks like records.            *)
Zeroes == [i \in SlotIndex |-> ZeroRecord]
ImagesOf(sizes) ==
  UNION { { [size |-> n, termination |-> 4, brCount |-> 512, checksum |-> 256,
             saved |-> 20, slots |-> Zeroes],
            [size |-> n, termination |-> 0, brCount |-> 0, checksum |-> 0,
             saved |-> 24, slots |-> [i \in SlotIndex |-> [id |-> 7, coverage |-> 9]]] }
          : n \in sizes }
(* max_exec_megabytes may be 0; the room for records is then none at all.  *)
WithAndWithoutRoom == ImagesOf({0, 64})
Roomy  == ImagesOf({64})
(* A megabyte, scaled down to a header and not quite two records.          *)
Scaled == ImagesOf({32})
=============================================================================
