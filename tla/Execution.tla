----------------------------- MODULE Execution -----------------------------
(***************************************************************************)
(* What one execution of the target promises to the driver, told through   *)
(* the shared memory alone.  The process starts on a segment that still    *)
(* holds the driver's input, clears it, publishes its header, and then     *)
(* adds one condition after another until it dies.  It may die at any      *)
(* instant, so the last condition may be lost or half written.             *)
(***************************************************************************)
EXTENDS Coverage

CONSTANT CondBrCount        \* branches the instrumenter counted

VARIABLES
  phase,         \* "loading", "cleared", "running" or "dead"
  termination,   \* the first byte of the segment
  brCount,       \* the branch count a reader of the segment finds
  covered,       \* the conditions a reader of the segment finds
  certified,     \* whether the stored checksum matches the records
  executed,      \* the conditions the program has really evaluated
  inflight       \* the condition being recorded, as a set of at most one

vars == <<phase, termination, brCount, covered, certified, executed, inflight>>

Conditions == (1..CondBrCount) \X Directions

Init ==
  /\ phase = "loading"
  /\ termination \in Byte
  /\ brCount \in Nat
  /\ covered \in SUBSET (Nat \X Byte)
  /\ certified \in BOOLEAN
  /\ executed = {}
  /\ inflight = {}

Clear ==
  /\ phase = "loading"
  /\ phase' = "cleared"
  /\ termination' = normal
  /\ brCount' = 0
  /\ covered' = {}
  /\ certified' = TRUE
  /\ UNCHANGED <<executed, inflight>>

Publish ==
  /\ phase = "cleared"
  /\ phase' = "running"
  /\ brCount' = CondBrCount
  /\ UNCHANGED <<termination, covered, certified, executed, inflight>>

(* The program evaluates a condition and calls the probe for it. *)
Evaluate(c) ==
  /\ phase = "running"
  /\ executed' = executed \cup {c}
  /\ UNCHANGED <<phase, termination, brCount, covered, certified, inflight>>

Begin(c) ==
  /\ phase = "running"
  /\ inflight = {}
  /\ c \in executed
  /\ inflight' = {c}
  /\ UNCHANGED <<phase, termination, brCount, covered, certified, executed>>

Finish ==
  /\ phase = "running"
  /\ covered' = covered \cup inflight
  /\ inflight' = {}
  /\ UNCHANGED <<phase, termination, brCount, certified, executed>>

Report(t) ==
  /\ phase = "running"
  /\ termination' = t
  /\ UNCHANGED <<phase, brCount, covered, certified, executed, inflight>>

(* The segment is full: the condition is given up and the process leaves. *)
Overflow ==
  /\ phase = "running"
  /\ inflight' = {}
  /\ termination' = medium_overflow
  /\ UNCHANGED <<phase, brCount, covered, certified, executed>>

(* Death with the record in flight either invisible or, when its branch is *)
(* new, visible with the direction FALSE that clear() left in its slot.    *)
Die ==
  /\ phase # "dead"
  /\ phase' = "dead"
  /\ \/ /\ covered' = covered
        /\ certified' \in (IF inflight = {} THEN {certified} ELSE BOOLEAN)
     \/ \E c \in inflight :
          /\ \A d \in Directions : <<c[1], d>> \notin covered
          /\ covered' = covered \cup {<<c[1], covFALSE>>}
          /\ certified' = (c[2] = covFALSE)
  /\ UNCHANGED <<termination, brCount, executed, inflight>>

Next ==
  \/ Clear
  \/ Publish
  \/ \E c \in Conditions : Evaluate(c) \/ Begin(c)
  \/ Finish
  \/ \E t \in {normal, insufficient_data, ver_error_reached} : Report(t)
  \/ Overflow
  \/ Die

Spec == Init /\ [][Next]_vars

=============================================================================
