----------------------------- MODULE TargetImage ----------------------------
(***************************************************************************)
(* The segment of a target as the analyser reads it: the checksum it       *)
(* computes from the records, against the one the probes kept, and the     *)
(* proof obligation that a target is an Execution.                         *)
(***************************************************************************)
EXTENDS Target, Sums

(* What each record adds to the checksum, and the sum the analyser makes.  *)
Weight == [i \in SlotIndex |-> slots[i].id + slots[i].coverage]
Hash   == SumUpTo(Weight, Cardinality(Scanned))

(* A thread is between the first and the last store of an update.          *)
Updating == \E t \in Threads : pc[t] \in {"cov", "id", "store", "both"}

(* The one update that leaves no trace: a record whose coverage is the     *)
(* FALSE that is there already.                                            *)
Invisible ==
  \E t \in Threads : pc[t] = "store" /\ call[t].coverage = covFALSE

(* The checksum of a stopped target is right exactly when no update was    *)
(* cut short, so that a reader which heeds it is never misled.             *)
ChecksumTellsTorn ==
  Loaded => (Hash = checksum <=> ~Updating \/ Invisible)

(* A reader that finds the checksum right finds nothing but conditions the *)
(* benchmark evaluated: the one record that can lie is a torn one, and its *)
(* checksum tells (target.cpp:24-51, run_analyzer.cpp:28-54).              *)
CertifiedIsExecuted == Loaded /\ Hash = checksum => Covered \subseteq executed

-----------------------------------------------------------------------------
Stopped == proc # "running"

(* While the target runs nobody reads, so the slot being written and the   *)
(* checksum ahead of it count only once it stops.                          *)
InFlightSlots ==
  { index_map[call[t].id] : t \in { u \in Threads : pc[u] = "store" } }

Settled ==
  UNION { CondsOf(slots[i].id, slots[i].coverage) :
            i \in Scanned \ (IF Loaded /\ ~Stopped THEN InFlightSlots ELSE {}) }

phase == IF Stopped THEN "dead"
         ELSE CASE pc[Main] = "load"   -> "loading"
                [] pc[Main] = "header" -> "cleared"
                [] OTHER               -> "running"

inflight ==
  { <<call[t].id, call[t].coverage>> :
      t \in { u \in Threads : pc[u] \in {"cov", "id", "store", "both"} } }

(* Only who reads a stopped target has a use for the checksum.             *)
certified == Hash = checksum \/ (Loaded /\ ~Stopped)

Abstract == INSTANCE Execution WITH covered <- Settled

(* The instrumented process keeps the promises of Execution.               *)
ImplementsExecution == Abstract!Spec
=============================================================================
