------------------------------ MODULE TargetInv ------------------------------
(***************************************************************************)
(* Why the records a target leaves behind can be read at any instant: the  *)
(* inductive invariant of Target, in named parts.                          *)
(***************************************************************************)
EXTENDS TargetImage

Writing == {"cov", "id", "store", "both"}
InProbe == {"lock"} \cup Inside

(* Some thread has taken a slot for its branch and not yet filled it.      *)
Reserving(t) == pc[t] \in {"cov", "id"}
Reserved     == \E t \in Threads : Reserving(t)

(* A thread inside a probe holds the mutex, and until main() has started   *)
(* the benchmark there is only the main thread.                            *)
ThreadsInv ==
  /\ \A t \in Threads : pc[t] \in Inside => mutex = t
  /\ \A t \in Threads : pc[t] \in Writing => call[t].hook = "br"
  /\ \A t \in Threads : pc[t] \in InProbe => call[t] \in Calls
  /\ \A t \in Threads : pc[t] \in {"load", "header"} => t = Main
  /\ IF Loaded THEN \A t \in Threads : pc[t] # "unborn"
     ELSE \A t \in Threads \ {Main} : pc[t] = "unborn"

(* Nothing is recorded before the segment is cleared.                      *)
LoadingInv ==
  ~Loaded =>
    /\ index = 0 /\ DOMAIN index_map = {}
    /\ executed = {} /\ completed = {}
    /\ pc[Main] = "header" => slots = Wiped

(* Every branch known to the map has a slot of its own, and the slots in   *)
(* use are as many as the branches, so that there is always one left for a *)
(* branch seen for the first time.                                         *)
CountInv ==
  Cardinality(DOMAIN index_map) = IF Reserved THEN index + 1 ELSE index

(* The slots below index and the map are each other's inverse; the slots   *)
(* from index on are empty, the next one being perhaps reserved.           *)
SlotsInv ==
  Loaded =>
    /\ \A i \in SlotIndex :
         /\ i < index => /\ slots[i].id \in DOMAIN index_map
                         /\ index_map[slots[i].id] = i
                         /\ slots[i].coverage \in Coverages
         /\ i >= index => slots[i] = ZeroRecord
    /\ \A id \in DOMAIN index_map :
         /\ index_map[id] < index => slots[index_map[id]].id = id
         /\ index_map[id] >= index =>
              \E t \in Threads : Reserving(t) /\ call[t].id = id
    /\ \A t \in Threads :
         /\ pc[t] \in Writing => call[t].id \in DOMAIN index_map
         /\ Reserving(t) => index_map[call[t].id] = index
         /\ pc[t] \in {"store", "both"} => index_map[call[t].id] < index

(* What has been completed is on record, and a branch being recorded for   *)
(* the first time is not completed yet.                                    *)
CompletedInv ==
  /\ \A c \in completed :
       /\ c[1] \in DOMAIN index_map /\ index_map[c[1]] < index
       /\ slots[index_map[c[1]]].coverage \in {c[2], BOTH}
  /\ \A t \in Threads :
       pc[t] \in {"cov", "id", "store"} =>
         \A c \in completed : c[1] # call[t].id

(* A condition whose probe is called has been evaluated.                   *)
CalledInv ==
  \A t \in Threads :
    pc[t] \in InProbe /\ call[t].hook = "br"
      => <<call[t].id, call[t].coverage>> \in executed

(* What is on record was executed, the torn record aside.                  *)
ExecutedInv ==
  /\ \A t \in Threads :
       pc[t] = "both" =>
         slots[index_map[call[t].id]].coverage \in Directions \ {call[t].coverage}
  /\ Loaded =>
       \A i \in SlotIndex : \A d \in Directions :
         i < index /\ slots[i].coverage \in {d, BOTH} =>
           \/ <<slots[i].id, d>> \in executed
           \/ \E t \in Threads : /\ pc[t] = "store" /\ call[t].id = slots[i].id
                                 /\ d = covFALSE

(* What was executed is completed or in some thread's hands.               *)
AccountedInv ==
  medium_overflow \in reported \/
    \A c \in executed :
      \/ c \in completed
      \/ \E t \in Threads : pc[t] \in InProbe /\ call[t] = Call("br", c[1], c[2])

IInv == /\ TypeOK /\ ThreadsInv /\ LoadingInv /\ CountInv
        /\ SlotsInv /\ CompletedInv /\ CalledInv /\ ExecutedInv /\ AccountedInv

-----------------------------------------------------------------------------
(* How far the checksum is ahead of the records, for each place at which   *)
(* an update can be cut short.                                             *)
Recorded == SumUpTo(Weight, index)

SumInv ==
  /\ pc[Main] = "header" => checksum = 0 /\ termination = normal
  /\ Loaded =>
       /\ ~Updating => checksum = Recorded
       /\ \A t \in Threads :
            /\ pc[t] = "cov" => checksum = Recorded + call[t].id
            /\ pc[t] = "id" => checksum = Recorded + call[t].id + call[t].coverage
            /\ pc[t] = "store" =>
                 /\ checksum = Recorded + call[t].coverage
                 /\ slots[index_map[call[t].id]].coverage = covFALSE
            /\ pc[t] = "both" =>
                 checksum = Recorded + BOTH - saved_cov(t)
=============================================================================
