---------------------------- MODULE TargetProofs ----------------------------
(***************************************************************************)
(* The records of a target can be read at any instant: proofs, for every   *)
(* number of threads, branches and goals.                                  *)
(***************************************************************************)
EXTENDS TargetInv, FiniteSetTheorems, WellFoundedInduction, TLAPS

USE DEF covFALSE, covTRUE, BOTH, normal, insufficient_data, ver_error_reached,
        medium_overflow

(* The calls a thread can be in are those of a probe, or none.             *)
LEMMA CallTypes ==
  ASSUME NEW c \in Calls \cup {NoCall}
  PROVE  /\ c.id \in Nat /\ c.coverage \in Directions
         /\ c.hook = "br" => c.id \in Branches
         /\ c.hook = "goal" => c.id \in Goals
         /\ c = Call(c.hook, c.id, c.coverage)
<1>. USE CountsAssumption DEF Call, Directions
<1>1. CASE c = NoCall  BY <1>1 DEF NoCall
<1>2. CASE \E id \in Branches, d \in Directions : c = Call("br", id, d)
  BY <1>2 DEF Branches
<1>3. CASE \E id \in Goals : c = Call("goal", id, covTRUE)
  BY <1>3 DEF Goals
<1>4. CASE \E hook \in {"error", "read"} : c = Call(hook, 0, covFALSE)
  BY <1>4
<1>. QED  BY <1>1, <1>2, <1>3, <1>4 DEF Calls

LEMMA InitType == Init => TypeOK
<1>. SUFFICES ASSUME Init PROVE TypeOK  OBVIOUS
<1>1. PICK image \in InputImages :
        /\ size = image.size
        /\ termination = image.termination /\ brCount = image.brCount
        /\ checksum = image.checksum /\ saved = image.saved
        /\ slots = image.slots
  BY DEF Init
<1>2. image \in Images  BY ImagesAssumption
<1>. QED
  BY <1>1, <1>2, ThreadsAssumption, CountsAssumption
     DEF Init, TypeOK, Images, Outside, Idle, NoCall

(* What EXCEPT does to one field of one record.                            *)
LEMMA FieldUpdates ==
  ASSUME NEW s \in [SlotIndex -> [id : Nat, coverage : Byte]],
         NEW k \in SlotIndex, NEW v \in Nat, NEW c \in Byte
  PROVE  /\ [s EXCEPT ![k].id = v] \in [SlotIndex -> [id : Nat, coverage : Byte]]
         /\ \A i \in SlotIndex : [s EXCEPT ![k].id = v][i] =
              IF i = k THEN [id |-> v, coverage |-> s[k].coverage] ELSE s[i]
         /\ [s EXCEPT ![k].coverage = c] \in [SlotIndex -> [id : Nat, coverage : Byte]]
         /\ \A i \in SlotIndex : [s EXCEPT ![k].coverage = c][i] =
              IF i = k THEN [id |-> s[k].id, coverage |-> c] ELSE s[i]
OBVIOUS

(* There is always a slot for a branch that is being recorded.             *)
LEMMA SlotBounds ==
  ASSUME IInv
  PROVE  /\ IsFiniteSet(DOMAIN index_map)
         /\ index \in 0..CondBrCount
         /\ Reserved => index \in SlotIndex
         /\ \A i \in 0..(index - 1) : i \in SlotIndex
<1>1. IsFiniteSet(Branches) /\ Cardinality(Branches) = CondBrCount
  BY CountsAssumption, FS_Interval DEF Branches
<1>2. /\ IsFiniteSet(DOMAIN index_map)
      /\ Cardinality(DOMAIN index_map) <= CondBrCount
  BY <1>1, FS_Subset DEF IInv, TypeOK
<1>. QED
  BY <1>2, CountsAssumption DEF IInv, TypeOK, CountInv, SlotIndex

LEMMA OneInside ==
  ASSUME IInv, NEW t \in Threads, NEW u \in Threads, t # u, pc[t] \in Inside
  PROVE  pc[u] \notin Inside
BY DEF IInv, ThreadsInv

(* A thread that is past its first step shows that main() has loaded.      *)
LEMMA Awake ==
  ASSUME IInv, NEW t \in Threads, pc[t] \notin {"unborn", "load", "header"}
  PROVE  Loaded
BY ThreadsAssumption DEF IInv, ThreadsInv, Loaded

(* Where the record of a thread's branch stands.                           *)
LEMMA SlotOfCall ==
  ASSUME IInv, NEW t \in Threads, pc[t] \in Writing
  PROVE  /\ Loaded
         /\ call[t].id \in Branches /\ call[t].coverage \in Directions
         /\ call[t].id \in DOMAIN index_map
         /\ index_map[call[t].id] \in SlotIndex
         /\ Reserving(t) => index_map[call[t].id] = index
         /\ ~Reserving(t) => index_map[call[t].id] < index
<1>1. Loaded  BY Awake DEF Writing
<1>2. call[t] \in Calls /\ call[t].hook = "br"
  BY DEF IInv, ThreadsInv, Writing, InProbe, Inside
<1>3. call[t].id \in Branches /\ call[t].coverage \in Directions
  BY <1>2, CallTypes
<1>4. /\ call[t].id \in DOMAIN index_map
      /\ Reserving(t) => index_map[call[t].id] = index
      /\ ~Reserving(t) => index_map[call[t].id] < index
  BY <1>1 DEF IInv, SlotsInv, Writing, Reserving
<1>5. index_map[call[t].id] \in Nat  BY <1>4 DEF IInv, TypeOK
<1>6. index_map[call[t].id] \in SlotIndex
  <2>1. CASE Reserving(t)  BY <2>1, <1>4, SlotBounds DEF Reserved
  <2>2. CASE ~Reserving(t)
    BY <2>2, <1>4, <1>5, SlotBounds, CountsAssumption DEF SlotIndex
  <2>. QED  BY <2>1, <2>2
<1>. QED  BY <1>1, <1>3, <1>4, <1>6

(* A branch that is in the map when nobody else is inside is on record.    *)
LEMMA KnownBranch ==
  ASSUME IInv, NEW t \in Threads, In(t, "br"), call[t].id \in DOMAIN index_map
  PROVE  /\ index_map[call[t].id] \in 0..(index - 1)
         /\ index_map[call[t].id] \in SlotIndex
         /\ slots[index_map[call[t].id]].id = call[t].id
         /\ saved_cov(t) \in Coverages
<1>1. Loaded  BY Awake DEF In
<1>2. \A u \in Threads : ~Reserving(u)
  BY OneInside DEF In, Inside, Reserving
<1>3. index_map[call[t].id] \in Nat /\ index \in Nat  BY DEF IInv, TypeOK
<1>4. index_map[call[t].id] < index  BY <1>1, <1>2, <1>3 DEF IInv, SlotsInv
<1>5. index_map[call[t].id] \in SlotIndex
  BY <1>3, <1>4, SlotBounds
<1>. QED
  BY <1>1, <1>3, <1>4, <1>5 DEF IInv, SlotsInv, saved_cov

LEMMA StepType == IInv /\ [Next]_vars => TypeOK'
<1>. SUFFICES ASSUME IInv, [Next]_vars PROVE TypeOK'  OBVIOUS
<1>. TypeOK  BY DEF IInv
<1>. USE DEF TypeOK
<1>. size' \in Nat  BY DEF Next, vars
<1>. USE CountsAssumption, ThreadsAssumption
         DEF Goto, CallExit, Release, Unlocked, Outside, Inside, Idle
<1>1. CASE Clear
  BY <1>1 DEF Clear, Wiped, ZeroRecord, Byte, object, history
<1>2. CASE PutHeader
  BY <1>2 DEF PutHeader, HeaderSize, Byte, object, history
<1>3. CASE SetNormal
  BY <1>3 DEF SetNormal, Byte, object, history
<1>4. CASE Kill
  BY <1>4 DEF Kill, segment, object, history
<1>5. ASSUME NEW t \in Threads, NEW c \in Calls, CallProbe(t, c) PROVE TypeOK'
  BY <1>5, CallTypes DEF CallProbe, segment, object
<1>6. ASSUME NEW t \in Threads, Acquire(t) PROVE TypeOK'
  BY <1>6 DEF Acquire, segment, object, history
<1>7. ASSUME NEW t \in Threads, Overflow(t) PROVE TypeOK'
  BY <1>7 DEF Overflow, ReportAndExit, Byte, object
<1>8. ASSUME NEW t \in Threads, ErrorProbe(t) PROVE TypeOK'
  BY <1>8 DEF ErrorProbe, ReportAndExit, Byte, object
<1>9. ASSUME NEW t \in Threads, ReadExhausted(t) PROVE TypeOK'
  BY <1>9 DEF ReadExhausted, ReportAndExit, Byte, object
<1>10. ASSUME NEW t \in Threads, ReadInput(t) PROVE TypeOK'
  BY <1>10 DEF ReadInput, segment, history
<1>11. ASSUME NEW t \in Threads, GoalProbe(t) PROVE TypeOK'
  BY <1>11, CallTypes DEF GoalProbe, In, object, history
<1>12. ASSUME NEW t \in Threads, NewBranch(t) PROVE TypeOK'
  BY <1>12, CallTypes DEF NewBranch, NextSlot, In, history
<1>13. ASSUME NEW t \in Threads, AddCoverage(t) PROVE TypeOK'
  BY <1>13, CallTypes DEF AddCoverage, WithCoverage, object, history, Directions
<1>14. ASSUME NEW t \in Threads, StoreId(t) PROVE TypeOK'
  <2>1. call[t].id \in Nat /\ index_map[call[t].id] \in SlotIndex
    BY <1>14, SlotOfCall DEF StoreId, Writing, Branches
  <2>2. slots' \in [SlotIndex -> [id : Nat, coverage : Byte]]
    BY <2>1, <1>14, FieldUpdates DEF StoreId
  <2>. QED  BY <2>2, <1>14 DEF StoreId, history
<1>15. ASSUME NEW t \in Threads, StoreCoverage(t) PROVE TypeOK'
  <2>1. /\ call[t].id \in Branches /\ call[t].coverage \in Directions
        /\ call[t].coverage \in Byte /\ index_map[call[t].id] \in SlotIndex
    BY <1>15, SlotOfCall DEF StoreCoverage, Writing, Byte, Directions
  <2>2. slots' \in [SlotIndex -> [id : Nat, coverage : Byte]]
    BY <2>1, <1>15, FieldUpdates DEF StoreCoverage
  <2>3. completed' \subseteq Branches \X Directions
    BY <2>1, <1>15 DEF StoreCoverage, Complete
  <2>. QED
    BY <2>2, <2>3, <1>15 DEF StoreCoverage, object
<1>16. ASSUME NEW t \in Threads, OldBranch(t) PROVE TypeOK'
  BY <1>16, CallTypes DEF OldBranch, Complete, In, segment, object
<1>17. ASSUME NEW t \in Threads, OtherDirection(t) PROVE TypeOK'
  <2>1. saved_cov(t) \in Coverages
    BY <1>17, KnownBranch DEF OtherDirection
  <2>2. checksum' \in Nat
    BY <2>1, <1>17 DEF OtherDirection, MissingFromSum, Coverages, Directions
  <2>. QED  BY <2>2, <1>17 DEF OtherDirection, object, history
<1>18. ASSUME NEW t \in Threads, StoreBoth(t) PROVE TypeOK'
  <2>1. /\ call[t].id \in Branches /\ call[t].coverage \in Directions
        /\ BOTH \in Byte /\ index_map[call[t].id] \in SlotIndex
    BY <1>18, SlotOfCall DEF StoreBoth, Writing, Byte
  <2>2. slots' \in [SlotIndex -> [id : Nat, coverage : Byte]]
    BY <2>1, <1>18, FieldUpdates DEF StoreBoth
  <2>3. completed' \subseteq Branches \X Directions
    BY <2>1, <1>18 DEF StoreBoth, Complete
  <2>. QED
    BY <2>2, <2>3, <1>18 DEF StoreBoth, object
<1>19. ASSUME NEW t \in Threads, UserExit(t) \/ Crash(t) \/ ExitDone(t) PROVE TypeOK'
  BY <1>19 DEF UserExit, Crash, ExitDone, segment, object, history
<1>20. CASE UNCHANGED vars
  BY <1>20 DEF vars, segment, object, history
<1>. QED
  BY <1>1, <1>2, <1>3, <1>4, <1>5, <1>6, <1>7, <1>8, <1>9, <1>10, <1>11, <1>12,
     <1>13, <1>14, <1>15, <1>16, <1>17, <1>18, <1>19, <1>20
     DEF Next, Startup, Probe, Benchmark

-----------------------------------------------------------------------------
(* Steps in which no thread enters or leaves an update of the records.     *)
QuietStep ==
  /\ UNCHANGED <<slots, index, index_map, completed>>
  /\ executed \subseteq executed' /\ Loaded' = Loaded
  /\ \A u \in Threads :
       /\ Reserving(u)' = Reserving(u)
       /\ (pc'[u] = "store") = (pc[u] = "store")
       /\ (pc'[u] = "both") = (pc[u] = "both")
       /\ pc[u] \in Writing => call'[u] = call[u]

LEMMA QuietKeepsRecords ==
  ASSUME IInv, QuietStep
  PROVE  CountInv' /\ SlotsInv' /\ CompletedInv' /\ ExecutedInv'
<1>. USE DEF QuietStep
<1>0. \A u \in Threads : (pc'[u] \in Writing) = (pc[u] \in Writing)
  BY DEF Writing, Reserving
<1>1. CountInv'  BY DEF IInv, CountInv, Reserved
<1>2. SlotsInv'  BY <1>0 DEF IInv, SlotsInv, Writing, Reserving
<1>3. CompletedInv'  BY DEF IInv, CompletedInv, Reserving, Writing
<1>4. ExecutedInv'  BY DEF IInv, ExecutedInv, Writing
<1>. QED  BY <1>1, <1>2, <1>3, <1>4

LEMMA QuietActions ==
  ASSUME IInv, NEW t \in Threads,
         \/ SetNormal \/ Kill \/ UNCHANGED vars
         \/ \E c \in Calls : CallProbe(t, c)
         \/ Acquire(t) \/ Overflow(t) \/ ErrorProbe(t) \/ ReadExhausted(t)
         \/ ReadInput(t) \/ GoalProbe(t) \/ AddCoverage(t)
         \/ UserExit(t) \/ Crash(t) \/ ExitDone(t)
  PROVE  QuietStep
<1>. TypeOK  BY DEF IInv
<1>. USE ThreadsAssumption
         DEF TypeOK, QuietStep, Loaded, Reserving, Writing, Goto, CallExit, Release, Unlocked
<1>1. CASE SetNormal
  BY <1>1 DEF SetNormal, object, history
<1>2. CASE Kill \/ UNCHANGED vars
  BY <1>2 DEF Kill, vars, segment, object, history
<1>3. ASSUME NEW c \in Calls, CallProbe(t, c) PROVE QuietStep
  <2>1. pc[t] \in {"user", "exit"} /\ pc' = [pc EXCEPT ![t] = "lock"]
    BY <1>3 DEF CallProbe
  <2>2. executed \subseteq executed'  BY <1>3 DEF CallProbe
  <2>3. \A u \in Threads : pc[u] \in Writing => call'[u] = call[u]
    BY <1>3 DEF CallProbe
  <2>. QED  BY <2>1, <2>2, <2>3, <1>3 DEF CallProbe, segment, object
<1>4. CASE Acquire(t)
  BY <1>4 DEF Acquire, segment, object, history
<1>5. CASE Overflow(t) \/ ErrorProbe(t) \/ ReadExhausted(t)
  BY <1>5 DEF Overflow, ErrorProbe, ReadExhausted, In, ReportAndExit, object
<1>6. CASE ReadInput(t)
  BY <1>6 DEF ReadInput, In, segment, object, history
<1>7. CASE GoalProbe(t)
  BY <1>7 DEF GoalProbe, In, object, history
<1>8. CASE AddCoverage(t)
  BY <1>8 DEF AddCoverage, object, history
<1>9. CASE UserExit(t) \/ Crash(t) \/ ExitDone(t)
  BY <1>9 DEF UserExit, Crash, ExitDone, segment, object, history
<1>. QED
  BY <1>1, <1>2, <1>3, <1>4, <1>5, <1>6, <1>7, <1>8, <1>9

-----------------------------------------------------------------------------
(* The parts of the invariant about the threads.                           *)
LEMMA StepThreads == IInv /\ [Next]_vars => ThreadsInv' /\ CalledInv'
<1>. SUFFICES ASSUME IInv, [Next]_vars PROVE ThreadsInv' /\ CalledInv'  OBVIOUS
<1>. TypeOK /\ ThreadsInv /\ CalledInv  BY DEF IInv
<1>. USE ThreadsAssumption
         DEF TypeOK, ThreadsInv, CalledInv, Loaded, Inside, InProbe, Writing,
            Goto, CallExit, Release, Unlocked
<1>1. CASE Clear
  BY <1>1 DEF Clear, object, history
<1>2. CASE PutHeader
  BY <1>2 DEF PutHeader, object, history
<1>3. CASE SetNormal
  BY <1>3 DEF SetNormal, object, history
<1>4. CASE Kill \/ UNCHANGED vars
  BY <1>4 DEF Kill, vars, segment, object, history
<1>5. ASSUME NEW t \in Threads, NEW c \in Calls, CallProbe(t, c)
      PROVE  ThreadsInv' /\ CalledInv'
  BY <1>5 DEF CallProbe, segment, object
<1>6. ASSUME NEW t \in Threads, Acquire(t) PROVE ThreadsInv' /\ CalledInv'
  BY <1>6 DEF Acquire, MutexIsFree, segment, object, history
<1>7. ASSUME NEW t \in Threads, Overflow(t) \/ ErrorProbe(t) \/ ReadExhausted(t)
      PROVE  ThreadsInv' /\ CalledInv'
  BY <1>7 DEF Overflow, ErrorProbe, ReadExhausted, In, ReportAndExit, object
<1>8. ASSUME NEW t \in Threads, ReadInput(t) PROVE ThreadsInv' /\ CalledInv'
  BY <1>8 DEF ReadInput, In, segment, object, history
<1>9. ASSUME NEW t \in Threads, GoalProbe(t) PROVE ThreadsInv' /\ CalledInv'
  BY <1>9 DEF GoalProbe, In, object, history
<1>10. ASSUME NEW t \in Threads, NewBranch(t) \/ OtherDirection(t)
       PROVE  ThreadsInv' /\ CalledInv'
  BY <1>10 DEF NewBranch, OtherDirection, In, object, history
<1>11. ASSUME NEW t \in Threads, AddCoverage(t) \/ StoreId(t)
       PROVE  ThreadsInv' /\ CalledInv'
  BY <1>11 DEF AddCoverage, StoreId, object, history
<1>12. ASSUME NEW t \in Threads, StoreCoverage(t) \/ StoreBoth(t)
       PROVE  ThreadsInv' /\ CalledInv'
  <2>1. pc[t] \in Inside /\ Release(t) /\ UNCHANGED <<executed, leaving>>
    BY <1>12 DEF StoreCoverage, StoreBoth
  <2>. QED  BY <2>1
<1>13. ASSUME NEW t \in Threads, OldBranch(t) PROVE ThreadsInv' /\ CalledInv'
  BY <1>13 DEF OldBranch, In, segment, object
<1>14. ASSUME NEW t \in Threads, UserExit(t) \/ Crash(t) \/ ExitDone(t)
       PROVE  ThreadsInv' /\ CalledInv'
  BY <1>14 DEF UserExit, Crash, ExitDone, segment, object, history
<1>. QED
  BY <1>1, <1>2, <1>3, <1>4, <1>5, <1>6, <1>7, <1>8, <1>9, <1>10, <1>11, <1>12,
     <1>13, <1>14 DEF Next, Startup, Probe, Benchmark

LEMMA StepLoading == IInv /\ [Next]_vars => LoadingInv'
<1>. SUFFICES ASSUME IInv, [Next]_vars, ~Loaded' PROVE LoadingInv'
  BY DEF LoadingInv
<1>. TypeOK /\ ThreadsInv /\ LoadingInv  BY DEF IInv
<1>. USE ThreadsAssumption
         DEF TypeOK, LoadingInv, Loaded, Goto, CallExit
<1>1. CASE Clear
  BY <1>1 DEF Clear, object, history
<1>2. CASE PutHeader
  BY <1>2 DEF PutHeader
<1>3. CASE SetNormal
  BY <1>3 DEF SetNormal
<1>4. CASE Kill \/ UNCHANGED vars
  BY <1>4 DEF Kill, vars, segment, object, history
<1>5. ASSUME NEW t \in Threads,
             Probe(t) \/ UserExit(t) \/ \E c \in Calls : CallProbe(t, c)
      PROVE  FALSE
  <2>1. pc[t] \notin {"unborn", "load", "header"}
    BY <1>5 DEF Probe, UserExit, CallProbe, Acquire, Overflow, ErrorProbe,
                ReadExhausted, ReadInput, GoalProbe, NewBranch, AddCoverage,
                StoreId, StoreCoverage, OldBranch, OtherDirection, StoreBoth, In
  <2>2. Loaded /\ pc[Main] \notin {"load", "header"}  BY <2>1, Awake
  <2>3. pc'[Main] \notin {"load", "header"}
    BY <2>2, <1>5 DEF Probe, UserExit, CallProbe, Acquire, Overflow, ErrorProbe,
                ReadExhausted, ReadInput, GoalProbe, NewBranch, AddCoverage,
                StoreId, StoreCoverage, OldBranch, OtherDirection, StoreBoth,
                Release, Unlocked, ReportAndExit
  <2>. QED  BY <2>3
<1>6. ASSUME NEW t \in Threads, Crash(t) \/ ExitDone(t) PROVE LoadingInv'
  BY <1>6 DEF Crash, ExitDone, segment, object, history
<1>. QED
  BY <1>1, <1>2, <1>3, <1>4, <1>5, <1>6 DEF Next, Startup, Benchmark

LEMMA StepAccounted == IInv /\ [Next]_vars => AccountedInv'
<1>. SUFFICES ASSUME IInv, [Next]_vars, medium_overflow \notin reported'
              PROVE  AccountedInv'
  BY DEF AccountedInv
<1>. TypeOK /\ ThreadsInv /\ AccountedInv  BY DEF IInv
<1>. USE ThreadsAssumption
         DEF TypeOK, AccountedInv, Inside, InProbe, Goto, CallExit, Release, Unlocked
<1>1. CASE Clear
  BY <1>1 DEF Clear, object, history, ThreadsInv, Loaded
<1>2. CASE PutHeader
  BY <1>2 DEF PutHeader, object, history, LoadingInv, IInv, Loaded
<1>3. CASE SetNormal
  BY <1>3 DEF SetNormal, object, history
<1>4. CASE Kill \/ UNCHANGED vars
  BY <1>4 DEF Kill, vars, segment, object, history
<1>5. ASSUME NEW t \in Threads, NEW c \in Calls, CallProbe(t, c)
      PROVE  AccountedInv'
  <2>1. pc[t] \in {"user", "exit"} /\ pc'[t] = "lock" /\ call'[t] = c
    BY <1>5 DEF CallProbe
  <2>2. \A u \in Threads \ {t} : pc'[u] = pc[u] /\ call'[u] = call[u]
    BY <1>5 DEF CallProbe
  <2>3. c = Call(c.hook, c.id, c.coverage)  BY CallTypes
  <2>4. UNCHANGED <<completed, reported>>  BY <1>5 DEF CallProbe
  <2>5. \A e \in executed' : e \in executed \/ c = Call("br", e[1], e[2])
    BY <2>3, <1>5 DEF CallProbe, Call
  <2>. QED  BY <2>1, <2>2, <2>4, <2>5
<1>6. ASSUME NEW t \in Threads, Acquire(t) PROVE AccountedInv'
  BY <1>6 DEF Acquire, segment, object, history
<1>7. ASSUME NEW t \in Threads,
             Overflow(t) \/ ErrorProbe(t) \/ ReadExhausted(t) \/ ReadInput(t)
               \/ GoalProbe(t)
      PROVE  AccountedInv'
  <2>1. call[t].hook # "br" /\ UNCHANGED <<executed, completed>>
    BY <1>7 DEF Overflow, ErrorProbe, ReadExhausted, ReadInput, GoalProbe, In,
                ReportAndExit, history
  <2>2. \A u \in Threads \ {t} : pc'[u] = pc[u] /\ call'[u] = call[u]
    BY <1>7 DEF Overflow, ErrorProbe, ReadExhausted, ReadInput, GoalProbe,
                ReportAndExit
  <2>3. reported \subseteq reported'
    BY <1>7 DEF Overflow, ErrorProbe, ReadExhausted, ReadInput, GoalProbe,
                ReportAndExit, history
  <2>. QED  BY <2>1, <2>2, <2>3 DEF Call
<1>8. ASSUME NEW t \in Threads,
             NewBranch(t) \/ AddCoverage(t) \/ StoreId(t) \/ OtherDirection(t)
      PROVE  AccountedInv'
  BY <1>8 DEF NewBranch, AddCoverage, StoreId, OtherDirection, In, object, history
<1>9. ASSUME NEW t \in Threads, StoreCoverage(t) \/ OldBranch(t) \/ StoreBoth(t)
      PROVE  AccountedInv'
  <2>1. /\ completed' = completed \cup {<<call[t].id, call[t].coverage>>}
        /\ UNCHANGED <<executed, reported>>
    BY <1>9 DEF StoreCoverage, OldBranch, StoreBoth, Complete
  <2>2. \A u \in Threads \ {t} : pc'[u] = pc[u] /\ call'[u] = call[u]
    BY <1>9 DEF StoreCoverage, OldBranch, StoreBoth
  <2>3. ASSUME NEW e \in executed, call[t] = Call("br", e[1], e[2])
        PROVE  e \in completed'
    BY <2>1, <2>3 DEF Call
  <2>. QED  BY <2>1, <2>2, <2>3
<1>10. ASSUME NEW t \in Threads, UserExit(t) \/ Crash(t) \/ ExitDone(t)
       PROVE  AccountedInv'
  BY <1>10 DEF UserExit, Crash, ExitDone, segment, object, history
<1>. QED
  BY <1>1, <1>2, <1>3, <1>4, <1>5, <1>6, <1>7, <1>8, <1>9, <1>10
     DEF Next, Startup, Probe, Benchmark

-----------------------------------------------------------------------------
(* The steps that touch the records.                                       *)
RecordsInv == CountInv /\ SlotsInv /\ CompletedInv /\ ExecutedInv

LEMMA StartupRecords ==
  ASSUME IInv, Startup PROVE RecordsInv'
<1>. TypeOK  BY DEF IInv
<1>1. ~Loaded  BY DEF Startup, Clear, PutHeader, Loaded
<1>2. /\ index = 0 /\ DOMAIN index_map = {} /\ completed = {}
      /\ \A t \in Threads : pc[t] \in {"unborn", "load", "header"}
  BY <1>1, ThreadsAssumption DEF IInv, LoadingInv, ThreadsInv, Loaded
<1>3. UNCHANGED <<index, index_map, completed>>
  BY DEF Startup, Clear, PutHeader, object, history
<1>4. \A t \in Threads : pc'[t] \in {"unborn", "load", "header", "user"}
  BY <1>2 DEF Startup, Clear, PutHeader, Goto, TypeOK
<1>5. CountInv'
  BY <1>2, <1>3, <1>4, FS_EmptySet DEF CountInv, Reserved, Reserving
<1>6. CompletedInv'  BY <1>2, <1>3, <1>4 DEF CompletedInv
<1>7. Loaded' => slots' = Wiped
  BY <1>1 DEF Startup, Clear, PutHeader, Loaded, IInv, LoadingInv, Goto, TypeOK,
              ThreadsInv, Wiped
<1>8. SlotsInv'
  BY <1>2, <1>3, <1>4, <1>7 DEF SlotsInv, Wiped, Writing, Reserving, SlotIndex
<1>9. ExecutedInv'
  BY <1>2, <1>3, <1>4, <1>7, CountsAssumption DEF ExecutedInv, Wiped, SlotIndex
<1>. QED  BY <1>5, <1>6, <1>8, <1>9 DEF RecordsInv

LEMMA NewBranchRecords ==
  ASSUME IInv, NEW t \in Threads, NewBranch(t) PROVE RecordsInv'
<1>. DEFINE b == call[t].id
<1>. TypeOK  BY DEF IInv
<1>1. Loaded /\ pc[t] = "body" /\ call[t].hook = "br"
  BY Awake DEF NewBranch, In
<1>2. \A u \in Threads : pc[u] \notin Writing
  BY <1>1, OneInside DEF Inside, Writing
<1>3. b \in Branches
  BY <1>1, CallTypes DEF TypeOK, Call, NoCall
<1>4. /\ pc' = [pc EXCEPT ![t] = "cov"] /\ call' = call
      /\ UNCHANGED <<index, slots, completed, executed>> /\ Loaded'
  BY <1>1 DEF NewBranch, Goto, history, Loaded, TypeOK
<1>5. /\ b \notin DOMAIN index_map /\ DOMAIN index_map' = DOMAIN index_map \cup {b}
      /\ index_map'[b] = index
      /\ \A id \in DOMAIN index_map : index_map'[id] = index_map[id]
  BY DEF NewBranch, NextSlot
<1>6. /\ pc'[t] = "cov"
      /\ \A u \in Threads : u # t => pc'[u] = pc[u] /\ pc'[u] \notin Writing
  BY <1>2, <1>4 DEF TypeOK
<1>7. \A u \in Threads : Reserving(u)' <=> u = t
  BY <1>6 DEF Reserving, Writing
<1>8. CountInv'
  <2>1. Cardinality(DOMAIN index_map) = index
    BY <1>2 DEF IInv, CountInv, Reserved, Reserving, Writing
  <2>2. Cardinality(DOMAIN index_map \cup {b}) = index + 1
    BY <2>1, <1>5, SlotBounds, FS_AddElement
  <2>3. Reserved'  BY <1>7 DEF Reserved
  <2>. QED  BY <2>2, <2>3, <1>4, <1>5 DEF CountInv
<1>9. \A id \in DOMAIN index_map : index_map[id] < index
  BY <1>1, <1>2 DEF IInv, SlotsInv, TypeOK, Reserving, Writing
<1>10. SlotsInv'
  <2>1. \A i \in SlotIndex :
          /\ i < index => /\ slots[i].id \in DOMAIN index_map'
                          /\ index_map'[slots[i].id] = i
                          /\ slots[i].coverage \in Coverages
          /\ i >= index => slots[i] = ZeroRecord
    BY <1>1, <1>5 DEF IInv, SlotsInv
  <2>2. \A id \in DOMAIN index_map' :
          /\ index_map'[id] < index => slots[index_map'[id]].id = id
          /\ index_map'[id] >= index => id = b
    BY <1>1, <1>5, <1>9 DEF IInv, SlotsInv, TypeOK
  <2>. QED  BY <2>1, <2>2, <1>4, <1>5, <1>6, <1>7 DEF SlotsInv, Writing
<1>11. CompletedInv'
  BY <1>4, <1>5, <1>6 DEF IInv, CompletedInv, Writing
<1>12. ExecutedInv'
  BY <1>1, <1>2, <1>4, <1>6 DEF IInv, ExecutedInv, Writing
<1>. QED  BY <1>8, <1>10, <1>11, <1>12 DEF RecordsInv

LEMMA StoreIdRecords ==
  ASSUME IInv, NEW t \in Threads, StoreId(t) PROVE RecordsInv'
<1>. DEFINE b == call[t].id
<1>. TypeOK  BY DEF IInv
<1>1. /\ Loaded /\ pc[t] = "id" /\ b \in Branches /\ b \in DOMAIN index_map
      /\ index_map[b] = index /\ index \in SlotIndex
  BY SlotOfCall DEF StoreId, Writing, Reserving
<1>2. \A u \in Threads : u # t => pc[u] \notin Writing
  BY <1>1, OneInside DEF Inside, Writing
<1>3. /\ pc' = [pc EXCEPT ![t] = "store"] /\ call' = call /\ index' = index + 1
      /\ UNCHANGED <<index_map, completed, executed>> /\ Loaded'
  BY <1>1 DEF StoreId, Goto, history, Loaded, TypeOK
<1>4. /\ slots'[index].id = b /\ slots'[index].coverage = slots[index].coverage
      /\ \A i \in SlotIndex : i # index => slots'[i] = slots[i]
  BY <1>1, FieldUpdates DEF StoreId, TypeOK, Branches
<1>5. /\ pc'[t] = "store"
      /\ \A u \in Threads : u # t => pc'[u] = pc[u] /\ pc'[u] \notin Writing
  BY <1>2, <1>3 DEF TypeOK
<1>6. slots[index].coverage = covFALSE
  BY <1>1 DEF IInv, SlotsInv, TypeOK, ZeroRecord
<1>7. index \in Nat /\ \A id \in DOMAIN index_map : index_map[id] \in Nat
  BY DEF TypeOK
<1>8. CountInv'
  <2>1. Reserved /\ ~Reserved'
    BY <1>1, <1>5 DEF Reserved, Reserving, Writing
  <2>. QED  BY <2>1, <1>3 DEF IInv, CountInv
<1>9. \A id \in DOMAIN index_map : id # b => index_map[id] < index
  <2>. SUFFICES ASSUME NEW id \in DOMAIN index_map, index_map[id] >= index
                PROVE  id = b
    BY <1>7
  <2>1. PICK u \in Threads : Reserving(u) /\ call[u].id = id
    BY <1>1 DEF IInv, SlotsInv
  <2>. QED  BY <2>1, <1>2 DEF Reserving, Writing
<1>10. SlotsInv'
  <2>1. ASSUME NEW i \in SlotIndex
        PROVE  /\ i < index + 1 => /\ slots'[i].id \in DOMAIN index_map
                                   /\ index_map[slots'[i].id] = i
                                   /\ slots'[i].coverage \in Coverages
               /\ i >= index + 1 => slots'[i] = ZeroRecord
    <3>1. CASE i = index
      BY <3>1, <1>1, <1>4, <1>6, <1>7 DEF Coverages, Directions
    <3>2. CASE i # index
      <4>1. i \in Int  BY CountsAssumption DEF SlotIndex
      <4>. QED  BY <4>1, <3>2, <1>1, <1>4, <1>7 DEF IInv, SlotsInv
    <3>. QED  BY <3>1, <3>2
  <2>2. ASSUME NEW id \in DOMAIN index_map
        PROVE  index_map[id] < index + 1 /\ slots'[index_map[id]].id = id
    <3>1. CASE id = b  BY <3>1, <1>1, <1>4, <1>7
    <3>2. CASE id # b
      <4>1. index_map[id] < index /\ index_map[id] \in SlotIndex
        BY <3>2, <1>7, <1>9, SlotBounds
      <4>. QED  BY <4>1, <1>1, <1>4, <1>7 DEF IInv, SlotsInv
    <3>. QED  BY <3>1, <3>2
  <2>3. \A u \in Threads : pc'[u] \in Writing => u = t /\ ~Reserving(u)'
    BY <1>5 DEF Reserving, Writing
  <2>4. ASSUME NEW id \in DOMAIN index_map' PROVE ~(index_map'[id] >= index')
    BY <2>2, <1>3, <1>7
  <2>5. ASSUME NEW u \in Threads
        PROVE  /\ pc'[u] \in Writing => call'[u].id \in DOMAIN index_map'
               /\ ~Reserving(u)'
               /\ pc'[u] \in {"store", "both"} => index_map'[call'[u].id] < index'
    BY <2>3, <1>1, <1>3, <1>7 DEF Writing, Reserving
  <2>. QED  BY <2>1, <2>2, <2>4, <2>5, <1>3 DEF SlotsInv
<1>11. CompletedInv'
  <2>1. ASSUME NEW c \in completed
        PROVE  /\ c[1] \in DOMAIN index_map /\ index_map[c[1]] < index + 1
               /\ slots'[index_map[c[1]]].coverage \in {c[2], BOTH}
               /\ c[1] # b
    <3>1. c[1] # b /\ c[1] \in DOMAIN index_map /\ index_map[c[1]] < index
      BY <1>1 DEF IInv, CompletedInv
    <3>2. index_map[c[1]] \in SlotIndex  BY <3>1, <1>7, SlotBounds
    <3>. QED  BY <3>1, <3>2, <1>4, <1>7 DEF IInv, CompletedInv
  <2>. QED  BY <2>1, <1>3, <1>5 DEF CompletedInv, Writing
<1>12. ExecutedInv'
  <2>1. ASSUME NEW i \in SlotIndex, NEW d \in Directions,
               i < index + 1, slots'[i].coverage \in {d, BOTH}
        PROVE  \/ <<slots'[i].id, d>> \in executed
               \/ call[t].id = slots'[i].id /\ d = covFALSE
    <3>1. CASE i = index
      BY <3>1, <2>1, <1>4, <1>6 DEF Directions
    <3>2. CASE i # index
      <4>1. i < index  BY <3>2, <2>1, <1>7, CountsAssumption DEF SlotIndex
      <4>. QED
        BY <4>1, <3>2, <2>1, <1>1, <1>2, <1>4 DEF IInv, ExecutedInv, Writing
    <3>. QED  BY <3>1, <3>2
  <2>. QED  BY <2>1, <1>3, <1>5 DEF ExecutedInv, Writing
<1>. QED  BY <1>8, <1>10, <1>11, <1>12 DEF RecordsInv

(* StoreCoverage and StoreBoth overwrite the coverage of one record and    *)
(* leave the probe.                                                        *)
LEMMA CoverageRecords ==
  ASSUME IInv, NEW t \in Threads, StoreCoverage(t) \/ StoreBoth(t)
  PROVE  RecordsInv'
<1>. DEFINE b == call[t].id
            k == index_map[b]
            new == IF pc[t] = "both" THEN BOTH ELSE call[t].coverage
<1>. TypeOK  BY DEF IInv
<1>1. /\ Loaded /\ pc[t] \in {"store", "both"}
      /\ b \in Branches /\ call[t].coverage \in Directions
      /\ b \in DOMAIN index_map /\ k \in SlotIndex /\ k < index
  BY SlotOfCall DEF StoreCoverage, StoreBoth, Writing, Reserving
<1>2. \A u \in Threads : u # t => pc[u] \notin Writing
  BY <1>1, OneInside DEF Inside, Writing
<1>3. /\ \A u \in Threads : pc'[u] \notin Writing
      /\ UNCHANGED <<index, index_map, executed>> /\ Loaded'
      /\ completed' = completed \cup {<<b, call[t].coverage>>}
  <2>1. Release(t) /\ Complete(t) /\ UNCHANGED <<index, index_map, executed>>
    BY DEF StoreCoverage, StoreBoth, object
  <2>2. pc' = [pc EXCEPT ![t] = IF t \in leaving THEN "exit" ELSE "user"]
    BY <2>1 DEF Release, Unlocked, Goto
  <2>3. Loaded' /\ \A u \in Threads : pc'[u] \notin Writing
    BY <2>2, <1>1, <1>2 DEF Loaded, Writing, TypeOK
  <2>. QED  BY <2>1, <2>3 DEF Complete
<1>4. new \in Byte /\ slots' = [slots EXCEPT ![k].coverage = new]
  BY <1>1 DEF StoreCoverage, StoreBoth, Byte, Directions
<1>5. /\ slots'[k].id = slots[k].id /\ slots'[k].coverage = new
      /\ \A i \in SlotIndex : i # k => slots'[i] = slots[i]
  <2>. HIDE DEF new, k
  <2>. QED  BY <1>1, <1>4, FieldUpdates DEF TypeOK
<1>6. slots[k].id = b /\ \A i \in SlotIndex : slots'[i].id = slots[i].id
  BY <1>1, <1>5 DEF IInv, SlotsInv
<1>7. index \in Nat /\ \A id \in DOMAIN index_map : index_map[id] \in Nat
  BY DEF TypeOK
<1>8. new \in Coverages /\ new \in {call[t].coverage, BOTH}
  BY <1>1 DEF Coverages
<1>9. CountInv'
  BY <1>1, <1>2, <1>3 DEF IInv, CountInv, Reserved, Reserving, Writing
<1>10. \A id \in DOMAIN index_map : index_map[id] < index
  <2>1. \A u \in Threads : ~Reserving(u)
    BY <1>1, <1>2 DEF Reserving, Writing
  <2>. QED  BY <2>1, <1>1, <1>7 DEF IInv, SlotsInv
<1>11. SlotsInv'
  <2>. HIDE DEF new, k
  <2>1. \A i \in SlotIndex :
          /\ i < index => /\ slots'[i].id \in DOMAIN index_map
                          /\ index_map[slots'[i].id] = i
                          /\ slots'[i].coverage \in Coverages
          /\ i >= index => slots'[i] = ZeroRecord
    <3>. SUFFICES ASSUME NEW i \in SlotIndex
                  PROVE  /\ i < index => /\ slots'[i].id \in DOMAIN index_map
                                         /\ index_map[slots'[i].id] = i
                                         /\ slots'[i].coverage \in Coverages
                         /\ i >= index => slots'[i] = ZeroRecord
      OBVIOUS
    <3>1. CASE i = k
      <4>1. k \in Int  BY <1>1, CountsAssumption DEF SlotIndex
      <4>. QED  BY <4>1, <3>1, <1>1, <1>5, <1>6, <1>7, <1>8 DEF IInv, SlotsInv
    <3>2. CASE i # k
      BY <3>2, <1>1, <1>5 DEF IInv, SlotsInv
    <3>. QED  BY <3>1, <3>2
  <2>2. \A id \in DOMAIN index_map : slots'[index_map[id]].id = id
    BY <1>1, <1>6, <1>7, <1>10, SlotBounds DEF IInv, SlotsInv
  <2>3. \A id \in DOMAIN index_map : ~(index_map[id] >= index)
    BY <1>7, <1>10
  <2>. QED  BY <2>1, <2>2, <2>3, <1>3 DEF SlotsInv, Writing, Reserving
<1>12. CompletedInv'
  <2>. HIDE DEF new, k
  <2>1. ASSUME NEW c \in completed
        PROVE  /\ c[1] \in DOMAIN index_map /\ index_map[c[1]] < index
               /\ slots'[index_map[c[1]]].coverage \in {c[2], BOTH}
    <3>1. /\ c[1] \in DOMAIN index_map /\ index_map[c[1]] < index
          /\ slots[index_map[c[1]]].coverage \in {c[2], BOTH}
          /\ pc[t] = "store" => c[1] # b
      BY <1>1 DEF IInv, CompletedInv
    <3>2. index_map[c[1]] \in SlotIndex  BY <3>1, <1>7, SlotBounds
    <3>3. CASE index_map[c[1]] # k  BY <3>1, <3>2, <3>3, <1>5
    <3>4. CASE index_map[c[1]] = k
      <4>1. c[1] = b
        BY <3>1, <3>4, <1>1, <1>6 DEF IInv, SlotsInv
      <4>2. new = BOTH  BY <4>1, <3>1, <1>1 DEF new
      <4>. QED  BY <4>2, <3>1, <3>4, <1>5
    <3>. QED  BY <3>3, <3>4
  <2>2. slots'[index_map[b]].coverage \in {call[t].coverage, BOTH}
    BY <1>5, <1>8 DEF k
  <2>3. index_map[b] < index  BY <1>1 DEF k
  <2>. QED  BY <2>1, <2>2, <2>3, <1>1, <1>3 DEF CompletedInv, Writing
<1>13. ExecutedInv'
  <2>. HIDE DEF new, k
  <2>1. <<b, call[t].coverage>> \in executed
    BY <1>1 DEF IInv, ThreadsInv, CalledInv, InProbe, Inside, Writing
  <2>2. ASSUME NEW i \in SlotIndex, NEW d \in Directions,
               i < index, slots'[i].coverage \in {d, BOTH}
        PROVE  <<slots'[i].id, d>> \in executed
    <3>1. CASE i # k
      <4>1. slots[i].id # b
        BY <3>1, <2>2, <1>1 DEF IInv, SlotsInv, k
      <4>. QED
        BY <4>1, <3>1, <2>2, <1>1, <1>2, <1>5 DEF IInv, ExecutedInv, Writing
    <3>2. CASE i = k /\ pc[t] = "store"
      <4>1. d = call[t].coverage
        BY <3>2, <2>2, <1>1, <1>5 DEF new, Directions
      <4>. QED  BY <4>1, <3>2, <2>1, <1>6
    <3>3. CASE i = k /\ pc[t] = "both"
      <4>1. /\ slots[k].coverage \in Directions
            /\ slots[k].coverage # call[t].coverage
        BY <3>3 DEF IInv, ExecutedInv, k
      <4>2. <<b, slots[k].coverage>> \in executed
        BY <4>1, <3>3, <1>1, <1>2, <1>6 DEF IInv, ExecutedInv, Writing
      <4>3. d = call[t].coverage \/ d = slots[k].coverage
        BY <4>1, <1>1 DEF Directions
      <4>. QED  BY <4>2, <4>3, <3>3, <2>1, <1>6
    <3>. QED  BY <3>1, <3>2, <3>3, <1>1
  <2>. QED  BY <2>2, <1>3 DEF ExecutedInv, Writing
<1>. QED  BY <1>9, <1>11, <1>12, <1>13 DEF RecordsInv

LEMMA OldBranchRecords ==
  ASSUME IInv, NEW t \in Threads, OldBranch(t) PROVE RecordsInv'
<1>. DEFINE b == call[t].id
<1>. TypeOK  BY DEF IInv
<1>1. /\ Loaded /\ In(t, "br") /\ b \in DOMAIN index_map
      /\ index_map[b] < index /\ saved_cov(t) \in {call[t].coverage, BOTH}
  BY Awake, KnownBranch DEF OldBranch, NothingNew, In, TypeOK
<1>2. \A u \in Threads : pc[u] \notin Writing
  BY <1>1, OneInside DEF In, Inside, Writing
<1>3. /\ completed' = completed \cup {<<b, call[t].coverage>>}
      /\ UNCHANGED <<index, index_map, slots, executed>>
  BY DEF OldBranch, Complete, segment, object
<1>4. Loaded' /\ \A u \in Threads : pc'[u] \notin Writing
  <2>1. pc' = [pc EXCEPT ![t] = IF t \in leaving THEN "exit" ELSE "user"]
    BY DEF OldBranch, Release, Unlocked, Goto
  <2>. QED  BY <2>1, <1>1, <1>2 DEF Loaded, Writing, TypeOK
<1>5. CountInv'
  BY <1>2, <1>3, <1>4 DEF IInv, CountInv, Reserved, Reserving, Writing
<1>6. SlotsInv'
  BY <1>1, <1>2, <1>3, <1>4 DEF IInv, SlotsInv, Reserving, Writing
<1>7. CompletedInv'
  BY <1>1, <1>3, <1>4 DEF IInv, CompletedInv, Writing, saved_cov
<1>8. ExecutedInv'
  BY <1>1, <1>2, <1>3, <1>4 DEF IInv, ExecutedInv, Writing
<1>. QED  BY <1>5, <1>6, <1>7, <1>8 DEF RecordsInv

LEMMA OtherDirectionRecords ==
  ASSUME IInv, NEW t \in Threads, OtherDirection(t) PROVE RecordsInv'
<1>. DEFINE b == call[t].id
<1>. TypeOK  BY DEF IInv
<1>1. /\ Loaded /\ In(t, "br") /\ b \in DOMAIN index_map
      /\ index_map[b] < index /\ saved_cov(t) \in Directions \ {call[t].coverage}
  BY Awake, KnownBranch DEF OtherDirection, NothingNew, In, Coverages, TypeOK
<1>2. \A u \in Threads : pc[u] \notin Writing
  BY <1>1, OneInside DEF In, Inside, Writing
<1>3. UNCHANGED <<index, index_map, slots, executed, completed, call>>
  BY DEF OtherDirection, object, history
<1>4. /\ Loaded' /\ pc'[t] = "both"
      /\ \A u \in Threads : u # t => pc'[u] \notin Writing
  BY <1>1, <1>2 DEF OtherDirection, Goto, Loaded, Writing, TypeOK
<1>5. CountInv'
  BY <1>2, <1>3, <1>4 DEF IInv, CountInv, Reserved, Reserving, Writing
<1>6. SlotsInv'
  BY <1>1, <1>2, <1>3, <1>4 DEF IInv, SlotsInv, Reserving, Writing
<1>7. CompletedInv'
  BY <1>3, <1>4 DEF IInv, CompletedInv, Writing
<1>8. ExecutedInv'
  BY <1>1, <1>2, <1>3, <1>4 DEF IInv, ExecutedInv, Writing, saved_cov
<1>. QED  BY <1>5, <1>6, <1>7, <1>8 DEF RecordsInv

-----------------------------------------------------------------------------
LEMMA InitInv == Init => IInv
<1>. SUFFICES ASSUME Init PROVE IInv  OBVIOUS
<1>1. TypeOK  BY InitType
<1>2. DOMAIN index_map = {} /\ index = 0 /\ completed = {} /\ executed = {}
      /\ pc[Main] = "load" /\ \A t \in Threads : pc[t] \in {"load", "unborn"}
  BY ThreadsAssumption DEF Init
<1>3. CountInv  BY <1>2, FS_EmptySet DEF CountInv, Reserved, Reserving
<1>4. ThreadsInv
  BY ThreadsAssumption DEF Init, ThreadsInv, Loaded, Inside, Writing, InProbe
<1>. QED
  BY <1>1, <1>2, <1>3, <1>4
     DEF IInv, LoadingInv, SlotsInv, CompletedInv, CalledInv, ExecutedInv,
         AccountedInv, Loaded, Inside, Writing, InProbe

LEMMA StepInv == IInv /\ [Next]_vars => IInv'
<1>. SUFFICES ASSUME IInv, [Next]_vars PROVE IInv'  OBVIOUS
<1>1. RecordsInv'
  <2>1. CASE Startup  BY <2>1, StartupRecords
  <2>2. CASE SetNormal \/ Kill \/ UNCHANGED vars
    <3>1. QuietStep  BY <2>2, ThreadsAssumption, QuietActions
    <3>. QED  BY <3>1, QuietKeepsRecords DEF RecordsInv
  <2>3. ASSUME NEW t \in Threads, Probe(t) \/ Benchmark(t) \/ ExitDone(t)
        PROVE  RecordsInv'
    <3>1. CASE NewBranch(t)  BY <3>1, NewBranchRecords
    <3>2. CASE StoreId(t)  BY <3>2, StoreIdRecords
    <3>3. CASE StoreCoverage(t) \/ StoreBoth(t)  BY <3>3, CoverageRecords
    <3>4. CASE OldBranch(t)  BY <3>4, OldBranchRecords
    <3>5. CASE OtherDirection(t)  BY <3>5, OtherDirectionRecords
    <3>6. CASE \/ \E c \in Calls : CallProbe(t, c)
               \/ Acquire(t) \/ Overflow(t) \/ ErrorProbe(t) \/ ReadExhausted(t)
               \/ ReadInput(t) \/ GoalProbe(t) \/ AddCoverage(t)
               \/ UserExit(t) \/ Crash(t) \/ ExitDone(t)
      <4>1. QuietStep  BY <3>6, QuietActions
      <4>. QED  BY <4>1, QuietKeepsRecords DEF RecordsInv
    <3>. QED
      BY <2>3, <3>1, <3>2, <3>3, <3>4, <3>5, <3>6 DEF Probe, Benchmark
  <2>. QED  BY <2>1, <2>2, <2>3 DEF Next
<1>. QED
  BY <1>1, StepType, StepThreads, StepLoading, StepAccounted DEF IInv, RecordsInv

(* The inductive invariant holds of every target.                          *)
THEOREM Invariance == Spec => []IInv
<1>1. Init => IInv  BY InitInv
<1>2. IInv /\ [Next]_vars => IInv'  BY StepInv
<1>. QED  BY <1>1, <1>2, PTL DEF Spec

(* Every variable of every target has its type.                            *)
THEOREM TypeCorrect == Spec => []TypeOK
<1>1. IInv => TypeOK  BY DEF IInv
<1>. QED  BY <1>1, Invariance, PTL

(* The slots a reader gets to are those below index.                       *)
LEMMA ScannedSlots ==
  ASSUME IInv, Loaded PROVE Scanned = 0..(index - 1)
<1>. TypeOK /\ SlotsInv  BY DEF IInv
<1>1. \A i \in SlotIndex : slots[i].id # 0 <=> i < index
  <2>. SUFFICES ASSUME NEW i \in SlotIndex PROVE slots[i].id # 0 <=> i < index
    OBVIOUS
  <2>1. i \in Int /\ index \in Nat  BY CountsAssumption DEF SlotIndex, TypeOK
  <2>2. CASE i < index
    BY <2>1, <2>2 DEF SlotsInv, TypeOK, Branches
  <2>3. CASE i >= index
    BY <2>1, <2>3 DEF SlotsInv, ZeroRecord
  <2>. QED  BY <2>1, <2>2, <2>3
<1>2. index \in 0..CondBrCount  BY SlotBounds
<1>. QED
  BY <1>1, <1>2, CountsAssumption DEF Scanned, SlotIndex

(* Wherever a target is stopped, a reader that ends at the first zero id   *)
(* has met every record, and no branch twice.                              *)
THEOREM ContiguousRecords == Spec => []RecordsAreContiguous
<1>1. ASSUME IInv PROVE RecordsAreContiguous
  <2>. SUFFICES ASSUME Loaded, NEW i \in SlotIndex, NEW j \in SlotIndex, i < j
                PROVE  /\ slots[i].id = 0 => slots[j] = ZeroRecord
                       /\ slots[i].id # 0 => slots[i].id # slots[j].id
    BY DEF RecordsAreContiguous
  <2>. TypeOK /\ SlotsInv  BY <1>1 DEF IInv
  <2>1. i \in Int /\ j \in Int /\ index \in Nat
    BY CountsAssumption DEF SlotIndex, TypeOK
  <2>2. \A k \in SlotIndex : k < index => slots[k].id \in Branches
    BY DEF SlotsInv, TypeOK
  <2>3. 0 \notin Branches  BY DEF Branches
  <2>4. CASE j < index
    BY <2>1, <2>2, <2>3, <2>4 DEF SlotsInv
  <2>5. CASE j >= index
    BY <2>1, <2>2, <2>3, <2>5 DEF SlotsInv, ZeroRecord
  <2>. QED  BY <2>1, <2>4, <2>5
<1>. QED  BY <1>1, Invariance, PTL

LEMMA CompletedOnRecord ==
  ASSUME IInv PROVE CompletedIsRecorded
<1>. TypeOK  BY DEF IInv
<1>. SUFFICES ASSUME NEW c \in completed PROVE c \in Covered
  BY DEF CompletedIsRecorded
<1>1. Loaded  BY DEF IInv, LoadingInv
<1>. DEFINE k == index_map[c[1]]
<1>2. /\ c[1] \in DOMAIN index_map /\ k < index /\ k \in Nat
      /\ slots[k].coverage \in {c[2], BOTH} /\ slots[k].id = c[1]
  BY <1>1 DEF IInv, CompletedInv, SlotsInv, TypeOK
<1>3. k \in Scanned  BY <1>1, <1>2, ScannedSlots DEF TypeOK
<1>4. c = <<c[1], c[2]>> /\ c[2] \in Directions  BY DEF TypeOK
<1>5. c \in CondsOf(slots[k].id, slots[k].coverage)
  BY <1>2, <1>4 DEF CondsOf
<1>. QED  BY <1>3, <1>5 DEF Covered

(* No condition whose probe has returned is ever lost.                     *)
THEOREM NothingCompletedIsLost == Spec => []CompletedIsRecorded
<1>1. IInv => CompletedIsRecorded  BY CompletedOnRecord
<1>. QED  BY <1>1, Invariance, PTL

(* The only condition on record that was not evaluated is the FALSE of a   *)
(* record cut in half.                                                     *)
LEMMA CoveredIsExecuted ==
  ASSUME IInv, Loaded, NEW c \in Covered
  PROVE  \/ c \in executed
         \/ \E t \in Threads : pc[t] = "store" /\ c = <<call[t].id, covFALSE>>
<1>. TypeOK /\ SlotsInv  BY DEF IInv
<1>1. PICK i \in Scanned : c \in CondsOf(slots[i].id, slots[i].coverage)
  BY DEF Covered
<1>2. i \in SlotIndex /\ i < index
  BY <1>1, ScannedSlots, SlotBounds DEF TypeOK
<1>3. slots[i].coverage \in Coverages  BY <1>2 DEF SlotsInv
<1>4. PICK d \in Directions : c = <<slots[i].id, d>> /\ slots[i].coverage \in {d, BOTH}
  BY <1>1, <1>3 DEF CondsOf, Coverages
<1>. QED  BY <1>2, <1>4 DEF IInv, ExecutedInv

THEOREM NothingElseIsRecorded == Spec => []OnlyTornIsExtra
<1>1. IInv => OnlyTornIsExtra  BY CoveredIsExecuted DEF OnlyTornIsExtra
<1>. QED  BY <1>1, Invariance, PTL

(* Between probes the records are exactly what was evaluated.              *)
THEOREM QuietTargetIsExact == Spec => []QuietIsExact
<1>1. ASSUME IInv PROVE QuietIsExact
  <2>. SUFFICES ASSUME Loaded, medium_overflow \notin reported,
                       \A t \in Threads : pc[t] \in {"user", "exit"}
                PROVE  Covered = executed
    BY DEF QuietIsExact
  <2>1. Covered \subseteq executed  BY <1>1, CoveredIsExecuted
  <2>2. executed \subseteq completed
    BY <1>1 DEF IInv, AccountedInv, InProbe, Inside
  <2>3. completed \subseteq Covered
    BY <1>1, CompletedOnRecord DEF CompletedIsRecorded
  <2>. QED  BY <2>1, <2>2, <2>3
<1>. QED  BY <1>1, Invariance, PTL

-----------------------------------------------------------------------------
(* Partial sums, for every function and every number of steps, by          *)
(* induction over sets of natural numbers.                                 *)

(* Induction, stated of a set: the least number outside of it would be 0   *)
(* or the successor of one inside.                                         *)
LEMMA InductiveSet ==
  ASSUME NEW S, 0 \in S, \A n \in Nat : n \in S => n + 1 \in S
  PROVE  Nat \subseteq S
<1> SUFFICES ASSUME Nat \ S # {} PROVE FALSE  OBVIOUS
<1>1. OpToRel(<, Nat) = { p \in Nat \X Nat : p[1] < p[2] }  BY Zenon DEF OpToRel
<1>2. IsWellFoundedOn({ p \in Nat \X Nat : p[1] < p[2] }, Nat)
  BY <1>1, NatLessThanWellFounded, Zenon
<1>3. PICK n \in Nat \ S : \A m \in Nat \ S :
        <<m, n>> \notin { p \in Nat \X Nat : p[1] < p[2] }
  BY <1>2, WFMin
<1>4. n # 0 /\ n - 1 \in Nat /\ n - 1 < n  BY <1>3
<1>5. n - 1 \in S  BY <1>3, <1>4
<1>6. (n - 1) + 1 \in S  BY <1>4, <1>5
<1> QED  BY <1>3, <1>6

(* The first n + 1 partial sums, as a function in its own right.           *)
IsTable(g, f, n) ==
  g = [m \in 0..n |-> IF m = 0 THEN 0 ELSE g[m - 1] + f[m - 1]]

LEMMA TablesExist == ASSUME NEW f PROVE \A n \in Nat : \E g : IsTable(g, f, n)
<1> DEFINE S == { n \in Nat : \E g : IsTable(g, f, n) }
<1>1. 0 \in S
  <2>1. IsTable([m \in 0..0 |-> 0], f, 0)  BY DEF IsTable
  <2> QED  BY <2>1
<1>2. ASSUME NEW n \in Nat, n \in S PROVE n + 1 \in S
  <2>1. PICK g : IsTable(g, f, n)  BY <1>2
  <2> DEFINE h == [m \in 0..(n + 1) |-> IF m = n + 1 THEN g[n] + f[n] ELSE g[m]]
  <2>2. ASSUME NEW m \in 0..(n + 1)
        PROVE  h[m] = IF m = 0 THEN 0 ELSE h[m - 1] + f[m - 1]
    <3>1. CASE m = n + 1
      <4>1. m - 1 = n /\ n \in 0..(n + 1) /\ n # n + 1 /\ m # 0  BY <3>1
      <4>2. h[n] = g[n] /\ h[m] = g[n] + f[n]  BY <3>1, <4>1
      <4> QED  BY <4>1, <4>2
    <3>2. CASE m # n + 1
      <4>1. m \in 0..n /\ h[m] = g[m]  BY <3>2
      <4>2. g[m] = IF m = 0 THEN 0 ELSE g[m - 1] + f[m - 1]  BY <2>1, <4>1 DEF IsTable
      <4>3. m # 0 => m - 1 \in 0..(n + 1) /\ m - 1 # n + 1  BY <4>1
      <4>4. m # 0 => h[m - 1] = g[m - 1]  BY <4>3
      <4> QED  BY <4>1, <4>2, <4>4
    <3> QED  BY <3>1, <3>2
  <2>3. h = [m \in 0..(n + 1) |-> h[m]]  OBVIOUS
  <2> HIDE DEF h
  <2>4. IsTable(h, f, n + 1)  BY <2>2, <2>3 DEF IsTable
  <2> QED  BY <2>4
<1> HIDE DEF S
<1>3. Nat \subseteq S  BY <1>1, <1>2, InductiveSet
<1> QED  BY <1>3 DEF S

LEMMA TablesAgree ==
  ASSUME NEW f, NEW n \in Nat, NEW k \in Nat, NEW g, NEW h,
         IsTable(g, f, n), IsTable(h, f, k)
  PROVE  \A m \in Nat : m <= n /\ m <= k => g[m] = h[m]
<1> DEFINE S == { m \in Nat : m <= n /\ m <= k => g[m] = h[m] }
<1>1. ASSUME NEW m \in Nat
      PROVE  /\ m <= n => g[m] = IF m = 0 THEN 0 ELSE g[m - 1] + f[m - 1]
             /\ m <= k => h[m] = IF m = 0 THEN 0 ELSE h[m - 1] + f[m - 1]
  <2>1. /\ m <= n => m \in 0..n
        /\ m <= k => m \in 0..k
    OBVIOUS
  <2> QED  BY <2>1 DEF IsTable
<1>2. 0 \in S  BY <1>1
<1>3. ASSUME NEW m \in Nat, m \in S PROVE m + 1 \in S
  <2>1. (m + 1) - 1 = m /\ m + 1 # 0 /\ m + 1 \in Nat  OBVIOUS
  <2>2. m + 1 <= n /\ m + 1 <= k => g[m] = h[m]  BY <1>3
  <2> QED  BY <1>1, <2>1, <2>2
<1> HIDE DEF S
<1>4. Nat \subseteq S  BY <1>2, <1>3, InductiveSet
<1> QED  BY <1>4 DEF S

(* The recursive definition defines what it says.                          *)
LEMMA PartialSumsDef ==
  ASSUME NEW f
  PROVE  PartialSums(f) =
           [n \in Nat |-> IF n = 0 THEN 0 ELSE PartialSums(f)[n - 1] + f[n - 1]]
<1> DEFINE T(n) == CHOOSE g : IsTable(g, f, n)
           s == [n \in Nat |-> T(n)[n]]
<1>1. \A n \in Nat : IsTable(T(n), f, n)  BY TablesExist
<1>2. ASSUME NEW n \in Nat
      PROVE  s[n] = IF n = 0 THEN 0 ELSE s[n - 1] + f[n - 1]
  <2>1. s[n] = T(n)[n]  OBVIOUS
  <2>2. n \in 0..n  OBVIOUS
  <2> HIDE DEF T
  <2>3. T(n)[n] = IF n = 0 THEN 0 ELSE T(n)[n - 1] + f[n - 1]
    BY <1>1, <2>2 DEF IsTable
  <2>4. CASE n = 0  BY <2>1, <2>3, <2>4
  <2>5. CASE n # 0
    <3>1. n - 1 \in Nat /\ n - 1 <= n /\ n - 1 <= n - 1  BY <2>5
    <3>2. T(n)[n - 1] = T(n - 1)[n - 1]  BY <1>1, <3>1, TablesAgree
    <3>3. s[n - 1] = T(n - 1)[n - 1]  BY <3>1
    <3> QED  BY <2>1, <2>3, <2>5, <3>2, <3>3
  <2> QED  BY <2>4, <2>5
<1>3. s = [n \in Nat |-> s[n]]  OBVIOUS
<1> HIDE DEF s
<1>4. s = [n \in Nat |-> IF n = 0 THEN 0 ELSE s[n - 1] + f[n - 1]]  BY <1>2, <1>3
<1> DEFINE IsSum(g) == g = [n \in Nat |-> IF n = 0 THEN 0 ELSE g[n - 1] + f[n - 1]]
<1>5. IsSum(s)  BY <1>4
<1>6. PartialSums(f) = CHOOSE g : IsSum(g)  BY DEF PartialSums
<1> HIDE DEF IsSum
<1>7. IsSum(PartialSums(f))  BY <1>5, <1>6
<1> QED  BY <1>7 DEF IsSum

(* One step of the loop.                                                   *)
LEMMA SumStep ==
  ASSUME NEW f
  PROVE  /\ SumUpTo(f, 0) = 0
         /\ \A n \in Nat : SumUpTo(f, n + 1) = SumUpTo(f, n) + f[n]
<1>1. \A n \in Nat : PartialSums(f)[n] =
        IF n = 0 THEN 0 ELSE PartialSums(f)[n - 1] + f[n - 1]
  BY PartialSumsDef
<1>2. ASSUME NEW n \in Nat
      PROVE  PartialSums(f)[n + 1] = PartialSums(f)[n] + f[n]
  <2>1. n + 1 \in Nat /\ n + 1 # 0 /\ (n + 1) - 1 = n  OBVIOUS
  <2> QED  BY <1>1, <2>1
<1>3. QED  BY <1>1, <1>2 DEF SumUpTo

(* Sums of integers are integers; of flags, at most as many as there are.  *)
LEMMA SumOfIntegers ==
  ASSUME NEW f, NEW n \in Nat, \A i \in 0..(n - 1) : f[i] \in Int
  PROVE  SumUpTo(f, n) \in Int
<1> DEFINE S == { m \in Nat : m <= n => SumUpTo(f, m) \in Int }
<1>1. 0 \in S  BY SumStep
<1>2. ASSUME NEW m \in Nat, m \in S PROVE m + 1 \in S
  <2> SUFFICES ASSUME m + 1 <= n PROVE SumUpTo(f, m + 1) \in Int  OBVIOUS
  <2>1. m <= n /\ m \in 0..(n - 1)  OBVIOUS
  <2> QED  BY <1>2, <2>1, SumStep
<1> HIDE DEF S
<1>3. Nat \subseteq S  BY <1>1, <1>2, InductiveSet
<1> QED  BY <1>3 DEF S

LEMMA SumOfFlags ==
  ASSUME NEW f, NEW n \in Nat, \A i \in 0..(n - 1) : f[i] \in {0, 1}
  PROVE  SumUpTo(f, n) \in 0..n
<1> DEFINE S == { m \in Nat : m <= n => SumUpTo(f, m) \in 0..m }
<1>1. 0 \in S  BY SumStep
<1>2. ASSUME NEW m \in Nat, m \in S PROVE m + 1 \in S
  <2> SUFFICES ASSUME m + 1 <= n PROVE SumUpTo(f, m + 1) \in 0..(m + 1)  OBVIOUS
  <2>1. m <= n /\ m \in 0..(n - 1)  OBVIOUS
  <2>2. SumUpTo(f, m) \in 0..m /\ f[m] \in {0, 1}  BY <1>2, <2>1
  <2>3. SumUpTo(f, m + 1) = SumUpTo(f, m) + f[m]  BY SumStep
  <2> QED  BY <2>2, <2>3
<1> HIDE DEF S
<1>3. Nat \subseteq S  BY <1>1, <1>2, InductiveSet
<1> QED  BY <1>3 DEF S

(* Where two functions are the same, so are their sums ...                 *)
LEMMA SumsAgree ==
  ASSUME NEW f, NEW g, NEW n \in Nat, \A i \in 0..(n - 1) : f[i] = g[i]
  PROVE  SumUpTo(f, n) = SumUpTo(g, n)
<1> DEFINE S == { m \in Nat : m <= n => SumUpTo(f, m) = SumUpTo(g, m) }
<1>1. 0 \in S  BY SumStep
<1>2. ASSUME NEW m \in Nat, m \in S PROVE m + 1 \in S
  <2> SUFFICES ASSUME m + 1 <= n PROVE SumUpTo(f, m + 1) = SumUpTo(g, m + 1)  OBVIOUS
  <2>1. m <= n /\ m \in 0..(n - 1)  OBVIOUS
  <2>2. SumUpTo(f, m) = SumUpTo(g, m) /\ f[m] = g[m]  BY <1>2, <2>1
  <2> QED  BY <2>2, SumStep
<1> HIDE DEF S
<1>3. Nat \subseteq S  BY <1>1, <1>2, InductiveSet
<1> QED  BY <1>3 DEF S

(* ... and where they differ in one place, the sums differ by as much.     *)
LEMMA SumChanges ==
  ASSUME NEW f, NEW g, NEW n \in Nat, NEW k \in 0..(n - 1),
         \A i \in 0..(n - 1) : f[i] \in Int /\ g[i] \in Int,
         \A i \in 0..(n - 1) : i # k => f[i] = g[i]
  PROVE  SumUpTo(g, n) = SumUpTo(f, n) - f[k] + g[k]
<1> DEFINE S == { m \in Nat : k < m /\ m <= n =>
                    SumUpTo(g, m) = SumUpTo(f, m) - f[k] + g[k] }
<1>1. 0 \in S  OBVIOUS
<1>2. ASSUME NEW m \in Nat, m \in S PROVE m + 1 \in S
  <2> SUFFICES ASSUME k < m + 1, m + 1 <= n
               PROVE  SumUpTo(g, m + 1) = SumUpTo(f, m + 1) - f[k] + g[k]
    OBVIOUS
  <2>1. m <= n /\ m \in 0..(n - 1) /\ \A i \in 0..(m - 1) : i \in 0..(n - 1)
    OBVIOUS
  <2>2. SumUpTo(f, m) \in Int /\ SumUpTo(g, m) \in Int
    BY <2>1, SumOfIntegers
  <2>3. /\ SumUpTo(f, m + 1) = SumUpTo(f, m) + f[m]
        /\ SumUpTo(g, m + 1) = SumUpTo(g, m) + g[m]
    BY SumStep
  <2>4. CASE m = k
    <3>1. \A i \in 0..(m - 1) : i # k /\ f[i] = g[i]  BY <2>1, <2>4
    <3>2. SumUpTo(f, m) = SumUpTo(g, m)  BY <3>1, SumsAgree
    <3> QED  BY <2>1, <2>2, <2>3, <2>4, <3>2
  <2>5. CASE k < m
    <3>1. SumUpTo(g, m) = SumUpTo(f, m) - f[k] + g[k]  BY <1>2, <2>1, <2>5
    <3>2. f[m] = g[m] /\ f[m] \in Int  BY <2>1, <2>5
    <3>3. f[k] \in Int /\ g[k] \in Int  OBVIOUS
    <3> HIDE DEF S
    <3> QED  BY <2>2, <2>3, <3>1, <3>2, <3>3
  <2> QED  BY <2>4, <2>5
<1> HIDE DEF S
<1>3. Nat \subseteq S  BY <1>1, <1>2, InductiveSet
<1> QED  BY <1>3 DEF S

-----------------------------------------------------------------------------
(* The checksum.  What the records add up to is a number ...               *)
LEMMA RecordedType ==
  ASSUME IInv
  PROVE  /\ \A i \in 0..(index - 1) : Weight[i] \in Int
         /\ Recorded \in Int /\ index \in Nat
<1>1. index \in Nat /\ \A i \in SlotIndex : slots[i].id \in Nat /\ slots[i].coverage \in Byte
  BY DEF IInv, TypeOK
<1>2. \A i \in SlotIndex : Weight[i] \in Int  BY <1>1 DEF Weight, Byte
<1>3. \A i \in 0..(index - 1) : Weight[i] \in Int  BY <1>2, SlotBounds
<1>4. Recorded \in Int  BY <1>1, <1>3, SumOfIntegers DEF Recorded
<1>. QED  BY <1>1, <1>3, <1>4

(* ... and it stays the same in every step that leaves the checksum alone  *)
(* and in which no thread enters, continues or leaves an update.           *)
KeepsSum ==
  /\ UNCHANGED <<slots, index, index_map, checksum>>
  /\ pc'[Main] = "header" => pc[Main] = "header" /\ UNCHANGED termination
  /\ Loaded' => Loaded
  /\ \A u \in Threads : \A place \in Writing : (pc'[u] = place) = (pc[u] = place)
  /\ \A u \in Threads : pc[u] \in Writing => call'[u] = call[u]

LEMMA KeptSum == ASSUME SumInv, KeepsSum PROVE SumInv'
<1>. USE DEF KeepsSum
<1>1. Recorded' = Recorded  BY DEF Recorded, Weight
<1>2. \A u \in Threads :
        /\ (pc'[u] = "cov") = (pc[u] = "cov") /\ (pc'[u] = "id") = (pc[u] = "id")
        /\ (pc'[u] = "store") = (pc[u] = "store") /\ (pc'[u] = "both") = (pc[u] = "both")
  BY DEF Writing
<1>3. Updating' = Updating  BY <1>2 DEF Updating
<1>4. \A u \in Threads : pc[u] = "both" => saved_cov(u)' = saved_cov(u)
  BY DEF saved_cov, Writing
<1>5. pc'[Main] = "header" => checksum' = 0 /\ termination' = normal
  BY DEF SumInv
<1>6. Loaded' /\ ~Updating' => checksum' = Recorded'
  BY <1>1, <1>3 DEF SumInv
<1>7. ASSUME NEW t \in Threads, Loaded'
      PROVE  /\ pc'[t] = "cov" => checksum' = Recorded' + call'[t].id
             /\ pc'[t] = "id" => checksum' = Recorded' + call'[t].id + call'[t].coverage
             /\ pc'[t] = "store" =>
                  /\ checksum' = Recorded' + call'[t].coverage
                  /\ slots'[index_map'[call'[t].id]].coverage = covFALSE
             /\ pc'[t] = "both" => checksum' = Recorded' + BOTH - saved_cov(t)'
  <2>1. Loaded /\ (pc[t] \in Writing => call'[t] = call[t])  BY <1>7
  <2>. QED  BY <2>1, <1>1, <1>2, <1>4 DEF SumInv, Writing
<1>. QED  BY <1>5, <1>6, <1>7 DEF SumInv

LEMMA KeepingActions ==
  ASSUME IInv, NEW t \in Threads,
         \/ SetNormal \/ Kill \/ UNCHANGED vars
         \/ \E c \in Calls : CallProbe(t, c)
         \/ Acquire(t) \/ Overflow(t) \/ ErrorProbe(t) \/ ReadExhausted(t)
         \/ ReadInput(t) \/ GoalProbe(t) \/ OldBranch(t)
         \/ UserExit(t) \/ Crash(t) \/ ExitDone(t)
  PROVE  KeepsSum
<1>. TypeOK  BY DEF IInv
<1>. USE ThreadsAssumption
         DEF TypeOK, KeepsSum, Loaded, Writing, Goto, CallExit, Release, Unlocked
<1>1. CASE SetNormal
  BY <1>1 DEF SetNormal, object, history
<1>2. CASE Kill \/ UNCHANGED vars
  BY <1>2 DEF Kill, vars, segment, object, history
<1>3. ASSUME NEW c \in Calls, CallProbe(t, c) PROVE KeepsSum
  BY <1>3 DEF CallProbe, segment, object
<1>4. CASE Acquire(t)
  BY <1>4 DEF Acquire, segment, object, history
<1>5. CASE Overflow(t) \/ ErrorProbe(t) \/ ReadExhausted(t)
  <2>1. pc[t] = "body" /\ pc'= [pc EXCEPT ![t] = "exit"]
    BY <1>5 DEF Overflow, ErrorProbe, ReadExhausted, In, ReportAndExit
  <2>2. UNCHANGED <<slots, index, index_map, checksum>>
        /\ call' = [call EXCEPT ![t] = NoCall]
    BY <1>5 DEF Overflow, ErrorProbe, ReadExhausted, ReportAndExit, object
  <2>3. t = Main \/ pc'[Main] = pc[Main]  BY <2>1
  <2>4. Loaded  BY <2>1, Awake
  <2>. QED  BY <2>1, <2>2, <2>3, <2>4
<1>6. CASE ReadInput(t)
  BY <1>6 DEF ReadInput, In, segment, object, history
<1>7. CASE GoalProbe(t)
  BY <1>7 DEF GoalProbe, In, object, history
<1>8. CASE OldBranch(t)
  BY <1>8 DEF OldBranch, In, segment, object
<1>9. CASE UserExit(t) \/ Crash(t) \/ ExitDone(t)
  BY <1>9 DEF UserExit, Crash, ExitDone, segment, object, history
<1>. QED
  BY <1>1, <1>2, <1>3, <1>4, <1>5, <1>6, <1>7, <1>8, <1>9

LEMMA StartupSum == ASSUME IInv, SumInv, Startup PROVE SumInv'
<1>. TypeOK  BY DEF IInv
<1>1. ~Loaded  BY DEF Startup, Clear, PutHeader, Loaded
<1>2. index = 0 /\ \A t \in Threads : pc[t] \in {"unborn", "load", "header"}
  BY <1>1, ThreadsAssumption DEF IInv, LoadingInv, ThreadsInv, Loaded
<1>3. index' = 0 /\ checksum' = 0 /\ termination' = normal
  BY <1>2 DEF Startup, Clear, PutHeader, object
<1>4. \A t \in Threads : pc'[t] \in {"unborn", "load", "header", "user"}
  BY <1>2 DEF Startup, Clear, PutHeader, Goto, TypeOK
<1>5. Recorded' = 0  BY <1>3, SumStep DEF Recorded
<1>. QED  BY <1>3, <1>4, <1>5 DEF SumInv, Updating

(* A step after which t is the only thread that can be in an update: what  *)
(* remains to show is about t.                                             *)
LEMMA SumOfOneThread ==
  ASSUME NEW t \in Threads, pc'[Main] # "header",
         \A u \in Threads : u # t => pc'[u] \notin Writing,
         pc'[t] \notin Writing => checksum' = Recorded',
         pc'[t] = "cov" => checksum' = Recorded' + call'[t].id,
         pc'[t] = "id" => checksum' = Recorded' + call'[t].id + call'[t].coverage,
         pc'[t] = "store" =>
           /\ checksum' = Recorded' + call'[t].coverage
           /\ slots'[index_map'[call'[t].id]].coverage = covFALSE,
         pc'[t] = "both" => checksum' = Recorded' + BOTH - saved_cov(t)'
  PROVE  SumInv'
<1>1. Updating' <=> pc'[t] \in Writing  BY DEF Updating, Writing
<1>2. \A u \in Threads : pc'[u] \in Writing => u = t  OBVIOUS
<1>. QED  BY <1>1, <1>2 DEF SumInv, Writing

(* An update begins: the checksum runs ahead of the records.               *)
LEMMA BeginSum ==
  ASSUME IInv, SumInv, NEW t \in Threads, NewBranch(t) \/ OtherDirection(t)
  PROVE  SumInv'
<1>. TypeOK  BY DEF IInv
<1>1. In(t, "br") /\ Loaded
  BY Awake DEF NewBranch, OtherDirection, In
<1>2. \A u \in Threads : pc[u] \notin Writing
  BY <1>1, OneInside DEF In, Inside, Writing
<1>3. checksum = Recorded  BY <1>1, <1>2 DEF SumInv, Updating, Writing
<1>4. UNCHANGED <<slots, index, call>> /\ Recorded' = Recorded
  BY DEF NewBranch, OtherDirection, object, Recorded, Weight
<1>5. pc' = [pc EXCEPT ![t] = IF NewBranch(t) THEN "cov" ELSE "both"]
  BY DEF NewBranch, OtherDirection, Goto
<1>6. /\ \A u \in Threads : u # t => pc'[u] \notin Writing
      /\ pc'[t] = IF NewBranch(t) THEN "cov" ELSE "both"
      /\ pc'[Main] # "header"
  BY <1>1, <1>2, <1>5, ThreadsAssumption DEF TypeOK, Loaded
<1>7. CASE NewBranch(t)
  <2>1. checksum' = Recorded' + call'[t].id  BY <1>3, <1>4, <1>7 DEF NewBranch
  <2>. QED  BY <2>1, <1>6, <1>7, SumOfOneThread DEF Writing
<1>8. CASE ~NewBranch(t)
  <2>1. checksum' = checksum + (BOTH - saved_cov(t)) /\ index_map' = index_map
    BY <1>8 DEF OtherDirection, MissingFromSum, object
  <2>2. saved_cov(t)' = saved_cov(t)  BY <2>1, <1>4 DEF saved_cov
  <2>3. saved_cov(t) \in Int /\ Recorded \in Int
    BY <1>8, KnownBranch, RecordedType DEF OtherDirection, Coverages, Directions
  <2>4. checksum' = Recorded' + BOTH - saved_cov(t)'
    BY <2>1, <2>2, <2>3, <1>3, <1>4
  <2>. QED  BY <2>4, <1>6, <1>8, SumOfOneThread DEF Writing
<1>. QED  BY <1>7, <1>8

LEMMA AddCoverageSum ==
  ASSUME IInv, SumInv, NEW t \in Threads, AddCoverage(t) PROVE SumInv'
<1>. TypeOK  BY DEF IInv
<1>1. pc[t] = "cov" /\ Loaded  BY SlotOfCall DEF AddCoverage, Writing
<1>2. \A u \in Threads : u # t => pc[u] \notin Writing
  BY <1>1, OneInside DEF Inside, Writing
<1>3. checksum = Recorded + call[t].id  BY <1>1 DEF SumInv
<1>4. UNCHANGED <<slots, index, call>> /\ Recorded' = Recorded
  BY DEF AddCoverage, object, Recorded, Weight
<1>5. checksum' = Recorded' + call'[t].id + call'[t].coverage
  BY <1>3, <1>4 DEF AddCoverage, WithCoverage
<1>6. /\ \A u \in Threads : u # t => pc'[u] \notin Writing
      /\ pc'[t] = "id" /\ pc'[Main] # "header"
  BY <1>1, <1>2, ThreadsAssumption DEF TypeOK, Loaded, AddCoverage, Goto
<1>. QED  BY <1>5, <1>6, SumOfOneThread DEF Writing

(* The record grows by its id, which is in the checksum already.           *)
LEMMA StoreIdSum ==
  ASSUME IInv, SumInv, NEW t \in Threads, StoreId(t) PROVE SumInv'
<1>. DEFINE b == call[t].id
            k == index_map[b]
<1>. TypeOK  BY DEF IInv
<1>1. /\ pc[t] = "id" /\ Loaded /\ k \in SlotIndex /\ k = index
      /\ b \in Nat /\ call[t].coverage \in Int
  BY SlotOfCall DEF StoreId, Writing, Reserving, Branches, Directions
<1>2. \A u \in Threads : u # t => pc[u] \notin Writing
  BY <1>1, OneInside DEF Inside, Writing
<1>3. checksum = Recorded + b + call[t].coverage  BY <1>1 DEF SumInv
<1>4. UNCHANGED <<checksum, index_map, call>> /\ index' = index + 1
      /\ slots' = [slots EXCEPT ![k].id = b]
  BY DEF StoreId
<1>5. slots[k] = ZeroRecord
  BY <1>1 DEF IInv, SlotsInv, TypeOK
<1>. HIDE DEF k, b
<1>6. /\ slots'[k] = [id |-> b, coverage |-> covFALSE]
      /\ \A i \in SlotIndex : i # k => slots'[i] = slots[i]
  BY <1>1, <1>4, <1>5, FieldUpdates DEF TypeOK, ZeroRecord
<1>7. \A i \in 0..(index - 1) : i \in SlotIndex /\ Weight'[i] = Weight[i]
  <2>1. \A i \in 0..(index - 1) : i \in SlotIndex /\ i # k
    BY <1>1, SlotBounds, RecordedType
  <2>. QED  BY <2>1, <1>6 DEF Weight
<1>8. Weight'[index] = b  BY <1>1, <1>6 DEF Weight
<1>9. Recorded' = Recorded + b
  <2>1. SumUpTo(Weight', index) = SumUpTo(Weight, index)
    BY <1>7, RecordedType, SumsAgree
  <2>2. SumUpTo(Weight', index + 1) = SumUpTo(Weight', index) + Weight'[index]
    BY RecordedType, SumStep
  <2>. QED  BY <2>1, <2>2, <1>4, <1>8 DEF Recorded
<1>10. checksum' = Recorded' + call'[t].coverage
  BY <1>1, <1>3, <1>4, <1>9, RecordedType DEF b
<1>11. slots'[index_map'[call'[t].id]].coverage = covFALSE
  BY <1>4, <1>6 DEF k, b
<1>12. /\ \A u \in Threads : u # t => pc'[u] \notin Writing
       /\ pc'[t] = "store" /\ pc'[Main] # "header"
  BY <1>1, <1>2, ThreadsAssumption DEF TypeOK, Loaded, StoreId, Goto
<1>. QED  BY <1>10, <1>11, <1>12, SumOfOneThread DEF Writing

(* The record catches up with the checksum.                                *)
LEMMA CoverageSum ==
  ASSUME IInv, SumInv, NEW t \in Threads, StoreCoverage(t) \/ StoreBoth(t)
  PROVE  SumInv'
<1>. DEFINE k == index_map[call[t].id]
            new == IF pc[t] = "both" THEN BOTH ELSE call[t].coverage
<1>. TypeOK  BY DEF IInv
<1>1. /\ Loaded /\ pc[t] \in {"store", "both"} /\ k \in SlotIndex /\ k < index
      /\ call[t].coverage \in Directions
  BY SlotOfCall DEF StoreCoverage, StoreBoth, Writing, Reserving
<1>2. \A u \in Threads : u # t => pc[u] \notin Writing
  BY <1>1, OneInside DEF Inside, Writing
<1>3. checksum = Recorded + (new - slots[k].coverage)
  <2>1. CASE pc[t] = "both"
    <3>1. slots[k].coverage \in Int
      BY <1>1, <2>1 DEF IInv, ExecutedInv, Directions
    <3>2. checksum = Recorded + BOTH - saved_cov(t)  BY <1>1, <2>1 DEF SumInv
    <3>. QED  BY <2>1, <3>1, <3>2, RecordedType DEF saved_cov
  <2>2. CASE pc[t] = "store"
    BY <1>1, <2>2, RecordedType DEF SumInv, Directions
  <2>. QED  BY <1>1, <2>1, <2>2
<1>4. new \in Byte /\ slots' = [slots EXCEPT ![k].coverage = new]
  BY <1>1 DEF StoreCoverage, StoreBoth, Byte, Directions
<1>5. UNCHANGED <<checksum, index>> /\ Release(t)
  BY DEF StoreCoverage, StoreBoth, object
<1>. HIDE DEF new, k
<1>6. /\ slots'[k] = [id |-> slots[k].id, coverage |-> new]
      /\ \A i \in SlotIndex : i # k => slots'[i] = slots[i]
  BY <1>1, <1>4, FieldUpdates DEF TypeOK
<1>7. /\ Weight[k] = slots[k].id + slots[k].coverage
      /\ Weight'[k] = slots[k].id + new
      /\ \A i \in SlotIndex : i # k => Weight'[i] = Weight[i]
  BY <1>1, <1>6 DEF Weight
<1>8. slots[k].id \in Int /\ slots[k].coverage \in Int /\ new \in Int
  BY <1>1, <1>4 DEF TypeOK, Byte
<1>9. k \in 0..(index - 1)
  BY <1>1, RecordedType, CountsAssumption DEF SlotIndex
<1>10. \A i \in 0..(index - 1) : Weight'[i] \in Int /\ (i # k => Weight[i] = Weight'[i])
  BY <1>7, <1>8, SlotBounds, RecordedType
<1>11. SumUpTo(Weight', index) = SumUpTo(Weight, index) - Weight[k] + Weight'[k]
  BY <1>9, <1>10, RecordedType, SumChanges
<1>12. Recorded' = Recorded + (new - slots[k].coverage)
  <2>1. Recorded' = Recorded - Weight[k] + Weight'[k]
    BY <1>5, <1>11 DEF Recorded
  <2>. QED  BY <2>1, <1>7, <1>8, RecordedType
<1>13. checksum' = Recorded'  BY <1>3, <1>5, <1>12
<1>14. /\ \A u \in Threads : pc'[u] \notin Writing
       /\ pc'[Main] # "header"
  <2>1. pc' = [pc EXCEPT ![t] = IF t \in leaving THEN "exit" ELSE "user"]
    BY <1>5 DEF Release, Goto
  <2>. QED  BY <2>1, <1>1, <1>2, ThreadsAssumption DEF TypeOK, Loaded, Writing
<1>. QED  BY <1>13, <1>14, SumOfOneThread DEF Writing

LEMMA StepSum == IInv /\ SumInv /\ [Next]_vars => SumInv'
<1>. SUFFICES ASSUME IInv, SumInv, [Next]_vars PROVE SumInv'  OBVIOUS
<1>1. CASE Startup  BY <1>1, StartupSum
<1>2. CASE SetNormal \/ Kill \/ UNCHANGED vars
  <2>1. KeepsSum  BY <1>2, ThreadsAssumption, KeepingActions
  <2>. QED  BY <2>1, KeptSum
<1>3. ASSUME NEW t \in Threads, Probe(t) \/ Benchmark(t) \/ ExitDone(t)
      PROVE  SumInv'
  <2>1. CASE NewBranch(t) \/ OtherDirection(t)  BY <2>1, BeginSum
  <2>2. CASE AddCoverage(t)  BY <2>2, AddCoverageSum
  <2>3. CASE StoreId(t)  BY <2>3, StoreIdSum
  <2>4. CASE StoreCoverage(t) \/ StoreBoth(t)  BY <2>4, CoverageSum
  <2>5. CASE \/ \E c \in Calls : CallProbe(t, c)
             \/ Acquire(t) \/ Overflow(t) \/ ErrorProbe(t) \/ ReadExhausted(t)
             \/ ReadInput(t) \/ GoalProbe(t) \/ OldBranch(t)
             \/ UserExit(t) \/ Crash(t) \/ ExitDone(t)
    <3>1. KeepsSum  BY <2>5, KeepingActions
    <3>. QED  BY <3>1, KeptSum
  <2>. QED
    BY <1>3, <2>1, <2>2, <2>3, <2>4, <2>5 DEF Probe, Benchmark
<1>. QED  BY <1>1, <1>2, <1>3 DEF Next

LEMMA InvarianceOfSum == Spec => [](IInv /\ SumInv)
<1>1. Init => IInv /\ SumInv
  <2>1. Init => SumInv
    BY ThreadsAssumption DEF Init, SumInv, Loaded
  <2>. QED  BY <2>1, InitInv
<1>2. IInv /\ SumInv /\ [Next]_vars => (IInv /\ SumInv)'
  BY StepInv, StepSum
<1>. QED  BY <1>1, <1>2, PTL DEF Spec

(* What the analyser adds up is what the probes have recorded.             *)
LEMMA HashIsRecorded == ASSUME IInv, Loaded PROVE Hash = Recorded
<1>1. index \in Nat  BY RecordedType
<1>2. Cardinality(0..(index - 1)) = index  BY <1>1, FS_Interval
<1>. QED  BY <1>2, ScannedSlots DEF Hash, Recorded

(* The checksum of a stopped target is right exactly when no update was    *)
(* cut short, or the one that was leaves no trace.                         *)
THEOREM ChecksumShowsTornUpdates == Spec => []ChecksumTellsTorn
<1>1. ASSUME IInv, SumInv PROVE ChecksumTellsTorn
  <2>. SUFFICES ASSUME Loaded
                PROVE  Hash = checksum <=> ~Updating \/ Invisible
    BY DEF ChecksumTellsTorn
  <2>1. Hash = Recorded /\ Recorded \in Int
    BY <1>1, HashIsRecorded, RecordedType
  <2>2. CASE ~Updating  BY <1>1, <2>1, <2>2 DEF SumInv
  <2>3. ASSUME NEW t \in Threads, pc[t] \in Writing
        PROVE  Hash = checksum <=> Invisible
    <3>1. \A u \in Threads : pc[u] = "store" => u = t
      BY <1>1, <2>3, OneInside DEF Inside, Writing
    <3>2. Invisible <=> pc[t] = "store" /\ call[t].coverage = covFALSE
      BY <3>1 DEF Invisible
    <3>3. call[t].id \in Branches /\ call[t].coverage \in Directions
      BY <1>1, <2>3, SlotOfCall
    <3>4. call[t].id > 0 /\ call[t].id \in Int /\ call[t].coverage \in {0, 1}
      BY <3>3, CountsAssumption DEF Branches, Directions
    <3>5. CASE pc[t] = "cov"
      <4>1. checksum = Recorded + call[t].id  BY <1>1, <3>5 DEF SumInv
      <4>. QED  BY <4>1, <2>1, <3>2, <3>4, <3>5
    <3>6. CASE pc[t] = "id"
      <4>1. checksum = Recorded + call[t].id + call[t].coverage
        BY <1>1, <3>6 DEF SumInv
      <4>. QED  BY <4>1, <2>1, <3>2, <3>4, <3>6
    <3>7. CASE pc[t] = "store"
      <4>1. checksum = Recorded + call[t].coverage  BY <1>1, <3>7 DEF SumInv
      <4>. QED  BY <4>1, <2>1, <3>2, <3>4, <3>7
    <3>8. CASE pc[t] = "both"
      <4>1. checksum = Recorded + BOTH - saved_cov(t)  BY <1>1, <3>8 DEF SumInv
      <4>2. saved_cov(t) \in Directions
        BY <1>1, <3>8 DEF IInv, ExecutedInv, saved_cov
      <4>. QED  BY <4>1, <4>2, <2>1, <3>2, <3>8 DEF Directions
    <3>. QED  BY <2>3, <3>5, <3>6, <3>7, <3>8 DEF Writing
  <2>. QED  BY <2>2, <2>3 DEF Updating, Writing
<1>. QED  BY <1>1, InvarianceOfSum, PTL

-----------------------------------------------------------------------------
(* The refinement.  What of a target its driver can tell apart.            *)
USE DEF Abstract!normal, Abstract!insufficient_data, Abstract!ver_error_reached,
        Abstract!medium_overflow, Abstract!covFALSE, Abstract!covTRUE

LEMMA CertifiedWhen ==
  /\ Hash = checksum \/ (Loaded /\ ~Stopped) => certified = TRUE
  /\ ~(Hash = checksum \/ (Loaded /\ ~Stopped)) => certified = FALSE
BY DEF certified

LEMMA CertifiedNext ==
  /\ Hash' = checksum' \/ (Loaded' /\ ~Stopped') => certified' = TRUE
  /\ ~(Hash' = checksum' \/ (Loaded' /\ ~Stopped')) => certified' = FALSE
BY DEF certified

LEMMA ScannedNext == (IInv /\ Loaded => Scanned = 0..(index - 1))'
<1>1. IInv /\ Loaded => Scanned = 0..(index - 1)  BY ScannedSlots
<1>. QED  BY <1>1, PTL

(* Nothing is in flight while main() is loading.                           *)
LEMMA NothingInFlight ==
  ASSUME \A u \in Threads : pc[u] \notin Writing
  PROVE  inflight = {} /\ InFlightSlots = {}
BY DEF inflight, InFlightSlots, Writing

LEMMA NothingInFlightNext ==
  ASSUME \A u \in Threads : pc'[u] \notin Writing
  PROVE  inflight' = {} /\ InFlightSlots' = {}
BY DEF inflight, InFlightSlots, Writing

LEMMA OneInFlight ==
  ASSUME NEW t \in Threads, pc[t] \in Writing,
         \A u \in Threads : u # t => pc[u] \notin Writing
  PROVE  /\ inflight = {<<call[t].id, call[t].coverage>>}
         /\ InFlightSlots = IF pc[t] = "store" THEN {index_map[call[t].id]} ELSE {}
<1>1. { u \in Threads : pc[u] \in {"cov", "id", "store", "both"} } = {t}
  BY DEF Writing
<1>2. { u \in Threads : pc[u] = "store" } = IF pc[t] = "store" THEN {t} ELSE {}
  BY DEF Writing
<1>. QED  BY <1>1, <1>2 DEF inflight, InFlightSlots

LEMMA OneInFlightNext ==
  ASSUME NEW t \in Threads, pc'[t] \in Writing,
         \A u \in Threads : u # t => pc'[u] \notin Writing
  PROVE  /\ inflight' = {<<call'[t].id, call'[t].coverage>>}
         /\ InFlightSlots' = IF pc'[t] = "store" THEN {index_map'[call'[t].id]} ELSE {}
<1>1. { u \in Threads : pc'[u] \in {"cov", "id", "store", "both"} } = {t}
  BY DEF Writing
<1>2. { u \in Threads : pc'[u] = "store" } = IF pc'[t] = "store" THEN {t} ELSE {}
  BY DEF Writing
<1>. QED  BY <1>1, <1>2 DEF inflight, InFlightSlots

(* A target that is running, before a step and after it.                   *)
Runs == Loaded /\ Loaded' /\ proc = "running" /\ proc' = "running"

CondsAt(i) == CondsOf(slots[i].id, slots[i].coverage)

LEMMA RunningView ==
  ASSUME Runs
  PROVE  /\ phase = "running" /\ phase' = "running"
         /\ certified = TRUE /\ certified' = TRUE
         /\ Settled = UNION { CondsAt(i) : i \in Scanned \ InFlightSlots }
         /\ Settled' = UNION { CondsAt(i)' : i \in Scanned' \ InFlightSlots' }
<1>1. Loaded /\ Loaded' /\ ~Stopped /\ ~Stopped'  BY DEF Runs, Stopped
<1>2. phase = "running" /\ phase' = "running"
  BY <1>1 DEF phase, Loaded
<1>. QED
  BY <1>1, <1>2, CertifiedWhen, CertifiedNext DEF Settled, CondsAt

(* A step that touches neither the records nor who is in an update.        *)
SameView ==
  /\ UNCHANGED <<slots, index_map>>
  /\ \A u \in Threads :
       /\ (pc'[u] \in Writing) = (pc[u] \in Writing)
       /\ (pc'[u] = "store") = (pc[u] = "store")
       /\ pc[u] \in Writing => call'[u] = call[u]

LEMMA ViewStays ==
  ASSUME Runs, SameView
  PROVE  /\ phase = "running"
         /\ UNCHANGED <<phase, Settled, certified, inflight>>
<1>1. Scanned' = Scanned  BY DEF SameView, Scanned
<1>2. InFlightSlots' = InFlightSlots /\ inflight' = inflight
  BY DEF SameView, InFlightSlots, inflight, Writing
<1>3. \A i \in SlotIndex : CondsAt(i)' = CondsAt(i)  BY DEF SameView, CondsAt
<1>4. Scanned \subseteq SlotIndex  BY DEF Scanned
<1>5. Settled' = Settled
  <2>1. Settled' = UNION { CondsAt(i)' : i \in Scanned \ InFlightSlots }
    BY <1>1, <1>2, RunningView
  <2>2. { CondsAt(i)' : i \in Scanned \ InFlightSlots }
          = { CondsAt(i) : i \in Scanned \ InFlightSlots }
    BY <1>3, <1>4
  <2>. QED  BY <2>1, <2>2, RunningView
<1>. QED  BY <1>2, <1>5, RunningView

LEMMA QuietSameView ==
  ASSUME QuietStep \/ KeepsSum PROVE SameView
<1>1. CASE QuietStep
  BY <1>1 DEF QuietStep, SameView, Writing, Reserving
<1>2. CASE KeepsSum
  BY <1>2 DEF KeepsSum, SameView, Writing
<1>. QED  BY <1>1, <1>2

(* Steps of the target before the benchmark's own code.                    *)
LEMMA ClearImplements ==
  ASSUME IInv, proc = "running", Clear PROVE Abstract!Clear
<1>. TypeOK  BY DEF IInv
<1>1. /\ pc[Main] = "load" /\ ~Loaded
      /\ \A u \in Threads : pc[u] \in {"unborn", "load", "header"}
  BY DEF Clear, IInv, ThreadsInv, Loaded
<1>2. /\ \A u \in Threads : pc'[u] \in {"unborn", "load", "header"}
      /\ pc'[Main] = "header" /\ ~Loaded' /\ proc' = "running"
  BY <1>1, ThreadsAssumption DEF Clear, Goto, Loaded, TypeOK
<1>3. phase = "loading" /\ phase' = "cleared"
  BY <1>1, <1>2 DEF phase, Stopped
<1>4. inflight = {} /\ inflight' = {}
  BY <1>1, <1>2, NothingInFlight, NothingInFlightNext DEF Writing
<1>5. Scanned' = {}
  <2>1. slots' = Wiped  BY DEF Clear
  <2>2. \A i \in SlotIndex : slots'[i].id = 0 /\ i \in 0..i
    BY <2>1, CountsAssumption DEF Wiped, ZeroRecord, SlotIndex
  <2>. QED  BY <2>2 DEF Scanned
<1>6. Settled' = {}  BY <1>5 DEF Settled
<1>7. certified' = TRUE
  <2>1. Cardinality(Scanned') = 0  BY <1>5, FS_EmptySet
  <2>2. Hash' = 0  BY <2>1, SumStep DEF Hash
  <2>. QED  BY <2>2, CertifiedNext DEF Clear
<1>. QED
  BY <1>3, <1>4, <1>6, <1>7 DEF Clear, history, Abstract!Clear

LEMMA PutHeaderImplements ==
  ASSUME IInv, SumInv, proc = "running", PutHeader PROVE Abstract!Publish
<1>. TypeOK  BY DEF IInv
<1>1. /\ pc[Main] = "header" /\ ~Loaded /\ slots = Wiped /\ checksum = 0
      /\ termination = normal
      /\ \A u \in Threads : pc[u] \in {"unborn", "load", "header"}
  BY DEF PutHeader, IInv, ThreadsInv, LoadingInv, SumInv, Loaded
<1>2. /\ \A u \in Threads : pc'[u] = "user"
      /\ Loaded' /\ proc' = "running" /\ slots' = slots /\ checksum' = 0
  BY ThreadsAssumption DEF PutHeader, Loaded
<1>3. phase = "cleared" /\ phase' = "running"
  BY <1>1, <1>2, ThreadsAssumption DEF phase, Stopped
<1>4. inflight = {} /\ inflight' = {}
  BY <1>1, <1>2, NothingInFlight, NothingInFlightNext DEF Writing
<1>5. Scanned = {} /\ Scanned' = {}
  <2>1. \A i \in SlotIndex : slots[i].id = 0 /\ slots'[i].id = 0 /\ i \in 0..i
    BY <1>1, <1>2, CountsAssumption DEF Wiped, ZeroRecord, SlotIndex
  <2>. QED  BY <2>1 DEF Scanned
<1>6. Settled = {} /\ Settled' = {}  BY <1>5 DEF Settled
<1>7. certified = TRUE /\ certified' = TRUE
  <2>1. Cardinality(Scanned) = 0  BY <1>5, FS_EmptySet
  <2>2. Hash = 0  BY <2>1, SumStep DEF Hash
  <2>. QED  BY <2>2, <1>1, <1>2, CertifiedWhen, CertifiedNext DEF Stopped
<1>. QED
  BY <1>1, <1>3, <1>4, <1>6, <1>7 DEF PutHeader, history, Abstract!Publish

(* Steps of a running target that its driver sees nothing of, or only a    *)
(* termination.                                                            *)
LEMMA SilentSteps ==
  ASSUME IInv, SumInv, Runs, NEW t \in Threads,
         \/ Acquire(t) \/ ReadInput(t) \/ GoalProbe(t) \/ AddCoverage(t)
         \/ OldBranch(t) \/ UserExit(t)
  PROVE  UNCHANGED Abstract!vars
<1>1. SameView  BY QuietActions, KeepingActions, QuietSameView
<1>2. UNCHANGED <<termination, brCount, executed>>
  BY DEF Acquire, ReadInput, GoalProbe, AddCoverage, OldBranch, UserExit,
         segment, history
<1>. QED  BY <1>1, <1>2, ViewStays DEF Abstract!vars

LEMMA ReportSteps ==
  ASSUME IInv, SumInv, Runs, NEW t \in Threads,
         SetNormal \/ ErrorProbe(t) \/ ReadExhausted(t)
  PROVE  \E reason \in {normal, insufficient_data, ver_error_reached} :
           Abstract!Report(reason)
<1>1. SameView  BY KeepingActions, QuietSameView
<1>2. UNCHANGED <<brCount, executed>>
  BY DEF SetNormal, ErrorProbe, ReadExhausted, ReportAndExit, history
<1>3. termination' \in {normal, insufficient_data, ver_error_reached}
  BY DEF SetNormal, ErrorProbe, ReadExhausted, ReportAndExit
<1>. QED  BY <1>1, <1>2, <1>3, ViewStays DEF Abstract!Report

LEMMA OverflowImplements ==
  ASSUME IInv, SumInv, Runs, NEW t \in Threads, Overflow(t)
  PROVE  Abstract!Overflow
<1>1. SameView  BY KeepingActions, QuietSameView
<1>2. UNCHANGED <<brCount, executed>> /\ termination' = medium_overflow
  BY DEF Overflow, ReportAndExit
<1>3. \A u \in Threads : pc[u] \notin Writing
  BY OneInside DEF Overflow, In, Inside, Writing
<1>4. inflight = {}  BY <1>3, NothingInFlight
<1>. QED  BY <1>1, <1>2, <1>4, ViewStays DEF Abstract!Overflow

LEMMA CallImplements ==
  ASSUME IInv, SumInv, Runs, NEW t \in Threads, NEW c \in Calls, CallProbe(t, c)
  PROVE  \/ UNCHANGED Abstract!vars
         \/ \E cond \in Abstract!Conditions : Abstract!Evaluate(cond)
<1>1. SameView  BY KeepingActions, QuietSameView
<1>2. UNCHANGED <<termination, brCount>>  BY DEF CallProbe, segment
<1>3. CASE c.hook = "br"
  <2>1. <<c.id, c.coverage>> \in Abstract!Conditions
    BY <1>3, CallTypes DEF Abstract!Conditions, Abstract!Directions, Branches, Directions
  <2>2. executed' = executed \cup {<<c.id, c.coverage>>}
    BY <1>3 DEF CallProbe
  <2>3. Abstract!Evaluate(<<c.id, c.coverage>>)
    BY <2>2, <1>1, <1>2, ViewStays DEF Abstract!Evaluate
  <2>. QED  BY <2>1, <2>3
<1>4. CASE c.hook # "br"
  <2>1. executed' = executed  BY <1>4 DEF CallProbe
  <2>. QED  BY <2>1, <1>1, <1>2, ViewStays DEF Abstract!vars
<1>. QED  BY <1>3, <1>4

(* An update begins, its record grows out of sight, and it ends.           *)
LEMMA BeginImplements ==
  ASSUME IInv, Runs, NEW t \in Threads, NewBranch(t) \/ OtherDirection(t)
  PROVE  \E cond \in Abstract!Conditions : Abstract!Begin(cond)
<1>. DEFINE cond == <<call[t].id, call[t].coverage>>
<1>. TypeOK  BY DEF IInv
<1>1. In(t, "br")  BY DEF NewBranch, OtherDirection
<1>2. \A u \in Threads : pc[u] \notin Writing
  BY <1>1, OneInside DEF In, Inside, Writing
<1>3. UNCHANGED <<slots, call, executed, termination, brCount>>
  BY DEF NewBranch, OtherDirection, history
<1>4. /\ \A u \in Threads : u # t => pc'[u] \notin Writing
      /\ pc'[t] \in {"cov", "both"}
  BY <1>2 DEF NewBranch, OtherDirection, Goto, TypeOK
<1>5. inflight = {} /\ InFlightSlots = {}  BY <1>2, NothingInFlight
<1>6. inflight' = {cond} /\ InFlightSlots' = {}
  BY <1>3, <1>4, OneInFlightNext DEF Writing
<1>7. Settled' = Settled
  <2>1. Scanned' = Scanned  BY <1>3 DEF Scanned
  <2>2. { CondsAt(i)' : i \in Scanned } = { CondsAt(i) : i \in Scanned }
    BY <1>3 DEF CondsAt
  <2>. QED  BY <2>1, <2>2, <1>5, <1>6, RunningView
<1>8. cond \in executed /\ cond \in Abstract!Conditions
  <2>1. call[t] \in Calls /\ cond \in executed
    BY <1>1 DEF IInv, ThreadsInv, CalledInv, In, InProbe, Inside
  <2>2. call[t].id \in Branches /\ call[t].coverage \in Directions
    BY <2>1, <1>1, CallTypes DEF In
  <2>. QED
    BY <2>1, <2>2 DEF Abstract!Conditions, Abstract!Directions, Branches, Directions
<1>9. Abstract!Begin(cond)
  BY <1>3, <1>5, <1>6, <1>7, <1>8, RunningView DEF Abstract!Begin
<1>. QED  BY <1>8, <1>9

LEMMA StoreIdImplements ==
  ASSUME IInv, IInv', Runs, NEW t \in Threads, StoreId(t)
  PROVE  UNCHANGED Abstract!vars
<1>. DEFINE b == call[t].id
            k == index_map[b]
<1>. TypeOK  BY DEF IInv
<1>1. /\ pc[t] = "id" /\ Loaded /\ Loaded' /\ k \in SlotIndex /\ k = index
  BY SlotOfCall DEF StoreId, Writing, Reserving, Runs
<1>2. \A u \in Threads : u # t => pc[u] \notin Writing
  BY <1>1, OneInside DEF Inside, Writing
<1>3. /\ UNCHANGED <<call, index_map, executed, termination, brCount>>
      /\ slots' = [slots EXCEPT ![k].id = b] /\ index' = index + 1
  BY DEF StoreId, history
<1>4. /\ \A u \in Threads : u # t => pc'[u] \notin Writing
      /\ pc'[t] = "store"
  BY <1>1, <1>2 DEF StoreId, Goto, TypeOK
<1>5. inflight' = inflight /\ InFlightSlots = {} /\ InFlightSlots' = {index}
  <2>1. inflight = {<<b, call[t].coverage>>} /\ InFlightSlots = {}
    BY <1>1, <1>2, OneInFlight DEF Writing
  <2>2. inflight' = {<<b, call[t].coverage>>} /\ InFlightSlots' = {k}
    BY <1>3, <1>4, OneInFlightNext DEF Writing
  <2>. QED  BY <2>1, <2>2, <1>1
<1>6. Scanned = 0..(index - 1) /\ Scanned' = 0..index
  BY <1>1, <1>3, ScannedSlots, ScannedNext DEF TypeOK
<1>7. Scanned' \ InFlightSlots' = Scanned \ InFlightSlots
  BY <1>5, <1>6 DEF TypeOK
<1>8. \A i \in Scanned : CondsAt(i)' = CondsAt(i)
  <2>1. \A i \in Scanned : i \in SlotIndex /\ i # k
    BY <1>1, <1>6, SlotBounds DEF TypeOK
  <2>2. \A i \in SlotIndex : i # k => slots'[i] = slots[i]
    BY <1>3 DEF TypeOK
  <2>. QED  BY <2>1, <2>2 DEF CondsAt
<1>9. Settled' = Settled
  <2>1. { CondsAt(i)' : i \in Scanned \ InFlightSlots }
          = { CondsAt(i) : i \in Scanned \ InFlightSlots }
    BY <1>8
  <2>. QED  BY <2>1, <1>7, RunningView
<1>. QED
  BY <1>3, <1>5, <1>9, RunningView DEF Abstract!vars

LEMMA FinishImplements ==
  ASSUME IInv, Runs, NEW t \in Threads, StoreCoverage(t) \/ StoreBoth(t)
  PROVE  Abstract!Finish
<1>. DEFINE b == call[t].id
            d == call[t].coverage
            new == IF pc[t] = "both" THEN BOTH ELSE d
<1>. TypeOK  BY DEF IInv
<1>0. /\ Loaded /\ pc[t] \in {"store", "both"}
      /\ index_map[b] \in SlotIndex /\ index_map[b] < index
      /\ d \in Directions /\ b \in DOMAIN index_map
  BY SlotOfCall DEF StoreCoverage, StoreBoth, Writing, Reserving
<1>1. PICK k \in SlotIndex : k = index_map[b] /\ k < index  BY <1>0
<1>2. \A u \in Threads : u # t => pc[u] \notin Writing
  BY <1>0, OneInside DEF Inside, Writing
<1>3. /\ UNCHANGED <<executed, termination, brCount>>
      /\ slots' = [slots EXCEPT ![k].coverage = new] /\ Release(t)
  BY <1>0, <1>1 DEF StoreCoverage, StoreBoth
<1>4. \A u \in Threads : pc'[u] \notin Writing
  <2>1. pc' = [pc EXCEPT ![t] = IF t \in leaving THEN "exit" ELSE "user"]
    BY <1>3 DEF Release, Goto
  <2>. QED  BY <2>1, <1>2 DEF TypeOK, Writing
<1>5. inflight' = {} /\ InFlightSlots' = {}  BY <1>4, NothingInFlightNext
<1>6. inflight = {<<b, d>>} /\ InFlightSlots = IF pc[t] = "store" THEN {k} ELSE {}
  BY <1>0, <1>1, <1>2, OneInFlight DEF Writing
<1>7. new \in Byte  BY <1>0 DEF Byte, Directions
<1>8. slots[k].id = b  BY <1>0, <1>1 DEF IInv, SlotsInv
<1>. HIDE DEF new
<1>9. /\ slots'[k] = [id |-> b, coverage |-> new]
      /\ \A i \in SlotIndex : i # k => slots'[i] = slots[i]
      /\ \A i \in SlotIndex : slots'[i].id = slots[i].id
  BY <1>1, <1>3, <1>7, <1>8, FieldUpdates DEF TypeOK
<1>10. Scanned' = Scanned
  <2>1. \A i \in SlotIndex : \A j \in 0..i : j \in SlotIndex
    BY CountsAssumption DEF SlotIndex
  <2>. QED  BY <2>1, <1>9 DEF Scanned
<1>11. k \in Scanned /\ Scanned \subseteq SlotIndex
  <2>1. Scanned = 0..(index - 1)  BY <1>0, ScannedSlots
  <2>. QED  BY <2>1, <1>1, CountsAssumption DEF TypeOK, SlotIndex, Scanned
<1>12. \A i \in Scanned : i # k => CondsAt(i)' = CondsAt(i)
  BY <1>9, <1>11 DEF CondsAt
<1>13. CASE pc[t] = "store"
  <2>1. CondsAt(k)' = {<<b, d>>}
    <3>1. CondsAt(k)' = CondsOf(b, d)  BY <1>9, <1>13 DEF CondsAt, new
    <3>. QED  BY <3>1, <1>0 DEF CondsOf, Directions
  <2>2. Settled = UNION { CondsAt(i) : i \in Scanned \ {k} }
    BY <1>6, <1>13, RunningView
  <2>3. Settled' = UNION { CondsAt(i)' : i \in Scanned }
    BY <1>5, <1>10, RunningView
  <2>4. { CondsAt(i)' : i \in Scanned }
          = { CondsAt(i) : i \in Scanned \ {k} } \cup {{<<b, d>>}}
    BY <2>1, <1>11, <1>12
  <2>5. Settled' = Settled \cup inflight  BY <2>2, <2>3, <2>4, <1>6
  <2>. QED  BY <2>5, <1>3, <1>5, RunningView DEF Abstract!Finish
<1>14. CASE pc[t] = "both"
  <2>1. CondsAt(k)' = CondsAt(k) \cup {<<b, d>>}
    <3>1. slots[k].coverage \in Directions \ {d}
      BY <1>1, <1>14 DEF IInv, ExecutedInv
    <3>2. CondsAt(k) = {<<b, slots[k].coverage>>}
      BY <3>1, <1>8 DEF CondsAt, CondsOf, Directions
    <3>3. CondsAt(k)' = {<<b, 0>>, <<b, 1>>}
      BY <1>9, <1>14 DEF CondsAt, CondsOf, Directions, new
    <3>. QED  BY <3>1, <3>2, <3>3, <1>0 DEF Directions
  <2>2. Settled = UNION { CondsAt(i) : i \in Scanned }
    BY <1>6, <1>14, RunningView
  <2>3. Settled' = UNION { CondsAt(i)' : i \in Scanned }
    BY <1>5, <1>10, RunningView
  <2>4. \A x : x \in Settled' <=> x \in Settled \/ x = <<b, d>>
    <3>1. \A x : x \in Settled <=> \E i \in Scanned : x \in CondsAt(i)
      BY <2>2
    <3>2. \A x : x \in Settled' <=> \E i \in Scanned : x \in CondsAt(i)'
      BY <2>3
    <3>. QED  BY <3>1, <3>2, <2>1, <1>11, <1>12
  <2>5. Settled' = Settled \cup inflight  BY <2>4, <1>6
  <2>. QED  BY <2>5, <1>3, <1>5, RunningView DEF Abstract!Finish
<1>. QED  BY <1>0, <1>13, <1>14

(* The end, at whatever place.                                             *)
LEMMA DieImplements ==
  ASSUME IInv, SumInv, proc = "running", proc' \in {"exited", "crashed", "killed"},
         UNCHANGED <<segment, index, index_map, pc, call, executed>>
  PROVE  Abstract!Die
<1>. TypeOK  BY DEF IInv
<1>1. /\ phase # "dead" /\ phase' = "dead" /\ (Loaded' <=> Loaded)
      /\ ~Stopped /\ Stopped'
  <2>1. ~Stopped /\ Stopped' /\ (Loaded' <=> Loaded)  BY DEF Stopped, Loaded
  <2>. QED  BY <2>1 DEF phase
<1>2. UNCHANGED <<slots, checksum, termination, brCount>>  BY DEF segment
<1>3. /\ Scanned' = Scanned /\ Hash' = Hash /\ inflight' = inflight
      /\ InFlightSlots' = InFlightSlots
  BY <1>2 DEF Scanned, Hash, Weight, inflight, InFlightSlots
<1>4. Settled' = UNION { CondsAt(i) : i \in Scanned }
  <2>1. Settled' = UNION { CondsAt(i)' : i \in Scanned' }
    BY <1>1 DEF Settled, CondsAt
  <2>2. { CondsAt(i)' : i \in Scanned } = { CondsAt(i) : i \in Scanned }
    BY <1>2 DEF CondsAt
  <2>. QED  BY <2>1, <2>2, <1>3
<1>5. Settled = UNION { CondsAt(i) : i \in Scanned \ (IF Loaded THEN InFlightSlots ELSE {}) }
  BY <1>1 DEF Settled, CondsAt
<1>6. /\ Hash = checksum => certified' = TRUE
      /\ Hash # checksum => certified' = FALSE
  BY <1>1, <1>2, <1>3, CertifiedNext
<1>7. CASE ~Loaded
  <2>1. \A u \in Threads : pc[u] \in {"unborn", "load", "header"}
    BY <1>7, ThreadsAssumption DEF IInv, ThreadsInv, Loaded
  <2>2. inflight = {}  BY <2>1, NothingInFlight DEF Writing
  <2>3. Settled' = Settled  BY <1>4, <1>5, <1>7
  <2>4. certified' = certified
    BY <1>1, <1>6, <1>7, CertifiedWhen
  <2>. QED  BY <2>2, <2>3, <2>4, <1>1, <1>2, <1>3 DEF Abstract!Die
<1>8. CASE Loaded /\ \A u \in Threads : pc[u] \notin Writing
  <2>1. inflight = {} /\ InFlightSlots = {}  BY <1>8, NothingInFlight
  <2>2. Settled' = Settled  BY <2>1, <1>4, <1>5
  <2>3. certified = TRUE  BY <1>1, <1>8, CertifiedWhen
  <2>4. Hash = checksum
    BY <1>8, HashIsRecorded DEF SumInv, Updating, Writing
  <2>. QED  BY <2>1, <2>2, <2>3, <2>4, <1>1, <1>2, <1>3, <1>6 DEF Abstract!Die
<1>9. ASSUME Loaded, NEW t \in Threads, pc[t] \in Writing PROVE Abstract!Die
  <2>. DEFINE b == call[t].id
              d == call[t].coverage
              k == index_map[b]
  <2>1. \A u \in Threads : u # t => pc[u] \notin Writing
    BY <1>9, OneInside DEF Inside, Writing
  <2>2. /\ inflight = {<<b, d>>}
        /\ InFlightSlots = IF pc[t] = "store" THEN {k} ELSE {}
    BY <1>9, <2>1, OneInFlight
  <2>3. certified' \in BOOLEAN  BY <1>6
  <2>4. CASE pc[t] # "store"
    <3>1. Settled' = Settled  BY <2>2, <2>4, <1>4, <1>5
    <3>. QED  BY <3>1, <2>2, <2>3, <1>1, <1>2, <1>3 DEF Abstract!Die
  <2>5. CASE pc[t] = "store"
    <3>1. b \in Branches /\ d \in Directions /\ k \in SlotIndex /\ k < index
          /\ b \in DOMAIN index_map
      BY <1>9, <2>5, SlotOfCall DEF Writing, Reserving
    <3>2. slots[k].id = b /\ slots[k].coverage = covFALSE
      BY <1>9, <2>5, <3>1 DEF IInv, SlotsInv, SumInv
    <3>3. Scanned = 0..(index - 1)  BY <1>9, ScannedSlots
    <3>4. k \in Scanned
      BY <3>1, <3>3, CountsAssumption DEF TypeOK, SlotIndex
    <3>5. CondsAt(k) = {<<b, covFALSE>>}
      BY <3>2 DEF CondsAt, CondsOf, Directions
    <3>6. Settled' = Settled \cup {<<b, covFALSE>>}
      <4>. HIDE DEF k
      <4>1. Settled = UNION { CondsAt(i) : i \in Scanned \ {k} }
        BY <1>5, <1>9, <2>2, <2>5
      <4>2. { CondsAt(i) : i \in Scanned }
              = { CondsAt(i) : i \in Scanned \ {k} } \cup {{<<b, covFALSE>>}}
        BY <3>4, <3>5
      <4>. QED  BY <4>1, <4>2, <1>4
    <3>7. \A e \in Directions : <<b, e>> \notin Settled
      <4>. SUFFICES ASSUME NEW i \in Scanned \ {k}, NEW e \in Directions,
                           <<b, e>> \in CondsAt(i)
                    PROVE  FALSE
        BY <1>5, <1>9, <2>2, <2>5
      <4>1. slots[i].id = b  BY DEF CondsAt, CondsOf
      <4>2. i \in SlotIndex /\ i < index
        BY <3>3, SlotBounds DEF TypeOK
      <4>3. index_map[slots[i].id] = i  BY <4>2, <1>9 DEF IInv, SlotsInv
      <4>. QED  BY <4>1, <4>3
    <3>8. certified' = (d = covFALSE)
      <4>1. Hash = Recorded /\ Recorded \in Int
        BY <1>9, HashIsRecorded, RecordedType
      <4>2. checksum = Recorded + d  BY <1>9, <2>5 DEF SumInv
      <4>3. CASE d = covFALSE
        <5>1. certified' = TRUE  BY <4>1, <4>2, <4>3, <1>6
        <5>. QED  BY <5>1, <4>3, Zenon
      <4>4. CASE d = covTRUE
        <5>1. certified' = FALSE /\ d # covFALSE  BY <4>1, <4>2, <4>4, <1>6
        <5>. QED  BY <5>1, Zenon
      <4>. QED  BY <4>3, <4>4, <3>1 DEF Directions
    <3>9. \E c \in inflight :
            /\ \A e \in Abstract!Directions : <<c[1], e>> \notin Settled
            /\ Settled' = Settled \cup {<<c[1], Abstract!covFALSE>>}
            /\ certified' = (c[2] = Abstract!covFALSE)
      BY <2>2, <3>6, <3>7, <3>8 DEF Abstract!Directions, Directions
    <3>. QED  BY <3>9, <1>1, <1>2, <1>3 DEF Abstract!Die
  <2>. QED  BY <2>4, <2>5
<1>. QED  BY <1>7, <1>8, <1>9

LEMMA InitImplements == Init => Abstract!Init
<1>. SUFFICES ASSUME Init PROVE Abstract!Init  OBVIOUS
<1>. TypeOK  BY InitType
<1>1. pc[Main] = "load" /\ proc = "running" /\ ~Loaded /\ ~Stopped
  BY ThreadsAssumption DEF Init, Loaded, Stopped
<1>2. phase = "loading"  BY <1>1 DEF phase
<1>3. inflight = {}
  BY NothingInFlight DEF Init, Writing
<1>4. Settled \in SUBSET (Nat \X Byte)
  <2>1. \A i \in SlotIndex : CondsAt(i) \subseteq Nat \X Byte
    BY DEF CondsAt, CondsOf, TypeOK, Directions, Byte
  <2>2. Settled = UNION { CondsAt(i) : i \in Scanned }
    BY <1>1 DEF Settled, CondsAt
  <2>3. Scanned \subseteq SlotIndex  BY DEF Scanned
  <2>. QED  BY <2>1, <2>2, <2>3
<1>5. certified \in BOOLEAN  BY CertifiedWhen
<1>6. executed = {} /\ termination \in Byte /\ brCount \in Nat
  BY DEF Init, TypeOK
<1>. QED
  BY <1>2, <1>3, <1>4, <1>5, <1>6 DEF Abstract!Init, Byte, Abstract!Byte

LEMMA StepImplements ==
  IInv /\ IInv' /\ SumInv /\ [Next]_vars => [Abstract!Next]_(Abstract!vars)
<1>. SUFFICES ASSUME IInv, IInv', SumInv, [Next]_vars
              PROVE  Abstract!Next \/ UNCHANGED Abstract!vars
  OBVIOUS
<1>. TypeOK  BY DEF IInv
<1>1. CASE UNCHANGED vars
  <2>1. UNCHANGED <<proc, segment, index_map, pc, call, executed, slots,
                    checksum, termination, brCount>>
    BY <1>1 DEF vars, segment, object, history
  <2>2. UNCHANGED <<phase, inflight>>
    BY <2>1 DEF phase, inflight, Stopped
  <2>3. UNCHANGED <<Settled, certified>>
    BY <2>1 DEF Settled, certified, Hash, Weight, Scanned, InFlightSlots,
                Loaded, Stopped
  <2>. QED  BY <2>1, <2>2, <2>3 DEF Abstract!vars
<1>2. CASE Next /\ Clear
  BY <1>2, ClearImplements DEF Next, Abstract!Next
<1>3. CASE Next /\ PutHeader
  BY <1>3, PutHeaderImplements DEF Next, Abstract!Next
<1>4. ASSUME Next, \/ Kill
                   \/ \E t \in Threads : Crash(t) \/ ExitDone(t)
      PROVE  Abstract!Next
  <2>1. /\ proc = "running" /\ proc' \in {"exited", "crashed", "killed"}
        /\ UNCHANGED <<segment, index, index_map, pc, call, executed>>
    BY <1>4 DEF Next, Kill, Crash, ExitDone, object, history
  <2>. QED  BY <2>1, DieImplements DEF Abstract!Next
<1>5. ASSUME Next, NEW t \in Threads,
             SetNormal \/ Probe(t) \/ UserExit(t) \/ \E c \in Calls : CallProbe(t, c)
      PROVE  Abstract!Next \/ UNCHANGED Abstract!vars
  <2>1. Runs
    <3>1. proc = "running"  BY <1>5 DEF Next
    <3>2. proc' = "running"
      BY <3>1, <1>5 DEF Probe, UserExit, CallProbe, Acquire, Overflow, ErrorProbe,
           ReadExhausted, ReadInput, GoalProbe, NewBranch, AddCoverage, SetNormal,
           StoreId, StoreCoverage, OldBranch, OtherDirection, StoreBoth, ReportAndExit
    <3>3. Loaded
      <4>1. CASE SetNormal  BY <4>1 DEF SetNormal, Loaded
      <4>2. CASE ~SetNormal
        <5>1. pc[t] \notin {"unborn", "load", "header"}
          BY <4>2, <1>5 DEF Probe, UserExit, CallProbe, Acquire, Overflow, ErrorProbe,
               ReadExhausted, ReadInput, GoalProbe, NewBranch, AddCoverage,
               StoreId, StoreCoverage, OldBranch, OtherDirection, StoreBoth, In
        <5>. QED  BY <5>1, Awake
      <4>. QED  BY <4>1, <4>2
    <3>4. Loaded'
      <4>1. \E label \in Inside \cup {"lock", "user", "exit"}, u \in Threads :
              pc' = [pc EXCEPT ![u] = label]
        BY <1>5, ThreadsAssumption
           DEF Probe, UserExit, CallProbe, Acquire, Overflow, ErrorProbe,
               ReadExhausted, ReadInput, GoalProbe, NewBranch, AddCoverage, SetNormal,
               StoreId, StoreCoverage, OldBranch, OtherDirection, StoreBoth,
               ReportAndExit, Release, CallExit, Goto, Inside
      <4>. QED  BY <4>1, <3>3, ThreadsAssumption DEF Loaded, TypeOK, Inside
    <3>. QED  BY <3>1, <3>2, <3>3, <3>4 DEF Runs
  <2>2. CASE SetNormal \/ ErrorProbe(t) \/ ReadExhausted(t)
    BY <2>1, <2>2, ReportSteps DEF Abstract!Next
  <2>3. ASSUME NEW c \in Calls, CallProbe(t, c)
        PROVE  Abstract!Next \/ UNCHANGED Abstract!vars
    BY <2>1, <2>3, CallImplements DEF Abstract!Next
  <2>4. CASE \/ Acquire(t) \/ ReadInput(t) \/ GoalProbe(t) \/ AddCoverage(t)
             \/ OldBranch(t) \/ UserExit(t)
    BY <2>1, <2>4, SilentSteps
  <2>5. CASE Overflow(t)  BY <2>1, <2>5, OverflowImplements DEF Abstract!Next
  <2>6. CASE NewBranch(t) \/ OtherDirection(t)
    BY <2>1, <2>6, BeginImplements DEF Abstract!Next
  <2>7. CASE StoreId(t)  BY <2>1, <2>7, StoreIdImplements
  <2>8. CASE StoreCoverage(t) \/ StoreBoth(t)
    BY <2>1, <2>8, FinishImplements DEF Abstract!Next
  <2>. QED
    BY <1>5, <2>2, <2>3, <2>4, <2>5, <2>6, <2>7, <2>8 DEF Probe
<1>. QED
  BY <1>1, <1>2, <1>3, <1>4, <1>5, ThreadsAssumption DEF Next, Startup, Benchmark

(* Whatever the threads of a benchmark do and wherever it is stopped, its  *)
(* driver sees an Execution: conditions recorded one at a time, the last   *)
(* one perhaps missing or torn, and a checksum that tells.                 *)
THEOREM TargetIsAnExecution == Spec => ImplementsExecution
<1>1. Init => Abstract!Init  BY InitImplements
<1>2. IInv /\ IInv' /\ SumInv /\ [Next]_vars => [Abstract!Next]_(Abstract!vars)
  BY StepImplements
<1>. QED
  BY <1>1, <1>2, InvarianceOfSum, PTL DEF Spec, ImplementsExecution, Abstract!Spec

(* What a right checksum certifies.                                        *)
THEOREM RightChecksumIsHonest == Spec => []CertifiedIsExecuted
<1>1. ASSUME IInv, SumInv PROVE CertifiedIsExecuted
  <2>. SUFFICES ASSUME Loaded, Hash = checksum, NEW c \in Covered
                PROVE  c \in executed
    BY DEF CertifiedIsExecuted
  <2>1. CASE \E t \in Threads : pc[t] = "store" /\ c = <<call[t].id, covFALSE>>
    <3>1. PICK t \in Threads : pc[t] = "store" /\ c = <<call[t].id, covFALSE>>
      BY <2>1
    <3>2. checksum = Recorded + call[t].coverage  BY <1>1, <3>1 DEF SumInv
    <3>3. Hash = Recorded /\ Recorded \in Int
      BY <1>1, HashIsRecorded, RecordedType
    <3>4. call[t].coverage \in Directions
      BY <1>1, <3>1, SlotOfCall DEF Writing
    <3>5. call[t].coverage = covFALSE
      BY <3>2, <3>3, <3>4 DEF Directions
    <3>6. <<call[t].id, call[t].coverage>> \in executed
      BY <1>1, <3>1 DEF IInv, ThreadsInv, CalledInv, InProbe, Inside, Writing
    <3>. QED  BY <3>1, <3>5, <3>6
  <2>. QED  BY <1>1, <2>1, CoveredIsExecuted
<1>. QED  BY <1>1, InvarianceOfSum, PTL

-----------------------------------------------------------------------------
(* The segment has room for a record of every branch, as a megabyte has    *)
(* for some 130000.                                                        *)
EnoughRoom ==
  \A image \in InputImages : image.size >= HeaderSize + sizeof_record * CondBrCount

(* The size of the segment does not change while the target runs.          *)
LEMMA SizeStays == Spec => [](\E image \in InputImages : size = image.size)
<1>. DEFINE Kept == \E image \in InputImages : size = image.size
<1>1. Init => Kept  BY DEF Init
<1>2. Kept /\ [Next]_vars => Kept'  BY DEF Next, vars
<1>. QED  BY <1>1, <1>2, PTL DEF Spec

(* Nothing in the probes keeps the records of a large benchmark from       *)
(* running past the end; with room for all of its branches none does, as   *)
(* no branch ever takes a second slot (target.cpp:18-41).                  *)
THEOREM RoomForAllIsEnough ==
  ASSUME EnoughRoom PROVE Spec => []RecordsFitRegion
<1>1. ASSUME IInv, \E image \in InputImages : size = image.size
      PROVE  RecordsFitRegion
  <2>1. size \in Nat /\ index \in Nat  BY <1>1 DEF IInv, TypeOK
  <2>2. index <= CondBrCount  BY <1>1, SlotBounds
  <2>3. size >= 17 + 8 * CondBrCount
    BY <1>1, EnoughRoom DEF EnoughRoom, HeaderSize, sizeof_record
  <2>4. 17 + 8 * (index - 1) + 5 <= size  BY <2>1, <2>2, <2>3, CountsAssumption
  <2>. QED  BY <2>4 DEF RecordsFitRegion, HeaderSize, sizeof_record, flattened_size
<1>. QED  BY <1>1, Invariance, SizeStays, PTL

-----------------------------------------------------------------------------
(* Whoever has the lock is at work in a probe, or has left with it.        *)
HolderInv ==
  \A t \in Threads : mutex = t => pc[t] \in Inside \/ t \in leaving

LEMMA StepHolder == IInv /\ HolderInv /\ [Next]_vars => HolderInv'
<1>. SUFFICES ASSUME IInv, HolderInv, [Next]_vars, NEW t \in Threads, mutex' = t
              PROVE  pc'[t] \in Inside \/ t \in leaving'
  BY DEF HolderInv
<1>1. /\ pc \in [Threads -> Outside \cup Inside] /\ leaving \subseteq Threads
      /\ mutex \in Threads \cup {NoThread} /\ NoThread \notin Threads
  BY ThreadsAssumption DEF IInv, TypeOK
<1>2. mutex = t => pc[t] \in Inside \/ t \in leaving  BY DEF HolderInv
<1>3. CASE UNCHANGED vars  BY <1>2, <1>3 DEF vars
<1>4. CASE Startup
  <2>1. pc[Main] \in {"load", "header"} /\ mutex' = mutex /\ leaving' = leaving
    BY <1>4 DEF Startup, Clear, PutHeader
  <2>2. pc[t] \notin Inside  BY <2>1 DEF IInv, ThreadsInv, Loaded, Inside
  <2>. QED  BY <1>2, <2>1, <2>2
<1>5. CASE SetNormal \/ Kill
  BY <1>1, <1>2, <1>5, ThreadsAssumption DEF SetNormal, Kill, CallExit, Goto, Inside
<1>6. ASSUME NEW u \in Threads, Probe(u) PROVE pc'[t] \in Inside \/ t \in leaving'
  <2>1. CASE Acquire(u)
    BY <1>1, <2>1 DEF Acquire, Goto, Inside, object, history
  <2>2. CASE Overflow(u) \/ ErrorProbe(u) \/ ReadExhausted(u)
    BY <1>1, <1>2, <2>2
       DEF Overflow, ErrorProbe, ReadExhausted, ReportAndExit, CallExit, Goto, Inside
  <2>3. CASE ReadInput(u) \/ GoalProbe(u) \/ StoreCoverage(u) \/ OldBranch(u)
             \/ StoreBoth(u)
    <3>1. mutex' = NoThread
      BY <2>3 DEF ReadInput, GoalProbe, StoreCoverage, OldBranch, StoreBoth,
         Release, Unlocked
    <3>. QED  BY <1>1, <3>1
  <2>4. CASE NewBranch(u) \/ AddCoverage(u) \/ StoreId(u) \/ OtherDirection(u)
    BY <1>1, <1>2, <2>4
       DEF NewBranch, AddCoverage, StoreId, OtherDirection, Goto, Inside
  <2>. QED  BY <1>6, <2>1, <2>2, <2>3, <2>4 DEF Probe
<1>7. ASSUME NEW u \in Threads, Benchmark(u) \/ ExitDone(u)
      PROVE  pc'[t] \in Inside \/ t \in leaving'
  BY <1>1, <1>2, <1>7
     DEF Benchmark, CallProbe, UserExit, Crash, ExitDone, CallExit, Goto, Inside
<1>. QED  BY <1>3, <1>4, <1>5, <1>6, <1>7 DEF Next

(* Why LeavingEnds has no exception but the one it names: a thread that    *)
(* waits for the lock waits for another at work in its probe, or for one   *)
(* that has called exit() with the lock in its hands (target.cpp:20-21,    *)
(* 75-76), and then nothing will give it back.                             *)
LockIsWorkedUnder ==
  \A t \in Threads :
    pc[t] = "lock" =>
      \/ mutex = NoThread
      \/ pc[mutex] \in Inside
      \/ mutex \in leaving

THEOREM WaitsForWorkOrExit == Spec => []LockIsWorkedUnder
<1>1. Init => HolderInv  BY ThreadsAssumption DEF Init, HolderInv
<1>2. IInv /\ HolderInv => LockIsWorkedUnder
  BY DEF IInv, TypeOK, HolderInv, LockIsWorkedUnder
<1>. QED  BY <1>1, <1>2, StepHolder, Invariance, PTL DEF Spec
=============================================================================
