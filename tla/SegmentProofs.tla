---------------------------- MODULE SegmentProofs ----------------------------
(***************************************************************************)
(* What is sent arrives, nothing old is read, and every field is where its *)
(* reader looks: proofs, for any sizes, lengths and numbers of executions. *)
(***************************************************************************)
EXTENDS Segment, TLAPS

(* Where the n-th field sent begins, and what the test's bytes look like.  *)
SentAt(n) ==
  CASE n = 0 -> 0 [] n = 1 -> 2 [] n = 2 -> 10 [] n = 3 -> 18 [] n = 4 -> 18 + length

SentByte(i) ==
  CASE i < 2 -> Cell("max_exec_megabytes", i)
    [] 2 <= i /\ i < 10 -> Cell("byte_count", i - 2)
    [] 10 <= i /\ i < 18 -> Cell("input_count", i - 10)
    [] 18 <= i -> Cell("bytes", i - 18)

Arrived(n) == \A i \in 0..(n - 1) : memory[i] = SentByte(i)

PutAt(n) ==
  CASE n = 0 -> 0 [] n = 1 -> 1 [] n = 2 -> 5 [] n = 3 -> 9 [] n = 4 -> 17

Running == target \in {"start", "load", "put", "main"}

(* The places of the two processes go together, ...                        *)
PlacesInv ==
  /\ Running => driver = "wait"
  /\ size # 0 \/ driver # "none" => size \in Sizes /\ DOMAIN memory = 0..(Mapped(size) - 1)
  /\ driver \in {"none", "test", "send"} => target = "none"
  /\ target \in {"none", "start"} => taken = 0
  /\ target \in {"none", "start", "load"} => put = 0

(* ... and so do the cursors.                                              *)
CursorsInv ==
  /\ driver = "send" => saved = SentAt(sent) /\ Arrived(saved)
  /\ driver = "wait" /\ target \in {"start", "load"} =>
       sent = 4 /\ Arrived(SentAt(4))
  /\ target = "load" => cursor = SentAt(taken)
  /\ target = "put" => saved = PutAt(put)

PlacedInv ==
  \A i \in DOMAIN memory :
    memory[i].of \in Output => i = ReadAt(memory[i].of) + memory[i].at

IInv == TypeOK /\ PlacesInv /\ CursorsInv /\ PlacedInv /\ InputArrives /\ NothingStale

-----------------------------------------------------------------------------
LEMMA SizeOf ==
  \A field \in Fields \ {"bytes"} : sizeof(field) \in Nat \ {0}
BY DEF Fields, Output, sizeof

LEMMA WidthOf == ASSUME TypeOK, NEW field \in Fields PROVE Width(field) \in Nat
BY SizeOf DEF TypeOK, Width

LEMMA MappedInt == \A s \in Sizes : Mapped(s) \in Int /\ Cleared(s) <= Mapped(s)
<1>. SUFFICES ASSUME NEW s \in Sizes PROVE Mapped(s) \in Int
  BY SizesAssumption
<1>. DEFINE pages == (s + sizeof_saved + Page - 1) \div Page
<1>1. s \in Nat  BY SizesAssumption
<1>2. pages \in Int  BY <1>1, PageAssumption DEF sizeof_saved
<1>3. Mapped(s) = pages * Page - 8  BY DEF Mapped, sizeof_saved
<1>. HIDE DEF pages
<1>. QED  BY <1>2, <1>3, PageAssumption

(* What a store leaves in a byte.                                          *)
LEMMA StoredByte ==
  ASSUME NEW address \in Nat, NEW field, NEW k \in Nat, NEW n \in Nat,
         DOMAIN memory \subseteq Nat
  PROVE  /\ DOMAIN Stored(address, field, k, n) = DOMAIN memory
         /\ \A i \in DOMAIN memory :
              Stored(address, field, k, n)[i] =
                IF i \in address..(address + n - 1)
                THEN Cell(field, k + (i - address)) ELSE memory[i]
<1>. DEFINE S == Stored(address, field, k, n)
<1>1. DOMAIN S = DOMAIN memory  BY DEF Stored
<1>2. ASSUME NEW i \in DOMAIN memory
      PROVE  S[i] = IF i \in address..(address + n - 1)
                    THEN Cell(field, k + (i - address)) ELSE memory[i]
  <2>1. S[i] = IF address <= i /\ i < address + n
               THEN Cell(field, k + i - address) ELSE memory[i]
    BY DEF Stored
  <2>2. i \in Nat  OBVIOUS
  <2>3. k + i - address = k + (i - address)  BY <2>2
  <2>. HIDE DEF S
  <2>. QED  BY <2>1, <2>2, <2>3
<1>. QED  BY <1>1, <1>2

LEMMA InitHolds == ASSUME Init PROVE IInv
BY DEF Init, IInv, TypeOK, PlacesInv, CursorsInv, PlacedInv, InputArrives,
   NothingStale, Running, Output

-----------------------------------------------------------------------------
(* Whatever is stored, the bytes stay bytes, and an output byte stored     *)
(* where it is looked for leaves them all where they are looked for.       *)
LEMMA StoreKeeps ==
  ASSUME TypeOK, PlacedInv, DOMAIN memory \subseteq Nat,
         NEW address \in Nat, NEW field \in Fields, NEW k \in Nat, NEW n \in Nat,
         memory' = Stored(address, field, k, n),
         field \in Output => address = ReadAt(field) + k
  PROVE  /\ \A i \in DOMAIN memory' : memory'[i] \in Cells \cup {Zero}
         /\ PlacedInv'
         /\ DOMAIN memory' = DOMAIN memory
<1>1. /\ DOMAIN memory' = DOMAIN memory
      /\ \A i \in DOMAIN memory :
           memory'[i] = IF i \in address..(address + n - 1)
                        THEN Cell(field, k + (i - address)) ELSE memory[i]
  BY StoredByte
<1>2. ASSUME NEW i \in DOMAIN memory
      PROVE  /\ memory'[i] \in Cells \cup {Zero}
             /\ memory'[i].of \in Output => i = ReadAt(memory'[i].of) + memory'[i].at
  <2>1. CASE i \in address..(address + n - 1)
    <3>1. k + (i - address) \in Nat /\ execution \in Nat  BY <2>1 DEF TypeOK
    <3>2. memory'[i] = Cell(field, k + (i - address))  BY <1>1, <2>1
    <3>3. memory'[i] \in Cells  BY <3>1, <3>2 DEF Cell, Cells
    <3>4. memory'[i].of = field /\ memory'[i].at = k + (i - address)
      BY <3>2 DEF Cell
    <3>5. field \in Output => ReadAt(field) \in Nat
      BY DEF Output, ReadAt, HeaderSize
    <3>6. i \in Nat  OBVIOUS
    <3>. QED  BY <3>3, <3>4, <3>5, <3>6
  <2>2. CASE i \notin address..(address + n - 1)
    BY <1>1, <2>2 DEF TypeOK, PlacedInv
  <2>. QED  BY <2>1, <2>2
<1>. QED  BY <1>1, <1>2 DEF PlacedInv

LEMMA WipeKeeps ==
  ASSUME TypeOK, PlacedInv, memory' = Wiped
  PROVE  /\ \A i \in DOMAIN memory' : memory'[i] \in Cells \cup {Zero}
         /\ PlacedInv'
         /\ DOMAIN memory' = DOMAIN memory
         /\ \A i \in DOMAIN memory : i < Cleared(size) => memory'[i] = Zero
<1>1. /\ DOMAIN memory' = DOMAIN memory
      /\ \A i \in DOMAIN memory :
           memory'[i] = IF i < Cleared(size) THEN Zero ELSE memory[i]
  BY DEF Wiped
<1>2. Zero.of \notin Output  BY DEF Zero, Output
<1>. QED  BY <1>1, <1>2 DEF TypeOK, PlacedInv

(* A store of this execution leaves nothing of another.                    *)
LEMMA StoreIsNew ==
  ASSUME NothingStale, DOMAIN memory \subseteq Nat,
         NEW address \in Nat, NEW field, NEW k \in Nat, NEW n \in Nat,
         memory' = Stored(address, field, k, n),
         size' = size, execution' = execution,
         driver \in {"send", "wait", "classify", "read"}
  PROVE  NothingStale'
<1>1. /\ DOMAIN memory' = DOMAIN memory
      /\ \A i \in DOMAIN memory :
           memory'[i] = IF i \in address..(address + n - 1)
                        THEN Cell(field, k + (i - address)) ELSE memory[i]
  BY StoredByte
<1>2. ASSUME NEW i \in DOMAIN memory, i < Cleared(size), memory'[i] # Zero
      PROVE  memory'[i].execution = execution
  <2>1. CASE memory'[i] = memory[i]
    BY <1>2, <2>1 DEF NothingStale, Written
  <2>2. CASE memory'[i] = Cell(field, k + (i - address))
    BY <2>2 DEF Cell
  <2>. QED  BY <1>1, <2>1, <2>2
<1>3. Cleared(size)' = Cleared(size)  BY DEF Cleared
<1>. QED  BY <1>1, <1>2, <1>3 DEF NothingStale, Written

-----------------------------------------------------------------------------
(* A step that leaves the segment alone, or puts one byte of termination.  *)
LEMMA QuietStep ==
  ASSUME IInv, UNCHANGED <<segment, execution, length>>,
         driver' \in {"send", "wait", "classify", "read"} =>
           driver \in {"send", "wait", "classify", "read"}
  PROVE  /\ \A i \in DOMAIN memory' : memory'[i] \in Cells \cup {Zero}
         /\ PlacedInv' /\ NothingStale'
<1>1. UNCHANGED <<size, memory, execution>>  BY DEF segment
<1>2. \A i \in DOMAIN memory' : memory'[i] \in Cells \cup {Zero}
  BY <1>1 DEF IInv, TypeOK
<1>3. PlacedInv'  BY <1>1 DEF IInv, PlacedInv
<1>4. NothingStale'  BY <1>1 DEF IInv, NothingStale, Written, Cleared
<1>. QED  BY <1>2, <1>3, <1>4

LEMMA TerminationStep ==
  ASSUME IInv, SetTermination, UNCHANGED <<size, execution>>,
         driver \in {"wait", "classify"}
  PROVE  /\ \A i \in DOMAIN memory' : memory'[i] \in Cells \cup {Zero}
         /\ PlacedInv' /\ NothingStale' /\ DOMAIN memory' = DOMAIN memory
<1>1. DOMAIN memory \subseteq Nat
  BY MappedInt DEF IInv, PlacesInv
<1>2. "termination" \in Fields /\ "termination" \in Output
      /\ ReadAt("termination") + 0 = 0
  BY DEF Fields, Output, ReadAt
<1>3. memory' = Stored(0, "termination", 0, 1)  BY DEF SetTermination
<1>. QED  BY <1>1, <1>2, <1>3, StoreKeeps, StoreIsNew DEF IInv

-----------------------------------------------------------------------------
(* The driver's steps.                                                     *)
LEMMA KeepsInitSharedMemory ==
  ASSUME IInv, NEW s \in Sizes, InitSharedMemory(s)
  PROVE  IInv'
<1>1. /\ size' = s /\ driver' = "test" /\ driver = "none" /\ target = "none"
      /\ UNCHANGED <<saved, execution, length, sent, target, cursor, taken, put, intact>>
  BY DEF InitSharedMemory, targetVars, IInv, PlacesInv
<1>2. s \in Nat  BY SizesAssumption
<1>3. DOMAIN memory' = 0..(Mapped(s) - 1)
      /\ \A i \in DOMAIN memory' :
           memory'[i] = IF i < size /\ i < s THEN memory[i] ELSE Zero
  BY DEF InitSharedMemory
<1>4. ASSUME NEW i \in DOMAIN memory', i < size, i < s  PROVE i \in DOMAIN memory
  <2>1. i \in Nat /\ size \in Nat  BY <1>3, <1>4, MappedInt DEF IInv, TypeOK
  <2>2. size \in Sizes /\ DOMAIN memory = 0..(Mapped(size) - 1)
    BY <1>4, <2>1 DEF IInv, PlacesInv
  <2>3. Mapped(size) \in Int /\ size + 8 <= Mapped(size)
    BY <2>2, MappedInt DEF Cleared, sizeof_saved
  <2>. QED  BY <1>4, <2>1, <2>2, <2>3
<1>5. Zero.of \notin Output  BY DEF Zero, Output
<1>6. \A i \in DOMAIN memory' : memory'[i] = Zero \/ (i \in DOMAIN memory /\ memory'[i] = memory[i])
  BY <1>3, <1>4
<1>7. TypeOK'
  <2>1. \A i \in DOMAIN memory' : memory'[i] \in Cells \cup {Zero}
    BY <1>6 DEF IInv, TypeOK
  <2>. QED  BY <1>1, <1>2, <2>1 DEF IInv, TypeOK
<1>8. PlacedInv'  BY <1>5, <1>6 DEF IInv, PlacedInv
<1>9. PlacesInv'  BY <1>1, <1>3 DEF IInv, PlacesInv, Running
<1>10. CursorsInv'  BY <1>1 DEF CursorsInv
<1>. QED  BY <1>1, <1>7, <1>8, <1>9, <1>10 DEF IInv, InputArrives, NothingStale

LEMMA KeepsClear ==
  ASSUME IInv, NEW n \in Lengths, Clear(n)
  PROVE  IInv'
<1>1. /\ driver = "test" /\ driver' = "send" /\ memory' = Wiped /\ saved' = 0
      /\ execution' = execution + 1 /\ length' = n /\ sent' = 0
      /\ UNCHANGED <<size, target, cursor, taken, put, intact>>
  BY DEF Clear, targetVars
<1>2. n \in Nat /\ execution' \in Nat
  BY <1>1, BoundsAssumption DEF IInv, TypeOK
<1>3. /\ \A i \in DOMAIN memory' : memory'[i] \in Cells \cup {Zero}
      /\ PlacedInv' /\ DOMAIN memory' = DOMAIN memory
      /\ \A i \in DOMAIN memory : i < Cleared(size) => memory'[i] = Zero
  BY <1>1, WipeKeeps DEF IInv
<1>4. TypeOK'  BY <1>1, <1>2, <1>3 DEF IInv, TypeOK
<1>5. PlacesInv'  BY <1>1, <1>3 DEF IInv, PlacesInv, Running
<1>6. target' = "none"  BY <1>1 DEF IInv, PlacesInv
<1>7. CursorsInv'
  <2>1. SentAt(sent)' = 0  BY <1>1 DEF SentAt
  <2>2. Arrived(saved)'  BY <1>1 DEF Arrived
  <2>. QED  BY <1>1, <1>6, <2>1, <2>2 DEF CursorsInv
<1>8. NothingStale'
  BY <1>1, <1>3 DEF NothingStale, Written, Cleared
<1>. QED  BY <1>1, <1>3, <1>4, <1>5, <1>7, <1>8 DEF IInv, InputArrives

(* The n-th field lies between where it and the next one begin.            *)
LEMMA FieldSent ==
  ASSUME length \in Nat, NEW n \in 0..3
  PROVE  /\ SendOrder[n + 1] \in Fields \ Output /\ LoadOrder[n + 1] = SendOrder[n + 1]
         /\ Width(SendOrder[n + 1]) \in Nat /\ SentAt(n) \in Nat
         /\ SentAt(n + 1) = SentAt(n) + Width(SendOrder[n + 1])
         /\ SentAt(n + 1) <= SentAt(4)
         /\ \A i \in SentAt(n)..(SentAt(n + 1) - 1) :
              SentByte(i) = Cell(SendOrder[n + 1], i - SentAt(n))
<1>1. CASE n = 0
  <2>1. SendOrder[n + 1] = "max_exec_megabytes" /\ LoadOrder[n + 1] = "max_exec_megabytes"
    BY <1>1 DEF SendOrder, LoadOrder
  <2>2. SentAt(n) = 0 /\ SentAt(n + 1) = 2 /\ SentAt(4) = 18 + length
    BY <1>1 DEF SentAt
  <2>3. \A i \in 0..1 : SentByte(i) = Cell("max_exec_megabytes", i - 0)
    BY DEF SentByte
  <2>. QED  BY <2>1, <2>2, <2>3 DEF Fields, Output, Width, sizeof
<1>2. CASE n = 1
  <2>1. SendOrder[n + 1] = "byte_count" /\ LoadOrder[n + 1] = "byte_count"
    BY <1>2 DEF SendOrder, LoadOrder
  <2>2. SentAt(n) = 2 /\ SentAt(n + 1) = 10 /\ SentAt(4) = 18 + length
    BY <1>2 DEF SentAt
  <2>3. \A i \in 2..9 : SentByte(i) = Cell("byte_count", i - 2)
    BY DEF SentByte
  <2>. QED  BY <2>1, <2>2, <2>3 DEF Fields, Output, Width, sizeof
<1>3. CASE n = 2
  <2>1. SendOrder[n + 1] = "input_count" /\ LoadOrder[n + 1] = "input_count"
    BY <1>3 DEF SendOrder, LoadOrder
  <2>2. SentAt(n) = 10 /\ SentAt(n + 1) = 18 /\ SentAt(4) = 18 + length
    BY <1>3 DEF SentAt
  <2>3. \A i \in 10..17 : SentByte(i) = Cell("input_count", i - 10)
    BY DEF SentByte
  <2>. QED  BY <2>1, <2>2, <2>3 DEF Fields, Output, Width, sizeof
<1>4. CASE n = 3
  <2>1. SendOrder[n + 1] = "bytes" /\ LoadOrder[n + 1] = "bytes"
    BY <1>4 DEF SendOrder, LoadOrder
  <2>2. SentAt(n) = 18 /\ SentAt(n + 1) = 18 + length /\ SentAt(4) = 18 + length
    BY <1>4 DEF SentAt
  <2>3. \A i \in 18..(18 + length - 1) : SentByte(i) = Cell("bytes", i - 18)
    BY DEF SentByte
  <2>. QED  BY <2>1, <2>2, <2>3 DEF Fields, Output, Width
<1>. QED  BY <1>1, <1>2, <1>3, <1>4

LEMMA KeepsSend ==
  ASSUME IInv, NEW field \in Fields, Send(field)
  PROVE  IInv'
<1>. DEFINE n == Width(field)
<1>1. /\ driver = "send" /\ sent \in 0..3 /\ field = SendOrder[sent + 1]
      /\ memory' = Stored(saved, field, 0, n)
      /\ UNCHANGED <<size, execution, length, target, cursor, taken, put, intact>>
      /\ length \in Nat /\ saved \in Nat /\ target = "none"
  BY DEF Send, Accepted, targetVars, IInv, TypeOK, PlacesInv
<1>2. /\ \/ driver' = "none" /\ UNCHANGED <<saved, sent>>
         \/ /\ driver' = driver /\ sent' = sent + 1 /\ saved' = saved + n
            /\ saved + n <= Mapped(size)
  BY DEF Send, Mappable
<1>3. n \in Nat /\ field \notin Output  BY <1>1, FieldSent
<1>4. size \in Sizes /\ DOMAIN memory = 0..(Mapped(size) - 1)
  BY <1>1 DEF IInv, PlacesInv
<1>5. DOMAIN memory \subseteq Nat  BY <1>4, MappedInt
<1>. HIDE DEF n
<1>6. /\ \A i \in DOMAIN memory' : memory'[i] \in Cells \cup {Zero}
      /\ PlacedInv' /\ DOMAIN memory' = DOMAIN memory
  BY <1>1, <1>3, <1>5, StoreKeeps DEF IInv
<1>7. NothingStale'
  BY <1>1, <1>3, <1>5, StoreIsNew DEF IInv
<1>8. TypeOK'
  BY <1>1, <1>2, <1>3, <1>6 DEF IInv, TypeOK
<1>9. PlacesInv'
  BY <1>1, <1>2, <1>4, <1>6 DEF IInv, PlacesInv, Running
<1>10. CursorsInv'
  <2>1. SUFFICES ASSUME driver' = "send"  PROVE saved' = SentAt(sent)' /\ Arrived(saved)'
    BY <1>1 DEF CursorsInv
  <2>2. sent' = sent + 1 /\ saved' = saved + n /\ saved + n <= Mapped(size)
    BY <1>2, <2>1
  <2>3. saved = SentAt(sent) /\ Arrived(saved)  BY <1>1 DEF IInv, CursorsInv
  <2>4. SentAt(sent)' = SentAt(sent + 1)  BY <1>1, <2>2 DEF SentAt
  <2>5. saved' = SentAt(sent + 1)
    BY <1>1, <2>2, <2>3, FieldSent DEF n
  <2>6. ASSUME NEW i \in 0..(saved' - 1)  PROVE memory'[i] = SentByte(i)
    <3>1. i \in DOMAIN memory /\ i \in Nat
      BY <1>1, <1>3, <1>4, <2>2, <2>6, MappedInt
    <3>2. memory'[i] = IF i \in saved..(saved + n - 1)
                       THEN Cell(field, 0 + (i - saved)) ELSE memory[i]
      BY <1>1, <1>3, <1>5, <3>1, StoredByte
    <3>3. CASE i < saved
      BY <1>1, <2>3, <3>1, <3>2, <3>3 DEF Arrived
    <3>4. CASE i >= saved
      <4>1. i \in saved..(saved + n - 1) /\ 0 + (i - saved) = i - saved
        BY <1>1, <1>3, <2>2, <2>6, <3>1, <3>4
      <4>2. i \in SentAt(sent)..(SentAt(sent + 1) - 1)
        BY <2>2, <2>3, <2>5, <4>1
      <4>. QED  BY <1>1, <2>3, <3>2, <4>1, <4>2, FieldSent
    <3>. QED  BY <1>1, <3>1, <3>3, <3>4
  <2>7. \A i : SentByte(i)' = SentByte(i)  BY <1>1 DEF SentByte, Cell
  <2>8. Arrived(saved)'  BY <2>6, <2>7 DEF Arrived
  <2>. QED  BY <2>4, <2>5, <2>8
<1>. QED  BY <1>1, <1>6, <1>7, <1>8, <1>9, <1>10 DEF IInv, InputArrives

LEMMA KeepsOtherDriver ==
  ASSUME IInv, StartTarget \/ WaitOver \/ AddExecution \/ DriverEnds
  PROVE  IInv'
<1>0. TypeOK /\ PlacesInv /\ CursorsInv /\ InputArrives  BY DEF IInv
<1>1. UNCHANGED <<size, saved, memory, execution, length, sent>>
  BY DEF StartTarget, WaitOver, AddExecution, DriverEnds, segment
<1>2. /\ \A i \in DOMAIN memory' : memory'[i] \in Cells \cup {Zero}
      /\ PlacedInv' /\ NothingStale'
  BY QuietStep DEF StartTarget, WaitOver, AddExecution, DriverEnds
<1>3. CASE StartTarget
  <2>1. /\ driver = "send" /\ sent = 4 /\ driver' = "wait" /\ target' = "start"
        /\ target = "none" /\ UNCHANGED <<cursor, taken, put, intact>>
    BY <1>0, <1>3 DEF StartTarget, PlacesInv
  <2>2. TypeOK'  BY <1>0, <1>1, <1>2, <2>1 DEF TypeOK
  <2>3. PlacesInv'  BY <1>0, <1>1, <2>1 DEF PlacesInv, Running
  <2>4. Arrived(SentAt(4))'
    BY <1>0, <1>1, <2>1 DEF CursorsInv, Arrived, SentAt, SentByte, Cell
  <2>5. CursorsInv'  BY <1>1, <2>1, <2>4 DEF CursorsInv
  <2>. QED  BY <1>0, <1>2, <2>1, <2>2, <2>3, <2>5 DEF IInv, InputArrives
<1>4. CASE WaitOver
  <2>1. /\ driver = "wait" /\ driver' = "classify" /\ target' = "ended"
        /\ UNCHANGED <<cursor, taken, put, intact>>
    BY <1>4 DEF WaitOver
  <2>2. TypeOK'  BY <1>0, <1>1, <1>2, <2>1 DEF TypeOK
  <2>3. PlacesInv'  BY <1>0, <1>1, <2>1 DEF PlacesInv, Running
  <2>4. CursorsInv'  BY <2>1 DEF CursorsInv
  <2>. QED  BY <1>0, <1>2, <2>1, <2>2, <2>3, <2>4 DEF IInv, InputArrives
<1>5. CASE AddExecution \/ DriverEnds
  <2>1. /\ driver' \in {"test", "none"} /\ driver # "none"
        /\ target' = "none" /\ cursor' \in Nat /\ taken' = 0 /\ put' = 0 /\ intact' = TRUE
    <3>1. CASE AddExecution  BY <3>1 DEF AddExecution, NoTarget
    <3>2. CASE DriverEnds
      BY <1>0, <3>2 DEF DriverEnds, targetVars, PlacesInv, TypeOK, InputArrives
    <3>. QED  BY <1>5, <3>1, <3>2
  <2>2. TypeOK'  BY <1>0, <1>1, <1>2, <2>1 DEF TypeOK
  <2>3. PlacesInv'  BY <1>0, <1>1, <2>1 DEF PlacesInv, Running
  <2>4. CursorsInv'  BY <2>1 DEF CursorsInv
  <2>. QED  BY <1>2, <2>1, <2>2, <2>3, <2>4 DEF IInv, InputArrives
<1>. QED  BY <1>3, <1>4, <1>5

(* A termination byte, of the driver or of the target.                     *)
LEMMA KeepsTermination ==
  ASSUME IInv, Classify \/ Overflow \/ Leave
  PROVE  IInv'
<1>0. TypeOK /\ PlacesInv /\ CursorsInv /\ InputArrives  BY DEF IInv
<1>1. /\ UNCHANGED <<size, saved, execution, length, sent, cursor, taken, put, intact>>
      /\ SetTermination \/ UNCHANGED memory
      /\ \/ driver = "classify" /\ driver' = "read" /\ target' = target
         \/ driver = "wait" /\ driver' = "wait" /\ target' = "ended"
  <2>1. CASE Classify  BY <2>1 DEF Classify, targetVars
  <2>2. CASE Overflow \/ Leave
    <3>1. target = "main"  BY <2>2 DEF Overflow, Leave
    <3>2. driver = "wait"  BY <1>0, <3>1 DEF PlacesInv, Running
    <3>. QED  BY <2>2, <3>2 DEF Overflow, Leave, Goto, driverVars
  <2>. QED  BY <2>1, <2>2
<1>2. /\ \A i \in DOMAIN memory' : memory'[i] \in Cells \cup {Zero}
      /\ PlacedInv' /\ NothingStale' /\ DOMAIN memory' = DOMAIN memory
  <2>1. CASE SetTermination  BY <1>1, <2>1, TerminationStep
  <2>2. CASE UNCHANGED memory  BY <1>1, <2>2, QuietStep DEF segment
  <2>. QED  BY <1>1, <2>1, <2>2
<1>3. ~Running'
  BY <1>0, <1>1 DEF PlacesInv, Running
<1>4. TypeOK'  BY <1>0, <1>1, <1>2 DEF TypeOK
<1>5. PlacesInv'  BY <1>0, <1>1, <1>2, <1>3 DEF PlacesInv, Running
<1>6. CursorsInv'  BY <1>1, <1>3 DEF CursorsInv, Running
<1>. QED  BY <1>0, <1>1, <1>2, <1>4, <1>5, <1>6 DEF IInv, InputArrives

-----------------------------------------------------------------------------
(* The target's steps.                                                     *)
LEMMA KeepsPlace ==
  ASSUME IInv, MapRegion \/ OriginalMain \/ Die
  PROVE  IInv'
<1>0. TypeOK /\ PlacesInv /\ CursorsInv /\ InputArrives  BY DEF IInv
<1>1. /\ UNCHANGED <<size, saved, memory, driver, execution, length, sent,
                     taken, put, intact>>
      /\ \/ target = "start" /\ target' = "load" /\ cursor' = 0
         \/ target = "put" /\ target' = "main" /\ cursor' = cursor
         \/ target \notin {"none", "ended"} /\ target' = "ended" /\ cursor' = cursor
  BY DEF MapRegion, OriginalMain, Die, Goto, segment, driverVars
<1>2. /\ \A i \in DOMAIN memory' : memory'[i] \in Cells \cup {Zero}
      /\ PlacedInv' /\ NothingStale'
  BY <1>1, QuietStep DEF segment
<1>3. TypeOK'  BY <1>0, <1>1, <1>2 DEF TypeOK
<1>4. driver = "wait"  BY <1>0, <1>1 DEF PlacesInv, Running, TypeOK
<1>5. PlacesInv'  BY <1>0, <1>1, <1>4 DEF PlacesInv, Running
<1>6. CursorsInv'
  <2>1. Arrived(SentAt(4))' = Arrived(SentAt(4))
    BY <1>1 DEF Arrived, SentAt, SentByte, Cell
  <2>2. target = "start" => SentAt(taken)' = 0
    BY <1>0, <1>1 DEF PlacesInv, SentAt
  <2>. QED  BY <1>0, <1>1, <1>4, <2>1, <2>2 DEF CursorsInv
<1>. QED  BY <1>0, <1>1, <1>2, <1>3, <1>5, <1>6 DEF IInv, InputArrives

LEMMA KeepsLoad ==
  ASSUME IInv, NEW field \in Fields, Load(field)
  PROVE  IInv'
<1>0. TypeOK /\ PlacesInv /\ CursorsInv /\ InputArrives  BY DEF IInv
<1>1. /\ UNCHANGED <<size, saved, memory, driver, execution, length, sent, target, put>>
      /\ target = "load" /\ taken \in 0..3 /\ field = LoadOrder[taken + 1]
      /\ taken' = taken + 1 /\ cursor' = cursor + LoadedWidth(field)
      /\ intact' = (intact /\ \A k \in 0..(LoadedWidth(field) - 1) :
                                memory[cursor + k] = Cell(field, k))
  BY <1>0 DEF Load, segment, driverVars, TypeOK
<1>2. /\ \A i \in DOMAIN memory' : memory'[i] \in Cells \cup {Zero}
      /\ PlacedInv' /\ NothingStale'
  BY <1>1, QuietStep DEF segment
<1>3. driver = "wait" /\ sent = 4 /\ Arrived(SentAt(4)) /\ cursor = SentAt(taken)
  BY <1>0, <1>1 DEF PlacesInv, Running, CursorsInv
<1>4. length \in Nat /\ intact  BY <1>0 DEF TypeOK, InputArrives
<1>5. LoadedWidth(field) = Width(field)  BY <1>4 DEF LoadedWidth, Width
<1>6. /\ Width(field) \in Nat /\ SentAt(taken) \in Nat
      /\ SentAt(taken + 1) = SentAt(taken) + Width(field)
      /\ SentAt(taken + 1) <= SentAt(4)
      /\ \A i \in SentAt(taken)..(SentAt(taken + 1) - 1) :
           SentByte(i) = Cell(field, i - SentAt(taken))
  BY <1>1, <1>4, FieldSent
<1>7. ASSUME NEW k \in 0..(Width(field) - 1)
      PROVE  memory[cursor + k] = Cell(field, k)
  <2>1. /\ cursor + k \in SentAt(taken)..(SentAt(taken + 1) - 1)
        /\ (cursor + k) - SentAt(taken) = k
    BY <1>3, <1>6, <1>7
  <2>2. SentAt(4) \in Nat  BY <1>4 DEF SentAt
  <2>3. cursor + k \in 0..(SentAt(4) - 1)  BY <1>6, <2>1, <2>2
  <2>4. memory[cursor + k] = SentByte(cursor + k)  BY <1>3, <2>3 DEF Arrived
  <2>. DEFINE i == cursor + k
  <2>5. i \in SentAt(taken)..(SentAt(taken + 1) - 1)  BY <2>1
  <2>. HIDE DEF i
  <2>6. SentByte(i) = Cell(field, i - SentAt(taken))  BY <1>6, <2>5
  <2>7. i - SentAt(taken) = k /\ memory[i] = SentByte(i)  BY <2>1, <2>4 DEF i
  <2>8. memory[i] = Cell(field, k)  BY <2>6, <2>7
  <2>. QED  BY <2>8 DEF i
<1>8. intact' = TRUE  BY <1>1, <1>4, <1>5, <1>7
<1>9. TypeOK'
  BY <1>0, <1>1, <1>2, <1>5, <1>6, <1>8 DEF TypeOK
<1>10. PlacesInv'  BY <1>0, <1>1 DEF PlacesInv, Running
<1>11. CursorsInv'
  <2>1. Arrived(SentAt(4))' = Arrived(SentAt(4))
    BY <1>1 DEF Arrived, SentAt, SentByte, Cell
  <2>2. SentAt(taken)' = SentAt(taken + 1)  BY <1>1 DEF SentAt
  <2>. QED  BY <1>1, <1>3, <1>5, <1>6, <2>1, <2>2 DEF CursorsInv
<1>. QED  BY <1>2, <1>8, <1>9, <1>10, <1>11 DEF IInv, InputArrives

LEMMA KeepsClearAgain ==
  ASSUME IInv, ClearAgain
  PROVE  IInv'
<1>0. TypeOK /\ PlacesInv /\ CursorsInv /\ InputArrives  BY DEF IInv
<1>1. /\ target = "load" /\ target' = "put" /\ memory' = Wiped
      /\ saved' = 0 /\ cursor' = 0
      /\ UNCHANGED <<size, driver, execution, length, sent, taken, put, intact>>
  BY DEF ClearAgain, Goto, driverVars
<1>2. driver = "wait" /\ put = 0  BY <1>0, <1>1 DEF PlacesInv, Running
<1>3. /\ \A i \in DOMAIN memory' : memory'[i] \in Cells \cup {Zero}
      /\ PlacedInv' /\ DOMAIN memory' = DOMAIN memory
      /\ \A i \in DOMAIN memory : i < Cleared(size) => memory'[i] = Zero
  BY <1>1, WipeKeeps DEF IInv
<1>4. TypeOK'  BY <1>0, <1>1, <1>3 DEF TypeOK
<1>5. PlacesInv'  BY <1>0, <1>1, <1>2, <1>3 DEF PlacesInv, Running
<1>6. CursorsInv'
  <2>1. PutAt(put)' = 0  BY <1>1, <1>2 DEF PutAt
  <2>. QED  BY <1>1, <1>2, <2>1 DEF CursorsInv
<1>7. NothingStale'  BY <1>1, <1>3 DEF NothingStale, Written, Cleared
<1>. QED  BY <1>0, <1>1, <1>3, <1>4, <1>5, <1>6, <1>7 DEF IInv, InputArrives

(* The n-th field put lies where it is read.                               *)
LEMMA FieldPut ==
  ASSUME NEW n \in 0..3
  PROVE  /\ PutOrder[n + 1] \in Output /\ PutOrder[n + 1] \in Fields
         /\ sizeof(PutOrder[n + 1]) \in Nat
         /\ PutAt(n) = ReadAt(PutOrder[n + 1]) + 0
         /\ PutAt(n + 1) = PutAt(n) + sizeof(PutOrder[n + 1])
<1>1. CASE n = 0  BY <1>1 DEF PutOrder, Output, Fields, sizeof, PutAt, ReadAt
<1>2. CASE n = 1  BY <1>2 DEF PutOrder, Output, Fields, sizeof, PutAt, ReadAt
<1>3. CASE n = 2  BY <1>3 DEF PutOrder, Output, Fields, sizeof, PutAt, ReadAt
<1>4. CASE n = 3  BY <1>4 DEF PutOrder, Output, Fields, sizeof, PutAt, ReadAt
<1>. QED  BY <1>1, <1>2, <1>3, <1>4

LEMMA KeepsPutField ==
  ASSUME IInv, NEW field \in Fields, PutField(field)
  PROVE  IInv'
<1>0. TypeOK /\ PlacesInv /\ CursorsInv /\ InputArrives  BY DEF IInv
<1>1. /\ target = "put" /\ put \in 0..3 /\ field = PutOrder[put + 1]
      /\ memory' = Stored(saved, field, 0, sizeof(field))
      /\ saved' = saved + sizeof(field) /\ put' = put + 1
      /\ UNCHANGED <<size, driver, execution, length, sent, target, cursor, taken, intact>>
  BY <1>0 DEF PutField, Accepted, driverVars, TypeOK
<1>2. /\ driver = "wait" /\ saved = PutAt(put) /\ saved \in Nat
      /\ DOMAIN memory \subseteq Nat
  BY <1>0, <1>1, MappedInt DEF PlacesInv, Running, CursorsInv, TypeOK
<1>3. /\ saved = ReadAt(field) + 0 /\ sizeof(field) \in Nat
      /\ saved' = PutAt(put + 1)
  BY <1>1, <1>2, FieldPut
<1>4. /\ \A i \in DOMAIN memory' : memory'[i] \in Cells \cup {Zero}
      /\ PlacedInv' /\ DOMAIN memory' = DOMAIN memory
  BY <1>1, <1>2, <1>3, StoreKeeps DEF IInv
<1>5. NothingStale'  BY <1>1, <1>2, <1>3, StoreIsNew DEF IInv
<1>6. TypeOK'  BY <1>0, <1>1, <1>2, <1>3, <1>4 DEF TypeOK
<1>7. PlacesInv'  BY <1>0, <1>1, <1>2, <1>4 DEF PlacesInv, Running
<1>8. CursorsInv'
  <2>1. PutAt(put)' = PutAt(put + 1)  BY <1>1 DEF PutAt
  <2>. QED  BY <1>1, <1>2, <1>3, <2>1 DEF CursorsInv
<1>. QED  BY <1>0, <1>1, <1>4, <1>5, <1>6, <1>7, <1>8 DEF IInv, InputArrives

LEMMA KeepsStoreSlot ==
  ASSUME IInv, NEW field \in {"record", "goal"}, NEW slot \in 0..MaxSlot,
         StoreSlot(field, slot)
  PROVE  IInv'
<1>0. TypeOK /\ PlacesInv /\ CursorsInv /\ InputArrives  BY DEF IInv
<1>. DEFINE k == sizeof(field) * slot
<1>1. /\ field \in Fields /\ ReadAt(field) = 17 /\ sizeof(field) \in Nat
      /\ HeaderSize = 17
  BY DEF Fields, Output, ReadAt, sizeof, HeaderSize
<1>2. k \in Nat
  <2>1. slot \in Nat  BY BoundsAssumption
  <2>2. sizeof(field) \in {1, 8}  BY DEF sizeof
  <2>. QED  BY <2>1, <2>2
<1>3. /\ target = "main"
      /\ memory' = Stored(HeaderSize + k, field, k, sizeof(field))
      /\ UNCHANGED <<size, saved, driver, execution, length, sent, target, cursor,
                     taken, put, intact>>
  BY DEF StoreSlot, driverVars, targetVars
<1>4. driver = "wait" /\ DOMAIN memory \subseteq Nat
  BY <1>0, <1>3, MappedInt DEF PlacesInv, Running
<1>. HIDE DEF k
<1>5. HeaderSize + k \in Nat /\ HeaderSize + k = ReadAt(field) + k
  BY <1>1, <1>2
<1>6. /\ \A i \in DOMAIN memory' : memory'[i] \in Cells \cup {Zero}
      /\ PlacedInv' /\ DOMAIN memory' = DOMAIN memory
  BY <1>1, <1>2, <1>3, <1>4, <1>5, StoreKeeps DEF IInv
<1>7. NothingStale'  BY <1>1, <1>2, <1>3, <1>4, <1>5, StoreIsNew DEF IInv
<1>8. TypeOK'  BY <1>0, <1>3, <1>6 DEF TypeOK
<1>9. PlacesInv'  BY <1>0, <1>3, <1>6 DEF PlacesInv, Running
<1>10. CursorsInv'  BY <1>3, <1>4 DEF CursorsInv
<1>. QED  BY <1>0, <1>3, <1>6, <1>7, <1>8, <1>9, <1>10 DEF IInv, InputArrives

-----------------------------------------------------------------------------
LEMMA StepKeeps ==
  ASSUME IInv, [Next]_vars
  PROVE  IInv'
<1>1. CASE Next
  BY <1>1, KeepsInitSharedMemory, KeepsClear, KeepsSend, KeepsOtherDriver,
     KeepsTermination, KeepsPlace, KeepsLoad, KeepsClearAgain, KeepsPutField,
     KeepsStoreSlot DEF Next
<1>2. CASE UNCHANGED vars
  <2>1. UNCHANGED <<size, saved, memory, driver, execution, length, sent, target,
                    cursor, taken, put, intact>>
    BY <1>2 DEF vars, segment, driverVars, targetVars
  <2>2. Arrived(saved)' = Arrived(saved) /\ Arrived(SentAt(4))' = Arrived(SentAt(4))
    BY <2>1 DEF Arrived, SentAt, SentByte, Cell
  <2>3. CursorsInv'  BY <2>1, <2>2 DEF IInv, CursorsInv, SentAt, PutAt
  <2>4. PlacedInv' /\ NothingStale'  BY <2>1, QuietStep DEF segment
  <2>5. TypeOK' /\ PlacesInv' /\ InputArrives'
    BY <2>1 DEF IInv, TypeOK, PlacesInv, Running, InputArrives
  <2>. QED  BY <2>3, <2>4, <2>5 DEF IInv
<1>. QED  BY <1>1, <1>2

(* The inductive invariant holds for any sizes, lengths and bounds.        *)
THEOREM Invariance == Spec => []IInv
BY InitHolds, StepKeeps, PTL DEF Spec

(* The segment keeps its types.                                            *)
THEOREM TypeCorrect == Spec => []TypeOK
<1>1. IInv => TypeOK  BY DEF IInv
<1>. QED  BY <1>1, Invariance, PTL

(* The target takes out of the segment what the driver put in, whatever    *)
(* earlier executions and drivers left there (main.cpp:26-30).             *)
THEOREM InputAlwaysArrives == Spec => []InputArrives
<1>1. IInv => InputArrives  BY DEF IInv
<1>. QED  BY <1>1, Invariance, PTL

(* No byte of an earlier execution is left where the driver reads          *)
(* (shared_memory.cpp:31-36).                                              *)
THEOREM NothingOldIsRead == Spec => []NothingStale
<1>1. IInv => NothingStale  BY DEF IInv
<1>. QED  BY <1>1, Invariance, PTL

(* The writer's order of fields and the readers' offsets agree             *)
(* (main.cpp:34-40, shared_memory.cpp:86-109).                             *)
THEOREM WrittenWhereRead == Spec => []FoundWhereRead
<1>1. IInv => FoundWhereRead  BY DEF IInv, PlacedInv, FoundWhereRead, Written
<1>. QED  BY <1>1, Invariance, PTL
=============================================================================
