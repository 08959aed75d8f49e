-------------------------- MODULE TestInputProofs --------------------------
(***************************************************************************)
(* The target reads the bytes of a test where the driver wrote them:       *)
(* proofs, for all texts, all widths and any number of inputs.             *)
(***************************************************************************)
EXTENDS TestInput, TLAPS

(* Where value i starts; after the last one, where the next would.         *)
Position(i) == IF i \in 1..Len(entries) THEN starts[i] ELSE offset

(* The buffer is the inputs' values one after the other, each parsed from  *)
(* its text, so that no two values start at one place.                     *)
LayoutInv ==
  /\ Position(1) = 0
  /\ \A i \in 1..Len(entries) :
       /\ ~Throws(inputs[i].name, inputs[i].text)
       /\ entries[i] = write_typed(inputs[i].name, inputs[i].text)
       /\ Position(i + 1) = Position(i) + 1 + entries[i].size
       /\ starts[i] < offset
  /\ \A i, j \in 1..Len(entries) : i < j => starts[i] < starts[j]

(* Nothing is read before the buffer is handed over, and from then on the  *)
(* cursor is at the next value.                                            *)
CursorInv ==
  /\ phase = "parsing" => read_inputs = 0 /\ cursor = 0
  /\ phase = "reading" /\ ~AnyZeroed => cursor = Position(read_inputs + 1)

(* What was read last is the value of the last input read.                 *)
ValueInv ==
  phase = "reading" /\ read_inputs > 0 /\ ~AnyZeroed
  => value = Found(entries[read_inputs].type, FirstBytes(entries[read_inputs]))

IInv ==
  /\ TypeOK /\ BufferIsBigEnough /\ LayoutInv /\ CursorInv /\ ValueInv
  /\ size >= 17

-----------------------------------------------------------------------------
(* An integer put into a type is an integer.                               *)
LEMMA WrapType ==
  ASSUME NEW v \in Int, NEW ctype \in CTypes
  PROVE  Wrap(v, ctype) \in Int
<1>1. /\ Values[ctype.size] \in Nat /\ Values[ctype.size] > 0
      /\ ctype.signed \in BOOLEAN
  BY ValuesAssumption DEF CTypes
<1>. DEFINE n == Values[ctype.size]
<1>2. (n \div 2) \in Int  BY <1>1
<1>3. v % n \in Int  BY <1>1
<1>4. ((v + n \div 2) % n) - n \div 2 \in Int  BY <1>1, <1>2
<1>. QED  BY <1>3, <1>4 DEF Wrap

(* What is written under a type of its own size is an entry, and fits.     *)
LEMMA StoredFits ==
  ASSUME NEW v \in Int, NEW ctype \in CTypes, NEW type \in InputTypes,
         num_bytes[type] = ctype.size
  PROVE  /\ Stored(v, ctype, type) \in Entries
         /\ num_bytes[Stored(v, ctype, type).type] = Stored(v, ctype, type).size
<1>1. [ctype EXCEPT !.signed = FALSE] \in CTypes  BY DEF CTypes
<1>2. Wrap(v, [ctype EXCEPT !.signed = FALSE]) \in Int  BY <1>1, WrapType
<1>. QED  BY <1>2 DEF Stored, Entry, Entries, CTypes

(* The types of the rows of write_untyped and write_typed are of the size  *)
(* of what is written.                                                     *)
LEMMA SizesAgree ==
  /\ {Int8, Int16, Int32, Int64, Int128} \subseteq CTypes
  /\ {Uint8, Uint16, Uint32, Uint64, Uint128} \subseteq CTypes
  /\ {"SINT8", "SINT16", "SINT32", "SINT64", "SINT128"} \subseteq InputTypes
  /\ {"UINT8", "UINT16", "UINT32", "UINT64", "UINT128"} \subseteq InputTypes
  /\ num_bytes["SINT8"] = Int8.size /\ num_bytes["UINT8"] = Uint8.size
  /\ num_bytes["SINT16"] = Int16.size /\ num_bytes["UINT16"] = Uint16.size
  /\ num_bytes["SINT32"] = Int32.size /\ num_bytes["UINT32"] = Uint32.size
  /\ num_bytes["SINT64"] = Int64.size /\ num_bytes["UINT64"] = Uint64.size
  /\ num_bytes["SINT128"] = Int128.size /\ num_bytes["UINT128"] = Uint128.size
<1>1. /\ {Int8, Int16, Int32, Int64, Int128} \subseteq CTypes
      /\ {Uint8, Uint16, Uint32, Uint64, Uint128} \subseteq CTypes
  BY DEF CTypes, Sizes, Int8, Uint8, Int16, Uint16, Int32, Uint32, Int64, Uint64,
         Int128, Uint128
<1>2. /\ {"SINT8", "SINT16", "SINT32", "SINT64", "SINT128"} \subseteq InputTypes
      /\ {"UINT8", "UINT16", "UINT32", "UINT64", "UINT128"} \subseteq InputTypes
  BY DEF InputTypes, num_bytes
<1>3. /\ num_bytes["SINT8"] = Int8.size /\ num_bytes["UINT8"] = Uint8.size
      /\ num_bytes["SINT16"] = Int16.size /\ num_bytes["UINT16"] = Uint16.size
      /\ num_bytes["SINT32"] = Int32.size /\ num_bytes["UINT32"] = Uint32.size
      /\ num_bytes["SINT64"] = Int64.size /\ num_bytes["UINT64"] = Uint64.size
      /\ num_bytes["SINT128"] = Int128.size /\ num_bytes["UINT128"] = Uint128.size
  BY DEF num_bytes, Int8, Uint8, Int16, Uint16, Int32, Uint32, Int64, Uint64,
         Int128, Uint128
<1>. QED  BY <1>1, <1>2, <1>3

LEMMA RealFits ==
  ASSUME NEW v \in Int
  PROVE  /\ Entry("FLOAT32", 4, v) \in Entries /\ num_bytes["FLOAT32"] = 4
         /\ Entry("FLOAT64", 8, v) \in Entries /\ num_bytes["FLOAT64"] = 8
BY DEF Entry, Entries, InputTypes, num_bytes, Sizes

LEMMA ZeroType == SavedAsZero \in Entries
BY DEF SavedAsZero, Entry, Entries, InputTypes, num_bytes, Sizes, sizeof_int

Fits(entry) == entry \in Entries /\ num_bytes[entry.type] = entry.size

(* Without a type, a text is written under a type of its size, or as zero. *)
LEMMA UntypedFits ==
  ASSUME NEW text \in Texts
  PROVE  Fits(write_untyped(text)) \/ write_untyped(text) = SavedAsZero
<1>. DEFINE v == text.value
<1>1. /\ v \in Int
      /\ text.kind \in {"integer", "fraction", "empty", "other"}
  BY TextsAssumption DEF Text
<1>2. /\ Fits(Stored(v, Int16, "SINT16")) /\ Fits(Stored(v, Int64, "SINT64"))
      /\ Fits(Stored(v, Int128, "SINT128")) /\ Fits(Stored(v, Uint16, "UINT16"))
      /\ Fits(Stored(v, Uint64, "UINT64")) /\ Fits(Stored(v, Uint128, "UINT128"))
  BY <1>1, StoredFits, SizesAgree DEF Fits
<1>3. Fits(Entry("FLOAT64", 8, v))  BY <1>1, RealFits DEF Fits, Entry
<1>4. ASSUME IsNegative(text) PROVE Fits(write_negative(text))
  BY <1>1, <1>2, <1>3, <1>4
     DEF IsNegative, write_negative, ShortTag, LongTag
<1>5. ASSUME ~IsNegative(text)
      PROVE  Fits(write_positive(text)) \/ write_positive(text) = SavedAsZero
  BY <1>1, <1>2, <1>3, <1>5
     DEF IsNegative, write_positive, parse_uint128_accepts
<1>. QED  BY <1>4, <1>5 DEF write_untyped

LEMMA WrittenFits ==
  ASSUME NEW name \in TypeNames, NEW text \in Texts
  PROVE  LET entry == write_typed(name, text)
         IN  Fits(entry) \/ entry = SavedAsZero
<1>. DEFINE v == text.value
<1>1. v \in Int /\ Magnitude(v) \in Int  BY TextsAssumption DEF Text, Magnitude
<1>2. ASSUME name \in DOMAIN Integral PROVE Fits(IntegralEntry(name, text))
  <2>1. /\ Integral[name].cast \in CTypes /\ Integral[name].put \in CTypes
        /\ Integral[name].type \in InputTypes
        /\ num_bytes[Integral[name].type] = Integral[name].put.size
    BY <1>2, SizesAgree DEF Integral, Row
  <2>2. Wrap(v, Integral[name].cast) \in Int  BY <1>1, <2>1, WrapType
  <2>. QED  BY <2>1, <2>2, StoredFits DEF IntegralEntry, Fits
<1>3. /\ Fits(Entry("FLOAT32", 4, v)) /\ Fits(Entry("FLOAT64", 8, v))
  BY <1>1, RealFits DEF Fits, Entry
<1>4. /\ Fits(Stored(v, Int128, "SINT128"))
      /\ Fits(Stored(Magnitude(v), Uint128, "UINT128"))
  BY <1>1, StoredFits, SizesAgree DEF Fits
<1>. QED  BY <1>2, <1>3, <1>4, UntypedFits DEF write_typed, Accepted

(* No value is longer than 16 bytes.                                       *)
LEMMA EntryBounds ==
  ASSUME NEW name \in TypeNames, NEW text \in Texts
  PROVE  /\ write_typed(name, text) \in Entries
         /\ write_typed(name, text).size \in 1..16
BY WrittenFits, ZeroType DEF Fits, Entries, Sizes

-----------------------------------------------------------------------------
LEMMA InitHolds == Init => IInv
<1>. SUFFICES ASSUME Init PROVE IInv  OBVIOUS
<1>1. TypeOK
  BY BufferAssumption DEF Init, TypeOK, NothingFound, InputTypes, num_bytes
<1>2. LayoutInv  BY DEF Init, LayoutInv, Position
<1>3. CursorInv /\ ValueInv /\ BufferIsBigEnough /\ size >= 17
  BY BufferAssumption DEF Init, CursorInv, ValueInv, BufferIsBigEnough
<1>. QED  BY <1>1, <1>2, <1>3 DEF IInv

(* What is written stays as it is when it is handed over and read.         *)
LEMMA WrittenOnce ==
  ASSUME IInv, UNCHANGED written
  PROVE  /\ LayoutInv' /\ BufferIsBigEnough' /\ (size >= 17)'
         /\ \A i : Position(i)' = Position(i)
         /\ AnyZeroed' = AnyZeroed
BY DEF IInv, written, LayoutInv, BufferIsBigEnough, Position, AnyZeroed

(* Values start at different places, so the cursor names at most one.      *)
LEMMA StartsDiffer ==
  ASSUME IInv, NEW i \in 1..Len(entries), NEW j \in 1..Len(entries),
         starts[i] = starts[j]
  PROVE  i = j
<1>1. Len(entries) \in Nat /\ starts \in Seq(Nat) /\ Len(starts) = Len(entries)
  BY DEF IInv, TypeOK
<1>2. i < j => starts[i] < starts[j]  BY DEF IInv, LayoutInv
<1>3. j < i => starts[j] < starts[i]  BY DEF IInv, LayoutInv
<1>4. starts[i] \in Nat /\ starts[j] \in Nat  BY <1>1
<1>. QED  BY <1>1, <1>2, <1>3, <1>4

LEMMA ElementOf ==
  ASSUME NEW S, NEW q \in Seq(S), NEW k \in 1..Len(q)
  PROVE  q[k] \in S
OBVIOUS

(* A value that was not saved as zero is as long as its type says.         *)
LEMMA LengthsAgree ==
  ASSUME IInv, ~AnyZeroed, NEW i \in 1..Len(entries)
  PROVE  num_bytes[entries[i].type] = entries[i].size
<1>1. inputs[i].name \in TypeNames /\ inputs[i].text \in Texts
  <2>1. /\ inputs \in Seq([name : TypeNames, text : Texts])
        /\ i \in 1..Len(inputs)
    BY DEF IInv, TypeOK
  <2>2. inputs[i] \in [name : TypeNames, text : Texts]  BY <2>1, ElementOf
  <2>. QED  BY <2>2
<1>2. /\ entries[i] = write_typed(inputs[i].name, inputs[i].text)
      /\ ~Throws(inputs[i].name, inputs[i].text)
  BY DEF IInv, LayoutInv
<1>3. i \in 1..Len(inputs)  BY DEF IInv, TypeOK
<1>4. entries[i] # SavedAsZero  BY <1>2, <1>3 DEF AnyZeroed, Zeroed
<1>. QED  BY <1>1, <1>2, <1>4, WrittenFits DEF Fits

-----------------------------------------------------------------------------
(* A buffer with room for 17 bytes has room for a value once it doubles.   *)
LEMMA DoublingIsEnough ==
  ASSUME NEW s \in Nat, NEW o \in Nat, NEW k \in 1..16, o <= s, s >= 17,
         NEW t, t = IF s < o + k + 1 THEN 2 * s ELSE s
  PROVE  t \in Nat /\ o + 1 + k <= t /\ t >= 17
OBVIOUS

LEMMA ParseInputKeeps ==
  ASSUME IInv, NEW name \in TypeNames, NEW text \in Texts, ParseInput(name, text)
  PROVE  IInv'
<1>. DEFINE entry == write_typed(name, text)
            n == Len(entries)
<1>1. entry \in Entries /\ entry.size \in 1..16  BY EntryBounds
<1>2. /\ n \in Nat /\ offset \in Nat /\ size \in Nat /\ offset <= size /\ size >= 17
      /\ entries \in Seq(Entries) /\ starts \in Seq(Nat) /\ Len(starts) = n
      /\ inputs \in Seq([name : TypeNames, text : Texts]) /\ Len(inputs) = n
  BY DEF IInv, TypeOK, BufferIsBigEnough
<1>3. /\ entries' = Append(entries, entry) /\ starts' = Append(starts, offset)
      /\ inputs' = Append(inputs, [name |-> name, text |-> text])
      /\ offset' = offset + 1 + entry.size
      /\ size' = IF TooSmall(entry.size) THEN 2 * size ELSE size
      /\ UNCHANGED <<phase, cursor, read_inputs, value>>
      /\ phase = "parsing" /\ ~Throws(name, text)
  BY DEF ParseInput
<1>. HIDE DEF entry
<1>4. /\ Len(entries') = n + 1 /\ Len(starts') = n + 1 /\ Len(inputs') = n + 1
      /\ \A i \in 1..n : /\ entries'[i] = entries[i] /\ starts'[i] = starts[i]
                         /\ inputs'[i] = inputs[i]
      /\ entries'[n + 1] = entry /\ starts'[n + 1] = offset
      /\ inputs'[n + 1] = [name |-> name, text |-> text]
  BY <1>1, <1>2, <1>3
<1>5. offset' \in Nat /\ size' \in Nat /\ offset' <= size' /\ size' >= 17
  <2>1. size' = IF size < offset + entry.size + 1 THEN 2 * size ELSE size
    BY <1>3 DEF TooSmall
  <2>2. offset' \in Nat
    <3>1. entry.size \in Nat  BY <1>1
    <3>. QED  BY <3>1, <1>2, <1>3
  <2>. QED  BY <2>1, <2>2, <1>1, <1>2, <1>3, DoublingIsEnough
<1>5a. offset' \in Nat /\ offset < offset'
  <2>1. entry.size \in Nat  BY <1>1
  <2>. QED  BY <2>1, <1>2, <1>3
<1>6. read_inputs = 0 /\ cursor = 0  BY <1>3 DEF IInv, CursorInv
<1>7. TypeOK'
  <2>1. /\ entries' \in Seq(Entries) /\ starts' \in Seq(Nat)
        /\ inputs' \in Seq([name : TypeNames, text : Texts])
    BY <1>1, <1>2, <1>3
  <2>2. /\ phase' = "parsing" /\ cursor' = 0 /\ read_inputs' \in 0..Len(entries')
        /\ value' \in [known : BOOLEAN, type : InputTypes, bits : Int]
    BY <1>2, <1>3, <1>4, <1>6 DEF IInv, TypeOK
  <2>. QED  BY <2>1, <2>2, <1>4, <1>5 DEF TypeOK
<1>8. \A i \in 1..(n + 1) : Position(i)' = Position(i)
  BY <1>2, <1>4 DEF Position
<1>9. LayoutInv'
  <2>1. Position(1)' = 0  BY <1>2, <1>8 DEF IInv, LayoutInv
  <2>2. ASSUME NEW i \in 1..(n + 1)
        PROVE  /\ ~Throws(inputs'[i].name, inputs'[i].text)
               /\ entries'[i] = write_typed(inputs'[i].name, inputs'[i].text)
               /\ Position(i + 1)' = Position(i)' + 1 + entries'[i].size
               /\ starts'[i] < offset'
    <3>1. CASE i \in 1..n
      <4>1. /\ ~Throws(inputs[i].name, inputs[i].text)
            /\ entries[i] = write_typed(inputs[i].name, inputs[i].text)
            /\ Position(i + 1) = Position(i) + 1 + entries[i].size
            /\ starts[i] < offset /\ starts[i] \in Nat
        BY <3>1, <1>2 DEF IInv, LayoutInv
      <4>2. /\ Position(i + 1)' = Position(i + 1) /\ Position(i)' = Position(i)
        BY <3>1, <1>2, <1>8
      <4>3. starts'[i] = starts[i]  BY <3>1, <1>4
      <4>4. starts'[i] < offset'
        BY <4>1, <4>3, <1>2, <1>5a
      <4>5. entries'[i] = entries[i] /\ inputs'[i] = inputs[i]  BY <3>1, <1>4
      <4>. QED  BY <4>1, <4>2, <4>4, <4>5
    <3>2. CASE i = n + 1
      <4>1. Position(i)' = offset /\ Position(i + 1)' = offset'
        BY <3>2, <1>2, <1>4 DEF Position
      <4>2. starts'[i] < offset'  BY <3>2, <1>2, <1>4, <1>5a
      <4>3. entries'[i] = entry /\ inputs'[i].name = name /\ inputs'[i].text = text
        BY <3>2, <1>4
      <4>4. Position(i + 1)' = Position(i)' + 1 + entries'[i].size
        BY <4>1, <4>3, <1>3
      <4>. QED  BY <4>2, <4>3, <4>4, <1>3 DEF entry
    <3>. QED  BY <3>1, <3>2, <1>2
  <2>3. ASSUME NEW i \in 1..(n + 1), NEW j \in 1..(n + 1), i < j
        PROVE  starts'[i] < starts'[j]
    <3>1. i \in 1..n /\ starts[i] < offset  BY <2>3, <1>2 DEF IInv, LayoutInv
    <3>2. j \in 1..n => starts[i] < starts[j]
      BY <2>3, <3>1 DEF IInv, LayoutInv
    <3>3. starts'[i] = starts[i]  BY <3>1, <1>4
    <3>4. CASE j \in 1..n
      <4>1. starts'[j] = starts[j]  BY <3>4, <1>4
      <4>. QED  BY <3>2, <3>3, <3>4, <4>1
    <3>5. CASE j = n + 1
      <4>1. starts'[j] = offset  BY <3>5, <1>4
      <4>. QED  BY <3>1, <3>3, <4>1
    <3>. QED  BY <3>4, <3>5, <1>2
  <2>. QED  BY <2>1, <2>2, <2>3, <1>4 DEF LayoutInv
<1>10. CursorInv' /\ ValueInv'  BY <1>3, <1>6 DEF CursorInv, ValueInv
<1>. QED  BY <1>5, <1>7, <1>9, <1>10 DEF IInv, BufferIsBigEnough

LEMMA ReadInputKeeps ==
  ASSUME IInv, ReadInput
  PROVE  IInv'
<1>1. PICK i \in 1..Len(entries) :
        /\ starts[i] = cursor
        /\ cursor' = cursor + 1 + num_bytes[entries[i].type]
        /\ value' = Found(entries[i].type, FirstBytes(entries[i]))
  BY DEF ReadInput
<1>2. /\ phase = "reading" /\ phase' = "reading" /\ UNCHANGED written
      /\ read_inputs < Len(entries) /\ read_inputs' = read_inputs + 1
      /\ read_inputs \in Nat /\ Len(entries) \in Nat
  BY DEF ReadInput, InputsLeft, IInv, TypeOK
<1>3. entries[i] \in Entries  BY DEF IInv, TypeOK
<1>4. num_bytes[entries[i].type] \in Sizes
  BY <1>3 DEF Entries, InputTypes, num_bytes, Sizes
<1>5. FirstBytes(entries[i]) \in Int
  <2>1. [signed |-> FALSE, size |-> num_bytes[entries[i].type]] \in CTypes
    BY <1>4 DEF CTypes
  <2>. QED  BY <1>3, <2>1, WrapType DEF FirstBytes, Entries
<1>6. TypeOK'
  <2>1. value' \in [known : BOOLEAN, type : InputTypes, bits : Int]
    BY <1>1, <1>3, <1>5 DEF Found, Entries
  <2>2. cursor' \in Nat
    <3>1. num_bytes[entries[i].type] \in Nat  BY <1>4 DEF Sizes
    <3>2. cursor \in Nat  BY DEF IInv, TypeOK
    <3>. QED  BY <1>1, <3>1, <3>2
  <2>3. read_inputs' \in 0..Len(entries')  BY <1>2 DEF written
  <2>. QED  BY <1>2, <2>1, <2>2, <2>3 DEF IInv, TypeOK, written
<1>7. CursorInv' /\ ValueInv'
  <2>. SUFFICES ASSUME ~AnyZeroed
                PROVE  cursor' = Position(read_inputs + 2) /\ i = read_inputs + 1
    BY <1>1, <1>2, WrittenOnce DEF CursorInv, ValueInv, written
  <2>1. cursor = starts[read_inputs + 1] /\ read_inputs + 1 \in 1..Len(entries)
    BY <1>2 DEF IInv, CursorInv, Position
  <2>2. i = read_inputs + 1  BY <1>1, <2>1, StartsDiffer
  <2>3. Position(i + 1) = cursor + 1 + entries[i].size
    BY <1>1 DEF IInv, LayoutInv, Position
  <2>. QED  BY <1>1, <1>2, <2>2, <2>3, LengthsAgree
<1>. QED  BY <1>2, <1>6, <1>7, WrittenOnce DEF IInv

(* Astray is only where a value was saved as zero.                         *)
LEMMA ReadAstrayKeeps ==
  ASSUME IInv, ReadAstray
  PROVE  IInv'
<1>1. /\ phase = "reading" /\ UNCHANGED written
      /\ read_inputs < Len(entries)
      /\ \A i \in 1..Len(entries) : starts[i] # cursor
      /\ read_inputs \in Nat /\ Len(entries) \in Nat /\ cursor \in Nat
  BY DEF ReadAstray, InputsLeft, IInv, TypeOK
<1>2. AnyZeroed  BY <1>1 DEF IInv, CursorInv, Position
<1>3. TypeOK'
  <2>1. CASE /\ \E type \in InputTypes : cursor' = cursor + 1 + num_bytes[type]
             /\ read_inputs' = read_inputs + 1 /\ value' = NothingFound
             /\ UNCHANGED phase
    <3>1. \A type \in InputTypes : num_bytes[type] \in Nat
      BY DEF InputTypes, num_bytes
    <3>2. cursor' \in Nat /\ read_inputs' \in 0..Len(entries')
      BY <1>1, <2>1, <3>1 DEF written
    <3>3. value' \in [known : BOOLEAN, type : InputTypes, bits : Int]
      BY <2>1 DEF NothingFound, InputTypes, num_bytes
    <3>. QED  BY <1>1, <2>1, <3>2, <3>3 DEF IInv, TypeOK, written
  <2>2. CASE phase' = "dead" /\ UNCHANGED <<cursor, read_inputs, value>>
    BY <1>1, <2>2 DEF IInv, TypeOK, written
  <2>. QED  BY <2>1, <2>2 DEF ReadAstray
<1>4. CursorInv' /\ ValueInv'
  <2>1. phase' # "parsing"  BY <1>1 DEF ReadAstray
  <2>. QED  BY <1>1, <1>2, <2>1, WrittenOnce DEF CursorInv, ValueInv
<1>. QED  BY <1>1, <1>3, <1>4, WrittenOnce DEF IInv

LEMMA LoadKeeps == IInv /\ Load => IInv'
<1>. SUFFICES ASSUME IInv, Load PROVE IInv'  OBVIOUS
<1>1. /\ phase = "parsing" /\ phase' = "reading"
      /\ UNCHANGED <<written, cursor, read_inputs, value>>
  BY DEF Load
<1>2. TypeOK'  BY <1>1 DEF IInv, TypeOK, written
<1>3. cursor' = Position(read_inputs + 1)
  BY <1>1 DEF IInv, CursorInv, LayoutInv
<1>4. ValueInv'  BY <1>1 DEF IInv, CursorInv, ValueInv
<1>. QED  BY <1>1, <1>2, <1>3, <1>4, WrittenOnce DEF IInv, CursorInv

(* A driver that dies, or a target that ends, changes nothing else.        *)
LEMMA EndKeeps ==
  ASSUME IInv, phase' = "dead" \/ UNCHANGED phase,
         UNCHANGED <<written, cursor, read_inputs, value>>
  PROVE  IInv'
<1>1. TypeOK'  BY DEF IInv, TypeOK, written
<1>2. CursorInv'  BY WrittenOnce DEF IInv, CursorInv
<1>3. ValueInv'  BY WrittenOnce DEF IInv, ValueInv, written
<1>. QED  BY <1>1, <1>2, <1>3, WrittenOnce DEF IInv

LEMMA StepKeeps == IInv /\ [Next]_vars => IInv'
<1>. SUFFICES ASSUME IInv, [Next]_vars PROVE IInv'  OBVIOUS
<1>1. ASSUME NEW name \in TypeNames, NEW text \in Texts, ParseInput(name, text)
      PROVE  IInv'
  BY <1>1, ParseInputKeeps
<1>2. ASSUME NEW name \in TypeNames, NEW text \in Texts, ParseFails(name, text)
      PROVE  IInv'
  BY <1>2, EndKeeps DEF ParseFails
<1>3. CASE Load  BY <1>3, LoadKeeps
<1>4. CASE ReadInput  BY <1>4, ReadInputKeeps
<1>5. CASE ReadAstray  BY <1>5, ReadAstrayKeeps
<1>6. CASE Exhausted  BY <1>6, EndKeeps DEF Exhausted
<1>7. CASE UNCHANGED vars  BY <1>7, EndKeeps DEF vars
<1>. QED  BY <1>1, <1>2, <1>3, <1>4, <1>5, <1>6, <1>7 DEF Next

-----------------------------------------------------------------------------
(* The strengthened invariant holds in every state.                        *)
THEOREM Invariance == Spec => []IInv
BY InitHolds, StepKeeps, PTL DEF Spec

(* The variables keep their types (test_parser.hpp, input_model.hpp:82-86). *)
THEOREM TypeCorrect == Spec => []TypeOK
<1>1. IInv => TypeOK  BY DEF IInv
<1>. QED  BY <1>1, Invariance, PTL

(* No value is copied past the end of the buffer, which is doubled at most *)
(* once for it, when it starts with room for the longest value             *)
(* (test_parser.cpp:35-43).                                                *)
THEOREM NoOverrun == Spec => []BufferIsBigEnough
<1>1. IInv => BufferIsBigEnough  BY DEF IInv
<1>. QED  BY <1>1, Invariance, PTL

(* The target finds every value where the driver put it, unless one had to *)
(* be saved as zero (input_model.hpp:44-77).                               *)
THEOREM ReadsWhereWritten == Spec => []ReadsInStep
<1>1. IInv => ReadsInStep
  <2>. SUFFICES ASSUME IInv, phase = "reading", ~AnyZeroed
                PROVE  cursor = StartOfNext
    BY DEF ReadsInStep
  <2>1. read_inputs \in Nat /\ Len(entries) \in Nat  BY DEF IInv, TypeOK
  <2>2. cursor = Position(read_inputs + 1)  BY DEF IInv, CursorInv
  <2>. QED  BY <2>1, <2>2 DEF Position, StartOfNext
<1>. QED  BY <1>1, Invariance, PTL

-----------------------------------------------------------------------------
(* Division by a positive number, as it is used below.                     *)
LEMMA DivisionByPositive ==
  ASSUME NEW a \in Int, NEW n \in Nat, n > 0
  PROVE  /\ a % n \in 0..(n - 1) /\ a \div n \in Int
         /\ a = n * (a \div n) + (a % n)
OBVIOUS

LEMMA NoMultipleBetween ==
  ASSUME NEW n \in Nat, n > 0, NEW k \in Int, NEW d \in Int,
         d = n * k, d < n, d > -n
  PROVE  k = 0
<1>1. k >= 1 => n * k >= n  OBVIOUS
<1>2. k <= -1 => n * k <= -n  OBVIOUS
<1>. QED  BY <1>1, <1>2

LEMMA RemaindersAreUnique ==
  ASSUME NEW n \in Nat, n > 0, NEW q \in Int, NEW p \in Int,
         NEW r \in 0..(n - 1), NEW s \in 0..(n - 1), n * q + r = n * p + s
  PROVE  r = s
<1>1. n * (q - p) = s - r  OBVIOUS
<1>2. q - p = 0  BY <1>1, NoMultipleBetween
<1>. QED  BY <1>1, <1>2

LEMMA RemainderOfSum ==
  ASSUME NEW a \in Int, NEW n \in Nat, n > 0, NEW k \in Int
  PROVE  (a + n * k) % n = a % n
<1>. DEFINE b == a + n * k
<1>1. b \in Int  OBVIOUS
<1>2. b % n \in 0..(n - 1) /\ b \div n \in Int /\ b = n * (b \div n) + (b % n)
  BY <1>1, DivisionByPositive
<1>3. a % n \in 0..(n - 1) /\ a \div n \in Int /\ a = n * (a \div n) + (a % n)
  BY DivisionByPositive
<1>4. b = n * (k + a \div n) + (a % n) /\ k + a \div n \in Int  BY <1>3
<1>. HIDE DEF b
<1>5. b % n = a % n  BY <1>2, <1>3, <1>4, RemaindersAreUnique
<1>. QED  BY <1>5 DEF b

LEMMA SmallRemainder ==
  ASSUME NEW n \in Nat, n > 0, NEW a \in 0..(n - 1)
  PROVE  a % n = a
OBVIOUS

(* A type does not tell apart integers that differ by a multiple of the    *)
(* number of its values.                                                   *)
LEMMA WrapIgnoresMultiples ==
  ASSUME NEW v \in Int, NEW k \in Int, NEW ctype \in CTypes
  PROVE  Wrap(v + Values[ctype.size] * k, ctype) = Wrap(v, ctype)
<1>. DEFINE n == Values[ctype.size]
<1>1. n \in Nat /\ n > 0  BY ValuesAssumption DEF CTypes
<1>2. n \div 2 \in Int  BY <1>1
<1>. HIDE DEF n
<1>3. (v + n * k) % n = v % n  BY <1>1, RemainderOfSum
<1>4. ((v + n * k) + n \div 2) % n = (v + n \div 2) % n
  <2>. DEFINE h == n \div 2
  <2>. HIDE DEF h
  <2>1. h \in Int  BY <1>2 DEF h
  <2>2. n * k \in Int  BY <1>1
  <2>3. (v + n * k) + h = (v + h) + n * k  BY <2>1, <2>2
  <2>4. v + h \in Int  BY <2>1
  <2>5. ((v + h) + n * k) % n = (v + h) % n  BY <2>4, <1>1, RemainderOfSum
  <2>. QED  BY <2>3, <2>5 DEF h
<1>. QED  BY <1>3, <1>4 DEF Wrap, n

(* ...and changes an integer by such a multiple.                           *)
LEMMA WrapAddsMultiple ==
  ASSUME NEW v \in Int, NEW ctype \in CTypes
  PROVE  \E k \in Int : Wrap(v, ctype) = v + Values[ctype.size] * k
<1>. DEFINE n == Values[ctype.size]
<1>1. n \in Nat /\ n > 0 /\ ctype.signed \in BOOLEAN
  BY ValuesAssumption DEF CTypes
<1>2. n \div 2 \in Int  BY <1>1
<1>. HIDE DEF n
<1>3. CASE ctype.signed
  <2>. DEFINE h == n \div 2
              w == v + h
  <2>1. h \in Int /\ w \in Int  BY <1>2
  <2>2. Wrap(v, ctype) = (w % n) - h  BY <1>3 DEF Wrap, n
  <2>. HIDE DEF w
  <2>3. w % n \in Int /\ w \div n \in Int /\ w = n * (w \div n) + (w % n)
    BY <1>1, <2>1, DivisionByPositive
  <2>4. (w % n) = w + n * (-(w \div n))  BY <2>1, <2>3, <1>1
  <2>5. -(w \div n) \in Int /\ n * (-(w \div n)) \in Int  BY <2>3, <1>1
  <2>6. w - h = v  BY <2>1 DEF w
  <2>. HIDE DEF h
  <2>7. (w % n) - h = v + n * (-(w \div n))  BY <2>1, <2>4, <2>5, <2>6
  <2>. QED  BY <2>2, <2>5, <2>7 DEF n
<1>4. CASE ~ctype.signed
  <2>1. Wrap(v, ctype) = v % n  BY <1>4 DEF Wrap, n
  <2>2. v % n \in Int /\ v \div n \in Int /\ v = n * (v \div n) + (v % n)
    BY <1>1, DivisionByPositive
  <2>3. (v % n) = v + n * (-(v \div n)) /\ -(v \div n) \in Int  BY <2>2, <1>1
  <2>. QED  BY <2>1, <2>3 DEF n
<1>. QED  BY <1>1, <1>3, <1>4

(* To go through a type that is as wide, or wider, changes nothing.        *)
LEMMA WrapOfWrap ==
  ASSUME NEW v \in Int, NEW c \in CTypes, NEW d \in CTypes, c.size <= d.size
  PROVE  Wrap(Wrap(v, d), c) = Wrap(v, c)
<1>. DEFINE m == Values[c.size]
            n == Values[d.size]
<1>1. m \in Nat /\ m > 0 /\ n \in Nat /\ n % m = 0
  BY ValuesAssumption DEF CTypes
<1>2. PICK k \in Int : Wrap(v, d) = v + n * k  BY WrapAddsMultiple
<1>. HIDE DEF m, n
<1>3. n \div m \in Int /\ n = m * (n \div m)
  <2>1. n \in Int  BY <1>1
  <2>. QED  BY <1>1, <2>1, DivisionByPositive
<1>. DEFINE q == n \div m
<1>4. q \in Int /\ n = m * q  BY <1>3
<1>. HIDE DEF q
<1>5. n * k = m * (q * k) /\ q * k \in Int  BY <1>1, <1>4
<1>6. Wrap(v + m * (q * k), c) = Wrap(v, c)
  BY <1>5, WrapIgnoresMultiples DEF m
<1>. QED  BY <1>2, <1>5, <1>6

(* An unsigned type keeps the numbers from 0 up to its number of values.   *)
LEMMA UnsignedKeeps ==
  ASSUME NEW ctype \in CTypes, ~ctype.signed,
         NEW v \in Nat, v < Values[ctype.size]
  PROVE  Wrap(v, ctype) = v
<1>1. Values[ctype.size] \in Nat /\ Values[ctype.size] > 0
  BY ValuesAssumption DEF CTypes
<1>2. v \in 0..(Values[ctype.size] - 1)  BY <1>1
<1>. QED  BY <1>1, <1>2, SmallRemainder DEF Wrap

-----------------------------------------------------------------------------
(* What a variable of the entry's own integer type holds.                  *)
Held(entry) ==
  Wrap(entry.bits, [signed |-> entry.type \in SignedTypes,
                    size |-> num_bytes[entry.type]])

TagOf(ctype, type) ==
  /\ type \in InputTypes /\ num_bytes[type] = ctype.size
  /\ (type \in SignedTypes) <=> ctype.signed

LEMMA Tags ==
  /\ TagOf(Int8, "SINT8") /\ TagOf(Uint8, "UINT8")
  /\ TagOf(Int16, "SINT16") /\ TagOf(Uint16, "UINT16")
  /\ TagOf(Int32, "SINT32") /\ TagOf(Uint32, "UINT32")
  /\ TagOf(Int64, "SINT64") /\ TagOf(Uint64, "UINT64")
  /\ TagOf(Int128, "SINT128") /\ TagOf(Uint128, "UINT128")
BY SizesAgree DEF TagOf, SignedTypes, Int8, Uint8, Int16, Uint16, Int32, Uint32,
   Int64, Uint64, Int128, Uint128

(* A number stored under the tag of its type is that type's number.        *)
LEMMA StoredIsHeld ==
  ASSUME NEW v \in Int, NEW ctype \in CTypes, NEW type, TagOf(ctype, type)
  PROVE  Held(Stored(v, ctype, type)) = Wrap(v, ctype)
<1>. DEFINE unsigned == [ctype EXCEPT !.signed = FALSE]
<1>1. unsigned \in CTypes /\ unsigned.size = ctype.size  BY DEF CTypes
<1>2. [signed |-> type \in SignedTypes, size |-> num_bytes[type]] = ctype
  BY DEF TagOf, CTypes
<1>3. Wrap(Wrap(v, unsigned), ctype) = Wrap(v, ctype)
  <2>1. ctype.size <= unsigned.size  BY <1>1 DEF CTypes, Sizes
  <2>. QED  BY <1>1, <2>1, WrapOfWrap
<1>4. /\ Stored(v, ctype, type).type = type
      /\ Stored(v, ctype, type).bits = Wrap(v, unsigned)
  BY DEF Stored, Entry
<1>. QED  BY <1>2, <1>3, <1>4 DEF Held

(* A row of write_typed holds what the test means: what is cast first is   *)
(* either kept, or was as wide as what is written of it.                   *)
LEMMA RowHoldsMeant ==
  ASSUME NEW name \in TypeNames, NEW text \in Texts, Accepted(name, text)
  PROVE  Held(IntegralEntry(name, text)) = Wrap(text.value, Integral[name].put)
<1>. DEFINE row == Integral[name]
            v   == text.value
<1>1. v \in Int  BY TextsAssumption DEF Text
<1>2. /\ row.cast \in CTypes /\ row.put \in CTypes /\ TagOf(row.put, row.type)
      /\ row.put.size <= row.cast.size
  <2>1. name \in DOMAIN Integral  BY DEF Accepted
  <2>2. row.put.size <= row.cast.size
    BY <2>1 DEF Integral, Row, Int8, Uint8, Int16, Uint16, Int32, Uint32,
       Int64, Uint64
  <2>3. TagOf(row.put, row.type)  BY <2>1, Tags DEF Integral, Row
  <2>4. row.cast \in CTypes /\ row.put \in CTypes
    BY <2>1, SizesAgree DEF Integral, Row
  <2>. QED  BY <2>2, <2>3, <2>4
<1>. HIDE DEF row
<1>3. Wrap(v, row.cast) \in Int  BY <1>1, <1>2, WrapType
<1>4. Held(Stored(Wrap(v, row.cast), row.put, row.type))
        = Wrap(Wrap(v, row.cast), row.put)
  BY <1>2, <1>3, StoredIsHeld
<1>5. Wrap(Wrap(v, row.cast), row.put) = Wrap(v, row.put)
  BY <1>1, <1>2, WrapOfWrap
<1>. QED  BY <1>4, <1>5 DEF IntegralEntry, row

(* So does a number with no type, or with one it does not fit.             *)
LEMMA UntypedHoldsMeant ==
  ASSUME NEW text \in Texts, text.kind = "integer",
         IF IsNegative(text) THEN lexical_cast_accepts(text, Int128)
         ELSE lexical_cast_accepts(text, Uint128)
  PROVE  Held(write_untyped(text)) = text.value
<1>. DEFINE v == text.value
<1>1. v \in Int  BY TextsAssumption DEF Text
<1>2. CASE v < 0
  <2>1. IsNegative(text)  BY <1>2 DEF IsNegative
  <2>2. \A c \in {Int16, Int64, Int128} :
          lexical_cast_accepts(text, c) => Wrap(v, c) = v
    BY DEF lexical_cast_accepts, Int16, Int64, Int128
  <2>3. /\ Held(Stored(v, Int16, "SINT16")) = Wrap(v, Int16)
        /\ Held(Stored(v, Int64, "SINT64")) = Wrap(v, Int64)
        /\ Held(Stored(v, Int128, "SINT128")) = Wrap(v, Int128)
    BY <1>1, Tags, SizesAgree, StoredIsHeld
  <2>4. CASE lexical_cast_accepts(text, Int16)
    <3>1. write_negative(text) = Stored(v, Int16, "SINT16")
      BY <2>4 DEF write_negative, ShortTag
    <3>. QED  BY <2>1, <2>2, <2>3, <2>4, <3>1 DEF write_untyped
  <2>5. CASE /\ lexical_cast_accepts(text, Int64)
             /\ ~lexical_cast_accepts(text, Int16)
    <3>1. write_negative(text) = Stored(v, Int64, "SINT64")
      BY <2>5 DEF write_negative, LongTag
    <3>. QED  BY <2>1, <2>2, <2>3, <2>5, <3>1 DEF write_untyped
  <2>6. CASE /\ ~lexical_cast_accepts(text, Int64)
             /\ ~lexical_cast_accepts(text, Int16)
    <3>1. write_negative(text) = Stored(v, Int128, "SINT128")
      BY <2>6 DEF write_negative
    <3>. QED  BY <2>1, <2>2, <2>3, <3>1 DEF write_untyped
  <2>. QED  BY <2>4, <2>5, <2>6
<1>3. CASE ~(v < 0)
  <2>1. ~IsNegative(text) /\ v \in Nat  BY <1>1, <1>3 DEF IsNegative
  <2>2. ASSUME NEW c \in {Uint16, Uint64, Uint128}, lexical_cast_accepts(text, c)
        PROVE  Wrap(v, c) = v
    <3>1. c \in CTypes /\ ~c.signed
      <4>1. ~Uint16.signed /\ ~Uint64.signed /\ ~Uint128.signed
        BY DEF Uint16, Uint64, Uint128
      <4>. QED  BY <2>2, <4>1, SizesAgree
    <3>2. v < Values[c.size]
      BY <2>1, <2>2, <3>1 DEF lexical_cast_accepts, Magnitude
    <3>. QED  BY <2>1, <3>1, <3>2, UnsignedKeeps
  <2>3. /\ Held(Stored(v, Uint16, "UINT16")) = Wrap(v, Uint16)
        /\ Held(Stored(v, Uint64, "UINT64")) = Wrap(v, Uint64)
        /\ Held(Stored(v, Uint128, "UINT128")) = Wrap(v, Uint128)
    BY <1>1, Tags, SizesAgree, StoredIsHeld
  <2>4. CASE lexical_cast_accepts(text, Uint16)
    <3>1. write_positive(text) = Stored(v, Uint16, "UINT16")
      BY <2>4 DEF write_positive
    <3>. QED  BY <2>1, <2>2, <2>3, <2>4, <3>1 DEF write_untyped
  <2>5. CASE /\ lexical_cast_accepts(text, Uint64)
             /\ ~lexical_cast_accepts(text, Uint16)
    <3>1. write_positive(text) = Stored(v, Uint64, "UINT64")
      BY <2>5 DEF write_positive
    <3>. QED  BY <2>1, <2>2, <2>3, <2>5, <3>1 DEF write_untyped
  <2>6. CASE /\ ~lexical_cast_accepts(text, Uint64)
             /\ ~lexical_cast_accepts(text, Uint16)
    <3>1. write_positive(text) = Stored(v, Uint128, "UINT128")
      BY <2>6 DEF write_positive, parse_uint128_accepts
    <3>. QED  BY <2>1, <2>2, <2>3, <3>1 DEF write_untyped
  <2>. QED  BY <2>4, <2>5, <2>6
<1>. QED  BY <1>2, <1>3

(* Whatever the driver writes for an input with a meaning holds it, as far *)
(* as a variable of any integer type can tell: as "int128", a number above *)
(* the greatest one is held as another, a multiple of 2^128 below it.      *)
LEMMA WrittenHoldsMeant ==
  ASSUME NEW name \in TypeNames, NEW text \in Texts,
         NEW input, input = [name |-> name, text |-> text],
         Meaningful(input), NEW ctype \in CTypes
  PROVE  Wrap(Held(write_typed(name, text)), ctype) = Wrap(Meant(input), ctype)
<1>. DEFINE v == text.value
<1>1. /\ v \in Int /\ text.kind = "integer" /\ name \notin {"float", "double"}
      /\ IF IsNegative(text)
         THEN lexical_cast_accepts(text, Int128) /\ name # "uint128"
         ELSE lexical_cast_accepts(text, Uint128)
  BY TextsAssumption DEF Text, Meaningful
<1>2. CASE Accepted(name, text)
  <2>1. write_typed(name, text) = IntegralEntry(name, text)
    <3>1. name \in DOMAIN Integral  BY <1>2 DEF Accepted
    <3>2. name \notin {"float", "double", "int128", "uint128"}
      BY <3>1 DEF Integral
    <3>. QED  BY <1>2, <3>2 DEF write_typed
  <2>2. Meant(input) = Wrap(v, Integral[name].put)  BY <1>2 DEF Meant
  <2>. QED  BY <1>2, <2>1, <2>2, RowHoldsMeant
<1>3. CASE ~Accepted(name, text)
  <2>1. Meant(input) = v  BY <1>3 DEF Meant
  <2>2. CASE name = "int128"
    <3>1. write_typed(name, text) = Stored(v, Int128, "SINT128")
      BY <1>3, <2>2 DEF write_typed
    <3>2. Held(Stored(v, Int128, "SINT128")) = Wrap(v, Int128)
      BY <1>1, Tags, SizesAgree, StoredIsHeld
    <3>3. ctype.size <= Int128.size  BY DEF CTypes, Sizes, Int128
    <3>4. Wrap(Wrap(v, Int128), ctype) = Wrap(v, ctype)
      BY <1>1, <3>3, SizesAgree, WrapOfWrap
    <3>. QED  BY <2>1, <3>1, <3>2, <3>4
  <2>3. CASE name = "uint128"
    <3>1. ~IsNegative(text) /\ v \in Nat /\ Magnitude(v) = v
      BY <1>1, <2>3 DEF IsNegative, Magnitude
    <3>2. write_typed(name, text) = Stored(v, Uint128, "UINT128")
      BY <1>3, <2>3, <3>1 DEF write_typed
    <3>3. Held(Stored(v, Uint128, "UINT128")) = Wrap(v, Uint128)
      BY <1>1, Tags, SizesAgree, StoredIsHeld
    <3>4. Wrap(v, Uint128) = v
      <4>1. ~Uint128.signed /\ v < Values[Uint128.size]
        BY <1>1, <3>1 DEF lexical_cast_accepts, Uint128
      <4>. QED  BY <3>1, <4>1, SizesAgree, UnsignedKeeps
    <3>. QED  BY <2>1, <3>2, <3>3, <3>4
  <2>4. CASE name \notin {"int128", "uint128"}
    <3>1. write_typed(name, text) = write_untyped(text)
      BY <1>1, <1>3, <2>4 DEF write_typed
    <3>2. Held(write_untyped(text)) = v  BY <1>1, UntypedHoldsMeant
    <3>. QED  BY <2>1, <3>1, <3>2
  <2>. QED  BY <2>2, <2>3, <2>4
<1>. QED  BY <1>2, <1>3

(* A variable of any integer type gets what the test means, whatever type  *)
(* the driver chose to write (test_parser.cpp:95-215): a value that is     *)
(* written narrow and read wide, or the other way round, stays the value.  *)
THEOREM ReadsTheMeaning == Spec => []ReadsWhatIsMeant
<1>1. ASSUME IInv, phase = "reading", read_inputs > 0, ~AnyZeroed,
             Meaningful(inputs[read_inputs]), NEW ctype \in CTypes
      PROVE  Converted(value, ctype) = Wrap(Meant(inputs[read_inputs]), ctype)
  <2>. DEFINE input == inputs[read_inputs]
              entry == entries[read_inputs]
  <2>1. read_inputs \in 1..Len(entries) /\ read_inputs \in 1..Len(inputs)
    BY <1>1 DEF IInv, TypeOK
  <2>2. input \in [name : TypeNames, text : Texts]
    BY <1>1, <2>1, ElementOf DEF IInv, TypeOK
  <2>3. entry = write_typed(input.name, input.text)
    BY <1>1, <2>1 DEF IInv, LayoutInv
  <2>4. value = Found(entry.type, entry.bits)
    BY <1>1, <2>1, LengthsAgree DEF IInv, ValueInv, FirstBytes
  <2>5. Converted(value, ctype) = Wrap(Held(entry), ctype)
    BY <2>4 DEF Converted, Held, Found
  <2>6. /\ input = [name |-> input.name, text |-> input.text]
        /\ input.name \in TypeNames /\ input.text \in Texts
    BY <2>2
  <2>. HIDE DEF input, entry
  <2>7. Meaningful(input)  BY <1>1 DEF input
  <2>8. Wrap(Held(entry), ctype) = Wrap(Meant(input), ctype)
    BY <2>3, <2>6, <2>7, <1>1, WrittenHoldsMeant
  <2>. QED  BY <2>5, <2>8 DEF input
<1>2. IInv => ReadsWhatIsMeant  BY <1>1 DEF ReadsWhatIsMeant
<1>. QED  BY <1>2, Invariance, PTL
=============================================================================
