------------------------------ MODULE TestInput ------------------------------
(***************************************************************************)
(* The bytes of one test: the driver writes each input of the test file    *)
(* into a TestBuffer, as a byte for its type and the value itself; the     *)
(* target takes the bytes over and reads one value for every call of a     *)
(* __VERIFIER_nondet function, finding the next one by the length it knows *)
(* the type to have.                                                       *)
(***************************************************************************)
EXTENDS Integers, Sequences

CONSTANTS
  Values,        \* number of values of an integer of 1, 2, 4, 8 and 16 bytes
  Texts,         \* texts of values to try
  MaxInputs,     \* bound: inputs of the test
  InitialSize    \* bytes a TestBuffer starts with

Sizes == {1, 2, 4, 8, 16}

(* A text is a decimal integer, a number with a fraction (given by what is *)
(* left of the point), the empty text, or anything else.                   *)
Text == [kind : {"integer", "fraction", "empty", "other"}, value : Int]

(* As of 2^(8n): an integer is cut to a narrower type by its last bytes.   *)
ASSUME ValuesAssumption ==
  /\ Values \in [Sizes -> Nat]
  /\ \A n \in Sizes : Values[n] > 0 /\ Values[n] % 2 = 0
  /\ \A m, n \in Sizes : m <= n => Values[n] % Values[m] = 0
ASSUME TextsAssumption == Texts \subseteq Text
ASSUME BufferAssumption ==
  MaxInputs \in Nat /\ InitialSize \in Nat /\ InitialSize >= 17

-----------------------------------------------------------------------------
(* Types of C, and what becomes of an integer put into one.                *)
Int8 == [signed |-> TRUE, size |-> 1]
Uint8 == [signed |-> FALSE, size |-> 1]
Int16 == [signed |-> TRUE, size |-> 2]
Uint16 == [signed |-> FALSE, size |-> 2]
Int32 == [signed |-> TRUE, size |-> 4]
Uint32 == [signed |-> FALSE, size |-> 4]
Int64 == [signed |-> TRUE, size |-> 8]
Uint64 == [signed |-> FALSE, size |-> 8]
Int128 == [signed |-> TRUE, size |-> 16]
Uint128 == [signed |-> FALSE, size |-> 16]

CTypes == [signed : BOOLEAN, size : Sizes]

Wrap(v, ctype) ==
  LET n == Values[ctype.size]
  IN  IF ctype.signed THEN ((v + n \div 2) % n) - n \div 2 ELSE v % n

Magnitude(v) == IF v < 0 THEN -v ELSE v

(* lexical_cast to an unsigned type takes a minus sign, and wraps.         *)
lexical_cast_accepts(text, ctype) ==
  /\ text.kind = "integer"
  /\ IF ctype.signed THEN Wrap(text.value, ctype) = text.value
     ELSE Magnitude(text.value) < Values[ctype.size]

IsReal(text)     == text.kind \in {"integer", "fraction"}
IsNegative(text) == text.kind \in {"integer", "fraction"} /\ text.value < 0

(* parse_uint128 finds nothing wrong with the empty text.                  *)
parse_uint128_accepts(text) == text.kind \in {"integer", "empty"}

num_bytes ==
  [ BOOLEAN |-> 1, UINT8 |-> 1, SINT8 |-> 1, UINT16 |-> 2, SINT16 |-> 2,
    UINT32 |-> 4, SINT32 |-> 4, FLOAT32 |-> 4, UINT64 |-> 8, SINT64 |-> 8,
    FLOAT64 |-> 8, UINT128 |-> 16, SINT128 |-> 16 ]
InputTypes == DOMAIN num_bytes

(* A value in memory: its bits, which TestBuffer::write is given together  *)
(* with the type to note.  The bits of a floating point number are the     *)
(* number itself.                                                          *)
Entry(type, size, bits) == [type |-> type, size |-> size, bits |-> bits]
Entries == [type : InputTypes, size : Sizes, bits : Int]

Stored(v, ctype, type) ==
  Entry(type, ctype.size, Wrap(v, [ctype EXCEPT !.signed = FALSE]))

(* Rows of write_typed: what the text is cast to, what is written of it,   *)
(* and under which type.  "long" stands for longlong and loff_t, "ulong"   *)
(* for ulonglong, size_t, sector_t, pthread_t and pchar.                   *)
Row(cast, put, type) == [cast |-> cast, put |-> put, type |-> type]

Integral ==
  [ bool   |-> Row(Uint8, Uint8, "UINT8"),
    char   |-> Row(Int32, Int8, "SINT8"),
    uchar  |-> Row(Uint32, Uint8, "UINT8"),
    short  |-> Row(Int16, Int16, "SINT16"),
    ushort |-> Row(Uint16, Uint16, "UINT16"),
    int    |-> Row(Int32, Int32, "SINT32"),
    uint   |-> Row(Uint32, Uint32, "UINT32"),
    long   |-> Row(Int64, Int64, "SINT64"),
    ulong  |-> Row(Uint64, Uint64, "UINT64") ]

TypeNames == DOMAIN Integral \cup {"float", "double", "int128", "uint128", ""}

Accepted(name, text) ==
  /\ name \in DOMAIN Integral
  /\ lexical_cast_accepts(text, Integral[name].cast)
  /\ name = "bool" => text.value \in {0, 1}

IntegralEntry(name, text) ==
  LET row == Integral[name]
  IN  Stored(Wrap(text.value, row.cast), row.put, row.type)

sizeof_int == 4
SavedAsZero == Entry("UINT8", sizeof_int, 0)

Bug_TagOfInt == "SINT32"
ShortTag     == "SINT16"

Bug_Unsigned == "UINT64"
LongTag      == "SINT64"

(* "UB??" asks the source where -2^127 is negated: it wraps, in the code    *)
(* that both compilers the build accepts make of it.                       *)
write_negative(text) ==
  IF lexical_cast_accepts(text, Int16) THEN Stored(text.value, Int16, ShortTag)
  ELSE IF lexical_cast_accepts(text, Int64) THEN Stored(text.value, Int64, LongTag)
  ELSE IF text.kind = "integer" THEN Stored(text.value, Int128, "SINT128")
  ELSE Entry("FLOAT64", 8, text.value)

write_positive(text) ==
  IF lexical_cast_accepts(text, Uint16) THEN Stored(text.value, Uint16, "UINT16")
  ELSE IF lexical_cast_accepts(text, Uint64) THEN Stored(text.value, Uint64, "UINT64")
  ELSE IF parse_uint128_accepts(text) THEN Stored(text.value, Uint128, "UINT128")
  ELSE IF IsReal(text) THEN Entry("FLOAT64", 8, text.value)
  ELSE SavedAsZero

write_untyped(text) ==
  IF IsNegative(text) THEN write_negative(text) ELSE write_positive(text)

write_typed(name, text) ==
  CASE Accepted(name, text) -> IntegralEntry(name, text)
    [] name = "float" /\ IsReal(text)  -> Entry("FLOAT32", 4, text.value)
    [] name = "double" /\ IsReal(text) -> Entry("FLOAT64", 8, text.value)
    [] name = "int128"  -> Stored(text.value, Int128, "SINT128")
    [] name = "uint128" -> Stored(Magnitude(text.value), Uint128, "UINT128")
    [] OTHER -> write_untyped(text)

(* The exception of parse_uint128 is not the one write_typed catches.      *)
Throws(name, text) ==
  name \in {"int128", "uint128"} /\ ~parse_uint128_accepts(text)

Zeroed(name, text) == ~Throws(name, text) /\ write_typed(name, text) = SavedAsZero

-----------------------------------------------------------------------------
VARIABLES
  phase,               \* "parsing", "reading", or "dead"
  size, offset,        \* of the TestBuffer
  entries, starts,     \* what is written, and the offset of each
  inputs,              \* history: name and text of each input
  cursor, read_inputs, \* the input model of the target
  value                \* what the last read found

written == <<size, offset, entries, starts, inputs>>
vars    == <<phase, written, cursor, read_inputs, value>>

Found(type, bits)  == [known |-> TRUE, type |-> type, bits |-> bits]
NothingFound == [known |-> FALSE, type |-> "BOOLEAN", bits |-> 0]

Init ==
  /\ phase = "parsing"
  /\ size = InitialSize /\ offset = 0
  /\ entries = << >> /\ starts = << >> /\ inputs = << >>
  /\ cursor = 0 /\ read_inputs = 0 /\ value = NothingFound

Bug_LooksTooFar == read_inputs <= Len(entries)
InputsLeft == read_inputs < Len(entries)

Bug_ForgetsType(n) == size < offset + n
TooSmall(n) == size < offset + n + 1

ParseInput(name, text) ==
  /\ phase = "parsing" /\ Len(entries) < MaxInputs
  /\ ~Throws(name, text)
  /\ LET entry == write_typed(name, text)
     IN  /\ size' = IF TooSmall(entry.size) THEN 2 * size ELSE size
         /\ offset' = offset + 1 + entry.size
         /\ entries' = Append(entries, entry)
  /\ starts' = Append(starts, offset)
  /\ inputs' = Append(inputs, [name |-> name, text |-> text])
  /\ UNCHANGED <<phase, cursor, read_inputs, value>>

ParseFails(name, text) ==
  /\ phase = "parsing" /\ Len(entries) < MaxInputs
  /\ Throws(name, text)
  /\ phase' = "dead"
  /\ UNCHANGED <<written, cursor, read_inputs, value>>

(* The driver hands over byte_count() and input_count(), the target loads. *)
Load ==
  /\ phase = "parsing" /\ phase' = "reading"
  /\ UNCHANGED <<written, cursor, read_inputs, value>>

(* The value a cast in read() finds at the cursor.                         *)
FirstBytes(entry) ==
  LET n == num_bytes[entry.type]
  IN  IF n = entry.size THEN entry.bits ELSE Wrap(entry.bits, [signed |-> FALSE, size |-> n])

ReadInput ==
  /\ phase = "reading" /\ InputsLeft
  /\ \E i \in 1..Len(entries) :
       /\ starts[i] = cursor
       /\ cursor' = cursor + 1 + num_bytes[entries[i].type]
       /\ value' = Found(entries[i].type, FirstBytes(entries[i]))
  /\ read_inputs' = read_inputs + 1
  /\ UNCHANGED <<phase, written>>

(* The cursor is not where a value starts: some byte of a value, or of     *)
(* what lies behind the last one, is taken for a type.                     *)
ReadAstray ==
  /\ phase = "reading" /\ InputsLeft
  /\ \A i \in 1..Len(entries) : starts[i] # cursor
  /\ \/ /\ \E type \in InputTypes : cursor' = cursor + 1 + num_bytes[type]
        /\ read_inputs' = read_inputs + 1 /\ value' = NothingFound
        /\ UNCHANGED phase
     \/ phase' = "dead" /\ UNCHANGED <<cursor, read_inputs, value>>
  /\ UNCHANGED written

Exhausted ==
  /\ phase = "reading" /\ ~InputsLeft
  /\ phase' = "dead"
  /\ UNCHANGED <<written, cursor, read_inputs, value>>

Next ==
  \/ \E name \in TypeNames, text \in Texts :
       ParseInput(name, text) \/ ParseFails(name, text)
  \/ Load \/ ReadInput \/ ReadAstray \/ Exhausted

Spec == Init /\ [][Next]_vars

-----------------------------------------------------------------------------
SignedTypes == {"SINT8", "SINT16", "SINT32", "SINT64", "SINT128"}

(* What a variable of an integer type holds after an integer is read.      *)
Converted(v, ctype) ==
  Wrap(Wrap(v.bits, [signed |-> v.type \in SignedTypes,
                     size |-> num_bytes[v.type]]), ctype)

(* What the test means: a value of the type it names, or else the number.  *)
Meant(input) ==
  IF Accepted(input.name, input.text)
  THEN Wrap(input.text.value, Integral[input.name].put)
  ELSE input.text.value

(* Inputs with a meaning for every integer type: a 128-bit integer, not    *)
(* negative for uint128, and not to be rounded.                            *)
Meaningful(input) ==
  /\ input.text.kind = "integer" /\ input.name \notin {"float", "double"}
  /\ IF IsNegative(input.text)
     THEN lexical_cast_accepts(input.text, Int128) /\ input.name # "uint128"
     ELSE lexical_cast_accepts(input.text, Uint128)

AnyZeroed == \E i \in 1..Len(inputs) : Zeroed(inputs[i].name, inputs[i].text)

StartOfNext ==
  IF read_inputs < Len(entries) THEN starts[read_inputs + 1] ELSE offset

(* Every variable has its type.                                            *)
TypeOK ==
  /\ phase \in {"parsing", "reading", "dead"}
  /\ size \in Nat /\ offset \in Nat /\ cursor \in Nat
  /\ entries \in Seq(Entries) /\ starts \in Seq(Nat)
  /\ inputs \in Seq([name : TypeNames, text : Texts])
  /\ Len(starts) = Len(entries) /\ Len(inputs) = Len(entries)
  /\ read_inputs \in 0..Len(entries)
  /\ value \in [known : BOOLEAN, type : InputTypes, bits : Int]

(* Doubling the buffer once is enough: no value is ever copied past its    *)
(* end (test_parser.cpp:35-43).                                            *)
BufferIsBigEnough == offset <= size

(* The target finds each value where the driver put it and ends with the   *)
(* last, unless a value had to be saved as zero (input_model.hpp:44-77).   *)
ReadsInStep ==
  phase = "reading" /\ ~AnyZeroed => cursor = StartOfNext

(* A variable of any integer type gets what the test means, whatever type  *)
(* the driver chose to write (test_parser.cpp:95-215).                     *)
ReadsWhatIsMeant ==
  phase = "reading" /\ read_inputs > 0 /\ ~AnyZeroed
  /\ Meaningful(inputs[read_inputs])
  => \A ctype \in CTypes :
       Converted(value, ctype) = Wrap(Meant(inputs[read_inputs]), ctype)

(* A value that cannot be parsed is saved as 0, and no more than that: the *)
(* values after it are read from where they are (test_parser.cpp:137).     *)
StaysInStep == phase = "reading" => cursor = StartOfNext
=============================================================================
