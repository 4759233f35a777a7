--------------------------------- MODULE Utf8 ---------------------------------
(***************************************************************************)
(* Strings of src/value.cpp at the level of bytes: the UTF-8 validator     *)
(* that guards keys, collection names, string values and every parsed JSON *)
(* string; appendUtf8; and the string escapes of export and import.        *)
(*                                                                         *)
(* A JSON string is the sequence of its elements between the quotes:       *)
(* bytes, escapes like \n, and \uXXXX escapes with their code unit.        *)
(* The state machine only builds inputs, one byte or element at a time.    *)
(***************************************************************************)
EXTENDS Naturals, Sequences

CONSTANTS
  Bytes,      \* the bytes that inputs are made of
  Units,      \* the code units of \u escapes
  MaxBytes,   \* bound on the length of byte strings
  MaxElements \* bound on the length of JSON strings

ASSUME BytesAssumption == Bytes \subseteq 0..255

ASSUME UnitsAssumption == \A unit \in Units : unit \in Nat /\ unit <= 65535

ASSUME BoundsAssumption == {MaxBytes, MaxElements} \subseteq Nat

-----------------------------------------------------------------------------
(* isValidUtf8.                                                            *)

IsContinuationByte(byte) == byte \in 128..191

\* Mutation: surrogates are not excluded.
SecondByteWithSurrogates(first) ==
  CASE first = 224 -> 160..191
    [] first = 240 -> 144..191
    [] first = 244 -> 128..143
    [] OTHER -> 128..191

\* What may follow the first byte of a sequence of three or four.
SecondByte(first) ==
  CASE first = 224 -> 160..191
    [] first = 237 -> 128..159
    [] first = 240 -> 144..191
    [] first = 244 -> 128..143
    [] OTHER -> 128..191

\* How many bytes a first byte announces, 0 if it cannot be one.
Announced(first) ==
  CASE first <= 127 -> 1
    [] first \in 194..223 -> 2
    [] first \in 224..239 -> 3
    [] first \in 240..244 -> 4
    [] OTHER -> 0

\* How many bytes the loop consumes at an index, 0 if it returns false.
Consumed(value, index) ==
  LET size == Announced(value[index]) IN
  IF /\ size # 0 /\ Len(value) - index + 1 >= size
     /\ size >= 2 => value[index + 1] \in SecondByte(value[index])
     /\ \A i \in 2..(size - 1) : IsContinuationByte(value[index + i])
  THEN size ELSE 0

IsValidUtf8(value) ==
  LET valid[index \in 1..(Len(value) + 1)] ==
        \/ index = Len(value) + 1
        \/ Consumed(value, index) # 0 /\ valid[index + Consumed(value, index)] IN
  valid[1]

-----------------------------------------------------------------------------
(* appendUtf8 and the escapes.                                             *)

\* The bytes of a code point.
AppendUtf8(code_point) ==
  LET last == 128 + (code_point % 64)
      middle == 128 + ((code_point \div 64) % 64) IN
  IF code_point <= 127 THEN <<code_point>>
  ELSE IF code_point <= 2047 THEN <<192 + code_point \div 64, last>>
  ELSE IF code_point <= 65535 THEN <<224 + code_point \div 4096, middle, last>>
  ELSE <<240 + code_point \div 262144, 128 + ((code_point \div 4096) % 64), middle, last>>

Byte(b) == [kind |-> "byte", code |-> b]
Escaped(b) == [kind |-> "escape", code |-> b]
Unicode(unit) == [kind |-> "unicode", code |-> unit]

\* The characters with an escape of their own: \b \t \n \f \r " \ .
Escapable == {8, 9, 10, 12, 13, 34, 92}

\* Mutation: only quotes and backslashes are escaped.
EscapedQuotes(b) == IF b \in {34, 92} THEN Escaped(b) ELSE Byte(b)

\* escapeJson, for one byte.
EscapeByte(b) ==
  CASE b \in Escapable -> Escaped(b)
    [] b \notin Escapable /\ b < 32 -> Unicode(b)
    [] OTHER -> Byte(b)

EscapeJson(value) == [i \in DOMAIN value |-> EscapeByte(value[i])]

High == 55296..56319
Low == 56320..57343

\* Mutation: the offset of the supplementary planes is forgotten.
CombinedWithoutOffset(high, low) == (high - 55296) * 1024 + (low - 56320)

Combined(high, low) == 65536 + (high - 55296) * 1024 + (low - 56320)

\* The parser throws: no string of bytes.
Rejected == <<256>>

\* The bytes the loop of parseString appends at an element, and how many
\* elements it takes; none if it fails.
Step(text, i) ==
  LET code == text[i].code
      paired == i < Len(text) /\ text[i + 1].kind = "unicode" /\ text[i + 1].code \in Low IN
  CASE text[i].kind = "byte" -> [taken |-> IF code < 32 THEN 0 ELSE 1, bytes |-> <<code>>]
    [] text[i].kind = "escape" -> [taken |-> 1, bytes |-> <<code>>]
    [] text[i].kind = "unicode" ->
         IF code \in High
         THEN [taken |-> IF paired THEN 2 ELSE 0,
               bytes |-> IF paired THEN AppendUtf8(Combined(code, text[i + 1].code)) ELSE <<>>]
         ELSE [taken |-> IF code \in Low THEN 0 ELSE 1, bytes |-> AppendUtf8(code)]

\* The closing quote: the whole string is validated.
Closed(out) == IF IsValidUtf8(out) THEN out ELSE Rejected

\* parseString.
ParseString(text) ==
  LET out[i \in 1..(Len(text) + 1)] ==
        IF i = Len(text) + 1 THEN <<>>
        ELSE IF Step(text, i).taken = 0 THEN Rejected
        ELSE LET rest == out[i + Step(text, i).taken] IN
             IF rest = Rejected THEN Rejected ELSE Step(text, i).bytes \o rest IN
  IF out[1] = Rejected THEN Rejected ELSE Closed(out[1])

-----------------------------------------------------------------------------
(* Inputs.                                                                 *)

VARIABLES
  value,  \* a byte string
  text    \* the elements of a JSON string

string_vars == <<value, text>>

StringInit == value = <<>> /\ text = <<>>

AddByte ==
  /\ text = <<>> /\ Len(value) < MaxBytes
  /\ \E b \in Bytes : value' = Append(value, b)
  /\ UNCHANGED text

Elements ==
  {Byte(b) : b \in Bytes \ {34, 92}} \cup {Unicode(unit) : unit \in Units}
    \cup {Escaped(b) : b \in Escapable \cup {47}}

AddElement ==
  /\ value = <<>> /\ Len(text) < MaxElements
  /\ \E e \in Elements : text' = Append(text, e)
  /\ UNCHANGED value

StringNext == AddByte \/ AddElement

-----------------------------------------------------------------------------
(* Properties.                                                             *)

IsScalar(code_point) == code_point <= 1114111 /\ code_point \notin High \cup Low

\* The code point that the bytes of one sequence carry.
CodePoint(bytes) ==
  LET low(i) == bytes[i] % 64 IN
  CASE Len(bytes) = 1 -> bytes[1]
    [] Len(bytes) = 2 -> (bytes[1] % 32) * 64 + low(2)
    [] Len(bytes) = 3 -> (bytes[1] % 16) * 4096 + low(2) * 64 + low(3)
    [] OTHER -> (bytes[1] % 8) * 262144 + low(2) * 4096 + low(3) * 64 + low(4)

\* The bytes of one Unicode scalar value, as appendUtf8 writes them.
IsEncoded(bytes) == IsScalar(CodePoint(bytes)) /\ AppendUtf8(CodePoint(bytes)) = bytes

\* A string is UTF-8 if it can be cut into encoded scalar values.
IsUtf8(bytes) ==
  \E cuts \in SUBSET (2..Len(bytes)) :
    LET starts == cuts \cup {1, Len(bytes) + 1} IN
    \A i \in starts \ {Len(bytes) + 1} :
      \E size \in 1..4 : i + size \in starts /\ IsEncoded(SubSeq(bytes, i, i + size - 1))

\* The validator accepts exactly the sequences of encoded scalar values: no
\* overlong form, surrogate, value above U+10FFFF or cut-off sequence, however
\* sequences of different lengths follow each other.
ValidatorExact == IsValidUtf8(value) <=> IsUtf8(value)

\* Every valid string that is exported is read back as it was, whatever it
\* contains of quotes, backslashes and control characters, and an invalid one
\* is refused rather than changed.
EscapesReversible ==
  ParseString(EscapeJson(value)) = IF IsUtf8(value) THEN value ELSE Rejected

\* The code point beyond the first plane whose ten higher and ten lower bits
\* the two surrogates carry.
IsPair(high, low, code_point) ==
  /\ 65536 <= code_point /\ code_point <= 1114111
  /\ (code_point - 65536) \div 1024 = high % 1024
  /\ code_point % 1024 = low % 1024

\* An escaped surrogate that is alone is refused; after a high one only a low
\* one is accepted, and always, and the two are the one code point they stand
\* for (RFC 8259, section 7).  Stated of strings of one and of two elements.
SurrogatesPair ==
  /\ (Len(text) = 1 /\ text[1].kind = "unicode")
     => (ParseString(text) = Rejected <=> text[1].code \in High \cup Low)
  /\ (Len(text) = 2 /\ text[1].kind = "unicode" /\ text[1].code \in High)
     => LET paired == text[2].kind = "unicode" /\ text[2].code \in Low IN
        /\ ParseString(text) # Rejected <=> paired
        /\ paired => IsPair(text[1].code, text[2].code, CodePoint(ParseString(text)))
=============================================================================
