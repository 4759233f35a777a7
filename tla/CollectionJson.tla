---------------------------- MODULE CollectionJson ----------------------------
(***************************************************************************)
(* encodeCollectionJson and decodeCollectionJson (src/value.cpp): export   *)
(* and import documents as sequences of JSON tokens.  White space is left  *)
(* out; strings and numbers are one token each, whose text module Utf8     *)
(* looks into.                                                             *)
(*                                                                         *)
(* The state machine takes an exported document and damages it once.       *)
(***************************************************************************)
EXTENDS Naturals, Sequences, SequencesExt, Functions, FiniteSets

CONSTANTS
  Keys,    \* property keys
  Strings, \* string values
  Numbers, \* numeric values
  Broken,  \* keys, strings and numbers that cannot be read back: strings
           \* that are not UTF-8, numbers that are not finite
  Stored   \* the property maps that are exported

\* The order in which std::map iterates over keys.
CONSTANT Sorted(_)

-----------------------------------------------------------------------------
(* Tokens and values.                                                      *)

Mark(m) == [kind |-> m, text |-> m]
String(s) == [kind |-> "string", text |-> s]
Number(n) == [kind |-> "number", text |-> n]

\* A value is its type and its text; a vector has three coordinates.
Bool(b) == [type |-> "bool", value |-> <<b>>]

Value ==
  {Bool("true"), Bool("false")}
    \cup [type : {"number"}, value : {<<n>> : n \in Numbers}]
    \cup [type : {"string"}, value : {<<s>> : s \in Strings}]
    \cup [type : {"vector3"}, value : {<<x, y, z>> : x, y, z \in Numbers}]

DynamicPropertyMap == UNION {[keys -> Value] : keys \in SUBSET Keys}

-----------------------------------------------------------------------------
(* encodeCollectionJson.                                                   *)

\* Tokens between commas.
Separated(parts) ==
  FlattenSeq([i \in DOMAIN parts |-> IF i = 1 THEN parts[i] ELSE <<Mark(",")>> \o parts[i]])

Member(key, tokens) == <<String(key), Mark(":")>> \o tokens

ObjectOf(members) == <<Mark("{")>> \o Separated(members) \o <<Mark("}")>>

Coordinates(numbers) ==
  <<Mark("[")>> \o Separated([i \in DOMAIN numbers |-> <<Number(numbers[i])>>]) \o <<Mark("]")>>

EncodeValue(v) ==
  CASE v.type = "bool" -> <<Mark(v.value[1])>>
    [] v.type = "number" -> <<Number(v.value[1])>>
    [] v.type = "string" -> <<String(v.value[1])>>
    [] v.type = "vector3" -> Coordinates(v.value)

Entry(key, v) ==
  Member(key, ObjectOf(<<Member("type", <<String(v.type)>>), Member("value", EncodeValue(v))>>))

EncodeCollectionJson(properties) ==
  LET keys == Sorted(DOMAIN properties) IN
  ObjectOf(<<Member("schema", <<Number("1")>>),
             Member("target", <<String("world")>>),
             Member("collection", <<String("name")>>),
             Member("revision", <<Number("7")>>),
             Member("properties",
                    ObjectOf([i \in DOMAIN keys |-> Entry(keys[i], properties[keys[i]])]))>>)

-----------------------------------------------------------------------------
(* JsonParser.  Each parse function gives the value and where it ended; a  *)
(* thrown exception is `Thrown`.                                           *)

Thrown == [kind |-> "thrown"]

\* Mutation: the end of the text closes what is open.
AtOrClosed(tokens, pos) == IF pos <= Len(tokens) THEN tokens[pos] ELSE Mark("}")

\* The token at a position, or one that nothing expects.
At(tokens, pos) ==
  IF pos <= Len(tokens) THEN tokens[pos] ELSE [kind |-> "end", text |-> "end"]

\* Mutation: the first of several members with one key wins.
InsertedOrKept(members, key, v) ==
  [ok |-> TRUE, members |-> IF key \in DOMAIN members THEN members
                            ELSE [k \in DOMAIN members \cup {key} |->
                                    IF k = key THEN v ELSE members[k]]]

\* object.emplace: a key that is there already throws.
Inserted(members, key, v) ==
  [ok |-> key \notin DOMAIN members,
   members |-> [k \in DOMAIN members \cup {key} |-> IF k = key THEN v ELSE members[k]]]

RECURSIVE ParseValue(_, _), ParseMembers(_, _, _), ParseElements(_, _, _)

ParseValue(tokens, pos) ==
  LET token == At(tokens, pos) IN
  CASE token.kind = "{" ->
         IF At(tokens, pos + 1).kind = "}"
         THEN [kind |-> "object", value |-> << >>, next |-> pos + 2]
         ELSE ParseMembers(tokens, pos + 1, << >>)
    [] token.kind = "[" ->
         IF At(tokens, pos + 1).kind = "]"
         THEN [kind |-> "array", value |-> << >>, next |-> pos + 2]
         ELSE ParseElements(tokens, pos + 1, << >>)
    [] token.kind \in {"string", "number"} /\ token.text \notin Broken ->
         [kind |-> token.kind, value |-> token.text, next |-> pos + 1]
    [] token.kind \in {"true", "false"} ->
         [kind |-> "bool", value |-> token.kind, next |-> pos + 1]
    [] token.kind = "null" -> [kind |-> "null", value |-> "null", next |-> pos + 1]
    [] OTHER -> Thrown

\* The loop of parseObject, from the position of a key.
ParseMembers(tokens, pos, members) ==
  LET key == At(tokens, pos)
      parsed == ParseValue(tokens, pos + 2)
      inserted == Inserted(members, key.text, parsed)
      separator == At(tokens, parsed.next).kind IN
  IF \/ key.kind # "string" \/ key.text \in Broken
     \/ At(tokens, pos + 1).kind # ":"
     \/ parsed = Thrown \/ ~ inserted.ok
  THEN Thrown
  ELSE CASE separator = "}" ->
              [kind |-> "object", value |-> inserted.members, next |-> parsed.next + 1]
         [] separator = "," -> ParseMembers(tokens, parsed.next + 1, inserted.members)
         [] OTHER -> Thrown

\* The loop of parseArray.
ParseElements(tokens, pos, elements) ==
  LET parsed == ParseValue(tokens, pos)
      separator == At(tokens, parsed.next).kind IN
  IF parsed = Thrown THEN Thrown
  ELSE CASE separator = "]" ->
              [kind |-> "array", value |-> Append(elements, parsed), next |-> parsed.next + 1]
         [] separator = "," -> ParseElements(tokens, parsed.next + 1, Append(elements, parsed))
         [] OTHER -> Thrown

Parse(tokens) ==
  LET parsed == ParseValue(tokens, 1) IN
  IF parsed # Thrown /\ parsed.next > Len(tokens) THEN parsed ELSE Thrown

-----------------------------------------------------------------------------
(* decodeCollectionJson.                                                   *)

Refused == [kind |-> "refused"]

Accepted(properties) == [kind |-> "accepted", properties |-> properties]

\* The value of an entry fits its type.
Holds(entry) ==
  LET v == entry["value"] IN
  CASE entry["type"].value \in {"bool", "number", "string"} -> v.kind = entry["type"].value
    [] entry["type"].value = "vector3" ->
         /\ v.kind = "array" /\ Len(v.value) = 3
         /\ \A i \in 1..3 : v.value[i].kind = "number"
    [] OTHER -> FALSE

EntryOK(encoded) ==
  /\ encoded.kind = "object"
  /\ DOMAIN encoded.value = {"type", "value"}
  /\ encoded.value["type"].kind = "string"
  /\ Holds(encoded.value)

\* Mutation: every coordinate is the first.
DecodedFromFirst(entry) ==
  LET v == entry["value"] IN
  [type |-> entry["type"].value,
   value |-> IF v.kind = "array" THEN [i \in DOMAIN v.value |-> v.value[1].value] ELSE <<v.value>>]

Decoded(entry) ==
  LET v == entry["value"] IN
  [type |-> entry["type"].value,
   value |-> IF v.kind = "array" THEN [i \in DOMAIN v.value |-> v.value[i].value] ELSE <<v.value>>]

RootFields == {"schema", "target", "collection", "revision", "properties"}

DecodeCollectionJson(tokens) ==
  LET root == Parse(tokens) IN
  IF /\ root # Thrown /\ root.kind = "object"
     /\ DOMAIN root.value \subseteq RootFields
     /\ "schema" \in DOMAIN root.value
     /\ root.value["schema"].kind = "number" /\ root.value["schema"].value = "1"
     /\ "properties" \in DOMAIN root.value
     /\ root.value["properties"].kind = "object"
     /\ \A key \in DOMAIN root.value["properties"].value :
          EntryOK(root.value["properties"].value[key])
  THEN LET encoded == root.value["properties"].value IN
       Accepted([key \in DOMAIN encoded |-> Decoded(encoded[key].value)])
  ELSE Refused

-----------------------------------------------------------------------------
(* Documents.                                                              *)

VARIABLES
  properties,  \* what was exported
  document,    \* the document
  damage       \* what happened to it

document_vars == <<properties, document, damage>>

DocumentInit ==
  /\ properties \in Stored
  /\ document = EncodeCollectionJson(properties)
  /\ damage = "none"

Replacements ==
  {Mark(m) : m \in {"{", "}", "[", "]", ":", ",", "true", "null"}}
    \cup {String(s) : s \in Keys \cup Strings \cup {"type", "schema"}}
    \cup {Number(n) : n \in Numbers}

\* The document is cut off.
Truncate ==
  /\ \E n \in 0..(Len(document) - 1) : document' = SubSeq(document, 1, n)
  /\ damage' = "truncated"

\* A token is lost, replaced, or swapped with the next.
Alter ==
  /\ \E i \in DOMAIN document :
       \/ document' = RemoveAt(document, i)
       \/ \E token \in Replacements : document' = ReplaceAt(document, i, token)
       \/ /\ i < Len(document)
          /\ document' = [document EXCEPT ![i] = document[i + 1], ![i + 1] = document[i]]
  /\ damage' = "altered"

\* A part of the document is there twice.
Repeat ==
  /\ \E i, j \in DOMAIN document :
       i <= j /\ document' = SubSeq(document, 1, j) \o SubSeq(document, i, Len(document))
  /\ damage' = "repeated"

DocumentNext == damage = "none" /\ (Truncate \/ Alter \/ Repeat) /\ UNCHANGED properties

-----------------------------------------------------------------------------
(* Properties.                                                             *)

\* A value that import can read.
Readable(v) == \A i \in DOMAIN v.value : v.value[i] \notin Broken

\* What was exported is imported unchanged, every key with its type and value,
\* or refused as a whole if one entry could not be written as JSON.
RoundTrip ==
  damage = "none" =>
    DecodeCollectionJson(document) =
      IF \A key \in DOMAIN properties : key \notin Broken /\ Readable(properties[key])
      THEN Accepted(properties) ELSE Refused

\* A document that was cut off between two tokens is refused: no such part of
\* an export is ever imported as if it were all.
TruncationRefused == damage = "truncated" => DecodeCollectionJson(document) = Refused

\* How many entries the document spells out.
EntriesIn(tokens) ==
  Cardinality({i \in 1..(Len(tokens) - 2) :
    tokens[i] = String("type") /\ tokens[i + 1] = Mark(":") /\ tokens[i + 2].kind = "string"})

\* However a document was damaged, if it is accepted then as many properties
\* are imported as it has entries: none is dropped in favour of another with
\* the same key.
NothingDropped ==
  LET decoded == DecodeCollectionJson(document) IN
  decoded # Refused => Cardinality(DOMAIN decoded.properties) = EntriesIn(document)

=============================================================================
