----------------------------- MODULE Encodings -----------------------------
(***************************************************************************)
(* How records become bytes and come back: the varints and fields of       *)
(* polarysdb/modules/protobuf_wire.py, the tagged values of encoding.py,   *)
(* the WAL entries of wal.py and the JSON of state.rdb in storage.py.      *)
(*                                                                         *)
(* A byte is a number; a string is the sequence of its UTF-8 bytes.  A     *)
(* Python value is [type |-> ..., v |-> ...], a dict a sequence of pairs.  *)
(* The text of a JSON document counts as one byte that holds the parsed    *)
(* document, and a float is identified with its text.  A conversion that   *)
(* raises returns Raised.                                                  *)
(***************************************************************************)
EXTENDS Integers, Sequences, SequencesExt

CONSTANTS
  Base,        \* values of a varint group: 2^7 in the code
  Word,        \* two's complement modulus of a negative number: 2^64
  MaxGroups,   \* groups that decode_varint accepts: 11
  MaxDepth,    \* how deep containers are nested: less than Python's recursion limit
  Now,         \* time.time() when an entry is decoded
  Raised

----------------------------------------------------------------------------
(* Python values. *)

Nil      == [type |-> "nil"]
Py(t, v) == [type |-> t, v |-> v]

Typed(types, S) == [type : types, v : S]

Text   == Seq(Nat)
Scalar == {Nil} \cup Typed({"str", "float"}, Text) \cup Typed({"int"}, Int)
                \cup Typed({"bool"}, BOOLEAN)
Leaf   == Scalar \cup Typed({"bytes"}, Text) \cup Typed({"object"}, Nat)
Name   == Typed({"str"}, Text)
Key    == Name \cup Typed({"int"}, Int)

(* No dict has a key twice. *)
Dict(keys, S) ==
  {d \in Seq(keys \X S) : \A i, j \in DOMAIN d : d[i][1] = d[j][1] => i = j}

(* The values that grow out of leaves, level by level, by lists and dicts. *)
Levels(leaves, lists, keys) ==
  LET Level[n \in 0..MaxDepth] ==
        IF n = 0 THEN leaves
        ELSE Level[n - 1] \cup Typed(lists, Seq(Level[n - 1]))
                          \cup Typed({"dict"}, Dict(keys, Level[n - 1]))
  IN  Level

Value == Levels(Leaf, {"list", "tuple"}, Key)[MaxDepth]

(* Those that JSON has. *)
Json == Levels(Scalar, {"list"}, Name)[MaxDepth]

Bytes == Seq(Nat \cup Json)

----------------------------------------------------------------------------
(* protobuf_wire.py *)

VARINT == 0
LEN    == 2

(* The digits of a number, the most significant first, and the number of digits. *)
Expansion(base) ==
  LET E[n \in Nat] == IF n < base THEN <<n>> ELSE Append(E[n \div base], n % base)
  IN  E

(* Mutated form: what was read before is not shifted. *)
Unshifted(base, n, digit) == n + digit

Shifted(base, n, digit) == n * base + digit

Positional(base, digits) ==
  LET Upto[i \in 0..Len(digits)] ==
        IF i = 0 THEN 0 ELSE Shifted(base, Upto[i - 1], digits[i])
  IN  Upto[Len(digits)]

Unsigned(n) == IF n < 0 THEN n % Word ELSE n

(* encode_varint: the least significant group first, and the continuation bit
   on all but the last. *)
encode_varint(n) ==
  LET groups == Reverse(Expansion(Base)[Unsigned(n)])
  IN  [i \in DOMAIN groups |-> IF i < Len(groups) THEN Base + groups[i] ELSE groups[i]]

(* decode_varint at a position: the number, and the position behind it. *)
decode_varint(buf, pos) ==
  LET reach    == pos..(pos + MaxGroups - 1)
      Final(i) == /\ i <= Len(buf) /\ buf[i] < Base
                  /\ \A j \in pos..(i - 1) : buf[j] >= Base
      last     == CHOOSE i \in reach : Final(i)
      groups   == [i \in 1..(last + 1 - pos) |-> buf[last + 1 - i] % Base]
  IN  IF \E i \in reach : Final(i)
      THEN [value |-> Positional(Base, groups), next |-> last + 1]
      ELSE Raised

encode_key(field, wire)    == encode_varint(8 * field + wire)
encode_uvarint(field, n)   == encode_key(field, VARINT) \o encode_varint(n)
encode_len(field, payload) ==
  encode_key(field, LEN) \o encode_varint(Len(payload)) \o payload

(* A field of a message, before it is encoded and after it was decoded. *)
Varint(field, n)          == [field |-> field, wire |-> VARINT, n |-> n]
Delimited(field, payload) == [field |-> field, wire |-> LEN, payload |-> payload]

Field == [field : Nat, wire : {VARINT}, n : Int] \cup
         [field : Nat, wire : {LEN}, payload : Bytes]

encode_field(f) ==
  IF f.wire = VARINT THEN encode_uvarint(f.field, f.n) ELSE encode_len(f.field, f.payload)

(* out += ..., field by field *)
WithField(out, f) == out \o encode_field(f)

Message(fields) ==
  LET Upto[i \in 0..Len(fields)] ==
        IF i = 0 THEN <<>> ELSE WithField(Upto[i - 1], fields[i])
  IN  Upto[Len(fields)]

(* The field that its tag and the varint behind that announce.  Only varints
   and length-delimited fields are accepted (skip_field). *)
WithTagged(buf, fields, tag, arg) ==
  LET field == tag.value \div 8
      wire  == tag.value % 8
      end   == arg.next + arg.value
  IN  CASE wire = VARINT ->
             [pos |-> arg.next, fields |-> Append(fields, Varint(field, arg.value))]
        [] wire = LEN /\ end <= Len(buf) + 1 ->
             [pos    |-> end,
              fields |-> Append(fields, Delimited(field, SubSeq(buf, arg.next, end - 1)))]
        [] OTHER -> Raised

(* One turn of a decoding loop: the field at the position. *)
NextField(buf, done) ==
  LET tag == decode_varint(buf, done.pos)
      arg == decode_varint(buf, tag.next)
  IN  IF tag = Raised \/ arg = Raised THEN Raised
      ELSE WithTagged(buf, done.fields, tag, arg)

Advanced(buf, done) ==
  IF done = Raised \/ done.pos > Len(buf) THEN done ELSE NextField(buf, done)

AllOf(done) == IF done = Raised THEN Raised ELSE done.fields

(* The fields of a message; every turn takes a byte at least. *)
Fields(buf) ==
  LET Turn[i \in 0..Len(buf)] ==
        IF i = 0 THEN [pos |-> 1, fields |-> <<>>] ELSE Advanced(buf, Turn[i - 1])
  IN  AllOf(Turn[Len(buf)])

----------------------------------------------------------------------------
(* json.dumps followed by json.loads, and _normalize_for_json. *)

(* d[k] = v on a dict, which keeps the order of insertion. *)
WithPair(pairs, p) ==
  IF \E i \in DOMAIN pairs : pairs[i][1] = p[1]
  THEN [i \in DOMAIN pairs |-> IF pairs[i][1] = p[1] THEN p ELSE pairs[i]]
  ELSE Append(pairs, p)

AsDict(pairs) ==
  LET Upto[i \in 0..Len(pairs)] ==
        IF i = 0 THEN <<>> ELSE WithPair(Upto[i - 1], pairs[i])
  IN  Upto[Len(pairs)]

(* A value with its leaves and the keys of its dicts converted: a tuple becomes
   a list, and keys that become equal one key. *)
Converted(leaf, name) ==
  LET C[x \in Value] ==
        LET items == [i \in DOMAIN x.v |-> C[x.v[i]]]
            pairs == [i \in DOMAIN x.v |-> <<name[x.v[i][1]], C[x.v[i][2]]>>]
        IN  CASE x.type \in {"list", "tuple"} ->
                   IF \E i \in DOMAIN x.v : items[i] = Raised THEN Raised
                   ELSE Py("list", items)
              [] x.type = "dict" ->
                   IF \E i \in DOMAIN x.v : pairs[i][1] = Raised \/ pairs[i][2] = Raised
                   THEN Raised ELSE Py("dict", AsDict(pairs))
              [] OTHER -> leaf[x]
  IN  C

(* Decimal text: str(n).encode, and int() of it. *)
Digits(n) == [i \in DOMAIN Expansion(10)[n] |-> 48 + Expansion(10)[n][i]]

Decimal(n) == IF n < 0 THEN <<45>> \o Digits(-n) ELSE Digits(n)

ParseDigits(text) == Positional(10, [i \in DOMAIN text |-> text[i] - 48])

ParseDecimal(text) ==
  IF Head(text) = 45 THEN -ParseDigits(Tail(text)) ELSE ParseDigits(text)

(* base64 text of bytes, marked so that it is no other string of the model. *)
Base64(bytes) == <<64>> \o bytes

(* Mutated form: the key stays what it was. *)
SameName(k) == k

JsonName(k) == IF k.type = "int" THEN Py("str", Decimal(k.v)) ELSE k

(* json.dumps and json.loads: a number as dict key becomes its text; bytes and
   other objects raise. *)
Dumps == Converted([x \in Leaf |-> IF x \in Scalar THEN x ELSE Raised],
                   [k \in Key |-> JsonName(k)])

(* Mutated form: bytes stay bytes. *)
NormalizedNothing(x) == x

(* Mutated form: strings are taken for bytes. *)
NormalizedText(x) == IF x.type \in {"bytes", "str"} THEN Py("str", Base64(x.v)) ELSE x

NormalizedScalar(x) == IF x.type = "bytes" THEN Py("str", Base64(x.v)) ELSE x

(* _normalize_for_json: bytes become base64 text, and only strings are accepted
   as dict keys. *)
Normalize == Converted([x \in Leaf |-> IF x.type = "object" THEN Raised ELSE NormalizedScalar(x)],
                       [k \in Key |-> IF k \in Name THEN k ELSE Raised])

----------------------------------------------------------------------------
(* encoding.py: a tag byte and a payload. *)

TAG_NIL    == 0
TAG_BYTES  == 1
TAG_STRING == 2
TAG_INT    == 3
TAG_UINT   == 4
TAG_FLOAT  == 5
TAG_BOOL   == 6
TAG_JSON   == 7

(* Mutated form: bool is an int in Python, and asked for too late. *)
BoolAsInt(b) == <<TAG_UINT, IF b THEN 49 ELSE 48>>

BoolBytes(b) == <<TAG_BOOL, IF b THEN 1 ELSE 0>>

serialize_value(x) ==
  CASE x.type = "nil"   -> <<TAG_NIL>>
    [] x.type = "bytes" -> <<TAG_BYTES>> \o x.v
    [] x.type = "str"   -> <<TAG_STRING>> \o x.v
    [] x.type = "bool"  -> BoolBytes(x.v)
    [] x.type = "int"   -> <<IF x.v >= 0 THEN TAG_UINT ELSE TAG_INT>> \o Decimal(x.v)
    [] x.type = "float" -> <<TAG_FLOAT>> \o x.v
    [] OTHER            -> IF Dumps[x] = Raised THEN Raised ELSE <<TAG_JSON, Dumps[x]>>

deserialize_value(bytes) ==
  LET payload == Tail(bytes)
  IN  IF bytes = <<>> THEN Nil
      ELSE CASE Head(bytes) = TAG_NIL    -> Nil
             [] Head(bytes) = TAG_BYTES  -> Py("bytes", payload)
             [] Head(bytes) = TAG_STRING -> Py("str", payload)
             [] Head(bytes) \in {TAG_INT, TAG_UINT} -> Py("int", ParseDecimal(payload))
             [] Head(bytes) = TAG_FLOAT  -> Py("float", payload)
             [] Head(bytes) = TAG_BOOL   ->
                  IF payload = <<>> THEN Raised ELSE Py("bool", Head(payload) = 1)
             [] Head(bytes) = TAG_JSON   -> Head(payload)
             [] OTHER                    -> Raised

----------------------------------------------------------------------------
(* wal.py: one entry as a message.  A field with its default value is left
   out; metadata is a dict. *)

NoEntry == [op |-> 0, table |-> <<>>, key |-> <<>>, value |-> Nil, tx |-> <<>>,
            ts |-> 0, metadata |-> <<>>]

Entry == [op : Nat, table : Text, key : Text, value : Value, tx : Text, ts : Int,
          metadata : Dict(Text, Text)]

Unless(default, field) == IF default THEN <<>> ELSE <<field>>

MapEntry(p) == Delimited(7, Message(<<Delimited(1, p[1]), Delimited(2, p[2])>>))

wal_fields(e) ==
  Unless(e.op = 0, Varint(1, e.op))
    \o Unless(e.table = <<>>, Delimited(2, e.table))
    \o Unless(e.key = <<>>, Delimited(3, e.key))
    \o Unless(e.value = Nil, Delimited(4, serialize_value(e.value)))
    \o Unless(e.tx = <<>>, Delimited(5, e.tx))
    \o Unless(e.ts = 0, Varint(6, e.ts))
    \o [i \in DOMAIN e.metadata |-> MapEntry(e.metadata[i])]

encode_wal_entry(e) ==
  IF serialize_value(e.value) = Raised THEN Raised ELSE Message(wal_fields(e))

LastPayload(fields, n) ==
  LET at == {i \in DOMAIN fields : fields[i].wire = LEN /\ fields[i].field = n}
  IN  IF at = {} THEN <<>> ELSE fields[Max(at)].payload

PairOf(fields) ==
  IF fields = Raised THEN Raised ELSE <<LastPayload(fields, 1), LastPayload(fields, 2)>>

(* Key and value of one metadata pair. *)
parse_string_map_entry(payload) == PairOf(Fields(payload))

WithValue(e, x) == IF x = Raised THEN Raised ELSE [e EXCEPT !.value = x]

WithMetadata(e, p) ==
  IF p = Raised THEN Raised
  ELSE IF p[1] = <<>> THEN e ELSE [e EXCEPT !.metadata = WithPair(@, p)]

(* Mutated form: a field of a later version makes the entry unreadable. *)
RejectUnknown(e) == Raised

SkipUnknown(e) == e

(* What one field adds to the entry; unknown fields add nothing. *)
TakeVarint(e, f) ==
  CASE f.field = 1 -> [e EXCEPT !.op = f.n]
    [] f.field = 6 -> [e EXCEPT !.ts = f.n]
    [] OTHER -> SkipUnknown(e)

TakePayload(e, f) ==
  CASE f.field = 2 -> [e EXCEPT !.table = f.payload]
    [] f.field = 3 -> [e EXCEPT !.key = f.payload]
    [] f.field = 4 -> WithValue(e, deserialize_value(f.payload))
    [] f.field = 5 -> [e EXCEPT !.tx = f.payload]
    [] f.field = 7 -> WithMetadata(e, parse_string_map_entry(f.payload))
    [] OTHER -> SkipUnknown(e)

TakeField(e, f) ==
  IF e = Raised THEN Raised
  ELSE IF f.wire = VARINT THEN TakeVarint(e, f) ELSE TakePayload(e, f)

Taken(e, fields) ==
  LET After[i \in 0..Len(fields)] ==
        IF i = 0 THEN e ELSE TakeField(After[i - 1], fields[i])
  IN  After[Len(fields)]

(* An entry without a timestamp gets the time of its decoding. *)
Stamped(e) == IF e # Raised /\ e.ts = 0 THEN [e EXCEPT !.ts = Now] ELSE e

EntryOf(fields) == IF fields = Raised THEN Raised ELSE Stamped(Taken(NoEntry, fields))

decode_wal_entry(buf) == EntryOf(Fields(buf))

----------------------------------------------------------------------------
(* Every number that the code encodes takes few enough groups to be decoded,
   and Raised is no result. *)
ASSUME EncodingsAssumption ==
  /\ Base \in Nat \ {0, 1} /\ MaxGroups \in Nat \ {0} /\ MaxDepth \in Nat /\ Now \in Nat
  /\ Word \in Nat /\ Word >= 64
  /\ \A n \in 0..(Word - 1) : Len(Expansion(Base)[n]) <= MaxGroups

ASSUME RaisedAssumption ==
  /\ Raised \notin Value /\ Raised \notin Bytes /\ Raised \notin Entry
  /\ Raised \notin [value : Nat, next : Nat]
  /\ Raised \notin [pos : Nat, fields : Seq(Field)] /\ Raised \notin Seq(Field)
  /\ Raised \notin Text \X Text

============================================================================
