------------------------------ MODULE Protobuf ------------------------------
(***************************************************************************)
(* The generated Rust code of a protocol buffer message, once for all      *)
(* messages: the accessors of its fields, compute_size,                    *)
(* write_to_with_cached_sizes, merge_from and clear.  What tells one       *)
(* message from another is its list of fields, which module NetsimProto    *)
(* takes from the generated code of every message.                         *)
(*                                                                         *)
(* A message object is a record: its type, the values of its fields, the   *)
(* unknown fields it has read and the size compute_size cached last.       *)
(* Strings, byte arrays and floats are sequences of bytes; a singular      *)
(* message field is a sequence of at most one object; a oneof is one field *)
(* that holds at most one case.                                            *)
(***************************************************************************)
EXTENDS Integers, Sequences, SequencesExt, NetsimProto

(***************************************************************************)
(* Varints, tags and UTF-8: the protobuf runtime.                          *)
(***************************************************************************)
\* The groups of seven bits of an int32, sign extended to 64 bits: the low
\* groups first, all but the last one marked.
RECURSIVE Groups(_, _)
Groups(n, left) ==
    IF n \in 0..127 \/ left = 1
    THEN <<IF n < 0 THEN 1 ELSE n>>
    ELSE <<128 + (n % 128)>> \o Groups(n \div 128, left - 1)

Varint(n) == Groups(n, 10)

VarintSize(n) ==
    CASE n < 0       -> 10
      [] n < 128     -> 1
      [] n < 16384   -> 2
      [] n < 2097152 -> 3
      [] OTHER       -> 4

Tag(field, wire) == <<8 * field + wire>>

WireTypeVarint == 0
WireTypeLengthDelimited == 2
WireTypeFixed32 == 5

\* The number of bytes of the varint at the head of s; 0 when it does not end.
VarintLength(s) ==
    LET ends == {i \in 1..Len(s) : s[i] < 128}
    IN  IF ends = {} THEN 0 ELSE CHOOSE i \in ends : \A j \in ends : i <= j

\* The value of a varint of at most 32 bits, or of a sign extended one.
VarintValue(s) ==
    FoldRight(LAMBDA b, v : 128 * v + (b % 128),
              IF Len(s) = 10 THEN Front(s) ELSE s,
              IF Len(s) = 10 THEN -1 ELSE 0)

\* Whether s is UTF-8, which a Rust String requires.
RECURSIVE IsUtf8(_)
IsUtf8(s) ==
    IF s = <<>> THEN TRUE
    ELSE LET n == CASE s[1] < 128         -> 1
                    [] s[1] \in 194..223  -> 2
                    [] s[1] \in 224..239  -> 3
                    [] s[1] \in 240..244  -> 4
                    [] OTHER              -> 0
             second == CASE s[1] = 224 -> 160..191
                         [] s[1] = 237 -> 128..159
                         [] s[1] = 240 -> 144..191
                         [] s[1] = 244 -> 128..143
                         [] OTHER      -> 128..191
         IN  /\ n \in 1..Len(s)
             /\ n > 1 => s[2] \in second
             /\ \A i \in 3..n : s[i] \in 128..191
             /\ IsUtf8(SubSeq(s, n + 1, Len(s)))

-----------------------------------------------------------------------------
(***************************************************************************)
(* Objects and accessors.                                                  *)
(***************************************************************************)
Zero == <<0, 0, 0, 0>>
MinusZero == <<0, 0, 0, 128>>

Default(kind) ==
    CASE kind = "float"             -> Zero
      [] kind \in {"int32", "enum"} -> 0
      [] kind = "bool"              -> FALSE
      [] OTHER                      -> <<>>

\* The names under which a message of a type keeps its fields.
Slots(type) == {f.slot : f \in ToSet(Fields[type])}

FieldOf(type, slot) == CHOOSE f \in ToSet(Fields[type]) : f.slot = slot

IsOneof(f) == f.slot # f.name

IsMessage(f) == f.kind \in {"message", "messages"}

New(type) ==
    [type |-> type, unknown |-> <<>>, cached |-> 0,
     val |-> [s \in Slots(type) |->
                IF IsOneof(FieldOf(type, s)) THEN <<>>
                ELSE Default(FieldOf(type, s).kind)]]

\* What a message field, or a case of a oneof, starts with.
NewValue(f) == IF f.kind = "message" THEN New(f.of) ELSE Default(f.kind)

Case(f, v) == <<[c \in {f.name} |-> v]>>

HasCase(m, f) == m.val[f.slot] # <<>> /\ f.name \in DOMAIN m.val[f.slot][1]

\* set_f: a oneof gives up the case it held.
SetField(m, f, v) ==
    [m EXCEPT !.val[f.slot] =
        CASE IsOneof(f)         -> Case(f, v)
          [] f.kind = "message" -> <<v>>
          [] OTHER              -> v]

\* clear_f: of a oneof, whichever case it holds.
ClearField(m, f) ==
    [m EXCEPT !.val[f.slot] = IF IsOneof(f) THEN <<>> ELSE Default(f.kind)]

\* take_f: of a oneof, the case only if it is f.
TakeField(m, f) ==
    IF IsOneof(f) /\ ~HasCase(m, f) THEN m ELSE ClearField(m, f)

\* mut_f: present afterwards, with its old value if it had one.
MutField(m, f) ==
    [m EXCEPT !.val[f.slot] =
        CASE IsOneof(f)         -> IF HasCase(m, f) THEN @ ELSE Case(f, NewValue(f))
          [] f.kind = "message" -> IF @ = <<>> THEN <<NewValue(f)>> ELSE @
          [] OTHER              -> @]

\* mut_f().push_default() of a repeated field.
PushDefault(m, f) ==
    [m EXCEPT !.val[f.slot] =
        Append(@, IF f.kind = "messages" THEN New(f.of) ELSE <<>>)]

\* get_f: the default instance or value where there is none.
GetField(m, f) ==
    CASE IsOneof(f)         -> IF HasCase(m, f) THEN m.val[f.slot][1][f.name] ELSE NewValue(f)
      [] f.kind = "message" -> IF m.val[f.slot] = <<>> THEN NewValue(f) ELSE m.val[f.slot][1]
      [] OTHER              -> m.val[f.slot]

\* Clear::clear: the cached size stays.
Clear(m) == [New(m.type) EXCEPT !.cached = m.cached]

-----------------------------------------------------------------------------
(***************************************************************************)
(* Writing.                                                                *)
(***************************************************************************)
\* Mutated form: default values are written too.
WrittenAlways(m, f) ==
    LET v == m.val[f.slot] IN
    CASE IsOneof(f) -> IF HasCase(m, f) THEN <<v[1][f.name]>> ELSE <<>>
      [] f.kind \in {"message", "messages", "strings"} -> v
      [] OTHER -> <<v>>

\* The values of f that are written, in order: proto3 leaves out the default.
\* Both zeros are equal to 0.
Written(m, f) ==
    LET v == m.val[f.slot] IN
    CASE IsOneof(f) -> IF HasCase(m, f) THEN <<v[1][f.name]>> ELSE <<>>
      [] f.kind \in {"message", "messages", "strings"} -> v
      [] f.kind = "float" -> IF v \in {Zero, MinusZero} THEN <<>> ELSE <<v>>
      [] OTHER -> IF v = Default(f.kind) THEN <<>> ELSE <<v>>

\* m with the objects inside it replaced by their images.
OnNested(m, Image(_)) ==
    LET Inside(s, x) ==
            LET f == CHOOSE f \in ToSet(Fields[m.type]) :
                        f.slot = s /\ (IsOneof(f) => HasCase(m, f))
            IN  CASE ~IsMessage(f) -> x
                  [] IsOneof(f)    -> [x EXCEPT ![f.name] = Image(@)]
                  [] OTHER         -> Image(x)
        Holds(s) == \E f \in ToSet(Fields[m.type]) : f.slot = s /\ IsMessage(f)
    IN  [m EXCEPT !.val = [s \in DOMAIN m.val |->
            IF Holds(s) THEN [i \in DOMAIN m.val[s] |-> Inside(s, m.val[s][i])]
            ELSE m.val[s]]]

\* Mutated form: the length of a nested message takes one byte.
ValueSizeShortLength(f, v) ==
    CASE f.kind = "float"             -> 5
      [] f.kind = "bool"              -> 2
      [] f.kind \in {"int32", "enum"} -> 1 + VarintSize(v)
      [] IsMessage(f)                 -> 2 + v.cached
      [] OTHER                        -> 1 + VarintSize(Len(v)) + Len(v)

ValueSize(f, v) ==
    CASE f.kind = "float"             -> 5
      [] f.kind = "bool"              -> 2
      [] f.kind \in {"int32", "enum"} -> 1 + VarintSize(v)
      [] IsMessage(f)                 -> 1 + VarintSize(v.cached) + v.cached
      [] OTHER                        -> 1 + VarintSize(Len(v)) + Len(v)

\* compute_size, which caches the size of the object and of those inside it.
RECURSIVE ComputeSize(_)
ComputeSize(m) ==
    LET sized == OnNested(m, LAMBDA x : ComputeSize(x))
        FieldSize(f) == FoldLeft(LAMBDA n, v : n + ValueSize(f, v), 0, Written(sized, f))
    IN  [sized EXCEPT !.cached =
            FoldLeft(LAMBDA n, f : n + FieldSize(f), 0, Fields[m.type])
            + Len(FlattenSeq(m.unknown))]

\* write_to_with_cached_sizes: the fields by number, then the unknown ones.
RECURSIVE WriteTo(_)
WriteTo(m) ==
    LET WriteValue(f, v) ==
            CASE f.kind = "float" -> Tag(f.num, WireTypeFixed32) \o v
              [] f.kind = "bool"  -> Tag(f.num, WireTypeVarint) \o <<1>>
              [] f.kind \in {"int32", "enum"} -> Tag(f.num, WireTypeVarint) \o Varint(v)
              [] IsMessage(f) ->
                    Tag(f.num, WireTypeLengthDelimited) \o Varint(v.cached) \o WriteTo(v)
              [] OTHER -> Tag(f.num, WireTypeLengthDelimited) \o Varint(Len(v)) \o v
        WriteField(f) == FoldLeft(LAMBDA s, v : s \o WriteValue(f, v), <<>>, Written(m, f))
    IN  FoldLeft(LAMBDA s, f : s \o WriteField(f), <<>>, Fields[m.type])
        \o FlattenSeq(m.unknown)

-----------------------------------------------------------------------------
(***************************************************************************)
(* Reading.  An error is Failed.                                           *)
(***************************************************************************)
Failed == <<>>

\* The field at the head of s: its number and wire type, its payload without
\* the length, the bytes it takes and whether all of them are there.
Head1(s) ==
    LET wire == s[1] % 8
        rest == Tail(s)
        vlen == VarintLength(rest)
        size == CASE wire = WireTypeVarint  -> vlen
                  [] wire = WireTypeFixed32 -> 4
                  [] wire = WireTypeLengthDelimited /\ vlen > 0 ->
                        vlen + VarintValue(SubSeq(rest, 1, vlen))
                  [] OTHER -> 0
    IN  [num |-> s[1] \div 8, wire |-> wire, taken |-> 1 + size,
         whole |-> size > 0 /\ size <= Len(rest),
         payload |-> SubSeq(rest, IF wire = WireTypeLengthDelimited THEN vlen + 1 ELSE 1, size)]

WireOf(kind) ==
    CASE kind = "float"                     -> WireTypeFixed32
      [] kind \in {"bool", "int32", "enum"} -> WireTypeVarint
      [] OTHER                              -> WireTypeLengthDelimited

\* Mutated form: a new unknown field goes before the old ones.
AddUnknownFirst(unknown, x) == <<x>> \o unknown

\* UnknownFields keeps the fields of one number in order; in which order it
\* writes the numbers is left to its hash map, and here it is ascending.
AddUnknown(unknown, x) ==
    SelectSeq(unknown, LAMBDA y : y[1] \div 8 <= x[1] \div 8) \o <<x>>
    \o SelectSeq(unknown, LAMBDA y : y[1] \div 8 > x[1] \div 8)

\* merge_from: an unknown number, or an unknown value of an enum, is kept; a
\* wrong wire type, a field cut short or a string that is not UTF-8 fails.
RECURSIVE MergeFrom(_, _)
MergeFrom(m, s) ==
    IF s = <<>> THEN <<m>>
    ELSE
    LET h == Head1(s)
        rest == SubSeq(s, h.taken + 1, Len(s))
        known == {f \in ToSet(Fields[m.type]) : f.num = h.num}
        unknown == [m EXCEPT !.unknown = AddUnknown(@, SubSeq(s, 1, h.taken))]
    IN  IF ~h.whole THEN Failed
        ELSE IF known = {} THEN MergeFrom(unknown, rest)
        ELSE LET f == CHOOSE f \in known : TRUE IN
        IF h.wire # WireOf(f.kind) THEN Failed
        ELSE CASE IsMessage(f) ->
                    LET inner == MergeFrom(New(f.of), h.payload) IN
                    IF inner = Failed THEN Failed
                    ELSE IF f.kind = "messages"
                    THEN MergeFrom([m EXCEPT !.val[f.slot] = Append(@, inner[1])], rest)
                    ELSE MergeFrom(SetField(m, f, inner[1]), rest)
               [] f.kind = "strings" ->
                    IF ~IsUtf8(h.payload) THEN Failed
                    ELSE MergeFrom([m EXCEPT !.val[f.slot] = Append(@, h.payload)], rest)
               [] f.kind = "string" ->
                    IF ~IsUtf8(h.payload) THEN Failed
                    ELSE MergeFrom(SetField(m, f, h.payload), rest)
               [] f.kind = "enum" ->
                    IF VarintValue(h.payload) \in f.of
                    THEN MergeFrom(SetField(m, f, VarintValue(h.payload)), rest)
                    ELSE MergeFrom(unknown, rest)
               [] f.kind = "int32" -> MergeFrom(SetField(m, f, VarintValue(h.payload)), rest)
               [] f.kind = "bool" -> MergeFrom(SetField(m, f, VarintValue(h.payload) # 0), rest)
               [] OTHER -> MergeFrom(SetField(m, f, h.payload), rest)

\* parse_from_bytes
ParseFromBytes(type, s) == MergeFrom(New(type), s)

\* write_to_bytes
WriteToBytes(m) == WriteTo(ComputeSize(m))

=============================================================================
