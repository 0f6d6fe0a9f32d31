--------------------------- MODULE MessageExchange ---------------------------
(***************************************************************************)
(* A program that builds a message with the generated accessors, in any    *)
(* order, and writes it; a peer that merges what arrives into an object of *)
(* its own, which it may write again.  The sender may be newer than the    *)
(* peer: it then sends fields and enum values the peer does not know.      *)
(***************************************************************************)
EXTENDS Protobuf

CONSTANTS
    Types,      \* the types of the message that is exchanged
    MaxCalls,   \* bound on the accessor calls
    MaxMerges   \* bound on the messages the peer merges

ASSUME Types \subseteq DOMAIN Fields /\ MaxCalls \in Nat /\ MaxMerges \in Nat

VARIABLES
    obj,     \* the object the program builds
    wire,    \* the bytes on their way, at most one message
    sent,    \* the object those bytes were written from
    peer,    \* the peer's object
    calls,   \* accessor calls so far
    merges   \* messages merged so far

vars == <<obj, wire, sent, peer, calls, merges>>

Init ==
    /\ \E t \in Types : obj = New(t) /\ peer = New(t)
    /\ wire = <<>>
    /\ sent = <<>>
    /\ calls = 0
    /\ merges = 0

-----------------------------------------------------------------------------
(***************************************************************************)
(* The objects inside an object, by the slots and indices that lead there. *)
(***************************************************************************)
\* What a slot holds: an object, or the case of a oneof with its object.
Object(x) == IF "type" \in DOMAIN x THEN x ELSE x[CHOOSE c \in DOMAIN x : TRUE]

Inner(m) ==
    {<<s, i>> \in Slots(m.type) \X (1..2) :
        \E f \in ToSet(Fields[m.type]) :
            /\ f.slot = s
            /\ IsMessage(f)
            /\ i \in DOMAIN m.val[s]
            /\ IsOneof(f) => HasCase(m, f)}

RECURSIVE Paths(_)
Paths(m) ==
    {<<>>} \cup UNION {{<<step>> \o p : p \in Paths(Object(m.val[step[1]][step[2]]))} :
                       step \in Inner(m)}

RECURSIVE At(_, _)
At(m, path) ==
    IF path = <<>> THEN m
    ELSE At(Object(m.val[path[1][1]][path[1][2]]), Tail(path))

RECURSIVE Put(_, _, _)
Put(m, path, x) ==
    IF path = <<>> THEN x
    ELSE [m EXCEPT !.val[path[1][1]][path[1][2]] =
            IF "type" \in DOMAIN @ THEN Put(@, Tail(path), x)
            ELSE [c \in DOMAIN @ |-> Put(@[c], Tail(path), x)]]

\* The values the program may set: a short text and one whose length takes two
\* bytes, 1.0 and -0.0, a negative number and one of two bytes.
Text == <<97>>
LongText == [i \in 1..130 |-> 97]
One == <<0, 0, 128, 63>>

Values(f) ==
    CASE f.kind = "string"   -> {Text, LongText}
      [] f.kind = "bytes"    -> {<<200>>}
      [] f.kind = "strings"  -> {<<Text, <<>>>>}
      [] f.kind = "float"    -> {One, MinusZero}
      [] f.kind = "int32"    -> {-1, 300}
      [] f.kind = "bool"     -> {TRUE}
      [] f.kind = "enum"     -> {1, 2}
      [] f.kind = "message"  -> {New(f.of)}
      [] f.kind = "messages" -> {<<New(f.of), New(f.of)>>}

\* A field and a value of an enum from a newer version of the protocol.
NewField == Tag(15, WireTypeVarint) \o Varint(300)
NewEnumValue(f) == Tag(f.num, WireTypeVarint) \o Varint(9)

-----------------------------------------------------------------------------
(***************************************************************************)
(* Steps                                                                   *)
(***************************************************************************)
\* One accessor call on the object at a path, as a chain of mut_ calls reaches it.
Call(Change(_, _)) ==
    /\ calls < MaxCalls
    /\ \E path \in Paths(obj) :
          LET m == At(obj, path) IN
          \E f \in ToSet(Fields[m.type]) : obj' = Put(obj, path, Change(m, f))
    /\ calls' = calls + 1
    /\ UNCHANGED <<wire, sent, peer, merges>>

CallSet ==
    /\ calls < MaxCalls
    /\ \E path \in Paths(obj) :
          LET m == At(obj, path) IN
          \E f \in ToSet(Fields[m.type]) :
            \E v \in Values(f) : obj' = Put(obj, path, SetField(m, f, v))
    /\ calls' = calls + 1
    /\ UNCHANGED <<wire, sent, peer, merges>>

CallClear == Call(ClearField)

CallTake == Call(TakeField)

CallMut == Call(MutField)

CallPush == Call(LAMBDA m, f :
    IF f.kind \in {"messages", "strings"} /\ Len(m.val[f.slot]) < 2
    THEN PushDefault(m, f) ELSE m)

ClearAll ==
    /\ calls < MaxCalls
    /\ obj' = Clear(obj)
    /\ calls' = calls + 1
    /\ UNCHANGED <<wire, sent, peer, merges>>

\* Mutated form: the sizes of an earlier write are used again.
WriteCachedSizes ==
    /\ sent = <<>>
    /\ merges < MaxMerges
    /\ obj' = IF obj.cached = 0 THEN ComputeSize(obj) ELSE obj
    /\ wire' = WriteTo(obj')
    /\ sent' = <<obj>>
    /\ UNCHANGED <<peer, calls, merges>>

Write ==
    /\ sent = <<>>
    /\ merges < MaxMerges
    /\ obj' = ComputeSize(obj)
    /\ wire' = WriteTo(obj')
    /\ sent' = <<obj>>
    /\ UNCHANGED <<peer, calls, merges>>

\* The sender is newer than the peer.
WriteNewer ==
    /\ sent = <<>>
    /\ merges < MaxMerges
    /\ obj' = ComputeSize(obj)
    /\ \E extra \in {NewField} \cup {NewEnumValue(f) : f \in
                        {g \in ToSet(Fields[obj.type]) : g.kind = "enum"}} :
          /\ wire' = WriteTo(obj') \o extra
          /\ sent' = <<[obj EXCEPT !.unknown = <<extra>>]>>
    /\ UNCHANGED <<peer, calls, merges>>

Merge ==
    /\ sent # <<>>
    /\ MergeFrom(peer, wire) # Failed
    /\ peer' = MergeFrom(peer, wire)[1]
    /\ wire' = <<>>
    /\ sent' = <<>>
    /\ merges' = merges + 1
    /\ UNCHANGED <<obj, calls>>

Next ==
    \/ CallSet \/ CallClear \/ CallTake \/ CallMut \/ CallPush \/ ClearAll
    \/ Write \/ WriteNewer
    \/ Merge

Spec == Init /\ [][Next]_vars

-----------------------------------------------------------------------------
(***************************************************************************)
(* Properties                                                              *)
(***************************************************************************)
\* What == on two objects compares: not the cached sizes, and both zeros are
\* equal.
RECURSIVE Plain(_)
Plain(m) ==
    LET inner == OnNested(m, LAMBDA x : Plain(x))
        IsFloat(s) == \E f \in ToSet(Fields[m.type]) : f.slot = s /\ f.kind = "float"
    IN  [inner EXCEPT !.cached = 0,
                      !.val = [s \in DOMAIN m.val |->
                          IF IsFloat(s) /\ @[s] = MinusZero THEN Zero ELSE @[s]]]

\* Round trip: whatever sequence of accessor calls and earlier writes led to
\* an object, the bytes written from it parse, and into an equal object.  The
\* length before every nested message is the cached size, so it must be fresh
\* although accessors and clear() leave the cached sizes alone.
RoundTrip ==
    sent # <<>> =>
        LET parsed == ParseFromBytes(obj.type, wire)
        IN  parsed # Failed /\ Plain(parsed[1]) = Plain(sent[1])

\* compute_size of the root, with which write_to_bytes reserves its buffer, is
\* the number of bytes that are then written.
SizeExact == [][Write => Len(wire') = obj'.cached]_vars

\* What merging b into a means: a scalar of b that is not the default, a message
\* or a case of b replaces a's, repeated fields are appended.
MergedValue(f, a, b) ==
    CASE f.kind \in {"messages", "strings"} -> a \o b
      [] IsOneof(f) \/ f.kind = "message"   -> IF b = <<>> THEN a ELSE b
      [] OTHER                              -> IF b = Default(f.kind) THEN a ELSE b

Merged(a, b) ==
    [a EXCEPT !.val = [s \in DOMAIN a.val |->
                          MergedValue(FieldOf(a.type, s), a.val[s], b.val[s])],
              !.unknown = FoldLeft(AddUnknown, @, b.unknown)]

\* A message merged into an object that is in use overrides exactly what it
\* carries; a field it left at its default does not reset the peer's.
MergeOverrides ==
    [][Merge => Plain(peer') = Merged(Plain(peer), Plain(sent[1]))]_vars

\* A peer that does not know all fields and values and writes its object again
\* loses nothing: it parses to an equal object, unknown fields included.
RelayLossless ==
    LET parsed == ParseFromBytes(peer.type, WriteToBytes(peer))
    IN  parsed # Failed /\ Plain(parsed[1]) = Plain(peer)

=============================================================================
