---------------------------- MODULE TypeEncoding ----------------------------
(***************************************************************************)
(* What the encoders and decoders of siabin and rivbin make of the types   *)
(* of a transaction.  The reflection on Go types is a schema: a tuple that *)
(* starts with the kind.  An unlock condition or fulfillment is a record   *)
(* whose field t names its Go type; a proxy without a child is "none".     *)
(***************************************************************************)
EXTENDS Encoding

UInt8 == <<"byte">>            \* a type or version, one byte in both encodings
UInt == <<"uint">>             \* a uint64, or an int
Bytes == <<"bytes">>           \* a slice of bytes
Currency == <<"currency">>
Hash == <<"hash">>             \* an UnlockHash
Key == <<"key">>               \* a PublicKey
Condition == <<"condition">>   \* an UnlockConditionProxy
Fulfillment == <<"fulfillment">>
Array(n) == <<"array", n>>     \* n bytes
Pointer(T) == <<"pointer", T>> \* to nothing, <<>>, or to the only element of a sequence
Slice(T) == <<"slice", T>>
Struct(Ts) == <<"struct", Ts>>

NilBytes(n) == <<Run(<<"nil">>, n)>>
NilHash == <<Byte(0), Run(<<"nil">>, 31)>>
NilUnlockHash == [type |-> 0, hash |-> NilHash]
Specifier(algorithm) == <<Run(<<"specifier", algorithm>>, 16)>>

NoChild == [t |-> "none"]
NilChild == [t |-> "nil"]

\* The registered types; the position is the type byte plus one.
ConditionTypes == <<"nil", "unlockhash", "atomicswap", "timelock", "multisig">>
FulfillmentTypes == <<"nil", "single", "anyswap", "signatures">>

TypeByte(types, t) == (CHOOSE i \in DOMAIN types : types[i] = t) - 1
ConditionType(c) == IF c.t = "none" THEN 0 ELSE TypeByte(ConditionTypes, c.t)
FulfillmentType(f) ==
    CASE f.t = "none" -> 0
      [] f.t \in {"swap", "legacyswap"} -> 2
      [] OTHER -> TypeByte(FulfillmentTypes, f.t)

\* The fields that the Marshal methods of the children write one after the other.
SwapFields == << <<"sender", Hash>>, <<"receiver", Hash>>, <<"hashed", Array(32)>>, <<"lock", UInt>> >>
SignatureFields == << <<"key", Key>>, <<"sig", Bytes>> >>
Layout ==
    [nil        |-> <<>>,
     unlockhash |-> << <<"target", Hash>> >>,
     atomicswap |-> SwapFields,
     multisig   |-> << <<"min", UInt>>, <<"hashes", Slice(Hash)>> >>,
     single     |-> SignatureFields,
     swap       |-> Append(SignatureFields, <<"secret", Array(32)>>),
     legacyswap |-> SwapFields \o SignatureFields \o << <<"secret", Array(32)>> >>,
     signatures |-> << <<"pairs", Slice(Struct(<<Key, Bytes>>))>> >>]

Schema(t) == Struct([i \in DOMAIN Layout[t] |-> Layout[t][i][2]])
Values(x) == [i \in DOMAIN Layout[x.t] |-> x[Layout[x.t][i][1]]]
Made(t, v) ==
    [name \in {"t"} \cup {Layout[t][i][1] : i \in DOMAIN v} |->
       IF name = "t" THEN t ELSE v[CHOOSE i \in DOMAIN v : Layout[t][i][1] = name]]

\* The big-endian bytes of a currency, without leading zeros.
CurrencyBytes(n) ==
    LET w == CHOOSE k \in 0..3 : n < 256^k /\ \A j \in 0..(k - 1) : n >= 256^j
    IN  Reverse(Number(n, w))

---------------------------------------------------------------------------
RECURSIVE Encode(_, _, _)
RECURSIVE MarshalCondition(_, _)

\* Marshal of a condition, with MarshalAll of encoding e.
MarshalCondition(e, c) ==
    IF c.t = "timelock"
    THEN Encode(e, Struct(<<UInt, UInt8>>), <<c.lock, ConditionType(c.cond)>>)
           \o MarshalCondition(e, c.cond)
    ELSE Encode(e, Schema(c.t), Values(c))

\* Marshal of a fulfillment; anyAtomicSwapFulfillment leaves it to its child.
MarshalFulfillment(e, f) ==
    LET g == IF f.t = "anyswap" THEN f.child ELSE f
    IN  Encode(e, Schema(g.t), Values(g))

\* MarshalSia and MarshalRivine of the proxies.  Without a child they encode
\* the type and the int 0, which is eight bytes in both encodings.
EncodeCondition(e, c) ==
    <<Byte(ConditionType(c))>> \o IF c.t = "none" THEN Number(0, 8) ELSE WriteSlice(e, MarshalCondition(e, c))
EncodeFulfillment(e, f) ==
    <<Byte(FulfillmentType(f))>> \o IF f.t = "none" THEN Number(0, 8) ELSE WriteSlice(e, MarshalFulfillment(e, f))

EncodeHash(uh) == <<Byte(uh.type)>> \o uh.hash
EncodeKey(e, pk) ==
    IF e = "sia" THEN Specifier(pk.algorithm) \o WriteSlice(e, pk.key)
    ELSE <<Byte(pk.algorithm)>> \o IF pk.algorithm = 0 THEN <<>> ELSE pk.key

\* The kinds that the encoders know by themselves, and the types that marshal
\* themselves, which come first.
EncodeKind(e, T, v) ==
    CASE T[1] = "uint" -> Number(v, 8)
      [] T[1] = "array" -> v
      [] T[1] = "bytes" -> WriteSlice(e, v)
      [] T[1] = "pointer" ->
           IF v = <<>> THEN <<Byte(0)>> ELSE <<Byte(1)>> \o Encode(e, T[2], v[1])
      [] T[1] = "slice" ->
           WriteLength(e, Len(v)) \o FlattenSeq([i \in DOMAIN v |-> Encode(e, T[2], v[i])])
      [] T[1] = "struct" -> FlattenSeq([i \in DOMAIN T[2] |-> Encode(e, T[2][i], v[i])])
Encode(e, T, v) ==
    CASE T = UInt8 -> <<Byte(v)>>
      [] T = Currency -> WriteSlice(e, CurrencyBytes(v))
      [] T = Hash -> EncodeHash(v)
      [] T = Key -> EncodeKey(e, v)
      [] T = Condition -> EncodeCondition(e, v)
      [] T = Fulfillment -> EncodeFulfillment(e, v)
      [] OTHER -> EncodeKind(e, T, v)

\* MarshalAll of objects, each with its schema.
MarshalAll(e, objects) == FlattenSeq([i \in DOMAIN objects |-> Encode(e, objects[i][1], objects[i][2])])

---------------------------------------------------------------------------
RECURSIVE Decode(_, _, _)
RECURSIVE UnmarshalCondition(_, _, _)

\* The value of a decoder, changed.
Then(r, v) == IF r.ok THEN Got(v, r.rest) ELSE Failed

\* DecodeAll, and the elements of a slice.
RECURSIVE DecodeEach(_, _, _)
Prepend(v, r) == Then(r, <<v>> \o r.value)
DecodeMore(e, Ts, first) == IF first.ok THEN Prepend(first.value, DecodeEach(e, Ts, first.rest)) ELSE Failed
DecodeEach(e, Ts, s) == IF Ts = <<>> THEN Got(<<>>, s) ELSE DecodeMore(e, Tail(Ts), Decode(e, Head(Ts), s))

\* Unmarshal of a child from all of the bytes b.  UnmarshalAll does not mind
\* bytes that are left; only the nil condition does.
WithFields(t, r) == IF r.ok THEN Got(Made(t, r.value), <<>>) ELSE Failed
UnmarshalFields(e, t, b) == WithFields(t, Decode(e, Schema(t), b))
TimeLocked(lock, r) == Then(r, [t |-> "timelock", lock |-> lock, cond |-> r.value])
UnmarshalTimeLock(e, r) ==
    IF ~r.ok \/ r.value[2] >= Len(ConditionTypes) THEN Failed
    ELSE TimeLocked(r.value[1], UnmarshalCondition(e, ConditionTypes[r.value[2] + 1], r.rest))
UnmarshalCondition(e, t, b) ==
    CASE t = "nil" -> IF b = <<>> THEN Got(NilChild, <<>>) ELSE Failed
      [] t = "timelock" -> UnmarshalTimeLock(e, Decode(e, Struct(<<UInt, UInt8>>), b))
      [] OTHER -> UnmarshalFields(e, t, b)

\* "be positive, first try the new format".
AnySwap(r) == Then(r, [t |-> "anyswap", child |-> r.value])
UnmarshalAnySwap(e, b) ==
    AnySwap(IF UnmarshalFields(e, "swap", b).ok THEN UnmarshalFields(e, "swap", b)
            ELSE UnmarshalFields(e, "legacyswap", b))
UnmarshalFulfillment(e, t, b) ==
    CASE t = "nil" -> Got(NilChild, <<>>)
      [] t = "anyswap" -> UnmarshalAnySwap(e, b)
      [] OTHER -> UnmarshalFields(e, t, b)

\* A proxy: the type byte and the slice of the child.
Left(c, rest) == IF c.ok THEN Got(c.value, rest) ELSE Failed
ConditionChild(e, r) ==
    IF ~r.ok \/ r.value[1] >= Len(ConditionTypes) THEN Failed
    ELSE Left(UnmarshalCondition(e, ConditionTypes[r.value[1] + 1], r.value[2]), r.rest)
FulfillmentChild(e, r) ==
    IF ~r.ok \/ r.value[1] >= Len(FulfillmentTypes) THEN Failed
    ELSE Left(UnmarshalFulfillment(e, FulfillmentTypes[r.value[1] + 1], r.value[2]), r.rest)
DecodeCondition(e, s) == ConditionChild(e, DecodeEach(e, <<UInt8, Bytes>>, s))
DecodeFulfillment(e, s) == FulfillmentChild(e, DecodeEach(e, <<UInt8, Bytes>>, s))

LoadSpecifier(r) ==
    IF ~r.ok \/ r.value[1] \notin {Specifier(0), Specifier(1)} THEN Failed
    ELSE Got([algorithm |-> IF r.value[1] = Specifier(1) THEN 1 ELSE 0, key |-> r.value[2]], r.rest)
WithKey(algorithm, k) == Then(k, [algorithm |-> algorithm, key |-> k.value])
ReadKey(a) == IF ~a.ok \/ a.value > 1 THEN Failed ELSE WithKey(a.value, ReadFull(a.rest, 32 * a.value))
DecodeKey(e, s) ==
    IF e = "sia" THEN LoadSpecifier(DecodeEach(e, <<Array(16), Bytes>>, s)) ELSE ReadKey(ReadNumber(s, 1))

DecodedCurrency(r) == Then(r, LittleEndian(Reverse([i \in DOMAIN r.value |-> r.value[i][2]])))
DecodedHash(r) == Then(r, [type |-> r.value[1], hash |-> r.value[2]])
DecodePointer(e, T, set) ==
    IF ~set.ok THEN Failed
    ELSE IF set.value = 0 THEN Got(<<>>, set.rest) ELSE DecodeEach(e, <<T>>, set.rest)
DecodeElements(e, T, n) == IF n.ok THEN DecodeEach(e, [i \in 1..n.value |-> T], n.rest) ELSE Failed

DecodeKind(e, T, s) ==
    CASE T[1] = "uint" -> ReadNumber(s, 8)
      [] T[1] = "array" -> ReadFull(s, T[2])
      [] T[1] = "bytes" -> ReadSlice(e, s, IF e = "sia" THEN MaxSliceSize ELSE MaxRivSlice)
      [] T[1] = "pointer" -> DecodePointer(e, T[2], ReadNumber(s, 1))
      [] T[1] = "slice" -> DecodeElements(e, T[2], ReadLength(e, s))
      [] T[1] = "struct" -> DecodeEach(e, T[2], s)
Decode(e, T, s) ==
    CASE T = UInt8 -> ReadNumber(s, 1)
      [] T = Currency -> DecodedCurrency(ReadSlice(e, s, 256))
      [] T = Hash -> DecodedHash(DecodeEach(e, <<UInt8, Array(32)>>, s))
      [] T = Key -> DecodeKey(e, s)
      [] T = Condition -> DecodeCondition(e, s)
      [] T = Fulfillment -> DecodeFulfillment(e, s)
      [] OTHER -> DecodeKind(e, T, s)

=============================================================================
