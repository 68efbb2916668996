---------------------------- MODULE Transactions ----------------------------
(***************************************************************************)
(* Transactions and their controllers: what each version writes, reads     *)
(* back, hashes for the identifier and hashes for a signature.  Versions 0 *)
(* and 1 are those of types/, 128 to 130 those of the minting extension,   *)
(* 176 and 177 those of authcointx.                                        *)
(*                                                                         *)
(* A transaction is one record; nonce, ff (fulfillment), cond, auth and    *)
(* deauth are the fields of the extensions.  An input is <<parent,         *)
(* fulfillment>> and an output <<value, condition>>.                       *)
(***************************************************************************)
EXTENDS UnlockConditions

ID(name) == <<Run(<<"output", name>>, 32)>>
NilNonce == NilBytes(8)

EmptyTxn(version) ==
    [version |-> version, coinIns |-> <<>>, coinOuts |-> <<>>, stakeIns |-> <<>>, stakeOuts |-> <<>>,
     fees |-> <<>>, data |-> <<>>,
     nonce |-> NilNonce, ff |-> NoChild, cond |-> NoChild, auth |-> <<>>, deauth |-> <<>>]

Input == Struct(<<Array(32), Fulfillment>>)
Output == Struct(<<Currency, Condition>>)

FieldSchema ==
    [coinIns |-> Slice(Input), coinOuts |-> Slice(Output), stakeIns |-> Slice(Input),
     stakeOuts |-> Slice(Output), fees |-> Slice(Currency), data |-> Bytes,
     nonce |-> Array(8), ff |-> Fulfillment, cond |-> Condition, auth |-> Slice(Hash),
     deauth |-> Slice(Hash), refund |-> Pointer(Output),
     coinParents |-> Slice(Array(32)), stakeParents |-> Slice(Array(32))]

Parents(ins) == [i \in DOMAIN ins |-> ins[i][1]]

\* A field of a transaction by its name; the refund of a coin destruction is
\* its only coin output, kept as a pointer.
Field(t, name) ==
    CASE name = "refund" -> t.coinOuts
      [] name = "coinParents" -> Parents(t.coinIns)
      [] name = "stakeParents" -> Parents(t.stakeIns)
      [] OTHER -> t[name]

Objects(t, names) == [i \in DOMAIN names |-> <<FieldSchema[names[i]], Field(t, names[i])>>]

FieldsRead(version, names, r) ==
    LET Named(name) == IF name = "coinOuts" THEN {"coinOuts", "refund"} ELSE {name}
        Empty == EmptyTxn(version)
    IN  Then(r, [name \in DOMAIN Empty |->
                   IF \E i \in DOMAIN names : names[i] \in Named(name)
                   THEN r.value[CHOOSE i \in DOMAIN names : names[i] \in Named(name)]
                   ELSE Empty[name]])
DecodeFields(e, version, names, s) ==
    FieldsRead(version, names, DecodeEach(e, [i \in DOMAIN names |-> FieldSchema[names[i]]], s))

---------------------------------------------------------------------------
\* The controllers of the extensions: their encoding, the fields they write,
\* and the fields they hash for a signature before and after the extra objects.

\* NewMintingPlugin hands none of its options to the controllers it registers:
\* they always use rivbin and never take miner fees.
MintController == [UseLegacySiaEncoding |-> FALSE, RequireMinerFees |-> FALSE]
MintEncoding == IF MintController.UseLegacySiaEncoding THEN "sia" ELSE "riv"

CoinCreationTransactionController ==
    [encoding |-> MintEncoding, fields |-> <<"nonce", "ff", "coinOuts", "fees", "data">>,
     before |-> <<"nonce">>,
     after |-> <<"coinOuts">> \o (IF MintController.RequireMinerFees THEN <<"fees">> ELSE <<>>) \o <<"data">>]

CoinDestructionTransactionController ==
    [encoding |-> MintEncoding, fields |-> <<"coinIns", "refund", "fees", "data">>,
     before |-> <<>>, after |-> <<"coinParents", "refund", "fees", "data">>]

MinterDefinitionTransactionController ==
    [encoding |-> MintEncoding, fields |-> <<"nonce", "ff", "cond", "fees", "data">>,
     before |-> <<"nonce">>, after |-> <<"cond", "fees", "data">>]

AuthAddressUpdateTransactionController ==
    [encoding |-> "riv", fields |-> <<"nonce", "auth", "deauth", "data", "ff">>,
     before |-> <<"nonce">>, after |-> <<"auth", "deauth", "data">>]

AuthConditionUpdateTransactionController ==
    [encoding |-> "riv", fields |-> <<"nonce", "data", "cond", "ff">>,
     before |-> <<"nonce">>, after |-> <<"cond", "data">>]

Controller(version) ==
    CASE version = 128 -> MinterDefinitionTransactionController
      [] version = 129 -> CoinCreationTransactionController
      [] version = 130 -> CoinDestructionTransactionController
      [] version = 176 -> AuthAddressUpdateTransactionController
      [] version = 177 -> AuthConditionUpdateTransactionController

\* The ...FromTransactionData constructors: which data a controller accepts.
FeesAsRequired(t, required) == required <=> t.fees # <<>>
NoStakes(t) == t.stakeIns = <<>> /\ t.stakeOuts = <<>>
CoinCreationTransactionFromTransactionData(t, requireMinerFees) ==
    t.coinOuts # <<>> /\ FeesAsRequired(t, requireMinerFees) /\ t.coinIns = <<>> /\ NoStakes(t)
CoinDestructionTransactionFromTransactionData(t) ==
    Len(t.coinOuts) <= 1 /\ t.fees # <<>> /\ t.coinIns # <<>> /\ NoStakes(t)
MinterDefinitionTransactionFromTransactionData(t, requireMinerFees) ==
    FeesAsRequired(t, requireMinerFees) /\ t.coinIns = <<>> /\ t.coinOuts = <<>> /\ NoStakes(t)
AuthAddressUpdateTransactionFromTransactionData(t) ==
    t.coinIns = <<>> /\ t.coinOuts = <<>> /\ t.fees = <<>> /\ NoStakes(t)
AuthConditionUpdateTransactionFromTransactionData(t) ==
    t.coinIns = <<>> /\ t.coinOuts = <<>> /\ t.fees = <<>> /\ NoStakes(t)

FromTransactionData(t) ==
    CASE t.version = 128 -> MinterDefinitionTransactionFromTransactionData(t, MintController.RequireMinerFees)
      [] t.version = 129 -> CoinCreationTransactionFromTransactionData(t, MintController.RequireMinerFees)
      [] t.version = 130 -> CoinDestructionTransactionFromTransactionData(t)
      [] t.version = 176 -> AuthAddressUpdateTransactionFromTransactionData(t)
      [] t.version = 177 -> AuthConditionUpdateTransactionFromTransactionData(t)

---------------------------------------------------------------------------
\* Version 0: conditions are unlock hashes, and a fulfillment is an input lock
\* of a type, the bytes of the condition and those of the fulfillment.

LegacyLock == Struct(<<UInt8, Bytes, Bytes>>)
LegacySchema == Struct(<<Slice(Struct(<<Array(32), LegacyLock>>)), Slice(Struct(<<Currency, Hash>>)),
                         Slice(Struct(<<Array(32), LegacyLock>>)), Slice(Struct(<<Currency, Hash>>)),
                         Slice(Currency), Bytes>>)

\* MarshalSia of the input lock: a single signature or a legacy atomic swap.
MarshalLock(f) ==
    IF f.t = "single" THEN <<1, EncodeKey("sia", f.key), f.sig>>
    ELSE <<2, EncodeContract(f), EncodeKey("sia", f.key) \o WriteSlice("sia", f.sig) \o f.secret>>

LegacySingle(r, sig) == Then(r, [t |-> "single", key |-> r.value, sig |-> sig])
LegacySwap(c, f) == IF c.ok /\ f.ok THEN Got(Made("legacyswap", c.value \o f.value), <<>>) ELSE Failed
UnmarshalLock(lock) ==
    CASE lock[1] = 1 -> LegacySingle(Decode("sia", Key, lock[2]), lock[3])
      [] lock[1] = 2 -> LegacySwap(Decode("sia", Schema("atomicswap"), lock[2]), Decode("sia", Schema("swap"), lock[3]))
      [] OTHER -> Failed

\* newLegacyTransactionData, with what MarshalSia and MarshalJSON refuse.
newLegacyTransactionData(t) ==
    /\ \A outs \in {t.coinOuts, t.stakeOuts} : \A i \in DOMAIN outs : outs[i][2].t = "unlockhash"
    /\ \A ins \in {t.coinIns, t.stakeIns} : \A i \in DOMAIN ins : ins[i][2].t \in {"single", "legacyswap"}

LegacyData(t) ==
    LET Ins(ins) == [i \in DOMAIN ins |-> <<ins[i][1], MarshalLock(ins[i][2])>>]
        Outs(outs) == [i \in DOMAIN outs |-> <<outs[i][1], outs[i][2].target>>]
    IN  <<Ins(t.coinIns), Outs(t.coinOuts), Ins(t.stakeIns), Outs(t.stakeOuts), t.fees, t.data>>

\* legacyTransactionData.TransactionData, of what was decoded.
LegacyInputs(ins) == [i \in DOMAIN ins |-> <<ins[i][1], UnmarshalLock(ins[i][2]).value>>]
LegacyOutputs(outs) == [i \in DOMAIN outs |-> <<outs[i][1], [t |-> "unlockhash", target |-> outs[i][2]]>>]
LegacyTransactionData(v, rest) ==
    IF \E n \in {1, 3} : \E i \in DOMAIN v[n] : ~UnmarshalLock(v[n][i][2]).ok THEN Failed
    ELSE Got([EmptyTxn(0) EXCEPT !.coinIns = LegacyInputs(v[1]), !.coinOuts = LegacyOutputs(v[2]),
                                 !.stakeIns = LegacyInputs(v[3]), !.stakeOuts = LegacyOutputs(v[4]),
                                 !.fees = v[5], !.data = v[6]], rest)
LegacyRead(r) == IF r.ok THEN LegacyTransactionData(r.value, r.rest) ELSE Failed
DecodeLegacyData(s) == LegacyRead(Decode("sia", LegacySchema, s))

legacyUnlockHashFromFulfillment(f) ==
    CASE f.t = "single" -> NewPubKeyUnlockHash(f.key)
      [] f.t = "legacyswap" -> SwapUnlockHash(f)
      [] OTHER -> NilUnlockHash
legacyUnlockHashCondition(c) == IF c.t = "unlockhash" THEN c.target ELSE NilUnlockHash

---------------------------------------------------------------------------
DataFields == <<"coinIns", "coinOuts", "stakeIns", "stakeOuts", "fees", "data">>

\* What a controller can encode, in binary and in JSON.
Encodable(t) ==
    CASE t.version = 0 -> newLegacyTransactionData(t)
      [] t.version = 1 -> TRUE
      [] OTHER -> FromTransactionData(t)

\* EncodeTransactionData and DecodeTransactionData.  The default controller
\* writes its data as one slice of bytes.
DataEncoding(version) == IF version \in {0, 1} THEN "sia" ELSE Controller(version).encoding
DataObjects(t) ==
    CASE t.version = 0 -> << <<LegacySchema, LegacyData(t)>> >>
      [] t.version = 1 -> Objects(t, DataFields)
      [] OTHER -> Objects(t, Controller(t.version).fields)
EncodeTransactionData(t) ==
    LET bytes == MarshalAll(DataEncoding(t.version), DataObjects(t))
    IN  IF t.version = 1 THEN WriteSlice("sia", bytes) ELSE bytes

DecodeDefault(b) == IF b.ok THEN Left(DecodeFields("sia", 1, DataFields, b.value), b.rest) ELSE Failed
DecodeTransactionData(version, s) ==
    CASE version = 0 -> DecodeLegacyData(s)
      [] version = 1 -> DecodeDefault(ReadSlice("sia", s, MaxSliceSize))
      [] OTHER -> DecodeFields(DataEncoding(version), version, Controller(version).fields, s)

MarshalSia(t) ==
    IF Encodable(t) THEN Got(<<Byte(t.version)>> \o EncodeTransactionData(t), <<>>) ELSE Failed

Versions == {0, 1, 128, 129, 130, 176, 177}

DecodeVersion(v) == IF v.ok /\ v.value \in Versions THEN DecodeTransactionData(v.value, v.rest) ELSE Failed
UnmarshalSia(s) == DecodeVersion(ReadNumber(s, 1))

---------------------------------------------------------------------------
\* What is hashed for a signature; the extra objects come with their schemas.

LegacySignatureObjects(t) ==
    LET Ins(ins) == [i \in DOMAIN ins |-> <<Struct(<<Array(32), Hash>>),
                                            <<ins[i][1], legacyUnlockHashFromFulfillment(ins[i][2])>>>>]
        Outs(outs) == <<Slice(Struct(<<Currency, Hash>>)),
                        [i \in DOMAIN outs |-> <<outs[i][1], legacyUnlockHashCondition(outs[i][2])>>]>>
    IN  Ins(t.coinIns) \o <<Outs(t.coinOuts)>> \o Ins(t.stakeIns) \o <<Outs(t.stakeOuts)>>
          \o Objects(t, <<"fees", "data">>)
DefaultSignatureFields == <<"coinParents", "coinOuts", "stakeParents", "stakeOuts", "fees", "data">>

SignatureObjects(t, extra) ==
    CASE t.version = 0 -> extra \o LegacySignatureObjects(t)
      [] t.version = 1 -> << <<UInt8, 1>> >> \o extra \o Objects(t, DefaultSignatureFields)
      [] OTHER -> << <<UInt8, t.version>>, <<Array(16), Specifier(<<"tx", t.version>>)>> >>
                    \o Objects(t, Controller(t.version).before) \o extra
                    \o Objects(t, Controller(t.version).after)
SignatureHash(t, extra) ==
    IF t.version \in {0, 1} \/ FromTransactionData(t)
    THEN Got(MarshalAll(DataEncoding(t.version), SignatureObjects(t, extra)), <<>>) ELSE Failed

---------------------------------------------------------------------------
\* What is read back from the JSON of a transaction.  An input lock of version
\* 0 keeps its type.

JSONInputFulfillment(version, f) ==
    IF version = 0 /\ f.t = "legacyswap"
    THEN Got([f EXCEPT !.sender = JSONUnlockHash(@), !.receiver = JSONUnlockHash(@)], <<>>)
    ELSE JSONFulfillment(f)

ThroughJSON(t) ==
    LET Read(f) == JSONInputFulfillment(t.version, f)
        Ins(ins) == [i \in DOMAIN ins |-> <<ins[i][1], Read(ins[i][2]).value>>]
        Outs(outs) == [i \in DOMAIN outs |-> <<outs[i][1], JSONCondition(outs[i][2])>>]
        Addresses(uhs) == [i \in DOMAIN uhs |-> JSONUnlockHash(uhs[i])]
        Written == UNION {{ins[i][2] : i \in DOMAIN ins} : ins \in {t.coinIns, t.stakeIns}}
        Extended == t.version \in {128, 129, 176, 177}
    IN  IF ~Encodable(t) \/ \E f \in Written \cup {t.ff} : ~Read(f).ok THEN Failed
        ELSE Got([t EXCEPT !.coinIns = Ins(@), !.coinOuts = Outs(@),
                           !.stakeIns = Ins(@), !.stakeOuts = Outs(@),
                           !.ff = IF Extended THEN Read(@).value ELSE @,
                           !.cond = IF t.version \in {128, 177} THEN JSONCondition(@) ELSE @,
                           !.auth = Addresses(@), !.deauth = Addresses(@)], <<>>)

=============================================================================
