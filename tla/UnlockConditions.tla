-------------------------- MODULE UnlockConditions --------------------------
(***************************************************************************)
(* What types/unlockcondition.go says of unlock conditions on their own:   *)
(* the address they have, which of them are standard, when two are equal,  *)
(* and what becomes of them in JSON.  Keys and secrets are names, and a    *)
(* hash is what was hashed; its first byte is apart, as rivbin may take it *)
(* for a length (see UnmarshalAnySwap).                                    *)
(***************************************************************************)
EXTENDS TypeEncoding

CONSTANT LowKeys    \* the keys whose address starts with the byte 1

LockTimeMinTimestampValue == 500000000

Ed25519PublicKey(k) == [algorithm |-> 1, key |-> <<Run(<<"key", k>>, 32)>>]

\* crypto.HashObject of encoded bytes.
HashOf(s) ==
    LET low == \E k \in LowKeys : s[Len(s)] = Ed25519PublicKey(k).key[1]
    IN  <<Byte(IF low THEN 1 ELSE 200), Run(<<"hash", s>>, 31)>>

NewUnlockHash(type, hash) == [type |-> type, hash |-> hash]
NewPubKeyUnlockHash(pk) == NewUnlockHash(1, HashOf(EncodeKey("sia", pk)))
NewAtomicSwapHashedSecret(secret) == <<Run(<<"sha256", secret>>, 32)>>
NilSecret == NilBytes(32)

\* The address of the contract of an atomic swap, of its condition or of the
\* fulfillment in the legacy format.
EncodeContract(x) == EncodeHash(x.sender) \o EncodeHash(x.receiver) \o x.hashed \o Number(x.lock, 8)
SwapUnlockHash(x) == NewUnlockHash(2, HashOf(EncodeContract(x)))

\* The unlock hashes are sorted before they are hashed: what is hashed is a bag.
MultiSigUnlockHash(c) ==
    NewUnlockHash(3, <<Byte(200), Run(<<"root", ToBag(c.hashes), c.min>>, 31)>>)

RECURSIVE UnlockHash(_)
UnlockHash(c) ==
    CASE c.t \in {"none", "nil"} -> NilUnlockHash
      [] c.t = "unlockhash" -> c.target
      [] c.t = "atomicswap" -> SwapUnlockHash(c)
      [] c.t = "timelock" -> UnlockHash(c.cond)
      [] c.t = "multisig" -> MultiSigUnlockHash(c)

Fulfillable(c, ctx) ==
    c.t = "timelock" =>
        IF c.lock < LockTimeMinTimestampValue THEN c.lock <= ctx.height ELSE c.lock <= ctx.time

---------------------------------------------------------------------------
\* IsStandardCondition and IsStandardFulfillment.

StandardUnlockHash(c) == c.target.type \in {1, 2} /\ c.target.hash # NilHash

SwapHashesAreStandard(x) ==
    /\ x.sender.type = 1 /\ x.receiver.type = 1
    /\ x.sender.hash # NilHash /\ x.receiver.hash # NilHash
    /\ x.hashed # NilBytes(32)

StandardMultiSig(c) ==
    /\ c.min # 0
    /\ Len(c.hashes) >= 2
    /\ c.min <= Len(c.hashes)
    /\ \A i \in DOMAIN c.hashes : c.hashes[i].type = 1

StandardTimeLock(c) ==
    /\ c.lock # 0
    /\ CASE c.cond.t = "unlockhash" -> c.cond.target.hash # NilHash /\ c.cond.target.type = 1
         [] c.cond.t = "multisig" -> StandardMultiSig(c.cond)
         [] c.cond.t = "nil" -> TRUE
         [] OTHER -> FALSE

IsStandardCondition(c) ==
    CASE c.t \in {"none", "nil"} -> TRUE
      [] c.t = "unlockhash" -> StandardUnlockHash(c)
      [] c.t = "atomicswap" -> SwapHashesAreStandard(c)
      [] c.t = "timelock" -> StandardTimeLock(c)
      [] c.t = "multisig" -> StandardMultiSig(c)

strictSignatureCheck(pk, sig) == pk.algorithm = 1 /\ Size(pk.key) = 32 /\ Size(sig) = 64

StandardLegacySwap(f) == SwapHashesAreStandard(f) /\ strictSignatureCheck(f.key, f.sig)
StandardSignatures(f) ==
    f.pairs # <<>> /\ \A i \in DOMAIN f.pairs : strictSignatureCheck(f.pairs[i][1], f.pairs[i][2])

RECURSIVE IsStandardFulfillment(_)
IsStandardFulfillment(f) ==
    CASE f.t \in {"none", "nil"} -> FALSE
      [] f.t \in {"single", "swap"} -> strictSignatureCheck(f.key, f.sig)
      [] f.t = "legacyswap" -> StandardLegacySwap(f)
      [] f.t = "anyswap" -> IsStandardFulfillment(f.child)
      [] f.t = "signatures" -> StandardSignatures(f)

\* Equal: the order of the unlock hashes of a multisig condition does not matter.
MultiSigsEqual(c, d) == d.t = "multisig" /\ c.min = d.min /\ ToBag(c.hashes) = ToBag(d.hashes)
RECURSIVE ConditionsEqual(_, _)
ConditionsEqual(c, d) ==
    CASE c.t \in {"none", "nil"} -> d.t \in {"none", "nil"}
      [] c.t = "timelock" -> d.t = "timelock" /\ c.lock = d.lock /\ ConditionsEqual(c.cond, d.cond)
      [] c.t = "multisig" -> MultiSigsEqual(c, d)
      [] OTHER -> c = d

---------------------------------------------------------------------------
\* What is read back from the JSON of a value.

JSONUnlockHash(uh) == IF uh.type = 0 THEN NilUnlockHash ELSE uh

RECURSIVE JSONCondition(_)
JSONTimeLock(c) == [c EXCEPT !.cond = JSONCondition(@)]
JSONCondition(c) ==
    CASE c.t \in {"none", "nil"} -> NilChild
      [] c.t = "unlockhash" -> [c EXCEPT !.target = JSONUnlockHash(@)]
      [] c.t = "atomicswap" -> [c EXCEPT !.sender = JSONUnlockHash(@), !.receiver = JSONUnlockHash(@)]
      [] c.t = "timelock" -> JSONTimeLock(c)
      [] c.t = "multisig" -> [c EXCEPT !.hashes = [i \in DOMAIN @ |-> JSONUnlockHash(@[i])]]

\* anyAtomicSwapFulfillment tells the formats apart by which of the fields of
\* the legacy format are undefined.
JSONAnySwap(g) ==
    IF g.t = "swap" THEN Got([t |-> "anyswap", child |-> g], <<>>)
    ELSE LET l == [g EXCEPT !.sender = JSONUnlockHash(@), !.receiver = JSONUnlockHash(@)]
             undefined == {name \in {"sender", "receiver"} : l[name] = NilUnlockHash}
                            \cup {name \in {"lock"} : l[name] = 0}
                            \cup {name \in {"hashed"} : l[name] = NilBytes(32)}
         IN  CASE undefined = {} -> Got([t |-> "anyswap", child |-> l], <<>>)
               [] undefined = {"sender", "receiver", "lock", "hashed"} ->
                    Got([t |-> "anyswap", child |-> Made("swap", <<l.key, l.sig, l.secret>>)], <<>>)
               [] OTHER -> Failed

JSONFulfillment(f) ==
    CASE f.t \in {"none", "nil"} -> Got(NilChild, <<>>)
      [] f.t \in {"single", "signatures"} -> Got(f, <<>>)
      [] f.t \in {"swap", "legacyswap"} -> JSONAnySwap(f)
      [] f.t = "anyswap" -> JSONAnySwap(f.child)

=============================================================================
