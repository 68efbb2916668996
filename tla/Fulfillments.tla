---------------------------- MODULE Fulfillments ----------------------------
(***************************************************************************)
(* Signing and fulfilling: the Sign and Fulfill methods of                 *)
(* types/unlockcondition.go, and what the wallet and the atomic swap       *)
(* client sign.                                                            *)
(*                                                                         *)
(* A signature is what was signed with which key, so that it verifies for  *)
(* no other key and for nothing else.  A context ctx is the height and     *)
(* time of the block, the outputs that are spent, from their identifiers   *)
(* to <<value, condition>>, and the mint or auth condition in force.       *)
(***************************************************************************)
EXTENDS Transactions

Index(i) == << <<UInt, i - 1>> >>    \* the extra objects of input i

SignatureOf(pk, h) == Then(h, <<Run(<<"sig", pk.key, h.value>>, 64)>>)
signHashUsingPublicKey(pk, t, extra) == SignatureOf(pk, SignatureHash(t, extra))

verifyHashUsingPublicKey(pk, t, sig, extra) ==
    pk.algorithm = 1 /\ pk.key # <<>> /\ signHashUsingPublicKey(pk, t, extra) = Got(sig, <<>>)

\* Mutant: a refund is signed over the secret it does not have.
SwapObjectsAlways(f, extra) == extra \o << <<Key, f.key>>, <<Array(32), f.secret>> >>

\* What an atomic swap is signed over besides the transaction.
SwapObjects(f, extra) ==
    extra \o << <<Key, f.key>> >> \o IF f.secret = NilSecret THEN <<>> ELSE << <<Array(32), f.secret>> >>

\* Sign of a fulfillment with the key pk; it refuses to replace a signature,
\* but a multisig fulfillment takes every signature it is given.
Signed(f, pk, sig) ==
    IF f.t = "signatures" THEN Then(sig, [f EXCEPT !.pairs = Append(@, <<pk, sig.value>>)])
    ELSE Then(sig, [f EXCEPT !.sig = sig.value])
SignedObjects(f, pk, extra) ==
    CASE f.t \in {"swap", "legacyswap"} -> SwapObjects(f, extra)
      [] f.t = "signatures" -> Append(extra, <<Key, pk>>)
      [] OTHER -> extra
SignFulfillment(f, pk, t, extra) ==
    IF f.t = "signatures" \/ (f.t \in {"single", "swap", "legacyswap"} /\ f.sig = <<>>)
    THEN Signed(f, pk, signHashUsingPublicKey(pk, t, SignedObjects(f, pk, extra))) ELSE Failed

---------------------------------------------------------------------------
\* Fulfill, by the type of the condition.

FulfillSingle(uh, f, t, extra) ==
    uh.type = 1 /\ NewPubKeyUnlockHash(f.key) = uh /\ verifyHashUsingPublicKey(f.key, t, f.sig, extra)

\* The fulfillment of a contract by its receiver, or by its sender.
FulfillContract(c, f, t, extra, redeems) ==
    /\ NewPubKeyUnlockHash(f.key) = IF redeems THEN c.receiver ELSE c.sender
    /\ verifyHashUsingPublicKey(f.key, t, f.sig,
         extra \o << <<Key, f.key>> >> \o IF redeems THEN << <<Array(32), f.secret>> >> ELSE <<>>)
    /\ redeems => NewAtomicSwapHashedSecret(f.secret) = c.hashed

RECURSIVE FulfillUnlockHash(_, _, _, _, _)
FulfillUnlockHash(c, f, t, extra, ctx) ==
    CASE f.t = "single" -> FulfillSingle(c.target, f, t, extra)
      [] f.t = "legacyswap" ->
           /\ c.target.type = 2
           /\ SwapUnlockHash(f) = c.target
           /\ FulfillContract(f, f, t, extra, ctx.time <= f.lock)
      [] f.t = "anyswap" -> FulfillUnlockHash(c, f.child, t, extra, ctx)
      [] OTHER -> FALSE

\* A secret redeems at any time, its absence is a refund.  The legacy format is
\* taken for the new one when it names this very contract.
FulfillAtomicSwap(c, f, t, extra, ctx) ==
    LET g == IF f.t = "anyswap" THEN f.child ELSE f
    IN  /\ g.t \in {"swap", "legacyswap"}
        /\ g.t = "legacyswap" => \A name \in {"sender", "receiver", "hashed", "lock"} : g[name] = c[name]
        /\ g.secret # NilSecret \/ ctx.time > c.lock
        /\ FulfillContract(c, g, t, extra, g.secret # NilSecret)

\* Mutant: a pair does not take its unlock hash away.
FulfillMultiSigUncounted(c, f, t, extra) ==
    /\ f.t = "signatures"
    /\ c.min <= Len(f.pairs)
    /\ \A i \in DOMAIN f.pairs :
         LET pk == f.pairs[i][1]
         IN  /\ \E j \in DOMAIN c.hashes : c.hashes[j] = NewPubKeyUnlockHash(pk)
             /\ verifyHashUsingPublicKey(pk, t, f.pairs[i][2], Append(extra, <<Key, pk>>))

\* Every pair takes one unlock hash away: as a bag, the keys of the pairs are
\* among the unlock hashes.
FulfillMultiSig(c, f, t, extra) ==
    /\ f.t = "signatures"
    /\ c.min <= Len(f.pairs)
    /\ ToBag([i \in DOMAIN f.pairs |-> NewPubKeyUnlockHash(f.pairs[i][1])]) \sqsubseteq ToBag(c.hashes)
    /\ \A i \in DOMAIN f.pairs :
         LET pk == f.pairs[i][1] IN verifyHashUsingPublicKey(pk, t, f.pairs[i][2], Append(extra, <<Key, pk>>))

RECURSIVE Fulfill(_, _, _, _, _)
Fulfill(c, f, t, extra, ctx) ==
    CASE c.t \in {"none", "nil"} ->
           f.t = "single" /\ verifyHashUsingPublicKey(f.key, t, f.sig, extra)
      [] c.t = "unlockhash" -> FulfillUnlockHash(c, f, t, extra, ctx)
      [] c.t = "atomicswap" -> FulfillAtomicSwap(c, f, t, extra, ctx)
      [] c.t = "multisig" -> FulfillMultiSig(c, f, t, extra)
      [] c.t = "timelock" ->
           /\ Fulfillable(c, ctx)
           /\ f.t \in {"single", "signatures"}
           /\ Fulfill(c.cond, f, t, extra, ctx)

---------------------------------------------------------------------------
\* The wallet, with the keys it has, and an address that is new to everybody.

OwnedKeys(keys, uh) == {k \in keys : NewPubKeyUnlockHash(Ed25519PublicKey(k)) = uh}
KeyOf(keys, uh) == Ed25519PublicKey(CHOOSE k \in OwnedKeys(keys, uh) : TRUE)

\* A fulfillment is in the extension, or in an input: <<field, index>>.
InExtension == <<"ff", 0>>
Placed(t, place, f) ==
    IF place = InExtension THEN [t EXCEPT !.ff = f] ELSE [t EXCEPT ![place[1]][place[2]][2] = f]
FulfillmentAt(t, place) == IF place = InExtension THEN t.ff ELSE t[place[1]][place[2]][2]
ExtraObjects(place) == IF place = InExtension THEN <<>> ELSE Index(place[2])

\* signFulfillment for unlock hashes of type PubKey: whatever was there is
\* replaced.
NewSingleSignatureFulfillment(pk) == [t |-> "single", key |-> pk, sig |-> <<>>]
signSingle(t, place, pk) ==
    LET f == NewSingleSignatureFulfillment(pk)
    IN  SignFulfillment(f, pk, Placed(t, place, f), ExtraObjects(place))

\* ... and of type MultiSig: one signature for every unlock hash that is owned.
RECURSIVE signMultiSig(_, _, _, _, _)
signMultiSig(f, uhs, keys, t, extra) ==
    IF uhs = <<>> \/ ~f.ok THEN f
    ELSE signMultiSig(IF OwnedKeys(keys, Head(uhs)) = {} THEN f
                      ELSE SignFulfillment(f.value, KeyOf(keys, Head(uhs)), t, extra),
                      Tail(uhs), keys, t, extra)

\* getMultisigConditionProperties
RECURSIVE MultiSigHashes(_)
MultiSigHashes(c) ==
    CASE c.t = "multisig" -> c.hashes
      [] c.t = "timelock" -> MultiSigHashes(c.cond)
      [] OTHER -> <<>>

signAs(uh, f, t, place, cond, keys) ==
    CASE uh.type = 0 -> signSingle(t, place, Ed25519PublicKey(<<"fresh", keys>>))
      [] uh.type = 1 ->
           IF OwnedKeys(keys, uh) = {} THEN Got(f, <<>>) ELSE signSingle(t, place, KeyOf(keys, uh))
      [] uh.type = 3 /\ MultiSigHashes(cond) # <<>> ->
           signMultiSig(Got(IF f.t \in {"none", "nil"} THEN [t |-> "signatures", pairs |-> <<>>] ELSE f, <<>>),
                        MultiSigHashes(cond), keys, t, ExtraObjects(place))
      [] OTHER -> Failed
signFulfillment(t, place, cond, keys) ==
    signAs(UnlockHash(cond), FulfillmentAt(t, place), t, place, cond, keys)
SignAt(t, place, r) == Then(r, Placed(t, place, r.value))

\* signCoinInput and signBlockStakeInput, for the inputs from i on.
RECURSIVE signInputs(_, _, _, _, _)
signInputs(r, field, i, keys, spent) ==
    IF ~r.ok THEN Failed
    ELSE IF i > Len(r.value[field]) THEN r
    ELSE signInputs(SignAt(r.value, <<field, i>>,
                           signFulfillment(r.value, <<field, i>>, spent[r.value[field][i][1]][2], keys)),
                    field, i + 1, keys, spent)

\* SignExtension signs for the condition that is active now.
SignExtension(r, keys, active) ==
    IF ~r.ok THEN Failed
    ELSE IF r.value.version \notin {128, 129, 176, 177} THEN r
    ELSE SignAt(r.value, InExtension, signFulfillment(r.value, InExtension, active, keys))

\* SignAllPossible, of a builder that GreedySign has just registered.
SignAllPossible(t, keys, ctx) ==
    SignExtension(signInputs(signInputs(Got(t, <<>>), "coinIns", 1, keys, ctx.spent),
                             "stakeIns", 1, keys, ctx.spent), keys, ctx.active)

\* spendAtomicSwapContract of the client: with a secret as the receiver,
\* without one as the sender of the contract c in output id.
SpendingTransaction(id, f, value, fee, ours) ==
    [EmptyTxn(1) EXCEPT !.coinIns = << <<id, f>> >>, !.fees = <<fee>>,
                        !.coinOuts = << <<value - fee, [t |-> "unlockhash", target |-> ours]>> >>]
SignSpending(t, f) == SignAt(t, <<"coinIns", 1>>, SignFulfillment(f, f.key, t, Index(1)))
SpendAs(ours, id, secret, keys, value, fee) ==
    IF OwnedKeys(keys, ours) = {} \/ value <= fee THEN Failed
    ELSE LET f == [t |-> "swap", key |-> KeyOf(keys, ours), sig |-> <<>>, secret |-> secret]
         IN  SignSpending(SpendingTransaction(id, f, value, fee, ours), f)
spendAtomicSwapContract(id, secret, keys, fee, ctx) ==
    LET c == ctx.spent[id][2]
    IN  IF c.t # "atomicswap" THEN Failed
        ELSE SpendAs(IF secret = NilSecret THEN c.sender ELSE c.receiver, id, secret, keys, ctx.spent[id][1], fee)

=============================================================================
