--------------------------- MODULE SigningSession ---------------------------
(***************************************************************************)
(* A transaction on its way from a draft to the pool: it is created by the *)
(* wallet or by a command of the client, handed as JSON from one wallet to *)
(* the next, each of which signs what it can (POST /wallet/sign), maybe    *)
(* changed in between, and may be submitted at any moment.  Meanwhile the  *)
(* chain grows, and the mint or auth condition may be redefined.           *)
(*                                                                         *)
(* An owner describes who may spend an output or use an extension, apart   *)
(* from how conditions are written: kind is "nobody", "key", "multi",      *)
(* "swap" (keys are the sender and the receiver) or "oldswap" (a swap that *)
(* is known by its address); lock is 0 or a time lock.                     *)
(***************************************************************************)
EXTENDS Validators

CONSTANTS
    Sessions,       \* [version, owner, spends, length]
    Wallets,        \* sets of keys
    NewOwner,       \* who the mint or auth condition may be handed to
    Beneficiary,    \* the key that is paid, or authorised, or that mints next
    Replacement,    \* the one that an amendment puts in its place
    MaxSigns, MaxTime

VARIABLES
    session,
    owner,          \* of the output "own" or of the mint or auth condition
    txn,            \* the JSON of the transaction as it is read, or nothing: <<>>
    now,            \* the height of the chain, and the seconds on its clock
    approvals       \* history: who signed which content, with which secret, for which owner

vars == <<session, owner, txn, now, approvals>>

Secret(name) == <<Run(<<"secret", name>>, 32)>>
KeyHash(k) == NewPubKeyUnlockHash(Ed25519PublicKey(k))
KeyCondition(k) == [t |-> "unlockhash", target |-> KeyHash(k)]
ClockStart == LockTimeMinTimestampValue

SwapContract(o) ==
    [t |-> "atomicswap", sender |-> KeyHash(o.keys[1]), receiver |-> KeyHash(o.keys[2]),
     hashed |-> NewAtomicSwapHashedSecret(Secret("right")), lock |-> o.lock]

\* NewTimeLockCondition, NewMultiSignatureCondition and the others.
ConditionOf(o) ==
    LET inner == CASE o.kind = "nobody" -> NilChild
                   [] o.kind = "key" -> KeyCondition(o.keys[1])
                   [] o.kind = "multi" ->
                        [t |-> "multisig", min |-> o.min, hashes |-> [i \in DOMAIN o.keys |-> KeyHash(o.keys[i])]]
                   [] o.kind = "swap" -> SwapContract(o)
                   [] o.kind = "oldswap" -> [t |-> "unlockhash", target |-> SwapUnlockHash(SwapContract(o))]
    IN  IF o.lock = 0 \/ o.kind \in {"swap", "oldswap"} THEN inner
        ELSE [t |-> "timelock", lock |-> o.lock, cond |-> inner]

\* "own" and "stake" belong to the owner, "other" always to the beneficiary.
Value == 10
Outputs == {"own", "stake", "other"}
Ctx == [height |-> now, time |-> ClockStart + now, active |-> ConditionOf(owner),
        spent |-> [id \in {ID(name) : name \in Outputs} |->
                     <<Value, IF id = ID("other") THEN KeyCondition(Beneficiary) ELSE ConditionOf(owner)>>]]

---------------------------------------------------------------------------
\* Drafts.

Data(length) == IF length = 0 THEN <<>> ELSE <<Run(<<"data">>, length)>>
Nonce(n) == <<Run(<<"nonce", n>>, 8)>>
Fee == MinimumMinerFee
Paid(value) == <<value, KeyCondition(Beneficiary)>>
Unsigned(names) == [i \in DOMAIN names |-> <<ID(names[i]), NoChild>>]

CreateRawTransaction(coids, bsoids, length) ==
    [EmptyTxn(1) EXCEPT !.coinIns = Unsigned(coids), !.stakeIns = Unsigned(bsoids), !.fees = <<Fee>>,
                        !.coinOuts = <<Paid(Value * Len(coids) - Fee)>>,
                        !.stakeOuts = [i \in DOMAIN bsoids |-> Paid(Value)], !.data = Data(length)]
createMinterDefinitionTxCmd(length) ==
    [EmptyTxn(128) EXCEPT !.nonce = Nonce(1), !.fees = IF requireMinerFees THEN <<Fee>> ELSE <<>>,
                          !.cond = KeyCondition(Beneficiary), !.data = Data(length)]
createCoinCreationTxCmd(length) ==
    [EmptyTxn(129) EXCEPT !.nonce = Nonce(1), !.fees = IF requireMinerFees THEN <<Fee>> ELSE <<>>,
                          !.coinOuts = <<Paid(Value)>>, !.data = Data(length)]
burnCoinsCmd(coids, length) ==
    [EmptyTxn(130) EXCEPT !.coinIns = Unsigned(coids), !.coinOuts = <<Paid(1)>>, !.fees = <<Fee>>,
                          !.data = Data(length)]
authAddressUpdateTxCreateCmd == [EmptyTxn(176) EXCEPT !.nonce = Nonce(1), !.auth = <<KeyHash(Beneficiary)>>]
authConditionUpdateTxCreateCmd(length) ==
    [EmptyTxn(177) EXCEPT !.nonce = Nonce(1), !.cond = KeyCondition(Beneficiary), !.data = Data(length)]

\* A version 0 transaction has to name its keys from the start.
DraftLegacy(o, coids, length) ==
    LET key == [t |-> "single", key |-> Ed25519PublicKey(o.keys[1]), sig |-> <<>>]
    IN  [CreateRawTransaction(coids, <<>>, length) EXCEPT
           !.version = 0, !.coinIns = [i \in DOMAIN @ |-> <<@[i][1], key>>]]

Draft(s) ==
    CASE s.version = 0 -> DraftLegacy(s.owner, s.spends, s.length)
      [] s.version = 1 ->
           IF s.spends = <<"stake">> THEN CreateRawTransaction(<<"other">>, s.spends, s.length)
           ELSE CreateRawTransaction(s.spends, <<>>, s.length)
      [] s.version = 128 -> createMinterDefinitionTxCmd(s.length)
      [] s.version = 129 -> createCoinCreationTxCmd(s.length)
      [] s.version = 130 -> burnCoinsCmd(s.spends, s.length)
      [] s.version = 176 -> authAddressUpdateTxCreateCmd
      [] s.version = 177 -> authConditionUpdateTxCreateCmd(s.length)

---------------------------------------------------------------------------
\* What a signer agrees to: everything but the fulfillments.
Content(t) == [t EXCEPT !.coinIns = Parents(@), !.stakeIns = Parents(@), !.ff = NoChild]

Publish(r) == r.ok /\ txn' = <<r.value>>
Approved(keys, secret, r) ==
    /\ r.ok /\ Publish(ThroughJSON(r.value))
    /\ approvals' = Append(approvals, [keys |-> keys, secret |-> secret, owner |-> owner,
                                       content |-> Content(r.value)])

Init == \E s \in Sessions : /\ session = s /\ owner = s.owner
                            /\ txn = <<>> /\ now = 1 /\ approvals = <<>>

Create ==
    /\ txn = <<>>
    /\ session.version = 1 => session.length <= ArbitraryDataSizeLimit
    /\ Publish(ThroughJSON(Draft(session)))
    /\ UNCHANGED <<session, owner, now, approvals>>

\* NewWalletSignHandler: a wallet that fails returns nothing.
Sign(keys) ==
    /\ txn # <<>> /\ Len(approvals) < MaxSigns
    /\ Approved(keys, NilSecret, SignAllPossible(txn[1], keys, Ctx))
    /\ UNCHANGED <<session, owner, now>>

\* redeemCmd and refundCmd of the atomic swap client.
SpendSwap(keys, secret) ==
    /\ owner.kind = "swap" /\ session.version = 1 /\ Len(approvals) < MaxSigns
    /\ Approved(keys, secret, spendAtomicSwapContract(ID("own"), secret, keys, Fee, Ctx))
    /\ UNCHANGED <<session, owner, now>>

\* A client that still writes fulfillments in the legacy format.
LegacyFulfillment(c, pk, secret) ==
    Made("legacyswap", <<c.sender, c.receiver, c.hashed, c.lock, pk, <<>>, secret>>)
SpendLegacySwap(k, secret) ==
    /\ owner.kind \in {"swap", "oldswap"} /\ Len(approvals) < MaxSigns
    /\ k \in Range(owner.keys)
    /\ LET f == LegacyFulfillment(SwapContract(owner), Ed25519PublicKey(k), secret)
       IN  Approved({k}, secret, SignSpending([Draft(session) EXCEPT !.coinIns[1][2] = f], f))
    /\ UNCHANGED <<session, owner, now>>

\* A draft is changed after it was signed, in one of the fields of its version.
Amended(t, field) ==
    CASE field = "data" -> [t EXCEPT !.data = <<Run(<<"other data">>, 5)>>]
      [] field = "coinOuts" -> [t EXCEPT !.coinOuts[1][2] = KeyCondition(Replacement)]
      [] field = "stakeOuts" -> [t EXCEPT !.stakeOuts[1][2] = KeyCondition(Replacement)]
      [] field = "fees" -> [t EXCEPT !.fees[1] = @ + 1, !.coinOuts[1][1] = @ - 1]
      [] field = "coinIns" -> [t EXCEPT !.coinIns = Reverse(@)]
      [] field = "nonce" -> [t EXCEPT !.nonce = Nonce(2)]
      [] field = "cond" -> [t EXCEPT !.cond = KeyCondition(Replacement)]
      [] field = "auth" -> [t EXCEPT !.auth = <<KeyHash(Replacement)>>]
      [] field = "deauth" -> [t EXCEPT !.auth = t.deauth, !.deauth = t.auth]
Amendable(t) ==
    {"data"} \cup {field \in {"coinOuts", "stakeOuts"} : t[field] # <<>>}
      \cup {field \in {"fees"} : t.fees # <<>> /\ t.coinOuts # <<>> /\ t.coinOuts[1][1] > 1}
      \cup {field \in {"coinIns"} : Len(t.coinIns) = 2}
      \cup {field \in {"nonce"} : t.nonce # NilNonce}
      \cup {field \in {"cond"} : t.cond # NoChild}
      \cup {field \in {"auth", "deauth"} : t.auth # <<>>}

\* At most one change in a session.
Amend(field) ==
    /\ Len(approvals) = 1 /\ txn # <<>>
    /\ Content(txn[1]) = approvals[1].content
    /\ field \in Amendable(txn[1])
    /\ Publish(ThroughJSON(Amended(txn[1], field)))
    /\ UNCHANGED <<session, owner, now, approvals>>

\* Another minter definition or auth condition update is confirmed.
Redefine ==
    /\ session.version \in {128, 129, 176, 177} /\ owner # NewOwner
    /\ owner' = NewOwner
    /\ UNCHANGED <<session, txn, now, approvals>>

NewBlock == now < MaxTime /\ now' = now + 1 /\ UNCHANGED <<session, owner, txn, approvals>>

Next ==
    \/ Create
    \/ \E keys \in Wallets : Sign(keys)
    \/ \E keys \in Wallets, secret \in {NilSecret, Secret("right"), Secret("wrong")} : SpendSwap(keys, secret)
    \/ \E k \in UNION Wallets, secret \in {NilSecret, Secret("right")} : SpendLegacySwap(k, secret)
    \/ \E field \in {"data", "coinOuts", "stakeOuts", "fees", "coinIns", "nonce", "cond", "auth", "deauth"} :
         Amend(field)
    \/ Redefine
    \/ NewBlock

Spec == Init /\ [][Next]_vars

---------------------------------------------------------------------------
\* The places where a fulfillment is needed, with the owner of each.
Places(t) ==
    UNION {{<<field, i>> : i \in DOMAIN t[field]} : field \in {"coinIns", "stakeIns"}}
      \cup {place \in {InExtension} : t.version \in {128, 129, 176, 177}}
OwnerAt(t, place) ==
    IF place # InExtension /\ t[place[1]][place[2]][1] = ID("other")
    THEN [kind |-> "key", keys |-> <<Beneficiary>>, min |-> 1, lock |-> 0] ELSE owner

Unlocked(o) ==
    \/ o.lock = 0
    \/ IF o.lock < ClockStart THEN o.lock <= now ELSE o.lock <= ClockStart + now
Expired(o) == ClockStart + now > o.lock

Consents(t) == {a \in Range(approvals) : a.content = Content(t)}

\* Whether those who consent to t may decide over what belongs to o.
Entitled(t, o) ==
    LET keys == UNION {a.keys : a \in Consents(t)}
        Redeems == \E a \in Consents(t) : o.keys[2] \in a.keys /\ a.secret = Secret("right")
    IN  CASE o.kind = "nobody" -> Unlocked(o) /\ Consents(t) # {}
          [] o.kind = "key" -> Unlocked(o) /\ o.keys[1] \in keys
          [] o.kind = "multi" -> Unlocked(o) /\ Cardinality({i \in DOMAIN o.keys : o.keys[i] \in keys}) >= o.min
          [] o.kind = "swap" -> Redeems \/ (Expired(o) /\ o.keys[1] \in keys)
          [] o.kind = "oldswap" -> IF Expired(o) THEN o.keys[1] \in keys ELSE Redeems

\* Nothing is valid that was not agreed to: whatever is changed, signed again or
\* signed by others, a transaction only passes validTransaction when enough of
\* those who own each of its inputs, or hold the mint or auth condition of
\* this moment, signed exactly this content, and its time locks allow it.
SpentByOwnersOnly ==
    \A t \in Range(txn) : validTransaction(t, Ctx) => \A place \in Places(t) : Entitled(t, OwnerAt(t, place))

\* Whether the signatures that o needs were collected without a detour.
Collected(t, o) ==
    LET By(keys) == {i \in DOMAIN approvals : approvals[i].keys \cap keys # {}}
        Now(i) == t.version \in {128, 129, 176, 177} => approvals[i].owner = o
        Of(i) == approvals[i].content = Content(t) /\ Now(i)
        Latest(S) == CHOOSE i \in S : \A j \in S : j <= i
    IN  CASE o.kind = "nobody" -> approvals # <<>> /\ Of(Len(approvals))
          [] o.kind = "key" -> By({o.keys[1]}) # {} /\ Of(Latest(By({o.keys[1]})))
          [] o.kind = "multi" ->
               /\ \A i \in DOMAIN approvals : Now(i)
               /\ \A i \in By(Range(o.keys)) : Of(i)
               /\ \A k \in Range(o.keys) : Cardinality(By({k})) <= 1
               /\ Cardinality({i \in DOMAIN o.keys : By({o.keys[i]}) # {}}) >= o.min
          [] o.kind \in {"swap", "oldswap"} ->
               /\ approvals # <<>> /\ Of(Len(approvals))
               /\ LET a == approvals[Len(approvals)]
                      redeems == o.keys[2] \in a.keys /\ a.secret = Secret("right")
                      refunds == o.keys[1] \in a.keys /\ a.secret = NilSecret
                  IN  IF o.kind = "swap" THEN redeems \/ (refunds /\ Expired(o))
                      ELSE IF Expired(o) THEN refunds ELSE redeems

\* Those who own what is spent can always spend it: if every owner signed the
\* transaction as it is now, and for a multisig none did twice, in an earlier
\* form or under an earlier mint or auth condition, it passes validTransaction
\* as soon as the time locks are over.  Version 0 is never valid.
OwnersSucceed ==
    \A t \in Range(txn) :
        (/\ t.version # 0 /\ Size(t.data) <= ArbitraryDataSizeLimit
         /\ \A place \in Places(t) :
              LET o == OwnerAt(t, place) IN Collected(t, o) /\ (o.kind \in {"swap", "oldswap"} \/ Unlocked(o)))
        => validTransaction(t, Ctx)

\* In rivbin a legacy swap fulfillment reads as one of the new format when the
\* hash of its receiver starts with a small byte.
Misread(t) ==
    /\ t.version = 130
    /\ \E i \in DOMAIN t.coinIns :
         LET f == t.coinIns[i][2]
         IN  f.t = "anyswap" /\ f.child.t = "legacyswap" /\ f.child.receiver.hash[1] = Byte(1)

\* A transaction submitted as JSON is what the peers read from the binary
\* encoding it is relayed and hashed in, for every version, whoever signed it
\* and whatever the length of its data: all nodes agree on its identifier, on
\* its signatures and on whether it is valid.
EncodingsAgree ==
    \A t \in Range(txn) :
        Misread(t) \/ (MarshalSia(t).ok /\ UnmarshalSia(MarshalSia(t).value) = Got(t, <<>>))

=============================================================================
