----------------------------- MODULE Validators -----------------------------
(***************************************************************************)
(* validTransaction of modules/consensus: the validators of every version, *)
(* those of all transactions, and those of the minting and authcointx      *)
(* extensions.  Which addresses are authorised at the moment is left to    *)
(* the module AuthCoin.                                                    *)
(***************************************************************************)
EXTENDS Fulfillments

CONSTANTS
    ArbitraryDataSizeLimit, BlockSizeLimit, MinimumMinerFee,
    requireMinerFees    \* of the minting plugin

TotalValue(outs) == FoldLeft(LAMBDA n, out : n + out[1], 0, outs)
SpentValue(ins, ctx) == FoldLeft(LAMBDA n, in : n + ctx.spent[in[1]][1], 0, ins)
CoinOutputSum(t) == TotalValue(t.coinOuts) + FoldLeft(LAMBDA n, fee : n + fee, 0, t.fees)

\* ValidateTransactionFitsInABlock and ValidateTransactionArbitraryData
TransactionFitsInABlock(t) ==
    LET b == MarshalSia(t) IN b.ok /\ Size(b.value) <= BlockSizeLimit - 5000
ArbitraryDataFits(t) == Size(t.data) <= ArbitraryDataSizeLimit

InputsAreValid(ins) ==
    \A i \in DOMAIN ins : ins[i][1] # NilBytes(32) /\ IsStandardFulfillment(ins[i][2])
OutputsAreValid(outs) == \A i \in DOMAIN outs : outs[i][1] # 0 /\ IsStandardCondition(outs[i][2])
MinerFeesAreValid(t) == \A i \in DOMAIN t.fees : t.fees[i] >= MinimumMinerFee
NoDoubleSpends(ins) == \A i, j \in DOMAIN ins : ins[i][1] = ins[j][1] => i = j
InputsAreFulfilled(ins, t, ctx) ==
    \A i \in DOMAIN ins : /\ ins[i][1] \in DOMAIN ctx.spent
                          /\ Fulfill(ctx.spent[ins[i][1]][2], ins[i][2], t, Index(i), ctx)

CoinOutputsAreBalanced(t, ctx) == SpentValue(t.coinIns, ctx) = CoinOutputSum(t)
BlockStakeOutputsAreBalanced(t, ctx) == SpentValue(t.stakeIns, ctx) = TotalValue(t.stakeOuts)

StandardTransactionValidators(t, ctx) ==
    /\ TransactionFitsInABlock(t)
    /\ ArbitraryDataFits(t)
    /\ InputsAreValid(t.coinIns) /\ InputsAreValid(t.stakeIns)
    /\ OutputsAreValid(t.coinOuts) /\ OutputsAreValid(t.stakeOuts)
    /\ MinerFeesAreValid(t)
    /\ NoDoubleSpends(t.coinIns) /\ NoDoubleSpends(t.stakeIns)
    /\ \A ins \in {t.coinIns, t.stakeIns} : InputsAreFulfilled(ins, t, ctx)

RECURSIVE validateMintCondition(_)
validateMintCondition(c) ==
    CASE c.t = "multisig" -> TRUE
      [] c.t = "unlockhash" -> c.target.type = 1
      [] c.t = "timelock" -> validateMintCondition(c.cond)
      [] OTHER -> FALSE

\* What the validators of the extensions ask of the nonce and the fulfillment.
ExtensionFulfilled(t, ctx) == t.nonce # NilNonce /\ Fulfill(ctx.active, t.ff, t, <<>>, ctx)

\* ... and of the rest of the transaction.
validateMinterDefinitionTx(t) ==
    /\ MinterDefinitionTransactionFromTransactionData(t, requireMinerFees)
    /\ IsStandardCondition(t.cond) /\ validateMintCondition(t.cond)
validateCoinCreationTx(t) == CoinCreationTransactionFromTransactionData(t, requireMinerFees)
validateCoinDestructionTxCreation(t, ctx) == CoinOutputSum(t) < SpentValue(t.coinIns, ctx)
validateAuthAddressUpdateTx(t) ==
    /\ AuthAddressUpdateTransactionFromTransactionData(t)
    /\ t.auth \o t.deauth # <<>>
    /\ IsInjective(t.auth \o t.deauth)
validateAuthConditionUpdateTx(t, ctx) ==
    /\ AuthConditionUpdateTransactionFromTransactionData(t)
    /\ ~ConditionsEqual(ctx.active, t.cond)
    /\ UnlockHash(t.cond).type \in {1, 3}

VersionMappedValidators(t, ctx) ==
    /\ CASE t.version = 0 -> FALSE      \* ValidateInvalidByDefault
         [] t.version = 1 -> CoinOutputsAreBalanced(t, ctx) /\ BlockStakeOutputsAreBalanced(t, ctx)
         [] t.version = 128 -> validateMinterDefinitionTx(t)
         [] t.version = 129 -> validateCoinCreationTx(t)
         [] t.version = 130 -> validateCoinDestructionTxCreation(t, ctx)
         [] t.version = 176 -> validateAuthAddressUpdateTx(t)
         [] t.version = 177 -> validateAuthConditionUpdateTx(t, ctx)
    /\ t.version \in {128, 129, 176, 177} => ExtensionFulfilled(t, ctx)

validTransaction(t, ctx) == VersionMappedValidators(t, ctx) /\ StandardTransactionValidators(t, ctx)

=============================================================================
