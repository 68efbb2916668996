-------------------------- MODULE ConsensusSetSteps --------------------------
(***************************************************************************)
(* One lemma for each step of a call of AcceptBlock that is on its way to  *)
(* another branch: the step preserves the inductive invariant.             *)
(***************************************************************************)
EXTENDS ConsensusSetLemmas

\* backtrackToCurrentPath goes one parent down, until it meets the active path.
LEMMA BacktrackStep ==
  ASSUME IndInv, backtrackToCurrentPath
  PROVE  IndInv'
  <1>1. /\ pc = "backtrack" /\ db' = db /\ wtx' = wtx /\ pos' = pos /\ txIdx' = txIdx
        /\ diffs' = diffs /\ reverted' = reverted /\ severe' = severe
        /\ dosBlocks' = dosBlocks /\ sleeping' = sleeping /\ now' = now
    BY DEF backtrackToCurrentPath
  <1>2. /\ newPath \in Seq(Blocks) /\ Len(newPath) \in Nat /\ Len(newPath) >= 1
        /\ newPath[1] \in DOMAIN wtx.blockMap
    BY <1>1 DEF IndInv, TypeOK, CallIsSound
  <1>3. PathIsChain' /\ TreeIsSound(db)' /\ TreeIsSound(wtx)' /\ NoHeavierBlock'
    BY ZenonT(30), <1>1 DEF IndInv, PathIsChain, IsChain, TreeIsSound, NoHeavierBlock, heavierThan,
                currentBlockID
  <1>4. CASE OnCurrentPath(wtx, newPath[1])
    <2>1. pc' = "revert" /\ newPath' = newPath
      BY <1>4 DEF backtrackToCurrentPath
    <2>2. TypeOK'
      BY <1>1, <2>1 DEF IndInv, TypeOK
    <2>3. CallIsSound'
      BY <1>1, <2>1, WorkInProgress
    <2>4. PhaseIsSound'
      BY <1>1, <1>4, <2>1 DEF PhaseIsSound, OnCurrentPath, blockHeight, getPath
    <2> QED BY <1>3, <2>2, <2>3, <2>4 DEF IndInv
  <1>5. CASE ~OnCurrentPath(wtx, newPath[1])
    <2> DEFINE p == Parent[newPath[1]]
               n == Len(newPath)
    <2>1. newPath' = <<p>> \o newPath /\ pc' = pc
      BY <1>5 DEF backtrackToCurrentPath
    <2>2. newPath[1] # Genesis
      BY <1>5, GenesisOnPath, IndInvFacts
    <2>3. p \in DOMAIN wtx.blockMap /\ p \in Blocks
      BY <1>2, <2>2, IndInvFacts DEF TreeIsSound, IsDatabase
    <2>4. /\ newPath' \in Seq(Blocks)
          /\ Len(newPath') = n + 1
          /\ newPath'[1] = p
          /\ \A i \in 2..(n + 1) : newPath'[i] = newPath[i - 1]
      BY <1>2, <2>1, <2>3
    <2>5. TypeOK'
      BY SMTT(40), <1>1, <1>2, <2>1, <2>4 DEF IndInv, TypeOK
    <2>6. CallIsSound'
      <3>1. newBlock' = newBlock /\ newPath' # <<>>
        BY <1>2, <2>4 DEF newBlock
      <3>2. \A i \in 1..(n + 1) : newPath'[i] \in DOMAIN wtx.blockMap
        BY <1>1, <1>2, <2>3, <2>4 DEF IndInv, CallIsSound
      <3>3. \A i \in 2..(n + 1) : newPath'[i] # Genesis /\ Parent[newPath'[i]] = newPath'[i - 1]
        <4> SUFFICES ASSUME NEW i \in 2..(n + 1)
                     PROVE  newPath'[i] # Genesis /\ Parent[newPath'[i]] = newPath'[i - 1]
          OBVIOUS
        <4>1. CASE i = 2
          BY <1>2, <2>2, <2>4, <4>1
        <4>2. CASE i > 2
          BY <1>1, <1>2, <2>4, <4>2 DEF IndInv, CallIsSound
        <4> QED BY <1>2, <4>1, <4>2
      <3>4. currentBlockID(db)' = currentBlockID(db)
        BY <1>1 DEF currentBlockID
      <3> QED BY <1>1, <2>1, <2>4, <3>1, <3>2, <3>3, <3>4 DEF IndInv, CallIsSound
    <2>7. PhaseIsSound'
      BY <1>1, <2>1 DEF PhaseIsSound
    <2> QED BY <1>3, <2>5, <2>6, <2>7 DEF IndInv
  <1> QED BY <1>4, <1>5

\* revertToBlock undoes the current block, which is above the common parent.
LEMMA RewindStep ==
  ASSUME IndInv, rewindBlock
  PROVE  IndInv'
  <1> DEFINE b == currentBlockID(wtx)
             e == rewoundBlock(wtx, b)
  <1>1. /\ pc = "revert" /\ b # newPath[1] /\ wtx' \in maybeCheckConsistency(e)
        /\ severe' = (severe \/ ~RewindIsSane(wtx, b)) /\ reverted' = Append(reverted, b)
        /\ db' = db /\ pc' = pc /\ newPath' = newPath /\ pos' = pos /\ txIdx' = txIdx
        /\ diffs' = diffs /\ dosBlocks' = dosBlocks /\ sleeping' = sleeping /\ now' = now
    BY DEF rewindBlock
  <1>2. /\ newPath[1] \in DOMAIN wtx.blockMap /\ OnCurrentPath(wtx, newPath[1])
        /\ b \in DOMAIN wtx.blockMap /\ b \in Blocks
    <2>1. newPath \in Seq(Blocks) /\ newPath # <<>>
      BY <1>1 DEF IndInv, TypeOK, CallIsSound
    <2>2. 1 \in 1..Len(newPath)
      BY <2>1
    <2>3. newPath[1] \in DOMAIN wtx.blockMap /\ OnCurrentPath(wtx, newPath[1])
      BY <1>1, <2>2 DEF IndInv, CallIsSound, PhaseIsSound
    <2> QED BY <2>3, IndInvFacts DEF IsDatabase
  <1>3. Len(wtx.path) \in Nat /\ Len(wtx.path) >= 2
    <2>1. Len(wtx.path) \in Nat /\ Len(wtx.path) >= 1
      BY SMTT(40), IndInvFacts DEF IsDatabase, IsChain
    <2>2. wtx.blockMap[newPath[1]].height \in Nat
      BY <1>2, IndInvFacts DEF IsDatabase, ProcessedBlock
    <2> QED BY SMTT(40), <1>1, <1>2, <2>1, <2>2 DEF OnCurrentPath, blockHeight, getPath, currentBlockID
  <1>4. /\ IsDatabase(e) /\ e.blockMap = wtx.blockMap
        /\ e.path = SubSeq(wtx.path, 1, Len(wtx.path) - 1)
    BY <1>2, <1>3, IndInvFacts, RewoundBlockType
  <1>5. /\ IsDatabase(wtx') /\ wtx'.blockMap = wtx.blockMap
        /\ wtx'.path = SubSeq(wtx.path, 1, Len(wtx.path) - 1)
    <2> HIDE DEF e
    <2> QED BY <1>1, <1>4, ConsistencyType
  <1>6. IsChain(wtx') /\ OnCurrentPath(wtx', newPath[1])
    BY <1>1, <1>2, <1>3, <1>5, IndInvFacts, ChainShrinks
  <1>7. TypeOK'
    <2>1. severe' \in BOOLEAN
      BY <1>1 DEF RewindIsSane
    <2>2. reverted' \in Seq(Blocks)
      BY <1>1, <1>2 DEF IndInv, TypeOK
    <2> QED BY <1>1, <1>5, <2>1, <2>2 DEF IndInv, TypeOK
  <1>8. /\ TreeIsSound(db)' /\ TreeIsSound(wtx)'
        /\ IsChain(db)' /\ NoHeavierBlock' /\ CallIsSound'
    BY <1>1, <1>5, WorkInProgress
  <1>9. PhaseIsSound'
    BY <1>1, <1>6 DEF PhaseIsSound, OnCurrentPath, blockHeight, getPath
  <1> QED BY <1>6, <1>7, <1>8, <1>9 DEF IndInv, PathIsChain

\* At the common parent revertToBlock is done and applyUntilBlock begins.
LEMMA RevertDoneStep ==
  ASSUME IndInv, revertDone
  PROVE  IndInv'
  <1>1. /\ pc = "revert" /\ currentBlockID(wtx) = newPath[1] /\ pc' = "apply" /\ pos' = 1
        /\ db' = db /\ wtx' = wtx /\ newPath' = newPath /\ txIdx' = txIdx /\ diffs' = diffs
        /\ reverted' = reverted /\ severe' = severe /\ dosBlocks' = dosBlocks
        /\ sleeping' = sleeping /\ now' = now
    BY DEF revertDone
  <1>2. newPath \in Seq(Blocks) /\ Len(newPath) \in Nat /\ Len(newPath) >= 1
    BY <1>1 DEF IndInv, TypeOK, CallIsSound
  <1>3. TypeOK'
    BY <1>1, <1>2 DEF IndInv, TypeOK
  <1>4. /\ TreeIsSound(db)' /\ TreeIsSound(wtx)'
        /\ IsChain(db)' /\ NoHeavierBlock' /\ CallIsSound'
    BY <1>1, WorkInProgress
  <1>5. PathIsChain' /\ PhaseIsSound'
    <2>1. PathIsChain'
      BY ZenonT(30), <1>1 DEF IndInv, PathIsChain, IsChain
    <2>2. pc' = "apply" /\ pos' \in 1..Len(newPath') /\ currentBlockID(wtx') = newPath'[pos']
      BY <1>1, <1>2
    <2> QED BY <2>1, <2>2 DEF PhaseIsSound
  <1> QED BY <1>3, <1>4, <1>5 DEF IndInv

\* The block that a step of applyUntilBlock works on is a child of the current block.
LEMMA NextOnPath ==
  ASSUME IndInv, pc \in {"apply", "generate"}, pos < Len(newPath)
  PROVE  /\ pos \in Nat /\ pos + 1 \in 2..Len(newPath)
         /\ newPath[pos + 1] \in DOMAIN wtx.blockMap
         /\ newPath[pos + 1] \in Blocks \ {Genesis}
         /\ Parent[newPath[pos + 1]] = currentBlockID(wtx)
         /\ wtx.blockMap[newPath[pos + 1]].height \in Nat
         /\ Len(wtx.path) >= 1
  <1>1. /\ newPath \in Seq(Blocks) /\ Len(newPath) \in Nat
        /\ pos \in 1..Len(newPath) /\ currentBlockID(wtx) = newPath[pos]
    BY DEF IndInv, TypeOK, PhaseIsSound
  <1>2. pos \in Nat /\ pos + 1 \in 2..Len(newPath) /\ pos + 1 \in 1..Len(newPath)
    BY <1>1
  <1>3. /\ newPath[pos + 1] \in DOMAIN wtx.blockMap /\ newPath[pos + 1] # Genesis
        /\ Parent[newPath[pos + 1]] = newPath[(pos + 1) - 1]
    BY <1>2 DEF IndInv, CallIsSound
  <1>4. (pos + 1) - 1 = pos
    BY <1>2
  <1> QED BY <1>1, <1>2, <1>3, <1>4, IndInvFacts DEF IsDatabase, ProcessedBlock, IsChain

\* applyUntilBlock redoes a block it has validated before.
LEMMA ForwardStep ==
  ASSUME IndInv, forwardBlock
  PROVE  IndInv'
  <1> DEFINE b == newPath[pos + 1]
             e == forwardedBlock(wtx, b)
  <1>1. /\ pc = "apply" /\ pos < Len(newPath) /\ wtx.blockMap[b].diffsGenerated
        /\ wtx' \in maybeCheckConsistency(e)
        /\ severe' = (severe \/ ~ForwardIsSane(wtx, b)) /\ pos' = pos + 1
        /\ db' = db /\ pc' = pc /\ newPath' = newPath /\ txIdx' = txIdx
        /\ diffs' = diffs /\ reverted' = reverted
        /\ dosBlocks' = dosBlocks /\ sleeping' = sleeping /\ now' = now
    BY DEF forwardBlock
  <1>2. /\ b \in DOMAIN wtx.blockMap /\ b \in Blocks \ {Genesis}
        /\ Parent[b] = currentBlockID(wtx) /\ Len(wtx.path) >= 1
        /\ pos \in Nat /\ pos + 1 \in 2..Len(newPath)
    BY <1>1, NextOnPath
  <1>3. /\ IsDatabase(e) /\ e.blockMap = wtx.blockMap /\ e.path = Append(wtx.path, b)
    <2> HIDE DEF b
    <2> QED BY <1>2, IndInvFacts, ForwardedBlockType
  <1>4. /\ IsDatabase(wtx') /\ wtx'.blockMap = wtx.blockMap
        /\ wtx'.path = Append(wtx.path, b)
    <2> HIDE DEF e, b
    <2> QED BY <1>1, <1>3, ConsistencyType
  <1>5. IsChain(wtx') /\ currentBlockID(wtx') = b
    <2> HIDE DEF b
    <2> QED BY ZenonT(30), <1>1, <1>2, <1>4, IndInvFacts, ChainExtends
  <1>6. TypeOK'
    <2>1. severe' \in BOOLEAN
      BY <1>1 DEF ForwardIsSane
    <2>2. pos' \in 0..Len(newPath')
      BY SMTT(40), <1>1, <1>2 DEF IndInv, TypeOK
    <2> QED BY <1>1, <1>4, <2>1, <2>2 DEF IndInv, TypeOK
  <1>7. /\ TreeIsSound(db)' /\ TreeIsSound(wtx)'
        /\ IsChain(db)' /\ NoHeavierBlock' /\ CallIsSound'
    BY <1>1, <1>4, WorkInProgress
  <1>8. PhaseIsSound'
    BY SMTT(40), <1>1, <1>2, <1>5 DEF PhaseIsSound, currentBlockID
  <1> QED BY <1>5, <1>6, <1>7, <1>8 DEF IndInv, PathIsChain

\* generateAndApplyDiff begins with a block that was never validated.
LEMMA GenerateStartStep ==
  ASSUME IndInv, generateStart
  PROVE  IndInv'
  <1> DEFINE b == newPath[pos + 1]
             h == wtx.blockMap[b].height + MaturityDelay
  <1>1. /\ pc = "apply" /\ pos < Len(newPath) /\ ~wtx.blockMap[b].diffsGenerated
        /\ wtx' = createDCOBucket(wtx, h)
        /\ severe' = (severe \/ h \in wtx.buckets \/ Parent[b] # currentBlockID(wtx))
        /\ pc' = "generate" /\ txIdx' = 1 /\ diffs' = NoDiffs
        /\ db' = db /\ newPath' = newPath /\ pos' = pos /\ reverted' = reverted
        /\ dosBlocks' = dosBlocks /\ sleeping' = sleeping /\ now' = now
    BY DEF generateStart
  <1>2. h \in Nat /\ pos \in Nat /\ pos + 1 \in 2..Len(newPath)
    BY SMTT(40), <1>1, NextOnPath, MaturityAssumption
  <1>3. IsDatabase(wtx') /\ wtx'.blockMap = wtx.blockMap /\ wtx'.path = wtx.path
    <2> HIDE DEF h
    <2> QED BY ZenonT(30), <1>1, <1>2, IndInvFacts, CreateBucketType
  <1>4. TypeOK'
    <2>1. severe' \in BOOLEAN
      BY <1>1
    <2>2. diffs' \in Diffs
      BY <1>1 DEF NoDiffs, NoDiff, Diffs, Diff
    <2> QED BY <1>1, <1>3, <2>1, <2>2 DEF IndInv, TypeOK
  <1>5. /\ TreeIsSound(db)' /\ TreeIsSound(wtx)'
        /\ IsChain(db)' /\ NoHeavierBlock' /\ CallIsSound'
    BY ZenonT(30), <1>1, <1>3, WorkInProgress
  <1>6. IsChain(wtx') /\ currentBlockID(wtx') = currentBlockID(wtx)
    BY <1>3, IndInvFacts, SameChain
  <1>7. PhaseIsSound'
    <2>1. pos \in 1..Len(newPath) /\ currentBlockID(wtx) = newPath[pos]
      BY <1>1 DEF IndInv, PhaseIsSound
    <2>2. currentBlockID(wtx') = newPath'[pos'] /\ pos' \in 1..Len(newPath') /\ pos' < Len(newPath')
      BY <1>1, <1>6, <2>1
    <2>3. pc' = "generate" /\ txIdx' = 1 /\ newPath' = newPath /\ pos' = pos
      BY <1>1
    <2>4. ~wtx.blockMap[newPath[pos + 1]].diffsGenerated
      BY <1>1
    <2>5. ~wtx'.blockMap[newPath'[pos' + 1]].diffsGenerated
      BY <1>3, <2>3, <2>4
    <2>6. txIdx' >= 1
      BY <2>3
    <2> QED BY <2>2, <2>3, <2>5, <2>6 DEF PhaseIsSound
  <1> QED BY <1>4, <1>5, <1>6, <1>7 DEF IndInv, PathIsChain

\* generateAndApplyDiff accepts the next transaction of the block.
LEMMA GenerateTransactionStep ==
  ASSUME IndInv, generateTransaction
  PROVE  IndInv'
  <1> DEFINE b  == newPath[pos + 1]
             t  == Txns[b][txIdx]
             h  == wtx.blockMap[b].height
             df == TransactionDiffs(t, h, txIdx - 1)
  <1>1. /\ pc = "generate" /\ txIdx <= Len(Txns[b])
        /\ wtx' = commitNodeDiffs(wtx, df, DiffApply)
        /\ severe' = (severe \/ ~NodeDiffsAreSane(wtx, df, DiffApply))
        /\ diffs' = AddDiffs(diffs, df) /\ txIdx' = txIdx + 1
        /\ db' = db /\ pc' = pc /\ newPath' = newPath /\ pos' = pos /\ reverted' = reverted
        /\ dosBlocks' = dosBlocks /\ sleeping' = sleeping /\ now' = now
    BY DEF generateTransaction
  <1>2. pos < Len(newPath) /\ txIdx \in Nat /\ txIdx >= 1 /\ diffs \in Diffs
    BY <1>1 DEF IndInv, TypeOK, PhaseIsSound
  <1>3. b \in Blocks /\ h \in Nat /\ pos \in Nat /\ pos + 1 \in 2..Len(newPath)
    BY <1>1, <1>2, NextOnPath
  <1>4. t \in Transactions
    <2>1. Txns[b] \in Seq(Transactions)
      BY <1>3, ContentAssumption
    <2>2. txIdx \in 1..Len(Txns[b])
      <3> HIDE DEF b
      <3>1. Len(Txns[b]) \in Nat
        BY <2>1
      <3>2. txIdx <= Len(Txns[b])
        BY <1>1
      <3> QED BY <1>2, <3>1, <3>2
    <2> HIDE DEF b
    <2> QED BY <2>1, <2>2
  <1>5. df \in Diffs
    <2> HIDE DEF t, h
    <2>1. /\ [add |-> CoinOutputs[t], del |-> CoinInputs[t]] \in Diff(Outputs)
          /\ [add |-> BlockStakeOutputs[t], del |-> BlockStakeInputs[t]] \in Diff(Outputs)
      BY <1>4, ContentAssumption DEF Diff
    <2>2. NoDiff \in Diff(Nat \X Outputs)
      BY DEF NoDiff, Diff
    <2>3. <<t, h, txIdx - 1>> \in Transactions \X Nat \X Nat
      BY <1>2, <1>3, <1>4
    <2>4. [add |-> {<<t, h, txIdx - 1>>}, del |-> {}] \in Diff(Transactions \X Nat \X Nat)
      BY <2>3 DEF Diff
    <2> QED BY <2>1, <2>2, <2>4 DEF TransactionDiffs, Diffs
  <1>6. IsDatabase(wtx') /\ wtx'.blockMap = wtx.blockMap /\ wtx'.path = wtx.path
    <2> HIDE DEF df
    <2> QED BY <1>1, <1>5, IndInvFacts, CommitNodeDiffsType
  <1>7. TypeOK'
    <2> HIDE DEF df
    <2>1. severe' \in BOOLEAN
      BY <1>1 DEF NodeDiffsAreSane
    <2>2. diffs' \in Diffs
      BY <1>1, <1>2, <1>5 DEF AddDiffs, AddDiff, Diffs, Diff
    <2> QED BY <1>1, <1>2, <1>6, <2>1, <2>2 DEF IndInv, TypeOK
  <1>8. /\ TreeIsSound(db)' /\ TreeIsSound(wtx)'
        /\ IsChain(db)' /\ NoHeavierBlock' /\ CallIsSound'
    BY ZenonT(30), <1>1, <1>6, WorkInProgress
  <1>9. IsChain(wtx') /\ currentBlockID(wtx') = currentBlockID(wtx)
    BY <1>6, IndInvFacts, SameChain
  <1>10. PhaseIsSound'
    <2>1. /\ pos \in 1..Len(newPath) /\ currentBlockID(wtx) = newPath[pos]
          /\ pos < Len(newPath) /\ ~wtx.blockMap[b].diffsGenerated
      BY <1>1 DEF IndInv, PhaseIsSound
    <2>2. currentBlockID(wtx') = newPath'[pos'] /\ pos' \in 1..Len(newPath') /\ pos' < Len(newPath')
      BY <1>1, <1>9, <2>1
    <2>3. pc' = "generate" /\ newPath' = newPath /\ pos' = pos /\ txIdx' = txIdx + 1
      BY <1>1
    <2>4. txIdx' >= 1
      BY <1>2, <2>3
    <2>5. ~wtx'.blockMap[newPath'[pos' + 1]].diffsGenerated
      BY <1>6, <2>1, <2>3
    <2> QED BY <2>2, <2>3, <2>4, <2>5 DEF PhaseIsSound
  <1> QED BY <1>7, <1>8, <1>9, <1>10 DEF IndInv, PathIsChain

\* generateAndApplyDiff ends: the block is validated and joins the path.
LEMMA GenerateFinishStep ==
  ASSUME IndInv, generateFinish
  PROVE  IndInv'
  <1> DEFINE b == newPath[pos + 1]
             m == MaintenanceDiffs(wtx, b, wtx.blockMap[b].height)
             e == generatedBlock(wtx, b, diffs)
  <1>1. /\ pc = "generate" /\ wtx' \in maybeCheckConsistency(e)
        /\ severe' = (severe \/ ~NodeDiffsAreSane(wtx, m, DiffApply))
        /\ pos' = pos + 1 /\ pc' = "apply" /\ txIdx' = 0 /\ diffs' = NoDiffs
        /\ db' = db /\ newPath' = newPath /\ reverted' = reverted
        /\ dosBlocks' = dosBlocks /\ sleeping' = sleeping /\ now' = now
    BY DEF generateFinish
  <1>2. pos < Len(newPath) /\ diffs \in Diffs /\ ~wtx.blockMap[b].diffsGenerated
    BY <1>1 DEF IndInv, TypeOK, PhaseIsSound
  <1>3. /\ b \in DOMAIN wtx.blockMap /\ b \in Blocks \ {Genesis}
        /\ Parent[b] = currentBlockID(wtx)
        /\ pos \in Nat /\ pos + 1 \in 2..Len(newPath)
    BY <1>1, <1>2, NextOnPath
  <1>4. /\ IsDatabase(e) /\ e.path = Append(wtx.path, b)
        /\ DOMAIN e.blockMap = DOMAIN wtx.blockMap
        /\ \A x \in DOMAIN wtx.blockMap :
             /\ e.blockMap[x].height = wtx.blockMap[x].height
             /\ e.blockMap[x].depth = wtx.blockMap[x].depth
             /\ x # b => e.blockMap[x] = wtx.blockMap[x]
        /\ e.blockMap[b].diffsGenerated
    <2> HIDE DEF b
    <2> QED BY SMTT(40), <1>2, <1>3, IndInvFacts, GeneratedBlockType
  <1>5. IsDatabase(wtx') /\ wtx'.path = e.path /\ wtx'.blockMap = e.blockMap
    <2> HIDE DEF e, b
    <2> QED BY <1>1, <1>4, ConsistencyType
  <1>6. IsChain(wtx') /\ currentBlockID(wtx') = b
    <2> HIDE DEF b, e
    <2>1. /\ wtx'.path = Append(wtx.path, b)
          /\ DOMAIN wtx'.blockMap = DOMAIN wtx.blockMap
          /\ wtx'.blockMap[b].height = wtx.blockMap[b].height
          /\ wtx'.blockMap[b].diffsGenerated
          /\ \A x \in DOMAIN wtx.blockMap \ {b} : wtx'.blockMap[x] = wtx.blockMap[x]
      BY <1>3, <1>4, <1>5
    <2>2. IsDatabase(wtx) /\ IsChain(wtx) /\ TreeIsSound(wtx)
      BY IndInvFacts
    <2> QED BY <1>3, <2>1, <2>2, ChainExtends
  <1>7. TypeOK'
    <2>1. severe' \in BOOLEAN
      BY ZenonT(30), <1>1 DEF NodeDiffsAreSane
    <2>2. diffs' \in Diffs
      BY <1>1 DEF NoDiffs, NoDiff, Diffs, Diff
    <2>3. pos' \in 0..Len(newPath')
      BY SMTT(40), <1>1, <1>3 DEF IndInv, TypeOK
    <2> QED BY <1>1, <1>5, <2>1, <2>2, <2>3 DEF IndInv, TypeOK
  <1>8. /\ TreeIsSound(db)' /\ TreeIsSound(wtx)'
        /\ IsChain(db)' /\ NoHeavierBlock' /\ CallIsSound'
    <2> HIDE DEF b, e
    <2> QED BY <1>1, <1>2, <1>4, <1>5, WorkInProgress
  <1>9. PhaseIsSound'
    BY SMTT(40), <1>1, <1>3, <1>6 DEF PhaseIsSound, currentBlockID
  <1> QED BY <1>6, <1>7, <1>8, <1>9 DEF IndInv, PathIsChain

\* At the end of a call that applied its new path, the new block is current,
\* and it surpasses every block the old current block was not surpassed by.
LEMMA CommitStep ==
  ASSUME IndInv, commitChange
  PROVE  IndInv'
  <1> DEFINE ce == Entry(reverted, Tail(newPath))
             d  == appendChangeLog(wtx, ce)
             tip == currentBlockID(db)
  <1>1. /\ pc = "apply" /\ pos = Len(newPath) /\ db' = d /\ wtx' = d /\ Return
        /\ severe' = severe /\ dosBlocks' = dosBlocks /\ sleeping' = sleeping /\ now' = now
    BY DEF commitChange
  <1>2. newPath \in Seq(Blocks) /\ newPath # <<>> /\ reverted \in Seq(Blocks)
    BY <1>1 DEF IndInv, TypeOK, CallIsSound
  <1>3. ce \in ChangeEntry
    BY <1>2 DEF Entry, ChangeEntry
  <1>4. IsDatabase(d) /\ d.blockMap = wtx.blockMap /\ d.path = wtx.path
    <2> HIDE DEF ce
    <2> QED BY <1>3, IndInvFacts, AppendChangeLogType
  <1> HIDE DEF d
  <1>5. TypeOK'
    <2>1. NoDiffs \in Diffs
      BY DEF NoDiffs, NoDiff, Diffs, Diff
    <2> QED BY <1>1, <1>4, <2>1 DEF IndInv, TypeOK, Return
  <1>6. IsChain(d) /\ currentBlockID(d) = newBlock
    <2>1. currentBlockID(wtx) = newBlock
      BY <1>1 DEF IndInv, PhaseIsSound, newBlock
    <2> QED BY <1>4, <2>1, IndInvFacts, SameChain
  <1>7. TreeIsSound(d)
    BY <1>4, IndInvFacts, SameTree
  <1>8. NoHeavierBlock'
    <2>1. /\ DOMAIN d.blockMap = DOMAIN db.blockMap \cup {newBlock}
          /\ \A x \in DOMAIN db.blockMap : d.blockMap[x].depth = db.blockMap[x].depth
          /\ 5 * d.blockMap[newBlock].depth > 5 * db.blockMap[tip].depth + Difficulty[tip]
      BY <1>1, <1>4 DEF IndInv, CallIsSound
    <2>2. /\ newBlock \in Blocks /\ tip \in Blocks /\ newBlock \in DOMAIN d.blockMap
      BY <1>4, <2>1, IndInvFacts DEF IsDatabase
    <2>3. /\ Difficulty[newBlock] \in Nat /\ Difficulty[tip] \in Nat
          /\ d.blockMap[newBlock].depth \in Nat /\ db.blockMap[tip].depth \in Nat
      BY <1>4, <2>2, IndInvFacts
    <2> SUFFICES ASSUME NEW x \in DOMAIN d.blockMap
                 PROVE  ~heavierThan(d, x, newBlock)
      BY <1>1, <1>6 DEF NoHeavierBlock
    <2>4. CASE x = newBlock
      BY <2>3, <2>4 DEF heavierThan
    <2>5. CASE x # newBlock
      <3>1. x \in DOMAIN db.blockMap
        BY <2>1, <2>5
      <3>2. ~(5 * db.blockMap[x].depth > 5 * db.blockMap[tip].depth + Difficulty[tip])
        BY <3>1 DEF IndInv, NoHeavierBlock, heavierThan
      <3>3. db.blockMap[x].depth \in Nat /\ d.blockMap[x].depth = db.blockMap[x].depth
        BY <2>1, <3>1, IndInvFacts
      <3> QED BY <2>1, <2>3, <3>2, <3>3 DEF heavierThan
    <2> QED BY <2>4, <2>5
  <1> QED BY <1>1, <1>5, <1>6, <1>7, <1>8 DEF IndInv, PathIsChain, CallIsSound, PhaseIsSound, Return

\* A step that leaves the databases and the call alone keeps the invariant.
LEMMA SameCall ==
  ASSUME IndInv, TypeOK', db' = db, wtx' = wtx, UNCHANGED call
  PROVE  IndInv'
  <1>1. /\ pc' = pc /\ newPath' = newPath /\ pos' = pos /\ txIdx' = txIdx
    BY DEF call
  <1>2. TreeIsSound(db)' /\ TreeIsSound(wtx)'
    BY DEF IndInv, TreeIsSound
  <1>3. PathIsChain'
    BY DEF IndInv, PathIsChain, IsChain
  <1>4. NoHeavierBlock'
    BY DEF IndInv, NoHeavierBlock, heavierThan, currentBlockID
  <1>5. CallIsSound'
    BY <1>1 DEF IndInv, CallIsSound, newBlock, currentBlockID
  <1>6. PhaseIsSound'
    BY <1>1 DEF IndInv, PhaseIsSound, OnCurrentPath, blockHeight, getPath, currentBlockID
  <1> QED BY <1>2, <1>3, <1>4, <1>5, <1>6 DEF IndInv

=============================================================================
