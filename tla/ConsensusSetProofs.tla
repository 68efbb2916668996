------------------------- MODULE ConsensusSetProofs -------------------------
(***************************************************************************)
(* What ConsensusSet promises, for every tree of blocks.                   *)
(*                                                                         *)
(* The invariant IndInv is preserved by every step.  Besides the types it  *)
(* says that the tree of stored blocks is sound, that the committed path   *)
(* and the path of the open transaction are chains, that no stored block   *)
(* surpasses the current one, and, for a call under way, what the part of  *)
(* the new path that is already applied and the part still to come have to *)
(* do with the open transaction.                                           *)
(***************************************************************************)
EXTENDS ConsensusSetSteps

\* Every step of the specification preserves the inductive invariant.
LEMMA NextIndInv == IndInv /\ [Next]_vars => IndInv'
  <1> SUFFICES ASSUME IndInv, [Next]_vars PROVE IndInv'
    OBVIOUS
  <1>1. ASSUME NEW b \in Blocks \ {Genesis}, managedAcceptBlock(b)
        PROVE  IndInv'
    BY <1>1, AddBlock DEF managedAcceptBlock, IndInv, TypeOK
  <1>2. ASSUME NEW b \in Blocks \ {Genesis}, deferFutureBlock(b)
        PROVE  IndInv'
    <2>1. /\ db' = db /\ wtx' = wtx /\ UNCHANGED call /\ severe' = severe
          /\ dosBlocks' = dosBlocks /\ now' = now /\ sleeping' = sleeping \cup {b}
      BY <1>2 DEF deferFutureBlock
    <2>2. TypeOK'
      BY <1>2, <2>1 DEF IndInv, TypeOK, call
    <2> QED BY <2>1, <2>2, SameCall
  <1>3. ASSUME NEW b \in Blocks \ {Genesis}, acceptFutureBlock(b)
        PROVE  IndInv'
    <2>1. /\ pc = "idle" /\ sleeping' \subseteq Blocks
          /\ severe' = severe /\ dosBlocks' = dosBlocks /\ now' = now
      BY <1>3 DEF acceptFutureBlock, IndInv, TypeOK
    <2>2. CASE ~db.inconsistent /\ validateHeaderAndBlock(b) = "ok"
      BY <1>3, <2>1, <2>2, AddBlock DEF acceptFutureBlock
    <2>3. CASE ~(~db.inconsistent /\ validateHeaderAndBlock(b) = "ok")
      <3>1. db' = db /\ wtx' = wtx /\ UNCHANGED call
        BY <1>3, <2>3 DEF acceptFutureBlock
      <3>2. TypeOK'
        BY <2>1, <3>1 DEF IndInv, TypeOK, call
      <3> QED BY <3>1, <3>2, SameCall
    <2> QED BY <2>2, <2>3
  <1>4. CASE step
    <2>1. CASE backtrackToCurrentPath BY <2>1, BacktrackStep
    <2>2. CASE rewindBlock BY <2>2, RewindStep
    <2>3. CASE revertDone BY <2>3, RevertDoneStep
    <2>4. CASE forwardBlock BY <2>4, ForwardStep
    <2>5. CASE generateStart BY <2>5, GenerateStartStep
    <2>6. CASE generateTransaction BY <2>6, GenerateTransactionStep
    <2>7. CASE generateFail
      <3>1. dosBlocks' \subseteq Blocks
        <4>1. /\ pc = "generate" /\ dosBlocks' = dosBlocks \cup {newPath[pos + 1]}
          BY <2>7 DEF generateFail
        <4>2. pos < Len(newPath) /\ dosBlocks \subseteq Blocks
          BY <4>1 DEF IndInv, TypeOK, PhaseIsSound
        <4> QED BY <4>1, <4>2, NextOnPath
      <3> QED BY <2>7, <3>1, RollBack DEF generateFail, IndInv, TypeOK
    <2>8. CASE generateFinish BY <2>8, GenerateFinishStep
    <2>9. CASE commitChange BY <2>9, CommitStep
    <2> QED BY <1>4, <2>1, <2>2, <2>3, <2>4, <2>5, <2>6, <2>7, <2>8, <2>9 DEF step
  <1>5. CASE crash
    BY <1>5, RollBack DEF crash
  <1>6. CASE tick \/ UNCHANGED vars
    <2>1. db' = db /\ wtx' = wtx /\ UNCHANGED call /\ severe' = severe
          /\ dosBlocks' = dosBlocks /\ sleeping' = sleeping
      BY <1>6 DEF tick, vars, call
    <2>2. now' \in 0..MaxTime
      BY <1>6, ClockAssumption DEF tick, vars, IndInv, TypeOK
    <2>3. TypeOK'
      BY <2>1, <2>2 DEF IndInv, TypeOK, call
    <2> QED BY <2>1, <2>3, SameCall
  <1> QED BY <1>1, <1>2, <1>3, <1>4, <1>5, <1>6 DEF Next

----------------------------------------------------------------------------
(* The theorems. *)

\* Every reachable state of the consensus set satisfies the invariant, whatever
\* blocks arrive in whatever order, with crashes and failed reorganisations.
THEOREM IndInvHolds == Spec => []IndInv
  <1>1. Init => IndInv
    BY InitIndInv
  <1>2. IndInv /\ [Next]_vars => IndInv'
    BY NextIndInv
  <1> QED BY <1>1, <1>2, PTL DEF Spec

\* Every variable keeps its shape, whatever the tree of blocks is.
THEOREM TypeCorrect == Spec => []TypeOK
  <1>1. IndInv => TypeOK
    BY DEF IndInv
  <1> QED BY <1>1, IndInvHolds, PTL

\* The current path, committed or in the middle of a reorganisation, is a
\* chain of stored, validated blocks from the genesis block: revertToBlock and
\* applyUntilBlock never leave a gap, on any tree.
THEOREM PathStaysChain == Spec => []PathIsChain
  <1>1. IndInv => PathIsChain
    BY DEF IndInv
  <1> QED BY <1>1, IndInvHolds, PTL

\* No stored block surpasses the current one: a single comparison when a block
\* arrives (heavierThan in addBlockToTree) is enough for any order of arrival.
THEOREM CurrentBlockIsHeaviest == Spec => []NoHeavierBlock
  <1>1. IndInv => NoHeavierBlock
    BY DEF IndInv
  <1> QED BY <1>1, IndInvHolds, PTL

\* How the committed database may change in one step.
LEMMA CommittedChange ==
  ASSUME IndInv, [Next]_vars
  PROVE  \/ db' = db
         \/ /\ db'.path = db.path
            /\ DOMAIN db.blockMap \subseteq DOMAIN db'.blockMap
            /\ \A x \in DOMAIN db.blockMap : db'.blockMap[x] = db.blockMap[x]
         \/ /\ pc = "apply" /\ pos = Len(newPath)
            /\ db'.blockMap = wtx.blockMap /\ db'.path = wtx.path
  <1>1. ASSUME NEW b \in Blocks \ {Genesis}, validateHeaderAndBlock(b) = "ok", addBlockToTree(b)
        PROVE  \/ db' = db
               \/ /\ db'.path = db.path
                  /\ DOMAIN db.blockMap \subseteq DOMAIN db'.blockMap
                  /\ \A x \in DOMAIN db.blockMap : db'.blockMap[x] = db.blockMap[x]
    <2>1. b \notin DOMAIN db.blockMap /\ Parent[b] \in DOMAIN db.blockMap
      BY <1>1 DEF validateHeaderAndBlock
    <2> DEFINE d == newChild(db, b)
    <2>2. /\ d.path = db.path
          /\ DOMAIN d.blockMap = DOMAIN db.blockMap \cup {b}
          /\ \A x \in DOMAIN db.blockMap : d.blockMap[x] = db.blockMap[x]
      BY ZenonT(30), <2>1, IndInvFacts, NewChildType
    <2>3. db' = db \/ db' = d
      BY <1>1 DEF addBlockToTree
    <2> HIDE DEF d
    <2> QED BY <2>2, <2>3
  <1>2. CASE commitChange
    <2> DEFINE ce == Entry(reverted, Tail(newPath))
    <2>1. /\ pc = "apply" /\ pos = Len(newPath) /\ db' = appendChangeLog(wtx, ce)
      BY <1>2 DEF commitChange
    <2>2. newPath \in Seq(Blocks) /\ newPath # <<>> /\ reverted \in Seq(Blocks)
      BY <2>1 DEF IndInv, TypeOK, CallIsSound
    <2>3. ce \in ChangeEntry
      BY SMTT(40), <2>2 DEF Entry, ChangeEntry
    <2> HIDE DEF ce
    <2> QED BY <2>1, <2>3, IndInvFacts, AppendChangeLogType
  <1>3. CASE \E b \in Blocks \ {Genesis} : managedAcceptBlock(b)
    BY <1>1, <1>3 DEF managedAcceptBlock
  <1>4. CASE \E b \in Blocks \ {Genesis} : acceptFutureBlock(b)
    BY <1>1, <1>4 DEF acceptFutureBlock
  <1>5. CASE \E b \in Blocks \ {Genesis} : deferFutureBlock(b)
    BY <1>5 DEF deferFutureBlock
  <1>6. CASE step /\ ~commitChange
    BY ZenonT(30), <1>6 DEF step, backtrackToCurrentPath, rewindBlock, revertDone, forwardBlock,
                generateStart, generateTransaction, generateFail, generateFinish
  <1>7. CASE crash \/ tick \/ UNCHANGED vars
    BY <1>7 DEF crash, tick, vars
  <1> QED BY <1>2, <1>3, <1>4, <1>5, <1>6, <1>7 DEF Next

\* The active fork changes only for a strictly heavier one, through any
\* sequence of reorganisations, failed ones included, and restarts.
THEOREM ForksOnlyGetHeavier == Spec => OnlyHeavierForks
  <1>1. ASSUME IndInv, [Next]_vars, db'.path # db.path
        PROVE  db'.blockMap[currentBlockID(db')].depth > db.blockMap[currentBlockID(db)].depth
    <2>1. /\ pc = "apply" /\ pos = Len(newPath)
          /\ db'.blockMap = wtx.blockMap /\ db'.path = wtx.path
      BY <1>1, CommittedChange
    <2>2. currentBlockID(db') = newBlock
      BY <1>1, <2>1 DEF IndInv, PhaseIsSound, newBlock, currentBlockID
    <2>3. /\ 5 * wtx.blockMap[newBlock].depth
               > 5 * db.blockMap[currentBlockID(db)].depth + Difficulty[currentBlockID(db)]
          /\ newBlock \in DOMAIN wtx.blockMap
      BY <1>1, <2>1 DEF IndInv, CallIsSound
    <2>4. /\ wtx.blockMap[newBlock].depth \in Nat
          /\ db.blockMap[currentBlockID(db)].depth \in Nat
          /\ Difficulty[currentBlockID(db)] \in Nat
      BY <1>1, <2>3, IndInvFacts DEF IsDatabase
    <2> QED BY SMTT(40), <2>1, <2>2, <2>3, <2>4
  <1>2. IndInv /\ [Next]_vars =>
          [db'.path # db.path =>
             db'.blockMap[currentBlockID(db')].depth
               > db.blockMap[currentBlockID(db)].depth]_vars
    BY <1>1
  <1> QED BY <1>2, IndInvHolds, PTL DEF Spec, OnlyHeavierForks

\* A stored block is never forgotten or moved, and a validated one keeps its
\* diffs: what revertToBlock will need later is still there.
THEOREM StoredBlocksAreKept == Spec => BlocksAreKept
  <1>1. ASSUME IndInv, [Next]_vars, NEW b \in DOMAIN db.blockMap
        PROVE  /\ b \in DOMAIN db'.blockMap
               /\ db'.blockMap[b].depth = db.blockMap[b].depth
               /\ db.blockMap[b].diffsGenerated => db'.blockMap[b] = db.blockMap[b]
    <2>1. CASE pc = "apply" /\ db'.blockMap = wtx.blockMap
      BY <1>1, <2>1 DEF IndInv, CallIsSound
    <2> QED BY <1>1, <2>1, CommittedChange
  <1>2. IndInv /\ [Next]_vars =>
          [\A b \in DOMAIN db.blockMap :
             /\ b \in DOMAIN db'.blockMap
             /\ db'.blockMap[b].depth = db.blockMap[b].depth
             /\ db.blockMap[b].diffsGenerated => db'.blockMap[b] = db.blockMap[b]]_vars
    BY <1>1
  <1> QED BY <1>2, IndInvHolds, PTL DEF Spec, BlocksAreKept

=============================================================================
