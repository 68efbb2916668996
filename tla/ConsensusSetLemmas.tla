------------------------- MODULE ConsensusSetLemmas -------------------------
(***************************************************************************)
(* The facts the proofs about ConsensusSet rest on, for every tree of      *)
(* blocks: what the operations on the database do to its parts, how chains *)
(* and trees grow and shrink, that the inductive invariant IndInv holds    *)
(* initially, and how a call begins, goes on and is rolled back.           *)
(***************************************************************************)
EXTENDS ConsensusSet, TLAPS

----------------------------------------------------------------------------
(* The operations on the database keep its type, and most leave the tree   *)
(* and the path alone.                                                     *)

\* createDCOBucket only adds a bucket.
LEMMA CreateBucketType ==
  ASSUME NEW d, IsDatabase(d), NEW h \in Nat
  PROVE  LET e == createDCOBucket(d, h) IN
         /\ IsDatabase(e)
         /\ e.blockMap = d.blockMap
         /\ e.path = d.path
  BY DEF IsDatabase, createDCOBucket

\* deleteDCOBucket only removes a bucket.
LEMMA DeleteBucketType ==
  ASSUME NEW d, IsDatabase(d), NEW h
  PROVE  LET e == deleteDCOBucket(d, h) IN
         /\ IsDatabase(e)
         /\ e.blockMap = d.blockMap
         /\ e.path = d.path
  BY DEF IsDatabase, deleteDCOBucket

\* commitCoinOutputDiff and its likes add to or take from one set of entries.
LEMMA CommitDiffType ==
  ASSUME NEW T, NEW S \in SUBSET T, NEW diff \in Diff(T), NEW dir
  PROVE  commitDiff(S, diff, dir) \in SUBSET T
  BY DEF Diff, commitDiff

\* commitNodeDiffs changes the ledger, not the tree and not the path.
LEMMA CommitNodeDiffsType ==
  ASSUME NEW d, IsDatabase(d), NEW df \in Diffs, NEW dir
  PROVE  LET e == commitNodeDiffs(d, df, dir) IN
         /\ IsDatabase(e)
         /\ e.blockMap = d.blockMap
         /\ e.path = d.path
  <1>1. /\ df.coins \in Diff(Outputs) /\ df.stakes \in Diff(Outputs)
        /\ df.dcos \in Diff(Nat \X Outputs) /\ df.txids \in Diff(Transactions \X Nat \X Nat)
    BY DEF Diffs
  <1>2. /\ commitDiff(d.coins, df.coins, dir) \subseteq Outputs
        /\ commitDiff(d.stakes, df.stakes, dir) \subseteq Outputs
        /\ commitDiff(d.dcos, df.dcos, dir) \subseteq Nat \X Outputs
        /\ commitDiff(d.txids, df.txids, dir) \subseteq Transactions \X Nat \X Nat
    BY ZenonT(30), <1>1, CommitDiffType DEF IsDatabase
  <1> QED BY <1>2 DEF IsDatabase, commitNodeDiffs

\* pushPath appends a stored block to the path.
LEMMA PushPathType ==
  ASSUME NEW d, IsDatabase(d), NEW b \in Blocks
  PROVE  LET e == pushPath(d, b) IN
         /\ IsDatabase(e)
         /\ e.blockMap = d.blockMap
         /\ e.path = Append(d.path, b)
  BY DEF IsDatabase, pushPath

\* popPath takes the last block off the path.
LEMMA PopPathType ==
  ASSUME NEW d, IsDatabase(d), Len(d.path) >= 1
  PROVE  LET e == popPath(d) IN
         /\ IsDatabase(e)
         /\ e.blockMap = d.blockMap
         /\ e.path = SubSeq(d.path, 1, Len(d.path) - 1)
  BY DEF IsDatabase, popPath

\* commitDiffSet moves the path by one block, forward or back.
LEMMA CommitDiffSetType ==
  ASSUME NEW d, IsDatabase(d), NEW b \in DOMAIN d.blockMap, Len(d.path) >= 1
  PROVE  /\ LET e == commitDiffSet(d, b, DiffApply) IN
              IsDatabase(e) /\ e.blockMap = d.blockMap /\ e.path = Append(d.path, b)
         /\ LET e == commitDiffSet(d, b, DiffRevert) IN
              /\ IsDatabase(e) /\ e.blockMap = d.blockMap
              /\ e.path = SubSeq(d.path, 1, Len(d.path) - 1)
  <1>1. d.blockMap[b].diffs \in Diffs /\ b \in Blocks
    BY DEF IsDatabase, ProcessedBlock
  <1> DEFINE e1 == commitNodeDiffs(d, d.blockMap[b].diffs, DiffApply)
             e2 == commitNodeDiffs(d, d.blockMap[b].diffs, DiffRevert)
  <1>2. IsDatabase(e1) /\ e1.blockMap = d.blockMap /\ e1.path = d.path
    BY <1>1, CommitNodeDiffsType
  <1>3. IsDatabase(e2) /\ e2.blockMap = d.blockMap /\ e2.path = d.path
    BY <1>1, CommitNodeDiffsType
  <1>4. /\ commitDiffSet(d, b, DiffApply) = pushPath(e1, b)
        /\ commitDiffSet(d, b, DiffRevert) = popPath(e2)
    BY DEF commitDiffSet, updateCurrentPath, DiffApply, DiffRevert
  <1> HIDE DEF e1, e2
  <1> QED BY ZenonT(30), <1>1, <1>2, <1>3, <1>4, PushPathType, PopPathType

\* What rewindBlock leaves: the path without its last block, the same tree.
LEMMA RewoundBlockType ==
  ASSUME NEW d, IsDatabase(d), NEW b \in DOMAIN d.blockMap, Len(d.path) >= 1
  PROVE  LET e == rewoundBlock(d, b) IN
         /\ IsDatabase(e)
         /\ e.blockMap = d.blockMap
         /\ e.path = SubSeq(d.path, 1, Len(d.path) - 1)
  <1> DEFINE h == d.blockMap[b].height
             e1 == createDCOBucket(d, h)
             e2 == commitDiffSet(e1, b, DiffRevert)
             e3 == deleteDCOBucket(e2, h + MaturityDelay)
  <1>1. h \in Nat
    BY DEF IsDatabase, ProcessedBlock
  <1>2. IsDatabase(e1) /\ e1.blockMap = d.blockMap /\ e1.path = d.path
    <2> HIDE DEF h
    <2> QED BY <1>1, CreateBucketType
  <1>3. /\ IsDatabase(e2) /\ e2.blockMap = d.blockMap
        /\ e2.path = SubSeq(d.path, 1, Len(d.path) - 1)
    <2> HIDE DEF e1
    <2> QED BY <1>2, CommitDiffSetType
  <1>4. IsDatabase(e3) /\ e3.blockMap = e2.blockMap /\ e3.path = e2.path
    <2> HIDE DEF e2
    <2> QED BY <1>3, DeleteBucketType
  <1>5. rewoundBlock(d, b) = e3
    BY DEF rewoundBlock
  <1> HIDE DEF e3, e2
  <1> QED BY <1>3, <1>4, <1>5

\* What forwardBlock leaves: the path with one more block, the same tree.
LEMMA ForwardedBlockType ==
  ASSUME NEW d, IsDatabase(d), NEW b \in DOMAIN d.blockMap, Len(d.path) >= 1
  PROVE  LET e == forwardedBlock(d, b) IN
         /\ IsDatabase(e)
         /\ e.blockMap = d.blockMap
         /\ e.path = Append(d.path, b)
  <1> DEFINE h == d.blockMap[b].height
             e1 == createDCOBucket(d, h + MaturityDelay)
             e2 == commitDiffSet(e1, b, DiffApply)
             e3 == deleteDCOBucket(e2, h)
  <1>1. h \in Nat /\ h + MaturityDelay \in Nat
    BY MaturityAssumption DEF IsDatabase, ProcessedBlock
  <1>2. IsDatabase(e1) /\ e1.blockMap = d.blockMap /\ e1.path = d.path
    <2> HIDE DEF h
    <2> QED BY ZenonT(30), <1>1, CreateBucketType
  <1>3. IsDatabase(e2) /\ e2.blockMap = d.blockMap /\ e2.path = Append(d.path, b)
    <2> HIDE DEF e1
    <2> QED BY <1>2, CommitDiffSetType
  <1>4. IsDatabase(e3) /\ e3.blockMap = e2.blockMap /\ e3.path = e2.path
    <2> HIDE DEF e2
    <2> QED BY <1>3, DeleteBucketType
  <1>5. forwardedBlock(d, b) = e3
    BY DEF forwardedBlock
  <1> HIDE DEF e3, e2
  <1> QED BY <1>3, <1>4, <1>5

\* newChild stores the block one above its parent and leaves all else alone.
LEMMA NewChildType ==
  ASSUME NEW d, IsDatabase(d), NEW b \in Blocks \ {Genesis}, Parent[b] \in DOMAIN d.blockMap,
         b \notin DOMAIN d.blockMap
  PROVE  LET e == newChild(d, b) IN
         /\ IsDatabase(e)
         /\ e.path = d.path
         /\ DOMAIN e.blockMap = DOMAIN d.blockMap \cup {b}
         /\ \A x \in DOMAIN d.blockMap : e.blockMap[x] = d.blockMap[x]
         /\ e.blockMap[b].height = d.blockMap[Parent[b]].height + 1
         /\ e.blockMap[b].depth = d.blockMap[Parent[b]].depth + Difficulty[Parent[b]]
         /\ e.blockMap[b].diffsGenerated = FALSE
  <1> DEFINE pb == [height |-> d.blockMap[Parent[b]].height + 1,
                    depth  |-> childDepth(d, Parent[b]),
                    diffsGenerated |-> FALSE,
                    diffs  |-> NoDiffs]
             m == Put(d.blockMap, b, pb)
  <1>1. pb \in ProcessedBlock
    <2>1. NoDiffs \in Diffs
      BY DEF NoDiffs, NoDiff, Diffs, Diff
    <2>2. d.blockMap[Parent[b]].height \in Nat /\ d.blockMap[Parent[b]].depth \in Nat
      BY DEF IsDatabase, ProcessedBlock
    <2>3. Difficulty[Parent[b]] \in Nat
      BY TreeAssumption
    <2> QED BY <2>1, <2>2, <2>3 DEF ProcessedBlock, childDepth
  <1>2. /\ DOMAIN m = DOMAIN d.blockMap \cup {b}
        /\ m[b] = pb
        /\ \A x \in DOMAIN d.blockMap : m[x] = d.blockMap[x]
    BY DEF Put
  <1>3. newChild(d, b) = [d EXCEPT !.blockMap = m]
    BY DEF newChild
  <1>4. pb.height = d.blockMap[Parent[b]].height + 1 /\ pb.diffsGenerated = FALSE
        /\ pb.depth = d.blockMap[Parent[b]].depth + Difficulty[Parent[b]]
    BY DEF childDepth
  <1> HIDE DEF pb, m
  <1> QED BY <1>1, <1>2, <1>3, <1>4 DEF IsDatabase

\* What generateAndApplyDiff leaves: a validated block on a longer path.
LEMMA GeneratedBlockType ==
  ASSUME NEW d, IsDatabase(d), NEW b \in DOMAIN d.blockMap, NEW df \in Diffs
  PROVE  LET e == generatedBlock(d, b, df) IN
         /\ IsDatabase(e)
         /\ e.path = Append(d.path, b)
         /\ DOMAIN e.blockMap = DOMAIN d.blockMap
         /\ \A x \in DOMAIN d.blockMap :
              /\ e.blockMap[x].height = d.blockMap[x].height
              /\ e.blockMap[x].depth = d.blockMap[x].depth
              /\ x # b => e.blockMap[x] = d.blockMap[x]
         /\ e.blockMap[b].diffsGenerated
  <1> DEFINE h == d.blockMap[b].height
             m == MaintenanceDiffs(d, b, h)
             d0 == commitNodeDiffs(d, m, DiffApply)
             d1 == deleteDCOBucket(d0, h)
             d2 == pushPath(d1, b)
             pb == [d.blockMap[b] EXCEPT !.diffsGenerated = TRUE, !.diffs = AddDiffs(df, m)]
  <1>1. h \in Nat /\ b \in Blocks /\ d.blockMap[b] \in ProcessedBlock
    BY DEF IsDatabase, ProcessedBlock
  <1>2. m \in Diffs
    <2> HIDE DEF h
    <2> DEFINE matured == {p \in d.dcos : p[1] = h}
               outs == {p[2] : p \in matured}
               cd == [add |-> outs, del |-> {}]
               dd == [add |-> {h + MaturityDelay} \X MinerPayouts[b], del |-> matured]
    <2>1. cd \in Diff(Outputs)
      <3>1. \A p \in matured : p[2] \in Outputs
        BY DEF IsDatabase
      <3>2. outs \subseteq Outputs
        BY <3>1
      <3> HIDE DEF outs
      <3> QED BY <3>2 DEF Diff
    <2>2. dd \in Diff(Nat \X Outputs)
      <3>1. h + MaturityDelay \in Nat
        BY <1>1, MaturityAssumption
      <3>2. MinerPayouts[b] \subseteq Outputs
        BY <1>1, ContentAssumption
      <3>3. matured \subseteq Nat \X Outputs
        BY DEF IsDatabase
      <3> QED BY <3>1, <3>2, <3>3 DEF Diff
    <2>3. m = [coins |-> cd, stakes |-> NoDiff, dcos |-> dd, txids |-> NoDiff]
      BY DEF MaintenanceDiffs
    <2>4. NoDiff \in Diff(Outputs) /\ NoDiff \in Diff(Transactions \X Nat \X Nat)
      BY DEF NoDiff, Diff
    <2> HIDE DEF cd, dd, m
    <2> QED BY <2>1, <2>2, <2>3, <2>4 DEF Diffs
  <1>3. IsDatabase(d0) /\ d0.blockMap = d.blockMap /\ d0.path = d.path
    <2> HIDE DEF m
    <2> QED BY <1>2, CommitNodeDiffsType
  <1>4. IsDatabase(d1) /\ d1.blockMap = d.blockMap /\ d1.path = d.path
    <2> HIDE DEF d0
    <2> QED BY <1>3, DeleteBucketType
  <1>5. IsDatabase(d2) /\ d2.blockMap = d.blockMap /\ d2.path = Append(d.path, b)
    <2> HIDE DEF d1
    <2> QED BY <1>1, <1>4, PushPathType
  <1>6. AddDiffs(df, m) \in Diffs
    <2> HIDE DEF m
    <2> QED BY <1>2 DEF AddDiffs, AddDiff, Diffs, Diff
  <1>7. /\ pb \in ProcessedBlock
        /\ pb.height = d.blockMap[b].height
        /\ pb.depth = d.blockMap[b].depth
        /\ pb.diffsGenerated
    <2> HIDE DEF m
    <2> QED BY ZenonT(30), <1>1, <1>6 DEF ProcessedBlock
  <1>8. generatedBlock(d, b, df) = [d2 EXCEPT !.blockMap = [@ EXCEPT ![b] = pb]]
    BY DEF generatedBlock
  <1> DEFINE bm == [d.blockMap EXCEPT ![b] = pb]
  <1>9. /\ DOMAIN bm = DOMAIN d.blockMap
        /\ bm[b] = pb
        /\ \A x \in DOMAIN d.blockMap \ {b} : bm[x] = d.blockMap[x]
        /\ generatedBlock(d, b, df) = [d2 EXCEPT !.blockMap = bm]
    <2> HIDE DEF d2, pb
    <2> QED BY <1>5, <1>8
  <1>10. \A x \in DOMAIN bm : bm[x] \in ProcessedBlock
    <2> HIDE DEF bm, pb
    <2> QED BY <1>7, <1>9 DEF IsDatabase
  <1>11. IsDatabase([d2 EXCEPT !.blockMap = bm])
    <2> HIDE DEF bm, d2
    <2> QED BY ZenonT(30), <1>5, <1>9, <1>10 DEF IsDatabase
  <1>12. [d2 EXCEPT !.blockMap = bm].blockMap = bm /\ [d2 EXCEPT !.blockMap = bm].path = d2.path
    <2> HIDE DEF bm, d2
    <2> QED BY <1>5 DEF IsDatabase
  <1> HIDE DEF d2, pb, bm
  <1> QED BY <1>5, <1>7, <1>9, <1>11, <1>12

\* appendChangeLog writes to the log only.
LEMMA AppendChangeLogType ==
  ASSUME NEW d, IsDatabase(d), NEW ce \in ChangeEntry
  PROVE  LET e == appendChangeLog(d, ce) IN
         /\ IsDatabase(e)
         /\ e.blockMap = d.blockMap
         /\ e.path = d.path
  <1> DEFINE log1 == Put(d.log, ce, NoEntry)
             log2 == IF d.tail = NoEntry THEN log1 ELSE [log1 EXCEPT ![d.tail] = ce]
  <1>1. NoEntry \in ChangeEntry
    BY DEF NoEntry, Entry, ChangeEntry
  <1>2. \A e \in DOMAIN log1 : e \in ChangeEntry /\ log1[e] \in ChangeEntry
    BY <1>1 DEF Put, IsDatabase
  <1>3. \A e \in DOMAIN log2 : e \in ChangeEntry /\ log2[e] \in ChangeEntry
    <2> HIDE DEF log1
    <2> QED BY <1>2
  <1>4. appendChangeLog(d, ce) = [d EXCEPT !.log = log2, !.tail = ce]
    BY DEF appendChangeLog
  <1> HIDE DEF log2
  <1> QED BY <1>3, <1>4 DEF IsDatabase

\* checkConsistency can only raise the flag of an inconsistent database.
LEMMA ConsistencyType ==
  ASSUME NEW d, IsDatabase(d), NEW e \in maybeCheckConsistency(d)
  PROVE  IsDatabase(e) /\ e.blockMap = d.blockMap /\ e.path = d.path
  BY ZenonT(30) DEF maybeCheckConsistency, IsDatabase

----------------------------------------------------------------------------
(* Chains and trees. *)

\* The tree only depends on where its blocks are.
LEMMA SameTree ==
  ASSUME NEW d, NEW e, TreeIsSound(d),
         DOMAIN e.blockMap = DOMAIN d.blockMap,
         \A x \in DOMAIN d.blockMap : /\ e.blockMap[x].height = d.blockMap[x].height
                                      /\ e.blockMap[x].depth = d.blockMap[x].depth
  PROVE  TreeIsSound(e)
  BY DEF TreeIsSound

\* A chain is a matter of the path and the block map alone.
LEMMA SameChain ==
  ASSUME NEW d, NEW e, IsChain(d), e.path = d.path, e.blockMap = d.blockMap
  PROVE  IsChain(e) /\ currentBlockID(e) = currentBlockID(d)
  BY DEF IsChain, currentBlockID

\* A child of the current block that is validated extends the chain.
LEMMA ChainExtends ==
  ASSUME NEW d, NEW e, IsDatabase(d), IsChain(d), TreeIsSound(d),
         NEW b \in DOMAIN d.blockMap \ {Genesis}, Parent[b] = currentBlockID(d),
         e.path = Append(d.path, b),
         DOMAIN e.blockMap = DOMAIN d.blockMap,
         e.blockMap[b].height = d.blockMap[b].height,
         e.blockMap[b].diffsGenerated,
         \A x \in DOMAIN d.blockMap \ {b} : e.blockMap[x] = d.blockMap[x]
  PROVE  IsChain(e) /\ currentBlockID(e) = b
  <1> DEFINE n == Len(d.path)
  <1>1. n \in Nat /\ n >= 1 /\ d.path \in Seq(Blocks) /\ b \in Blocks
    BY DEF IsDatabase, IsChain
  <1>2. /\ Len(e.path) = n + 1
        /\ e.path[n + 1] = b
        /\ \A i \in 1..n : e.path[i] = d.path[i]
    BY <1>1
  <1>3. d.blockMap[b].height = n
    <2>1. d.blockMap[b].height = d.blockMap[d.path[n]].height + 1
      BY DEF TreeIsSound, currentBlockID
    <2>2. d.blockMap[d.path[n]].height = n - 1
      BY <1>1 DEF IsChain
    <2> QED BY <1>1, <2>1, <2>2
  <1>4. \A i \in 1..n : /\ e.path[i] \in DOMAIN e.blockMap
                        /\ e.blockMap[e.path[i]].height = i - 1
                        /\ e.blockMap[e.path[i]].diffsGenerated
    <2> SUFFICES ASSUME NEW i \in 1..n
                 PROVE  /\ e.path[i] \in DOMAIN e.blockMap
                        /\ e.blockMap[e.path[i]].height = i - 1
                        /\ e.blockMap[e.path[i]].diffsGenerated
      OBVIOUS
    <2>1. /\ d.path[i] \in DOMAIN d.blockMap /\ d.blockMap[d.path[i]].height = i - 1
          /\ d.blockMap[d.path[i]].diffsGenerated
      BY DEF IsChain
    <2>2. d.path[i] # b
      BY <1>1, <1>3, <2>1
    <2> QED BY <1>2, <2>1, <2>2
  <1>5. \A i \in 2..n : e.path[i] # Genesis /\ Parent[e.path[i]] = e.path[i - 1]
    BY <1>1, <1>2 DEF IsChain
  <1>6. e.path[n + 1] # Genesis /\ Parent[e.path[n + 1]] = e.path[n]
    BY <1>1, <1>2 DEF currentBlockID
  <1>7. e.path[1] = Genesis
    BY <1>1, <1>2 DEF IsChain
  <1>8. /\ 1..Len(e.path) = 1..n \cup {n + 1}
        /\ 2..Len(e.path) = 2..n \cup {n + 1}
    BY <1>1, <1>2
  <1>9. IsChain(e)
    <2>1. \A i \in 1..Len(e.path) : /\ e.path[i] \in DOMAIN e.blockMap
                                    /\ e.blockMap[e.path[i]].height = i - 1
                                    /\ e.blockMap[e.path[i]].diffsGenerated
      BY <1>1, <1>2, <1>3, <1>4, <1>8
    <2>2. \A i \in 2..Len(e.path) : e.path[i] # Genesis /\ Parent[e.path[i]] = e.path[i - 1]
      BY <1>1, <1>5, <1>6, <1>8
    <2> QED BY SMTT(40), <1>1, <1>2, <1>7, <2>1, <2>2 DEF IsChain
  <1> QED BY <1>2, <1>9 DEF currentBlockID

\* A chain without its last block is a chain, and every other block is still on it.
LEMMA ChainShrinks ==
  ASSUME NEW d, NEW e, IsDatabase(d), IsChain(d), Len(d.path) >= 2,
         e.path = SubSeq(d.path, 1, Len(d.path) - 1),
         e.blockMap = d.blockMap
  PROVE  /\ IsChain(e)
         /\ \A x \in DOMAIN d.blockMap :
              OnCurrentPath(d, x) /\ x # currentBlockID(d) => OnCurrentPath(e, x)
  <1> DEFINE n == Len(d.path)
  <1>1. n \in Nat /\ n >= 2 /\ d.path \in Seq(Blocks)
    BY DEF IsDatabase
  <1>2. /\ Len(e.path) = n - 1
        /\ \A i \in 1..(n - 1) : e.path[i] = d.path[i]
    BY <1>1
  <1>3. IsChain(e)
    BY <1>1, <1>2 DEF IsChain
  <1>4. ASSUME NEW x \in DOMAIN d.blockMap, OnCurrentPath(d, x), x # currentBlockID(d)
        PROVE  OnCurrentPath(e, x)
    <2>1. d.blockMap[x].height \in Nat
      BY DEF IsDatabase, ProcessedBlock
    <2>2. d.blockMap[x].height <= n - 1 /\ d.path[d.blockMap[x].height + 1] = x
      BY <1>4, <1>1 DEF OnCurrentPath, blockHeight, getPath
    <2>3. d.blockMap[x].height + 1 # n
      BY <1>4, <2>2 DEF currentBlockID
    <2>4. d.blockMap[x].height <= n - 2 /\ d.blockMap[x].height + 1 \in 1..(n - 1)
      BY <1>1, <2>1, <2>2, <2>3
    <2> QED BY <1>1, <1>2, <2>2, <2>4 DEF OnCurrentPath, blockHeight, getPath
  <1> QED BY <1>3, <1>4

\* The genesis block is on every chain.
LEMMA GenesisOnPath ==
  ASSUME NEW d, IsDatabase(d), IsChain(d), TreeIsSound(d)
  PROVE  OnCurrentPath(d, Genesis)
  BY DEF IsDatabase, IsChain, TreeIsSound, OnCurrentPath, blockHeight, getPath

----------------------------------------------------------------------------
(* The inductive invariant. *)

\* The database createConsensusDB makes is a chain of one block.
LEMMA InitDatabase ==
  /\ IsDatabase(createConsensusDB)
  /\ TreeIsSound(createConsensusDB)
  /\ IsChain(createConsensusDB)
  /\ currentBlockID(createConsensusDB) = Genesis
  /\ createConsensusDB.blockMap = [b \in {Genesis} |-> blockRoot]
  <1>1. Genesis \in Blocks /\ GenesisTxn \in Transactions
    BY TreeAssumption, ContentAssumption DEF GenesisTxn
  <1>2. CoinOutputs[GenesisTxn] \subseteq Outputs /\ BlockStakeOutputs[GenesisTxn] \subseteq Outputs
    BY <1>1, ContentAssumption
  <1>3. blockRoot \in ProcessedBlock /\ blockRoot.height = 0 /\ blockRoot.diffsGenerated
    <2>1. blockRoot.diffs = [coins  |-> [add |-> CoinOutputs[GenesisTxn], del |-> {}],
                             stakes |-> [add |-> BlockStakeOutputs[GenesisTxn], del |-> {}],
                             dcos   |-> NoDiff, txids |-> NoDiff]
      BY ZenonT(30) DEF blockRoot, NoDiffs, NoDiff
    <2>2. blockRoot.diffs \in Diffs
      BY <1>2, <2>1 DEF Diffs, Diff, NoDiff
    <2> QED BY <2>2 DEF blockRoot, ProcessedBlock
  <1>4. NoEntry \in ChangeEntry /\ genesisEntry \in ChangeEntry
    BY <1>1 DEF NoEntry, genesisEntry, Entry, ChangeEntry
  <1>5. IsDatabase(createConsensusDB)
    <2> DEFINE d == createConsensusDB
    <2>1. /\ DOMAIN d = {"blockMap", "path", "coins", "stakes", "dcos", "buckets", "txids",
                         "log", "tail", "inconsistent"}
          /\ d.blockMap = [b \in {Genesis} |-> blockRoot]
          /\ d.path = <<Genesis>>
          /\ d.coins = CoinOutputs[GenesisTxn] /\ d.stakes = BlockStakeOutputs[GenesisTxn]
          /\ d.dcos = {} /\ d.buckets = {} /\ d.txids = {}
          /\ d.log = [e \in {genesisEntry} |-> NoEntry]
          /\ d.tail = genesisEntry /\ d.inconsistent = FALSE
      BY DEF createConsensusDB
    <2> HIDE DEF d
    <2>2. DOMAIN d.blockMap \subseteq Blocks /\ \A b \in DOMAIN d.blockMap : d.blockMap[b] \in ProcessedBlock
      BY <1>1, <1>3, <2>1
    <2>3. \A e \in DOMAIN d.log : e \in ChangeEntry /\ d.log[e] \in ChangeEntry
      BY <1>4, <2>1
    <2>4. d.path \in Seq(Blocks)
      BY <1>1, <2>1
    <2>5. IsDatabase(d)
      BY ZenonT(30), <1>2, <1>4, <2>1, <2>2, <2>3, <2>4 DEF IsDatabase
    <2> QED BY <2>5 DEF d
  <1>6. TreeIsSound(createConsensusDB)
    BY <1>3 DEF createConsensusDB, TreeIsSound
  <1>7. IsChain(createConsensusDB)
    BY SMTT(40), <1>3 DEF createConsensusDB, IsChain
  <1> QED BY <1>5, <1>6, <1>7 DEF createConsensusDB, currentBlockID

\* The invariant holds when the node is started for the first time.
LEMMA InitIndInv == Init => IndInv
  <1> SUFFICES ASSUME Init PROVE IndInv
    OBVIOUS
  <1>1. db = createConsensusDB /\ wtx = db /\ pc = "idle"
    BY DEF Init
  <1>2. NoDiffs \in Diffs
    BY DEF NoDiffs, NoDiff, Diffs, Diff
  <1>3. TypeOK
    <2>1. IsDatabase(db) /\ IsDatabase(wtx)
      BY <1>1, InitDatabase
    <2>2. newPath \in Seq(Blocks) /\ reverted \in Seq(Blocks) /\ pos \in 0..Len(newPath)
      BY DEF Init
    <2>3. txIdx \in Nat /\ now \in 0..MaxTime
      BY ClockAssumption DEF Init
    <2>4. dosBlocks \subseteq Blocks /\ sleeping \subseteq Blocks /\ severe \in BOOLEAN /\ diffs \in Diffs
      BY ZenonT(30), <1>2 DEF Init
    <2> QED BY <1>1, <2>1, <2>2, <2>3, <2>4 DEF TypeOK
  <1>4. NoHeavierBlock
    <2>1. DOMAIN db.blockMap = {Genesis} /\ currentBlockID(db) = Genesis
      BY <1>1, InitDatabase
    <2>2. db.blockMap[Genesis].depth \in Nat
      BY <1>3, <2>1 DEF TypeOK, IsDatabase, ProcessedBlock
    <2>3. Difficulty[Genesis] \in Nat
      BY TreeAssumption
    <2> QED BY <2>1, <2>2, <2>3 DEF NoHeavierBlock, heavierThan
  <1> QED BY <1>1, <1>3, <1>4, InitDatabase
          DEF Init, IndInv, PathIsChain, CallIsSound, PhaseIsSound

\* What the invariant says of the databases, in the form the steps use it.
LEMMA IndInvFacts ==
  ASSUME IndInv
  PROVE  /\ IsDatabase(db) /\ TreeIsSound(db) /\ IsChain(db)
         /\ IsDatabase(wtx) /\ TreeIsSound(wtx) /\ IsChain(wtx)
         /\ currentBlockID(db) \in DOMAIN db.blockMap
         /\ currentBlockID(wtx) \in DOMAIN wtx.blockMap
         /\ \A b \in DOMAIN db.blockMap : db.blockMap[b].depth \in Nat
         /\ \A b \in DOMAIN wtx.blockMap : wtx.blockMap[b].depth \in Nat
         /\ \A b \in Blocks : Difficulty[b] \in Nat \ {0}
  <1>1. ASSUME NEW d, IsDatabase(d), IsChain(d)
        PROVE  /\ currentBlockID(d) \in DOMAIN d.blockMap
               /\ \A b \in DOMAIN d.blockMap : d.blockMap[b].depth \in Nat
    <2>1. Len(d.path) \in 1..Len(d.path)
      BY <1>1 DEF IsDatabase, IsChain
    <2>2. currentBlockID(d) \in DOMAIN d.blockMap
      BY <1>1, <2>1 DEF IsChain, currentBlockID
    <2> QED BY <1>1, <2>2 DEF IsDatabase, ProcessedBlock
  <1> QED BY <1>1, TreeAssumption DEF IndInv, TypeOK, PathIsChain

\* A call ends, or the process dies, and what was not committed is gone.
LEMMA RollBack ==
  ASSUME IndInv, wtx' = db, db' = db, Return, severe' = severe, now' = now,
         sleeping' \subseteq Blocks, dosBlocks' \subseteq Blocks
  PROVE  IndInv'
  <1>1. NoDiffs \in Diffs
    BY DEF NoDiffs, NoDiff, Diffs, Diff
  <1>2. TypeOK'
    BY <1>1 DEF IndInv, TypeOK, Return
  <1> QED BY <1>2 DEF IndInv, PathIsChain, TreeIsSound, IsChain, NoHeavierBlock, heavierThan,
                      currentBlockID, CallIsSound, PhaseIsSound, Return

\* A new block enters the tree: it is stored and nothing else changes, or a
\* call is under way that knows it is heavier.
LEMMA AddBlock ==
  ASSUME IndInv, pc = "idle", NEW b \in Blocks \ {Genesis},
         validateHeaderAndBlock(b) = "ok", addBlockToTree(b),
         severe' = severe, dosBlocks' = dosBlocks, sleeping' \subseteq Blocks, now' = now
  PROVE  IndInv'
  <1> DEFINE d == newChild(db, b)
             tip == currentBlockID(db)
  <1>1. b \notin DOMAIN db.blockMap /\ Parent[b] \in DOMAIN db.blockMap
    BY DEF validateHeaderAndBlock
  <1>2. /\ IsDatabase(d) /\ d.path = db.path
        /\ DOMAIN d.blockMap = DOMAIN db.blockMap \cup {b}
        /\ \A x \in DOMAIN db.blockMap : d.blockMap[x] = db.blockMap[x]
        /\ d.blockMap[b].height = db.blockMap[Parent[b]].height + 1
        /\ d.blockMap[b].depth = db.blockMap[Parent[b]].depth + Difficulty[Parent[b]]
    BY ZenonT(30), <1>1, IndInvFacts, NewChildType
  <1> HIDE DEF d
  <1>3. TreeIsSound(d)
    BY SMTT(40), <1>1, <1>2, IndInvFacts DEF TreeIsSound
  <1>4. IsChain(d)
    BY SMTT(40), <1>2, IndInvFacts DEF IsChain
  <1>5. currentBlockID(d) = tip /\ tip \in DOMAIN db.blockMap /\ tip \in Blocks
    BY <1>2, IndInvFacts DEF currentBlockID, IsDatabase
  <1>6. wtx' = d
    BY DEF addBlockToTree, d
  <1>7. CASE heavierThan(d, b, tip)
    <2>1. /\ pc' = "backtrack" /\ newPath' = <<b>> /\ db' = db /\ pos' = pos /\ txIdx' = txIdx
          /\ diffs' = diffs /\ reverted' = reverted
      BY <1>5, <1>7 DEF addBlockToTree, d
    <2>2. TypeOK'
      BY <1>2, <1>6, <2>1 DEF IndInv, TypeOK, PhaseIsSound
    <2>3. NoHeavierBlock'
      BY <2>1 DEF IndInv, NoHeavierBlock, heavierThan, currentBlockID
    <2>4. CallIsSound'
      <3>1. /\ Len(newPath') = 1 /\ newPath'[1] = b /\ newBlock' = b
        BY <2>1 DEF newBlock
      <3>2. 5 * d.blockMap[b].depth > 5 * db.blockMap[tip].depth + Difficulty[tip]
        BY <1>2, <1>5, <1>7 DEF heavierThan
      <3> QED BY SMTT(40), <1>2, <1>6, <2>1, <3>1, <3>2 DEF CallIsSound, currentBlockID
    <2> QED BY ZenonT(30), <1>3, <1>4, <1>6, <2>1, <2>2, <2>3, <2>4
            DEF IndInv, PathIsChain, PhaseIsSound, TreeIsSound, IsChain
  <1>8. CASE ~heavierThan(d, b, tip)
    <2>1. db' = d /\ UNCHANGED call
      BY <1>5, <1>8 DEF addBlockToTree, d
    <2>2. TypeOK'
      BY <1>2, <1>6, <2>1 DEF IndInv, TypeOK, call
    <2>3. NoHeavierBlock'
      <3> SUFFICES ASSUME NEW x \in DOMAIN d.blockMap
                   PROVE  ~heavierThan(d, x, tip)
        BY <1>5, <2>1 DEF NoHeavierBlock
      <3>1. CASE x = b
        BY <1>8, <3>1
      <3>2. CASE x # b
        BY <1>2, <1>5, <3>2 DEF IndInv, NoHeavierBlock, heavierThan
      <3> QED BY <3>1, <3>2
    <2> QED BY <1>3, <1>4, <1>6, <2>1, <2>2, <2>3
            DEF IndInv, PathIsChain, CallIsSound, PhaseIsSound, call
  <1> QED BY <1>7, <1>8

\* A step of the call on the open transaction: stored blocks keep their place,
\* validated blocks their diffs, and the new path stays what it is.
LEMMA WorkInProgress ==
  ASSUME IndInv, pc # "idle", pc' # "idle", db' = db, newPath' = newPath,
         DOMAIN wtx'.blockMap = DOMAIN wtx.blockMap,
         \A x \in DOMAIN wtx.blockMap :
            /\ wtx'.blockMap[x].height = wtx.blockMap[x].height
            /\ wtx'.blockMap[x].depth = wtx.blockMap[x].depth
            /\ wtx.blockMap[x].diffsGenerated => wtx'.blockMap[x] = wtx.blockMap[x]
  PROVE  /\ TreeIsSound(db)' /\ TreeIsSound(wtx)'
         /\ IsChain(db)' /\ NoHeavierBlock' /\ CallIsSound'
  <1>1. TreeIsSound(wtx')
    BY IndInvFacts, SameTree
  <1>2. TreeIsSound(db)' /\ IsChain(db)' /\ NoHeavierBlock'
    BY DEF IndInv, PathIsChain, TreeIsSound, IsChain, NoHeavierBlock, heavierThan, currentBlockID
  <1>3. CallIsSound'
    <2>1. newBlock' = newBlock /\ currentBlockID(db)' = currentBlockID(db)
      BY DEF newBlock, currentBlockID
    <2>2. newBlock \in DOMAIN wtx.blockMap
      BY DEF IndInv, CallIsSound
    <2>3. \A b \in DOMAIN db.blockMap :
            /\ wtx'.blockMap[b].depth = db.blockMap[b].depth
            /\ db.blockMap[b].diffsGenerated => wtx'.blockMap[b] = db.blockMap[b]
      BY DEF IndInv, CallIsSound
    <2>4. 5 * wtx'.blockMap[newBlock].depth
            > 5 * db.blockMap[currentBlockID(db)].depth + Difficulty[currentBlockID(db)]
      BY <2>2 DEF IndInv, CallIsSound
    <2> QED BY <2>1, <2>3, <2>4 DEF IndInv, CallIsSound
  <1> QED BY <1>1, <1>2, <1>3

=============================================================================
