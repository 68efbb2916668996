--------------------------- MODULE ChainFollowers ---------------------------
(***************************************************************************)
(* What is derived from the chain outside the ledger: the buckets of the   *)
(* consensus plugins, inside the consensus database and in step with it,   *)
(* and the database of the explorer, a subscriber with a database of its   *)
(* own.  Composes module Subscription with                                 *)
(* modules/consensus/plugin.go (and the places in accept.go, diffs.go and  *)
(* fork.go that call plugins) and with modules/explorer.                   *)
(***************************************************************************)
EXTENDS Subscription, ExplorerDB

CONSTANTS
    Mint, Auth,      \* names under which the two plugins are registered
    Configurations,  \* sets of plugins that a chain may be configured with
    Explorer         \* the explorer among the subscribers

ASSUME FollowerAssumption ==
    /\ Configurations \subseteq SUBSET {Mint, Auth}
    /\ Explorer \in Strict

VARIABLES
    plugins,     \* cs.plugins: the plugins registered in this process
    pluginDB,    \* BucketPlugins: per plugin its metadata and its bucket
    explorerDB,  \* the database of the explorer
    replaced     \* history: the consensus database has been replaced

followerVars == <<plugins, pluginDB, explorerDB, replaced>>
allVars == <<vars, followerVars>>

Plugins == DOMAIN pluginDB

NoBucket == [recent |-> Beginning, bucket |-> EmptyBucket, version |-> FALSE]

----------------------------------------------------------------------------
(* modules.ConsensusSetPlugin, for the two plugins of the repository. *)

InitPlugin(x) == IF x = Mint THEN MintInitPlugin ELSE AuthInitPlugin

ApplyTransaction(x, bucket, t, h) ==
    IF x = Mint THEN MintApplyTransaction(bucket, t, h) ELSE AuthApplyTransaction(bucket, t, h)
RevertTransaction(x, bucket, t, h) ==
    IF x = Mint THEN MintRevertTransaction(bucket, t, h) ELSE AuthRevertTransaction(bucket, t, h)
ValidTransaction(x, bucket, t, h) ==
    IF x = Mint THEN MintValid(bucket, t, h) ELSE AuthValid(bucket, t, h)

\* The transactions for which a plugin writes to its bucket.
Writes(x, t) ==
    IF x = Mint THEN t \in DOMAIN MintDefinitions
    ELSE t \in DOMAIN AuthUpdates \cup DOMAIN AuthConditionUpdates

Height(b) == Len(PathTo[b]) - 1

ApplyBlock(x, bucket, b) ==
    FoldLeft(LAMBDA k, t : ApplyTransaction(x, k, t, Height(b)), bucket, Txns[b])
RevertBlock(x, bucket, b) ==
    FoldLeft(LAMBDA k, t : RevertTransaction(x, k, t, Height(b)), bucket, Txns[b])

\* generateAndApplyDiff: the transactions before the k-th have been applied to
\* the bucket when the k-th is validated.
ValidBlock(x, bucket, b) ==
    \A k \in DOMAIN Txns[b] :
       ValidTransaction(x,
         FoldLeft(LAMBDA d, t : ApplyTransaction(x, d, t, Height(b)), bucket, SubSeq(Txns[b], 1, k - 1)),
         Txns[b][k], Height(b))

\* DiffsGenerated: the block has been applied before, and is not validated again.
Generated(b) == \E i \in 1..Len(log) : \E k \in DOMAIN log[i].applied : log[i].applied[k] = b

\* forkBlockchain, as far as plugin x is concerned; the second component says
\* whether x accepted every new block of it.
forkForPlugin(x, bucket, e) ==
    LET down == FoldLeft(LAMBDA d, b : RevertBlock(x, d, b), bucket, e.reverted)
    IN  FoldLeft(LAMBDA r, b : <<ApplyBlock(x, r[1], b),
                                 r[2] /\ (Generated(b) \/ ValidBlock(x, r[1], b))>>,
                 <<down, TRUE>>, e.applied)

----------------------------------------------------------------------------
(* The consensus set with its plugins. *)

\* One database transaction for the path, the log, the buckets of the
\* registered plugins and, in addBlockToTree, the id each of them has seen.
acceptBlockWithPlugins(b) ==
    /\ acceptBlock(b)
    /\ LET e == log'[Len(log')]
           result == [x \in plugins |-> forkForPlugin(x, pluginDB[x].bucket, e)]
       IN  /\ \A x \in plugins : result[x][2]
           /\ pluginDB' = [x \in Plugins |->
                             IF x \in plugins
                             THEN [pluginDB[x] EXCEPT !.recent = e, !.bucket = result[x][1]]
                             ELSE pluginDB[x]]
    /\ UNCHANGED <<plugins, explorerDB, replaced>>

\* initConsensusSetPlugin: the bucket is created the first time.
initConsensusSetPlugin(x) ==
    IF pluginDB[x].version THEN pluginDB[x]
    ELSE [recent |-> Beginning, bucket |-> InitPlugin(x), version |-> TRUE]

\* The changes initPluginSync goes through.
Missed(id) ==
    IF id = Beginning THEN log ELSE SubSeq(log, Position(id) + 1, Len(log))

\* initPluginSync runs in a read-only transaction: a plugin that has to write
\* for a block it missed gets an error.
NeedsWrite(x, entries) ==
    \E i \in DOMAIN entries :
      \E b \in Listed(entries[i].reverted \o entries[i].applied) :
        \E t \in TxnSet(b) : Writes(x, t)

\* Mutant: the changes the plugin missed are taken as seen.
RegisterPluginUnsynced(x) ==
    /\ holder = Free
    /\ x \notin plugins
    /\ pluginDB' = [pluginDB EXCEPT ![x] =
                      [initConsensusSetPlugin(x) EXCEPT !.recent = log[Len(log)]]]
    /\ plugins' = plugins \cup {x}
    /\ UNCHANGED <<vars, explorerDB, replaced>>

\* RegisterPlugin, all of it under cs.mu ...
RegisterPlugin(x) ==
    /\ holder = Free
    /\ x \notin plugins
    /\ ~NeedsWrite(x, Missed(initConsensusSetPlugin(x).recent))
    /\ pluginDB' = [pluginDB EXCEPT ![x] =
                      [initConsensusSetPlugin(x) EXCEPT !.recent = log[Len(log)]]]
    /\ plugins' = plugins \cup {x}
    /\ UNCHANGED <<vars, explorerDB, replaced>>

\* ... and when the catch-up fails or is cancelled by the context: the bucket
\* has been created, its id is the old one, and the plugin is not registered.
RegisterPluginFails(x) ==
    /\ holder = Free
    /\ x \notin plugins
    /\ Missed(initConsensusSetPlugin(x).recent) # <<>>
    /\ pluginDB' = [pluginDB EXCEPT ![x] = initConsensusSetPlugin(x)]
    /\ UNCHANGED <<vars, plugins, explorerDB, replaced>>

UnregisterPlugin(x) ==
    /\ holder = Free
    /\ x \in plugins
    /\ plugins' = plugins \ {x}
    /\ UNCHANGED <<vars, pluginDB, explorerDB, replaced>>

----------------------------------------------------------------------------
(* The explorer among the subscribers. *)

\* The change that readlockUpdateSubscribers or initializeSubscribe is about to
\* hand to the explorer, if any.
ForExplorer ==
    \/ holder.op = "notify" /\ holder.todo # <<>> /\ Head(holder.todo) = Explorer
    \/ holder.op = "subscribe" /\ holder.entry # NoEntry /\ holder.who = Explorer

Updated == explorerUpdate(explorerDB, holder.entry, path)

updateSubscriber ==
    /\ readlockUpdateSubscribers \/ initializeSubscribe
    /\ ForExplorer => ~Updated.panic
    /\ explorerDB' = IF ForExplorer THEN Updated ELSE explorerDB
    /\ UNCHANGED <<plugins, pluginDB, replaced>>

\* build.Critical: the update is rolled back and the process ends.
explorerPanics ==
    /\ ForExplorer
    /\ Updated.panic
    /\ Restart
    /\ plugins' = {}
    /\ UNCHANGED <<chainVars, pluginDB, explorerDB, replaced>>

release ==
    /\ DemotedUnlock \/ subscribeDone
    /\ UNCHANGED followerVars

crashAll ==
    /\ crash
    /\ plugins' = {}
    /\ UNCHANGED <<pluginDB, explorerDB, replaced>>

\* The plugin buckets are part of the consensus database.
resetConsensusAll ==
    /\ resetConsensus
    /\ plugins' = {}
    /\ pluginDB' = [x \in Plugins |-> NoBucket]
    /\ replaced' = TRUE
    /\ UNCHANGED explorerDB

----------------------------------------------------------------------------

FollowInit ==
    /\ SubInit
    /\ plugins = {}
    /\ \E P \in Configurations : pluginDB = [x \in P |-> NoBucket]
    /\ explorerDB = EmptyDB
    /\ replaced = FALSE

followerStep == updateSubscriber \/ explorerPanics \/ release

FollowNext ==
    \/ \E b \in Blocks \ {Genesis} : storeBlock(b) /\ UNCHANGED followerVars
    \/ \E b \in Blocks \ {Genesis} : acceptBlockWithPlugins(b)
    \/ \E x \in Plugins : RegisterPlugin(x)
    \/ \E x \in Plugins : RegisterPluginFails(x)
    \/ \E x \in Plugins : UnregisterPlugin(x)
    \/ \E s \in Subscribers : ConsensusSetSubscribe(s) /\ UNCHANGED followerVars
    \/ \E s \in Subscribers : subscribeInvalid(s) /\ UNCHANGED followerVars
    \/ \E s \in Subscribers : resetAndRescan(s) /\ UNCHANGED followerVars
    \/ \E s \in Subscribers : Unsubscribe(s) /\ UNCHANGED followerVars
    \/ followerStep
    \/ cancelSubscribe /\ UNCHANGED followerVars
    \/ crashAll
    \/ resetConsensusAll

FollowSpec == FollowInit /\ [][FollowNext]_allVars

----------------------------------------------------------------------------
(* What the plugins and the explorer should hold, from the branch alone:   *)
(* for every block, on the branch that ends in it.                         *)

\* Positions of transactions on a branch, and the last of a set of them.
Positions(p) == UNION {{i} \X DOMAIN Txns[p[i]] : i \in 1..Len(p)}
TxnAt(p, ik) == Txns[p[ik[1]]][ik[2]]
Precedes(ik, jl) == ik[1] < jl[1] \/ (ik[1] = jl[1] /\ ik[2] < jl[2])
LastOf(S) == CHOOSE ik \in S : \A jl \in S : ~Precedes(ik, jl)

\* What holds after the transactions at the positions S of p.
MintConditionAfter(p, S) ==
    LET D == {ik \in S : TxnAt(p, ik) \in DOMAIN MintDefinitions}
    IN  IF D = {} THEN GenesisMintCondition ELSE MintDefinitions[TxnAt(p, LastOf(D))]
AuthConditionAfter(p, S) ==
    LET D == {ik \in S : TxnAt(p, ik) \in DOMAIN AuthConditionUpdates}
    IN  IF D = {} THEN GenesisAuthCondition ELSE AuthConditionUpdates[TxnAt(p, LastOf(D))]
AuthorizedAfter(p, S) ==
    {a \in Addresses :
       LET D == {ik \in S : /\ TxnAt(p, ik) \in DOMAIN AuthUpdates
                            /\ LET u == AuthUpdates[TxnAt(p, ik)] IN a \in Listed(u.auth \o u.deauth)}
       IN  D # {} /\ a \in Listed(AuthUpdates[TxnAt(p, LastOf(D))].auth)}

\* For every branch and height, what counting the transactions up to that
\* height gives.
Truth ==
    [b \in Blocks |->
       LET p == PathTo[b]
       IN  [h \in 0..Len(p) |->
              LET S == {ik \in Positions(p) : ik[1] - 1 <= h}
              IN  [mint |-> MintConditionAfter(p, S), auth |-> AuthConditionAfter(p, S),
                   authorized |-> AuthorizedAfter(p, S)]]]

\* The bucket of x answers every question about a height as the branch of b
\* demands.
AnswersFor(x, bucket, b) ==
    \A h \in DOMAIN Truth[b] :
      IF x = Mint THEN MintConditionAt(bucket, h) = Truth[b][h].mint
      ELSE /\ AuthConditionAt(bucket, h) = Truth[b][h].auth
           /\ {a \in Addresses : Authorized(bucket, a, h)} = Truth[b][h].authorized

\* The blocks whose transactions x should let through, judged by the
\* transactions before them on the block's own branch.
AllowedBy ==
    [x \in {Mint, Auth} |->
       {b \in Blocks :
          \A k \in DOMAIN Txns[b] :
            LET p == PathTo[b]
                S == {ik \in Positions(p) : Precedes(ik, <<Len(p), k>>)}
                t == Txns[b][k]
            IN  IF x = Mint
                THEN t \in DOMAIN MintFulfills => MintConditionAfter(p, S) \in MintFulfills[t]
                ELSE /\ t \in DOMAIN AuthFulfills => AuthConditionAfter(p, S) \in AuthFulfills[t]
                     /\ ExceptionCallback(t) \/ dedupAddresses(t) \subseteq AuthorizedAfter(p, S)}]

\* The facts of block p[i] on the branch p.
FactsOn(p) ==
    LET f[i \in 1..Len(p)] == IF i = 1 THEN GenesisFacts ELSE BlockFacts(f[i - 1], p[i], p)
    IN  f

\* Outputs a transaction spends or creates, and unlock hashes it names.
Touched(t) == CoinInputs[t] \cup CoinOutputs[t] \cup BlockStakeInputs[t] \cup BlockStakeOutputs[t]
Named(t) == {UnlockHash[o] : o \in Touched(t)} \cup Listed(CommonExtensionData(t))

\* The database of an explorer that was only ever given the branch of b.
Contents ==
    [b \in Blocks |->
       LET p == PathTo[b]
           txns == {<<TxnAt(p, ik), ik[1] - 1>> : ik \in Positions(p)}
           blocks == {<<p[i], i - 1>> : i \in 2..Len(p)}
       IN  [height |-> Len(p) - 1,
            blockIDs |-> blocks \cup {<<Genesis, 0>>},
            targets |-> {e[1] : e \in blocks},
            txIDs |-> blocks \cup txns,
            outputIDs |-> UNION {Touched(e[1]) \X {e[1]} : e \in txns}
                            \cup UNION {MinerPayouts[e[1]] \X {e[1]} : e \in blocks},
            outputs |-> UNION {CoinOutputs[e[1]] \cup BlockStakeOutputs[e[1]] : e \in txns}
                          \cup UNION {MinerPayouts[e[1]] : e \in blocks},
            hashes |-> UNION {Named(e[1]) \X {e[1]} : e \in txns}
                         \cup UNION {{<<UnlockHash[o], e[1]>> : o \in MinerPayouts[e[1]]} : e \in blocks},
            multisigs |-> UNION {UNION {Members[u] \X {u} \X {e[1]} : u \in Named(e[1])} : e \in txns},
            facts |-> [i \in {p[k] : k \in 1..Len(p)} |-> FactsOn(p)[Len(PathTo[i])]],
            panic |-> FALSE]]

----------------------------------------------------------------------------
(* Properties. *)

\* The bucket of a registered plugin describes the active path, at every
\* height, whatever was reverted and applied and however often the plugin was
\* registered before; the bucket of a plugin that is not registered describes
\* the path after the last change it has seen, so that it can go on from there.
PluginsFollowPath ==
    /\ \A x \in plugins :
         /\ pluginDB[x].recent = log[Len(log)]
         /\ AnswersFor(x, pluginDB[x].bucket, tip)
    /\ \A x \in Plugins \ plugins :
         pluginDB[x].version =>
           AnswersFor(x, pluginDB[x].bucket,
                      IF pluginDB[x].recent = Beginning THEN Genesis
                      ELSE Last(pluginDB[x].recent.applied))

\* When the path moves, every block that is applied for the first time is one
\* that each registered plugin allows, judged on the block's own branch: coins
\* are created by the minters of the moment and move between addresses that are
\* authorised at the moment, even in the middle of a reorganisation.
PluginsGuardPath ==
    [][path' # path /\ Len(log') > Len(log) =>
         \A b \in Listed(log'[Len(log')].applied) :
           ~Generated(b) => \A x \in plugins : b \in AllowedBy[x]]_allVars

\* After every change the explorer finds exactly the blocks, transactions and
\* outputs of its copy of the path, under every unlock hash all transactions
\* that name it, and for every member of a multisig wallet all of the wallet's
\* transactions.  Once it has caught up the facts of every block on the path
\* are those of its branch, although they are computed from whatever path the
\* consensus set has when the explorer gets to the block (unless the consensus
\* database is replaced while the explorer catches up: then facts that were
\* computed from another branch may be taken for good).
ExplorerFollowsPath ==
    saved[Explorer].copy # <<>> =>
      LET should == Contents[Last(saved[Explorer].copy)]
          exact == DOMAIN should \ {"hashes", "multisigs", "facts"}
      IN  /\ \A f \in exact : explorerDB[f] = should[f]
          /\ should.hashes \subseteq explorerDB.hashes
          /\ should.multisigs \subseteq explorerDB.multisigs
          /\ holder = Free /\ Subscribed(Explorer) /\ ~replaced =>
               explorerDB.facts = should.facts

=============================================================================
