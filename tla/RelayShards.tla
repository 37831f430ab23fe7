---------------------------- MODULE RelayShards ----------------------------
(***************************************************************************)
(* The ledgers of all shards under the relay protocol, and the supervisor  *)
(* that feeds and stops them (chain/blockchain.go, core/txpool.go,         *)
(* consensus_shard/pbft_all/pbftInside_module.go, pbftOutside_module.go,   *)
(* supervisor/supervisor.go, supervisor/committee/committee_relay.go).     *)
(*                                                                         *)
(* The supervisor sends every transaction to all replicas of its sender's  *)
(* shard, with the placement of the accounts of its batch.  A leader packs *)
(* its pool into a block; the shard agrees on it (PbftConsensus is the     *)
(* model of how); every replica re-executes it before it stores it; the    *)
(* replica that finds itself leader then relays the transactions whose     *)
(* recipient lives elsewhere, and reports the block to the supervisor.     *)
(***************************************************************************)
EXTENDS Integers, Sequences, FiniteSets, SequencesExt, Filters

CONSTANTS
    ShardNum, Nodes_perShard,
    Account,
    NumTx,          \* transactions of the data file, in its order
    Sender, Recipient, Value,
    Addr2Shard,     \* the shard that the hash of an account gives
    Placed,         \* the shard that the supervisor places an account in
    UseSpring,      \* SpringMode # 0: accounts are placed
    Init_Balance,
    BlockSize, batchDataNum, InjectSpeed,
    stopThreshold,
    MaxEmpty,       \* bound: empty blocks of each shard
    MaxView         \* bound: view changes of the replicas of a shard

Shard == 0 .. ShardNum - 1
Node  == 0 .. Nodes_perShard - 1
Tx    == 1 .. NumTx

ASSUME RelayAssumption ==
    /\ ShardNum \in Nat \ {0}
    /\ Nodes_perShard \in Nat \ {0}
    /\ NumTx \in Nat
    /\ Sender \in [Tx -> Account]
    /\ Recipient \in [Tx -> Account]
    /\ Value \in [Tx -> Nat]
    /\ Addr2Shard \in [Account -> Shard]
    /\ Placed \in [Account -> Shard]
    /\ UseSpring \in BOOLEAN
    /\ Init_Balance \in Nat
    /\ {MaxEmpty, MaxView} \subseteq [Shard -> Nat]
    /\ {BlockSize, batchDataNum, InjectSpeed, stopThreshold} \subseteq Nat \ {0}

VARIABLES
    nowDataNum,     \* transactions that the supervisor has sent
    inject,         \* inject messages on their way to a replica
    relay,          \* relay messages on their way
    info,           \* block reports on their way to the supervisor
    stopGap, stopped,
    TxQueue,        \* the pool of a replica
    PartitionMap,   \* the accounts whose placement a replica knows
    proposal,       \* the blocks a replica has proposed and not committed
    chain,          \* the blocks a shard has agreed on
    height,         \* how many of them a replica has stored
    added,          \* a replica has stored a block and not yet classified it
    view,
    dead            \* a replica's process has panicked

supervisorVars == <<nowDataNum, stopGap, stopped>>
netVars  == <<inject, relay, info>>
poolVars == <<TxQueue, PartitionMap>>
nodeVars == <<height, added, view, dead>>
vars == <<supervisorVars, netVars, poolVars, proposal, chain, nodeVars>>

Item  == [tx : Tx, relayed : BOOLEAN]
\* A transaction in a block, with what executing it did.  The effects stand
\* for the state root.
Entry == [tx : Tx, relayed : BOOLEAN, debit : BOOLEAN, credit : BOOLEAN]
Block == [body : Seq(Entry), parent : Nat, proposer : Node]

\* A vote count that decides: 2f+1 of the replicas.
Quorum == 2 * ((Nodes_perShard - 1) \div 3) + 1

-----------------------------------------------------------------------------
(* Execution.                                                              *)

\* Get_PartitionMap
Get_PartitionMap(s, n, a) ==
    IF a \in PartitionMap[s][n] THEN Placed[a] ELSE Addr2Shard[a]

\* All transactions of the first h blocks of a shard.
Log(s, h) == FlattenSeq([i \in 1 .. h |-> chain[s][i].body])

\* Wrong variant of HasTransaction: the index is never written.
HasTransactionNever(s, h, t) == FALSE

\* HasTransaction, for a replica that has stored h blocks.
HasTransaction(s, h, t) ==
    \E i \in 1 .. h : \E k \in DOMAIN chain[s][i].body :
        chain[s][i].body[k].tx = t

\* Every account is created with Init_Balance when it is first touched.
Balance(log, a) ==
    FoldLeft(LAMBDA sum, e :
                sum + (IF e.credit /\ Recipient[e.tx] = a THEN Value[e.tx] ELSE 0)
                    - (IF e.debit /\ Sender[e.tx] = a THEN Value[e.tx] ELSE 0),
             Init_Balance, log)

\* Where a replica finds the accounts.
Places(s, n) == [a \in Account |-> Get_PartitionMap(s, n, a)]

\* Wrong variant of Execute: the recipient is paid wherever it lives.
ExecuteAnywhere(s, map, log, item) ==
    LET pays  == ~item.relayed /\ map[Sender[item.tx]] = s
        debit == pays /\ Balance(log, Sender[item.tx]) >= Value[item.tx]
    IN [tx |-> item.tx, relayed |-> item.relayed, debit |-> debit,
        credit |-> pays => debit]

\* One transaction in GetUpdateStatusTrie.  One that its sender cannot pay
\* stays in the block without effect.
Execute(s, map, log, item) ==
    LET pays  == ~item.relayed /\ map[Sender[item.tx]] = s
        debit == pays /\ Balance(log, Sender[item.tx]) >= Value[item.tx]
    IN [tx |-> item.tx, relayed |-> item.relayed, debit |-> debit,
        credit |-> /\ pays => debit
                   /\ map[Recipient[item.tx]] = s]

\* The transactions of a block one after the other, on top of a log.
ExecuteAll(s, map, before, items) ==
    LET done[k \in 0 .. Len(items)] ==
            IF k = 0 THEN <<>>
            ELSE Append(done[k - 1], Execute(s, map, before \o done[k - 1], items[k]))
    IN done[Len(items)]

GetUpdateStatusTrie(s, n, items) ==
    ExecuteAll(s, Places(s, n), Log(s, height[s][n]), items)

\* Wrong variant of Items: the re-execution forgets which ones are relays.
ItemsNoRelay(body) == [k \in DOMAIN body |-> [tx |-> body[k].tx,
                                              relayed |-> FALSE]]

\* The transactions of a block body.
Items(body) == [k \in DOMAIN body |-> [tx |-> body[k].tx,
                                       relayed |-> body[k].relayed]]

\* No item before the k-th has its transaction.
FirstOf(items, k) == \A j \in 1 .. k - 1 : items[j].tx # items[k].tx

\* Wrong variant of filterFreshTransactions: the index is not asked.
filterDuplicates(s, h, items) ==
    Kept(items, {k \in DOMAIN items : FirstOf(items, k)})

\* filterFreshTransactions
filterFreshTransactions(s, h, items) ==
    Kept(items, {k \in DOMAIN items :
                    ~HasTransaction(s, h, items[k].tx) /\ FirstOf(items, k)})

\* IsValidBlock: parent, no replay, and re-execution.
IsValidBlock(s, n, b) ==
    /\ b \in Block
    /\ b.parent = height[s][n]
    /\ \A k, l \in DOMAIN b.body : b.body[k].tx = b.body[l].tx => k = l
    /\ \A k \in DOMAIN b.body : ~HasTransaction(s, height[s][n], b.body[k].tx)
    /\ b.body = GetUpdateStatusTrie(s, n, Items(b.body))

\* RemoveTxs
RemoveTxs(queue, body) ==
    Kept(queue, {i \in DOMAIN queue : \A k \in DOMAIN body : body[k].tx # queue[i].tx})

-----------------------------------------------------------------------------
(* The supervisor.                                                         *)

\* The accounts of a transaction's batch.
BatchAccounts(t) ==
    LET batch == {u \in Tx : (u - 1) \div batchDataNum = (t - 1) \div batchDataNum}
    IN UNION {{Sender[u], Recipient[u]} : u \in batch}

\* The shard that a transaction is sent to.
SendersShard(t) == IF UseSpring THEN Placed[Sender[t]] ELSE Addr2Shard[Sender[t]]

\* The last transaction of the current batch.
BatchEnd ==
    LET end == ((nowDataNum \div batchDataNum) + 1) * batchDataNum
    IN IF end < NumTx THEN end ELSE NumTx

\* Wrong variant of ChunkEnd: the rest of a batch is taken for a full chunk.
ChunkEndFull == nowDataNum + InjectSpeed

\* The last transaction of the next chunk.
ChunkEnd ==
    IF nowDataNum + InjectSpeed < BatchEnd THEN nowDataNum + InjectSpeed ELSE BatchEnd

\* MsgSendingControl and txSending: the next chunk of the current batch goes
\* to every replica; the gap is reset after the batch.
txSending ==
    /\ nowDataNum < NumTx
    /\ inject' = inject \cup
            {[shard |-> s, node |-> n, first |-> nowDataNum + 1, last |-> ChunkEnd] :
                s \in Shard, n \in Node}
    /\ nowDataNum' = ChunkEnd
    /\ stopGap' = IF ChunkEnd = BatchEnd THEN 0 ELSE stopGap
    /\ UNCHANGED <<stopped, relay, info, poolVars, proposal, chain, nodeVars>>

\* handleBlockInfos, in whatever order the reports arrive.
handleBlockInfos(m) ==
    /\ ~stopped
    /\ info' = info \ {m}
    /\ stopGap' = IF m.length # 0 THEN 0
                  ELSE IF stopGap < stopThreshold THEN stopGap + 1 ELSE stopGap
    /\ UNCHANGED <<nowDataNum, stopped, inject, relay, poolVars, proposal, chain,
                   nodeVars>>

\* SupervisorTxHandling: all data sent, and GapEnough.
SendStop ==
    /\ ~stopped
    /\ nowDataNum = NumTx
    /\ stopGap >= stopThreshold
    /\ stopped' = TRUE
    /\ UNCHANGED <<nowDataNum, stopGap, netVars, poolVars, proposal, chain,
                   nodeVars>>

-----------------------------------------------------------------------------
(* Messages from outside a shard.                                          *)

\* The transactions of a chunk for a shard.
Chunk(first, last, s) ==
    LET items == [k \in 1 .. last - first + 1 |-> [tx |-> first + k - 1, relayed |-> FALSE]]
    IN Kept(items, {k \in DOMAIN items : SendersShard(items[k].tx) = s})

\* handleInjectTx: the placement first, then the pool.
handleInjectTx(m) ==
    /\ ~dead[m.shard][m.node]
    /\ inject' = inject \ {m}
    /\ PartitionMap' = [PartitionMap EXCEPT ![m.shard][m.node] =
                            @ \cup IF UseSpring THEN BatchAccounts(m.first) ELSE {}]
    /\ TxQueue' = [TxQueue EXCEPT ![m.shard][m.node] =
            @ \o Chunk(m.first, m.last, m.shard)]
    /\ UNCHANGED <<supervisorVars, relay, info, proposal, chain, nodeVars>>

\* handleRelay
handleRelay(m) ==
    /\ ~dead[m.to][m.node]
    /\ relay' = relay \ {m}
    /\ TxQueue' = [TxQueue EXCEPT ![m.to][m.node] = @ \o m.txs]
    /\ UNCHANGED <<supervisorVars, inject, info, PartitionMap, proposal, chain,
                   nodeVars>>

-----------------------------------------------------------------------------
(* Blocks.                                                                 *)

\* Empty blocks go on for ever; the model stops at MaxEmpty.
MayPropose(s, n) ==
    \/ TxQueue[s][n] # <<>>
    \/ Cardinality({i \in DOMAIN chain[s] : chain[s][i].body = <<>>}) < MaxEmpty[s]

\* PackTxs
PackTxs(queue) ==
    SubSeq(queue, 1, IF Len(queue) < BlockSize THEN Len(queue) ELSE BlockSize)

\* A leader with sequenceLock packs, filters, executes and proposes
\* (GenerateBlock).
Propose(s, n) ==
    /\ ~dead[s][n]
    /\ view[s][n] = n
    /\ proposal[s][n] = <<>>
    /\ ~added[s][n]
    /\ MayPropose(s, n)
    /\ LET packed == PackTxs(TxQueue[s][n])
           fresh  == filterFreshTransactions(s, height[s][n], packed)
       IN /\ proposal' = [proposal EXCEPT ![s][n] =
                <<[body     |-> GetUpdateStatusTrie(s, n, fresh),
                   parent   |-> height[s][n],
                   proposer |-> n]>>]
          /\ TxQueue' = [TxQueue EXCEPT ![s][n] =
                SubSeq(@, Len(packed) + 1, Len(@))]
    /\ UNCHANGED <<supervisorVars, netVars, PartitionMap, chain, nodeVars>>

\* The shard agrees on a proposal on top of its chain that a quorum finds
\* valid.
Agree(s, n) ==
    /\ proposal[s][n] # <<>>
    /\ LET b == proposal[s][n][1]
       IN /\ b.parent = Len(chain[s])
          /\ Cardinality({m \in Node : ~dead[s][m] /\ IsValidBlock(s, m, b)}) >= Quorum
          /\ chain' = [chain EXCEPT ![s] = Append(@, b)]
    /\ UNCHANGED <<supervisorVars, netVars, poolVars, proposal, nodeVars>>

\* AddBlock of the next block by replica n.
AddBlock(s, n) ==
    /\ ~dead[s][n] /\ ~added[s][n]
    /\ height[s][n] < Len(chain[s])
    /\ LET b == chain[s][height[s][n] + 1]
       IN /\ IsValidBlock(s, n, b)
          /\ TxQueue' = [TxQueue EXCEPT ![s][n] = RemoveTxs(@, b.body)]
    /\ height' = [height EXCEPT ![s][n] = @ + 1]
    /\ UNCHANGED <<supervisorVars, netVars, PartitionMap, proposal, chain, view,
                   dead>>

\* HandleinCommit stores the block; it classifies it afterwards.
Commit(s, n) ==
    /\ AddBlock(s, n)
    /\ added' = [added EXCEPT ![s][n] = TRUE]

\* HandleforSequentialRequest stores the block and does no more.  The leader
\* holds its own request, so it never asks for it while it leads.
Recover(s, n) ==
    /\ AddBlock(s, n)
    /\ \/ chain[s][height[s][n] + 1].proposer # n
       \/ view[s][n] # n
    /\ UNCHANGED added

\* The check before a transaction is relayed or counted.
IncorrectTx(s, n, e) ==
    IF e.relayed THEN Get_PartitionMap(s, n, Recipient[e.tx]) # s
                 ELSE Get_PartitionMap(s, n, Sender[e.tx]) # s

\* The transactions of a block that go to shard d, marked as relayed.
RelayPool(s, n, body, d) ==
    LET out == Kept(body, {k \in DOMAIN body :
                               Get_PartitionMap(s, n, Recipient[body[k].tx]) = d})
    IN [k \in DOMAIN out |-> [tx |-> out[k].tx, relayed |-> TRUE]]

\* Wrong variant of RelayMsgs: one replica of a shard gets the message.
RelayMsgsToOne(s, n, body) ==
    {m \in {[from |-> s, height |-> height[s][n], by |-> n, to |-> d, node |-> 0,
             txs |-> RelayPool(s, n, body, d)] : d \in Shard \ {s}} :
        m.txs # <<>>}

\* RelayMsgSend
RelayMsgs(s, n, body) ==
    {m \in {[from |-> s, height |-> height[s][n], by |-> n, to |-> d, node |-> r,
             txs |-> RelayPool(s, n, body, d)] : d \in Shard \ {s}, r \in Node} :
        m.txs # <<>>}

\* Wrong variant of Unlocked: the leader keeps sequenceLock.
StillLocked(s, n) == proposal

\* The leader gives sequenceLock back.
Unlocked(s, n) == [proposal EXCEPT ![s][n] = <<>>]

\* The rest of HandleinCommit, and the end of the round: only a replica that
\* is leader now relays, reports and unlocks.
Classify(s, n) ==
    /\ added[s][n] /\ ~dead[s][n]
    /\ LET body == chain[s][height[s][n]].body
       IN \/ /\ view[s][n] # n
             /\ UNCHANGED <<relay, info, proposal, dead>>
          \/ /\ view[s][n] = n
             /\ \E k \in DOMAIN body : IncorrectTx(s, n, body[k])
             /\ dead' = [dead EXCEPT ![s][n] = TRUE]
             /\ UNCHANGED <<relay, info, proposal>>
          \/ /\ view[s][n] = n
             /\ \A k \in DOMAIN body : ~IncorrectTx(s, n, body[k])
             /\ relay' = relay \cup RelayMsgs(s, n, body)
             /\ info' = info \cup {[shard |-> s, height |-> height[s][n], by |-> n,
                                    length |-> Len(body)]}
             /\ proposal' = Unlocked(s, n)
             /\ UNCHANGED dead
    /\ added' = [added EXCEPT ![s][n] = FALSE]
    /\ UNCHANGED <<supervisorVars, inject, poolVars, chain, height, view>>

\* handleNewViewMsg, when the replica has the votes.
NewView(s, n) ==
    /\ ~dead[s][n]
    /\ view[s][n] < MaxView[s]
    /\ view' = [view EXCEPT ![s][n] = @ + 1]
    /\ UNCHANGED <<supervisorVars, netVars, poolVars, proposal, chain, height,
                   added, dead>>

-----------------------------------------------------------------------------

Init ==
    /\ nowDataNum = 0
    /\ inject = {}
    /\ relay = {}
    /\ info = {}
    /\ stopGap = 0
    /\ stopped = FALSE
    /\ TxQueue = [s \in Shard |-> [n \in Node |-> <<>>]]
    /\ PartitionMap = [s \in Shard |-> [n \in Node |-> {}]]
    /\ proposal = [s \in Shard |-> [n \in Node |-> <<>>]]
    /\ chain = [s \in Shard |-> <<>>]
    /\ height = [s \in Shard |-> [n \in Node |-> 0]]
    /\ added = [s \in Shard |-> [n \in Node |-> FALSE]]
    /\ view = [s \in Shard |-> [n \in Node |-> 0]]
    /\ dead = [s \in Shard |-> [n \in Node |-> FALSE]]

ReplicaStep(s, n) ==
    \/ Propose(s, n)
    \/ Agree(s, n)
    \/ Commit(s, n)
    \/ Recover(s, n)
    \/ Classify(s, n)
    \/ NewView(s, n)

Deliver ==
    \/ \E m \in inject : handleInjectTx(m)
    \/ \E m \in relay : handleRelay(m)

Supervise ==
    \/ txSending
    \/ \E m \in info : handleBlockInfos(m)
    \/ SendStop

Next ==
    \/ \E s \in Shard, n \in Node : ReplicaStep(s, n)
    \/ Deliver
    \/ Supervise

Spec == Init /\ [][Next]_vars

\* The supervisor sends, messages arrive, the main nodes propose, and the
\* shards agree, store and classify.  Views need not change.
Fairness ==
    /\ WF_vars(txSending)
    /\ \A s \in Shard, n \in Node :
         /\ WF_vars(\E m \in inject : m.shard = s /\ m.node = n /\ handleInjectTx(m))
         /\ WF_vars(\E m \in relay : m.to = s /\ m.node = n /\ handleRelay(m))
         /\ WF_vars(Propose(s, n))
         /\ WF_vars(Agree(s, n))
         /\ WF_vars(Commit(s, n))
         /\ WF_vars(Classify(s, n))

FairSpec == Spec /\ Fairness

-----------------------------------------------------------------------------
(* Properties.                                                             *)

TypeOK ==
    /\ nowDataNum \in 0 .. NumTx
    /\ inject \subseteq [shard : Shard, node : Node, first : Tx, last : Tx]
    /\ relay \subseteq [from : Shard, height : Nat, by : Node, to : Shard,
                        node : Node, txs : Seq(Item)]
    /\ info \subseteq [shard : Shard, height : Nat, by : Node, length : Nat]
    /\ stopGap \in 0 .. stopThreshold
    /\ stopped \in BOOLEAN
    /\ TxQueue \in [Shard -> [Node -> Seq(Item)]]
    /\ PartitionMap \in [Shard -> [Node -> SUBSET Account]]
    /\ proposal \in [Shard -> [Node -> Seq(Block)]]
    /\ chain \in [Shard -> Seq(Block)]
    /\ height \in [Shard -> [Node -> Nat]]
    /\ added \in [Shard -> [Node -> BOOLEAN]]
    /\ view \in [Shard -> [Node -> Nat]]
    /\ dead \in [Shard -> [Node -> BOOLEAN]]

\* No transaction occurs twice in the chain of a shard, although every
\* replica has it in its pool, inject and relay messages come after the block
\* that holds their transactions, and two leaders may relay one block
\* (filterFreshTransactions, IsValidBlock, RemoveTxs).
NoReplay ==
    \A s \in Shard : \A i, j \in DOMAIN chain[s] :
        \A k \in DOMAIN chain[s][i].body, l \in DOMAIN chain[s][j].body :
            chain[s][i].body[k].tx = chain[s][j].body[l].tx => i = j /\ k = l

\* All transactions on the chain of a shard, with their effects.
Entries(s) == UNION {ToSet(chain[s][i].body) : i \in DOMAIN chain[s]}

\* Nobody has changed the view.
NoViewChange == \A s \in Shard, n \in Node : view[s][n] = 0

\* Over all shards a transaction is debited at most once, whatever happens,
\* and credited at most once: the source shard never pays the recipient of a
\* transaction that it relays, and a relay is executed once
\* (GetUpdateStatusTrie against HandleinCommit, which read PartitionMap at
\* different times).  With placed accounts the second holds only while the
\* views do not change: the next leader may classify a block before it has the
\* placement of its accounts, and relay to a shard where nobody else does.
PaidOnce ==
    \A t \in Tx :
        /\ Cardinality({s \in Shard : \E e \in Entries(s) : e.tx = t /\ e.debit}) <= 1
        /\ ~UseSpring \/ NoViewChange =>
             Cardinality({s \in Shard : \E e \in Entries(s) : e.tx = t /\ e.credit}) <= 1

\* A leader has proposed a block on top of its chain.
OnTop(s, n) == /\ proposal[s][n] # <<>>
               /\ proposal[s][n][1].parent = height[s][n]

\* With accounts placed by their hash, what a leader has proposed on top of
\* its chain stays valid for itself, so that its round can end (GenerateBlock,
\* IsValidBlock). With other placements it may not: an injection can change
\* the partition map between the proposal and its validation.
ProposalsStayValid ==
    \A s \in Shard, n \in Node :
        OnTop(s, n) => IsValidBlock(s, n, proposal[s][n][1])

\* Whatever the placement, late copies of committed transactions are filtered
\* out of a proposed block and not only rejected with it (GenerateBlock,
\* HandleinCommit).
ProposalsStayFresh ==
    \A s \in Shard, n \in Node : OnTop(s, n) =>
        \A k \in DOMAIN proposal[s][n][1].body :
            ~HasTransaction(s, height[s][n], proposal[s][n][1].body[k].tx)

\* A replica that has yet to classify block i of its shard may relay it, if it
\* leads by then.
ToBeRelayed(s, i) ==
    \E n \in Node : /\ ~dead[s][n]
                    /\ height[s][n] < i \/ (height[s][n] = i /\ added[s][n])

\* Replica n of shard s holds transaction t or is going to receive it.
Holds(s, n, t) ==
    \/ \E m \in relay : m.to = s /\ m.node = n /\ \E item \in ToSet(m.txs) : item.tx = t
    \/ \E item \in ToSet(TxQueue[s][n]) : item.tx = t
    \/ \E b \in ToSet(proposal[s][n]) : \E e \in ToSet(b.body) : e.tx = t

\* The shard where a transaction ends.
Destination(t) == IF UseSpring THEN Placed[Recipient[t]] ELSE Addr2Shard[Recipient[t]]

OnChain(t) == \E e \in Entries(Destination(t)) : e.tx = t

\* A transaction that left its source shard is not lost: until it is on the
\* chain of the other shard every replica there has it, or is about to get it
\* (HandleinCommit, RelayMsgSend, RemoveTxs).
RelayNotLost ==
    \A s \in Shard : \A i \in DOMAIN chain[s] : \A e \in ToSet(chain[s][i].body) :
        Destination(e.tx) # s =>
            \/ ToBeRelayed(s, i)
            \/ OnChain(e.tx)
            \/ \A n \in Node : Holds(Destination(e.tx), n, e.tx)

\* Every transaction of the data file gets to the chain of its recipient's
\* shard (MsgSendingControl to HandleinCommit).
TxsGetOnChain == \A t \in Tx : <>OnChain(t)

=============================================================================
