-------------------------- MODULE AccountTransfer --------------------------
(***************************************************************************)
(* Moving accounts between shards under the CLPA scheme                    *)
(* (consensus_shard/pbft_all/accountTransfer_module.go,                    *)
(* pbftInside_moduleCLPA.go, pbftOutside_moduleCLPA.go,                    *)
(* supervisor/committee/committee_clpa.go).                                *)
(*                                                                         *)
(* The supervisor sends a map of the accounts that move.  The leader of    *)
(* each shard then proposes a partition instead of a block: it announces   *)
(* that it is ready, waits for the others, sends them the accounts that    *)
(* leave and their pending transactions, waits for what it gets, and has   *)
(* the shard commit the new map together with the accounts it received.    *)
(*                                                                         *)
(* All messages of the scheme go to node 0 of a shard, so a shard is its   *)
(* node 0, which leads (there is no view change), and a block is proposed  *)
(* and committed in one step: what arrives in between only adds to the     *)
(* pool, to seqIDMap or to ModifiedMap, which the commit of a block does   *)
(* not read.  TcpDial delays each message on its own: delivery is          *)
(* unordered.                                                              *)
(***************************************************************************)
EXTENDS Integers, Sequences, FiniteSets, SequencesExt, Filters

CONSTANTS
    ShardNum,
    Account,
    NumTx,          \* transactions of the data file, in its order
    Sender, Recipient, Value,
    Addr2Shard,     \* the shard that the hash of an account gives
    Init_Balance,
    BlockSize, InjectSpeed,
    MaxPartitions,  \* bound: partitions that the supervisor computes
    MaxEmpty        \* bound: empty blocks of a shard

Shard == 0 .. ShardNum - 1
Tx    == 1 .. NumTx

ASSUME TransferAssumption ==
    /\ ShardNum \in Nat \ {0}
    /\ NumTx \in Nat
    /\ Sender \in [Tx -> Account]
    /\ Recipient \in [Tx -> Account]
    /\ Value \in [Tx -> Nat]
    /\ Addr2Shard \in [Account -> Shard]
    /\ {Init_Balance, MaxPartitions, MaxEmpty} \subseteq Nat
    /\ {BlockSize, InjectSpeed} \subseteq Nat \ {0}

VARIABLES
    \* the supervisor
    nowDataNum, clpaCnt, curEpoch, modifiedMap,
    clpaGraph,  \* the vertices of the graph since the last partition
    \* messages on their way
    inject, partitionMsg, readyMsg, accountMsg, relay, info,
    \* the chain of each shard
    sequenceID, TxQueue, PartitionMap,
    balance,    \* the state trie; an account that is not in it has Init_Balance
    log,        \* the transactions on the chain, with what they did
    empties,    \* empty blocks so far
    dead,       \* the leader has panicked
    \* Data_supportCLPA of each shard, and seqIDMap
    phase,      \* where the propose handler is in a partition
    ModifiedMap, AccountTransferRound, PartitionOn, PartitionReady,
    ReadySeq, seqIDMap,
    AccountStateTx, CollectOver,
    atm,        \* the partition request that was proposed
    overtaken   \* history: a partition came to a shard that was not done with
                \* the one before

supervisorVars == <<nowDataNum, clpaCnt, curEpoch, modifiedMap, clpaGraph>>
netVars   == <<inject, partitionMsg, readyMsg, accountMsg, relay, info>>
chainVars == <<sequenceID, TxQueue, PartitionMap, balance, log, empties, dead>>
readyVars == <<PartitionReady, ReadySeq, seqIDMap>>
roundVars == <<phase, ModifiedMap, AccountTransferRound, PartitionOn,
               AccountStateTx, CollectOver, atm, overtaken>>
vars == <<supervisorVars, netVars, chainVars, readyVars, roundVars>>

Item   == [tx : Tx, relayed : BOOLEAN]
Entry  == [tx : Tx, relayed : BOOLEAN, debit : BOOLEAN, credit : BOOLEAN]
\* Where the accounts that move go.
Moves  == UNION {[A -> Shard] : A \in SUBSET Account}

\* The account that a pending transaction goes with.
Carrier(item) == IF item.relayed THEN Recipient[item.tx] ELSE Sender[item.tx]

\* A map with the entries of another added.
Updated(map, moves) ==
    [a \in DOMAIN map |-> IF a \in DOMAIN moves THEN moves[a] ELSE map[a]]

-----------------------------------------------------------------------------
(* The supervisor.                                                         *)

\* MsgSendingControl waits for the first report of the new epoch.
Waiting == curEpoch # clpaCnt

\* The last transaction of the next chunk.
ChunkEnd == IF nowDataNum + InjectSpeed < NumTx THEN nowDataNum + InjectSpeed ELSE NumTx

\* The transactions of the next chunk that go to shard s.
Chunk(s) ==
    LET next == [k \in 1 .. ChunkEnd - nowDataNum |-> nowDataNum + k]
    IN Kept(next, {k \in DOMAIN next : modifiedMap[Sender[next[k]]] = s})

\* txSending, a chunk at a time; a message without transactions does nothing.
txSending ==
    /\ ~Waiting /\ nowDataNum < NumTx
    /\ nowDataNum' = ChunkEnd
    /\ inject' = inject \cup
            {[to |-> s, txs |-> Chunk(s)] : s \in {d \in Shard : Chunk(d) # <<>>}}
    /\ UNCHANGED <<clpaCnt, curEpoch, modifiedMap, clpaGraph, partitionMsg, readyMsg,
                   accountMsg, relay, info, chainVars, readyVars, roundVars>>

\* The shards that some vertices are in under a map.
ShardsOf(map) == {map[a] : a \in clpaGraph}

\* Wrong variant of CLPA_Partition: shards are numbered from 1.
CLPA_PartitionFromOne == UNION {[A -> 1 .. ShardNum] : A \in SUBSET clpaGraph}

\* What CLPA_Partition may return.  It moves a vertex to the shard of a
\* neighbour, and never the last vertex out of a shard; which move it prefers
\* is its score, left open here.
CLPA_Partition ==
    {moves \in UNION {[A -> ShardsOf(modifiedMap)] : A \in SUBSET clpaGraph} :
        ShardsOf(Updated(modifiedMap, moves)) = ShardsOf(modifiedMap)}

\* MsgSendingControl when it is time for a partition: clpaMapSend, the map
\* that the supervisor routes by from now on, and clpaReset.
clpaMapSend ==
    /\ ~Waiting /\ nowDataNum > 0 /\ clpaCnt < MaxPartitions
    /\ \E moves \in CLPA_Partition :
         /\ partitionMsg' = partitionMsg \cup
                {[to |-> s, round |-> clpaCnt + 1, map |-> moves] : s \in Shard}
         /\ modifiedMap' = Updated(modifiedMap, moves)
    /\ clpaCnt' = clpaCnt + 1
    /\ clpaGraph' = {}
    /\ UNCHANGED <<nowDataNum, curEpoch, inject, readyMsg, accountMsg, relay, info,
                   chainVars, readyVars, roundVars>>

\* HandleBlockInfo: compare and swap, and the edges of what was executed.
HandleBlockInfo(m) ==
    /\ info' = info \ {m}
    /\ curEpoch' = IF curEpoch = m.epoch - 1 THEN m.epoch ELSE curEpoch
    /\ clpaGraph' = clpaGraph \cup m.vertices
    /\ UNCHANGED <<nowDataNum, clpaCnt, modifiedMap, inject, partitionMsg, readyMsg,
                   accountMsg, relay, chainVars, readyVars, roundVars>>

-----------------------------------------------------------------------------
(* Messages from outside a shard.                                          *)

handleInjectTx(m) ==
    /\ ~dead[m.to]
    /\ inject' = inject \ {m}
    /\ TxQueue' = [TxQueue EXCEPT ![m.to] = @ \o
            [k \in DOMAIN m.txs |-> [tx |-> m.txs[k], relayed |-> FALSE]]]
    /\ UNCHANGED <<supervisorVars, partitionMsg, readyMsg, accountMsg, relay, info,
                   sequenceID, PartitionMap, balance, log, empties, dead, readyVars,
                   roundVars>>

handleRelay(m) ==
    /\ ~dead[m.to]
    /\ relay' = relay \ {m}
    /\ TxQueue' = [TxQueue EXCEPT ![m.to] = @ \o m.txs]
    /\ seqIDMap' = [seqIDMap EXCEPT ![m.to][m.from] = m.seq]
    /\ UNCHANGED <<supervisorVars, inject, partitionMsg, readyMsg, accountMsg, info,
                   sequenceID, PartitionMap, balance, log, empties, dead,
                   PartitionReady, ReadySeq, roundVars>>

handlePartitionMsg(m) ==
    /\ ~dead[m.to]
    /\ partitionMsg' = partitionMsg \ {m}
    /\ ModifiedMap' = [ModifiedMap EXCEPT ![m.to] = Append(@, m.map)]
    /\ PartitionOn' = [PartitionOn EXCEPT ![m.to] = TRUE]
    /\ overtaken' = (overtaken \/ PartitionOn[m.to])
    /\ UNCHANGED <<supervisorVars, inject, readyMsg, accountMsg, relay, info,
                   chainVars, readyVars, phase, AccountTransferRound,
                   AccountStateTx, CollectOver, atm>>

handlePartitionReady(m) ==
    /\ ~dead[m.to]
    /\ readyMsg' = readyMsg \ {m}
    /\ PartitionReady' = [PartitionReady EXCEPT ![m.to] = @ \cup {m.from}]
    /\ ReadySeq' = [ReadySeq EXCEPT ![m.to][m.from] = m.seq]
    /\ UNCHANGED <<supervisorVars, inject, partitionMsg, accountMsg, relay, info,
                   chainVars, seqIDMap, roundVars>>

\* The messages collected with one more: one per shard.
Collected(s, m) == {x \in AccountStateTx[s] : x.from # m.from} \cup {m}

\* All other shards have sent theirs.
AllCollected(msgs) == Cardinality(msgs) = ShardNum - 1

handleAccountStateAndTxMsg(m) ==
    /\ ~dead[m.to]
    /\ accountMsg' = accountMsg \ {m}
    /\ AccountStateTx' = [AccountStateTx EXCEPT ![m.to] = Collected(m.to, m)]
    /\ CollectOver' = [CollectOver EXCEPT
                         ![m.to] = @ \/ AllCollected(Collected(m.to, m))]
    /\ UNCHANGED <<supervisorVars, inject, partitionMsg, readyMsg, relay, info,
                   chainVars, readyVars, phase, ModifiedMap, AccountTransferRound,
                   PartitionOn, atm, overtaken>>

-----------------------------------------------------------------------------
(* A block.                                                                *)

Here(s, a) == PartitionMap[s][a] = s

HasTransaction(s, t) == \E e \in log[s] : e.tx = t

\* PackTxs and filterFreshTransactions.
Packed(s) == SubSeq(TxQueue[s], 1, IF Len(TxQueue[s]) < BlockSize
                                   THEN Len(TxQueue[s]) ELSE BlockSize)
Fresh(s) ==
    LET items == Packed(s)
    IN Kept(items, {k \in DOMAIN items : /\ ~HasTransaction(s, items[k].tx)
                                         /\ \A j \in 1 .. k - 1 : items[j].tx # items[k].tx})

\* One transaction in GetUpdateStatusTrie, on the balances so far.
Execute(s, bal, item) ==
    LET pays  == ~item.relayed /\ Here(s, Sender[item.tx])
        debit == pays /\ bal[Sender[item.tx]] >= Value[item.tx]
    IN [tx |-> item.tx, relayed |-> item.relayed, debit |-> debit,
        credit |-> (pays => debit) /\ Here(s, Recipient[item.tx])]

After(bal, e) ==
    [a \in Account |-> bal[a]
        - (IF e.debit /\ a = Sender[e.tx] THEN Value[e.tx] ELSE 0)
        + (IF e.credit /\ a = Recipient[e.tx] THEN Value[e.tx] ELSE 0)]

\* GetUpdateStatusTrie: the balances and the executed transactions.
GetUpdateStatusTrie(s, items) ==
    LET Then(done, e) == [balance |-> After(done.balance, e), body |-> Append(done.body, e)]
        done[k \in 0 .. Len(items)] ==
            IF k = 0 THEN [balance |-> balance[s], body |-> <<>>]
            ELSE Then(done[k - 1], Execute(s, done[k - 1].balance, items[k]))
    IN done[Len(items)]

\* "incorrect tx" in HandleinCommit.
IncorrectTx(s, item) == ~Here(s, Carrier(item))

\* RelayMsgSend: a message for every other shard, with transactions or not.
RelayTo(s, items, d) ==
    LET out == Kept(items, {k \in DOMAIN items : PartitionMap[s][Recipient[items[k].tx]] = d})
    IN [k \in DOMAIN out |-> [tx |-> out[k].tx, relayed |-> TRUE]]
RelayMsgs(s, items) ==
    {[from |-> s, to |-> d, seq |-> sequenceID[s], txs |-> RelayTo(s, items, d)] :
        d \in Shard \ {s}}

\* The accounts of the transactions that are done: inside the shard, or the
\* second half of one across.
DoneAccounts(s, items) ==
    UNION {{Sender[items[k].tx], Recipient[items[k].tx]} :
             k \in {l \in DOMAIN items : Here(s, Recipient[items[l].tx])}}

\* PackTxs takes them out of the pool, and RemoveTxs what is left of them.
Unpacked(s, items) ==
    LET rest == SubSeq(TxQueue[s], Len(Packed(s)) + 1, Len(TxQueue[s]))
    IN Kept(rest, {k \in DOMAIN rest : \A j \in DOMAIN items : items[j].tx # rest[k].tx})

\* HandleinPropose without a partition to do, and the commit of the block:
\* GenerateBlock, AddBlock, HandleinCommit, and the end of handleCommit.
Block(s) ==
    /\ ~dead[s] /\ phase[s] = "idle" /\ ~PartitionOn[s]
    /\ LET items == Fresh(s)
           done  == GetUpdateStatusTrie(s, items)
       IN /\ TxQueue[s] # <<>> \/ empties[s] < MaxEmpty
          /\ empties' = [empties EXCEPT
                ![s] = IF TxQueue[s] = <<>> THEN @ + 1 ELSE @]
          /\ TxQueue' = [TxQueue EXCEPT ![s] = Unpacked(s, items)]
          /\ balance' = [balance EXCEPT ![s] = done.balance]
          /\ log' = [log EXCEPT ![s] = @ \cup ToSet(done.body)]
          /\ \/ /\ \E k \in DOMAIN items : IncorrectTx(s, items[k])
                /\ dead' = [dead EXCEPT ![s] = TRUE]
                /\ UNCHANGED <<relay, info, sequenceID>>
             \/ /\ \A k \in DOMAIN items : ~IncorrectTx(s, items[k])
                /\ relay' = relay \cup RelayMsgs(s, items)
                /\ info' = info \cup {[from |-> s, seq |-> sequenceID[s],
                                       epoch |-> AccountTransferRound[s],
                                       vertices |-> DoneAccounts(s, items)]}
                /\ sequenceID' = [sequenceID EXCEPT ![s] = @ + 1]
                /\ UNCHANGED dead
    /\ UNCHANGED <<supervisorVars, inject, partitionMsg, readyMsg, accountMsg,
                   PartitionMap, readyVars, roundVars>>

-----------------------------------------------------------------------------
(* A partition.                                                            *)

\* HandleinPropose: sendPartitionReady.
sendPartitionReady(s) ==
    /\ ~dead[s] /\ phase[s] = "idle" /\ PartitionOn[s]
    /\ PartitionReady' = [PartitionReady EXCEPT ![s] = @ \cup {s}]
    /\ readyMsg' = readyMsg \cup
            {[from |-> s, to |-> d, seq |-> sequenceID[s]] : d \in Shard \ {s}}
    /\ phase' = [phase EXCEPT ![s] = "ready"]
    /\ UNCHANGED <<supervisorVars, inject, partitionMsg, accountMsg, relay, info,
                   chainVars, ReadySeq, seqIDMap, ModifiedMap, AccountTransferRound,
                   PartitionOn, AccountStateTx, CollectOver, atm, overtaken>>

\* Everybody is ready, and of the shards that have relayed anything the last
\* relay is in.  (0 stands for a key that a map does not have.)
getPartitionReady(s) ==
    /\ PartitionReady[s] = Shard
    /\ \A d \in Shard : seqIDMap[s][d] # 0 => ReadySeq[s][d] - 1 = seqIDMap[s][d]

\* The moves of the latest partition message.
LastMap(s) == ModifiedMap[s][Len(ModifiedMap[s])]

\* The accounts that leave shard s for d.
Leaving(s, d) == {a \in DOMAIN LastMap(s) : LastMap(s)[a] = d /\ Here(s, a)}

\* Wrong variant of LeavesWith: a transaction leaves with either account.
LeavesWithEither(s, d, item) ==
    {Sender[item.tx], Recipient[item.tx]} \cap Leaving(s, d) # {}

\* The pending transactions of the accounts that leave for d.
LeavesWith(s, d, item) == Carrier(item) \in Leaving(s, d)

sendAccounts_and_Txs(s) ==
    /\ ~dead[s] /\ phase[s] = "ready" /\ getPartitionReady(s)
    /\ LET others  == Shard \ {s}
           With(d) == {k \in DOMAIN TxQueue[s] : LeavesWith(s, d, TxQueue[s][k])}
       IN /\ accountMsg' = accountMsg \cup
                {[from |-> s, to |-> d,
                  states |-> [a \in Leaving(s, d) |-> balance[s][a]],
                  txs    |-> Kept(TxQueue[s], With(d))] : d \in others}
          /\ TxQueue' = [TxQueue EXCEPT ![s] =
                Kept(@, DOMAIN @ \ UNION {With(d) : d \in others})]
    /\ phase' = [phase EXCEPT ![s] = "collect"]
    /\ UNCHANGED <<supervisorVars, inject, partitionMsg, readyMsg, relay, info,
                   sequenceID, PartitionMap, balance, log, empties, dead, readyVars,
                   ModifiedMap, AccountTransferRound, PartitionOn, AccountStateTx,
                   CollectOver, atm, overtaken>>

\* The moves of the round that is under way.
RoundMap(s) == ModifiedMap[s][AccountTransferRound[s] + 1]

\* The transactions that the other shards sent, shard after shard; the code
\* takes the shards in any order.
ReceivedNewTx(s) ==
    LET From(d) == {m \in AccountStateTx[s] : m.from = d}
        txs[k \in 0 .. ShardNum] ==
            IF k = 0 THEN <<>>
            ELSE IF From(k - 1) = {} THEN txs[k - 1]
            ELSE txs[k - 1] \o (CHOOSE m \in From(k - 1) : TRUE).txs
    IN txs[ShardNum]

\* "error tx": by the moves of the round the account is not for shard s.  An
\* account that does not move reads as 0.
ErrorTx(s, item) ==
    s # IF Carrier(item) \in DOMAIN RoundMap(s) THEN RoundMap(s)[Carrier(item)] ELSE 0

ReceivedNewAccountState(s) ==
    [a \in UNION {DOMAIN m.states : m \in AccountStateTx[s]} |->
        (CHOOSE m \in AccountStateTx[s] : a \in DOMAIN m.states).states[a]]

\* getCollectOver, then proposePartition.
proposePartition(s) ==
    /\ ~dead[s] /\ phase[s] = "collect" /\ CollectOver[s]
    /\ dead' = [dead EXCEPT
                 ![s] = \E item \in ToSet(ReceivedNewTx(s)) : ErrorTx(s, item)]
    /\ TxQueue' = [TxQueue EXCEPT ![s] = @ \o ReceivedNewTx(s)]
    /\ atm' = [atm EXCEPT ![s] =
            <<[map |-> RoundMap(s), states |-> ReceivedNewAccountState(s),
               id |-> Len(ModifiedMap[s])]>>]
    /\ phase' = [phase EXCEPT ![s] = "proposed"]
    /\ UNCHANGED <<supervisorVars, netVars, sequenceID, PartitionMap, balance, log,
                   empties, readyVars, ModifiedMap, AccountTransferRound,
                   PartitionOn, AccountStateTx, CollectOver, overtaken>>

\* Wrong variant of AddAccounts: accounts are added by the old map.
AddAccountsByOldMap(s, states, map) ==
    [a \in Account |-> IF a \in DOMAIN states /\ PartitionMap[s][a] = s
                       THEN states[a] ELSE balance[s][a]]

\* AddAccounts: the accounts that the map places here.
AddAccounts(s, states, map) ==
    [a \in Account |-> IF a \in DOMAIN states /\ map[a] = s
                       THEN states[a] ELSE balance[s][a]]

\* Wrong variant of NewMap: a shard records what comes and not what leaves.
NewMapArrivals(s, moves) ==
    [a \in Account |-> IF a \in DOMAIN moves /\ moves[a] = s THEN s
                       ELSE PartitionMap[s][a]]

\* Update_PartitionMap for every move.
NewMap(s, moves) == Updated(PartitionMap[s], moves)

\* The partition request is committed: accountTransfer_do.
accountTransfer_do(s) ==
    /\ ~dead[s] /\ phase[s] = "proposed"
    /\ LET r   == atm[s][1]
           map == NewMap(s, r.map)
       IN /\ PartitionMap' = [PartitionMap EXCEPT ![s] = map]
          /\ balance' = [balance EXCEPT ![s] = AddAccounts(s, r.states, map)]
          /\ ModifiedMap' = [ModifiedMap EXCEPT
                ![s] = IF Len(@) # r.id THEN Append(@, r.map) ELSE @]
          /\ AccountTransferRound' = [AccountTransferRound EXCEPT ![s] = r.id]
    /\ AccountStateTx' = [AccountStateTx EXCEPT ![s] = {}]
    /\ PartitionOn' = [PartitionOn EXCEPT ![s] = FALSE]
    /\ CollectOver' = [CollectOver EXCEPT ![s] = FALSE]
    /\ PartitionReady' = [PartitionReady EXCEPT ![s] = {}]
    /\ sequenceID' = [sequenceID EXCEPT ![s] = @ + 1]
    /\ phase' = [phase EXCEPT ![s] = "idle"]
    /\ atm' = [atm EXCEPT ![s] = <<>>]
    /\ UNCHANGED <<supervisorVars, netVars, TxQueue, log, empties, dead, ReadySeq,
                   seqIDMap, overtaken>>

-----------------------------------------------------------------------------

Init ==
    /\ nowDataNum = 0
    /\ clpaCnt = 0
    /\ curEpoch = 0
    /\ modifiedMap = Addr2Shard
    /\ clpaGraph = {}
    /\ inject = {} /\ partitionMsg = {} /\ readyMsg = {}
    /\ accountMsg = {} /\ relay = {} /\ info = {}
    /\ sequenceID = [s \in Shard |-> 1]
    /\ TxQueue = [s \in Shard |-> <<>>]
    /\ PartitionMap = [s \in Shard |-> Addr2Shard]
    /\ balance = [s \in Shard |-> [a \in Account |-> Init_Balance]]
    /\ log = [s \in Shard |-> {}]
    /\ empties = [s \in Shard |-> 0]
    /\ dead = [s \in Shard |-> FALSE]
    /\ phase = [s \in Shard |-> "idle"]
    /\ ModifiedMap = [s \in Shard |-> <<>>]
    /\ AccountTransferRound = [s \in Shard |-> 0]
    /\ PartitionOn = [s \in Shard |-> FALSE]
    /\ PartitionReady = [s \in Shard |-> {}]
    /\ ReadySeq = [s \in Shard |-> [d \in Shard |-> 0]]
    /\ seqIDMap = [s \in Shard |-> [d \in Shard |-> 0]]
    /\ AccountStateTx = [s \in Shard |-> {}]
    /\ CollectOver = [s \in Shard |-> FALSE]
    /\ atm = [s \in Shard |-> <<>>]
    /\ overtaken = FALSE

Deliver ==
    \/ \E m \in inject : handleInjectTx(m)
    \/ \E m \in relay : handleRelay(m)
    \/ \E m \in partitionMsg : handlePartitionMsg(m)
    \/ \E m \in readyMsg : handlePartitionReady(m)
    \/ \E m \in accountMsg : handleAccountStateAndTxMsg(m)

ShardStep(s) ==
    \/ Block(s)
    \/ sendPartitionReady(s)
    \/ sendAccounts_and_Txs(s)
    \/ proposePartition(s)
    \/ accountTransfer_do(s)

Next ==
    \/ txSending
    \/ clpaMapSend
    \/ \E m \in info : HandleBlockInfo(m)
    \/ Deliver
    \/ \E s \in Shard : ShardStep(s)

Spec == Init /\ [][Next]_vars

-----------------------------------------------------------------------------
(* Properties.                                                             *)

\* A map from some accounts to balances.
IsStates(f) == DOMAIN f \subseteq Account /\ \A a \in DOMAIN f : f[a] \in Int

IsAccountMsg(m) ==
    /\ m.from \in Shard /\ m.to \in Shard
    /\ IsStates(m.states) /\ m.txs \in Seq(Item)

SupervisorTypes ==
    /\ nowDataNum \in 0 .. NumTx
    /\ clpaCnt \in Nat /\ curEpoch \in Nat
    /\ modifiedMap \in [Account -> Shard]
    /\ clpaGraph \subseteq Account

NetTypes ==
    /\ \A m \in inject : m \in [to : Shard, txs : Seq(Tx)]
    /\ partitionMsg \subseteq [to : Shard, round : Nat, map : Moves]
    /\ readyMsg \subseteq [from : Shard, to : Shard, seq : Nat]
    /\ \A m \in accountMsg : IsAccountMsg(m)
    /\ \A m \in relay : m \in [from : Shard, to : Shard, seq : Nat, txs : Seq(Item)]
    /\ info \subseteq [from : Shard, seq : Nat, epoch : Nat, vertices : SUBSET Account]

ChainTypes ==
    /\ sequenceID \in [Shard -> Nat]
    /\ TxQueue \in [Shard -> Seq(Item)]
    /\ PartitionMap \in [Shard -> [Account -> Shard]]
    /\ balance \in [Shard -> [Account -> Int]]
    /\ log \in [Shard -> SUBSET Entry]
    /\ empties \in [Shard -> Nat]
    /\ dead \in [Shard -> BOOLEAN]

ReadyTypes ==
    /\ PartitionReady \in [Shard -> SUBSET Shard]
    /\ ReadySeq \in [Shard -> [Shard -> Nat]]
    /\ seqIDMap \in [Shard -> [Shard -> Nat]]

RoundTypes ==
    /\ phase \in [Shard -> {"idle", "ready", "collect", "proposed"}]
    /\ ModifiedMap \in [Shard -> Seq(Moves)]
    /\ AccountTransferRound \in [Shard -> Nat]
    /\ PartitionOn \in [Shard -> BOOLEAN]
    /\ DOMAIN AccountStateTx = Shard
    /\ \A s \in Shard : \A m \in AccountStateTx[s] : IsAccountMsg(m)
    /\ CollectOver \in [Shard -> BOOLEAN]
    /\ DOMAIN atm = Shard
    /\ \A s \in Shard : \A r \in ToSet(atm[s]) :
         r.map \in Moves /\ IsStates(r.states) /\ r.id \in Nat
    /\ overtaken \in BOOLEAN

TypeOK == SupervisorTypes /\ NetTypes /\ ChainTypes /\ ReadyTypes /\ RoundTypes

\* The supervisor starts a partition when ONE shard has reported the last one
\* as done.  A partition that overtakes the last one in another shard is
\* skipped there: accountTransfer_do takes both for done, and a third partition
\* then runs with different maps.  So the next properties hold until a shard is
\* overtaken, and with three partitions no longer than that.

\* Two shards are never both free to execute blocks on the same account: a
\* shard that takes an account over runs only after the shard that gives it
\* up has stopped, and that one goes on only with the new map
\* (sendPartitionReady to accountTransfer_do).
OneOwner ==
    ~overtaken =>
        \A s, d \in Shard : \A a \in Account :
            (/\ s # d
             /\ Here(s, a) /\ Here(d, a))
            => phase[s] # "idle" \/ phase[d] # "idle"

\* The shards whose map places an account with themselves, the latest round.
Owners(a) ==
    {s \in Shard : /\ Here(s, a)
                   /\ \A d \in Shard : Here(d, a) =>
                        AccountTransferRound[d] <= AccountTransferRound[s]}

\* What all chains together did to an account, transaction by transaction.
Expected(a) ==
    LET Paid(t) == \E s \in Shard : \E e \in log[s] : e.tx = t /\ e.debit
        Got(t)  == \E s \in Shard : \E e \in log[s] : e.tx = t /\ e.credit
        sum[t \in 0 .. NumTx] ==
            IF t = 0 THEN Init_Balance
            ELSE sum[t - 1] - (IF Sender[t] = a /\ Paid(t) THEN Value[t] ELSE 0)
                            + (IF Recipient[t] = a /\ Got(t) THEN Value[t] ELSE 0)
    IN sum[NumTx]

\* Wherever an account lives, its balance there is what every transaction that
\* any shard executed on it gives, counted once: no transfer loses or repeats
\* an update, although old shards keep stale copies and pending transactions
\* move along (FetchAccounts, AddAccounts, GetUpdateStatusTrie).
BalanceFollowsAccount ==
    ~overtaken =>
        \A a \in Account : \A s \in Owners(a) : balance[s][a] = Expected(a)

\* The transactions that a shard gets in a partition belong to accounts that
\* the map of its own round moves to it, although the sending shard goes by
\* its latest map and maps, readiness and accounts arrive in any order.  So the
\* panic "error tx" cannot happen, nor what that check misses in shard 0, where
\* an account that does not move looks like one that does
\* (sendAccounts_and_Txs, getPartitionReady, proposePartition).
TxsComeWithAccounts ==
    ~overtaken =>
        \A s \in Shard : phase[s] = "collect" =>
            \A m \in AccountStateTx[s] : \A item \in ToSet(m.txs) :
                Carrier(item) \in DOMAIN RoundMap(s) /\ RoundMap(s)[Carrier(item)] = s

\* Where the second half of a transaction waits for shard s.
Pending(s, t) ==
    \/ \E item \in ToSet(TxQueue[s]) : item.tx = t
    \/ \E m \in {x \in relay \cup accountMsg : x.to = s} \cup AccountStateTx[s] :
         \E item \in ToSet(m.txs) : item.tx = t

\* "(1) the source shard updates the state of the sender, (2) the destination
\* shard updates the state of the recipient" (docs, relay.md): what was
\* debited and is not yet credited waits for a shard that can execute it.
DebitedNotLost ==
    \A t \in Tx :
        (/\ \E s \in Shard : \E e \in log[s] : e.tx = t /\ e.debit
         /\ \A s \in Shard : ~\E e \in log[s] : e.tx = t /\ e.credit)
        => \E s \in Shard : ~HasTransaction(s, t) /\ Pending(s, t)

=============================================================================
