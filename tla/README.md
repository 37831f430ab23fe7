# A verification project for blockchain-loT

The repository is BlockEmulator, a sharded blockchain written in Go, extended
with SPRING: accounts are placed in shards by a policy that a Python program
(`spring_lite`) trains and serves. A supervisor reads transactions from a file
and injects them; the nodes of every shard agree on blocks with PBFT; shards
exchange the halves of transfers across; the supervisor counts reports and
stops the system.

This directory holds TLA+ models of that code, the TLC configurations that check
them on small instances, and TLAPS proofs. `PROJECT.json` lists the components,
runs, findings, hazards and theorems, and maps every definition that models code
to its source lines. Line numbers below are relative to the repository root;
`pbft_all/` stands for `consensus_shard/pbft_all/`.

    tlc -config MCPbftTwo.cfg MCPbft        # a run: configuration and module
    tlapm PbftConsensusProofs.tla           # a proof

## 1. The system

### Components, their state and their operations

| Component | State | Operations |
|---|---|---|
| PBFT of a shard (`pbft_all/messageHandle.go`, `view_change.go`) | view, sequenceID, pbftStage, requestPool, height2Digest, the vote maps, sequenceLock, askForLock, pbftLock and its condition variable, the chain | Propose, handlePrePrepare, handlePrepare, handleCommit, handleRequestOldSeq, handleSendOldSeq, viewChangePropose, handleViewChangeMsg, handleNewViewMsg |
| Node lifecycle (`pbft_all/pbft.go`, `build/build.go`) | stopSignal, stopCh, stoppedCh, tcpPoolLock, inflightHandlers, connections | accept, dispatch, track, beginStop, WaitToStop, the Propose loop |
| Ledger (`chain/blockchain.go`, `core/`) | state trie, stored blocks, transaction index, TxQueue, PartitionMap | GenerateBlock, filterFreshTransactions, GetUpdateStatusTrie, IsValidBlock, AddBlock, PackTxs, RemoveTxs, AddAccounts, FetchAccounts |
| Storage (`storage/storage.go`) | BoltDB buckets, LevelDB trie | AddBlock, HasTransaction, UpdateNewestBlock |
| Relay (`pbft_all/pbftInside_module.go`, `pbftOutside_module.go`) | relay pool | HandleinPropose/PrePrepare/Commit, HandleforSequentialRequest, handleRelay, handleInjectTx |
| Account transfer (`pbft_all/accountTransfer_module.go`, `*CLPA.go`, `committee_clpa.go`) | Data_supportCLPA, seqIDMap; the supervisor's epochs and graph | sendPartitionReady, getPartitionReady, sendAccounts_and_Txs, proposePartition, accountTransfer_do, clpaMapSend |
| CLPA algorithm (`partition/`) | graph, partition map, edge counts | AddEdge, ComputeEdges2Shard, changeShardRecompute, CLPA_Partition |
| Broker (`broker/`, `committee_broker.go`, `*Broker.go`) | broker set, maps of raw messages and confirmations | dealTxByBroker, handleBrokerRawMag, handleTx1ConfirmMag, handleTx2ConfirmMag, createConfirm |
| Supervisor (`supervisor/supervisor.go`, `signal/`) | listening state, StopSignal | handleBlockInfos, SupervisorTxHandling |
| SPRING placement (`committee_relay.go`, `spring_candidate.go`, `spring_call.go`, `spring_iot*.go`) | springAddrShard, springShardLoad, springStats | springPreparePlacement and its variants, candidate masks, calls of the policy server |
| SPRING feedback (`committee_relay.go`, `spring_train.go`, `spring_call.go`) | springEpochFeedback, springRewardedEpoch, springPendingTrainBatches, springTrainedBatchIDs | HandleBlockInfo, springBuildFeedbackRewardRecord, springEnqueueTrainActionsLocked, springPrunePendingTrainBatchesLocked, springBuildOnlineUpdateInputLocked |
| Policy server and online updates (`spring_lite/infer_server.py`, `update_online.py`, `infer_batch.py`) | cached agent, checkpoint file, files of pending samples | get_agent, infer_items, run_update, load_agent |
| Offline environment (`spring_lite/offline_env.py`, `action_mask.py`, `iot_v2.py`) | addr_shard, shard_load, pending_loads, recent_stats, the window of transactions | reset, run_batch, _place_address, build_candidate_action_mask, the loaders |
| Offline training and evaluation (`spring_lite/train_offline.py`, `continuous_rollout.py`, `ppo.py`, `select_pareto_checkpoint.py`, `eval_offline.py`) | agent, samples, validation records, checkpoint files and manifest | train, add_batch, before_decision, finish, select_candidate_decision, evaluate |
| Experiment scripts (`spring_lite/prepare_block_run.py`, `prepare_baseline_run.py`, `finalize_exp8_block_run.py`) | paramsConfig.json, run directories, spring_io | main of each, archive_spring_io, validate_analysis_integrity |
| Measure modules (`supervisor/measure/`) | counters per epoch | UpdateMeasureRecord, OutputRecord |
| Transport (`networks/`) | connection pool | TcpDial, Broadcast, ReadFromConn |

### How they interact

Every message goes through `networks.TcpDial` in a goroutine of its own: two
messages from one node to another may arrive in either order, and a failed dial
loses the message silently. A node dispatches the messages of all its
connections one at a time under tcpPoolLock; most start a goroutine. The PBFT
handlers run under pbftLock and call the inside module (propose, check, commit)
of the protocol in use; relays, injections and partitions come to the outside
module. The goroutines of a node share its pool, chain and PartitionMap.
The supervisor sends batches from its main goroutine and handles reports in
another; both meet in the committee module's locks and in StopSignal.

The supervisor asks a Python inference server, a child process, where to put the
new addresses of a batch. If it trains online it keeps the decisions until block
reports say what became of them, and then runs update_online.py, which changes
the checkpoint that the server has cached. Checkpoint, sample files, parameters
and records are plain files that all the programs share; offline training makes
the checkpoints, the experiment scripts prepare and archive runs around them.

### What is hard

- Handlers of different phases contend for one lock and park on one condition
  variable that stage changes do not always broadcast; sequenceLock is locked by
  one goroutine and unlocked by another; askForLock is waited for inside
  pbftLock.
- A lost message leaves a node behind, which recovers from the leader's request
  pool while its own votes keep coming in. View changes trigger on an exact
  count of votes and carry no requests.
- A stop message has to drain handlers that may wait for a lock whose holder
  leaves early, while it holds the dispatch lock.
- A transfer across takes two blocks of two shards. All replicas pool every
  transaction; only the proposer removes it when it packs; injections come after
  the block that holds them; two leaders may relay one block.
- Accounts and their pending transactions move while blocks, relays, maps and
  readiness are on their way, under maps that differ per shard.
- The supervisor decides that the work is done from counts of empty blocks.
- The state trie, the block store and the transaction index are written one
  after the other.
- An update truncates and rewrites the checkpoint, then removes its samples; the
  process may die in between, and a server may have the old agent in memory.
- Reports come in any order and a batch is matched with several of them; batches
  that are ready, expired or trained leave at different times.
- Decisions of a training epoch are trained in the middle of it, and credited
  for batches that come after an update; batches without decisions have rewards.
- Windows of two files must stay aligned over rows that do not parse, and
  the windows for training and validation must not overlap.
- One parameter file and one directory of records serve all runs; between
  preparing a run and archiving it the emulator may be restarted or killed and
  the parameters edited.

`PROJECT.json` "hazards" has the main ones at their lines, each with the properties
that would catch it going wrong, or a note why none does yet.

### What makes each part correct

PBFT: nodes agree per height, a chain holds only what 2f+1 nodes prepared, a
round ends with its lock free, a node that is behind catches up once at a time,
a view is left only by a quorum and then by all. Lifecycle: nothing touches a
closed database, the process ends after the close, and it does end. Ledger and
relay: no replay, no transaction paid twice, none lost. Account transfer: one
owner per account, balances and pending transactions follow the account.
Broker: both halves or a pending one. Placement: every account in one shard,
loads equal to a recount. Feedback: a decision is learnt from at most once.
Serving: a batch is decided by the newest model, a frozen model is not touched.
Training: every decision is trained once, by the version that took it, with
each batch credited once; a checkpoint is what was measured. Experiments: a
complete run holds its own records. Storage: a restart sees a prefix of the chain with its state.

## 2. The modules

| Module | Models | Instances | Proofs |
|---|---|---|---|
| `PbftConsensus` | the PBFT of one shard, handler by handler | `MCPbft` | `PbftConsensusProofs` |
| `NodeShutdown` | goroutines and locks of one node up to its end | (its own .cfg files) | `NodeShutdownProofs` |
| `RelayShards` | ledgers of all shards, relay protocol, supervisor | `MCRelay` | `RelayShardsProofs` |
| `AccountTransfer` | CLPA epochs, the exchange of accounts, blocks in between | `MCTransfer` | `AccountTransferProofs` |
| `Filters` | filtering of sequences, for the other modules | | `FilterProofs` |
| `OfflineEnv` | the placement environment, batch by batch | (through `MCTraining`) | `OfflineTrainingProofs` |
| `TxWindows` | reading of transaction windows; extends OfflineEnv | (through `MCTraining`) | `OfflineTrainingProofs` |
| `OfflineTraining` | training, selection of a checkpoint, evaluation; extends TxWindows | `MCTraining` | `OfflineTrainingProofs` |
| `PolicyServing` | checkpoint, sample files, inference server, update process | (through `MCExperiments`) | |
| `SampleLedger` | abstract: what online training promises about samples | | `SampleLedgerProofs` |
| `OnlineFeedback` | the supervisor's side of the policy; extends PolicyServing, implements SampleLedger | (through `MCExperiments`) | |
| `ExperimentRuns` | prepared, executed and archived runs; extends OnlineFeedback | `MCExperiments` | `ExperimentRunsProofs` |

The modules meet where the code does: RelayShards and AccountTransfer take
agreement as one step, whose inside is PbftConsensus; PbftConsensus takes
execution as "the block extends the head", whose inside is IsValidBlock of
RelayShards; NodeShutdown takes what a handler does as a choice, whose inside is
PbftConsensus. What a recovery that races a commit can do to one node's chain
(below) is in PbftConsensus only: RelayShards stores agreed blocks one after the
other. Each module names next to a definition the wrong variants that
its properties are tested against.

### PbftConsensus

The variables are the fields of PbftConsensusNode, one value per node, and the
goroutines that can be in the middle of something: propose handlers queued on
sequenceLock (`proposers`) or about to store stage 2 (`storing`), message
handlers parked on the condition variable (`waiting`) or woken and contending
(`woken`), the commit handler that blocks on askForLock inside pbftLock
(`askBlocked`) or adds its block (`committing`), the handler of an answer with
old blocks (`recovering`), and their calls of AddBlock (`adding`). The view that
a handler reads before it takes pbftLock stays with it (`curView`).

How fine the steps are follows from who shares what. handlePrePrepare,
handlePrepare and the parts of handleCommit that add no block run under pbftLock
from their start or wakeup to their end or wait, and are one step each. The
propose handler, without pbftLock, is three: check and queue, lock and
broadcast, store the stage. Catch-up and view-change messages are handled one
at a time by the goroutine that reads the connection, without pbftLock.
handleSendOldSeq adds blocks and writes sequenceID, isReply and the request maps
at the same time as handleCommit. These two are split at the statements that
write what the other one uses; the other synchronous handlers are one step each.

| Code | Steps |
|---|---|
| handleCommit | `CommitBlock` (vote, quorum, call of AddBlock), the call, `CommitEnds` (isReply, sequenceID += 1, stage, sequenceLock, Broadcast) |
| AddBlock | validation on the head that is read (in the step that calls it), `StoreBlock` (block and transactions on disk), `MoveHead` (CurrentBlock) |
| handleSendOldSeq | `SendOldArrives`, for each block `RecoverBlock` or `RejectBlock`, then `SendOldRejected`, or `FileRequests`, `SetSequence`, `SendOldInstalled` |

So two calls of AddBlock at one node may validate on the same head, store
each other's transactions first (IsValidBlock then finds a replay), or move the
head back to a block below the present one. `executed` is what
`Storage.HasTransaction` finds; a block without transactions (`Empty`) is never a
replay.

Coarser than the code remain: `CommitEnds`, although a recovery may write
sequenceID between its statements (only line 323 reads it there, and an
increment is taken as one instruction); the reads of sequenceID inside
handlePrePrepare and handlePrepare, between which a recovery may write; the three
stores of `EnterNewView` and the store and the reads of `viewChangePropose`, for
which the code takes no lock; and that Go may abort on an unsynchronised map. No
property rests on this: the properties until a view change end before the first
store of `EnterNewView` and say nothing of a recovering node's sequenceID, and
those of all views (PreparedIsReplicated, OneRecoveryAtATime,
ViewChangeJustified) follow from who stores, asks and votes, in any stage and at
any sequence.

`net` is the set of messages on their way. A failed dial is a message that stays
there for ever, so every safety property covers loss; for liveness, `Lost` says
which dials fail and `Down` which nodes never run. A node whose commit handler
unlocks a free mutex dies (`fatal`), as the Go runtime makes it.

Left out: digests do not collide and the nodes are not Byzantine, so digest and
membership checks always succeed. The model is of block requests; partition
requests are in AccountTransfer. When HandleinCommit fails the code returns
before it ends the round, and only a later vote tries again.

### NodeShutdown

Connections, handler slots and the main goroutine, each with a program counter;
`slot` is where a tracked handler is, with `seqWait` and `askWait` for the two
mutexes that another message releases. The stop message is the code's sequence:
close admission and the signal, wake waiters under pbftLock, wait for
inflightHandlers, close the databases, publish. `Leader` and `Recovers` say
whether the node proposes and whether it may be behind.

### RelayShards

Per replica: pool, known placements, open proposal, height, view; per shard: the
chain it agreed on. A block's body records for each transaction what executing it
did (debit, credit), so balances are a fold over the chain and two executions of
the same block can be compared, which is what IsValidBlock does. `Agree` is one
step that needs a proposal on top of the chain and a quorum of replicas that
find it valid. Storing (`Commit`) and classifying (`Classify`) are two
steps because PartitionMap may change in between; `Recover` is
HandleforSequentialRequest, which stores only. `NewView` moves a replica to the
next view. The supervisor sends batches in chunks with the placements of the
batch and stops after stopThreshold empty reports in a row.

Left out: seqIDMap, which the plain relay module writes and never reads, and the
empty relays that only carry its number; Merkle proofs, which accompany the same
transactions.

### AccountTransfer

A shard is its node 0: the partition, readiness, account and relay messages all
go there, and the module has no view change. A block is proposed and committed
in one step, because what arrives in between only adds to state that the commit
does not read. The partition is the code's four steps: announce readiness and
wait (`sendPartitionReady`, `getPartitionReady`), send accounts and pending
transactions, collect and propose, commit (`accountTransfer_do`). CLPA's choice
is left open: any moves among the shards in use that empty no shard, over the
accounts injected since the last partition. Maps that lack a key read 0, as in
Go. A leader that meets a transaction it does not own panics (`dead`).

### OfflineEnv, TxWindows

The variables are the fields of SpringOfflineEnv, the window and the summary of
the caller. `run_batch` is BeginBatch (anchors seeded by hash), one `Place` for
each address without a shard, and EndBatch (loads, backlog, metrics). `Place`
takes any output of a policy: it is what `_safe_policy_output` makes of it, with
the capacity guard and the top-k filter over exact scores (pressures and scores
are multiplied by their denominators). State vectors and rewards are data that
only a network looks at. `SumOver` counts units, because what a fold computes
cannot be proved here. `acted` and `carried` are history.

TxWindows reads a window in the three ways the code has: rows that parse
(`load_transactions`), both files in step (`load_iot_transactions`), and
physical rows that must agree (`load_rows`). An exception is `ok |-> FALSE`. The
loops are recursive functions over the rows, with the body as an operator
(`ReadRow`, `ReadBoth`), so that their invariants can be proved. A companion row
with a blank tx_index, which the code takes for the right one, is a row that
matches; whether it belongs to the transaction nothing checks.

Left out: `sender_pos_mode` 2, the communication cost of a placement, which
is a reward, and the statistics of `overall`.

### OfflineTraining

One behaviour is one command line (`Jobs`): train, then select, then evaluate.
An agent is the number of its updates; the metrics of a version are chosen
when it is first validated and remembered. Samples carry whether the decision
was sampled, the version that they improved (`by`, history), and the credits of batches with their
power of gamma, so that both ways of collecting (`add_batch` of the older buffer
and of ContinuousRollout) can be compared with what they should have collected.
`files` is what is in each checkpoint file, `records` the validation records
behind the manifest.

### PolicyServing, OnlineFeedback, SampleLedger

A checkpoint is state (absent, torn, whole), version, dimension, configuration
and time. An update is decided in one step (`run_update`: errors come before the
first write) and then writes step by step; at each step it may die
(`UpdateDies`). Truncation makes a file torn, because `torch.save` and `open`
write in place. The supervisor's variables are the fields of the relay committee;
placement and reports hold springLock and wait for the update they call, so
nothing else moves in the supervisor meanwhile. A batch's decisions are one
sample. Identity mode 2 is not a configuration of its own: that a placement without
an answer then panics (`committee_relay.go:1156`) is the same to the files as a
supervisor that stops.

A report of a shard counts once for an epoch until the epoch is cleaned up, as
the code's maps make it; a report about an epoch that was rewarded is ignored as
long as it is remembered. Reports carry any set of the batches placed so far.

SampleLedger says it without processes: samples wait, are handed over, are used
up, and may be lost at any time; only an update cut short after it saved its
model leaves samples that were used. `ImplementsLedger` is the refinement:
`buffered` are the samples in all files and in the running update, and an update
counts when its samples are removed or when it dies before that.

### ExperimentRuns

`params` is paramsConfig.json, `runs` the run directories with stage, snapshot,
archive and completion mark, `tool` the script at work. A preparation and a
finalization are two steps each, because the code writes the parameters (moves
the records) first and may fail after that. `executed` and `done` say which
parameters an execution had and whether it sent everything; an execution without
everything fails `validate_analysis_integrity`, whose count of rows is abstracted
to that.

Assumed about the user: one script at a time, parameters edited and tools used
by hand only while the emulator is down, records thrown away only if they are not of a
run. The process list works as on Windows; elsewhere it is empty and a script
does not notice a running emulator. The supervisor is not killed while an update
runs: the order "update dies, then supervisor" stands for both, an update that
outlives its supervisor is not modelled. Offline training does not write to a
path that is being served.

## 3. The runs

`pass` runs explore the whole state space of their instance. CHECK_DEADLOCK is
off everywhere: the bounds let every instance come to rest, while the program
itself keeps producing empty blocks. Whether something gets stuck too early is
what the liveness properties ask.

| Run | Instance | States | What it shows |
|---|---|---|---|
| `pbft_two_nodes` | 2 nodes, 4 loads | 447 K | TypeOK; StableSequenceLock: the lock is held exactly while a proposal is open, nobody unlocks it twice; StableAgreement; StableFiling: what is filed by sequence number is the block of that height; StableDurability: what is in a chain, recovered blocks included, was prepared by 2f+1 nodes; OneRecoveryAtATime |
| `pbft_fair` | 4 nodes, one down, fair | 47 K | FollowersCommit: no wakeup is lost; ViewChangeJustified and ViewChangeCompletes: 2f+1 timeouts, and no fewer, move everybody; PreparedIsReplicated: commits are broadcast only for what 2f+1 nodes store |
| `pbft_fork` | 4 nodes, one schedule | - | violation of SameBlockchain after a view change |
| `shutdown` | 2 connections, 2 handlers | 573 K | NoUseAfterClose, ReturnsAfterClose, OnlyLocksDelayStop |
| `shutdown_leader` | the same, not behind | - | violation of ShutdownCompletes |
| `transfer_safe` | 2 shards, 3 accounts, 4 transfers, 2 partitions | 823 K | TypeOK, OneOwner, BalanceFollowsAccount, TxsComeWithAccounts |
| `transfer_lost` | the same, 3 transfers, 1 partition | - | violation of DebitedNotLost |
| `relay_views` | 2 shards of 2 replicas, placed accounts, two transfers, or one and a view change | 558 K | NoReplay, PaidOnce, ProposalsStayFresh: a leader never proposes what is already on its chain |
| `relay_liveness` | a transfer across, fair, an empty block | 44 K | TypeOK; RelayNotLost while views do not change; ProposalsStayValid: a leader never proposes what it would itself reject; TxsGetOnChain |
| `relay_lost` | a transfer across, a view change | - | violation of RelayNotLost |
| `training` | 2 shards, 4 addresses, 9 command lines, 2 epochs | 20 K | TypeOK; PlacementAccounting, NeverMoves and StageConserved of the environment; EverySampleOnce, OnPolicy, BatchClock and NoStrandedReward of the samples; WindowAligned; CheckpointsTrue; SelectionSound |
| `experiments` | 2 shards, 2 batches, 2 executions, 1 run directory, 2 configurations | 834 K | TypeOK; ImplementsLedger: a decision is learnt from at most once; ServesNewest; FrozenModelKept; CompleteIsTrue |

### Bounds, and why they are enough

- Two nodes have f = 0 and a quorum of one, so `pbft_two_nodes` reaches deep
  interleavings of a leader and a follower. Its four loads: `Race`, a recovery
  and the node's own commit of the same block at the same time; `Lagging`, three
  blocks for a node without pre-prepares, where a second commit handler
  blocks on askForLock; `LostHead`, a recovery of two blocks during which the
  pre-prepare and the commit of the first arrive; `NewView`, one block with
  recovery and view changes together. They are a CONSTRAINT (`TwoNodeLoad`); the
  product of the loads is out of reach. `Empty` holds block 2, so that both
  outcomes of the replay check occur. StableDurability is checked there because
  it is about recovery: the leader's pool then holds proposals that nobody has
  committed. Its quorum is one node; the theorem has all sizes.
- Quorums need four nodes: `pbft_fair`, with one block, where no node falls
  behind. The theorems cover all sizes for what holds until a view change.
- MaxParked is 0 where parking is not the question: a handler then waits in
  `net` until its stage comes, which is the same to the consensus state. It is 4
  in `pbft_fair`, where the question is whether parked handlers are woken.
- Two connections and two handlers are the least in which one is stopped while
  the other holds a lock; the theorems cover any number.
- A transfer across has two halves in two shards, and two replicas per shard give
  a leader and a successor. Blocks of two transactions and a data file of one or
  two let one block hold both halves and one be late. MaxEmpty and MaxView bound
  empty blocks and view changes per shard.
- The data file of `transfer_safe` goes inside one shard, twice across and inside
  again, so that either account of a pending half can move. Its constraint `Load`
  keeps at most one report and two injections on their way and begins the second
  partition when the relays are in; `transfer_lost` needs no constraint.
- `pbft_fork` follows one schedule (ForkSchedule); a counterexample needs no more.
- The jobs of `training` are chosen for the branches of the code: both mechanisms,
  the three identities, a row that does not parse, a companion row that does not
  match, windows that overlap or are open, kept and reset placement, with and
  without backlog, guard and top-k. Blocks of one and batches of one or two make a
  backlog; updates after two decisions or two batches fall inside epochs, at
  their end and after the last; one batch brings no new address. The five
  results of a validation are one within the guardrails, one with a small
  deficit, one over the hotspot cap, one worse and one far off.
- In `experiments` epochs 1 and 3 are apart by the window, so that a batch is
  matched once, twice, late, or expires; KeepEpochs 1 makes epoch 1 forgotten. A
  threshold of two samples makes an update wait for a second batch, or flush.
  Two executions are the least for a restart in which old samples, records or an old
  model could come back. The constraint `Bounded` keeps reports of epoch 3 to a
  first execution that trains, and the user's own updates to a few; HandDim 2 fits
  the trained configuration, LegacyDim 1 none, and v3 has dimension 3.

### Fairness

- `pbft_fair`: weak fairness of each node that runs: the Go scheduler runs a
  goroutine that can run, the proposer's ticker ticks, a dial that succeeds
  delivers. A node that always has a step takes one; which handler is not
  promised. The view-change timer is not relied upon. The load is a block or
  timeouts, not both.
- `shutdown`, `shutdown_leader`: weak fairness of each handler, of each connection
  that has read a message and of the main goroutine; messages, ticks and timers
  need not come.
- `relay_liveness`: weak fairness of sending, of delivery to each replica, and of
  propose, agree, store and classify. It presupposes that dials succeed (the code
  does not retry), that agreement ends, which `pbft_fair` is about, and that the
  nodes go on after the supervisor has sent its stop messages; what a node does
  with one is NodeShutdown.

## 4. What is proved

Every proof is checked to the last leaf. The constants' assumptions are
`ConstantsAssumption`, `ShutdownAssumption`, `RelayAssumption` and
`TransferAssumption`: sizes are
naturals, at least one node and shard, functions of the data file have their
types. Nothing is assumed about the number of nodes that are down, the messages
that are lost or the bounds. For the Python side they are `EnvAssumption` (sizes are
naturals, finitely many addresses, a guard factor of at least 1),
`TrainingAssumption` (jobs, metrics and guardrails have their types; None is no
number, path or record), `ServingAssumption`, `FeedbackAssumption` and `RunAssumption` (types; None is none
of the samples, runs, configurations or archives).

- `TypeCorrect` (PbftConsensusProofs): Spec => []TypeOK of PbftConsensus.
  TypeOK is inductive. The work is in messages: which fields a message of a type
  has, and that an answer to a recovery is a sequence of digests.
- `AgreementUntilViewChange`, `FiledByHeight`, `SequenceLockUntilCommit`
  (PbftConsensusProofs): StableAgreement, StableFiling and StableSequenceLock
  for any number of nodes and any loss. None is inductive: that two chains agree
  says nothing about the message that will extend one of them. The
  strengthening `StableInv` says that, as long as nobody has entered a new view,
  digests are heights everywhere: the blocks minted form one line
  (StableBlocks); the leader is node 0, stores all it minted, holds its lock
  from a proposal to the end of its commit (StableLeader), never recovers, and has
  sequenceID one more than its height between commits (LeaderCommits); each chain
  is 1, 2, ... and each call of AddBlock will leave it so, whatever moves
  the head meanwhile (StableChains); pools, messages and handlers pair
  a sequence only with the digest of that height (StablePools, StableNet,
  StableHandlers), and an answer to a recovery is a contiguous piece of that line
  (StableNet, StableRecoveries). Nothing is said of a follower's sequenceID, about
  which nothing holds (Findings). One lemma per action; the interesting ones are
  Propose (the lock makes the leader propose on its last block), CommitBlock and
  RecoverBlock (a valid block is the one after the head that was read) and
  MoveHead.
- `PreparedRequestsAreReplicated` (PbftConsensusProofs): PreparedIsReplicated, in
  every view. The strengthening `VotesBacked`: every vote on the network, in a
  handler or counted comes from a node that stores the request (Prepare) or has
  broadcast its commit (Commit); neither is ever taken back.
- `RecoversOneAtATime` (PbftConsensusProofs): OneRecoveryAtATime. `AskedOnce` says
  it without a cardinality; the cases are the steps that ask, answer, begin and
  end a recovery, and resume a handler blocked on askForLock.
- `ChainsAreDurable` (PbftConsensusProofs): StableDurability. A recovered block was
  not voted for by the node that recovers it, so the invariant `DurableInv` follows
  the claim "agreed up to this height" from the commits that 2f+1 nodes broadcast
  through the handlers that block, the requests, the answers that are being
  handled and the calls of AddBlock. It rests on StableInv and VotesBacked.
- `ViewsAreLeftByQuorums` (PbftConsensusProofs): ViewChangeJustified, from
  `LeaveInv`: who announces or enters a view has seen 2f+1 requests for one view
  at one sequence, and requests that were counted stay counted.
- `ClosedIsUnused`, `EndsAfterClose` (NodeShutdownProofs): NoUseAfterClose and
  ReturnsAfterClose for any number of connections and handlers. The invariant
  adds DispatchInv (at most one connection dispatches, and once the signal is
  closed only the one that stops the node) and DrainInv (from the drain on
  there are no handlers, and no admission brings one back).
- `NoShardReplays` (RelayShardsProofs): NoReplay for any shards, replicas, data
  file and placement. A quorum is at least one replica, that replica found the
  block valid, validity says that no transaction of the body is on the chain or
  twice in the body, and a chain grows only by Agree.
- `RelayIsTyped` (RelayShardsProofs): TypeOK, with `Heights` (no replica has stored
  more than its shard agreed on, a supervisor's chunk ends within the data).
- `FilteredProposals` (RelayShardsProofs): ProposalsStayFresh, from `Proposed`:
  a proposal has none of the transactions of the chain below it, each once, and
  is its proposer's. It is about the parent's height, not the replica's, because
  the replica may store and recover other blocks meanwhile.
- `TransactionsArePaidOnce` (RelayShardsProofs): PaidOnce. `Belongs` says of
  everything that carries a transaction (chunks, pools, relays, proposals, chains)
  that it is where it belongs: a first half only in the sender's shard, a second
  half or a credit only in the recipient's. A replica that has a first half
  has the recipient's placement (`Knows`), because the injection brings both and
  no placement is taken back; hence the first leader relays to the right shard.
  For a later leader that is false, see the findings below, so the credit part
  is stated for accounts placed by hash or views that have not changed.
- `OwnProposalsAreValid` (RelayShardsProofs): ProposalsStayValid with accounts
  placed by hash. `ExecutedProposals`: a body is what executing its own items on
  the parent gives, and no step changes the chain below a parent (LogStays). The
  items are read back from the body, as validation does (ItemsBack).
- `RelaysAreNotLost` (RelayShardsProofs): RelayNotLost with accounts placed by hash
  and MaxView 0, which is what the run checks; with a view change it is false
  (`relay_lost`). `InRound` is the leader's round (idle, open, agreed, stored),
  `FirstLeads` that replica 0 leads and nobody panics, `RelayedArrive` that what
  a block relayed is held by every replica of the last shard, or on its way
  there, until it is on the chain.
- FilterProofs: `UpTo` is induction as a statement about sets of numbers, which
  needs no operator parameter; `Recursion` derives from it that a recursive function on
  0 .. n is what its equation says, and KeptIs, KeptItems and KeptInOrder what
  `Kept` returns. That is why the modules with proofs filter with `Kept`: of
  SelectSeq the provers know nothing.
- `TransferIsTyped` (AccountTransferProofs): TypeOK, with `Rounds` (a shard in a
  partition has a map for it).
- `AccountsHaveOneOwner`, `TransactionsComeWithAccounts` (AccountTransferProofs):
  OneOwner and TxsComeWithAccounts for any number of shards, accounts and
  partitions, until a partition overtakes another (below). Both say what is true
  at the end of an exchange; what keeps it so is spread over all shards. `InStep`:
  everybody is ready before anybody sends and everybody has sent before anybody
  is done (Barrier), what a shard knows or will hear about readiness is about its
  own round (KnownReady), what it has got or will get comes once from every
  shard and for its round (Exchange), a shard has one map more than rounds while a
  partition is on (Clock), all shards have the same maps (SameMaps), what the
  supervisor was told is true (Reported), and shards in one round have one
  partition map while one that is ahead has just applied the moves (SameOwners).
- `HalvesAreExecutedOnce` (AccountTransferProofs): `Once`, without a condition on
  partitions. Pools and messages hold the two halves of transactions. `Places` names
  where a half is (a pool, an injection, a relay, a message with accounts, what a
  shard has got and not yet put into its pool); OnePlace: it is in one place at a
  time; OnceOnly: in none once it is executed, and a second half only after the first,
  if that did not credit the recipient itself. A half that is dropped is in no place,
  which is how `transfer_lost` does not contradict it.
- `BalancesFollowAccounts` (AccountTransferProofs): BalanceFollowsAccount, until a
  partition overtakes another. `Expected(a)` adds up, by a recursive function, what
  the executed halves do to account a; SumsAreUnique and its neighbours show that a
  block changes the sum by exactly what GetUpdateStatusTrie does to the balance,
  and they need `Once`, for a half executed twice would count once. `Copies` is
  the invariant: a shard has the expected balance of an account from the round in
  which it gets it until its new shard is done with it (Balances), what is on its
  way is what the shard gives up, with the expected balances (Sent), and a proposed
  partition has all accounts that come (Proposed). While an account is on its way
  nobody executes on it, because the shards that could are in the exchange
  (InStep), so the copy stays right.

- `EnvTypes`, `PlacementsAccounted`, `StagesConserved`, `AddressesStay`
  (OfflineTrainingProofs): EnvTypeOK, PlacementAccounting, StageConserved and
  NeverMoves of OfflineEnv!Spec, that is for any windows, any settings and any
  policy. The invariant `EnvInv` adds that an address that the policy placed has a
  shard (ActedPlaced), without which hash seeding could move it between
  counts. The types need that the mask is never empty: the guard falls back to all
  shards and top-k keeps the best one, which exists because finitely many
  candidates are strictly ordered (BestExists, MaskType).
- `TrainingUsesTheEnvironment` (OfflineTrainingProofs): TrainingSpec => Spec, the
  refinement of the environment's specification by training, selection and
  evaluation. A window of any file is a sequence of transactions (RowsRead,
  BothRead, WindowType). `TrainingKeepsAccounts` is what follows from the theorems
  on the environment.
- `WindowsAreAligned` (OfflineTrainingProofs): WindowAligned. `RowsGood` and
  `BothGood` are the invariants of the two loops, relative to the rows that parse
  so far; physical rows are in place because none before them fails to parse
  (KeptPrefix). `WindowsTrue` says which window is in use in which phase, and
  NoOverlap that windows which data_windows_overlap lets pass are disjoint, also
  when one of them has no end.
- `TrainingIsTyped`, `EverySampleTrainedOnce`, `UpdatesAreOnPolicy`,
  `NoRewardIsStranded`, `CheckpointsAreTrue`, `SelectionIsSound`
  (OfflineTrainingProofs): TypeOK and five properties of training, from one invariant
  `TrainInv`. SamplesTrue: the decisions are those trained, each by the version
  that took it, then those in the buffer, of the present version, then those of the
  batch that is being placed; a sample that waits is the last one and waits only
  until there is a decision. FirstBatchDecides: an epoch of v3 begins with nothing
  placed, and a batch is not empty, so whoever waits for a reward exists; it
  rests on validate_args. RecordsTrue: a record's file is not written again,
  because an epoch has a file of its own and the last one comes after all
  periodic saves. BestTrue: best_score and the model are those of the first of the
  best records.
- `RewardsFollowTheClock` (OfflineTrainingProofs): BatchClock, for any number of
  batches, epochs, decisions and updates. `ClockTrue` sees the samples trained
  and those in the buffer as one sequence without gaps (`Walk`): a sample carries
  the rewards of consecutive batches, its own first (Fits), and the next one begins
  in the batch after the last that it carries, or begins the next epoch if it
  carries up to the end (Leads, Ends). Numbering all batches of all epochs, the
  samples tile the numbers with intervals (Tiling), so a batch has one carrier
  (WalkCovers). The batches executed are those before the cursor (CursorTrue), which
  gives the batch size its part: an epoch has as many batches as cover the
  transactions (BatchCount). A sample without a next one carries all batches up to
  now (Waits), and the next decision or the end of the epoch settles it
  (WaitingSettled). That one waits at the end of an epoch rests on FirstBatchDecides
  and on windows that are not empty (WindowSome).
- Selection (OfflineTrainingProofs), a lemma that SelectionIsSound rests on:
  dominance is an order on finitely many records, so each is dominated by one on the
  frontier, or is on it (FrontierCovers); what dominates a record that the
  guardrails accept is accepted too (DominanceOrders); the sort keys are of one
  length and compare as Python's tuples do, so there is a first one
  (FirstIsLeast).
- `SamplesUsedOnce` (SampleLedgerProofs): UsedOnce of the abstract ledger. The
  invariant adds that a sample not collected yet was never used.
- `FrozenModelStays` (ExperimentRunsProofs): FrozenModelKept of the whole of
  ExperimentRuns. The invariant `FrozenInv`: an update that trains has found a
  model that is not frozen, and one that writes has a torn file; nobody else
  writes meanwhile.
- `CompleteRunsAreTrue` (ExperimentRunsProofs): CompleteIsTrue, for any number of
  runs and executions. It is not inductive: it says nothing of records that are
  still to be archived. `RunInv` adds what the file of parameters means
  (Parameters: it is the snapshot of the run it names, and a run not prepared was
  never executed), where the records of a run are (Records: in spring_io as long
  as the file names the run, then in its archive, all of them with its
  parameters), that the emulator has the parameters in the file (Emulator) and
  that a finalization finds spring_io empty (Finalizing).
- `NewestModelServes` (ExperimentRunsProofs): ServesNewest. `CacheInv`: a cached
  agent is no newer than the file, and if it has the time of the file it is what
  the file holds; every write gives the file a new time.
- `ExperimentsAreTyped` (ExperimentRunsProofs): TypeOK of ExperimentRuns, from
  RunInv and `VariableTypes`. A new update holds items of two filters of
  samples, which is where FilterProofs comes in.
- `TrainingIsALedger` (ExperimentRunsProofs): RunsSpec => ImplementsLedger, the
  refinement. `SampleInv` says where samples are: those in a file or an update are
  of executions with that configuration, no two of one decision, and if their
  execution still runs their batches count as trained (HeldInFiles,
  HeldInUpdate); an update holds at least the samples of its file; batches that
  wait are not trained, no two alike (HeldBySupervisor); what was collected is
  no later than the last batch (Collected). Hence no sample both waits and is
  buffered, no sample is in two files, an update counts each of its samples
  once, and every step is one of the ledger's: placing a batch is Collect, a report
  that starts an update is a Transfer of what it takes and a loss of what expired, a
  supervisor that stops loses what waits, removing the samples is Update, and
  a death loses samples or, after the model was saved, is CutShort. With
  `SamplesUsedOnce` for the ledger this is UsedOnce for the code.

The inductive invariants were also checked with TLC, on the instances of the
runs.

Only model-checked:

- Liveness under fairness (FollowersCommit, ViewChangeCompletes,
  OnlyLocksDelayStop, TxsGetOnChain), which the prover does not handle.
- The four properties that are expected to be violated, whose counterexamples TLC
  finds.

Every invariant and every action property that a passing run checks is stated by a
theorem, under the conditions named above: the theorems about shards that move
accounts hold until a partition overtakes another, as the properties themselves
say.

## 5. Findings

- **A view change can fork a shard** (`pbft_fork`, `pbft_all/view_change.go:88`).
  New-view votes carry no prepared request. A leader that committed a block
  whose commits reach the others late is overtaken by a new view that commits
  another block at that height. `pbft.go:33`: "all node in the shard maintain the
  same blockchain".
- **A leader may never shut down** (`shutdown_leader`,
  `pbft_all/messageHandle.go:85`). A propose handler that waits for sequenceLock
  when the stop message comes is counted as in flight; the commit handler that
  would unlock it leaves at the stop signal. `pbft.go:200-202` says that waiters
  leave "instead of keeping shutdown blocked indefinitely". OnlyLocksDelayStop
  shows that this and the like wait for askForLock are the only causes.
- **A relay is lost across a view change** (`relay_lost`,
  `pbft_all/pbftInside_module.go:68`). Only a replica that leads when it commits
  relays a block; recovered blocks are never relayed.
- **A debited transfer is lost in a partition** (`transfer_lost`,
  `chain/blockchain.go:363`). If the recipient moves to the shard that debited
  the sender, the pending second half follows and is dropped there as a replay.

Seen while modelling, without a run of their own:

- A transfer across that the sender cannot pay has no effect in its shard
  (`chain/blockchain.go:114`) but stays in the block, is relayed and credited.
- sequenceID can run ahead of the chain without a view change. handleSendOldSeq
  does not take pbftLock: if a node's own commit has made block 1 its head and a
  late answer with block 1 is rejected then, line 407 sets sequenceID to 2 and the
  commit's line 323 to 3, at height 1. `sequenceID[n] <= Height(n) + 1` fails in
  TLC after 17 steps of `Race`, although the comment at
  `messageHandle.go:300-301` says that deriving the start of a request from the
  chain height "prevents protocol/chain drift". The node then ignores the round of
  height 2, and catches up when it next sees a quorum of commits for a request it
  does not have. StableAgreement and StableFiling are what survives.
- The same race can lose a head: a commit that has validated and stored block 1
  moves the head (`chain/blockchain.go:244`) after a recovery has added
  blocks 1 and 2, and the chain is 1 again (TLC: 30 steps of `LostHead`). Block 2
  is then a replay for AddBlock, and the node rejects it for ever, unless it has no
  transactions.
- Enough empty reports of an idle shard let the supervisor stop while relays or
  non-empty blocks are on their way (`supervisor/supervisor.go:125`).
- The propose handler's late store of stage 2 (`messageHandle.go:109`) can throw
  the stage of a finished round back.
- An update that dies after it has saved its model and before it removes its
  samples learns from them again (`spring_lite/update_online.py:650`); the ledger
  allows just that. One that dies while it writes the checkpoint leaves a torn file,
  which every later start refuses.
- A comment at `spring_lite/infer_batch.py:113` says that a damaged model is reset
  so that online training goes on; `torch.load` in line 79 has raised by then.
- A relay that arrives before its recipient's placement, or an injection that
  arrives after its sender moved, makes the leader panic with "incorrect tx".
- seqIDMap holds the relay that arrived last, not the highest: if two are
  swapped, `getPartitionReady` never holds and all shards wait
  (`accountTransfer_module.go:50`). A partition takes a sequence number without
  a relay, and its end erases PartitionOn and PartitionReady, also those of a
  next round that came early (`accountTransfer_module.go:198`).
- The supervisor starts a partition when one shard has reported the last one as
  done (`committee_clpa.go`). If its map reaches a shard that still collects
  accounts or has them proposed, `accountTransfer_do` takes both maps for done and
  skips the second. The variable `overtaken` notes it. With two partitions no harm is
  visible; with three (MaxPartitions 3) TLC finds two shards that own one account,
  after 47 steps. Barrier is what fails in the proof.
- With placed accounts and a view change, the new leader may classify a block
  before it has the placements that came with the block's transactions. With
  three shards it relays a second half by hash to a shard where nobody else
  does, and the recipient is credited in two. With two shards the wrong
  shard is the sender's own, which does not relay to itself.

## 6. Not modelled, and why

- Broker, broker with account transfer, SPRING placement on the supervisor beyond
  its result, measure modules, the CLPA algorithm, crash and restart of the
  storage: planned, below.
- Gradients, rewards and state vectors: floating-point numerics. Network and
  `model.py` are a version number, rewards are credits.
- `prepare_iot_dataset.py`, `prepare_iot_multi_anchor_dataset.py`,
  `prepare_iot_v2_dataset.py`, `validate_iot_v2_dataset.py`,
  `analyze_block_eval.py`, `replay_iot_decisions.py`, `iot_metrics.py`,
  `training_diagnostics.py` and `scripts/archive/`: sequential programs from
  files to files and tables; what they compute is statistics and hashes of
  strings. `infer.py` only reads a model.
- `prepare_iot_v2_run.py`, which has directories of its own, and baselines
  without a model.
- Merkle proofs: the trie is go-ethereum's. Queries: read-only, after the run.
  Configuration, logging, shard and VRF helpers: no state while the system runs.
- Connection reuse and bandwidth limits: they only delay messages.
- Byzantine nodes: the code has no signatures to model them against.

## 7. Plan

Order, by weight in the system; about a dozen runs serve the whole project, so a
new component replaces the narrowest run or shares a configuration.

1. (done) PBFT, shutdown, relay, account transfer; their invariants proved.
2. (done) `OfflineEnv`, `TxWindows`, `OfflineTraining`: environment, training,
   selection, evaluation; their properties proved.
3. (done) `PolicyServing`, `OnlineFeedback`, `SampleLedger`, `ExperimentRuns`:
   serving, online updates with crashes, feedback, experiments; the ledger as an
   abstract specification; their properties and the refinement proved. Next to them:
   `SpringPlacement`, the supervisor's own candidate masks, reservations and
   fallbacks, and equality with OfflineEnv where both claim to be the same rule;
   an update that outlives its supervisor.
4. `Broker`: the two halves, confirmations and the maps that match them;
   abstract specification "a transfer is done, pending at one broker, or not
   begun", shown as a refinement. Then its composition with AccountTransfer.
5. `ChainStorage`: writes of trie, block and index with a crash between any two,
   and the restart; property: a restarted node has a prefix with its state.
6. `ClpaGraph`: edge counts kept by changeShardRecompute against a recount over
   all small graphs. Measure modules as observers of RelayShards (a transfer
   across counts once).
7. AccountTransfer: liveness (the swapped relays above), followers and recovery
   of partition requests. The supervisor's stop and overdrafts as runs.
8. PBFT: the followers' sequenceID and head under a commit and a recovery that
   exclude each other, as a variant of the model.
9. Proofs: refinement of a per-shard "one chain" abstraction by PbftConsensus
   until a view change.
