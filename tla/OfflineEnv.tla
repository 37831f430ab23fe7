----------------------------- MODULE OfflineEnv -----------------------------
(* The placement environment of spring_lite/offline_env.py.  A window of      *)
(* transactions is executed batch by batch; the addresses of a batch that     *)
(* have no shard yet are placed one at a time by a policy, behind a mask of   *)
(* candidate shards, and the batch is then executed on the resulting map.     *)
(*                                                                            *)
(* Loads and scores are exact: scores and pressures are scaled to integers.   *)
(* What the policy sees (the state vector) and what it is paid (the rewards)  *)
(* are data that a policy may map to any output, so any output is possible.   *)
(* sender_pos_mode 2, with its counters of past neighbours, is not modelled.  *)
EXTENDS Integers, Sequences, FiniteSets, SequencesExt

CONSTANTS
    Address,
    Shards,             \* number of shards
    addr2shard,         \* the shard of an address by its hash
    MaxBlockSize,
    Window,             \* windows kept in recent_stats, 5 in the code
    GuardNum, GuardDen, \* capacity_guard_factor as a fraction
    LoadWeight,         \* candidate_load_weight
    NoAddr

Shard == 0 .. Shards - 1
NoShard == -1

ASSUME EnvAssumption ==
    /\ Shards \in Nat \ {0}
    /\ addr2shard \in [Address -> Shard]
    /\ MaxBlockSize \in Nat \ {0}
    /\ Window \in Nat \ {0}
    /\ GuardDen \in Nat \ {0} /\ GuardNum \in Nat /\ GuardNum >= GuardDen
    /\ LoadWeight \in Nat
    /\ NoAddr \notin Address
    /\ IsFiniteSet(Address)

\* A transaction; anchors are the related addresses of an IoT transaction.
Tx == [sender : Address, recipient : Address, anchors : SUBSET Address]

\* The settings of an environment that the control depends on.
Config == [identity : {"raw", "iot", "iot_v2"}, iot : BOOLEAN, mode : {0, 1},
           backlog : {0, 1}, guard : {0, 1}, top_k : Nat,
           version : {"legacy", "v3"}, batch : Nat \ {0}]

VARIABLES
    config,
    txs,            \* the window of transactions
    cursor,         \* how many of them are in executed batches
    addr_shard,
    shard_load,     \* addresses that the policy has put in a shard
    pending_loads,  \* backlog of stage loads
    recent_stats,   \* committed stage loads of the last batches
    batch_id,
    step,           \* "idle", or "place" inside run_batch
    placements,     \* addresses of the batch in order, with a related address
    actions,        \* placements made in this batch
    summary,        \* totals over the batches
    acted,          \* history: addresses placed by the policy since the reset
    carried         \* history: the backlog when the summary was opened

stateVars == <<addr_shard, shard_load, pending_loads, recent_stats, batch_id>>
batchVars == <<step, placements, actions>>
envVars == <<config, txs, cursor, stateVars, batchVars, summary, acted, carried>>

-----------------------------------------------------------------------------
(* Related addresses and candidate shards.                                  *)

TxBatchSize == config.batch

\* iter_batches: the next slice of the window.
Batch ==
    SubSeq(txs, cursor + 1,
           IF cursor + TxBatchSize < Len(txs) THEN cursor + TxBatchSize ELSE Len(txs))

\* Transactions between real accounts, and the older IoT transactions from a
\* state object to its anchors.
RealAccounts == config.identity = "iot_v2"
StateObjects == config.iot /\ ~RealAccounts

\* tx_related_addresses: an IoT transaction always has its owner among them.
tx_related_addresses(t) == t.anchors \cup {t.recipient}

build_batch_related(a) ==
    IF StateObjects
    THEN UNION {tx_related_addresses(t) : t \in {u \in Range(Batch) : u.sender = a}}
    ELSE {t.sender : t \in {u \in Range(Batch) : u.recipient = a}}
         \cup IF config.mode = 1 THEN {}
              ELSE {t.recipient : t \in {u \in Range(Batch) : u.sender = a}}

\* The related addresses of build_sender_pos.  The fallback of a sender or
\* recipient is used always in mode 0, and for want of others in mode 1.
RelatedSet(a, fallback) ==
    LET found == build_batch_related(a)
        more  == IF config.mode # 1 \/ found = {} THEN {fallback} ELSE {}
    IN (found \cup more) \ {a, NoAddr}

\* build_sender_pos: how many related addresses each shard holds.
build_sender_pos(a, fallback) ==
    [s \in Shard |-> Cardinality({p \in RelatedSet(a, fallback) : addr_shard[p] = s})]

\* A sum of natural numbers, by counting units: unlike a fold, it is one whose
\* type follows from theorems on finite sets.
SumOver(f) == Cardinality(UNION {{x} \X (1 .. f[x]) : x \in DOMAIN f})

\* The recent stage load of a shard over the kept windows.
Recent(s) == SumOver([w \in DOMAIN recent_stats |-> recent_stats[w][s]])

\* The factors that make pressures and scores whole numbers.
LoadScale == IF SumOver(shard_load) = 0 THEN 1 ELSE SumOver(shard_load)
WindowScale == Len(recent_stats)

\* _candidate_load_pressures, times LoadScale * WindowScale: the share of the
\* placed addresses times the block size, plus the mean recent stage load.
candidate_load_pressures ==
    [s \in Shard |-> shard_load[s] * MaxBlockSize * WindowScale + Recent(s) * LoadScale]

\* _candidate_scores, times 1000 * known * LoadScale * WindowScale.
candidate_scores(a, pos) ==
    LET pressures == candidate_load_pressures
        known == IF SumOver(pos) = 0 THEN 1 ELSE SumOver(pos)
    IN [s \in Shard |->
            1000 * 1000 * pos[s] * LoadScale * WindowScale
            - 1000 * LoadWeight * pressures[s] * known
            + IF s = addr2shard[a] THEN known * LoadScale * WindowScale ELSE 0]

\* Order of candidates: higher score, then lower shard.
Before(scores, r, s) == scores[r] > scores[s] \/ (scores[r] = scores[s] /\ r < s)

\* Shards under the threshold of the capacity guard; all if there are none.
GuardedShards ==
    LET pressures == candidate_load_pressures
        total     == SumOver(pressures)
        under     == {s \in Shard :
                        pressures[s] * Shards * GuardDen <= total * GuardNum}
    IN IF config.guard = 0 \/ total = 0 \/ under = {} THEN Shard ELSE under

\* build_candidate_action_mask: the guard first, then the top_k best of those.
build_candidate_action_mask(a, pos) ==
    LET pool   == GuardedShards
        scores == candidate_scores(a, pos)
    IN IF config.top_k = 0 \/ config.top_k >= Shards THEN pool
       ELSE {s \in pool :
                Cardinality({r \in pool : Before(scores, r, s)}) < config.top_k}

\* best_allowed_action
best_allowed_action(scores, mask) ==
    CHOOSE s \in mask : \A r \in mask \ {s} : Before(scores, s, r)

\* Wrong variant of safe_policy_output: the mask is not enforced.
unsafe_policy_output(a, fallback, output) == output

\* _safe_policy_output: an output outside the mask is replaced by the best
\* candidate.
safe_policy_output(a, fallback, output) ==
    LET pos  == build_sender_pos(a, fallback)
        mask == build_candidate_action_mask(a, pos)
    IN IF output \in mask THEN output
       ELSE best_allowed_action(candidate_scores(a, pos), mask)

-----------------------------------------------------------------------------
(* Batches.                                                                 *)

\* Addresses in the order of run_batch, each with its related address:
\* senders first in mode 1, only senders of state objects, pairs otherwise.
PlacementOrder ==
    LET n == Len(Batch)
        senders    == [i \in 1 .. n |-> <<Batch[i].sender, NoAddr>>]
        recipients == [i \in 1 .. n |-> <<Batch[i].recipient, Batch[i].sender>>]
    IN IF StateObjects
       THEN [i \in 1 .. n |-> <<Batch[i].sender, Batch[i].recipient>>]
       ELSE IF config.mode = 1 THEN senders \o recipients
       ELSE [k \in 1 .. 2 * n |->
                LET t == Batch[(k + 1) \div 2]
                IN IF k % 2 = 1 THEN <<t.sender, t.recipient>>
                                ELSE <<t.recipient, t.sender>>]

\* _place_address does nothing for an address that has a shard: the positions
\* where it will do something, and the first of them.
Unplaced == {k \in DOMAIN placements : addr_shard[placements[k][1]] = NoShard}
NextPair == placements[CHOOSE k \in Unplaced : \A j \in Unplaced : k <= j]

\* Wrong variant of HashPlaced: an address that has a shard loses it.
HashMoved(A) == [a \in Address |-> IF a \in A THEN addr2shard[a] ELSE addr_shard[a]]

\* Those addresses of A that have no shard get the one of their hash.
HashPlaced(A) == [a \in Address |->
    IF a \in A /\ addr_shard[a] = NoShard THEN addr2shard[a] ELSE addr_shard[a]]

\* The start of run_batch; anchors of state objects are seeded by their hash.
BeginBatch ==
    /\ step = "idle"
    /\ cursor < Len(txs)
    /\ batch_id' = batch_id + 1
    /\ addr_shard' = IF StateObjects
                     THEN HashPlaced(UNION {tx_related_addresses(t) : t \in Range(Batch)})
                     ELSE addr_shard
    /\ placements' = PlacementOrder
    /\ actions' = <<>>
    /\ step' = "place"
    /\ UNCHANGED <<config, txs, cursor, shard_load, pending_loads, recent_stats,
                   summary, acted, carried>>

\* _place_address, for the next address and an output of the policy.
Place(output) ==
    /\ step = "place"
    /\ Unplaced # {}
    /\ LET addr   == NextPair[1]
           chosen == safe_policy_output(addr, NextPair[2], output)
       IN /\ addr_shard' = [addr_shard EXCEPT ![addr] = chosen]
          /\ shard_load' = [shard_load EXCEPT ![chosen] = @ + 1]
          /\ actions' = Append(actions, [address |-> addr, action |-> chosen,
                                         sampled |-> chosen = output])
          /\ acted' = acted \cup {addr}
    /\ UNCHANGED <<config, txs, cursor, pending_loads, recent_stats, batch_id,
                   step, placements, summary, carried>>

\* _simulate_batch_loads: an address that nobody placed goes by its hash.
BatchMap ==
    HashPlaced(UNION {{t.sender} \cup tx_related_addresses(t) : t \in Range(Batch)})

Count(P(_)) == Cardinality({i \in DOMAIN Batch : P(Batch[i])})
Crosses(t) == BatchMap[t.sender] # BatchMap[t.recipient]

\* A transaction is a stage of its sender's shard, and of its recipient's
\* shard too if that is another one.
StageLoads == [s \in Shard |->
    Count(LAMBDA t : BatchMap[t.sender] = s)
    + Count(LAMBDA t : Crosses(t) /\ BatchMap[t.recipient] = s)]
OwnerLoads == [s \in Shard |-> Count(LAMBDA t : BatchMap[t.recipient] = s)]

\* Wrong variant of capacity_backlog: a block is always full.
capacity_full(pending, incoming) ==
    IF config.backlog = 0 THEN [committed |-> incoming, pending |-> pending]
    ELSE [committed |-> MaxBlockSize, pending |-> pending + incoming - MaxBlockSize]

\* Wrong variant of capacity_backlog: what does not fit is dropped.
capacity_dropped(pending, incoming) ==
    LET pressure  == pending + incoming
        committed == IF pressure < MaxBlockSize THEN pressure ELSE MaxBlockSize
    IN [committed |-> committed, pending |-> 0]

\* _apply_capacity_backlog for one shard: with the backlog, a block's worth is
\* committed and the rest stays pending; without it, what comes in is
\* committed.
capacity_backlog(pending, incoming) ==
    LET pressure  == pending + incoming
        committed == IF pressure < MaxBlockSize THEN pressure ELSE MaxBlockSize
    IN IF config.backlog = 0
       THEN [committed |-> incoming, pending |-> pending]
       ELSE [committed |-> committed, pending |-> pressure - committed]

Zeros == [s \in Shard |-> 0]

\* BatchMetrics: what run_batch returns about the batch.
BatchMetrics(committed) ==
    [tx_count    |-> Len(Batch),
     inner       |-> Count(LAMBDA t : ~Crosses(t)),
     relay       |-> Count(Crosses),
     action_hist |->
        [s \in Shard |-> Cardinality({i \in DOMAIN actions : actions[i].action = s})],
     stage_loads |-> StageLoads,
     owner_loads |-> OwnerLoads,
     committed_stage_loads |-> committed]

\* new_summary and update_summary: the totals over the batches.
new_summary == [batches |-> 0, tx_count |-> 0, inner |-> 0, relay |-> 0,
                action_hist |-> Zeros, stage_loads |-> Zeros,
                owner_loads |-> Zeros, committed_stage_loads |-> Zeros]
Add(f, g) == [s \in Shard |-> f[s] + g[s]]
update_summary(m) ==
    [batches     |-> summary.batches + 1,
     tx_count    |-> summary.tx_count + m.tx_count,
     inner       |-> summary.inner + m.inner,
     relay       |-> summary.relay + m.relay,
     action_hist |-> Add(summary.action_hist, m.action_hist),
     stage_loads |-> Add(summary.stage_loads, m.stage_loads),
     owner_loads |-> Add(summary.owner_loads, m.owner_loads),
     committed_stage_loads |-> Add(summary.committed_stage_loads, m.committed_stage_loads)]

\* The rest of run_batch, and the caller's update_summary.
EndBatch ==
    /\ step = "place"
    /\ Unplaced = {}
    /\ LET result(s) == capacity_backlog(pending_loads[s], StageLoads[s])
           committed == [s \in Shard |-> result(s).committed]
       IN /\ pending_loads' = [s \in Shard |-> result(s).pending]
          /\ recent_stats' = Append(Tail(recent_stats), committed)
          /\ summary' = update_summary(BatchMetrics(committed))
    /\ addr_shard' = BatchMap
    /\ cursor' = cursor + Len(Batch)
    /\ step' = "idle"
    /\ UNCHANGED <<config, txs, shard_load, batch_id, placements, actions, acted,
                   carried>>

\* reset
ResetState ==
    /\ addr_shard' = [a \in Address |-> NoShard]
    /\ shard_load' = Zeros
    /\ pending_loads' = Zeros
    /\ recent_stats' = [w \in 1 .. Window |-> Zeros]
    /\ batch_id' = 0
    /\ acted' = {}

\* A new pass over a window, with a new summary, in a reset environment or in
\* the one of the last pass.
NewPass(settings, window, reset) ==
    /\ step = "idle"
    /\ reset \/ settings = config
    /\ config' = settings
    /\ txs' = window
    /\ cursor' = 0
    /\ summary' = new_summary
    /\ IF reset THEN ResetState ELSE UNCHANGED <<stateVars, acted>>
    /\ carried' = pending_loads'
    /\ UNCHANGED batchVars

\* __init__
EnvInit ==
    /\ cursor = 0
    /\ addr_shard = [a \in Address |-> NoShard]
    /\ shard_load = Zeros
    /\ pending_loads = Zeros
    /\ recent_stats = [w \in 1 .. Window |-> Zeros]
    /\ batch_id = 0
    /\ step = "idle" /\ placements = <<>> /\ actions = <<>>
    /\ summary = new_summary
    /\ acted = {}
    /\ carried = Zeros

\* Any window and any settings; a pass over new data starts at any time.
Init == EnvInit /\ config \in Config /\ txs \in Seq(Tx)
Next ==
    \/ BeginBatch
    \/ \E output \in Shard : Place(output)
    \/ EndBatch
    \/ \E settings \in Config, window \in Seq(Tx), reset \in BOOLEAN :
            NewPass(settings, window, reset)
Spec == Init /\ [][Next]_envVars

-----------------------------------------------------------------------------
(* Properties.                                                              *)

EnvTypeOK ==
    /\ config \in Config
    /\ txs \in Seq(Tx)
    /\ cursor \in Nat
    /\ addr_shard \in [Address -> Shard \cup {NoShard}]
    /\ shard_load \in [Shard -> Nat]
    /\ pending_loads \in [Shard -> Nat]
    /\ recent_stats \in Seq([Shard -> Nat]) /\ Len(recent_stats) = Window
    /\ batch_id \in Nat
    /\ step \in {"idle", "place"}
    /\ placements \in Seq(Address \X (Address \cup {NoAddr}))
    /\ actions \in Seq([address : Address, action : Shard, sampled : BOOLEAN])
    /\ summary.committed_stage_loads \in [Shard -> Nat]
    /\ summary.stage_loads \in [Shard -> Nat]
    /\ acted \subseteq Address
    /\ carried \in [Shard -> Nat]

\* shard_load, which the state, the mask and the rewards are computed from,
\* counts exactly the addresses that the policy put in a shard and that are
\* still mapped to it: addresses placed by their hash, as anchors or for want
\* of a decision, are not in it, and nothing is placed twice
\* (_place_address, _seed_iot_anchor_shards, _simulate_batch_loads).
PlacementAccounting ==
    \A s \in Shard :
        shard_load[s] = Cardinality({a \in acted : addr_shard[a] = s})

\* No stage load is lost or committed twice between batches: what a shard has
\* committed and what is pending is what came in and what it started with
\* (_apply_capacity_backlog, update_summary).
StageConserved ==
    \A s \in Shard :
        summary.committed_stage_loads[s] + pending_loads[s]
            = summary.stage_loads[s] + carried[s]

\* An address never moves: its shard changes only when all placements are
\* forgotten (_place_address, reset).
NeverMoves ==
    [][\/ \A a \in Address : addr_shard[a] # NoShard => addr_shard'[a] = addr_shard[a]
       \/ \A a \in Address : addr_shard'[a] = NoShard]_envVars

=============================================================================
