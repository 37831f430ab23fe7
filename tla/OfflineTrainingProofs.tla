----------------------- MODULE OfflineTrainingProofs -----------------------
(* Proofs about OfflineEnv, TxWindows and OfflineTraining, for every number   *)
(* of shards, addresses and transactions, every file and every policy: the    *)
(* environment's types and accounts; that training and evaluation use it as   *)
(* its specification says; windows of transactions; samples, checkpoints and  *)
(* the selection of a checkpoint; the clock of mechanism v3.                  *)
EXTENDS OfflineTraining, FilterProofs, FiniteSetTheorems, SequenceTheorems

-----------------------------------------------------------------------------
(* Sums and least elements.                                                 *)

\* The shards are finitely many.
LEMMA ShardFinite == IsFiniteSet(Shard) /\ 0 \in Shard /\ NoShard \notin Shard
                     /\ Shard \subseteq Nat
  BY EnvAssumption, FS_Interval DEF Shard, NoShard

\* SumOver of natural numbers is one.
LEMMA SumType ==
    ASSUME NEW D, IsFiniteSet(D), NEW f, DOMAIN f = D, \A x \in D : f[x] \in Nat
    PROVE  SumOver(f) \in Nat
<1> DEFINE T == {{x} \X (1 .. f[x]) : x \in D}
           g == [x \in D |-> {x} \X (1 .. f[x])]
<1>1. g \in Surjection(D, T)
  BY DEF Surjection
<1>2. IsFiniteSet(T)
  BY <1>1, FS_Surjection, Zenon
<1>3. \A t \in T : IsFiniteSet(t)
  <2>1. SUFFICES ASSUME NEW x \in D PROVE IsFiniteSet({x} \X (1 .. f[x]))
    OBVIOUS
  <2>2. IsFiniteSet(1 .. f[x])
    BY FS_Interval
  <2> QED
    BY <2>2, FS_Singleton, FS_Product
<1>4. IsFiniteSet(UNION T)
  BY <1>2, <1>3, FS_UNION, Zenon
<1>5. Cardinality(UNION T) \in Nat
  BY <1>4, FS_CardinalityType, Zenon
<1> QED
  BY <1>5 DEF SumOver

\* A set of natural numbers has a least one.
LEMMA Least ==
    ASSUME NEW S \in SUBSET Nat, S # {}
    PROVE  \E k \in S : \A j \in S : k <= j
<1>1. \E k \in S : \A j \in S : ~(<<j, k>> \in OpToRel(<, Nat))
  BY NatLessThanWellFounded, WFMin, Zenon
<1>2. \A j, k \in Nat : <<j, k>> \in OpToRel(<, Nat) <=> j < k
  BY Zenon DEF OpToRel
<1>3. \E k \in S : \A j \in S : ~(j < k)
  BY <1>1, <1>2, Zenon
<1> QED
  BY <1>3

-----------------------------------------------------------------------------
(* Candidate shards.                                                        *)

\* Of any candidates there is a best one: the one with the fewest before it.
LEMMA BestExists ==
    ASSUME NEW scores, \A s \in Shard : scores[s] \in Int,
           NEW mask \in SUBSET Shard, mask # {}
    PROVE  \E s \in mask : \A r \in mask : r = s \/ Before(scores, s, r)
<1> DEFINE Ahead(s) == {r \in mask : Before(scores, r, s)}
           N == {Cardinality(Ahead(s)) : s \in mask}
<1>1. IsFiniteSet(mask)
  BY ShardFinite, FS_Subset
<1>2. \A s \in mask : IsFiniteSet(Ahead(s)) /\ Cardinality(Ahead(s)) \in Nat
  BY <1>1, FS_Subset, FS_CardinalityType
<1>3. PICK n \in N : \A m \in N : n <= m
  <2>1. N \subseteq Nat /\ N # {}
    BY <1>2
  <2> QED
    BY <2>1, Least
<1>4. PICK s \in mask : n = Cardinality(Ahead(s))
  OBVIOUS
<1>5. ASSUME NEW r \in Ahead(s) PROVE FALSE
  <2>1. r \in mask /\ Before(scores, r, s)
    BY <1>5
  <2>2. ~Before(scores, r, r)
    BY <2>1, ShardFinite DEF Before
  <2>3. ASSUME NEW q \in mask, Before(scores, q, r) PROVE Before(scores, q, s)
    <3>1. scores[q] \in Int /\ scores[r] \in Int /\ scores[s] \in Int
      BY <2>1
    <3>2. q \in Int /\ r \in Int /\ s \in Int
      BY <2>1, ShardFinite
    <3> QED
      BY <2>1, <2>3, <3>1, <3>2 DEF Before
  <2>4. Ahead(r) \subseteq Ahead(s) /\ Ahead(r) # Ahead(s)
    BY <1>5, <2>2, <2>3, Zenon
  <2>5. Cardinality(Ahead(r)) < Cardinality(Ahead(s))
    <3>1. IsFiniteSet(Ahead(s)) /\ Cardinality(Ahead(s)) \in Nat /\ Cardinality(Ahead(r)) \in Nat
      BY <1>2, <2>1
    <3> HIDE DEF Ahead
    <3>2. /\ Cardinality(Ahead(r)) <= Cardinality(Ahead(s))
          /\ Cardinality(Ahead(s)) = Cardinality(Ahead(r)) => Ahead(s) = Ahead(r)
      BY <2>4, <3>1, FS_Subset
    <3> QED
      BY <2>4, <3>1, <3>2
  <2>6. Cardinality(Ahead(r)) \in N
    BY <2>1
  <2> HIDE DEF N, Ahead
  <2> QED
    BY <2>5, <2>6, <1>2, <1>3, <1>4, <2>1
<1>6. \A r \in mask : r = s \/ Before(scores, s, r)
  BY <1>5, ShardFinite DEF Before
<1> QED
  BY <1>6

\* The load pressures, the numbers of related addresses and the scores are
\* integers.
LEMMA PressureType ==
    ASSUME EnvTypeOK
    PROVE  /\ LoadScale \in Nat /\ WindowScale \in Nat
           /\ \A s \in Shard : candidate_load_pressures[s] \in Nat
<1>1. LoadScale \in Nat
  <2>1. SumOver(shard_load) \in Nat
    BY SumType, ShardFinite DEF EnvTypeOK
  <2> QED
    BY <2>1 DEF LoadScale
<1>2. WindowScale \in Nat
  BY EnvAssumption DEF EnvTypeOK, WindowScale
<1>3. ASSUME NEW s \in Shard PROVE Recent(s) \in Nat
  <2> DEFINE f == [w \in DOMAIN recent_stats |-> recent_stats[w][s]]
  <2>1. DOMAIN recent_stats = 1 .. Len(recent_stats) /\ Len(recent_stats) \in Nat
    BY DEF EnvTypeOK
  <2>2. IsFiniteSet(DOMAIN recent_stats)
    BY <2>1, FS_Interval
  <2>3. \A w \in DOMAIN recent_stats : f[w] \in Nat
    <3>1. \A w \in DOMAIN recent_stats : recent_stats[w] \in [Shard -> Nat]
      BY DEF EnvTypeOK
    <3> QED
      BY <3>1
  <2>4. SumOver(f) \in Nat
    <3> DOMAIN f = DOMAIN recent_stats
      OBVIOUS
    <3> HIDE DEF f
    <3> QED
      BY <2>2, <2>3, SumType, Zenon
  <2> QED
    BY <2>4 DEF Recent
<1>4. ASSUME NEW s \in Shard PROVE candidate_load_pressures[s] \in Nat
  <2>1. shard_load[s] \in Nat /\ MaxBlockSize \in Nat
    BY EnvAssumption DEF EnvTypeOK
  <2> QED
    BY <1>1, <1>2, <1>3, <2>1 DEF candidate_load_pressures
<1> QED
  BY <1>1, <1>2, <1>4

LEMMA ScoreType ==
    ASSUME EnvTypeOK, NEW a, NEW pos, DOMAIN pos = Shard, \A s \in Shard : pos[s] \in Nat
    PROVE  \A s \in Shard : candidate_scores(a, pos)[s] \in Int
<1> DEFINE known == IF SumOver(pos) = 0 THEN 1 ELSE SumOver(pos)
<1>1. known \in Int
  <2>1. SumOver(pos) \in Nat
    BY SumType, ShardFinite
  <2> QED
    BY <2>1
<1> HIDE DEF known
<1> SUFFICES ASSUME NEW s \in Shard PROVE candidate_scores(a, pos)[s] \in Int
  OBVIOUS
<1>2. /\ LoadScale \in Int /\ WindowScale \in Int
      /\ candidate_load_pressures[s] \in Int /\ LoadWeight \in Int /\ pos[s] \in Int
  BY PressureType, EnvAssumption
<1>3. /\ 1000 * 1000 * pos[s] * LoadScale * WindowScale \in Int
      /\ 1000 * LoadWeight * candidate_load_pressures[s] * known \in Int
      /\ known * LoadScale * WindowScale \in Int
  BY <1>1, <1>2
<1>4. candidate_scores(a, pos)[s]
        = 1000 * 1000 * pos[s] * LoadScale * WindowScale
          - 1000 * LoadWeight * candidate_load_pressures[s] * known
          + IF s = addr2shard[a] THEN known * LoadScale * WindowScale ELSE 0
  BY Zenon DEF candidate_scores, known
<1> QED
  BY <1>3, <1>4

\* A batch is a sequence of transactions.
LEMMA BatchType ==
    ASSUME EnvTypeOK
    PROVE  /\ Batch \in Seq(Tx)
           /\ Len(Batch) \in Nat /\ DOMAIN Batch = 1 .. Len(Batch)
           /\ \A i \in DOMAIN Batch : Batch[i] \in Tx
           /\ Range(Batch) \subseteq Tx
<1> DEFINE n == IF cursor + TxBatchSize < Len(txs) THEN cursor + TxBatchSize ELSE Len(txs)
<1>1. txs \in Seq(Tx) /\ cursor \in Nat /\ TxBatchSize \in Nat
  BY DEF EnvTypeOK, Config, TxBatchSize
<1>2. n \in Int /\ n <= Len(txs)
  BY <1>1
<1>3. \A i \in cursor + 1 .. n : txs[i] \in Tx
  BY <1>1, <1>2
<1> HIDE DEF n
<1>4. SubSeq(txs, cursor + 1, n) \in Seq(Tx)
  BY <1>1, <1>2, <1>3, SubSeqProperties
<1>5. Batch \in Seq(Tx)
  BY <1>4 DEF Batch, n
<1> QED
  BY <1>5 DEF Range

\* The related addresses are addresses, and finitely many.
LEMMA PosType ==
    ASSUME EnvTypeOK, NEW a, NEW fallback \in Address \cup {NoAddr}
    PROVE  /\ DOMAIN build_sender_pos(a, fallback) = Shard
           /\ \A s \in Shard : build_sender_pos(a, fallback)[s] \in Nat
<1>1. \A t \in Range(Batch) : /\ t.sender \in Address /\ t.recipient \in Address
                              /\ tx_related_addresses(t) \subseteq Address
  BY BatchType DEF Tx, tx_related_addresses
<1>2. build_batch_related(a) \subseteq Address
  BY <1>1 DEF build_batch_related
<1>3. RelatedSet(a, fallback) \subseteq Address
  BY <1>2 DEF RelatedSet
<1>4. ASSUME NEW s \in Shard
      PROVE  Cardinality({p \in RelatedSet(a, fallback) : addr_shard[p] = s}) \in Nat
  BY <1>3, EnvAssumption, FS_Subset, FS_CardinalityType
<1> QED
  BY <1>4 DEF build_sender_pos

\* The guard leaves a shard, and so does the choice of the best ones.
LEMMA MaskType ==
    ASSUME EnvTypeOK, NEW a, NEW pos, DOMAIN pos = Shard, \A s \in Shard : pos[s] \in Nat
    PROVE  /\ build_candidate_action_mask(a, pos) \subseteq Shard
           /\ build_candidate_action_mask(a, pos) # {}
<1>1. GuardedShards \subseteq Shard /\ GuardedShards # {}
  <2> DEFINE under == {s \in Shard : candidate_load_pressures[s] * Shards * GuardDen
                                        <= SumOver(candidate_load_pressures) * GuardNum}
  <2>1. GuardedShards = Shard \/ (GuardedShards = under /\ under # {})
    BY Zenon DEF GuardedShards
  <2> QED
    BY <2>1, ShardFinite
<1> DEFINE scores == candidate_scores(a, pos)
           Ahead(s) == {r \in GuardedShards : Before(scores, r, s)}
           top == {s \in GuardedShards : Cardinality(Ahead(s)) < config.top_k}
<1>2. \A s \in Shard : scores[s] \in Int
  BY ScoreType
<1> HIDE DEF scores
<1>3. PICK s \in GuardedShards : \A r \in GuardedShards : r = s \/ Before(scores, s, r)
  BY <1>1, <1>2, BestExists
<1>4. Ahead(s) = {}
  <2>1. SUFFICES ASSUME NEW r \in GuardedShards, Before(scores, r, s) PROVE FALSE
    OBVIOUS
  <2>2. r \in Shard /\ s \in Shard /\ scores[r] \in Int /\ scores[s] \in Int
    BY <1>1, <1>2
  <2>3. r = s \/ Before(scores, s, r)
    BY <1>3
  <2> QED
    BY <2>1, <2>2, <2>3, ShardFinite DEF Before
<1>5. CASE config.top_k = 0 \/ config.top_k >= Shards
  BY <1>1, <1>5 DEF build_candidate_action_mask
<1>6. CASE ~(config.top_k = 0 \/ config.top_k >= Shards)
  <2>1. config.top_k \in Nat
    BY DEF EnvTypeOK, Config
  <2>2. Cardinality(Ahead(s)) < config.top_k
    BY <1>4, <1>6, <2>1, FS_EmptySet
  <2>3. build_candidate_action_mask(a, pos) = top
    BY <1>6, Zenon DEF build_candidate_action_mask, scores
  <2> QED
    BY <1>1, <2>2, <2>3
<1> QED
  BY <1>5, <1>6

\* Whatever the policy answers, the address gets a shard.
LEMMA ChosenIsShard ==
    ASSUME EnvTypeOK, NEW a, NEW fallback \in Address \cup {NoAddr}, NEW output
    PROVE  safe_policy_output(a, fallback, output) \in Shard
<1> DEFINE pos == build_sender_pos(a, fallback)
           mask == build_candidate_action_mask(a, pos)
           scores == candidate_scores(a, pos)
<1>1. DOMAIN pos = Shard /\ \A s \in Shard : pos[s] \in Nat
  BY PosType
<1> HIDE DEF pos
<1>2. mask \subseteq Shard /\ mask # {}
  BY <1>1, MaskType
<1>3. \A s \in Shard : scores[s] \in Int
  BY <1>1, ScoreType
<1> HIDE DEF mask, scores
<1>4. PICK s \in mask : \A r \in mask : r = s \/ Before(scores, s, r)
  BY <1>2, <1>3, BestExists
<1>5. best_allowed_action(scores, mask) \in mask
  <2>1. \A r \in mask \ {s} : Before(scores, s, r)
    BY <1>4
  <2> QED
    BY <2>1, Zenon DEF best_allowed_action
<1>6. safe_policy_output(a, fallback, output)
        = IF output \in mask THEN output ELSE best_allowed_action(scores, mask)
  BY DEF safe_policy_output, pos, mask, scores
<1> QED
  BY <1>2, <1>5, <1>6

\* The next address to place has no shard yet.
LEMMA NextUnplaced ==
    ASSUME EnvTypeOK, Unplaced # {}
    PROVE  /\ NextPair \in Address \X (Address \cup {NoAddr})
           /\ addr_shard[NextPair[1]] = NoShard
<1>1. Unplaced \subseteq Nat
  BY DEF EnvTypeOK, Unplaced
<1>2. \E k \in Unplaced : \A j \in Unplaced : k <= j
  BY <1>1, Least
<1>3. PICK k \in Unplaced : NextPair = placements[k]
  BY <1>2, Zenon DEF NextPair
<1>4. k \in DOMAIN placements /\ addr_shard[placements[k][1]] = NoShard
  BY DEF Unplaced
<1>5. placements[k] \in Address \X (Address \cup {NoAddr})
  BY <1>4 DEF EnvTypeOK
<1> QED
  BY <1>3, <1>4, <1>5

-----------------------------------------------------------------------------
(* Placements by hash, and stage loads.                                     *)

\* HashPlaced gives every address a value of the right type and moves none.
LEMMA HashKeeps ==
    ASSUME EnvTypeOK, NEW A
    PROVE  /\ HashPlaced(A) \in [Address -> Shard \cup {NoShard}]
           /\ \A a \in Address : addr_shard[a] # NoShard => HashPlaced(A)[a] = addr_shard[a]
  BY EnvAssumption DEF EnvTypeOK, HashPlaced

\* The queue of a batch consists of addresses and related addresses.
LEMMA OrderType ==
    ASSUME EnvTypeOK
    PROVE  PlacementOrder \in Seq(Address \X (Address \cup {NoAddr}))
<1> DEFINE n == Len(Batch)
           P == Address \X (Address \cup {NoAddr})
           objects == [i \in 1 .. n |-> <<Batch[i].sender, Batch[i].recipient>>]
           senders == [i \in 1 .. n |-> <<Batch[i].sender, NoAddr>>]
           recipients == [i \in 1 .. n |-> <<Batch[i].recipient, Batch[i].sender>>]
           both(t, k) == IF k % 2 = 1 THEN <<t.sender, t.recipient>>
                                      ELSE <<t.recipient, t.sender>>
           pairs == [k \in 1 .. 2 * n |-> both(Batch[(k + 1) \div 2], k)]
<1>1. n \in Nat /\ \A i \in 1 .. n : Batch[i].sender \in Address /\ Batch[i].recipient \in Address
  BY BatchType DEF Tx
<1>2. \A k \in 1 .. 2 * n : (k + 1) \div 2 \in 1 .. n
  BY <1>1
<1> HIDE DEF n
<1>3. objects \in Seq(P) /\ senders \in Seq(P) /\ recipients \in Seq(P)
  BY <1>1
<1>4. pairs \in Seq(P)
  <2>1. \A k \in 1 .. 2 * n : pairs[k] \in P
    BY <1>1, <1>2
  <2>2. PICK m \in Nat : m = 2 * n
    BY <1>1
  <2>3. pairs \in [1 .. m -> P]
    BY <2>1, <2>2
  <2> HIDE DEF pairs, P
  <2> QED
    BY <2>3
<1>5. senders \o recipients \in Seq(P)
  BY <1>3, ConcatProperties
<1>6. \/ PlacementOrder = objects
      \/ PlacementOrder = senders \o recipients
      \/ PlacementOrder = pairs
  BY Zenon DEF PlacementOrder, n
<1> QED
  BY <1>3, <1>4, <1>5, <1>6

\* Stage loads are numbers of transactions.
LEMMA StageType ==
    ASSUME EnvTypeOK
    PROVE  StageLoads \in [Shard -> Nat]
<1>1. ASSUME NEW S \in SUBSET DOMAIN Batch PROVE Cardinality(S) \in Nat
  <2>1. IsFiniteSet(DOMAIN Batch)
    BY BatchType, FS_Interval
  <2> QED
    BY <2>1, FS_Subset, FS_CardinalityType
<1>2. ASSUME NEW s \in Shard
      PROVE  /\ Cardinality({i \in DOMAIN Batch : BatchMap[Batch[i].sender] = s}) \in Nat
             /\ Cardinality({i \in DOMAIN Batch :
                    Crosses(Batch[i]) /\ BatchMap[Batch[i].recipient] = s}) \in Nat
  BY <1>1
<1> QED
  BY <1>2 DEF StageLoads, Count

\* What is committed and what stays pending is what was pending and came in.
LEMMA BacklogConserves ==
    ASSUME NEW left \in Nat, NEW incoming \in Nat
    PROVE  LET c == capacity_backlog(left, incoming)
           IN /\ c.committed \in Nat /\ c.pending \in Nat
              /\ c.committed + c.pending = left + incoming
  BY EnvAssumption DEF capacity_backlog

-----------------------------------------------------------------------------
(* The invariant.                                                           *)

\* What the policy has placed has a shard.
ActedPlaced == \A a \in acted : addr_shard[a] \in Shard

EnvInv == EnvTypeOK /\ ActedPlaced /\ PlacementAccounting /\ StageConserved

LEMMA EnvStarts == Init => EnvInv
<1> SUFFICES ASSUME Init PROVE EnvInv
  OBVIOUS
<1>1. Zeros \in [Shard -> Nat]
  BY DEF Zeros
<1>2. EnvTypeOK
  <2>1. [w \in 1 .. Window |-> Zeros] \in Seq([Shard -> Nat])
        /\ Len([w \in 1 .. Window |-> Zeros]) = Window
    BY <1>1, EnvAssumption
  <2>2. /\ placements \in Seq(Address \X (Address \cup {NoAddr}))
        /\ actions \in Seq([address : Address, action : Shard, sampled : BOOLEAN])
    BY EmptySeq DEF Init, EnvInit
  <2>3. /\ addr_shard \in [Address -> Shard \cup {NoShard}]
        /\ summary.committed_stage_loads \in [Shard -> Nat]
        /\ summary.stage_loads \in [Shard -> Nat]
    BY <1>1 DEF Init, EnvInit, new_summary
  <2>4. /\ config \in Config /\ txs \in Seq(Tx) /\ cursor \in Nat /\ batch_id \in Nat
        /\ step \in {"idle", "place"} /\ acted \subseteq Address
    BY DEF Init, EnvInit
  <2>5. shard_load = Zeros /\ pending_loads = Zeros /\ carried = Zeros
        /\ recent_stats = [w \in 1 .. Window |-> Zeros]
    BY DEF Init, EnvInit
  <2> QED
    BY <1>1, <2>1, <2>2, <2>3, <2>4, <2>5 DEF EnvTypeOK
<1>3. ActedPlaced /\ PlacementAccounting
  <2>1. acted = {} /\ shard_load = Zeros
    BY DEF Init, EnvInit
  <2>2. \A s \in Shard : {a \in acted : addr_shard[a] = s} = {}
    BY <2>1
  <2> QED
    BY <2>1, <2>2, FS_EmptySet DEF ActedPlaced, PlacementAccounting, Zeros
<1>4. StageConserved
  BY DEF Init, EnvInit, StageConserved, new_summary, Zeros
<1> QED
  BY <1>2, <1>3, <1>4 DEF EnvInv

\* Nothing changes in the accounts if the placed addresses stay where they are.
LEMMA SameAccounts ==
    ASSUME EnvInv, acted' = acted, shard_load' = shard_load,
           \A a \in acted : addr_shard'[a] = addr_shard[a]
    PROVE  ActedPlaced' /\ PlacementAccounting'
<1>1. \A s \in Shard : {a \in acted' : addr_shard'[a] = s} = {a \in acted : addr_shard[a] = s}
  OBVIOUS
<1>2. PlacementAccounting'
  BY <1>1, Zenon DEF EnvInv, PlacementAccounting
<1> QED
  BY <1>2 DEF EnvInv, ActedPlaced

\* The same, for a step that places addresses by their hash.
LEMMA HashAccounts ==
    ASSUME EnvInv, NEW A, addr_shard' = HashPlaced(A) \/ addr_shard' = addr_shard,
           acted' = acted, shard_load' = shard_load
    PROVE  /\ addr_shard' \in [Address -> Shard \cup {NoShard}]
           /\ ActedPlaced' /\ PlacementAccounting'
<1>1. EnvTypeOK /\ ActedPlaced
  BY DEF EnvInv
<1>2. acted \subseteq Address /\ addr_shard \in [Address -> Shard \cup {NoShard}]
  BY <1>1 DEF EnvTypeOK
<1>3. addr_shard' \in [Address -> Shard \cup {NoShard}]
  BY <1>1, <1>2, HashKeeps
<1>4. \A a \in acted : addr_shard'[a] = addr_shard[a]
  BY <1>1, <1>2, HashKeeps, ShardFinite DEF ActedPlaced
<1> QED
  BY <1>3, <1>4, SameAccounts

LEMMA BeginBatchKeeps == ASSUME EnvInv, BeginBatch PROVE EnvInv'
<1>1. PICK A : addr_shard' = HashPlaced(A) \/ addr_shard' = addr_shard
  BY Zenon DEF BeginBatch
<1>2. acted' = acted /\ shard_load' = shard_load
  BY DEF BeginBatch
<1>3. /\ addr_shard' \in [Address -> Shard \cup {NoShard}]
      /\ ActedPlaced' /\ PlacementAccounting'
  BY <1>1, <1>2, HashAccounts
<1>4. PlacementOrder \in Seq(Address \X (Address \cup {NoAddr}))
  BY OrderType DEF EnvInv
<1>5. EnvTypeOK'
  <2>1. actions' \in Seq([address : Address, action : Shard, sampled : BOOLEAN])
    BY EmptySeq DEF BeginBatch
  <2>2. placements' \in Seq(Address \X (Address \cup {NoAddr}))
        /\ batch_id' \in Nat /\ step' \in {"idle", "place"}
    BY <1>4 DEF EnvInv, EnvTypeOK, BeginBatch
  <2>3. UNCHANGED <<config, txs, cursor, shard_load, pending_loads, recent_stats,
                    summary, acted, carried>>
    BY DEF BeginBatch
  <2> QED
    BY <1>3, <2>1, <2>2, <2>3 DEF EnvInv, EnvTypeOK
<1>6. StageConserved'
  BY DEF EnvInv, StageConserved, BeginBatch
<1> QED
  BY <1>3, <1>5, <1>6 DEF EnvInv

\* An address that had no shard gets one, and one more is counted there.
LEMMA PlaceKeeps == ASSUME EnvInv, NEW output, Place(output) PROVE EnvInv'
<1>1. PICK addr, chosen :
        /\ addr = NextPair[1] /\ chosen = safe_policy_output(addr, NextPair[2], output)
        /\ addr_shard' = [addr_shard EXCEPT ![addr] = chosen]
        /\ shard_load' = [shard_load EXCEPT ![chosen] = @ + 1]
        /\ actions' = Append(actions, [address |-> addr, action |-> chosen,
                                       sampled |-> chosen = output])
        /\ acted' = acted \cup {addr}
  BY Zenon DEF Place
<1>2. EnvTypeOK /\ ActedPlaced /\ PlacementAccounting /\ StageConserved /\ Unplaced # {}
  BY DEF EnvInv, Place
<1>3. UNCHANGED <<config, txs, cursor, pending_loads, recent_stats, batch_id, step,
                  placements, summary, carried>>
  BY DEF Place
<1>4. addr \in Address /\ addr_shard[addr] = NoShard /\ chosen \in Shard
  <2>1. NextPair \in Address \X (Address \cup {NoAddr}) /\ addr_shard[NextPair[1]] = NoShard
    BY <1>2, NextUnplaced
  <2>2. NextPair[2] \in Address \cup {NoAddr} /\ NextPair[1] \in Address
    BY <2>1
  <2> QED
    BY <1>1, <1>2, <2>1, <2>2, ChosenIsShard
<1>5. /\ addr_shard \in [Address -> Shard \cup {NoShard}] /\ shard_load \in [Shard -> Nat]
      /\ acted \subseteq Address
      /\ actions \in Seq([address : Address, action : Shard, sampled : BOOLEAN])
  BY <1>2 DEF EnvTypeOK
<1>6. EnvTypeOK'
  <2>1. /\ addr_shard' \in [Address -> Shard \cup {NoShard}]
        /\ shard_load' \in [Shard -> Nat] /\ acted' \subseteq Address
    BY <1>1, <1>4, <1>5
  <2>2. actions' \in Seq([address : Address, action : Shard, sampled : BOOLEAN])
    BY <1>1, <1>4, <1>5
  <2> QED
    BY <1>2, <1>3, <2>1, <2>2 DEF EnvTypeOK
<1>7. addr \notin acted
  BY <1>2, <1>4, ShardFinite DEF ActedPlaced
<1>8. ActedPlaced'
  BY <1>1, <1>2, <1>4, <1>5 DEF ActedPlaced
<1>9. ASSUME NEW s \in Shard
      PROVE  shard_load'[s] = Cardinality({a \in acted' : addr_shard'[a] = s})
  <2> DEFINE before == {a \in acted : addr_shard[a] = s}
             after == {a \in acted' : addr_shard'[a] = s}
  <2>1. IsFiniteSet(before) /\ addr \notin before /\ shard_load[s] = Cardinality(before)
    BY <1>2, <1>5, <1>7, EnvAssumption, FS_Subset DEF PlacementAccounting
  <2>2. CASE s = chosen
    <3>1. after = before \cup {addr}
      BY <1>1, <1>4, <1>5, <1>7, <2>2
    <3>2. shard_load'[s] = shard_load[s] + 1
      BY <1>1, <1>5, <2>2
    <3> HIDE DEF before, after
    <3>3. Cardinality(before \cup {addr}) = Cardinality(before) + 1
      BY <2>1, FS_AddElement
    <3> QED
      BY <2>1, <3>1, <3>2, <3>3 DEF after
  <2>3. CASE s # chosen
    <3>1. after = before
      BY <1>1, <1>4, <1>5, <1>7, <2>3
    <3>2. shard_load'[s] = shard_load[s]
      BY <1>1, <1>5, <2>3
    <3> QED
      BY <2>1, <3>1, <3>2
  <2> QED
    BY <2>2, <2>3
<1>10. StageConserved'
  BY <1>2, <1>3 DEF StageConserved
<1> QED
  BY <1>6, <1>8, <1>9, <1>10 DEF EnvInv, PlacementAccounting

\* The batch is executed: its stage loads are committed or stay pending.
LEMMA EndBatchKeeps == ASSUME EnvInv, EndBatch PROVE EnvInv'
<1> DEFINE result(s) == capacity_backlog(pending_loads[s], StageLoads[s])
           committed == [s \in Shard |-> result(s).committed]
<1>1. /\ pending_loads' = [s \in Shard |-> result(s).pending]
      /\ recent_stats' = Append(Tail(recent_stats), committed)
      /\ summary' = update_summary(BatchMetrics(committed))
      /\ addr_shard' = BatchMap
      /\ cursor' = cursor + Len(Batch)
      /\ step' = "idle"
      /\ UNCHANGED <<config, txs, shard_load, batch_id, placements, actions, acted, carried>>
  BY DEF EndBatch
<1>2. EnvTypeOK /\ StageConserved
  BY DEF EnvInv
<1>3. StageLoads \in [Shard -> Nat] /\ pending_loads \in [Shard -> Nat]
  BY <1>2, StageType DEF EnvTypeOK
<1>4. \A s \in Shard : /\ result(s).committed \in Nat /\ result(s).pending \in Nat
                       /\ result(s).committed + result(s).pending
                            = pending_loads[s] + StageLoads[s]
  BY <1>3, BacklogConserves
<1> HIDE DEF result
<1>5. committed \in [Shard -> Nat] /\ pending_loads' \in [Shard -> Nat]
  BY <1>1, <1>4
<1>6. /\ summary'.committed_stage_loads = Add(summary.committed_stage_loads, committed)
      /\ summary'.stage_loads = Add(summary.stage_loads, StageLoads)
  BY <1>1 DEF update_summary, BatchMetrics
<1>7. /\ summary.committed_stage_loads \in [Shard -> Nat]
      /\ summary.stage_loads \in [Shard -> Nat] /\ carried \in [Shard -> Nat]
  BY <1>2 DEF EnvTypeOK
<1>8. /\ summary'.committed_stage_loads \in [Shard -> Nat]
      /\ summary'.stage_loads \in [Shard -> Nat]
  BY <1>3, <1>5, <1>6, <1>7 DEF Add
<1>9. /\ addr_shard' \in [Address -> Shard \cup {NoShard}]
      /\ ActedPlaced' /\ PlacementAccounting'
  <2>1. \E A : addr_shard' = HashPlaced(A)
    BY <1>1, Zenon DEF BatchMap
  <2> QED
    BY <1>1, <2>1, HashAccounts
<1>10. recent_stats' \in Seq([Shard -> Nat]) /\ Len(recent_stats') = Window
  <2>1. recent_stats \in Seq([Shard -> Nat]) /\ Len(recent_stats) = Window
    BY <1>2 DEF EnvTypeOK
  <2>2. Tail(recent_stats) \in Seq([Shard -> Nat]) /\ Len(Tail(recent_stats)) = Window - 1
    BY <2>1, EnvAssumption
  <2> HIDE DEF committed
  <2> QED
    BY <1>1, <1>5, <2>2, EnvAssumption
<1>11. cursor' \in Nat
  BY <1>1, <1>2, BatchType DEF EnvTypeOK
<1>12. EnvTypeOK'
  <2> HIDE DEF committed
  <2>1. step' \in {"idle", "place"}
    BY <1>1
  <2>2. UNCHANGED <<config, txs, shard_load, batch_id, placements, actions, acted, carried>>
    BY <1>1
  <2> QED
    BY <1>2, <1>5, <1>8, <1>9, <1>10, <1>11, <2>1, <2>2 DEF EnvTypeOK
<1>13. StageConserved'
  <2> SUFFICES ASSUME NEW s \in Shard
               PROVE  summary'.committed_stage_loads[s] + pending_loads'[s]
                        = summary'.stage_loads[s] + carried'[s]
    BY DEF StageConserved
  <2>1. /\ summary'.committed_stage_loads[s] = summary.committed_stage_loads[s] + result(s).committed
        /\ summary'.stage_loads[s] = summary.stage_loads[s] + StageLoads[s]
        /\ pending_loads'[s] = result(s).pending /\ carried'[s] = carried[s]
    BY <1>1, <1>6 DEF Add
  <2>2. summary.committed_stage_loads[s] + pending_loads[s] = summary.stage_loads[s] + carried[s]
    BY <1>2 DEF StageConserved
  <2>3. /\ summary.committed_stage_loads[s] \in Nat /\ summary.stage_loads[s] \in Nat
        /\ carried[s] \in Nat /\ pending_loads[s] \in Nat /\ StageLoads[s] \in Nat
        /\ result(s).committed \in Nat /\ result(s).pending \in Nat
        /\ result(s).committed + result(s).pending = pending_loads[s] + StageLoads[s]
    BY <1>3, <1>4, <1>7
  <2> QED
    BY <2>1, <2>2, <2>3
<1> QED
  BY <1>9, <1>12, <1>13 DEF EnvInv

\* A new pass starts its totals from the backlog that it finds.
LEMMA NewPassKeeps ==
    ASSUME EnvInv, NEW settings \in Config, NEW window \in Seq(Tx), NEW reset,
           NewPass(settings, window, reset)
    PROVE  EnvInv'
<1>1. /\ config' = settings /\ txs' = window /\ cursor' = 0 /\ summary' = new_summary
      /\ carried' = pending_loads' /\ UNCHANGED <<step, placements, actions>>
      /\ ResetState \/ UNCHANGED <<stateVars, acted>>
  BY DEF NewPass, batchVars
<1>2. Zeros \in [Shard -> Nat] /\ \A s \in Shard : Zeros[s] = 0
  BY DEF Zeros
<1>3. /\ summary'.committed_stage_loads = Zeros /\ summary'.stage_loads = Zeros
  BY <1>1 DEF new_summary
<1>4. EnvTypeOK
  BY DEF EnvInv
<1>5. /\ addr_shard' \in [Address -> Shard \cup {NoShard}]
      /\ shard_load' \in [Shard -> Nat] /\ pending_loads' \in [Shard -> Nat]
      /\ recent_stats' \in Seq([Shard -> Nat]) /\ Len(recent_stats') = Window
      /\ batch_id' \in Nat /\ acted' \subseteq Address
  <2>1. CASE ResetState
    <3>1. [w \in 1 .. Window |-> Zeros] \in Seq([Shard -> Nat])
          /\ Len([w \in 1 .. Window |-> Zeros]) = Window
      BY <1>2, EnvAssumption
    <3> QED
      BY <1>2, <2>1, <3>1 DEF ResetState
  <2>2. CASE UNCHANGED <<stateVars, acted>>
    BY <1>4, <2>2 DEF EnvTypeOK, stateVars
  <2> QED
    BY <1>1, <2>1, <2>2
<1>6. EnvTypeOK'
  BY <1>1, <1>2, <1>3, <1>4, <1>5 DEF EnvTypeOK
<1>7. ActedPlaced' /\ PlacementAccounting'
  <2>1. CASE ResetState
    <3>1. acted' = {} /\ shard_load' = Zeros
      BY <2>1 DEF ResetState
    <3>2. \A s \in Shard : {a \in acted' : addr_shard'[a] = s} = {}
      BY <3>1
    <3> QED
      BY <1>2, <3>1, <3>2, FS_EmptySet DEF ActedPlaced, PlacementAccounting
  <2>2. CASE UNCHANGED <<stateVars, acted>>
    BY <2>2, SameAccounts DEF stateVars
  <2> QED
    BY <1>1, <2>1, <2>2
<1>8. StageConserved'
  BY <1>1, <1>2, <1>3, <1>5 DEF StageConserved
<1> QED
  BY <1>6, <1>7, <1>8 DEF EnvInv

LEMMA EnvInvStays == ASSUME EnvInv, Next \/ UNCHANGED envVars PROVE EnvInv'
<1>1. CASE BeginBatch
  BY <1>1, BeginBatchKeeps
<1>2. ASSUME NEW output \in Shard, Place(output) PROVE EnvInv'
  BY <1>2, PlaceKeeps
<1>3. CASE EndBatch
  BY <1>3, EndBatchKeeps
<1>4. ASSUME NEW settings \in Config, NEW window \in Seq(Tx), NEW reset \in BOOLEAN,
             NewPass(settings, window, reset)
      PROVE  EnvInv'
  BY <1>4, NewPassKeeps
<1>5. CASE UNCHANGED envVars
  BY <1>5, Zenon DEF envVars, stateVars, batchVars, EnvInv, EnvTypeOK, ActedPlaced,
                     PlacementAccounting, StageConserved
<1> QED
  BY <1>1, <1>2, <1>3, <1>4, <1>5 DEF Next

LEMMA EnvInvariant == Spec => []EnvInv
<1>1. Init => EnvInv
  BY EnvStarts
<1>2. EnvInv /\ [Next]_envVars => EnvInv'
  BY EnvInvStays
<1> QED
  BY <1>1, <1>2, PTL DEF Spec

-----------------------------------------------------------------------------
(* Theorems.                                                                *)

\* The environment keeps its types; in particular every placement is a shard,
\* whatever the policy answers (_place_address, _safe_policy_output).
THEOREM EnvTypes == Spec => []EnvTypeOK
<1>1. EnvInv => EnvTypeOK
  BY DEF EnvInv
<1> QED
  BY <1>1, EnvInvariant, PTL

\* shard_load counts the addresses that the policy placed and that are still
\* there (_place_address, _seed_iot_anchor_shards, _simulate_batch_loads).
THEOREM PlacementsAccounted == Spec => []PlacementAccounting
<1>1. EnvInv => PlacementAccounting
  BY DEF EnvInv
<1> QED
  BY <1>1, EnvInvariant, PTL

\* No stage load is lost or committed twice (_apply_capacity_backlog).
THEOREM StagesConserved == Spec => []StageConserved
<1>1. EnvInv => StageConserved
  BY DEF EnvInv
<1> QED
  BY <1>1, EnvInvariant, PTL

\* No address moves until all placements are forgotten (_place_address, reset).
THEOREM AddressesStay == Spec => NeverMoves
<1> DEFINE Stays == \/ \A a \in Address : addr_shard[a] # NoShard => addr_shard'[a] = addr_shard[a]
                    \/ \A a \in Address : addr_shard'[a] = NoShard
<1>1. EnvInv /\ [Next]_envVars => [Stays]_envVars
  <2> SUFFICES ASSUME EnvInv, Next PROVE Stays
    OBVIOUS
  <2>1. EnvTypeOK
    BY DEF EnvInv
  <2>2. CASE BeginBatch
    <3>1. \E A : addr_shard' = HashPlaced(A) \/ addr_shard' = addr_shard
      BY <2>2, Zenon DEF BeginBatch
    <3> QED
      BY <2>1, <3>1, HashKeeps
  <2>3. ASSUME NEW output \in Shard, Place(output) PROVE Stays
    <3>1. Unplaced # {} /\ \E chosen : addr_shard' = [addr_shard EXCEPT ![NextPair[1]] = chosen]
      BY <2>3, Zenon DEF Place
    <3>2. addr_shard[NextPair[1]] = NoShard
      BY <2>1, <3>1, NextUnplaced
    <3>3. addr_shard \in [Address -> Shard \cup {NoShard}]
      BY <2>1 DEF EnvTypeOK
    <3> QED
      BY <3>1, <3>2, <3>3
  <2>4. CASE EndBatch
    <3>1. \E A : addr_shard' = HashPlaced(A)
      BY <2>4, Zenon DEF EndBatch, BatchMap
    <3> QED
      BY <2>1, <3>1, HashKeeps
  <2>5. ASSUME NEW settings \in Config, NEW window \in Seq(Tx), NEW reset \in BOOLEAN,
               NewPass(settings, window, reset)
        PROVE  Stays
    <3>1. ResetState \/ UNCHANGED addr_shard
      BY <2>5 DEF NewPass, stateVars
    <3>2. CASE ResetState
      BY <3>2 DEF ResetState
    <3> QED
      BY <3>1, <3>2
  <2> QED
    BY <2>2, <2>3, <2>4, <2>5 DEF Next
<1> QED
  BY <1>1, EnvInvariant, PTL DEF Spec, NeverMoves

-----------------------------------------------------------------------------
(* Windows of transactions.                                                 *)

\* What the loop of load_transactions keeps.
RowAcc == [index : Nat, out : Seq(Tx)]

LEMMA ReadRowType ==
    ASSUME NEW data \in Dataset, NEW start \in Nat, NEW max \in Nat,
           NEW acc \in RowAcc, NEW k \in DOMAIN data.chain
    PROVE  ReadRow(data, start, max, acc, k) \in RowAcc
<1>1. data.chain \in Seq(ChainRow)
  BY DEF Dataset
<1>2. data.chain[k] \in ChainRow
  BY <1>1
<1>3. ChainTx(data.chain[k]) \in Tx
  BY <1>2 DEF ChainRow, ChainTx, Tx
<1>4. Append(acc.out, ChainTx(data.chain[k])) \in Seq(Tx)
  BY <1>3 DEF RowAcc
<1> QED
  BY <1>4 DEF ReadRow, RowAcc

\* The loop does what its definition says.
LEMMA RowsRead ==
    ASSUME NEW data \in Dataset, NEW start \in Nat, NEW max \in Nat
    PROVE  \E after \in [0 .. Len(data.chain) -> RowAcc] :
             /\ load_transactions(data, start, max) = Loaded(after[Len(data.chain)].out)
             /\ after[0] = [index |-> 0, out |-> <<>>]
             /\ \A k \in 1 .. Len(data.chain) :
                  after[k] = ReadRow(data, start, max, after[k - 1], k)
<1> DEFINE n == Len(data.chain)
           base == [index |-> 0, out |-> <<>>]
           E(k, x) == ReadRow(data, start, max, x, k)
           F(f) == [k \in 0 .. n |-> IF k = 0 THEN base ELSE E(k, f[k - 1])]
           after == CHOOSE f : f = F(f)
           step1 == [k \in 1 .. n |-> [x \in RowAcc |-> E(k, x)]]
<1>1. load_transactions(data, start, max) = Loaded(after[n].out)
  BY Zenon DEF load_transactions
<1>2. n \in Nat /\ DOMAIN data.chain = 1 .. n
  <2>1. data.chain \in Seq(ChainRow)
    BY DEF Dataset
  <2> QED
    BY <2>1
<1>3. base \in RowAcc
  BY DEF RowAcc
<1>4. \A k \in 1 .. n, x \in RowAcc : E(k, x) \in RowAcc
  BY <1>2, ReadRowType
<1> HIDE DEF E, base, n
<1>5. step1 \in [1 .. n -> [RowAcc -> RowAcc]]
  BY <1>4
<1>6. \A k \in 1 .. n, x \in RowAcc : step1[k][x] = E(k, x)
  OBVIOUS
<1> HIDE DEF step1
<1>7. PICK f : Iterates(n, RowAcc, base, step1, f)
  BY <1>2, <1>3, <1>5, Recursion, Zenon
<1>8. /\ f \in [0 .. n -> RowAcc] /\ f[0] = base
      /\ \A k \in 1 .. n : f[k] = E(k, f[k - 1])
  <2>1. /\ f \in [0 .. n -> RowAcc] /\ f[0] = base
        /\ \A k \in 1 .. n : f[k] = step1[k][f[k - 1]]
    BY <1>7, Zenon DEF Iterates
  <2>2. ASSUME NEW k \in 1 .. n PROVE f[k] = E(k, f[k - 1])
    <3>1. k - 1 \in 0 .. n /\ f[k - 1] \in RowAcc
      BY <1>2, <2>1
    <3> QED
      BY <1>6, <2>1, <3>1, Zenon
  <2> QED
    BY <2>1, <2>2
<1>9. f = F(f)
  BY <1>8
<1>10. after = F(after)
  BY <1>9, Zenon
<1> HIDE DEF after
<1>11. after[0] = base /\ \A k \in 1 .. n : after[k] = E(k, after[k - 1])
  BY <1>2, <1>10
<1>12. DOMAIN after = 0 .. n /\ after = [k \in 0 .. n |-> after[k]]
  BY <1>10
<1>13. 0 .. n \subseteq {k \in 0 .. n : after[k] \in RowAcc}
  <2> DEFINE G == {k \in 0 .. n : after[k] \in RowAcc}
  <2>1. 0 \in G
    BY <1>2, <1>3, <1>11
  <2>2. ASSUME NEW k \in 1 .. n, k - 1 \in G PROVE k \in G
    BY <1>2, <1>4, <1>11, <2>2
  <2> HIDE DEF G
  <2>3. 0 .. n \subseteq G
    BY <1>2, <2>1, <2>2, UpTo, Zenon
  <2> QED
    BY <2>3 DEF G
<1>14. after \in [0 .. n -> RowAcc]
  BY <1>12, <1>13
<1> QED
  BY <1>1, <1>11, <1>14, Zenon DEF n, E, base

\* What the loop of load_iot_transactions keeps.
BothAcc == [ok : BOOLEAN, index : Nat, out : Seq(Tx)]

LEMMA ReadBothType ==
    ASSUME NEW data \in Dataset, NEW start \in Nat, NEW max \in Nat,
           NEW acc \in BothAcc, NEW k \in DOMAIN data.chain
    PROVE  ReadBoth(data, start, max, acc, k) \in BothAcc
<1>1. data.scene \in Seq(SceneRow)
  BY DEF Dataset
<1>2. CASE \/ ~acc.ok \/ Full(max, acc.out) \/ ~data.chain[k].valid
           \/ acc.index + 1 > Len(data.scene)
           \/ data.scene[acc.index + 1].tx_index # acc.index
  BY <1>2 DEF ReadBoth, BothAcc
<1>3. CASE ~(\/ ~acc.ok \/ Full(max, acc.out) \/ ~data.chain[k].valid
             \/ acc.index + 1 > Len(data.scene)
             \/ data.scene[acc.index + 1].tx_index # acc.index)
  <2>1. data.scene[acc.index + 1] \in SceneRow
    BY <1>1, <1>3 DEF BothAcc
  <2>2. StateObjectTx(data.scene[acc.index + 1]) \in Tx
    BY <2>1 DEF SceneRow, StateObjectTx, Tx
  <2>3. Append(acc.out, StateObjectTx(data.scene[acc.index + 1])) \in Seq(Tx)
    BY <2>2 DEF BothAcc
  <2>4. PICK out : out = IF acc.index < start THEN acc.out
                         ELSE Append(acc.out, StateObjectTx(data.scene[acc.index + 1]))
    OBVIOUS
  <2>5. out \in Seq(Tx)
    BY <2>3, <2>4 DEF BothAcc
  <2>6. ReadBoth(data, start, max, acc, k) = [ok |-> TRUE, index |-> acc.index + 1, out |-> out]
    BY <1>3, <2>4 DEF ReadBoth
  <2> QED
    BY <2>5, <2>6 DEF BothAcc
<1> QED
  BY <1>2, <1>3

LEMMA BothRead ==
    ASSUME NEW data \in Dataset, NEW start \in Nat, NEW max \in Nat
    PROVE  \E after \in [0 .. Len(data.chain) -> BothAcc] :
             /\ load_iot(data, start, max)
                  = IF after[Len(data.chain)].ok THEN Loaded(after[Len(data.chain)].out)
                    ELSE Refused
             /\ after[0] = [ok |-> TRUE, index |-> 0, out |-> <<>>]
             /\ \A k \in 1 .. Len(data.chain) :
                  after[k] = ReadBoth(data, start, max, after[k - 1], k)
<1> DEFINE n == Len(data.chain)
           base == [ok |-> TRUE, index |-> 0, out |-> <<>>]
           E(k, x) == ReadBoth(data, start, max, x, k)
           F(f) == [k \in 0 .. n |-> IF k = 0 THEN base ELSE E(k, f[k - 1])]
           after == CHOOSE f : f = F(f)
           step1 == [k \in 1 .. n |-> [x \in BothAcc |-> E(k, x)]]
<1>1. load_iot(data, start, max) = IF after[n].ok THEN Loaded(after[n].out) ELSE Refused
  BY Zenon DEF load_iot
<1>2. n \in Nat /\ DOMAIN data.chain = 1 .. n
  <2>1. data.chain \in Seq(ChainRow)
    BY DEF Dataset
  <2> QED
    BY <2>1
<1>3. base \in BothAcc
  BY DEF BothAcc
<1>4. \A k \in 1 .. n, x \in BothAcc : E(k, x) \in BothAcc
  BY <1>2, ReadBothType
<1> HIDE DEF E, base, n
<1>5. step1 \in [1 .. n -> [BothAcc -> BothAcc]]
  BY <1>4
<1>6. \A k \in 1 .. n, x \in BothAcc : step1[k][x] = E(k, x)
  OBVIOUS
<1> HIDE DEF step1
<1>7. PICK f : Iterates(n, BothAcc, base, step1, f)
  BY <1>2, <1>3, <1>5, Recursion, Zenon
<1>8. /\ f \in [0 .. n -> BothAcc] /\ f[0] = base
      /\ \A k \in 1 .. n : f[k] = E(k, f[k - 1])
  <2>1. /\ f \in [0 .. n -> BothAcc] /\ f[0] = base
        /\ \A k \in 1 .. n : f[k] = step1[k][f[k - 1]]
    BY <1>7, Zenon DEF Iterates
  <2>2. ASSUME NEW k \in 1 .. n PROVE f[k] = E(k, f[k - 1])
    <3>1. k - 1 \in 0 .. n /\ f[k - 1] \in BothAcc
      BY <1>2, <2>1
    <3> QED
      BY <1>6, <2>1, <3>1, Zenon
  <2> QED
    BY <2>1, <2>2
<1>9. f = F(f)
  BY <1>8
<1>10. after = F(after)
  BY <1>9, Zenon
<1> HIDE DEF after
<1>11. after[0] = base /\ \A k \in 1 .. n : after[k] = E(k, after[k - 1])
  BY <1>2, <1>10
<1>12. DOMAIN after = 0 .. n /\ after = [k \in 0 .. n |-> after[k]]
  BY <1>10
<1>13. 0 .. n \subseteq {k \in 0 .. n : after[k] \in BothAcc}
  <2> DEFINE G == {k \in 0 .. n : after[k] \in BothAcc}
  <2>1. 0 \in G
    BY <1>2, <1>3, <1>11
  <2>2. ASSUME NEW k \in 1 .. n, k - 1 \in G PROVE k \in G
    BY <1>2, <1>4, <1>11, <2>2
  <2> HIDE DEF G
  <2>3. 0 .. n \subseteq G
    BY <1>2, <2>1, <2>2, UpTo, Zenon
  <2> QED
    BY <2>3 DEF G
<1>14. after \in [0 .. n -> BothAcc]
  BY <1>12, <1>13
<1> QED
  BY <1>1, <1>11, <1>14, Zenon DEF n, E, base

\* A window, loaded or refused, is a sequence of transactions.
LEMMA WindowType ==
    ASSUME NEW identity \in {"raw", "iot", "iot_v2"}, NEW data \in Dataset,
           NEW start \in Nat, NEW max \in Nat
    PROVE  LoadWindow(identity, data, start, max).txs \in Seq(Tx)
<1> DEFINE raw == load_transactions(data, start, max)
           iot == load_iot(data, start, max)
           rows == load_rows(data, start, max)
<1>1. data.chain \in Seq(ChainRow)
  BY DEF Dataset
<1>2. Refused.txs \in Seq(Tx)
  BY DEF Refused
<1>3. raw.txs \in Seq(Tx)
  <2>1. PICK after \in [0 .. Len(data.chain) -> RowAcc] : raw = Loaded(after[Len(data.chain)].out)
    BY RowsRead
  <2>2. after[Len(data.chain)].out \in Seq(Tx)
    BY <1>1 DEF RowAcc
  <2> QED
    BY <2>1, <2>2 DEF Loaded
<1>4. iot.txs \in Seq(Tx)
  <2>1. PICK after \in [0 .. Len(data.chain) -> BothAcc] :
          iot = IF after[Len(data.chain)].ok THEN Loaded(after[Len(data.chain)].out) ELSE Refused
    BY BothRead
  <2>2. after[Len(data.chain)].out \in Seq(Tx)
    BY <1>1 DEF BothAcc
  <2> QED
    BY <1>2, <2>1, <2>2 DEF Loaded
<1>5. rows.txs \in Seq(Tx)
  <2> DEFINE n == Len(data.chain)
             last == IF max > 0 /\ start + max <= n THEN start + max ELSE n
             m == IF last > start THEN last - start ELSE 0
             out == [k \in 1 .. m |-> ChainTx(data.chain[start + k])]
  <2>1. rows = Refused \/ rows = Loaded(out)
    BY Zenon DEF load_rows
  <2>2. m \in Nat /\ \A k \in 1 .. m : start + k \in DOMAIN data.chain
    BY <1>1
  <2> HIDE DEF m
  <2>3. ASSUME NEW k \in 1 .. m PROVE ChainTx(data.chain[start + k]) \in Tx
    <3>1. data.chain[start + k] \in ChainRow
      BY <1>1, <2>2
    <3> QED
      BY <3>1 DEF ChainRow, ChainTx, Tx
  <2>4. out \in Seq(Tx)
    BY <2>2, <2>3
  <2> HIDE DEF out, rows
  <2> QED
    BY <1>2, <2>1, <2>4 DEF Loaded
<1> QED
  BY <1>2, <1>3, <1>4, <1>5 DEF LoadWindow

-----------------------------------------------------------------------------
(* Training and evaluation use the environment.                             *)

\* The settings of an evaluation are settings of an environment.
LEMMA EvaluationSettings ==
    ASSUME NEW c \in Config, NEW filter
    PROVE  [c EXCEPT !.top_k = IF filter THEN @ ELSE 0,
                     !.guard = IF filter THEN @ ELSE 0] \in Config
<1>1. PICK k : k = IF filter THEN c.top_k ELSE 0
  OBVIOUS
<1>2. PICK g : g = IF filter THEN c.guard ELSE 0
  OBVIOUS
<1>3. k \in Nat /\ g \in {0, 1}
  BY <1>1, <1>2 DEF Config
<1>4. [c EXCEPT !.top_k = k] \in Config
  BY <1>3 DEF Config
<1>5. \A d \in Config : [d EXCEPT !.guard = g] \in Config
  BY <1>3 DEF Config
<1>6. [[c EXCEPT !.top_k = k] EXCEPT !.guard = g] \in Config
  BY <1>4, <1>5
<1>7. [c EXCEPT !.top_k = IF filter THEN @ ELSE 0, !.guard = IF filter THEN @ ELSE 0]
        = [[c EXCEPT !.top_k = k] EXCEPT !.guard = g]
  BY <1>1, <1>2 DEF Config
<1> QED
  BY <1>6, <1>7

\* The windows of a job are windows of transactions.
LEMMA JobTypes ==
    ASSUME NEW job \in Jobs
    PROVE  /\ job.settings \in Config /\ job.data \in Dataset /\ job.keep_placement \in BOOLEAN
           /\ LoadWindow(job.settings.identity, job.data, job.start, job.max).txs \in Seq(Tx)
           /\ LoadWindow(job.settings.identity, job.data, job.vstart, job.vmax).txs \in Seq(Tx)
           /\ LoadWindow(job.settings.identity, job.data, job.tstart, job.tmax).txs \in Seq(Tx)
<1>1. /\ job.settings \in Config /\ job.data \in Dataset /\ job.keep_placement \in BOOLEAN
      /\ job.start \in Nat /\ job.max \in Nat /\ job.vstart \in Nat /\ job.vmax \in Nat
      /\ job.tstart \in Nat /\ job.tmax \in Nat
  BY TrainingAssumption DEF Job
<1>2. job.settings.identity \in {"raw", "iot", "iot_v2"}
  BY <1>1 DEF Config
<1> QED
  BY <1>1, <1>2, WindowType

\* Every step of training and evaluation is one of the environment, or leaves it
\* alone.
LEMMA EnvironmentSteps ==
    ASSUME EnvTypeOK, args \in Jobs, TrainingNext
    PROVE  Next \/ UNCHANGED envVars
<1>1. CASE StartTraining
  <2>1. UNCHANGED envVars
        \/ NewPass(args.settings,
                   LoadWindow(args.settings.identity, args.data, args.start, args.max).txs,
                   TRUE)
    BY <1>1 DEF StartTraining, envVars, stateVars, batchVars
  <2> QED
    BY <2>1, JobTypes DEF Next
<1>2. CASE TrainBeginBatch
  BY <1>2 DEF TrainBeginBatch, Next
<1>3. CASE \E output \in Shard : TrainPlace(output)
  BY <1>3 DEF TrainPlace, Next
<1>4. CASE TrainEndBatch
  BY <1>4 DEF TrainEndBatch, Next
<1>5. CASE FinishEpoch
  BY <1>5 DEF FinishEpoch, envVars, stateVars, batchVars
<1>6. CASE \E m \in Metrics : Validate(m)
  BY <1>6 DEF Validate, envVars, stateVars, batchVars
<1>7. CASE NextEpoch
  <2>1. NewPass(config, txs, ~args.keep_placement)
    BY <1>7 DEF NextEpoch
  <2>2. config \in Config /\ txs \in Seq(Tx) /\ (~args.keep_placement) \in BOOLEAN
    BY JobTypes DEF EnvTypeOK
  <2> QED
    BY <2>1, <2>2, Zenon DEF Next
<1>8. CASE \E m \in Metrics : FinishTraining(m)
  BY <1>8 DEF FinishTraining, envVars, stateVars, batchVars
<1>9. CASE SelectCheckpoint
  BY <1>9 DEF SelectCheckpoint, envVars, stateVars, batchVars
<1>10. CASE \E p \in Policies : StartEvaluation(p)
  <2>1. PICK p \in Policies : StartEvaluation(p)
    BY <1>10
  <2>2. PICK c, w :
          /\ c = [args.settings EXCEPT !.top_k = IF p \notin {"hash", "random"} THEN @ ELSE 0,
                                       !.guard = IF p \notin {"hash", "random"} THEN @ ELSE 0]
          /\ w = load_eval_transactions
          /\ UNCHANGED envVars \/ NewPass(c, w.txs, TRUE)
    BY <2>1, Zenon DEF StartEvaluation
  <2>3. c \in Config
    BY <2>2, JobTypes, EvaluationSettings, Zenon
  <2>4. w.txs \in Seq(Tx)
    BY <2>2, JobTypes DEF load_eval_transactions
  <2> QED
    BY <2>2, <2>3, <2>4 DEF Next
<1>11. CASE EvaluateStep
  BY <1>11 DEF EvaluateStep, Next
<1>12. CASE FinishEvaluation
  BY <1>12 DEF FinishEvaluation, envVars, stateVars, batchVars
<1> QED
  BY <1>1, <1>2, <1>3, <1>4, <1>5, <1>6, <1>7, <1>8, <1>9, <1>10, <1>11, <1>12 DEF TrainingNext

LEMMA ArgsStay == ASSUME TrainingNext PROVE args' = args
  BY DEF TrainingNext, StartTraining, TrainBeginBatch, TrainPlace, TrainEndBatch, FinishEpoch,
         Validate, NextEpoch, FinishTraining, SelectCheckpoint, StartEvaluation, EvaluateStep,
         FinishEvaluation, trainVars

LEMMA EnvironmentStarts == TrainingInit => Init /\ args \in Jobs
<1> SUFFICES ASSUME TrainingInit PROVE Init /\ args \in Jobs
  OBVIOUS
<1>1. EnvInit /\ args \in Jobs /\ config = args.settings /\ txs = <<>>
  BY DEF TrainingInit
<1>2. <<>> \in Seq(Tx)
  OBVIOUS
<1> QED
  BY <1>1, <1>2, JobTypes DEF Init

\* Training, selection and evaluation use the environment as its specification
\* says, whatever the job: windows and settings are good, batches are begun,
\* placed and ended in turn, and a pass starts only between batches (train,
\* evaluate, run_batch, reset).
THEOREM TrainingUsesTheEnvironment == TrainingSpec => Spec
<1> DEFINE Good == EnvInv /\ args \in Jobs
<1>1. TrainingInit => Init /\ Good
  BY EnvironmentStarts, EnvStarts
<1>2. Good /\ [TrainingNext]_vars => Good' /\ [Next]_envVars
  <2> SUFFICES ASSUME Good, [TrainingNext]_vars PROVE Good' /\ [Next]_envVars
    OBVIOUS
  <2>1. args' = args
    BY ArgsStay DEF vars, trainVars
  <2>2. Next \/ UNCHANGED envVars
    <3>1. CASE TrainingNext
      BY <3>1, EnvironmentSteps DEF EnvInv
    <3>2. CASE UNCHANGED vars
      BY <3>2 DEF vars
    <3> QED
      BY <3>1, <3>2
  <2>3. EnvInv'
    BY <2>2, EnvInvStays
  <2> QED
    BY <2>1, <2>2, <2>3
<1> HIDE DEF Good
<1> QED
  BY <1>1, <1>2, PTL DEF TrainingSpec, Spec

\* So what holds of the environment holds in training and evaluation.
THEOREM TrainingKeepsAccounts ==
    TrainingSpec => []PlacementAccounting /\ []StageConserved /\ NeverMoves
  BY TrainingUsesTheEnvironment, PlacementsAccounted, StagesConserved, AddressesStay, Zenon

-----------------------------------------------------------------------------
(* The choice of a checkpoint.                                              *)

\* A finite set that a relation orders has a first element.
LEMMA FirstOfAll ==
    ASSUME NEW S, IsFiniteSet(S), S # {}, NEW R,
           \A x \in S : <<x, x>> \notin R,
           \A x, y, z \in S : <<x, y>> \in R /\ <<y, z>> \in R => <<x, z>> \in R
    PROVE  \E x \in S : \A y \in S : <<y, x>> \notin R
<1> DEFINE Ahead(x) == {y \in S : <<y, x>> \in R}
           N == {Cardinality(Ahead(x)) : x \in S}
<1>1. \A x \in S : IsFiniteSet(Ahead(x)) /\ Cardinality(Ahead(x)) \in Nat
  <2> SUFFICES ASSUME NEW x \in S PROVE IsFiniteSet(Ahead(x)) /\ Cardinality(Ahead(x)) \in Nat
    OBVIOUS
  <2>1. Ahead(x) \subseteq S
    OBVIOUS
  <2> HIDE DEF Ahead
  <2>2. IsFiniteSet(Ahead(x))
    BY <2>1, FS_Subset, Zenon
  <2> QED
    BY <2>2, FS_CardinalityType, Zenon
<1>2. N \in SUBSET Nat /\ N # {}
  <2> HIDE DEF Ahead
  <2>1. ASSUME NEW y \in N PROVE y \in Nat
    <3>1. PICK x \in S : y = Cardinality(Ahead(x))
      BY Zenon
    <3> QED
      BY <1>1, <3>1, Zenon
  <2>2. PICK x : x \in S
    BY Zenon
  <2>3. Cardinality(Ahead(x)) \in N
    BY <2>2, Zenon
  <2> HIDE DEF N
  <2> QED
    BY <2>1, <2>3
<1>3. PICK c \in N : \A d \in N : c <= d
  <2> HIDE DEF N
  <2> QED
    BY <1>2, Least, Zenon
<1>4. PICK x \in S : c = Cardinality(Ahead(x))
  OBVIOUS
<1>5. ASSUME NEW y \in S, <<y, x>> \in R PROVE FALSE
  <2>1. Ahead(y) \subseteq Ahead(x) /\ y \in Ahead(x) /\ y \notin Ahead(y)
    BY <1>5
  <2>2. Cardinality(Ahead(y)) \in N
    OBVIOUS
  <2> HIDE DEF Ahead, N
  <2>3. Cardinality(Ahead(y)) <= Cardinality(Ahead(x))
        /\ (Cardinality(Ahead(y)) = Cardinality(Ahead(x)) => Ahead(y) = Ahead(x))
    BY <1>1, <2>1, FS_Subset, Zenon
  <2>4. Cardinality(Ahead(y)) # Cardinality(Ahead(x))
    BY <2>1, <2>3, Zenon
  <2>5. Cardinality(Ahead(x)) <= Cardinality(Ahead(y))
    BY <1>3, <1>4, <2>2
  <2> QED
    BY <1>1, <2>3, <2>4, <2>5
<1> QED
  BY <1>5

\* Keys of one length are ordered.
LEMMA KeysOrdered ==
    ASSUME NEW n \in Nat, NEW a \in Seq(Int), NEW b \in Seq(Int), NEW c \in Seq(Int),
           Len(a) = n, Len(b) = n, Len(c) = n
    PROVE  /\ ~LexLess(a, a)
           /\ LexLess(a, b) /\ LexLess(b, c) => LexLess(a, c)
           /\ a = b \/ LexLess(a, b) \/ LexLess(b, a)
<1> USE DEF LexLess
<1>0. DOMAIN a = 1 .. n /\ DOMAIN b = 1 .. n
  OBVIOUS
<1>1. ~LexLess(a, a)
  OBVIOUS
<1>2. ASSUME LexLess(a, b), LexLess(b, c) PROVE LexLess(a, c)
  <2>1. PICK i \in 1 .. n : a[i] < b[i] /\ \A k \in 1 .. i - 1 : a[k] = b[k]
    BY <1>0, <1>2, Zenon
  <2>2. PICK j \in 1 .. n : b[j] < c[j] /\ \A k \in 1 .. j - 1 : b[k] = c[k]
    BY <1>0, <1>2, Zenon
  <2>3. CASE i <= j
    <3>1. a[i] < c[i]
      BY <2>1, <2>2, <2>3
    <3>2. \A k \in 1 .. i - 1 : a[k] = c[k]
      BY <2>1, <2>2, <2>3
    <3> QED
      BY <1>0, <3>1, <3>2, Zenon
  <2>4. CASE j < i
    <3>1. a[j] < c[j]
      BY <2>1, <2>2, <2>4
    <3>2. \A k \in 1 .. j - 1 : a[k] = c[k]
      BY <2>1, <2>2, <2>4
    <3> QED
      BY <1>0, <3>1, <3>2, Zenon
  <2> QED
    BY <2>3, <2>4
<1>3. ASSUME a # b PROVE LexLess(a, b) \/ LexLess(b, a)
  <2> DEFINE D == {i \in 1 .. n : a[i] # b[i]}
  <2>1. D \in SUBSET Nat /\ D # {}
    <3>1. D \in SUBSET Nat
      OBVIOUS
    <3>2. ASSUME D = {} PROVE FALSE
      <4>1. Len(a) = Len(b) /\ \A i \in 1 .. Len(a) : a[i] = b[i]
        BY <3>2, Zenon
      <4>2. a = b
        BY <4>1, SeqEqual, Zenon
      <4> QED
        BY <1>3, <4>2, Zenon
    <3> HIDE DEF D
    <3> QED
      BY <3>1, <3>2
  <2>2. PICK i \in D : \A j \in D : i <= j
    <3> HIDE DEF D
    <3> QED
      BY <2>1, Least, Zenon
  <2>3. i \in 1 .. n /\ a[i] # b[i] /\ \A k \in 1 .. i - 1 : a[k] = b[k] /\ b[k] = a[k]
    BY <2>2
  <2>4. a[i] < b[i] \/ b[i] < a[i]
    BY <2>3
  <2> QED
    BY <1>0, <2>3, <2>4, Zenon
<1> QED
  BY <1>1, <1>2, <1>3

\* First gives a candidate with a least key.
KeyList(keys, d, n) == /\ d \in Nat \ {0} /\ n \in Nat
                       /\ keys \in [1 .. d -> {k \in Seq(Int) : Len(k) = n}]
LeastAt(candidates, keys, d, i) ==
    /\ First(candidates, keys) = candidates[i]
    /\ \A j \in 1 .. d : ~LexLess(keys[j], keys[i])

LEMMA FirstIsLeast ==
    ASSUME NEW candidates, NEW keys, NEW d, NEW n, KeyList(keys, d, n)
    PROVE  \E i \in 1 .. d : LeastAt(candidates, keys, d, i)
<1> DEFINE R == {x \in (1 .. d) \X (1 .. d) :
                    \/ LexLess(keys[x[1]], keys[x[2]])
                    \/ keys[x[1]] = keys[x[2]] /\ x[1] < x[2]}
           Least1(i) == \A j \in DOMAIN keys :
                            ~LexLess(keys[j], keys[i]) /\ (j < i => LexLess(keys[i], keys[j]))
<1>0. /\ d \in Nat \ {0} /\ n \in Nat
      /\ keys \in [1 .. d -> {k \in Seq(Int) : Len(k) = n}]
  BY DEF KeyList
<1>1. \A i, j \in 1 .. d : <<i, j>> \in R <=> LexLess(keys[i], keys[j]) \/ (keys[i] = keys[j] /\ i < j)
  BY Zenon
<1>2. \A i, j, k \in 1 .. d :
        /\ ~LexLess(keys[i], keys[i])
        /\ LexLess(keys[i], keys[j]) /\ LexLess(keys[j], keys[k]) => LexLess(keys[i], keys[k])
        /\ keys[i] = keys[j] \/ LexLess(keys[i], keys[j]) \/ LexLess(keys[j], keys[i])
  <2> SUFFICES ASSUME NEW i \in 1 .. d, NEW j \in 1 .. d, NEW k \in 1 .. d
               PROVE  /\ ~LexLess(keys[i], keys[i])
                      /\ LexLess(keys[i], keys[j]) /\ LexLess(keys[j], keys[k])
                            => LexLess(keys[i], keys[k])
                      /\ keys[i] = keys[j] \/ LexLess(keys[i], keys[j]) \/ LexLess(keys[j], keys[i])
    BY Zenon
  <2>1. /\ keys[i] \in Seq(Int) /\ keys[j] \in Seq(Int) /\ keys[k] \in Seq(Int)
        /\ Len(keys[i]) = n /\ Len(keys[j]) = n /\ Len(keys[k]) = n
    BY <1>0
  <2> QED
    BY <1>0, <2>1, KeysOrdered, Zenon
<1> HIDE DEF R
<1>3. IsFiniteSet(1 .. d) /\ (1 .. d) # {}
  <2>1. 1 \in Int /\ d \in Int /\ d \in 1 .. d
    BY <1>0
  <2> QED
    BY <2>1, FS_Interval, Zenon
<1>4. \A i \in 1 .. d : <<i, i>> \notin R
  BY <1>1, <1>2
<1>5. \A i, j, k \in 1 .. d : <<i, j>> \in R /\ <<j, k>> \in R => <<i, k>> \in R
  <2> SUFFICES ASSUME NEW i \in 1 .. d, NEW j \in 1 .. d, NEW k \in 1 .. d,
                      <<i, j>> \in R, <<j, k>> \in R
               PROVE  <<i, k>> \in R
    BY Zenon
  <2>1. LexLess(keys[i], keys[j]) \/ (keys[i] = keys[j] /\ i < j)
    BY <1>1, Zenon
  <2>2. LexLess(keys[j], keys[k]) \/ (keys[j] = keys[k] /\ j < k)
    BY <1>1, Zenon
  <2>3. CASE keys[i] = keys[j] /\ i < j /\ keys[j] = keys[k] /\ j < k
    <3>1. i < k
      BY <1>0, <2>3
    <3> QED
      BY <1>1, <2>3, <3>1, Zenon
  <2>4. CASE LexLess(keys[i], keys[k])
    BY <1>1, <2>4, Zenon
  <2>5. \/ keys[i] = keys[j] /\ i < j /\ keys[j] = keys[k] /\ j < k
        \/ LexLess(keys[i], keys[k])
    BY <1>2, <2>1, <2>2, Zenon
  <2> QED
    BY <2>3, <2>4, <2>5, Zenon
<1>6. PICK i \in 1 .. d : \A j \in 1 .. d : <<j, i>> \notin R
  <2>1. PICK S : S = 1 .. d
    OBVIOUS
  <2>2. /\ IsFiniteSet(S) /\ S # {} /\ \A x \in S : <<x, x>> \notin R
        /\ \A x, y, z \in S : <<x, y>> \in R /\ <<y, z>> \in R => <<x, z>> \in R
    BY <1>3, <1>4, <1>5, <2>1, Zenon
  <2>3. \E x \in S : \A y \in S : <<y, x>> \notin R
    BY <2>2, FirstOfAll, Zenon
  <2> QED
    BY <2>1, <2>3, Zenon
<1>8. DOMAIN keys = 1 .. d
  BY <1>0
<1>7. Least1(i)
  <2> SUFFICES ASSUME NEW j \in 1 .. d
               PROVE  /\ ~LexLess(keys[j], keys[i])
                      /\ j < i => LexLess(keys[i], keys[j])
    BY <1>8, Zenon
  <2>1. ~LexLess(keys[j], keys[i]) /\ ~(keys[j] = keys[i] /\ j < i)
    BY <1>1, <1>6, Zenon
  <2> QED
    BY <1>2, <2>1, Zenon
<1>9. PICK k : k = CHOOSE j \in DOMAIN keys : Least1(j)
  BY Zenon
<1>10. k \in 1 .. d /\ Least1(k)
  BY <1>7, <1>8, <1>9, Zenon
<1>11. First(candidates, keys) = candidates[k]
  BY <1>9, Zenon DEF First
<1> QED
  BY <1>8, <1>10, <1>11, Zenon DEF LeastAt

\* The fields of a record that the selection looks at.
LEMMA RecordTypes ==
    ASSUME NEW r \in ValidationRecord
    PROVE  /\ r.m.score \in Int /\ r.m.cross \in Nat /\ r.m.hot \in Nat /\ r.m.active \in Nat
           /\ r.m.cost \in Nat /\ r.epoch \in Nat /\ r.event \in {0, 1}
           /\ r.path \in Path \cup {None}
<1>1. r.m \in Metrics /\ r.epoch \in Nat /\ r.event \in {0, 1} /\ r.path \in Path \cup {None}
  BY DEF ValidationRecord
<1>2. r.m \in [score : Int, cross : Nat, hot : Nat, active : Nat, cost : Nat]
  BY <1>1, TrainingAssumption
<1> QED
  BY <1>1, <1>2

\* Dominance is an order, and guardrails hold of a record that dominates one in
\* which they hold.
LEMMA DominanceOrders ==
    ASSUME NEW a \in ValidationRecord, NEW b \in ValidationRecord, NEW c \in ValidationRecord
    PROVE  /\ ~checkpoint_dominates(a.m, a.m)
           /\ checkpoint_dominates(a.m, b.m) /\ checkpoint_dominates(b.m, c.m)
                => checkpoint_dominates(a.m, c.m)
           /\ checkpoint_dominates(a.m, b.m) =>
                /\ a.m.cross <= b.m.cross
                /\ Eligible(b) => Eligible(a)
                /\ Tolerable(b) => Tolerable(a)
           /\ Eligible(a) => Tolerable(a)
<1>1. MinActive \in Nat /\ MaxHotspot \in Nat /\ MaxDeficit \in Nat
  BY TrainingAssumption
<1>2. /\ a.m.cross \in Nat /\ a.m.hot \in Nat /\ a.m.active \in Nat /\ a.m.cost \in Nat
      /\ b.m.cross \in Nat /\ b.m.hot \in Nat /\ b.m.active \in Nat /\ b.m.cost \in Nat
      /\ c.m.cross \in Nat /\ c.m.hot \in Nat /\ c.m.active \in Nat /\ c.m.cost \in Nat
  BY RecordTypes
<1>3. ~checkpoint_dominates(a.m, a.m)
  BY <1>2 DEF checkpoint_dominates
<1>4. checkpoint_dominates(a.m, b.m) /\ checkpoint_dominates(b.m, c.m)
        => checkpoint_dominates(a.m, c.m)
  BY <1>2 DEF checkpoint_dominates
<1>5. checkpoint_dominates(a.m, b.m) =>
        a.m.cross <= b.m.cross /\ a.m.hot <= b.m.hot /\ a.m.active >= b.m.active
  BY DEF checkpoint_dominates
<1>6. a.m.hot <= b.m.hot /\ a.m.active >= b.m.active => (Eligible(b) => Eligible(a))
  BY <1>1, <1>2 DEF Eligible
<1>7. /\ active_deficit(a) \in Nat /\ active_deficit(b) \in Nat
      /\ a.m.active >= b.m.active => active_deficit(a) <= active_deficit(b)
      /\ a.m.active >= MinActive => active_deficit(a) = 0
  BY <1>1, <1>2 DEF active_deficit
<1>8. MaxDeficit * MinActive \in Nat
  BY <1>1
<1>9. a.m.hot <= b.m.hot /\ a.m.active >= b.m.active => (Tolerable(b) => Tolerable(a))
  <2>1. PICK x, y, z : x = active_deficit(a) /\ y = active_deficit(b) /\ z = MaxDeficit * MinActive
    OBVIOUS
  <2>2. x \in Nat /\ y \in Nat /\ z \in Nat
    BY <1>7, <1>8, <2>1
  <2>3. x <= y /\ y * 100 <= z => x * 100 <= z
    BY <2>2
  <2> QED
    BY <1>1, <1>2, <1>7, <2>1, <2>3 DEF Tolerable
<1>10. Eligible(a) => Tolerable(a)
  BY <1>7, <1>8 DEF Eligible, Tolerable
<1> QED
  BY <1>3, <1>4, <1>5, <1>6, <1>9, <1>10

Undominated(i) ==
    \A k \in DOMAIN records : ~checkpoint_dominates(records[k].m, records[i].m)

\* The frontier is made of the records that none dominates, and covers the others.
LEMMA FrontierCovers ==
    ASSUME records \in Seq(ValidationRecord), NEW k \in DOMAIN records
    PROVE  \E j \in DOMAIN records :
             /\ Undominated(j)
             /\ j = k \/ checkpoint_dominates(records[j].m, records[k].m)
<1> DEFINE Over(j, i) == checkpoint_dominates(records[j].m, records[i].m)
           S == {j \in DOMAIN records : j = k \/ Over(j, k)}
           R == {x \in S \X S : Over(x[1], x[2])}
<1>1. \A i \in DOMAIN records : records[i] \in ValidationRecord
  OBVIOUS
<1>2. \A i, j, l \in DOMAIN records : ~Over(i, i) /\ (Over(i, j) /\ Over(j, l) => Over(i, l))
  BY <1>1, DominanceOrders, Zenon
<1>3. IsFiniteSet(DOMAIN records)
  <2>1. DOMAIN records = 1 .. Len(records) /\ 1 \in Int /\ Len(records) \in Int
    OBVIOUS
  <2> QED
    BY <2>1, FS_Interval, Zenon
<1> HIDE DEF Over
<1>4. S \subseteq DOMAIN records /\ k \in S
  OBVIOUS
<1>5. \A i, j \in S : <<i, j>> \in R <=> Over(i, j)
  BY Zenon
<1>6. IsFiniteSet(S) /\ S # {}
  BY <1>3, <1>4, FS_Subset, Zenon
<1>7. \A i \in S : <<i, i>> \notin R
  BY <1>2, <1>4, <1>5, Zenon
<1>8. \A i, j, l \in S : <<i, j>> \in R /\ <<j, l>> \in R => <<i, l>> \in R
  <2> HIDE DEF R, S
  <2> QED
    BY <1>2, <1>4, <1>5
<1>9. PICK j \in S : \A i \in S : <<i, j>> \notin R
  <2> HIDE DEF R, S
  <2> QED
    BY <1>6, <1>7, <1>8, FirstOfAll, Zenon
<1>10. ASSUME NEW i \in DOMAIN records, Over(i, j) PROVE FALSE
  <2>1. i \in S
    BY <1>2, <1>4, <1>10, Zenon
  <2> QED
    BY <1>5, <1>9, <1>10, <2>1, Zenon
<1>11. j \in DOMAIN records /\ (j = k \/ Over(j, k))
  OBVIOUS
<1>12. Undominated(j)
  BY <1>10, Zenon DEF Undominated, Over
<1> QED
  BY <1>11, <1>12, Zenon DEF Over

\* The keys of the two rankings.
LEMMA StrictKey ==
    ASSUME NEW r \in ValidationRecord
    PROVE  /\ strict_sort_key(r) \in Seq(Int)
           /\ Len(strict_sort_key(r)) = IF V3 THEN 6 ELSE 5
           /\ ~V3 => strict_sort_key(r)[1] = r.m.cross
<1> DEFINE five == <<r.m.cross, r.m.hot, -r.m.active, r.epoch, r.event>>
<1>1. /\ r.m.score \in Int /\ r.m.cross \in Nat /\ r.m.hot \in Nat /\ r.m.active \in Nat
      /\ r.epoch \in Nat /\ r.event \in {0, 1}
  BY RecordTypes
<1>2. five \in Seq(Int) /\ Len(five) = 5 /\ five[1] = r.m.cross
  BY <1>1
<1>3. <<-r.m.score>> \in Seq(Int) /\ Len(<<-r.m.score>>) = 1
  BY <1>1
<1>4. strict_sort_key(r) = (IF V3 THEN <<-r.m.score>> ELSE <<>>) \o five
  BY DEF strict_sort_key
<1> HIDE DEF five
<1>5. CASE V3
  <2>1. PICK one : one = <<-r.m.score>>
    OBVIOUS
  <2>2. one \in Seq(Int) /\ Len(one) = 1 /\ strict_sort_key(r) = one \o five
    BY <1>3, <1>4, <1>5, <2>1, Zenon
  <2>3. one \o five \in Seq(Int) /\ Len(one \o five) = Len(one) + Len(five)
    BY <1>2, <2>2, ConcatProperties, Zenon
  <2> QED
    BY <1>2, <1>5, <2>2, <2>3
<1>6. CASE ~V3
  <2>1. strict_sort_key(r) = <<>> \o five
    BY <1>4, <1>6, Zenon
  <2>2. <<>> \o five = five
    BY <1>2
  <2> QED
    BY <1>2, <1>6, <2>1, <2>2
<1> QED
  BY <1>5, <1>6

LEMMA FallbackKey ==
    ASSUME NEW r \in ValidationRecord
    PROVE  /\ fallback_sort_key(r) \in Seq(Int)
           /\ Len(fallback_sort_key(r)) = IF V3 THEN 7 ELSE 5
<1> DEFINE four == <<r.m.cross, r.m.hot, r.epoch, r.event>>
<1>1. /\ r.m.cross \in Nat /\ r.m.hot \in Nat /\ r.m.active \in Nat
      /\ r.epoch \in Nat /\ r.event \in {0, 1}
  BY RecordTypes
<1>2. four \in Seq(Int) /\ Len(four) = 4
  BY <1>1
<1>3. active_deficit(r) \in Int
  BY <1>1, TrainingAssumption DEF active_deficit
<1>4. <<active_deficit(r)>> \in Seq(Int) /\ Len(<<active_deficit(r)>>) = 1
  BY <1>3
<1>5. fallback_sort_key(r) = <<active_deficit(r)>> \o (IF V3 THEN strict_sort_key(r) ELSE four)
  BY DEF fallback_sort_key
<1> HIDE DEF four
<1>6. PICK one, rest : one = <<active_deficit(r)>>
                       /\ rest = IF V3 THEN strict_sort_key(r) ELSE four
  OBVIOUS
<1>7. one \in Seq(Int) /\ Len(one) = 1 /\ fallback_sort_key(r) = one \o rest
  BY <1>4, <1>5, <1>6, Zenon
<1>8. rest \in Seq(Int) /\ Len(rest) = IF V3 THEN 6 ELSE 4
  <2>1. CASE V3
    <3>1. rest = strict_sort_key(r)
      BY <1>6, <2>1
    <3> QED
      BY <2>1, <3>1, StrictKey
  <2>2. CASE ~V3
    BY <1>2, <1>6, <2>2
  <2> QED
    BY <2>1, <2>2
<1>9. one \o rest \in Seq(Int) /\ Len(one \o rest) = Len(one) + Len(rest)
  BY <1>7, <1>8, ConcatProperties, Zenon
<1> QED
  BY <1>7, <1>8, <1>9

\* What select_candidate_decision selects.
Selected(k) ==
    /\ Tolerable(records[k])
    /\ \A j \in DOMAIN records : Eligible(records[j]) =>
         Eligible(records[k]) /\ (V3 \/ records[k].m.cross <= records[j].m.cross)

\* A filter of the frontier keeps the records on it with the guardrails.
LEMMA FrontierKept ==
    ASSUME records \in Seq(ValidationRecord), NEW front, front = checkpoint_pareto_frontier,
           NEW P, P \subseteq DOMAIN front
    PROVE  /\ Kept(front, P) \in Seq(ValidationRecord)
           /\ \A i \in DOMAIN Kept(front, P) : \E k \in DOMAIN records :
                /\ Undominated(k) /\ Kept(front, P)[i] = records[k]
                /\ \E x \in P : front[x] = records[k]
           /\ \A k \in DOMAIN records : Undominated(k) =>
                \E x \in DOMAIN front :
                    /\ front[x] = records[k]
                    /\ x \in P => \E i \in DOMAIN Kept(front, P) : Kept(front, P)[i] = records[k]
<1>1. PICK Q : Q = {i \in DOMAIN records : Undominated(i)}
  OBVIOUS
<1>2. front = Kept(records, Q)
  BY <1>1, Zenon DEF checkpoint_pareto_frontier, Undominated
<1>3. /\ front \in Seq(ValidationRecord)
      /\ \A x \in DOMAIN front : \E k \in Q \cap DOMAIN records : front[x] = records[k]
      /\ \A k \in Q \cap DOMAIN records : \E x \in DOMAIN front : front[x] = records[k]
  <2>1. /\ Kept(records, Q) \in Seq(ValidationRecord)
        /\ \A x \in DOMAIN Kept(records, Q) : \E k \in Q \cap DOMAIN records :
              Kept(records, Q)[x] = records[k]
        /\ \A k \in Q \cap DOMAIN records : \E x \in DOMAIN Kept(records, Q) :
              Kept(records, Q)[x] = records[k]
    BY KeptItems
  <2> QED
    BY <1>2, <2>1, Zenon
<1>4. PICK kept : kept = Kept(front, P)
  OBVIOUS
<1>5. /\ kept \in Seq(ValidationRecord)
      /\ \A i \in DOMAIN kept : \E x \in P \cap DOMAIN front : kept[i] = front[x]
      /\ \A x \in P \cap DOMAIN front : \E i \in DOMAIN kept : kept[i] = front[x]
  <2>0. front \in Seq(ValidationRecord)
    BY <1>3, Zenon
  <2>1. /\ Kept(front, P) \in Seq(ValidationRecord)
        /\ \A i \in DOMAIN Kept(front, P) : \E x \in P \cap DOMAIN front :
              Kept(front, P)[i] = front[x]
        /\ \A x \in P \cap DOMAIN front : \E i \in DOMAIN Kept(front, P) :
              Kept(front, P)[i] = front[x]
    BY <2>0, KeptItems
  <2> QED
    BY <1>4, <2>1, Zenon
<1>6. ASSUME NEW i \in DOMAIN kept
      PROVE  \E k \in DOMAIN records : /\ Undominated(k) /\ kept[i] = records[k]
                                       /\ \E x \in P : front[x] = records[k]
  <2>1. PICK x \in P \cap DOMAIN front : kept[i] = front[x]
    BY <1>5, Zenon
  <2>2. PICK k \in Q \cap DOMAIN records : front[x] = records[k]
    BY <1>3, Zenon
  <2> QED
    BY <1>1, <2>1, <2>2
<1>7. ASSUME NEW k \in DOMAIN records, Undominated(k)
      PROVE  \E x \in DOMAIN front :
                /\ front[x] = records[k]
                /\ x \in P => \E i \in DOMAIN kept : kept[i] = records[k]
  <2>1. PICK x \in DOMAIN front : front[x] = records[k]
    BY <1>1, <1>3, <1>7
  <2>2. x \in P => \E i \in DOMAIN kept : kept[i] = records[k]
    BY <1>5, <2>1
  <2> QED
    BY <2>1, <2>2
<1> QED
  BY <1>4, <1>5, <1>6, <1>7, Zenon

\* The selection is sound and complete with respect to all records.
LEMMA Selection ==
    ASSUME records \in Seq(ValidationRecord)
    PROVE  \/ /\ select_candidate = None
              /\ \A k \in DOMAIN records : ~Tolerable(records[k])
           \/ /\ select_candidate # None
              /\ \E k \in DOMAIN records : select_candidate = records[k] /\ Selected(k)
<1>1. PICK front : front = checkpoint_pareto_frontier
  OBVIOUS
<1>2. PICK P : P = {i \in DOMAIN front : Eligible(front[i])}
  OBVIOUS
<1>3. PICK T : T = {i \in DOMAIN front : Tolerable(front[i])}
  OBVIOUS
<1>4. PICK strict : strict = Kept(front, P)
  OBVIOUS
<1>5. PICK relaxed : relaxed = Kept(front, T)
  OBVIOUS
<1>6. PICK skeys : skeys = [i \in DOMAIN strict |-> strict_sort_key(strict[i])]
  OBVIOUS
<1>7. PICK rkeys : rkeys = [i \in DOMAIN relaxed |-> fallback_sort_key(relaxed[i])]
  OBVIOUS
<1>8. select_candidate = IF strict # <<>> THEN First(strict, skeys)
                         ELSE IF relaxed # <<>> THEN First(relaxed, rkeys) ELSE None
  BY <1>1, <1>2, <1>3, <1>4, <1>5, <1>6, <1>7, Zenon DEF select_candidate
<1>9. \A k \in DOMAIN records : records[k] \in ValidationRecord /\ records[k] # None
  BY TrainingAssumption
<1>10. /\ strict \in Seq(ValidationRecord)
       /\ \A i \in DOMAIN strict : \E k \in DOMAIN records :
            Undominated(k) /\ strict[i] = records[k] /\ Eligible(records[k])
       /\ \A k \in DOMAIN records : Undominated(k) /\ Eligible(records[k]) =>
            \E i \in DOMAIN strict : strict[i] = records[k]
  <2>1. P \subseteq DOMAIN front /\ \A x \in DOMAIN front : x \in P <=> Eligible(front[x])
    BY <1>2
  <2>2. /\ strict \in Seq(ValidationRecord)
        /\ \A i \in DOMAIN strict : \E k \in DOMAIN records :
             /\ Undominated(k) /\ strict[i] = records[k]
             /\ \E x \in P : front[x] = records[k]
        /\ \A k \in DOMAIN records : Undominated(k) =>
             \E x \in DOMAIN front :
                 /\ front[x] = records[k]
                 /\ x \in P => \E i \in DOMAIN strict : strict[i] = records[k]
    BY <1>1, <1>4, <2>1, FrontierKept
  <2>3. ASSUME NEW x \in DOMAIN front, NEW k, front[x] = records[k]
        PROVE  x \in P <=> Eligible(records[k])
    BY <2>1, <2>3, Zenon
  <2> QED
    BY <2>1, <2>2, <2>3, Zenon
<1>11. /\ relaxed \in Seq(ValidationRecord)
       /\ \A i \in DOMAIN relaxed : \E k \in DOMAIN records :
            Undominated(k) /\ relaxed[i] = records[k] /\ Tolerable(records[k])
       /\ \A k \in DOMAIN records : Undominated(k) /\ Tolerable(records[k]) =>
            \E i \in DOMAIN relaxed : relaxed[i] = records[k]
  <2>1. T \subseteq DOMAIN front /\ \A x \in DOMAIN front : x \in T <=> Tolerable(front[x])
    BY <1>3
  <2>2. /\ relaxed \in Seq(ValidationRecord)
        /\ \A i \in DOMAIN relaxed : \E k \in DOMAIN records :
             /\ Undominated(k) /\ relaxed[i] = records[k]
             /\ \E x \in T : front[x] = records[k]
        /\ \A k \in DOMAIN records : Undominated(k) =>
             \E x \in DOMAIN front :
                 /\ front[x] = records[k]
                 /\ x \in T => \E i \in DOMAIN relaxed : relaxed[i] = records[k]
    BY <1>1, <1>5, <2>1, FrontierKept
  <2>3. ASSUME NEW x \in DOMAIN front, NEW k, front[x] = records[k]
        PROVE  x \in T <=> Tolerable(records[k])
    BY <2>1, <2>3, Zenon
  <2> QED
    BY <2>1, <2>2, <2>3, Zenon
<1>12. \A k \in DOMAIN records : \E j \in DOMAIN records :
          /\ Undominated(j) /\ records[j].m.cross <= records[k].m.cross
          /\ Eligible(records[k]) => Eligible(records[j])
          /\ Tolerable(records[k]) => Tolerable(records[j])
  <2> SUFFICES ASSUME NEW k \in DOMAIN records
               PROVE  \E j \in DOMAIN records :
                        /\ Undominated(j) /\ records[j].m.cross <= records[k].m.cross
                        /\ Eligible(records[k]) => Eligible(records[j])
                        /\ Tolerable(records[k]) => Tolerable(records[j])
    BY Zenon
  <2>1. PICK j \in DOMAIN records :
          Undominated(j) /\ (j = k \/ checkpoint_dominates(records[j].m, records[k].m))
    BY FrontierCovers, Zenon
  <2>2. CASE j = k
    <3>1. records[k].m.cross \in Nat
      BY <1>9, RecordTypes
    <3>2. records[j].m.cross <= records[k].m.cross
      BY <2>2, <3>1
    <3> QED
      BY <2>1, <2>2, <3>2, Zenon
  <2>3. CASE checkpoint_dominates(records[j].m, records[k].m)
    BY <1>9, <2>1, <2>3, DominanceOrders, Zenon
  <2> QED
    BY <2>1, <2>2, <2>3, Zenon
<1>13. CASE strict # <<>>
  <2>1. PICK d : d = Len(strict)
    OBVIOUS
  <2>2. d \in Nat \ {0} /\ DOMAIN strict = 1 .. d
    BY <1>10, <1>13, <2>1
  <2>3. PICK n \in Nat : n = IF V3 THEN 6 ELSE 5
    OBVIOUS
  <2>4. \A i \in 1 .. d : /\ skeys[i] = strict_sort_key(strict[i]) /\ strict[i] \in ValidationRecord
                          /\ skeys[i] \in Seq(Int) /\ Len(skeys[i]) = n
                          /\ ~V3 => skeys[i][1] = strict[i].m.cross
    <3> SUFFICES ASSUME NEW i \in 1 .. d
                 PROVE /\ skeys[i] = strict_sort_key(strict[i]) /\ strict[i] \in ValidationRecord
                       /\ skeys[i] \in Seq(Int) /\ Len(skeys[i]) = n
                       /\ ~V3 => skeys[i][1] = strict[i].m.cross
      BY Zenon
    <3>1. skeys[i] = strict_sort_key(strict[i]) /\ strict[i] \in ValidationRecord
      BY <1>6, <1>10, <2>2
    <3> QED
      BY <2>3, <3>1, StrictKey, Zenon
  <2>5. skeys \in [1 .. d -> Seq(Int)]
    BY <1>6, <2>2, <2>4
  <2>6. PICK i \in 1 .. d : /\ First(strict, skeys) = strict[i]
                            /\ \A j \in 1 .. d : ~LexLess(skeys[j], skeys[i])
    <3>1. \A i \in 1 .. d : skeys[i] \in {k \in Seq(Int) : Len(k) = n}
      BY <2>4
    <3>2. d \in Nat \ {0}
      BY <2>2
    <3>3. skeys \in [1 .. d -> {k \in Seq(Int) : Len(k) = n}]
      BY <2>5, <3>1
    <3>4. KeyList(skeys, d, n)
      BY <2>3, <3>2, <3>3 DEF KeyList
    <3> QED
      BY <3>4, FirstIsLeast, Zenon DEF LeastAt
  <2>7. PICK k \in DOMAIN records : strict[i] = records[k] /\ Eligible(records[k])
    BY <1>10, <2>2, <2>6, Zenon
  <2>8. ASSUME ~V3, NEW j \in 1 .. d PROVE records[k].m.cross <= strict[j].m.cross
    <3>1. skeys[i][1] = records[k].m.cross /\ skeys[j][1] = strict[j].m.cross
      BY <2>4, <2>7, <2>8, Zenon
    <3>2. records[k].m.cross \in Nat /\ strict[j].m.cross \in Nat
      BY <1>9, <2>4, RecordTypes, Zenon
    <3>3. DOMAIN skeys[j] = 1 .. n /\ 1 \in 1 .. n
      BY <2>3, <2>4
    <3>4. ~(skeys[j][1] < skeys[i][1])
      <4>1. ASSUME skeys[j][1] < skeys[i][1] PROVE FALSE
        <5>1. \A x \in 1 .. 1 - 1 : skeys[j][x] = skeys[i][x]
          OBVIOUS
        <5> QED
          BY <2>6, <3>3, <4>1, <5>1, Zenon DEF LexLess
      <4> QED
        BY <4>1
    <3> QED
      BY <3>1, <3>2, <3>4
  <2>9. ASSUME NEW j \in DOMAIN records, Eligible(records[j]), ~V3
        PROVE  records[k].m.cross <= records[j].m.cross
    <3>1. PICK f \in DOMAIN records : /\ Undominated(f) /\ Eligible(records[f])
                                      /\ records[f].m.cross <= records[j].m.cross
      BY <1>12, <2>9, Zenon
    <3>2. PICK x \in 1 .. d : strict[x] = records[f]
      BY <1>10, <2>2, <3>1, Zenon
    <3>3. records[k].m.cross <= records[f].m.cross
      BY <2>8, <2>9, <3>2
    <3>4. /\ records[k].m.cross \in Nat /\ records[j].m.cross \in Nat
          /\ records[f].m.cross \in Nat
      BY <1>9, RecordTypes, Zenon
    <3> QED
      BY <3>1, <3>3, <3>4
  <2>10. Tolerable(records[k])
    BY <1>9, <2>7, DominanceOrders, Zenon
  <2>11. Selected(k)
    BY <2>7, <2>9, <2>10, Zenon DEF Selected
  <2> QED
    BY <1>8, <1>9, <1>13, <2>6, <2>7, <2>11, Zenon
<1>14. ASSUME strict = <<>>, NEW j \in DOMAIN records, Eligible(records[j]) PROVE FALSE
  <2>1. PICK f \in DOMAIN records : Undominated(f) /\ Eligible(records[f])
    BY <1>12, <1>14, Zenon
  <2>2. PICK i \in DOMAIN strict : strict[i] = records[f]
    BY <1>10, <2>1, Zenon
  <2> QED
    BY <1>14, <2>2
<1>15. CASE strict = <<>> /\ relaxed # <<>>
  <2>1. PICK d : d = Len(relaxed)
    OBVIOUS
  <2>2. d \in Nat \ {0} /\ DOMAIN relaxed = 1 .. d
    BY <1>11, <1>15, <2>1
  <2>3. PICK n \in Nat : n = IF V3 THEN 7 ELSE 5
    OBVIOUS
  <2>4. \A i \in 1 .. d : rkeys[i] \in Seq(Int) /\ Len(rkeys[i]) = n
    <3> SUFFICES ASSUME NEW i \in 1 .. d PROVE rkeys[i] \in Seq(Int) /\ Len(rkeys[i]) = n
      BY Zenon
    <3>1. rkeys[i] = fallback_sort_key(relaxed[i]) /\ relaxed[i] \in ValidationRecord
      BY <1>7, <1>11, <2>2
    <3> QED
      BY <2>3, <3>1, FallbackKey, Zenon
  <2>5. rkeys \in [1 .. d -> Seq(Int)]
    BY <1>7, <2>2, <2>4
  <2>6. PICK i \in 1 .. d : First(relaxed, rkeys) = relaxed[i]
    <3>1. \A i \in 1 .. d : rkeys[i] \in {k \in Seq(Int) : Len(k) = n}
      BY <2>4
    <3>2. d \in Nat \ {0}
      BY <2>2
    <3>3. rkeys \in [1 .. d -> {k \in Seq(Int) : Len(k) = n}]
      BY <2>5, <3>1
    <3>4. KeyList(rkeys, d, n)
      BY <2>3, <3>2, <3>3 DEF KeyList
    <3> QED
      BY <3>4, FirstIsLeast, Zenon DEF LeastAt
  <2>7. PICK k \in DOMAIN records : relaxed[i] = records[k] /\ Tolerable(records[k])
    BY <1>11, <2>2, <2>6, Zenon
  <2>8. Selected(k)
    BY <1>14, <1>15, <2>7, Zenon DEF Selected
  <2> QED
    BY <1>8, <1>9, <1>15, <2>6, <2>7, <2>8, Zenon
<1>16. CASE strict = <<>> /\ relaxed = <<>>
  <2>1. ASSUME NEW k \in DOMAIN records, Tolerable(records[k]) PROVE FALSE
    <3>1. PICK f \in DOMAIN records : Undominated(f) /\ Tolerable(records[f])
      BY <1>12, <2>1, Zenon
    <3>2. PICK i \in DOMAIN relaxed : relaxed[i] = records[f]
      BY <1>11, <3>1, Zenon
    <3> QED
      BY <1>16, <3>2
  <2> QED
    BY <1>8, <1>16, <2>1, Zenon
<1> QED
  BY <1>13, <1>15, <1>16, Zenon

-----------------------------------------------------------------------------
(* Samples.                                                                 *)

\* Samples of the same decisions.
Alike(s, t) == /\ s \in Seq(Sample) /\ t \in Seq(Sample) /\ Len(s) = Len(t)
               /\ \A i \in 1 .. Len(t) : s[i].id = t[i].id /\ s[i].sampled = t[i].sampled

\* The last sample gets another next state and discount.
LEMMA LastSettled ==
    ASSUME NEW b \in Seq(Sample), b # <<>>, NEW x \in {"next", "own", "end"}, NEW g \in Nat
    PROVE  Alike([b EXCEPT ![Len(b)].next = x, ![Len(b)].gap = g], b)
<1>1. PICK n : n = Len(b)
  OBVIOUS
<1>2. n \in 1 .. Len(b) /\ b[n] \in Sample /\ DOMAIN b = 1 .. Len(b) /\ n = Len(b)
  BY <1>1
<1>3. PICK y : y = [[b[n] EXCEPT !.next = x] EXCEPT !.gap = g]
  OBVIOUS
<1>4. y \in Sample /\ y.id = b[n].id /\ y.sampled = b[n].sampled
  <2>1. \A z \in Sample : /\ [z EXCEPT !.next = x] \in Sample
                          /\ [z EXCEPT !.next = x].id = z.id
                          /\ [z EXCEPT !.next = x].sampled = z.sampled
    BY DEF Sample
  <2>2. \A z \in Sample : /\ [z EXCEPT !.gap = g] \in Sample
                          /\ [z EXCEPT !.gap = g].id = z.id
                          /\ [z EXCEPT !.gap = g].sampled = z.sampled
    BY DEF Sample
  <2> QED
    BY <1>2, <1>3, <2>1, <2>2
<1>5. [b EXCEPT ![n].next = x, ![n].gap = g] = [b EXCEPT ![n] = y]
  BY <1>2, <1>3
<1>6. PICK s : s = [b EXCEPT ![n] = y]
  OBVIOUS
<1>7. s \in Seq(Sample) /\ Len(s) = Len(b)
  BY <1>2, <1>4, <1>6
<1>8. \A i \in 1 .. Len(b) : s[i] = IF i = n THEN y ELSE b[i]
  BY <1>2, <1>6
<1>9. Alike(s, b)
  BY <1>4, <1>7, <1>8 DEF Alike
<1> QED
  BY <1>1, <1>5, <1>6, <1>9

\* The last sample gets one more reward.
LEMMA LastCredited ==
    ASSUME NEW b \in Seq(Sample), b # <<>>, NEW c \in [batch : Nat, power : Nat]
    PROVE  Alike([b EXCEPT ![Len(b)].credits = Append(@, c)], b)
<1>1. PICK n : n = Len(b)
  OBVIOUS
<1>2. n \in 1 .. Len(b) /\ b[n] \in Sample /\ DOMAIN b = 1 .. Len(b) /\ n = Len(b)
  BY <1>1
<1>3. PICK q : q = Append(b[n].credits, c)
  OBVIOUS
<1>4. q \in Seq([batch : Nat, power : Nat])
  BY <1>2, <1>3 DEF Sample
<1>5. PICK y : y = [b[n] EXCEPT !.credits = q]
  OBVIOUS
<1>6. y \in Sample /\ y.id = b[n].id /\ y.sampled = b[n].sampled
  BY <1>2, <1>4, <1>5 DEF Sample
<1>7. [b EXCEPT ![n].credits = Append(@, c)] = [b EXCEPT ![n] = y]
  BY <1>2, <1>3, <1>5
<1>8. PICK s : s = [b EXCEPT ![n] = y]
  OBVIOUS
<1>9. s \in Seq(Sample) /\ Len(s) = Len(b)
  BY <1>2, <1>6, <1>8
<1>10. \A i \in 1 .. Len(b) : s[i] = IF i = n THEN y ELSE b[i]
  BY <1>2, <1>8
<1>11. Alike(s, b)
  BY <1>6, <1>9, <1>10 DEF Alike
<1> QED
  BY <1>1, <1>7, <1>8, <1>11

\* Training marks samples with the version.
LEMMA TrainedSamples ==
    ASSUME NEW b \in Seq(Sample), version \in Nat
    PROVE  /\ Alike(Trained(b), b)
           /\ \A i \in 1 .. Len(b) : Trained(b)[i].by = version
<1>1. PICK v \in Nat : v = version
  OBVIOUS
<1>2. \A z \in Sample : /\ [z EXCEPT !.by = v] \in Sample /\ [z EXCEPT !.by = v].by = v
                        /\ [z EXCEPT !.by = v].id = z.id
                        /\ [z EXCEPT !.by = v].sampled = z.sampled
  BY DEF Sample
<1>3. PICK n : n = Len(b)
  OBVIOUS
<1>4. n \in Nat /\ DOMAIN b = 1 .. n
  BY <1>3
<1>5. PICK t : t = [i \in 1 .. n |-> [b[i] EXCEPT !.by = v]]
  OBVIOUS
<1>6. Trained(b) = t
  BY <1>1, <1>4, <1>5 DEF Trained
<1>7. \A i \in 1 .. n : /\ t[i] \in Sample /\ t[i].by = v
                        /\ t[i].id = b[i].id /\ t[i].sampled = b[i].sampled
  <2> SUFFICES ASSUME NEW i \in 1 .. n
               PROVE  /\ t[i] \in Sample /\ t[i].by = v
                      /\ t[i].id = b[i].id /\ t[i].sampled = b[i].sampled
    OBVIOUS
  <2>1. b[i] \in Sample /\ t[i] = [b[i] EXCEPT !.by = v]
    BY <1>4, <1>5
  <2> QED
    BY <1>2, <2>1, Zenon
<1>8. t \in Seq(Sample) /\ Len(t) = n
  BY <1>4, <1>5, <1>7
<1> QED
  BY <1>1, <1>3, <1>6, <1>7, <1>8 DEF Alike

\* The samples of a batch are its decisions.
LEMMA BatchSamplesAre ==
    ASSUME EnvTypeOK, epoch \in Nat, NEW paid, NEW g \in Nat, NEW last \in {"next", "own", "end"}
    PROVE  LET s == BatchSamples(paid, g, last)
           IN /\ s \in Seq(Sample) /\ Len(s) = Len(actions)
              /\ \A i \in 1 .. Len(actions) :
                   s[i].id = <<epoch, actions[i].address>> /\ s[i].sampled = actions[i].sampled
<1>1. PICK e, b, n : e = epoch /\ b = batch_id /\ n = Len(actions)
  OBVIOUS
<1>2. e \in Nat /\ b \in Nat /\ n \in Nat /\ DOMAIN actions = 1 .. n
  BY <1>1 DEF EnvTypeOK
<1> DEFINE pay(i) == IF i \in paid THEN <<[batch |-> b, power |-> 0]>> ELSE <<>>
           to(i) == IF i < n THEN "next" ELSE last
           s == [i \in 1 .. n |->
                    [id |-> <<e, actions[i].address>>, batch |-> b, sampled |-> actions[i].sampled,
                     credits |-> pay(i), next |-> to(i), gap |-> g, by |-> None]]
<1>3. BatchSamples(paid, g, last) = s
  BY <1>1, <1>2 DEF BatchSamples
<1>4. ASSUME NEW i \in 1 .. n
      PROVE  /\ s[i] \in Sample /\ s[i].id = <<e, actions[i].address>>
             /\ s[i].sampled = actions[i].sampled
  <2>1. actions[i].address \in Address /\ actions[i].sampled \in BOOLEAN
    <3> HIDE DEF s, pay, to
    <3>1. PICK R : R = [address : Address, action : Shard, sampled : BOOLEAN]
      OBVIOUS
    <3>2. actions \in Seq(R)
      BY <3>1, Zenon DEF EnvTypeOK
    <3>3. actions[i] \in R
      BY <1>1, <1>2, <3>2
    <3> QED
      BY <3>1, <3>3
  <2>2. pay(i) \in Seq([batch : Nat, power : Nat]) /\ to(i) \in {"next", "own", "end"}
    <3>1. [batch |-> b, power |-> 0] \in [batch : Nat, power : Nat]
      BY <1>2
    <3>2. PICK c : c = [batch |-> b, power |-> 0]
      OBVIOUS
    <3>3. <<c>> \in Seq([batch : Nat, power : Nat]) /\ <<>> \in Seq([batch : Nat, power : Nat])
      BY <3>1, <3>2
    <3>4. pay(i) = IF i \in paid THEN <<c>> ELSE <<>>
      BY <3>2, Zenon
    <3> QED
      BY <3>3, <3>4, Zenon
  <2>3. s[i] = [id |-> <<e, actions[i].address>>, batch |-> b, sampled |-> actions[i].sampled,
                credits |-> pay(i), next |-> to(i), gap |-> g, by |-> None]
    OBVIOUS
  <2> HIDE DEF pay, to, s
  <2>4. <<e, actions[i].address>> \in Nat \X Address
    BY <1>2, <2>1
  <2>5. s[i] \in Sample
    BY <1>2, <2>1, <2>2, <2>3, <2>4 DEF Sample
  <2> QED
    BY <2>3, <2>5
<1>5. s \in Seq(Sample) /\ Len(s) = n
  <2> HIDE DEF pay, to
  <2>1. DOMAIN s = 1 .. n /\ s = [i \in 1 .. n |-> s[i]]
    OBVIOUS
  <2> HIDE DEF s
  <2> QED
    BY <1>2, <1>4, <2>1
<1> HIDE DEF s
<1> QED
  BY <1>1, <1>3, <1>4, <1>5, Zenon

-----------------------------------------------------------------------------
(* The invariant of training.                                               *)

TrainTypes ==
    /\ args \in Jobs
    /\ phase \in {"start", "refused", "train", "stranded", "validate", "epoch_done",
                  "trained", "selected", "rejected", "evaluate", "done"}
    /\ phase \notin {"train", "evaluate"} => step = "idle"
    /\ epoch \in 0 .. Epochs
    /\ phase \in {"train", "validate", "epoch_done"} => epoch >= 1
    /\ elapsed \in Nat /\ batches \in Nat /\ pending \in BOOLEAN
    /\ files \in [Path -> Nat \cup {None}]

\* Checkpoints of records are not written again: those of epochs have a file
\* each, and the last one comes after all periodic saves.
RecordTrue(r) ==
    /\ r.path # None => files[r.path] \in DOMAIN metrics /\ metrics[files[r.path]] = r.m
    /\ r.path \in {None, <<"last", 0>>, <<"epoch", r.epoch>>}
    /\ phase \in {"train", "validate", "epoch_done"} => r.path # <<"last", 0>>
    /\ r.epoch <= epoch
    /\ phase \in {"train", "validate"} => r.epoch < epoch
    /\ args.epoch_dir => r.path # None
RecordsTrue ==
    /\ records \in Seq(ValidationRecord)
    /\ \A k \in DOMAIN records : RecordTrue(records[k])
    /\ args.disable_best \/ phase = "start" => records = <<>>

\* The first of the best records, and the model is its version.
FirstBest(k) == /\ \A j \in DOMAIN records : records[j].m.score <= records[k].m.score
                /\ \A j \in 1 .. k - 1 : records[j].m.score < records[k].m.score
BestTrue ==
    /\ records = <<>> => best_score = None
    /\ records # <<>> => \E k \in DOMAIN records :
         /\ FirstBest(k) /\ best_score = records[k].m.score
         /\ files[<<"model", 0>>] \in DOMAIN metrics
         /\ metrics[files[<<"model", 0>>]] = records[k].m
    /\ phase = "trained" /\ args.disable_best => files[<<"model", 0>>] = version

\* The decisions of the batch that is being placed.
Placed == IF phase = "train" /\ step = "place" THEN Len(actions) ELSE 0

\* The first decisions are trained, each by the version that took it, and the
\* next ones, of the present version, are in the buffer.
Decision == [id : Nat \X Address, version : Nat]
Accounted(past, samples, v, taken) ==
    /\ past \in Seq(Sample) /\ samples \in Seq(Sample) /\ v \in Nat /\ taken \in Seq(Decision)
    /\ Len(past) + Len(samples) <= Len(taken)
    /\ \A i \in 1 .. Len(past) : /\ past[i].id = taken[i].id /\ past[i].by = taken[i].version
                                 /\ past[i].sampled
    /\ \A i \in 1 .. Len(samples) : /\ samples[i].id = taken[Len(past) + i].id
                                    /\ taken[Len(past) + i].version = v /\ samples[i].sampled

\* The decisions after those are of the batch that is being placed.  A sample that
\* waits for the next decision waits only until there is one.
SamplesTrue ==
    /\ Accounted(trained, buffer, version, decisions)
    /\ Len(decisions) = Len(trained) + Len(buffer) + Placed
    /\ phase = "train" /\ step = "place" => \A i \in 1 .. Len(actions) :
         LET x == Len(trained) + Len(buffer) + i
         IN /\ decisions[x].id = <<epoch, actions[i].address>>
            /\ decisions[x].version = version /\ actions[i].sampled
    /\ pending => /\ V3 /\ phase = "train" /\ buffer # <<>>
                  /\ step = "place" => actions = <<>>
    /\ phase = "trained" => buffer = <<>>

\* An epoch of mechanism v3 begins with nothing placed, so its first batch has a
\* decision.
FirstBatchDecides ==
    /\ phase # "stranded"
    /\ phase \notin {"start", "refused"} => validate_args(args)
    /\ phase \in {"train", "validate", "epoch_done"} => config = args.settings
    /\ V3 /\ phase = "train" /\ ~pending =>
         \/ step = "place" /\ actions # <<>>
         \/ /\ \A a \in Address : addr_shard[a] = NoShard
            /\ step = "place" => placements # <<>>

TrainInv == /\ TrainTypes /\ RecordsTrue /\ BestTrue /\ SelectionSound
            /\ SamplesTrue /\ FirstBatchDecides

\* An update trains the buffer, whatever version comes next.
LEMMA BufferTrained ==
    ASSUME NEW past, NEW samples, NEW v, NEW taken, Accounted(past, samples, v, taken),
           NEW t, Alike(t, samples), \A i \in 1 .. Len(samples) : t[i].by = v, NEW w \in Nat
    PROVE  /\ Accounted(past \o t, <<>>, w, taken)
           /\ Len(past \o t) = Len(past) + Len(samples)
<1>1. /\ past \in Seq(Sample) /\ samples \in Seq(Sample) /\ taken \in Seq(Decision)
      /\ Len(past) + Len(samples) <= Len(taken)
      /\ t \in Seq(Sample) /\ Len(t) = Len(samples)
  BY DEF Accounted, Alike
<1>2. PICK n, m : n = Len(past) /\ m = Len(samples)
  OBVIOUS
<1>3. n \in Nat /\ m \in Nat /\ Len(t) = m
  BY <1>1, <1>2
<1>4. PICK u : u = past \o t
  OBVIOUS
<1>5. /\ u \in Seq(Sample) /\ Len(u) = n + m
      /\ \A i \in 1 .. n + m : u[i] = IF i <= n THEN past[i] ELSE t[i - n]
  <2>1. past \in Seq(Sample) /\ t \in Seq(Sample) /\ Len(past) = n
    BY <1>1, <1>2
  <2>2. /\ past \o t \in Seq(Sample) /\ Len(past \o t) = Len(past) + Len(t)
        /\ \A i \in 1 .. Len(past) + Len(t) :
              (past \o t)[i] = IF i <= Len(past) THEN past[i] ELSE t[i - Len(past)]
    BY <2>1, ConcatProperties, Zenon
  <2> QED
    BY <1>3, <1>4, <2>1, <2>2, Zenon
<1>6. ASSUME NEW i \in 1 .. n + m
      PROVE  u[i].id = taken[i].id /\ u[i].by = taken[i].version /\ u[i].sampled
  <2>1. CASE i <= n
    <3>1. u[i] = past[i] /\ i \in 1 .. n
      BY <1>3, <1>5, <2>1
    <3> QED
      BY <1>2, <3>1 DEF Accounted
  <2>2. CASE ~(i <= n)
    <3>1. PICK j : j = i - n
      OBVIOUS
    <3>2. j \in 1 .. m /\ i = n + j
      BY <1>3, <2>2, <3>1
    <3>3. u[i] = t[j]
      BY <1>5, <2>2, <3>1
    <3>4. t[j].id = samples[j].id /\ t[j].sampled = samples[j].sampled /\ t[j].by = v
      BY <1>2, <3>2 DEF Alike
    <3>5. samples[j].id = taken[n + j].id /\ taken[n + j].version = v /\ samples[j].sampled
      BY <1>2, <3>2 DEF Accounted
    <3> QED
      BY <3>2, <3>3, <3>4, <3>5
  <2> QED
    BY <2>1, <2>2
<1>7. Accounted(u, <<>>, w, taken)
  <2>1. <<>> \in Seq(Sample) /\ Len(<<>>) = 0
    OBVIOUS
  <2>2. Len(u) + 0 <= Len(taken)
    BY <1>1, <1>2, <1>3, <1>5
  <2> QED
    BY <1>1, <1>5, <1>6, <2>1, <2>2 DEF Accounted
<1> QED
  BY <1>2, <1>4, <1>5, <1>7

LEMMA BufferAlike ==
    ASSUME NEW past, NEW samples, NEW v, NEW taken, Accounted(past, samples, v, taken),
           NEW t, Alike(t, samples)
    PROVE  Accounted(past, t, v, taken) /\ Len(t) = Len(samples)
  BY DEF Accounted, Alike

LEMMA DecisionTaken ==
    ASSUME NEW past, NEW samples, NEW v, NEW taken, Accounted(past, samples, v, taken),
           NEW x \in Decision
    PROVE  Accounted(past, samples, v, Append(taken, x))
<1>1. /\ past \in Seq(Sample) /\ samples \in Seq(Sample) /\ v \in Nat /\ taken \in Seq(Decision)
      /\ Len(past) + Len(samples) <= Len(taken)
  BY DEF Accounted
<1>2. PICK u : u = Append(taken, x)
  OBVIOUS
<1>3. /\ u \in Seq(Decision) /\ Len(u) = Len(taken) + 1
      /\ \A i \in 1 .. Len(taken) : u[i] = taken[i]
  BY <1>1, <1>2
<1>4. /\ \A i \in 1 .. Len(past) : i \in 1 .. Len(taken)
      /\ \A i \in 1 .. Len(samples) : Len(past) + i \in 1 .. Len(taken)
      /\ Len(past) + Len(samples) <= Len(u)
  BY <1>1, <1>3
<1>5. /\ \A i \in 1 .. Len(past) : u[i] = taken[i]
      /\ \A i \in 1 .. Len(samples) : u[Len(past) + i] = taken[Len(past) + i]
  BY <1>3, <1>4
<1> QED
  BY <1>1, <1>2, <1>3, <1>4, <1>5, Zenon DEF Accounted

\* The samples of the decisions that are not accounted for yet join the buffer.
Continue(s, past, samples, v, taken) ==
    /\ s \in Seq(Sample) /\ Len(taken) = Len(past) + Len(samples) + Len(s)
    /\ \A i \in 1 .. Len(s) : /\ s[i].id = taken[Len(past) + Len(samples) + i].id
                              /\ taken[Len(past) + Len(samples) + i].version = v
                              /\ s[i].sampled
LEMMA BatchAdded ==
    ASSUME NEW past, NEW samples, NEW v, NEW taken, Accounted(past, samples, v, taken),
           NEW s, Continue(s, past, samples, v, taken)
    PROVE  Accounted(past, samples \o s, v, taken) /\ Len(samples \o s) = Len(samples) + Len(s)
<1>0. /\ s \in Seq(Sample) /\ Len(taken) = Len(past) + Len(samples) + Len(s)
      /\ \A i \in 1 .. Len(s) : /\ s[i].id = taken[Len(past) + Len(samples) + i].id
                                /\ taken[Len(past) + Len(samples) + i].version = v
                                /\ s[i].sampled
  BY Zenon DEF Continue
<1>1. past \in Seq(Sample) /\ samples \in Seq(Sample) /\ v \in Nat /\ taken \in Seq(Decision)
  BY DEF Accounted
<1>2. PICK n, m, l : n = Len(past) /\ m = Len(samples) /\ l = Len(s)
  OBVIOUS
<1>3. n \in Nat /\ m \in Nat /\ l \in Nat /\ Len(taken) = n + m + l
  BY <1>0, <1>1, <1>2
<1>4. PICK u : u = samples \o s
  OBVIOUS
<1>5. /\ u \in Seq(Sample) /\ Len(u) = m + l
      /\ \A i \in 1 .. m + l : u[i] = IF i <= m THEN samples[i] ELSE s[i - m]
  BY <1>0, <1>1, <1>2, <1>4, ConcatProperties, Zenon
<1>6. ASSUME NEW i \in 1 .. m + l
      PROVE  u[i].id = taken[n + i].id /\ taken[n + i].version = v /\ u[i].sampled
  <2>1. CASE i <= m
    <3>1. u[i] = samples[i] /\ i \in 1 .. m
      BY <1>3, <1>5, <2>1
    <3> QED
      BY <1>2, <3>1 DEF Accounted
  <2>2. CASE ~(i <= m)
    <3>1. PICK j : j = i - m
      OBVIOUS
    <3>2. j \in 1 .. l /\ n + m + j = n + i
      BY <1>3, <2>2, <3>1
    <3>3. u[i] = s[j]
      BY <1>5, <2>2, <3>1
    <3>4. s[j].id = taken[n + m + j].id /\ taken[n + m + j].version = v /\ s[j].sampled
      BY <1>0, <1>2, <3>2, Zenon
    <3> QED
      BY <3>2, <3>3, <3>4
  <2> QED
    BY <2>1, <2>2
<1>7. Len(past) + Len(u) <= Len(taken)
  BY <1>2, <1>3, <1>5
<1>8. /\ \A i \in 1 .. Len(past) : /\ past[i].id = taken[i].id /\ past[i].by = taken[i].version
                                  /\ past[i].sampled
  BY DEF Accounted
<1>9. Accounted(past, u, v, taken)
  BY <1>1, <1>2, <1>5, <1>6, <1>7, <1>8 DEF Accounted
<1> QED
  BY <1>2, <1>4, <1>5, <1>9

\* Steps that leave samples, decisions and the agent alone.
Idle == UNCHANGED <<version, buffer, trained, decisions, pending>>

LEMMA SamplesRest ==
    ASSUME TrainTypes, SamplesTrue, Idle, args' = args, ~(phase = "train" /\ step = "place"),
           phase' = "train" => \/ step' = "idle" /\ (pending => phase = "train")
                               \/ step' = "place" /\ actions' = <<>> /\ phase = "train",
           phase' # "train" => ~pending,
           phase' # "trained"
    PROVE  SamplesTrue'
<1>1. Placed = 0 /\ Placed' = 0
  <2>1. Len(<<>>) = 0
    OBVIOUS
  <2> QED
    BY <2>1 DEF Placed
<1>2. Accounted(trained, buffer, version, decisions)'
  BY Zenon DEF SamplesTrue, Idle
<1>3. (Len(decisions) = Len(trained) + Len(buffer) + Placed)'
  BY <1>1, Zenon DEF SamplesTrue, Idle
<1>4. ASSUME phase' = "train", step' = "place", NEW i \in 1 .. Len(actions') PROVE FALSE
  BY <1>4
<1>5. ASSUME pending' PROVE V3' /\ phase' = "train" /\ buffer' # <<>>
                            /\ (step' = "place" => actions' = <<>>)
  BY <1>5 DEF SamplesTrue, Idle, V3
<1> QED
  BY <1>2, <1>3, <1>4, <1>5 DEF SamplesTrue

\* An update, of samples alike to those of the buffer.
LEMMA UpdateTrains ==
    ASSUME SamplesTrue, NEW s, Alike(s, buffer), UpdateAgent(s), decisions' = decisions
    PROVE  /\ Accounted(trained', <<>>, version', decisions)
           /\ buffer' = <<>> /\ Len(trained') = Len(trained) + Len(buffer)
           /\ version' \in Nat
<1>1. /\ Accounted(trained, buffer, version, decisions) /\ version \in Nat /\ s \in Seq(Sample)
      /\ Len(s) = Len(buffer)
  BY DEF SamplesTrue, Accounted, Alike
<1>2. PICK t, v, w : t = Trained(s) /\ v = version /\ w = update(s)
  OBVIOUS
<1>3. Alike(t, s) /\ \A i \in 1 .. Len(s) : t[i].by = v
  BY <1>1, <1>2, TrainedSamples, Zenon
<1>4. Alike(t, buffer) /\ \A i \in 1 .. Len(buffer) : t[i].by = v
  BY <1>1, <1>3 DEF Alike
<1>5. w \in Nat
  BY <1>1, <1>2 DEF update
<1>6. trained' = trained \o t /\ version' = w /\ buffer' = <<>>
  BY <1>2 DEF UpdateAgent
<1>7. Accounted(trained \o t, <<>>, w, decisions) /\ Len(trained \o t) = Len(trained) + Len(buffer)
  BY <1>1, <1>2, <1>4, <1>5, BufferTrained, Zenon
<1> QED
  BY <1>5, <1>6, <1>7, Zenon

LEMMA AlikeItself == ASSUME NEW s \in Seq(Sample) PROVE Alike(s, s)
  BY DEF Alike

\* finish trains what is left of an epoch.
LEMMA FinishEpochSamples == ASSUME EnvTypeOK, TrainTypes, SamplesTrue, FinishEpoch PROVE SamplesTrue'
<1>1. /\ phase = "train" /\ step = "idle" /\ phase' = "validate" /\ args' = args
      /\ decisions' = decisions /\ step' = step
      /\ pending' = IF V3 THEN FALSE ELSE pending
  BY DEF FinishEpoch, envVars, batchVars
<1>2. ~pending'
  BY <1>1 DEF SamplesTrue
<1>3. CASE V3 /\ buffer # <<>>
  <2>1. PICK s : s = [buffer EXCEPT ![Len(buffer)].next = "end", ![Len(buffer)].gap = 0]
    OBVIOUS
  <2>2. UpdateAgent(s)
    BY <1>3, <2>1, Zenon DEF FinishEpoch
  <2>3. Alike(s, buffer)
    <3>1. buffer \in Seq(Sample) /\ 0 \in Nat /\ "end" \in {"next", "own", "end"}
      BY DEF SamplesTrue, Accounted
    <3> QED
      BY <1>3, <2>1, <3>1, LastSettled, Zenon
  <2>4. /\ Accounted(trained', <<>>, version', decisions)
        /\ buffer' = <<>> /\ Len(trained') = Len(trained) + Len(buffer)
    BY <1>1, <2>2, <2>3, UpdateTrains, Zenon
  <2>5. Len(decisions) = Len(trained) + Len(buffer) /\ Len(trained) \in Nat /\ Len(buffer) \in Nat
    <3>1. Placed = 0
      BY <1>1 DEF Placed
    <3> QED
      BY <3>1 DEF SamplesTrue, Accounted
  <2>6. Placed' = 0 /\ Len(<<>>) = 0
    BY <1>1 DEF Placed
  <2>7. (Len(decisions) = Len(trained) + Len(buffer) + Placed)'
    BY <1>1, <2>4, <2>5, <2>6
  <2>8. Accounted(trained, buffer, version, decisions)'
    BY <1>1, <2>4, Zenon
  <2> QED
    BY <1>1, <1>2, <2>7, <2>8 DEF SamplesTrue
<1>4. CASE ~(V3 /\ buffer # <<>>)
  <2>1. UNCHANGED <<version, trained, buffer>>
    BY <1>4 DEF FinishEpoch
  <2>2. Placed = 0 /\ Placed' = 0
    BY <1>1 DEF Placed
  <2>3. Accounted(trained, buffer, version, decisions)'
    BY <1>1, <2>1, Zenon DEF SamplesTrue
  <2>4. (Len(decisions) = Len(trained) + Len(buffer) + Placed)'
    BY <1>1, <2>1, <2>2, Zenon DEF SamplesTrue
  <2> QED
    BY <1>1, <1>2, <2>3, <2>4 DEF SamplesTrue
<1> QED
  BY <1>3, <1>4

\* After the last epoch the rest is trained.
LEMMA FinishTrainingSamples ==
    ASSUME EnvTypeOK, TrainTypes, SamplesTrue, NEW m, FinishTraining(m) PROVE SamplesTrue'
<1>1. /\ phase = "epoch_done" /\ phase' = "trained" /\ args' = args
      /\ decisions' = decisions /\ step' = step /\ pending' = pending
  BY DEF FinishTraining, envVars, batchVars
<1>2. ~pending'
  BY <1>1 DEF SamplesTrue
<1>3. /\ Len(decisions) = Len(trained) + Len(buffer) /\ Len(trained) \in Nat /\ Len(buffer) \in Nat
      /\ buffer \in Seq(Sample)
  <2>1. Placed = 0
    BY <1>1 DEF Placed
  <2> QED
    BY <2>1 DEF SamplesTrue, Accounted
<1>4. Placed' = 0 /\ Len(<<>>) = 0
  BY <1>1 DEF Placed
<1>5. CASE buffer # <<>>
  <2>1. UpdateAgent(buffer)
    BY <1>5 DEF FinishTraining
  <2>2. /\ Accounted(trained', <<>>, version', decisions)
        /\ buffer' = <<>> /\ Len(trained') = Len(trained) + Len(buffer)
    BY <1>1, <1>3, <2>1, AlikeItself, UpdateTrains, Zenon
  <2>3. (Len(decisions) = Len(trained) + Len(buffer) + Placed)'
    BY <1>1, <1>3, <1>4, <2>2
  <2>4. Accounted(trained, buffer, version, decisions)'
    BY <1>1, <2>2, Zenon
  <2> QED
    BY <1>1, <1>2, <2>2, <2>3, <2>4 DEF SamplesTrue
<1>6. CASE buffer = <<>>
  <2>1. UNCHANGED <<version, trained, buffer>>
    BY <1>6 DEF FinishTraining
  <2>2. Accounted(trained, buffer, version, decisions)'
    BY <1>1, <2>1, Zenon DEF SamplesTrue
  <2>3. (Len(decisions) = Len(trained) + Len(buffer) + Placed)'
    BY <1>1, <1>3, <1>4, <2>1
  <2> QED
    BY <1>1, <1>2, <1>6, <2>1, <2>2, <2>3 DEF SamplesTrue
<1> QED
  BY <1>5, <1>6

\* What a placement in training does: the policy samples from the mask, so its
\* output is taken.
LEMMA TrainPlaceIs ==
    ASSUME EnvTypeOK, NEW output, TrainPlace(output)
    PROVE  \E a \in Address :
             /\ phase = "train" /\ step = "place" /\ phase' = "train" /\ step' = "place"
             /\ args' = args /\ epoch' = epoch /\ cursor' = cursor /\ config' = config
             /\ files' = files
             /\ metrics' = metrics /\ records' = records /\ best_score' = best_score
             /\ actions' = Append(actions, [address |-> a, action |-> output, sampled |-> TRUE])
             /\ decisions' = Append(decisions, [id |-> <<epoch, a>>, version |-> version'])
             /\ (V3 /\ before_decision) \/ (~V3 /\ UNCHANGED rolloutVars)
<1>1. /\ Place(output) /\ phase = "train" /\ output \in NextMask
      /\ decisions' = Append(decisions, [id |-> <<epoch, NextPair[1]>>, version |-> version'])
      /\ UNCHANGED <<args, phase, epoch, validation_txs, checkVars, policy>>
      /\ (V3 /\ before_decision) \/ (~V3 /\ UNCHANGED rolloutVars)
  BY Zenon DEF TrainPlace, sample_agent_policy
<1>2. PICK a, f : a = NextPair[1] /\ f = NextPair[2]
  OBVIOUS
<1>3. /\ step = "place" /\ Unplaced # {} /\ step' = step /\ cursor' = cursor /\ config' = config
      /\ actions' = Append(actions, [address |-> a, action |-> safe_policy_output(a, f, output),
                                     sampled |-> safe_policy_output(a, f, output) = output])
  BY <1>1, <1>2 DEF Place
<1>4. safe_policy_output(a, f, output) = output
  BY <1>1, <1>2, Zenon DEF NextMask, safe_policy_output
<1>5. a \in Address
  BY <1>2, <1>3, NextUnplaced
<1>6. (safe_policy_output(a, f, output) = output) = TRUE
  BY <1>4
<1>7. actions' = Append(actions, [address |-> a, action |-> output, sampled |-> TRUE])
  BY <1>3, <1>4, <1>6, Zenon
<1>8. decisions' = Append(decisions, [id |-> <<epoch, a>>, version |-> version'])
  BY <1>1, <1>2, Zenon
<1> QED
  BY <1>1, <1>3, <1>5, <1>7, <1>8 DEF checkVars

\* The next decision settles the last sample, before an update that is due.
LEMMA TrainPlaceSamples ==
    ASSUME EnvTypeOK, TrainTypes, SamplesTrue, NEW output, TrainPlace(output) PROVE SamplesTrue'
<1>1. PICK a \in Address :
        /\ phase = "train" /\ step = "place" /\ phase' = "train" /\ step' = "place"
        /\ args' = args /\ epoch' = epoch
        /\ actions' = Append(actions, [address |-> a, action |-> output, sampled |-> TRUE])
        /\ decisions' = Append(decisions, [id |-> <<epoch, a>>, version |-> version'])
        /\ (V3 /\ before_decision) \/ (~V3 /\ UNCHANGED rolloutVars)
  BY TrainPlaceIs, Zenon
<1>2. PICK n, c : n = Len(actions) /\ c = [address |-> a, action |-> output, sampled |-> TRUE]
  OBVIOUS
<1>3. /\ n \in Nat /\ Len(actions') = n + 1 /\ actions'[n + 1] = c
      /\ \A i \in 1 .. n : actions'[i] = actions[i]
      /\ actions' # <<>>
  <2>1. PICK R, q : q = actions /\ actions \in Seq(R)
    BY DEF EnvTypeOK
  <2>2. q \in Seq(R) /\ n = Len(q)
    BY <1>2, <2>1
  <2>3. PICK u : u = Append(q, c)
    OBVIOUS
  <2>4. /\ n \in Nat /\ Len(u) = n + 1 /\ u[n + 1] = c
        /\ \A i \in 1 .. n : u[i] = q[i]
        /\ u # <<>>
    BY <2>2, <2>3
  <2> QED
    BY <1>1, <1>2, <2>1, <2>3, <2>4, Zenon
<1>4. c.address = a /\ c.sampled
  BY <1>2
<1>5. PICK d, k, l, e : d = decisions /\ k = Len(trained) /\ l = Len(buffer) /\ e = epoch
  OBVIOUS
<1>6. /\ k \in Nat /\ l \in Nat /\ d \in Seq(Decision) /\ Len(d) = k + l + n /\ e \in Nat
      /\ version \in Nat /\ trained \in Seq(Sample) /\ buffer \in Seq(Sample)
  <2>1. e \in Nat
    BY <1>5, TrainingAssumption DEF TrainTypes
  <2>2. /\ trained \in Seq(Sample) /\ buffer \in Seq(Sample) /\ version \in Nat
        /\ d \in Seq(Decision)
    BY <1>5 DEF SamplesTrue, Accounted
  <2>3. Placed = n
    BY <1>1, <1>2 DEF Placed
  <2>4. Len(d) = k + l + n
    BY <1>5, <2>3 DEF SamplesTrue
  <2>5. k \in Nat /\ l \in Nat
    BY <1>5, <2>2
  <2> QED
    BY <2>1, <2>2, <2>4, <2>5
<1>7. ASSUME UNCHANGED <<version, trained>>, Alike(buffer', buffer), ~pending' PROVE SamplesTrue'
  <2>1. PICK x : x = [id |-> <<e, a>>, version |-> version]
    OBVIOUS
  <2>2. x \in Decision /\ x.id = <<e, a>> /\ x.version = version
    BY <1>6, <2>1 DEF Decision
  <2>3. PICK u : u = Append(d, x)
    OBVIOUS
  <2>4. decisions' = u
    BY <1>1, <1>5, <1>7, <2>1, <2>3, Zenon
  <2>5. Len(u) = k + l + n + 1 /\ u[k + l + n + 1] = x /\ \A i \in 1 .. k + l + n : u[i] = d[i]
    BY <1>3, <1>6, <2>2, <2>3
  <2>6. PICK s : s = buffer'
    OBVIOUS
  <2>7. Accounted(trained, s, version, d) /\ Len(s) = l
    BY <1>5, <1>7, <2>6, BufferAlike, Zenon DEF SamplesTrue
  <2>8. Accounted(trained, s, version, u)
    BY <2>2, <2>3, <2>7, DecisionTaken, Zenon
  <2>9. Accounted(trained, buffer, version, decisions)'
    BY <1>7, <2>4, <2>6, <2>8, Zenon
  <2>10. (Len(decisions) = Len(trained) + Len(buffer) + Placed)'
    <3>1. Placed' = n + 1
      BY <1>1, <1>3 DEF Placed
    <3> QED
      BY <1>3, <1>5, <1>6, <1>7, <2>4, <2>5, <2>6, <2>7, <3>1
  <2>11. ASSUME NEW i \in 1 .. n + 1
         PROVE  /\ u[k + l + i].id = <<e, actions'[i].address>>
                /\ u[k + l + i].version = version /\ actions'[i].sampled
    <3>1. CASE i = n + 1
      <4>1. k + l + i = k + l + n + 1
        BY <1>3, <1>6, <3>1
      <4> QED
        BY <1>3, <1>4, <2>2, <2>5, <3>1, <4>1
    <3>2. CASE i # n + 1
      <4>1. i \in 1 .. n /\ k + l + i \in 1 .. k + l + n
        BY <1>3, <1>6, <3>2
      <4>2. /\ d[k + l + i].id = <<e, actions[i].address>>
            /\ d[k + l + i].version = version /\ actions[i].sampled
        BY <1>1, <1>2, <1>5, <4>1, Zenon DEF SamplesTrue
      <4> QED
        BY <1>3, <2>5, <4>1, <4>2
    <3> QED
      BY <3>1, <3>2
  <2>12. \A i \in 1 .. Len(actions') :
           /\ decisions'[Len(trained') + Len(buffer') + i].id = <<epoch', actions'[i].address>>
           /\ decisions'[Len(trained') + Len(buffer') + i].version = version'
           /\ actions'[i].sampled
    BY <1>1, <1>3, <1>5, <1>7, <2>4, <2>6, <2>7, <2>11, Zenon
  <2> QED
    BY <1>1, <1>7, <2>9, <2>10, <2>12 DEF SamplesTrue
<1>8. CASE ~V3
  <2>1. UNCHANGED <<version, trained, buffer, pending>>
    BY <1>1, <1>8 DEF rolloutVars
  <2>2. ~pending'
    BY <1>8, <2>1 DEF SamplesTrue
  <2>3. Alike(buffer', buffer)
    BY <1>6, <2>1, AlikeItself, Zenon
  <2> QED
    BY <1>7, <2>1, <2>2, <2>3, Zenon
<1>9. CASE V3 /\ ~pending
  <2>1. UNCHANGED <<version, trained, buffer, pending>>
    BY <1>1, <1>9 DEF rolloutVars, before_decision
  <2>2. ~pending'
    BY <1>9, <2>1
  <2>3. Alike(buffer', buffer)
    BY <1>6, <2>1, AlikeItself, Zenon
  <2> QED
    BY <1>7, <2>1, <2>2, <2>3, Zenon
<1>10. CASE V3 /\ pending
  <2>1. PICK s : s = Settled
    OBVIOUS
  <2>2. /\ ~pending'
        /\ \/ UpdateAgent(s)
           \/ buffer' = s /\ UNCHANGED <<version, trained>>
    BY <1>1, <1>10, <2>1 DEF before_decision
  <2>3. Alike(s, buffer)
    <3>1. buffer # <<>> /\ elapsed \in Nat /\ "next" \in {"next", "own", "end"}
      BY <1>10 DEF SamplesTrue, TrainTypes
    <3> QED
      BY <1>6, <2>1, <3>1, LastSettled, Zenon DEF Settled
  <2>4. CASE buffer' = s /\ UNCHANGED <<version, trained>>
    BY <1>7, <2>2, <2>3, <2>4, Zenon
  <2>5. CASE UpdateAgent(s)
    <3>1. actions = <<>>
      BY <1>1, <1>10 DEF SamplesTrue
    <3>2. n = 0
      BY <1>2, <3>1
    <3>3. PICK t, v : t = trained' /\ v = version'
      OBVIOUS
    <3>4. /\ Accounted(t, <<>>, v, d) /\ buffer' = <<>> /\ Len(t) = k + l /\ v \in Nat
      <4>1. PICK w, q : w = update(s) /\ q = Trained(s)
        OBVIOUS
      <4>2. version' = w /\ trained' = trained \o q /\ buffer' = <<>>
        BY <2>5, <4>1 DEF UpdateAgent
      <4>3. Alike(q, s) /\ \A i \in 1 .. Len(s) : q[i].by = version
        BY <1>6, <2>3, <4>1, TrainedSamples, Zenon DEF Alike
      <4>4. Alike(q, buffer) /\ \A i \in 1 .. Len(buffer) : q[i].by = version
        BY <2>3, <4>3 DEF Alike
      <4>5. w \in Nat
        BY <1>6, <4>1 DEF update
      <4>6. Accounted(trained \o q, <<>>, w, d) /\ Len(trained \o q) = Len(trained) + Len(buffer)
        BY <1>5, <4>4, <4>5, BufferTrained, Zenon DEF SamplesTrue
      <4> QED
        BY <1>5, <3>3, <4>2, <4>5, <4>6, Zenon
    <3>5. PICK x : x = [id |-> <<e, a>>, version |-> v]
      OBVIOUS
    <3>6. x \in Decision /\ x.id = <<e, a>> /\ x.version = v
      BY <1>6, <3>4, <3>5 DEF Decision
    <3>7. PICK u : u = Append(d, x)
      OBVIOUS
    <3>8. decisions' = u
      BY <1>1, <1>5, <3>3, <3>5, <3>7, Zenon
    <3>9. Len(u) = k + l + 1 /\ u[k + l + 1] = x
      BY <1>6, <3>2, <3>6, <3>7
    <3>10. Accounted(t, <<>>, v, u)
      BY <3>4, <3>6, <3>7, DecisionTaken, Zenon
    <3>11. Accounted(trained, buffer, version, decisions)'
      BY <3>3, <3>4, <3>8, <3>10, Zenon
    <3>12. Placed' = 1 /\ Len(<<>>) = 0
      BY <1>1, <1>3, <3>2 DEF Placed
    <3>13. (Len(decisions) = Len(trained) + Len(buffer) + Placed)'
      BY <1>6, <3>3, <3>4, <3>8, <3>9, <3>12
    <3>14. ASSUME NEW i \in 1 .. Len(actions')
           PROVE  /\ decisions'[Len(trained') + Len(buffer') + i].id = <<epoch', actions'[i].address>>
                  /\ decisions'[Len(trained') + Len(buffer') + i].version = version'
                  /\ actions'[i].sampled
      <4>1. i = 1 /\ actions'[i] = c
        BY <1>3, <3>2
      <4>2. Len(trained') + Len(buffer') + i = k + l + 1
        BY <1>6, <3>3, <3>4, <3>12, <4>1
      <4> QED
        BY <1>1, <1>4, <1>5, <3>3, <3>6, <3>8, <3>9, <4>1, <4>2, Zenon
    <3> QED
      BY <1>1, <2>2, <3>11, <3>13, <3>14 DEF SamplesTrue
  <2> QED
    BY <2>2, <2>4, <2>5
<1> QED
  BY <1>8, <1>9, <1>10

\* The decisions of a batch become samples when it ends.
LEMMA BatchJoins ==
    ASSUME EnvTypeOK, TrainTypes, SamplesTrue, phase = "train", step = "place",
           NEW paid, NEW g \in Nat, NEW last \in {"next", "own", "end"}
    PROVE  LET all == buffer \o BatchSamples(paid, g, last)
           IN /\ Accounted(trained, all, version, decisions)
              /\ Len(all) = Len(buffer) + Len(actions)
              /\ Len(decisions) = Len(trained) + Len(all)
<1>1. PICK s : s = BatchSamples(paid, g, last)
  OBVIOUS
<1>2. PICK k, l, n, e : k = Len(trained) /\ l = Len(buffer) /\ n = Len(actions) /\ e = epoch
  OBVIOUS
<1>3. /\ trained \in Seq(Sample) /\ buffer \in Seq(Sample) /\ version \in Nat
      /\ decisions \in Seq(Decision) /\ Accounted(trained, buffer, version, decisions)
  BY DEF SamplesTrue, Accounted
<1>4. e \in Nat
  BY <1>2, TrainingAssumption DEF TrainTypes
<1>5. Len(decisions) = k + l + n
  BY <1>2 DEF SamplesTrue, Placed
<1>6. /\ s \in Seq(Sample) /\ Len(s) = n
      /\ \A i \in 1 .. n : s[i].id = <<e, actions[i].address>> /\ s[i].sampled = actions[i].sampled
  BY <1>1, <1>2, <1>4, BatchSamplesAre, Zenon
<1>7. \A i \in 1 .. n : /\ decisions[k + l + i].id = <<e, actions[i].address>>
                        /\ decisions[k + l + i].version = version /\ actions[i].sampled
  BY <1>2, Zenon DEF SamplesTrue
<1>8. \A i \in 1 .. Len(s) : /\ s[i].id = decisions[k + l + i].id
                             /\ decisions[k + l + i].version = version /\ s[i].sampled
  BY <1>6, <1>7
<1>9. /\ Accounted(trained, buffer \o s, version, decisions)
      /\ Len(buffer \o s) = Len(buffer) + Len(s)
  <2>1. Len(decisions) = Len(trained) + Len(buffer) + Len(s)
    BY <1>2, <1>5, <1>6
  <2>2. \A i \in 1 .. Len(s) : /\ s[i].id = decisions[Len(trained) + Len(buffer) + i].id
                               /\ decisions[Len(trained) + Len(buffer) + i].version = version
                               /\ s[i].sampled
    BY <1>2, <1>8, Zenon
  <2>3. s \in Seq(Sample)
    BY <1>6, Zenon
  <2>4. Continue(s, trained, buffer, version, decisions)
    BY <2>1, <2>2, <2>3, Zenon DEF Continue
  <2>5. PICK p, b, v, q : p = trained /\ b = buffer /\ v = version /\ q = decisions
    OBVIOUS
  <2>6. Accounted(p, b, v, q) /\ Continue(s, p, b, v, q)
    BY <1>3, <2>4, <2>5
  <2>7. Accounted(p, b \o s, v, q) /\ Len(b \o s) = Len(b) + Len(s)
    BY <2>6, BatchAdded
  <2> QED
    BY <2>5, <2>7
<1>10. k \in Nat /\ l \in Nat /\ n \in Nat
  BY <1>2, <1>3, <1>6
<1>11. Len(decisions) = Len(trained) + Len(buffer \o s)
  BY <1>2, <1>5, <1>6, <1>9, <1>10
<1> QED
  BY <1>1, <1>2, <1>6, <1>9, <1>11, Zenon

LEMMA TrainEndBatchSamples ==
    ASSUME EnvTypeOK, TrainTypes, SamplesTrue, TrainEndBatch PROVE SamplesTrue'
<1>1. /\ phase = "train" /\ step = "place" /\ step' = "idle" /\ actions' = actions
      /\ args' = args /\ epoch' = epoch /\ decisions' = decisions
  BY DEF TrainEndBatch, EndBatch
<1>2. Placed' = 0
  BY <1>1 DEF Placed
<1>3. /\ trained \in Seq(Sample) /\ buffer \in Seq(Sample) /\ version \in Nat
      /\ Accounted(trained, buffer, version, decisions)
  BY DEF SamplesTrue, Accounted
<1>4. Len(trained) \in Nat /\ Len(buffer) \in Nat /\ 0 \in Nat /\ 1 \in Nat
  BY <1>3
<1>5. ASSUME phase' # "trained", pending' => V3 /\ phase' = "train" /\ buffer' # <<>>,
             UNCHANGED <<version, trained>>,
             NEW s, buffer' = s, Accounted(trained, s, version, decisions),
             Len(decisions) = Len(trained) + Len(s)
      PROVE  SamplesTrue'
  <2>1. Accounted(trained, buffer, version, decisions)'
    BY <1>1, <1>5, Zenon
  <2>2. (Len(decisions) = Len(trained) + Len(buffer) + Placed)'
    <3>1. s \in Seq(Sample)
      BY <1>5 DEF Accounted
    <3>2. Len(s) \in Nat
      BY <3>1
    <3> QED
      BY <1>1, <1>2, <1>4, <1>5, <3>2
  <2>3. V3' = V3
    BY <1>1 DEF V3
  <2> QED
    BY <1>1, <1>5, <2>1, <2>2, <2>3 DEF SamplesTrue
<1>6. CASE V3 /\ actions = <<>>
  <2>1. add_batch /\ UNCHANGED <<version, trained>>
    BY <1>6 DEF TrainEndBatch
  <2>2. Len(decisions) = Len(trained) + Len(buffer)
    <3>1. Placed = 0
      BY <1>1, <1>6 DEF Placed
    <3> QED
      BY <1>4, <3>1 DEF SamplesTrue
  <2>3. CASE ~pending
    <3>1. phase' = "stranded" /\ UNCHANGED <<buffer, pending>>
      BY <1>6, <2>1, <2>3 DEF add_batch
    <3> QED
      BY <1>3, <1>5, <2>1, <2>2, <2>3, <3>1
  <2>4. CASE pending
    <3>1. PICK b, c : b = buffer /\ c = [batch |-> batch_id, power |-> elapsed]
      OBVIOUS
    <3>2. /\ phase' = phase /\ pending' = pending
          /\ buffer' = [b EXCEPT ![Len(b)].credits = Append(@, c)]
      BY <1>6, <2>1, <2>4, <3>1 DEF add_batch
    <3>3. b \in Seq(Sample) /\ b # <<>> /\ c \in [batch : Nat, power : Nat]
      BY <1>3, <2>4, <3>1 DEF SamplesTrue, EnvTypeOK, TrainTypes
    <3>4. PICK s : s = buffer'
      OBVIOUS
    <3>5. Alike(s, b)
      BY <3>2, <3>3, <3>4, LastCredited, Zenon
    <3>6. Accounted(trained, s, version, decisions) /\ Len(s) = Len(buffer)
      BY <1>3, <3>1, <3>5, BufferAlike, Zenon
    <3>7. s # <<>>
      <4>1. Len(s) = Len(b) /\ s \in Seq(Sample)
        BY <3>5 DEF Alike
      <4> QED
        BY <3>3, <4>1
    <3>8. Len(decisions) = Len(trained) + Len(s)
      BY <2>2, <3>6
    <3> QED
      BY <1>1, <1>5, <1>6, <2>1, <3>2, <3>4, <3>6, <3>7, <3>8
  <2> QED
    BY <2>3, <2>4
<1>7. CASE V3 /\ actions # <<>>
  <2>1. PICK paid, s : paid = {Len(actions)} /\ s = buffer \o BatchSamples(paid, 0, "own")
    OBVIOUS
  <2>2. phase' = phase /\ buffer' = s /\ UNCHANGED <<version, trained>>
    BY <1>7, <2>1 DEF TrainEndBatch, add_batch
  <2>3. /\ Accounted(trained, s, version, decisions) /\ Len(s) = Len(buffer) + Len(actions)
        /\ Len(decisions) = Len(trained) + Len(s)
    <3>1. 0 \in Nat /\ "own" \in {"next", "own", "end"}
      OBVIOUS
    <3> QED
      BY <1>1, <2>1, <3>1, BatchJoins, Zenon
  <2>4. s # <<>>
    <3>1. Len(actions) \in Nat \ {0}
      <4>1. PICK R : actions \in Seq(R)
        BY DEF EnvTypeOK
      <4> QED
        BY <1>7, <4>1
    <3>2. Len(s) # 0
      BY <1>4, <2>3, <3>1
    <3> QED
      BY <3>2
  <2> QED
    BY <1>1, <1>5, <1>7, <2>2, <2>3, <2>4
<1>8. CASE ~V3
  <2>1. ~pending
    BY <1>8 DEF SamplesTrue
  <2>2. PICK s : s = buffer \o add_actions_to_buffer
    OBVIOUS
  <2>3. /\ phase' = phase /\ pending' = pending
        /\ \/ UpdateAgent(s)
           \/ buffer' = s /\ UNCHANGED <<version, trained>>
    BY <1>8, <2>2, Zenon DEF TrainEndBatch
  <2>4. Accounted(trained, s, version, decisions) /\ Len(decisions) = Len(trained) + Len(s)
    <3>1. "end" \in {"next", "own", "end"}
      OBVIOUS
    <3> QED
      BY <1>1, <1>4, <2>2, <3>1, BatchJoins, Zenon DEF add_actions_to_buffer
  <2>5. CASE buffer' = s /\ UNCHANGED <<version, trained>>
    BY <1>1, <1>5, <2>1, <2>3, <2>4, <2>5
  <2>6. CASE UpdateAgent(s)
    <3>1. PICK w, q : w = update(s) /\ q = Trained(s)
      OBVIOUS
    <3>2. version' = w /\ trained' = trained \o q /\ buffer' = <<>>
      BY <2>6, <3>1 DEF UpdateAgent
    <3>3. s \in Seq(Sample)
      BY <2>4 DEF Accounted
    <3>4. Alike(q, s) /\ \A i \in 1 .. Len(s) : q[i].by = version
      BY <1>3, <3>1, <3>3, TrainedSamples, Zenon
    <3>5. w \in Nat
      BY <1>3, <3>1 DEF update
    <3>6. Accounted(trained \o q, <<>>, w, decisions) /\ Len(trained \o q) = Len(trained) + Len(s)
      <4>1. PICK v, past, taken : v = version /\ past = trained /\ taken = decisions
        OBVIOUS
      <4>2. Accounted(past, s, v, taken)
        BY <2>4, <4>1, Zenon
      <4>3. Alike(q, s)
        BY <3>4, Zenon
      <4>4. \A i \in 1 .. Len(s) : q[i].by = v
        BY <3>4, <4>1, Zenon
      <4>5. Accounted(past \o q, <<>>, w, taken) /\ Len(past \o q) = Len(past) + Len(s)
        BY <3>5, <4>2, <4>3, <4>4, BufferTrained, Zenon
      <4> QED
        BY <4>1, <4>5, Zenon
    <3>7. Accounted(trained, buffer, version, decisions)'
      BY <1>1, <3>2, <3>6, Zenon
    <3>8. (Len(decisions) = Len(trained) + Len(buffer) + Placed)'
      <4>1. Len(<<>>) = 0 /\ Len(s) \in Nat
        BY <3>3
      <4> QED
        BY <1>1, <1>2, <1>4, <2>4, <3>2, <3>6, <4>1
    <3> QED
      BY <1>1, <2>1, <2>3, <3>2, <3>7, <3>8 DEF SamplesTrue
  <2> QED
    BY <2>3, <2>5, <2>6
<1> QED
  BY <1>6, <1>7, <1>8

\* The other steps leave the samples alone.
LEMMA SamplesStay ==
    ASSUME EnvTypeOK, TrainTypes, SamplesTrue, TrainingNext PROVE SamplesTrue'
<1>1. args' = args
  BY ArgsStay
<1>2. pending => phase = "train"
  BY DEF SamplesTrue
<1>3. CASE StartTraining
  <2>1. Idle /\ phase = "start" /\ phase' \in {"train", "refused"} /\ step' = step
    BY <1>3 DEF StartTraining, Idle, rolloutVars, NewPass, envVars, batchVars
  <2>2. step = "idle"
    BY <2>1 DEF TrainTypes
  <2> QED
    BY <1>1, <1>2, <2>1, <2>2, SamplesRest
<1>4. CASE TrainBeginBatch
  <2>1. Idle /\ phase = "train" /\ phase' = "train" /\ step = "idle" /\ step' = "place"
        /\ actions' = <<>>
    BY <1>4 DEF TrainBeginBatch, BeginBatch, Idle, trainVars, rolloutVars
  <2> QED
    BY <1>1, <1>2, <2>1, SamplesRest
<1>5. CASE \E output \in Shard : TrainPlace(output)
  BY <1>5, TrainPlaceSamples
<1>6. CASE TrainEndBatch
  BY <1>6, TrainEndBatchSamples
<1>7. CASE FinishEpoch
  BY <1>7, FinishEpochSamples
<1>8. CASE \E m \in Metrics : Validate(m)
  <2>1. Idle /\ phase = "validate" /\ phase' = "epoch_done"
    BY <1>8 DEF Validate, Idle, rolloutVars
  <2> QED
    BY <1>1, <1>2, <2>1, SamplesRest
<1>9. CASE NextEpoch
  <2>1. Idle /\ phase = "epoch_done" /\ phase' = "train" /\ step' = step
    BY <1>9 DEF NextEpoch, NewPass, Idle, rolloutVars, batchVars
  <2>2. step = "idle"
    BY <2>1 DEF TrainTypes
  <2> QED
    BY <1>1, <1>2, <2>1, <2>2, SamplesRest
<1>10. CASE \E m \in Metrics : FinishTraining(m)
  BY <1>10, FinishTrainingSamples
<1>11. CASE SelectCheckpoint
  <2>1. Idle /\ phase = "trained" /\ phase' \in {"rejected", "selected"}
    BY <1>11 DEF SelectCheckpoint, Idle, rolloutVars
  <2> QED
    BY <1>1, <1>2, <2>1, SamplesRest
<1>12. CASE \E p \in Policies : StartEvaluation(p)
  <2>1. PICK p \in Policies : StartEvaluation(p)
    BY <1>12
  <2>2. Idle /\ phase \in {"trained", "selected"} /\ phase' \in {"evaluate", "refused"}
    BY <2>1 DEF StartEvaluation, Idle, rolloutVars
  <2> QED
    BY <1>1, <1>2, <2>2, SamplesRest
<1>13. CASE EvaluateStep
  <2>1. Idle /\ phase = "evaluate" /\ phase' = "evaluate"
    BY <1>13 DEF EvaluateStep, trainVars, rolloutVars, Idle
  <2> QED
    BY <1>1, <1>2, <2>1, SamplesRest
<1>14. CASE FinishEvaluation
  <2>1. Idle /\ phase = "evaluate" /\ phase' = "done"
    BY <1>14 DEF FinishEvaluation, rolloutVars, Idle
  <2> QED
    BY <1>1, <1>2, <2>1, SamplesRest
<1> QED
  BY <1>3, <1>4, <1>5, <1>6, <1>7, <1>8, <1>9, <1>10, <1>11, <1>12, <1>13, <1>14 DEF TrainingNext

-----------------------------------------------------------------------------
(* Checkpoints.                                                             *)

\* The files are different ones.
LEMMA Paths ==
    /\ <<"model", 0>> \in Path /\ <<"last", 0>> \in Path /\ <<"output", 0>> \in Path
    /\ \A e \in 1 .. Epochs : <<"epoch", e>> \in Path
    /\ <<"model", 0>> # <<"last", 0>> /\ <<"model", 0>> # <<"output", 0>>
    /\ <<"last", 0>> # <<"output", 0>>
    /\ \A e : /\ <<"epoch", e>> # <<"model", 0>> /\ <<"epoch", e>> # <<"last", 0>>
              /\ <<"epoch", e>> # <<"output", 0>>
    /\ \A e, f : <<"epoch", e>> = <<"epoch", f>> => e = f
    /\ None \notin Path
<1>1. None \notin Path
  BY TrainingAssumption
<1> QED
  BY <1>1 DEF Path

\* A validation leaves the earlier records true, and its own is.
LEMMA RecordKeeps ==
    ASSUME RecordsTrue, BestTrue, files \in [Path -> Nat \cup {None}], epoch \in Nat,
           NEW event \in {0, 1}, NEW v \in Nat, NEW m \in Metrics, NEW path \in Path \cup {None},
           Record(event, v, m, path), path # <<"model", 0>>,
           \A k \in DOMAIN records : records[k].path # None => records[k].path # path
    PROVE  /\ files' \in [Path -> Nat \cup {None}]
           /\ records' \in Seq(ValidationRecord) /\ records' # <<>>
           /\ \A k \in DOMAIN records' :
                /\ records'[k].path # None =>
                     /\ files'[records'[k].path] \in DOMAIN metrics'
                     /\ metrics'[files'[records'[k].path]] = records'[k].m
                /\ \/ k \in DOMAIN records /\ records'[k] = records[k]
                   \/ records'[k].path = path /\ records'[k].epoch = epoch
           /\ \E k \in DOMAIN records' :
                /\ FirstBest(k)' /\ best_score' = records'[k].m.score
                /\ files'[<<"model", 0>>] \in DOMAIN metrics'
                /\ metrics'[files'[<<"model", 0>>]] = records'[k].m
<1>1. PICK x, n : x = [event |-> event, epoch |-> epoch, m |-> m, path |-> path] /\ n = Len(records)
  OBVIOUS
<1>2. x \in ValidationRecord /\ x.m = m /\ x.path = path /\ x.epoch = epoch
  BY <1>1 DEF ValidationRecord
<1>3. /\ records \in Seq(ValidationRecord) /\ n \in Nat /\ DOMAIN records = 1 .. n
      /\ \A k \in 1 .. n : records[k] \in ValidationRecord
  BY <1>1 DEF RecordsTrue
<1>4. PICK rs : rs = Append(records, x)
  OBVIOUS
<1>5. /\ records' = rs /\ rs \in Seq(ValidationRecord) /\ Len(rs) = n + 1 /\ rs # <<>>
      /\ DOMAIN rs = 1 .. n + 1 /\ rs[n + 1] = x /\ \A k \in 1 .. n : rs[k] = records[k]
  <2>1. records' = rs
    BY <1>1, <1>4 DEF Record
  <2> QED
    BY <1>1, <1>2, <1>3, <1>4, <2>1
<1>6. /\ DOMAIN metrics' = DOMAIN metrics \cup {v} /\ metrics'[v] = m
      /\ \A w \in DOMAIN metrics : w \in DOMAIN metrics' /\ metrics'[w] = metrics[w]
  BY DEF Record, Measure
<1>7. /\ files' \in [Path -> Nat \cup {None}]
      /\ \A f \in Path : files'[f] = IF f = path \/ (f = <<"model", 0>> /\ Better(m.score))
                                     THEN v ELSE files[f]
      /\ best_score' = IF Better(m.score) THEN m.score ELSE best_score
  BY DEF Record
<1>8. \A k \in 1 .. n : RecordTrue(records[k])
  BY <1>3 DEF RecordsTrue
<1>9. ASSUME NEW k \in 1 .. n + 1, rs[k].path # None
      PROVE  files'[rs[k].path] \in DOMAIN metrics' /\ metrics'[files'[rs[k].path]] = rs[k].m
  <2>1. CASE k = n + 1
    <3>1. rs[k].path = path /\ path \in Path /\ rs[k].m = m
      BY <1>2, <1>5, <1>9, <2>1
    <3> QED
      BY <1>6, <1>7, <3>1
  <2>2. CASE k \in 1 .. n
    <3>1. PICK r : r = records[k]
      OBVIOUS
    <3>2. rs[k] = r /\ r \in ValidationRecord /\ r.path # None /\ r.path # path
      BY <1>3, <1>5, <1>9, <2>2, <3>1
    <3>3. /\ r.path \in Path /\ r.path # <<"model", 0>>
          /\ files[r.path] \in DOMAIN metrics /\ metrics[files[r.path]] = r.m
      <4>1. r.path \in Path
        BY <3>2, RecordTypes
      <4>2. /\ files[r.path] \in DOMAIN metrics /\ metrics[files[r.path]] = r.m
            /\ r.path \in {None, <<"last", 0>>, <<"epoch", r.epoch>>}
        BY <1>8, <2>2, <3>1, <3>2 DEF RecordTrue
      <4> QED
        BY <3>2, <4>1, <4>2, Paths
    <3>4. files'[r.path] = files[r.path]
      BY <1>7, <3>2, <3>3
    <3> QED
      BY <1>6, <3>2, <3>3, <3>4
  <2> QED
    BY <1>3, <2>1, <2>2
<1>10. ASSUME NEW k \in 1 .. n + 1
       PROVE  \/ k \in DOMAIN records /\ rs[k] = records[k]
              \/ rs[k].path = path /\ rs[k].epoch = epoch
  BY <1>2, <1>3, <1>5
<1>11. m.score \in Int /\ \A k \in 1 .. n : records[k].m.score \in Int
  <2>1. m.score \in Int
    BY TrainingAssumption
  <2> QED
    BY <1>3, <2>1, RecordTypes
<1>12. \E k \in 1 .. n + 1 :
         /\ \A j \in 1 .. n + 1 : rs[j].m.score <= rs[k].m.score
         /\ \A j \in 1 .. k - 1 : rs[j].m.score < rs[k].m.score
         /\ best_score' = rs[k].m.score
         /\ files'[<<"model", 0>>] \in DOMAIN metrics'
         /\ metrics'[files'[<<"model", 0>>]] = rs[k].m
  <2>1. ASSUME Better(m.score), \A j \in 1 .. n : records[j].m.score < m.score
        PROVE  /\ \A j \in 1 .. n + 1 : rs[j].m.score <= rs[n + 1].m.score
               /\ \A j \in 1 .. (n + 1) - 1 : rs[j].m.score < rs[n + 1].m.score
               /\ best_score' = rs[n + 1].m.score
               /\ files'[<<"model", 0>>] \in DOMAIN metrics'
               /\ metrics'[files'[<<"model", 0>>]] = rs[n + 1].m
    <3>1. rs[n + 1].m = m
      BY <1>2, <1>5
    <3>2. \A j \in 1 .. n : rs[j].m.score < m.score
      BY <1>5, <2>1
    <3>3. \A j \in 1 .. n : rs[j].m.score <= m.score
      BY <1>5, <1>11, <3>2
    <3>4. m.score <= m.score
      BY <1>11
    <3>5. \A j \in 1 .. n + 1 : rs[j].m.score <= m.score
      BY <1>3, <3>1, <3>3, <3>4
    <3>6. files'[<<"model", 0>>] = v /\ best_score' = m.score
      BY <1>7, <2>1, Paths
    <3>7. (n + 1) - 1 = n
      BY <1>3
    <3> QED
      BY <1>6, <3>1, <3>2, <3>5, <3>6, <3>7
  <2>2. n + 1 \in 1 .. n + 1
    BY <1>3
  <2>3. CASE records = <<>>
    <3>1. Better(m.score) /\ n = 0
      BY <1>1, <2>3 DEF Better, BestTrue
    <3>2. \A j \in 1 .. n : records[j].m.score < m.score
      BY <3>1
    <3> QED
      BY <2>1, <2>2, <3>1, <3>2, Zenon
  <2>4. CASE records # <<>>
    <3>1. PICK k \in 1 .. n :
            /\ FirstBest(k) /\ best_score = records[k].m.score
            /\ files[<<"model", 0>>] \in DOMAIN metrics
            /\ metrics[files[<<"model", 0>>]] = records[k].m
      BY <1>3, <2>4 DEF BestTrue
    <3>2. best_score \in Int /\ best_score # None
      BY <1>11, <3>1, TrainingAssumption
    <3>3. \A j \in 1 .. n : records[j].m.score <= best_score
      BY <1>3, <3>1 DEF FirstBest
    <3>4. CASE Better(m.score)
      <4>1. m.score > best_score
        BY <3>2, <3>4 DEF Better
      <4>2. \A j \in 1 .. n : records[j].m.score < m.score
        BY <1>11, <3>2, <3>3, <4>1
      <4> QED
        BY <2>1, <2>2, <3>4, <4>2, Zenon
    <3>5. CASE ~Better(m.score)
      <4>1. m.score <= best_score
        BY <1>11, <3>2, <3>5 DEF Better
      <4>2. /\ files'[<<"model", 0>>] = files[<<"model", 0>>] /\ best_score' = best_score
        BY <1>7, <3>5, Paths
      <4>3. rs[k] = records[k] /\ k \in 1 .. n + 1 /\ rs[n + 1].m.score = m.score
        BY <1>2, <1>3, <1>5
      <4>4. \A j \in 1 .. n + 1 : rs[j].m.score <= best_score
        BY <1>3, <1>5, <3>3, <4>1, <4>3
      <4>5. \A j \in 1 .. k - 1 : rs[j].m.score < records[k].m.score
        <5>1. \A j \in 1 .. k - 1 : j \in 1 .. n /\ records[j].m.score < records[k].m.score
          BY <1>3, <3>1 DEF FirstBest
        <5> QED
          BY <1>5, <5>1
      <4> QED
        BY <1>6, <3>1, <4>2, <4>3, <4>4, <4>5
    <3> QED
      BY <3>4, <3>5
  <2> QED
    BY <2>3, <2>4
<1> QED
  <2>1. \A k \in 1 .. n + 1 :
          FirstBest(k)' <=> /\ \A j \in 1 .. n + 1 : rs[j].m.score <= rs[k].m.score
                            /\ \A j \in 1 .. k - 1 : rs[j].m.score < rs[k].m.score
    BY <1>5 DEF FirstBest
  <2>2. \E k \in DOMAIN records' :
                /\ FirstBest(k)' /\ best_score' = records'[k].m.score
                /\ files'[<<"model", 0>>] \in DOMAIN metrics'
                /\ metrics'[files'[<<"model", 0>>]] = records'[k].m
    BY <1>5, <1>12, <2>1, Zenon
  <2> QED
    BY <1>5, <1>7, <1>9, <1>10, <2>2, Zenon

\* What writes neither a record nor its checkpoint leaves the records true.
LEMMA CheckpointsRest ==
    ASSUME RecordsTrue, BestTrue, UNCHANGED <<records, metrics, best_score, args>>,
           epoch \in Nat, phase' # "start", phase' # "trained",
           \A f \in Path : \/ files'[f] = files[f] \/ f = <<"output", 0>>
                           \/ f = <<"last", 0>> /\ phase = "train"
                           \/ records = <<>>,
           \/ phase = "start"
           \/ phase = "epoch_done" /\ epoch' = epoch + 1
           \/ /\ epoch' = epoch
              /\ phase' \in {"train", "validate"} => phase \in {"train", "validate"}
              /\ phase' = "epoch_done" => phase = "validate"
    PROVE  RecordsTrue' /\ BestTrue'
<1>1. records \in Seq(ValidationRecord)
  BY DEF RecordsTrue
<1>2. ASSUME NEW k \in DOMAIN records PROVE RecordTrue(records[k])'
  <2>1. PICK r : r = records[k]
    OBVIOUS
  <2>2. r \in ValidationRecord /\ r = records'[k] /\ RecordTrue(r)
    BY <1>1, <2>1 DEF RecordsTrue
  <2>3. r.epoch \in Nat /\ r.path \in Path \cup {None}
    BY <2>2, RecordTypes
  <2>4. /\ r.path # None => files[r.path] \in DOMAIN metrics /\ metrics[files[r.path]] = r.m
        /\ r.path \in {None, <<"last", 0>>, <<"epoch", r.epoch>>}
        /\ phase \in {"train", "validate", "epoch_done"} => r.path # <<"last", 0>>
        /\ r.epoch <= epoch
        /\ phase \in {"train", "validate"} => r.epoch < epoch
        /\ args.epoch_dir => r.path # None
    BY <2>2 DEF RecordTrue
  <2>5. phase # "start" /\ records # <<>>
    BY DEF RecordsTrue
  <2>6. r.path # None => files'[r.path] = files[r.path]
    BY <2>3, <2>4, <2>5, Paths
  <2>7. /\ phase' \in {"train", "validate", "epoch_done"} => r.path # <<"last", 0>>
        /\ r.epoch <= epoch'
        /\ phase' \in {"train", "validate"} => r.epoch < epoch'
    BY <2>3, <2>4, <2>5
  <2> QED
    BY <2>2, <2>4, <2>6, <2>7 DEF RecordTrue
<1>3. RecordsTrue'
  BY <1>1, <1>2 DEF RecordsTrue
<1>4. records # <<>> => files'[<<"model", 0>>] = files[<<"model", 0>>]
  BY Paths
<1>5. \A k : FirstBest(k)' <=> FirstBest(k)
  BY DEF FirstBest
<1>6. BestTrue'
  BY <1>4, <1>5 DEF BestTrue
<1> QED
  BY <1>3, <1>6

LEMMA ValidateCheckpoints ==
    ASSUME TrainTypes, RecordsTrue, BestTrue, version \in Nat, NEW m \in Metrics, Validate(m)
    PROVE  RecordsTrue' /\ BestTrue' /\ files' \in [Path -> Nat \cup {None}]
<1>1. /\ phase = "validate" /\ phase' = "epoch_done" /\ args' = args /\ epoch' = epoch
      /\ epoch \in 1 .. Epochs /\ files \in [Path -> Nat \cup {None}]
  BY TrainingAssumption DEF Validate, TrainTypes
<1>2. CASE UNCHANGED checkVars
  BY <1>1, <1>2, CheckpointsRest DEF checkVars
<1>3. ASSUME ~UNCHANGED checkVars PROVE RecordsTrue' /\ BestTrue' /\ files' \in [Path -> Nat \cup {None}]
  <2>1. PICK path : path = IF args.epoch_dir THEN <<"epoch", epoch>> ELSE None
    OBVIOUS
  <2>2. ~args.disable_best /\ Record(1, version, m, path)
    BY <1>3, <2>1 DEF Validate
  <2>3. path \in Path \cup {None} /\ path # <<"model", 0>> /\ path # <<"last", 0>>
    BY <1>1, <2>1, Paths
  <2>4. records \in Seq(ValidationRecord)
    BY DEF RecordsTrue
  <2>5. \A k \in DOMAIN records : records[k] \in ValidationRecord
    BY <2>4
  <2>6. ASSUME NEW k \in DOMAIN records, records[k].path # None PROVE records[k].path # path
    <3>1. PICK r : r = records[k]
      OBVIOUS
    <3>2. RecordTrue(r) /\ r \in ValidationRecord
      BY <2>5, <3>1 DEF RecordsTrue
    <3>3. r.epoch \in Nat /\ r.epoch < epoch /\ r.path \in {<<"last", 0>>, <<"epoch", r.epoch>>}
      BY <1>1, <2>6, <3>1, <3>2, RecordTypes DEF RecordTrue
    <3> QED
      BY <1>1, <2>1, <2>3, <2>6, <3>1, <3>3, Paths
  <2>7. /\ files' \in [Path -> Nat \cup {None}]
        /\ records' \in Seq(ValidationRecord) /\ records' # <<>>
        /\ \A k \in DOMAIN records' :
             /\ records'[k].path # None =>
                  /\ files'[records'[k].path] \in DOMAIN metrics'
                  /\ metrics'[files'[records'[k].path]] = records'[k].m
             /\ \/ k \in DOMAIN records /\ records'[k] = records[k]
                \/ records'[k].path = path /\ records'[k].epoch = epoch
        /\ \E k \in DOMAIN records' :
             /\ FirstBest(k)' /\ best_score' = records'[k].m.score
             /\ files'[<<"model", 0>>] \in DOMAIN metrics'
             /\ metrics'[files'[<<"model", 0>>]] = records'[k].m
    <3>1. epoch \in Nat /\ 1 \in {0, 1} /\ files \in [Path -> Nat \cup {None}]
      BY <1>1
    <3> QED
      BY <2>2, <2>3, <2>6, <3>1, RecordKeeps, Zenon
  <2>8. ASSUME NEW k \in DOMAIN records' PROVE RecordTrue(records[k])'
    <3>1. PICK r : r = records'[k]
      OBVIOUS
    <3>2. /\ r.path # None => files'[r.path] \in DOMAIN metrics' /\ metrics'[files'[r.path]] = r.m
          /\ \/ k \in DOMAIN records /\ r = records[k]
             \/ r.path = path /\ r.epoch = epoch
      BY <2>7, <3>1
    <3>3. /\ r.path \in {None, <<"last", 0>>, <<"epoch", r.epoch>>}
          /\ r.path # <<"last", 0>> /\ r.epoch <= epoch /\ (args.epoch_dir => r.path # None)
      <4>1. CASE k \in DOMAIN records /\ r = records[k]
        BY <1>1, <4>1 DEF RecordsTrue, RecordTrue
      <4>2. CASE r.path = path /\ r.epoch = epoch
        BY <1>1, <2>1, <2>3, <4>2, Paths
      <4> QED
        BY <3>2, <4>1, <4>2
    <3> QED
      BY <1>1, <3>1, <3>2, <3>3 DEF RecordTrue
  <2>9. RecordsTrue'
    BY <1>1, <2>2, <2>7, <2>8 DEF RecordsTrue
  <2>10. BestTrue'
    BY <1>1, <2>7 DEF BestTrue
  <2> QED
    BY <2>7, <2>9, <2>10
<1> QED
  BY <1>2, <1>3

LEMMA FinishTrainingCheckpoints ==
    ASSUME TrainTypes, RecordsTrue, BestTrue, version' \in Nat, NEW m \in Metrics, FinishTraining(m)
    PROVE  RecordsTrue' /\ BestTrue' /\ files' \in [Path -> Nat \cup {None}]
<1>1. /\ phase = "epoch_done" /\ phase' = "trained" /\ args' = args /\ epoch' = epoch
      /\ epoch \in 1 .. Epochs /\ files \in [Path -> Nat \cup {None}]
  BY TrainingAssumption DEF FinishTraining, TrainTypes
<1>2. CASE args.disable_best
  <2>1. /\ files' = [files EXCEPT ![<<"model", 0>>] = version']
        /\ records = <<>> /\ UNCHANGED <<metrics, records, best_score>>
    BY <1>2 DEF FinishTraining, RecordsTrue
  <2>2. files' \in [Path -> Nat \cup {None}] /\ files'[<<"model", 0>>] = version'
    BY <1>1, <2>1, Paths
  <2>3. RecordsTrue'
    BY <2>1 DEF RecordsTrue
  <2>4. BestTrue'
    BY <2>1, <2>2 DEF BestTrue
  <2> QED
    BY <2>2, <2>3, <2>4
<1>3. CASE ~args.disable_best
  <2>1. PICK path : path = <<"last", 0>>
    OBVIOUS
  <2>2. PICK v : v = version' /\ v \in Nat
    OBVIOUS
  <2>3. Record(0, v, m, path)
    BY <1>3, <2>1, <2>2 DEF FinishTraining
  <2>4. path \in Path \cup {None} /\ path # <<"model", 0>> /\ path # None
    BY <2>1, Paths
  <2>5. \A k \in DOMAIN records : records[k].path # None => records[k].path # path
    BY <1>1, <2>1 DEF RecordsTrue, RecordTrue
  <2>7. /\ files' \in [Path -> Nat \cup {None}]
        /\ records' \in Seq(ValidationRecord) /\ records' # <<>>
        /\ \A k \in DOMAIN records' :
             /\ records'[k].path # None =>
                  /\ files'[records'[k].path] \in DOMAIN metrics'
                  /\ metrics'[files'[records'[k].path]] = records'[k].m
             /\ \/ k \in DOMAIN records /\ records'[k] = records[k]
                \/ records'[k].path = path /\ records'[k].epoch = epoch
        /\ \E k \in DOMAIN records' :
             /\ FirstBest(k)' /\ best_score' = records'[k].m.score
             /\ files'[<<"model", 0>>] \in DOMAIN metrics'
             /\ metrics'[files'[<<"model", 0>>]] = records'[k].m
    <3>1. epoch \in Nat /\ 0 \in {0, 1} /\ files \in [Path -> Nat \cup {None}]
      BY <1>1
    <3> QED
      BY <2>2, <2>3, <2>4, <2>5, <3>1, RecordKeeps, Zenon
  <2>8. ASSUME NEW k \in DOMAIN records' PROVE RecordTrue(records[k])'
    <3>1. PICK r : r = records'[k]
      OBVIOUS
    <3>2. /\ r.path # None => files'[r.path] \in DOMAIN metrics' /\ metrics'[files'[r.path]] = r.m
          /\ \/ k \in DOMAIN records /\ r = records[k]
             \/ r.path = path /\ r.epoch = epoch
      BY <2>7, <3>1
    <3>3. /\ r.path \in {None, <<"last", 0>>, <<"epoch", r.epoch>>}
          /\ r.epoch <= epoch /\ (args.epoch_dir => r.path # None)
      <4>1. CASE k \in DOMAIN records /\ r = records[k]
        BY <1>1, <4>1 DEF RecordsTrue, RecordTrue
      <4>2. CASE r.path = path /\ r.epoch = epoch
        BY <1>1, <2>1, <2>4, <4>2
      <4> QED
        BY <3>2, <4>1, <4>2
    <3> QED
      BY <1>1, <3>1, <3>2, <3>3 DEF RecordTrue
  <2>9. RecordsTrue'
    BY <1>1, <1>3, <2>7, <2>8 DEF RecordsTrue
  <2>10. BestTrue'
    BY <1>1, <1>3, <2>7 DEF BestTrue
  <2> QED
    BY <2>7, <2>9, <2>10
<1> QED
  BY <1>2, <1>3

\* Checkpoints and records stay true.
LEMMA CheckpointsStay ==
    ASSUME EnvTypeOK, TrainTypes, RecordsTrue, BestTrue, version \in Nat, version' \in Nat,
           TrainingNext
    PROVE  RecordsTrue' /\ BestTrue' /\ files' \in [Path -> Nat \cup {None}]
<1>1. args' = args /\ epoch \in Nat /\ files \in [Path -> Nat \cup {None}]
  BY ArgsStay, TrainingAssumption DEF TrainTypes
<1>2. CASE StartTraining
  <2>1. phase = "start" /\ phase' \in {"train", "refused"} /\ UNCHANGED checkVars
    BY <1>2 DEF StartTraining
  <2> QED
    BY <1>1, <2>1, CheckpointsRest DEF checkVars
<1>3. CASE UNCHANGED <<phase, epoch, checkVars>> /\ phase \in {"train", "evaluate"}
  BY <1>1, <1>3, CheckpointsRest DEF checkVars
<1>4. CASE TrainEndBatch
  <2>1. /\ phase = "train" /\ epoch' = epoch /\ UNCHANGED <<metrics, records, best_score>>
    BY <1>4 DEF TrainEndBatch
  <2>2. UNCHANGED files \/ PeriodicSave(version')
    BY <1>4, Zenon DEF TrainEndBatch
  <2>3. phase' \in {"train", "stranded"}
    BY <1>4 DEF TrainEndBatch, add_batch
  <2>4. PICK f : f = <<IF args.disable_best THEN "model" ELSE "last", 0>>
    OBVIOUS
  <2>5. f \in Path /\ (f = <<"last", 0>> \/ records = <<>>)
    BY <2>4, Paths DEF RecordsTrue
  <2>6. UNCHANGED files \/ files' = [files EXCEPT ![f] = version']
    BY <2>2, <2>4 DEF PeriodicSave
  <2>7. files' \in [Path -> Nat \cup {None}] /\ \A g \in Path : g # f => files'[g] = files[g]
    BY <1>1, <2>5, <2>6
  <2>8. \A g \in Path : \/ files'[g] = files[g] \/ g = <<"output", 0>>
                        \/ g = <<"last", 0>> /\ phase = "train"
                        \/ records = <<>>
    BY <2>1, <2>5, <2>7
  <2> QED
    BY <1>1, <2>1, <2>3, <2>7, <2>8, CheckpointsRest
<1>5. CASE FinishEpoch
  <2>1. phase = "train" /\ phase' = "validate" /\ UNCHANGED checkVars /\ epoch' = epoch
    BY <1>5 DEF FinishEpoch
  <2> QED
    BY <1>1, <2>1, CheckpointsRest DEF checkVars
<1>6. CASE \E m \in Metrics : Validate(m)
  BY <1>6, ValidateCheckpoints
<1>7. CASE NextEpoch
  <2>1. phase = "epoch_done" /\ phase' = "train" /\ UNCHANGED checkVars /\ epoch' = epoch + 1
    BY <1>7 DEF NextEpoch
  <2> QED
    BY <1>1, <2>1, CheckpointsRest DEF checkVars
<1>8. CASE \E m \in Metrics : FinishTraining(m)
  BY <1>8, FinishTrainingCheckpoints
<1>9. CASE SelectCheckpoint
  <2>1. /\ phase = "trained" /\ phase' \in {"rejected", "selected"} /\ epoch' = epoch
        /\ UNCHANGED <<metrics, records, best_score>> /\ args.epoch_dir
    BY <1>9 DEF SelectCheckpoint
  <2>2. \/ UNCHANGED files
        \/ /\ select_candidate # None
           /\ files' = [files EXCEPT ![<<"output", 0>>] = files[select_candidate.path]]
    BY <1>9 DEF SelectCheckpoint
  <2>3. select_candidate # None => select_candidate.path \in Path
    <3>1. records \in Seq(ValidationRecord)
      BY DEF RecordsTrue
    <3>2. select_candidate # None => \E k \in DOMAIN records : select_candidate = records[k]
      BY <3>1, Selection
    <3>3. \A k \in DOMAIN records : records[k].path \in Path
      BY <2>1, <3>1, RecordTypes DEF RecordsTrue, RecordTrue
    <3> QED
      BY <3>2, <3>3
  <2>4. /\ files' \in [Path -> Nat \cup {None}]
        /\ \A g \in Path : g # <<"output", 0>> => files'[g] = files[g]
    BY <1>1, <2>2, <2>3
  <2> QED
    BY <1>1, <2>1, <2>4, CheckpointsRest
<1>10. CASE \E p \in Policies : StartEvaluation(p)
  <2>1. /\ phase \in {"trained", "selected"} /\ phase' \in {"evaluate", "refused"}
        /\ UNCHANGED checkVars /\ epoch' = epoch
    BY <1>10, Zenon DEF StartEvaluation
  <2> QED
    BY <1>1, <2>1, CheckpointsRest DEF checkVars
<1>11. CASE FinishEvaluation
  <2>1. phase = "evaluate" /\ phase' = "done" /\ UNCHANGED checkVars /\ epoch' = epoch
    BY <1>11 DEF FinishEvaluation
  <2> QED
    BY <1>1, <2>1, CheckpointsRest DEF checkVars
<1>12. TrainBeginBatch \/ (\E output \in Shard : TrainPlace(output)) \/ EvaluateStep
         => UNCHANGED <<phase, epoch, checkVars>> /\ phase \in {"train", "evaluate"}
  BY DEF TrainBeginBatch, TrainPlace, EvaluateStep, trainVars, checkVars
<1> QED
  BY <1>2, <1>3, <1>4, <1>5, <1>6, <1>7, <1>8, <1>9, <1>10, <1>11, <1>12 DEF TrainingNext

\* What is selected is sound with respect to all checkpoints.
LEMMA SelectionStays ==
    ASSUME TrainTypes, RecordsTrue, SelectionSound, TrainingNext PROVE SelectionSound'
<1>1. CASE SelectCheckpoint
  <2>1. /\ args.epoch_dir /\ files \in [Path -> Nat \cup {None}] /\ records \in Seq(ValidationRecord)
        /\ UNCHANGED <<args, metrics, records>>
    BY <1>1 DEF SelectCheckpoint, RecordsTrue, TrainTypes
  <2>2. \A r : (Tolerable(r)' <=> Tolerable(r)) /\ (Eligible(r)' <=> Eligible(r))
    BY DEF Tolerable, Eligible, active_deficit
  <2>3. V3' <=> V3
    BY <2>1 DEF V3
  <2>4. CASE select_candidate = None
    <3>1. phase' = "rejected" /\ \A k \in DOMAIN records : ~Tolerable(records[k])
      BY <1>1, <2>1, <2>4, Selection DEF SelectCheckpoint
    <3> QED
      BY <2>1, <2>2, <3>1 DEF SelectionSound
  <2>5. CASE select_candidate # None
    <3>1. PICK k \in DOMAIN records : select_candidate = records[k] /\ Selected(k)
      BY <2>1, <2>5, Selection
    <3>2. PICK r : r = records[k]
      OBVIOUS
    <3>3. r \in ValidationRecord /\ RecordTrue(r)
      BY <2>1, <3>1, <3>2 DEF RecordsTrue
    <3>4. r.path \in Path /\ metrics[files[r.path]] = r.m
      BY <2>1, <3>3, RecordTypes DEF RecordTrue
    <3>5. phase' = "selected" /\ files' = [files EXCEPT ![<<"output", 0>>] = files[r.path]]
      BY <1>1, <2>5, <3>1, <3>2 DEF SelectCheckpoint
    <3>6. metrics'[files'[<<"output", 0>>]] = r.m
      BY <2>1, <3>4, <3>5, Paths
    <3>7. PICK chosen : chosen = [m |-> r.m]
      OBVIOUS
    <3>8. chosen.m = r.m
      BY <3>7
    <3>9. (Tolerable(chosen) <=> Tolerable(r)) /\ (Eligible(chosen) <=> Eligible(r))
      BY <3>8 DEF Tolerable, Eligible, active_deficit
    <3>10. /\ Tolerable(chosen)
           /\ \A j \in DOMAIN records : Eligible(records[j]) =>
                Eligible(chosen) /\ (V3 \/ chosen.m.cross <= records[j].m.cross)
      BY <3>1, <3>2, <3>8, <3>9 DEF Selected
    <3> QED
      BY <2>1, <2>2, <2>3, <3>5, <3>6, <3>7, <3>10 DEF SelectionSound
  <2> QED
    BY <2>4, <2>5
<1>2. CASE ~SelectCheckpoint
  <2>1. phase' \notin {"selected", "rejected"}
    <3>1. StartTraining => phase' \in {"train", "refused"}
      BY DEF StartTraining
    <3>2. TrainEndBatch => phase' \in {"train", "stranded"}
      BY DEF TrainEndBatch, add_batch
    <3>3. (\E p \in Policies : StartEvaluation(p)) => phase' \in {"evaluate", "refused"}
      BY DEF StartEvaluation
    <3> QED
      BY <1>2, <3>1, <3>2, <3>3
      DEF TrainingNext, TrainBeginBatch, TrainPlace, FinishEpoch, Validate, NextEpoch,
          FinishTraining, EvaluateStep, FinishEvaluation, trainVars
  <2> QED
    BY <2>1 DEF SelectionSound
<1> QED
  BY <1>1, <1>2

-----------------------------------------------------------------------------
(* The first batch of an epoch, and types.                                  *)

\* A batch that begins has somebody to place.
LEMMA OrderNotEmpty ==
    ASSUME EnvTypeOK, cursor < Len(txs) PROVE PlacementOrder # <<>>
<1> DEFINE last == IF cursor + TxBatchSize < Len(txs) THEN cursor + TxBatchSize ELSE Len(txs)
<1>1. txs \in Seq(Tx) /\ cursor \in Nat /\ TxBatchSize \in Nat \ {0} /\ Len(txs) \in Nat
  BY DEF EnvTypeOK, Config, TxBatchSize
<1>2. last \in Nat /\ last >= cursor + 1 /\ last <= Len(txs)
  BY <1>1
<1>3. Batch = SubSeq(txs, cursor + 1, last)
  BY DEF Batch
<1> HIDE DEF last
<1>4. Len(Batch) = last - (cursor + 1) + 1
  BY <1>1, <1>2, <1>3
<1>5. PICK n : n = Len(Batch) /\ n \in Nat \ {0}
  BY <1>1, <1>2, <1>4
<1> DEFINE objects == [i \in 1 .. n |-> <<Batch[i].sender, Batch[i].recipient>>]
           senders == [i \in 1 .. n |-> <<Batch[i].sender, NoAddr>>]
           recipients == [i \in 1 .. n |-> <<Batch[i].recipient, Batch[i].sender>>]
           both(t, k) == IF k % 2 = 1 THEN <<t.sender, t.recipient>>
                                      ELSE <<t.recipient, t.sender>>
           pairs == [k \in 1 .. 2 * n |-> both(Batch[(k + 1) \div 2], k)]
<1>6. \/ PlacementOrder = objects
      \/ PlacementOrder = senders \o recipients
      \/ PlacementOrder = pairs
  BY <1>5, Zenon DEF PlacementOrder
<1>7. DOMAIN objects = 1 .. n /\ DOMAIN senders = 1 .. n /\ DOMAIN pairs = 1 .. 2 * n
  OBVIOUS
<1>8. PICK B : B = Address \X (Address \cup {NoAddr})
  OBVIOUS
<1>9. senders \in Seq(B) /\ recipients \in Seq(B)
  <2>1. \A i \in 1 .. n : Batch[i].sender \in Address /\ Batch[i].recipient \in Address
    BY <1>5, BatchType DEF Tx
  <2> QED
    BY <1>5, <1>8, <2>1
<1>10. Len(senders \o recipients) = 2 * n
  <2>1. Len(senders) = n /\ Len(recipients) = n
    BY <1>5
  <2> HIDE DEF senders, recipients
  <2>2. Len(senders \o recipients) = Len(senders) + Len(recipients)
    BY <1>9, ConcatProperties
  <2> QED
    BY <1>5, <2>1, <2>2
<1>11. 1 \in 1 .. n /\ 1 \in 1 .. 2 * n /\ 2 * n # 0
  BY <1>5
<1> HIDE DEF objects, senders, recipients, pairs
<1>12. objects # <<>> /\ pairs # <<>>
  <2>1. DOMAIN <<>> = {}
    OBVIOUS
  <2>2. 1 \in DOMAIN objects /\ 1 \in DOMAIN pairs
    BY <1>7, <1>11
  <2> QED
    BY <2>1, <2>2, Zenon
<1>13. senders \o recipients # <<>>
  <2>1. PICK all : all = senders \o recipients
    OBVIOUS
  <2>2. Len(all) # 0
    BY <1>10, <1>11, <2>1
  <2>3. all # <<>>
    BY <2>2
  <2> QED
    BY <2>1, <2>3
<1> QED
  BY <1>6, <1>12, <1>13

\* When nobody has a shard, a queue that is not empty has somebody to place.
LEMMA SomebodyUnplaced ==
    ASSUME EnvTypeOK, \A a \in Address : addr_shard[a] = NoShard, placements # <<>>
    PROVE  Unplaced # {}
<1>1. placements \in Seq(Address \X (Address \cup {NoAddr}))
  BY DEF EnvTypeOK
<1>2. 1 \in DOMAIN placements /\ placements[1] \in Address \X (Address \cup {NoAddr})
  BY <1>1
<1>3. addr_shard[placements[1][1]] = NoShard
  BY <1>2
<1> QED
  BY <1>2, <1>3 DEF Unplaced

\* Mechanism v3 never has a reward and no decision to carry it.
LEMMA FirstBatchStays ==
    ASSUME EnvTypeOK, TrainTypes, FirstBatchDecides, TrainingNext PROVE FirstBatchDecides'
<1>1. args' = args /\ (V3' <=> V3) /\ (validate_args(args)' <=> validate_args(args))
  <2>1. args' = args
    BY ArgsStay
  <2> QED
    BY <2>1 DEF V3, validate_args
<1>2. CASE StartTraining
  <2>1. CASE Prepared(args)
    <3>1. /\ phase' = "train" /\ validate_args(args)
          /\ \E w : NewPass(args.settings, w, TRUE)
      BY <1>2, <2>1, Zenon DEF StartTraining, Prepared
    <3>2. /\ step' = "idle" /\ config' = args.settings
          /\ addr_shard' = [a \in Address |-> NoShard]
      BY <3>1 DEF NewPass, ResetState, batchVars
    <3>3. \A a \in Address : addr_shard'[a] = NoShard
      BY <3>2
    <3> QED
      BY <1>1, <3>1, <3>2, <3>3 DEF FirstBatchDecides
  <2>2. CASE ~Prepared(args)
    <3>1. phase' = "refused"
      BY <1>2, <2>2 DEF StartTraining
    <3> QED
      BY <3>1 DEF FirstBatchDecides
  <2> QED
    BY <2>1, <2>2
<1>3. CASE TrainBeginBatch
  <2>1. /\ BeginBatch /\ UNCHANGED <<phase, pending>> /\ phase = "train" /\ step = "idle"
        /\ cursor < Len(txs) /\ config' = config
    BY <1>3 DEF TrainBeginBatch, BeginBatch, trainVars, rolloutVars
  <2>2. validate_args(args) /\ config = args.settings
    BY <2>1 DEF FirstBatchDecides
  <2>3. ASSUME V3, ~pending
        PROVE  (\A a \in Address : addr_shard'[a] = NoShard) /\ placements' # <<>>
    <3>1. ~StateObjects
      BY <2>2, <2>3 DEF validate_args, V3, StateObjects, RealAccounts
    <3>2. addr_shard' = addr_shard /\ placements' = PlacementOrder
      BY <2>1, <3>1 DEF BeginBatch
    <3>3. \A a \in Address : addr_shard[a] = NoShard
      BY <2>1, <2>3 DEF FirstBatchDecides
    <3> QED
      BY <2>1, <3>2, <3>3, OrderNotEmpty
  <2> QED
    BY <1>1, <2>1, <2>2, <2>3 DEF FirstBatchDecides
<1>4. CASE \E output \in Shard : TrainPlace(output)
  <2>1. PICK output \in Shard : TrainPlace(output)
    BY <1>4
  <2>2. /\ phase = "train" /\ phase' = "train" /\ config' = config /\ step' = "place"
        /\ \E x : actions' = Append(actions, x)
    BY <2>1 DEF TrainPlace, Place
  <2>3. actions' # <<>>
    <3>1. PICK x : actions' = Append(actions, x)
      BY <2>2
    <3>2. Len(actions) \in Nat
      BY DEF EnvTypeOK
    <3>3. Len(actions') = Len(actions) + 1
      BY <3>1
    <3> QED
      BY <3>2, <3>3
  <2> QED
    BY <1>1, <2>2, <2>3 DEF FirstBatchDecides
<1>5. CASE TrainEndBatch
  <2>1. phase = "train" /\ EndBatch /\ config' = config /\ step = "place" /\ Unplaced = {}
    BY <1>5 DEF TrainEndBatch, EndBatch
  <2>2. validate_args(args) /\ config = args.settings
    BY <2>1 DEF FirstBatchDecides
  <2>3. CASE ~V3
    <3>1. phase' = phase
      BY <1>5, <2>3 DEF TrainEndBatch
    <3> QED
      BY <1>1, <2>1, <2>2, <2>3, <3>1 DEF FirstBatchDecides
  <2>4. CASE V3
    <3>1. add_batch
      BY <1>5, <2>4 DEF TrainEndBatch
    <3>2. actions # <<>> \/ pending
      <4>1. SUFFICES ASSUME actions = <<>>, ~pending PROVE FALSE
        OBVIOUS
      <4>2. (\A a \in Address : addr_shard[a] = NoShard) /\ placements # <<>>
        BY <2>1, <2>4, <4>1 DEF FirstBatchDecides
      <4> QED
        BY <2>1, <4>2, SomebodyUnplaced
    <3>3. phase' = phase /\ pending' = TRUE
      BY <3>1, <3>2 DEF add_batch, TrainTypes
    <3> QED
      BY <1>1, <2>1, <2>2, <3>3 DEF FirstBatchDecides
  <2> QED
    BY <2>3, <2>4
<1>6. CASE NextEpoch
  <2>1. /\ phase = "epoch_done" /\ phase' = "train" /\ NewPass(config, txs, ~args.keep_placement)
    BY <1>6 DEF NextEpoch
  <2>2. validate_args(args) /\ config = args.settings
    BY <2>1 DEF FirstBatchDecides
  <2>3. config' = config /\ step' = "idle"
    BY <2>1 DEF NewPass, batchVars
  <2>4. V3 => \A a \in Address : addr_shard'[a] = NoShard
    BY <2>1, <2>2 DEF NewPass, ResetState, validate_args, V3
  <2> QED
    BY <1>1, <2>1, <2>2, <2>3, <2>4 DEF FirstBatchDecides
<1>7. CASE FinishEpoch \/ \E m \in Metrics : Validate(m)
  <2>1. phase \in {"train", "validate"} /\ phase' \in {"validate", "epoch_done"} /\ config' = config
    BY <1>7 DEF FinishEpoch, Validate, envVars
  <2> QED
    BY <1>1, <2>1 DEF FirstBatchDecides
<1>8. ASSUME \/ \E m \in Metrics : FinishTraining(m)
             \/ SelectCheckpoint
             \/ \E p \in Policies : StartEvaluation(p)
             \/ EvaluateStep
             \/ FinishEvaluation
      PROVE  FirstBatchDecides'
  <2>1. /\ phase' \in {"trained", "rejected", "selected", "evaluate", "refused", "done"}
        /\ phase \in {"epoch_done", "trained", "selected", "evaluate"}
    <3>1. (\E p \in Policies : StartEvaluation(p)) =>
             phase \in {"trained", "selected"} /\ phase' \in {"evaluate", "refused"}
      BY Zenon DEF StartEvaluation
    <3>2. SelectCheckpoint => phase = "trained" /\ phase' \in {"rejected", "selected"}
      BY DEF SelectCheckpoint
    <3> QED
      BY <1>8, <3>1, <3>2 DEF FinishTraining, EvaluateStep, FinishEvaluation, trainVars
  <2> QED
    BY <1>1, <2>1 DEF FirstBatchDecides
<1> QED
  BY <1>2, <1>3, <1>4, <1>5, <1>6, <1>7, <1>8 DEF TrainingNext

\* Training keeps the types of its variables, and the environment idle outside of
\* training and evaluation.
LEMMA TypesStay ==
    ASSUME EnvTypeOK, TrainTypes, files' \in [Path -> Nat \cup {None}], TrainingNext
    PROVE  TrainTypes'
<1> USE TrainingAssumption
<1>1. args' = args /\ args' \in Jobs
  BY ArgsStay DEF TrainTypes
<1>2. /\ epoch \in 0 .. Epochs /\ elapsed \in Nat /\ batches \in Nat /\ pending \in BOOLEAN
      /\ (phase \in {"train", "validate", "epoch_done"} => epoch >= 1)
      /\ (phase \notin {"train", "evaluate"} => step = "idle")
      /\ Epochs \in Nat \ {0}
  BY DEF TrainTypes
<1>3. CASE StartTraining
  <2>1. /\ step' = step /\ phase = "start" /\ UNCHANGED <<pending, elapsed, batches>>
        /\ \/ phase' = "train" /\ epoch' = 1
           \/ phase' = "refused" /\ epoch' = epoch
    BY <1>3 DEF StartTraining, NewPass, batchVars, envVars, rolloutVars
  <2> QED
    BY <1>1, <1>2, <2>1 DEF TrainTypes
<1>4. CASE TrainBeginBatch
  <2>1. phase = "train" /\ UNCHANGED <<phase, epoch, pending, elapsed, batches>>
    BY <1>4 DEF TrainBeginBatch, trainVars, rolloutVars
  <2> QED
    BY <1>1, <1>2, <2>1 DEF TrainTypes
<1>5. CASE \E output \in Shard : TrainPlace(output)
  <2>1. phase = "train" /\ phase' = "train" /\ epoch' = epoch
    BY <1>5 DEF TrainPlace
  <2>2. pending' \in BOOLEAN /\ elapsed' \in Nat /\ batches' \in Nat
    <3>1. UNCHANGED rolloutVars \/ (before_decision /\ pending)
      BY <1>5 DEF TrainPlace, before_decision
    <3>2. elapsed' \in Nat /\ batches' \in Nat
      BY <1>2, <3>1 DEF before_decision, rolloutVars
    <3>3. pending' = FALSE \/ pending' = pending
      BY <3>1, Zenon DEF before_decision, rolloutVars
    <3>4. pending' \in BOOLEAN
      BY <1>2, <3>3, Zenon
    <3> QED
      BY <3>2, <3>4
  <2> QED
    BY <1>1, <1>2, <2>1, <2>2 DEF TrainTypes
<1>6. CASE TrainEndBatch
  <2>1. step' = "idle" /\ epoch' = epoch /\ phase = "train"
    BY <1>6 DEF TrainEndBatch, EndBatch
  <2>2. /\ pending' \in BOOLEAN /\ elapsed' \in Nat /\ batches' \in Nat
        /\ phase' \in {"train", "stranded"}
    <3>1. add_batch \/ UNCHANGED <<phase, pending, elapsed, batches>>
      BY <1>6 DEF TrainEndBatch
    <3>2. elapsed' \in Nat /\ batches' \in Nat /\ phase' \in {"train", "stranded"}
      BY <1>2, <2>1, <3>1 DEF add_batch, NextElapsed
    <3>3. pending' = TRUE \/ pending' = pending
      BY <3>1, Zenon DEF add_batch
    <3>4. pending' \in BOOLEAN
      BY <1>2, <3>3, Zenon
    <3> QED
      BY <3>2, <3>4
  <2> QED
    BY <1>1, <1>2, <2>1, <2>2 DEF TrainTypes
<1>7. CASE FinishEpoch
  <2>1. /\ step' = "idle" /\ epoch' = epoch /\ phase = "train" /\ phase' = "validate"
        /\ elapsed' = elapsed /\ batches' \in Nat
    BY <1>2, <1>7 DEF FinishEpoch, envVars, batchVars
  <2>2. pending' = FALSE \/ pending' = pending
    BY <1>7, Zenon DEF FinishEpoch
  <2>3. pending' \in BOOLEAN
    BY <1>2, <2>2, Zenon
  <2> QED
    BY <1>1, <1>2, <2>1, <2>3 DEF TrainTypes
<1>8. CASE \E m \in Metrics : Validate(m)
  <2>1. /\ step' = step /\ epoch' = epoch /\ phase = "validate" /\ phase' = "epoch_done"
        /\ UNCHANGED <<pending, elapsed, batches>>
    BY <1>8 DEF Validate, envVars, batchVars, rolloutVars
  <2> QED
    BY <1>1, <1>2, <2>1 DEF TrainTypes
<1>9. CASE NextEpoch
  <2>1. /\ step' = step /\ epoch' = epoch + 1 /\ epoch < Epochs /\ phase' = "train"
        /\ UNCHANGED <<pending, elapsed, batches>>
    BY <1>9 DEF NextEpoch, NewPass, batchVars, rolloutVars
  <2> QED
    BY <1>1, <1>2, <2>1 DEF TrainTypes
<1>10. CASE \E m \in Metrics : FinishTraining(m)
  <2>1. /\ step' = step /\ epoch' = epoch /\ phase = "epoch_done" /\ phase' = "trained"
        /\ UNCHANGED <<pending, elapsed, batches>>
    BY <1>10 DEF FinishTraining, envVars, batchVars
  <2> QED
    BY <1>1, <1>2, <2>1 DEF TrainTypes
<1>11. CASE SelectCheckpoint
  <2>1. /\ step' = step /\ epoch' = epoch /\ phase = "trained" /\ phase' \in {"rejected", "selected"}
        /\ UNCHANGED <<pending, elapsed, batches>>
    BY <1>11 DEF SelectCheckpoint, envVars, batchVars, rolloutVars
  <2> QED
    BY <1>1, <1>2, <2>1 DEF TrainTypes
<1>12. CASE \E p \in Policies : StartEvaluation(p)
  <2>1. PICK p \in Policies : StartEvaluation(p)
    BY <1>12
  <2>2. /\ epoch' = epoch /\ phase \in {"trained", "selected"} /\ phase' \in {"evaluate", "refused"}
        /\ UNCHANGED <<pending, elapsed, batches>>
    BY <2>1, Zenon DEF StartEvaluation, rolloutVars
  <2>3. UNCHANGED envVars \/ \E c, w : NewPass(c, w, TRUE)
    BY <2>1, Zenon DEF StartEvaluation
  <2>4. step' = step
    BY <2>3 DEF NewPass, envVars, batchVars
  <2> QED
    BY <1>1, <1>2, <2>2, <2>4 DEF TrainTypes
<1>13. CASE EvaluateStep
  <2>1. phase = "evaluate" /\ UNCHANGED <<phase, epoch, pending, elapsed, batches>>
    BY <1>13 DEF EvaluateStep, trainVars, rolloutVars
  <2> QED
    BY <1>1, <1>2, <2>1 DEF TrainTypes
<1>14. CASE FinishEvaluation
  <2>1. step' = "idle" /\ phase' = "done" /\ UNCHANGED <<epoch, pending, elapsed, batches>>
    BY <1>14 DEF FinishEvaluation, envVars, batchVars, rolloutVars
  <2> QED
    BY <1>1, <1>2, <2>1 DEF TrainTypes
<1> QED
  BY <1>3, <1>4, <1>5, <1>6, <1>7, <1>8, <1>9, <1>10, <1>11, <1>12, <1>13, <1>14 DEF TrainingNext

-----------------------------------------------------------------------------
(* The results about training.                                              *)

LEMMA TrainStarts == TrainingInit => TrainInv
<1> SUFFICES ASSUME TrainingInit PROVE TrainInv
  OBVIOUS
<1>1. /\ args \in Jobs /\ phase = "start" /\ epoch = 0 /\ step = "idle"
      /\ version = 0 /\ buffer = <<>> /\ trained = <<>> /\ decisions = <<>>
      /\ pending = FALSE /\ elapsed = 0 /\ batches = 0
      /\ records = <<>> /\ best_score = None
      /\ files = [f \in Path |-> None]
  BY DEF TrainingInit, EnvInit
<1>2. TrainTypes
  <2>1. files \in [Path -> Nat \cup {None}] /\ 0 \in 0 .. Epochs
    BY <1>1, TrainingAssumption
  <2>2. pending \in BOOLEAN
    BY <1>1, Zenon
  <2> QED
    BY <1>1, <2>1, <2>2 DEF TrainTypes
<1>3. RecordsTrue
  BY <1>1 DEF RecordsTrue
<1>4. BestTrue
  BY <1>1 DEF BestTrue
<1>5. SelectionSound
  BY <1>1 DEF SelectionSound
<1>6. SamplesTrue
  BY <1>1 DEF SamplesTrue, Accounted, Placed
<1>7. FirstBatchDecides
  BY <1>1 DEF FirstBatchDecides
<1> QED
  BY <1>2, <1>3, <1>4, <1>5, <1>6, <1>7 DEF TrainInv

LEMMA TrainInvStays == ASSUME EnvTypeOK, TrainInv, TrainingNext PROVE TrainInv'
<1>1. TrainTypes /\ RecordsTrue /\ BestTrue /\ SelectionSound /\ SamplesTrue /\ FirstBatchDecides
  BY DEF TrainInv
<1>2. SamplesTrue'
  BY <1>1, SamplesStay
<1>3. version \in Nat /\ version' \in Nat
  BY <1>1, <1>2 DEF SamplesTrue, Accounted
<1>4. RecordsTrue' /\ BestTrue' /\ files' \in [Path -> Nat \cup {None}]
  BY <1>1, <1>3, CheckpointsStay
<1>5. SelectionSound'
  BY <1>1, SelectionStays
<1>6. FirstBatchDecides'
  BY <1>1, FirstBatchStays
<1>7. TrainTypes'
  BY <1>1, <1>4, TypesStay
<1> QED
  BY <1>2, <1>4, <1>5, <1>6, <1>7 DEF TrainInv

\* A step that changes nothing keeps the invariant.
LEMMA TrainInvRests == ASSUME TrainInv, UNCHANGED vars PROVE TrainInv'
<1>1. UNCHANGED <<args, phase, epoch, step, config, addr_shard, placements, actions, version,
                  buffer, trained, decisions, pending, elapsed, batches, metrics, records,
                  best_score, files>>
  BY DEF vars, envVars, stateVars, batchVars, trainVars, rolloutVars, checkVars
<1>2. TrainTypes /\ RecordsTrue /\ BestTrue /\ SelectionSound /\ SamplesTrue /\ FirstBatchDecides
  BY DEF TrainInv
<1>3. TrainTypes'
  BY <1>1, <1>2 DEF TrainTypes
<1>4. RecordsTrue'
  BY <1>1, <1>2 DEF RecordsTrue, RecordTrue
<1>5. BestTrue'
  BY <1>1, <1>2 DEF BestTrue, FirstBest
<1>6. SelectionSound'
  BY <1>1, <1>2 DEF SelectionSound, Tolerable, Eligible, active_deficit, V3
<1>7. SamplesTrue'
  BY <1>1, <1>2, Zenon DEF SamplesTrue, Placed, V3
<1>8. FirstBatchDecides'
  BY <1>1, <1>2 DEF FirstBatchDecides, validate_args, V3
<1> QED
  BY <1>3, <1>4, <1>5, <1>6, <1>7, <1>8 DEF TrainInv

LEMMA TrainInvariant == TrainingSpec => [](EnvInv /\ TrainInv)
<1>1. TrainingInit => EnvInv /\ TrainInv
  BY EnvironmentStarts, EnvStarts, TrainStarts
<1>2. (EnvInv /\ TrainInv) /\ [TrainingNext]_vars => (EnvInv /\ TrainInv)'
  <2> SUFFICES ASSUME EnvInv, TrainInv, [TrainingNext]_vars PROVE EnvInv' /\ TrainInv'
    OBVIOUS
  <2>1. EnvTypeOK /\ args \in Jobs
    BY DEF EnvInv, TrainInv, TrainTypes
  <2>2. CASE TrainingNext
    <3>1. Next \/ UNCHANGED envVars
      BY <2>1, <2>2, EnvironmentSteps
    <3>2. EnvInv'
      BY <3>1, EnvInvStays
    <3>3. TrainInv'
      BY <2>1, <2>2, TrainInvStays
    <3> QED
      BY <3>2, <3>3
  <2>3. CASE UNCHANGED vars
    <3>1. UNCHANGED envVars
      BY <2>3 DEF vars
    <3> QED
      BY <2>3, <3>1, EnvInvStays, TrainInvRests
  <2> QED
    BY <2>2, <2>3
<1> QED
  BY <1>1, <1>2, PTL DEF TrainingSpec

\* The types of all variables, and the safety of the programs, whatever the
\* jobs, the data and the results of validations (train, evaluate).
THEOREM TrainingIsTyped == TrainingSpec => []TypeOK
<1>1. EnvInv /\ TrainInv => TypeOK
  <2> SUFFICES ASSUME EnvInv, TrainInv PROVE TypeOK
    OBVIOUS
  <2>1. EnvTypeOK /\ TrainTypes /\ Accounted(trained, buffer, version, decisions)
    BY DEF EnvInv, TrainInv, SamplesTrue
  <2>2. version \in Nat /\ \A i \in DOMAIN buffer : buffer[i] \in Sample
    BY <2>1 DEF Accounted
  <2> QED
    BY <2>1, <2>2 DEF TrainTypes, TypeOK
<1> QED
  BY <1>1, TrainInvariant, PTL

\* Samples that are accounted for are those of the first decisions.
LEMMA IdsAre ==
    ASSUME NEW past, NEW samples, NEW v, NEW taken, Accounted(past, samples, v, taken)
    PROVE  Ids(past) \o Ids(samples) = Ids(SubSeq(taken, 1, Len(past) + Len(samples)))
<1>1. PICK m, n : m = Len(past) /\ n = Len(samples)
  OBVIOUS
<1>2. /\ past \in Seq(Sample) /\ samples \in Seq(Sample) /\ taken \in Seq(Decision)
      /\ m \in Nat /\ n \in Nat /\ m + n <= Len(taken)
      /\ \A i \in 1 .. m : past[i].id = taken[i].id
      /\ \A i \in 1 .. n : samples[i].id = taken[m + i].id
  <2>1. past \in Seq(Sample) /\ samples \in Seq(Sample) /\ taken \in Seq(Decision)
    BY DEF Accounted
  <2>2. m \in Nat /\ n \in Nat
    BY <1>1, <2>1
  <2> QED
    BY <1>1, <2>1, <2>2, Zenon DEF Accounted
<1>3. PICK D : D = Nat \X Address
  OBVIOUS
<1>4. PICK a, b : a = Ids(past) /\ b = Ids(samples)
  OBVIOUS
<1>5. a \in Seq(D) /\ Len(a) = m /\ \A i \in 1 .. m : a[i] = taken[i].id
  <2>1. \A i \in 1 .. m : past[i] \in Sample
    BY <1>1, <1>2
  <2>2. \A i \in 1 .. m : past[i].id \in D
    BY <1>3, <2>1 DEF Sample
  <2>3. a = [i \in 1 .. m |-> past[i].id]
    BY <1>1, <1>2, <1>4 DEF Ids
  <2>4. a \in Seq(D) /\ Len(a) = m
    <3>1. m \in Nat
      BY <1>2
    <3> QED
      BY <2>2, <2>3, <3>1
  <2> QED
    BY <1>2, <2>3, <2>4
<1>6. b \in Seq(D) /\ Len(b) = n /\ \A i \in 1 .. n : b[i] = taken[m + i].id
  <2>1. \A i \in 1 .. n : samples[i] \in Sample
    BY <1>1, <1>2
  <2>2. \A i \in 1 .. n : samples[i].id \in D
    BY <1>3, <2>1 DEF Sample
  <2>3. b = [i \in 1 .. n |-> samples[i].id]
    BY <1>1, <1>2, <1>4 DEF Ids
  <2>4. b \in Seq(D) /\ Len(b) = n
    <3>1. n \in Nat
      BY <1>2
    <3> QED
      BY <2>2, <2>3, <3>1
  <2> QED
    BY <1>2, <2>3, <2>4
<1>7. PICK first : first = SubSeq(taken, 1, m + n)
  OBVIOUS
<1>8. first \in Seq(Decision) /\ Len(first) = m + n /\ \A i \in 1 .. m + n : first[i] = taken[i]
  BY <1>2, <1>7
<1>9. PICK c : c = Ids(first)
  OBVIOUS
<1>10. c \in Seq(D) /\ Len(c) = m + n /\ \A i \in 1 .. m + n : c[i] = taken[i].id
  <2>0. \A i \in 1 .. m + n : first[i] \in Decision
    BY <1>2, <1>8
  <2>1. \A i \in 1 .. m + n : first[i].id \in D
    BY <1>3, <2>0 DEF Decision
  <2>2. m + n \in Nat /\ DOMAIN first = 1 .. m + n
    BY <1>2, <1>8
  <2>3. c = [i \in 1 .. m + n |-> first[i].id]
    BY <1>9, <2>2 DEF Ids
  <2> QED
    BY <1>8, <2>1, <2>2, <2>3
<1>11. PICK ab : ab = a \o b
  OBVIOUS
<1>12. /\ ab \in Seq(D) /\ Len(ab) = m + n
       /\ \A i \in 1 .. m + n : ab[i] = IF i <= m THEN a[i] ELSE b[i - m]
  <2>1. /\ ab \in Seq(D) /\ Len(ab) = Len(a) + Len(b)
        /\ \A i \in 1 .. Len(a) + Len(b) : ab[i] = IF i <= Len(a) THEN a[i] ELSE b[i - Len(a)]
    BY <1>5, <1>6, <1>11, ConcatProperties, Zenon
  <2> QED
    BY <1>5, <1>6, <2>1
<1>13. \A i \in 1 .. m + n : ab[i] = c[i]
  <2> TAKE i \in 1 .. m + n
  <2>1. CASE i <= m
    <3>1. i \in 1 .. m
      BY <1>2, <2>1
    <3>2. a[i] = taken[i].id /\ ab[i] = a[i] /\ c[i] = taken[i].id
      BY <1>5, <1>10, <1>12, <2>1, <3>1, Zenon
    <3> QED
      BY <3>2
  <2>2. CASE i > m
    <3>1. i - m \in 1 .. n /\ m + (i - m) = i
      BY <1>2, <2>2
    <3>2. b[i - m] = taken[i].id
      BY <1>6, <3>1
    <3> QED
      BY <1>2, <1>10, <1>12, <2>2, <3>2
  <2> QED
    BY <1>2, <2>1, <2>2
<1>14. ab = c
  <2>1. Len(ab) = Len(c) /\ \A i \in 1 .. Len(ab) : ab[i] = c[i]
    BY <1>10, <1>12, <1>13
  <2> QED
    BY <1>10, <1>12, <2>1, SeqEqual, Zenon
<1> QED
  BY <1>1, <1>4, <1>7, <1>9, <1>11, <1>14

\* Every decision is trained exactly once and in order, with whatever batch
\* sizes, mechanisms and numbers of epochs (add_batch, before_decision, finish,
\* train).
THEOREM EverySampleTrainedOnce == TrainingSpec => []EverySampleOnce
<1>1. TrainInv => EverySampleOnce
  <2> SUFFICES ASSUME TrainInv PROVE EverySampleOnce
    OBVIOUS
  <2>1. /\ Accounted(trained, buffer, version, decisions)
        /\ Len(decisions) = Len(trained) + Len(buffer) + Placed
        /\ phase = "trained" => buffer = <<>>
    BY DEF TrainInv, SamplesTrue
  <2>2. Len(trained) \in Nat /\ Len(buffer) \in Nat /\ Len(decisions) \in Nat
        /\ Len(trained) + Len(buffer) <= Len(decisions)
    BY <2>1 DEF Accounted
  <2>3. PICK n : n = Placed
    OBVIOUS
  <2>4. n \in Int => Len(decisions) - n = Len(trained) + Len(buffer)
    BY <2>1, <2>2, <2>3
  <2>5. n \in Int
    BY <2>3 DEF Placed
  <2>6. Ids(trained) \o Ids(buffer) = Ids(SubSeq(decisions, 1, Len(trained) + Len(buffer)))
    BY <2>1, IdsAre
  <2> QED
    BY <2>1, <2>3, <2>4, <2>5, <2>6, Zenon DEF EverySampleOnce, Placed
<1> QED
  BY <1>1, TrainInvariant, PTL

\* An update uses decisions of the version that it improves, and only ones
\* that the policy really sampled (training_policy, before_decision,
\* _safe_policy_output).
THEOREM UpdatesAreOnPolicy == TrainingSpec => []OnPolicy
<1>1. TrainInv => OnPolicy
  <2> SUFFICES ASSUME TrainInv PROVE OnPolicy
    OBVIOUS
  <2>1. Accounted(trained, buffer, version, decisions)
    BY DEF TrainInv, SamplesTrue
  <2> QED
    BY <2>1 DEF Accounted, OnPolicy
<1> QED
  BY <1>1, TrainInvariant, PTL

\* add_batch never raises its error: after a reset the first batch has a
\* decision, which waits for the rewards of later batches (validate_args,
\* reset, run_batch, add_batch).
THEOREM NoRewardIsStranded == TrainingSpec => []NoStrandedReward
<1>1. TrainInv => NoStrandedReward
  BY DEF TrainInv, FirstBatchDecides, NoStrandedReward
<1> QED
  BY <1>1, TrainInvariant, PTL

\* The model file holds the first of the best validated versions, and every
\* checkpoint that a record names the version that was measured (train,
\* checkpoint_manifest_view).
THEOREM CheckpointsAreTrue == TrainingSpec => []CheckpointsTrue
<1>1. TrainInv => CheckpointsTrue
  <2> SUFFICES ASSUME TrainInv PROVE CheckpointsTrue
    OBVIOUS
  <2>1. RecordsTrue /\ BestTrue
    BY DEF TrainInv
  <2>2. \A k \in DOMAIN records :
          records[k].path # None => metrics[files[records[k].path]] = records[k].m
    BY <2>1 DEF RecordsTrue, RecordTrue
  <2>3. ASSUME NEW k \in DOMAIN records, FirstBest(k)
        PROVE  /\ files[<<"model", 0>>] \in DOMAIN metrics
               /\ metrics[files[<<"model", 0>>]] = records[k].m
    <3>1. records \in Seq(ValidationRecord) /\ records # <<>>
      BY <2>1 DEF RecordsTrue
    <3>2. \A i \in DOMAIN records : records[i].m.score \in Int
      BY <3>1, RecordTypes
    <3>3. PICK j \in DOMAIN records :
            /\ FirstBest(j)
            /\ files[<<"model", 0>>] \in DOMAIN metrics
            /\ metrics[files[<<"model", 0>>]] = records[j].m
      BY <2>1, <3>1 DEF BestTrue
    <3>4. k \in Nat /\ j \in Nat /\ k >= 1 /\ j >= 1
      BY <3>1
    <3>5. ~(j < k) /\ ~(k < j)
      BY <2>3, <3>2, <3>3, <3>4 DEF FirstBest
    <3>6. j = k
      BY <3>4, <3>5
    <3> QED
      BY <3>3, <3>6
  <2>4. phase = "trained" /\ args.disable_best => files[<<"model", 0>>] = version
    BY <2>1 DEF BestTrue
  <2> QED
    BY <2>2, <2>3, <2>4, Zenon DEF CheckpointsTrue, FirstBest
<1> QED
  BY <1>1, TrainInvariant, PTL

\* The guardrails decide as if they were applied to all checkpoints
\* (checkpoint_pareto_frontier, select_candidate_decision).
THEOREM SelectionIsSound == TrainingSpec => []SelectionSound
<1>1. TrainInv => SelectionSound
  BY DEF TrainInv
<1> QED
  BY <1>1, TrainInvariant, PTL

-----------------------------------------------------------------------------
(* Windows are the requested rows.                                          *)

\* The chain rows that parse.
ValidRows(data) == Kept(data.chain, {k \in DOMAIN data.chain : data.chain[k].valid})

\* A window is what WindowAligned says.
AlignedWith(identity, data, start, window) ==
    \A k \in DOMAIN window :
        IF identity = "iot"
        THEN /\ data.scene[start + k].tx_index = start + k - 1
             /\ window[k].sender = data.scene[start + k].to
             /\ window[k].recipient = data.scene[start + k].from
        ELSE /\ window[k].sender = ValidRows(data)[start + k].sender
             /\ window[k].recipient = ValidRows(data)[start + k].recipient

\* The number of transactions kept after index rows.
Taken(index, start) == IF index > start THEN index - start ELSE 0

\* The state of load_transactions when kept are the rows that parse so far.
RowsGood(acc, kept, start, max) ==
    /\ acc.index <= Len(kept)
    /\ Full(max, acc.out) \/ acc.index = Len(kept)
    /\ Len(acc.out) = Taken(acc.index, start)
    /\ \A j \in 1 .. Len(acc.out) : /\ acc.out[j].sender = kept[start + j].sender
                                    /\ acc.out[j].recipient = kept[start + j].recipient

\* A row that parses, while the window is not full.
LEMMA RowTaken ==
    ASSUME NEW start \in Nat, NEW max \in Nat, NEW acc \in RowAcc, NEW kept \in Seq(ChainRow),
           NEW row \in ChainRow, RowsGood(acc, kept, start, max), acc.index = Len(kept),
           NEW next, next = [index |-> acc.index + 1,
                             out |-> IF acc.index < start THEN acc.out
                                     ELSE Append(acc.out, ChainTx(row))]
    PROVE  RowsGood(next, Append(kept, row), start, max)
<1>1. PICK more : more = Append(kept, row)
  OBVIOUS
<1>2. PICK n : n = Len(kept) /\ n \in Nat
  OBVIOUS
<1>3. /\ Len(more) = n + 1 /\ more[n + 1] = row /\ \A j \in 1 .. n : more[j] = kept[j]
  BY <1>1, <1>2
<1>4. PICK out : out = acc.out /\ out \in Seq(Tx)
  BY DEF RowAcc
<1>5. acc.index = n /\ Len(out) = Taken(n, start)
  BY <1>2, <1>4 DEF RowsGood
<1>6. \A j \in 1 .. Len(out) : out[j].sender = kept[start + j].sender
                               /\ out[j].recipient = kept[start + j].recipient
  BY <1>4 DEF RowsGood
<1>7. ChainTx(row) \in Tx /\ ChainTx(row).sender = row.sender /\ ChainTx(row).recipient = row.recipient
  BY DEF ChainRow, ChainTx, Tx
<1>8. CASE n < start
  <2>1. next.index = n + 1 /\ next.out = out
    BY <1>4, <1>5, <1>8
  <2>2. Len(out) = 0 /\ Taken(n + 1, start) = 0
    BY <1>2, <1>5, <1>8 DEF Taken
  <2> QED
    BY <1>1, <1>2, <1>3, <2>1, <2>2 DEF RowsGood
<1>9. CASE n >= start
  <2>1. PICK new : new = Append(out, ChainTx(row))
    OBVIOUS
  <2>2. next.index = n + 1 /\ next.out = new
    BY <1>2, <1>4, <1>5, <1>9, <2>1
  <2>3. /\ Len(out) = n - start /\ Len(new) = n - start + 1 /\ new[n - start + 1] = ChainTx(row)
        /\ \A j \in 1 .. n - start : new[j] = out[j]
    <3>1. PICK d : d = n - start /\ d \in Nat
      BY <1>2, <1>9
    <3>2. Len(out) = d
      BY <1>2, <1>5, <1>9, <3>1 DEF Taken
    <3>3. PICK t \in Tx : t = ChainTx(row)
      BY <1>7
    <3>4. new = Append(out, t)
      BY <2>1, <3>3
    <3>5. Len(new) = d + 1 /\ new[d + 1] = t /\ \A j \in 1 .. d : new[j] = out[j]
      BY <1>4, <3>1, <3>2, <3>4
    <3> QED
      BY <3>1, <3>2, <3>3, <3>5
  <2>4. Taken(n + 1, start) = n - start + 1
    BY <1>2, <1>9 DEF Taken
  <2>5. ASSUME NEW j \in 1 .. n - start + 1
        PROVE  new[j].sender = more[start + j].sender /\ new[j].recipient = more[start + j].recipient
    <3>1. CASE j = n - start + 1
      <4>1. start + j = n + 1
        BY <1>2, <1>9, <3>1
      <4> QED
        BY <1>3, <1>7, <2>3, <3>1, <4>1
    <3>2. CASE j \in 1 .. n - start
      <4>1. start + j \in 1 .. n
        BY <1>2, <1>9, <3>2
      <4>2. new[j] = out[j] /\ more[start + j] = kept[start + j]
        BY <1>3, <2>3, <3>2, <4>1
      <4>3. out[j].sender = kept[start + j].sender /\ out[j].recipient = kept[start + j].recipient
        BY <1>6, <2>3, <3>2
      <4> QED
        BY <4>2, <4>3
    <3>3. j = n - start + 1 \/ j \in 1 .. n - start
      BY <1>2, <1>9, <2>5
    <3> QED
      BY <3>1, <3>2, <3>3
  <2>6. next.index <= Len(more) /\ next.index = Len(more) /\ Len(next.out) = Taken(next.index, start)
    BY <1>2, <1>3, <2>2, <2>3, <2>4
  <2>7. \A j \in 1 .. Len(next.out) : /\ next.out[j].sender = more[start + j].sender
                                      /\ next.out[j].recipient = more[start + j].recipient
    BY <2>2, <2>3, <2>5
  <2> QED
    BY <1>1, <2>6, <2>7 DEF RowsGood
<1> QED
  BY <1>2, <1>8, <1>9

\* A row that is not looked at, because the window is full.
LEMMA RowPassed ==
    ASSUME NEW start \in Nat, NEW max \in Nat, NEW acc \in RowAcc, NEW kept \in Seq(ChainRow),
           NEW row \in ChainRow, RowsGood(acc, kept, start, max), Full(max, acc.out)
    PROVE  RowsGood(acc, Append(kept, row), start, max)
<1>1. PICK more : more = Append(kept, row)
  OBVIOUS
<1>2. PICK n, i, m : n = Len(kept) /\ n \in Nat /\ i = acc.index /\ i \in Nat /\ m = Len(acc.out)
  <2>1. Len(kept) \in Nat /\ acc.index \in Nat
    BY DEF RowAcc
  <2> QED
    BY <2>1, Zenon
<1>3. Len(more) = n + 1 /\ \A j \in 1 .. n : more[j] = kept[j]
  BY <1>1, <1>2
<1>4. i <= n /\ m = Taken(i, start) /\ m \in Nat
  BY <1>2 DEF RowsGood, Taken
<1>5. \A j \in 1 .. m : start + j \in 1 .. n
  BY <1>2, <1>4 DEF Taken
<1>6. \A j \in 1 .. m : more[start + j] = kept[start + j]
  BY <1>3, <1>5
<1>7. \A j \in 1 .. Len(acc.out) : /\ acc.out[j].sender = more[start + j].sender
                                   /\ acc.out[j].recipient = more[start + j].recipient
  BY <1>2, <1>6 DEF RowsGood
<1>8. acc.index <= Len(more)
  BY <1>2, <1>3, <1>4
<1> QED
  BY <1>1, <1>7, <1>8 DEF RowsGood

\* load_transactions reads the rows that parse, from the requested one on.
LEMMA ChainWindow ==
    ASSUME NEW data \in Dataset, NEW start \in Nat, NEW max \in Nat
    PROVE  AlignedWith("raw", data, start, load_transactions(data, start, max).txs)
<1>1. data.chain \in Seq(ChainRow)
  BY DEF Dataset
<1>2. PICK n : n = Len(data.chain) /\ n \in Nat /\ DOMAIN data.chain = 1 .. n
  BY <1>1
<1>3. PICK V : V = {k \in DOMAIN data.chain : data.chain[k].valid}
  OBVIOUS
<1>4. PICK g \in [0 .. n -> Seq(ChainRow)] :
         /\ Kept(data.chain, V) = g[n] /\ g[0] = <<>>
         /\ \A k \in 1 .. n : g[k] = IF k \in V THEN Append(g[k - 1], data.chain[k]) ELSE g[k - 1]
  <2>1. PICK s \in Seq(ChainRow) : s = data.chain /\ n = Len(s)
    BY <1>1, <1>2
  <2>2. \E out \in [0 .. Len(s) -> Seq(ChainRow)] :
         /\ Kept(s, V) = out[Len(s)]
         /\ out[0] = <<>>
         /\ \A k \in 1 .. Len(s) :
              out[k] = IF k \in V THEN Append(out[k - 1], s[k]) ELSE out[k - 1]
    BY KeptRecursion
  <2> QED
    BY <2>1, <2>2, Zenon
<1>5. PICK after \in [0 .. n -> RowAcc] :
         /\ load_transactions(data, start, max) = Loaded(after[n].out)
         /\ after[0] = [index |-> 0, out |-> <<>>]
         /\ \A k \in 1 .. n : after[k] = ReadRow(data, start, max, after[k - 1], k)
  <2>1. \E after \in [0 .. Len(data.chain) -> RowAcc] :
          /\ load_transactions(data, start, max) = Loaded(after[Len(data.chain)].out)
          /\ after[0] = [index |-> 0, out |-> <<>>]
          /\ \A k \in 1 .. Len(data.chain) :
               after[k] = ReadRow(data, start, max, after[k - 1], k)
    BY RowsRead, Zenon
  <2>2. n = Len(data.chain)
    BY <1>2
  <2> QED
    BY <2>1, <2>2, Zenon
<1> DEFINE G == {k \in 0 .. n : RowsGood(after[k], g[k], start, max)}
<1>6. 0 \in G
  BY <1>2, <1>4, <1>5 DEF RowsGood, Taken
<1>7. ASSUME NEW k \in 1 .. n, k - 1 \in G PROVE k \in G
  <2>1. PICK acc, kept, row : acc = after[k - 1] /\ kept = g[k - 1] /\ row = data.chain[k]
    OBVIOUS
  <2>2. /\ acc \in RowAcc /\ kept \in Seq(ChainRow) /\ row \in ChainRow
        /\ RowsGood(acc, kept, start, max) /\ k \in 0 .. n
    <3>1. k - 1 \in 0 .. n /\ k \in 0 .. n /\ k \in DOMAIN data.chain
      BY <1>2
    <3> QED
      BY <1>1, <1>4, <1>5, <1>7, <2>1, <3>1
  <2>3. /\ k \in V <=> row.valid
        /\ g[k] = IF k \in V THEN Append(kept, row) ELSE kept
    BY <1>2, <1>3, <1>4, <2>1
  <2>4. after[k] = IF ~row.valid \/ Full(max, acc.out) THEN acc
                   ELSE [index |-> acc.index + 1,
                         out |-> IF acc.index < start THEN acc.out
                                 ELSE Append(acc.out, ChainTx(row))]
    BY <1>5, <2>1 DEF ReadRow
  <2>5. CASE ~row.valid
    BY <2>2, <2>3, <2>4, <2>5
  <2>6. CASE row.valid /\ Full(max, acc.out)
    <3>1. RowsGood(acc, Append(kept, row), start, max)
      BY <2>2, <2>6, RowPassed
    <3>2. after[k] = acc /\ g[k] = Append(kept, row)
      BY <2>3, <2>4, <2>6
    <3> QED
      BY <2>2, <3>1, <3>2
  <2>7. CASE row.valid /\ ~Full(max, acc.out)
    <3>1. acc.index = Len(kept)
      BY <2>2, <2>7 DEF RowsGood
    <3>2. PICK next : next = [index |-> acc.index + 1,
                              out |-> IF acc.index < start THEN acc.out
                                      ELSE Append(acc.out, ChainTx(row))]
      OBVIOUS
    <3>3. RowsGood(next, Append(kept, row), start, max)
      BY <2>2, <3>1, <3>2, RowTaken, Zenon
    <3>4. after[k] = next /\ g[k] = Append(kept, row)
      BY <2>3, <2>4, <2>7, <3>2
    <3> QED
      BY <2>2, <3>3, <3>4
  <2> QED
    BY <2>5, <2>6, <2>7
<1> HIDE DEF G
<1>8. 0 .. n \subseteq G
  BY <1>2, <1>6, <1>7, UpTo, Zenon
<1>9. RowsGood(after[n], g[n], start, max)
  BY <1>2, <1>8 DEF G
<1>10. PICK w : w = after[n].out
  OBVIOUS
<1>11. load_transactions(data, start, max).txs = w
  BY <1>5, <1>10 DEF Loaded
<1>12. ValidRows(data) = g[n]
  BY <1>3, <1>4 DEF ValidRows
<1>13. w \in Seq(Tx)
  <2>1. after[n] \in RowAcc
    BY <1>2, <1>5
  <2> QED
    BY <1>10, <2>1 DEF RowAcc
<1>14. DOMAIN w = 1 .. Len(w)
  BY <1>13
<1> QED
  BY <1>9, <1>10, <1>11, <1>12, <1>14 DEF AlignedWith, RowsGood

\* The state of load_iot_transactions.
BothGood(data, acc, start) ==
    acc.ok =>
    /\ acc.index <= Len(data.scene)
    /\ Len(acc.out) = Taken(acc.index, start)
    /\ \A j \in 1 .. Len(acc.out) : /\ data.scene[start + j].tx_index = start + j - 1
                                    /\ acc.out[j].sender = data.scene[start + j].to
                                    /\ acc.out[j].recipient = data.scene[start + j].from

LEMMA BothTaken ==
    ASSUME NEW data \in Dataset, NEW start \in Nat, NEW max \in Nat, NEW acc \in BothAcc,
           BothGood(data, acc, start), acc.ok, acc.index + 1 <= Len(data.scene),
           data.scene[acc.index + 1].tx_index = acc.index,
           NEW next, next = [ok |-> TRUE, index |-> acc.index + 1,
                             out |-> IF acc.index < start THEN acc.out
                                     ELSE Append(acc.out, StateObjectTx(data.scene[acc.index + 1]))]
    PROVE  BothGood(data, next, start)
<1>1. PICK n, out : n = acc.index /\ n \in Nat /\ out = acc.out /\ out \in Seq(Tx)
  <2>1. acc.index \in Nat /\ acc.out \in Seq(Tx)
    BY DEF BothAcc
  <2> QED
    BY <2>1, Zenon
<1>2. PICK s \in Seq(SceneRow) : s = data.scene
  BY DEF Dataset
<1>3. PICK row : row = s[n + 1] /\ row \in SceneRow /\ row.tx_index = n /\ n + 1 <= Len(s)
  <2>1. s[n + 1] \in SceneRow
    BY <1>1, <1>2
  <2> QED
    BY <1>1, <1>2, <2>1
<1>4. PICK t \in Tx : t = StateObjectTx(row) /\ t.sender = row.to /\ t.recipient = row.from
  <2>1. /\ StateObjectTx(row) \in Tx
        /\ StateObjectTx(row).sender = row.to /\ StateObjectTx(row).recipient = row.from
    BY <1>3 DEF SceneRow, StateObjectTx, Tx
  <2> QED
    BY <2>1
<1>5. /\ Len(out) = Taken(n, start)
      /\ \A j \in 1 .. Len(out) : /\ s[start + j].tx_index = start + j - 1
                                  /\ out[j].sender = s[start + j].to
                                  /\ out[j].recipient = s[start + j].from
  BY <1>1, <1>2 DEF BothGood
<1>6. next.ok /\ next.index = n + 1 /\ next.out = IF n < start THEN out ELSE Append(out, t)
  BY <1>1, <1>2, <1>3, <1>4
<1>7. CASE n < start
  <2>1. next.out = out /\ Len(out) = 0 /\ Taken(n + 1, start) = 0
    BY <1>1, <1>5, <1>6, <1>7 DEF Taken
  <2>2. next.index <= Len(data.scene) /\ Len(next.out) = Taken(next.index, start)
    BY <1>2, <1>3, <1>6, <2>1
  <2>3. Len(next.out) = 0
    BY <2>1
  <2> QED
    BY <2>2, <2>3 DEF BothGood
<1>8. CASE n >= start
  <2>1. PICK d : d = n - start /\ d \in Nat /\ n = start + d
    BY <1>1, <1>8
  <2>2. PICK new : new = Append(out, t) /\ new = next.out
    <3>1. ~(n < start)
      BY <1>1, <1>8
    <3> QED
      BY <1>6, <3>1, Zenon
  <2>3. Len(out) = d /\ Taken(n + 1, start) = d + 1
    BY <1>1, <1>5, <1>8, <2>1 DEF Taken
  <2>4. Len(new) = d + 1 /\ new[d + 1] = t /\ \A j \in 1 .. d : new[j] = out[j]
    <3>1. out \in Seq(Tx) /\ d \in Nat /\ new = Append(out, t) /\ Len(out) = d
      BY <1>1, <2>1, <2>2, <2>3
    <3> QED
      BY <3>1
  <2>5. ASSUME NEW j \in 1 .. d + 1
        PROVE  /\ s[start + j].tx_index = start + j - 1
               /\ new[j].sender = s[start + j].to /\ new[j].recipient = s[start + j].from
    <3>1. CASE j = d + 1
      <4>1. start + j = n + 1 /\ start + j - 1 = n
        <5>1. start \in Nat /\ d \in Nat /\ n = start + d /\ j = d + 1
          BY <2>1, <3>1
        <5> QED
          BY <5>1
      <4> QED
        BY <1>3, <1>4, <2>4, <3>1, <4>1
    <3>2. CASE j \in 1 .. d
      BY <1>5, <2>3, <2>4, <3>2
    <3>3. j = d + 1 \/ j \in 1 .. d
      BY <2>1, <2>5
    <3> QED
      BY <3>1, <3>2, <3>3
  <2>6. Len(next.out) = Taken(next.index, start) /\ next.index <= Len(data.scene)
    BY <1>2, <1>3, <1>6, <2>2, <2>3, <2>4
  <2>7. \A j \in 1 .. Len(next.out) : /\ data.scene[start + j].tx_index = start + j - 1
                                      /\ next.out[j].sender = data.scene[start + j].to
                                      /\ next.out[j].recipient = data.scene[start + j].from
    BY <1>2, <2>2, <2>4, <2>5
  <2> QED
    BY <2>6, <2>7 DEF BothGood
<1> QED
  BY <1>1, <1>7, <1>8

\* load_iot_transactions pairs the requested transactions with their own rows.
LEMMA SceneWindow ==
    ASSUME NEW data \in Dataset, NEW start \in Nat, NEW max \in Nat
    PROVE  AlignedWith("iot", data, start, load_iot(data, start, max).txs)
<1>1. PICK n : n = Len(data.chain) /\ n \in Nat /\ DOMAIN data.chain = 1 .. n
  <2>1. data.chain \in Seq(ChainRow)
    BY DEF Dataset
  <2> QED
    BY <2>1
<1>2. PICK after \in [0 .. n -> BothAcc] :
         /\ load_iot(data, start, max) = IF after[n].ok THEN Loaded(after[n].out) ELSE Refused
         /\ after[0] = [ok |-> TRUE, index |-> 0, out |-> <<>>]
         /\ \A k \in 1 .. n : after[k] = ReadBoth(data, start, max, after[k - 1], k)
  <2>1. \E after \in [0 .. Len(data.chain) -> BothAcc] :
          /\ load_iot(data, start, max)
               = IF after[Len(data.chain)].ok THEN Loaded(after[Len(data.chain)].out)
                 ELSE Refused
          /\ after[0] = [ok |-> TRUE, index |-> 0, out |-> <<>>]
          /\ \A k \in 1 .. Len(data.chain) :
               after[k] = ReadBoth(data, start, max, after[k - 1], k)
    BY BothRead, Zenon
  <2>2. n = Len(data.chain)
    BY <1>1
  <2> QED
    BY <2>1, <2>2, Zenon
<1> DEFINE G == {k \in 0 .. n : BothGood(data, after[k], start)}
<1>3. 0 \in G
  <2>1. Len(data.scene) \in Nat
    BY DEF Dataset
  <2> QED
    BY <1>1, <1>2, <2>1 DEF BothGood, Taken
<1>4. ASSUME NEW k \in 1 .. n, k - 1 \in G PROVE k \in G
  <2>1. PICK acc : acc = after[k - 1]
    OBVIOUS
  <2>2. acc \in BothAcc /\ BothGood(data, acc, start) /\ k \in 0 .. n
    BY <1>1, <1>2, <1>4, <2>1
  <2>3. PICK next : next = [ok |-> TRUE, index |-> acc.index + 1,
                            out |-> IF acc.index < start THEN acc.out
                                    ELSE Append(acc.out, StateObjectTx(data.scene[acc.index + 1]))]
    OBVIOUS
  <2>4. after[k] = ReadBoth(data, start, max, acc, k)
    BY <1>2, <2>1
  <2>5. \/ after[k] = acc
        \/ after[k] = [acc EXCEPT !.ok = FALSE]
        \/ /\ after[k] = next /\ acc.ok /\ ~(acc.index + 1 > Len(data.scene))
           /\ data.scene[acc.index + 1].tx_index = acc.index
    BY <2>3, <2>4, Zenon DEF ReadBoth
  <2>6. CASE after[k] = acc
    BY <2>2, <2>6
  <2>7. CASE after[k] = [acc EXCEPT !.ok = FALSE]
    <3>1. ~after[k].ok
      BY <2>2, <2>7 DEF BothAcc
    <3> QED
      BY <2>2, <3>1 DEF BothGood
  <2>8. CASE /\ after[k] = next /\ acc.ok /\ ~(acc.index + 1 > Len(data.scene))
             /\ data.scene[acc.index + 1].tx_index = acc.index
    <3>1. acc.index + 1 <= Len(data.scene)
      BY <2>2, <2>8 DEF BothAcc, Dataset
    <3>2. BothGood(data, next, start)
      BY <2>2, <2>3, <2>8, <3>1, BothTaken, Zenon
    <3> QED
      BY <2>2, <2>8, <3>2
  <2> QED
    BY <2>5, <2>6, <2>7, <2>8
<1> HIDE DEF G
<1>5. 0 .. n \subseteq G
  BY <1>1, <1>3, <1>4, UpTo, Zenon
<1>6. BothGood(data, after[n], start) /\ after[n] \in BothAcc
  BY <1>1, <1>2, <1>5 DEF G
<1>7. CASE after[n].ok
  <2>1. PICK w : w = after[n].out
    OBVIOUS
  <2>2. load_iot(data, start, max).txs = w
    BY <1>2, <1>7, <2>1 DEF Loaded
  <2>3. w \in Seq(Tx)
    BY <1>6, <2>1 DEF BothAcc
  <2>4. DOMAIN w = 1 .. Len(w)
    BY <2>3
  <2> QED
    BY <1>6, <1>7, <2>1, <2>2, <2>4 DEF AlignedWith, BothGood
<1>8. CASE ~after[n].ok
  <2>1. load_iot(data, start, max).txs = <<>>
    BY <1>2, <1>8 DEF Refused
  <2> QED
    BY <2>1 DEF AlignedWith
<1> QED
  BY <1>7, <1>8

\* A filter that keeps the first items has them in their places.
LEMMA KeptPrefix ==
    ASSUME NEW S, NEW s \in Seq(S), NEW P, NEW last \in Nat, last <= Len(s), 1 .. last \subseteq P
    PROVE  \A j \in 1 .. last : Kept(s, P)[j] = s[j]
<1>1. PICK n : n = Len(s) /\ n \in Nat
  OBVIOUS
<1>2. PICK g \in [0 .. Len(s) -> Seq(S)] :
         /\ Kept(s, P) = g[Len(s)]
         /\ g[0] = <<>>
         /\ \A k \in 1 .. Len(s) :
              g[k] = IF k \in P THEN Append(g[k - 1], s[k]) ELSE g[k - 1]
  BY KeptRecursion
<1> DEFINE Good(k) == /\ k <= last => Len(g[k]) = k
                      /\ last <= k => Len(g[k]) >= last
                      /\ \A j \in 1 .. last : j <= k => g[k][j] = s[j]
           G == {k \in 0 .. n : Good(k)}
<1>3. 0 \in G
  BY <1>1, <1>2
<1>4. ASSUME NEW k \in 1 .. n, k - 1 \in G PROVE k \in G
  <2>1. PICK t \in Seq(S) : t = g[k - 1]
    BY <1>1, <1>2
  <2>2. PICK m : m = Len(t) /\ m \in Nat
    OBVIOUS
  <2>3. /\ k - 1 <= last => m = k - 1
        /\ last <= k - 1 => m >= last
        /\ \A j \in 1 .. last : j <= k - 1 => t[j] = s[j]
    BY <1>4, <2>1, <2>2
  <2>4. g[k] = IF k \in P THEN Append(t, s[k]) ELSE t
    BY <1>1, <1>2, <2>1
  <2>5. s[k] \in S /\ k \in 0 .. n
    BY <1>1
  <2>6. CASE k <= last
    <3>1. g[k] = Append(t, s[k]) /\ m = k - 1
      BY <1>1, <2>3, <2>4, <2>6
    <3>2. Len(g[k]) = k /\ g[k][k] = s[k] /\ \A j \in 1 .. k - 1 : g[k][j] = t[j]
      <4>1. PICK x \in S : x = s[k]
        BY <2>5
      <4>2. Len(t) = k - 1 /\ k - 1 \in Nat /\ (k - 1) + 1 = k /\ g[k] = Append(t, x)
        BY <1>1, <2>2, <3>1, <4>1
      <4>3. /\ Len(Append(t, x)) = (k - 1) + 1 /\ Append(t, x)[(k - 1) + 1] = x
            /\ \A j \in 1 .. k - 1 : Append(t, x)[j] = t[j]
        BY <4>2
      <4> QED
        BY <4>1, <4>2, <4>3
    <3>3. ASSUME NEW j \in 1 .. last, j <= k PROVE g[k][j] = s[j]
      <4>1. CASE j = k
        BY <3>2, <4>1
      <4>2. CASE j < k
        <5>1. j \in 1 .. k - 1 /\ j <= k - 1
          BY <1>1, <4>2
        <5> QED
          BY <2>3, <3>2, <5>1
      <4> QED
        BY <1>1, <3>3, <4>1, <4>2
    <3> QED
      BY <1>1, <2>5, <2>6, <3>2, <3>3
  <2>7. CASE last < k
    <3>1. m >= last /\ \A j \in 1 .. last : t[j] = s[j]
      BY <1>1, <2>3, <2>7
    <3>2. /\ Len(g[k]) >= m /\ \A j \in 1 .. m : g[k][j] = t[j]
      BY <2>2, <2>4, <2>5
    <3>3. Len(g[k]) \in Nat
      BY <1>1, <1>2, <2>5
    <3>4. Len(g[k]) >= last /\ \A j \in 1 .. last : g[k][j] = s[j]
      BY <2>2, <3>1, <3>2, <3>3
    <3> QED
      BY <1>1, <2>5, <2>7, <3>4
  <2> QED
    BY <1>1, <2>6, <2>7
<1> HIDE DEF G
<1>5. 0 .. n \subseteq G
  BY <1>1, <1>3, <1>4, UpTo, Zenon
<1>6. Good(n)
  BY <1>1, <1>5 DEF G
<1> QED
  BY <1>1, <1>2, <1>6

\* load_rows reads physical rows, which all parse.
LEMMA RowsWindow ==
    ASSUME NEW data \in Dataset, NEW start \in Nat, NEW max \in Nat
    PROVE  AlignedWith("iot_v2", data, start, load_rows(data, start, max).txs)
<1> DEFINE n == Len(data.chain)
           last == IF max > 0 /\ start + max <= n THEN start + max ELSE n
           m == IF last > start THEN last - start ELSE 0
           out == [k \in 1 .. m |-> ChainTx(data.chain[start + k])]
<1>1. PICK s \in Seq(ChainRow) : s = data.chain
  BY DEF Dataset
<1>2. load_rows(data, start, max) = Refused
      \/ (load_rows(data, start, max) = Loaded(out) /\ \A k \in 1 .. last : data.chain[k].valid)
  BY Zenon DEF load_rows
<1>3. n \in Nat /\ last \in Nat /\ last <= n /\ DOMAIN s = 1 .. n
  BY <1>1
<1>4. m \in Nat /\ \A k \in 1 .. m : start + k \in 1 .. last
  BY <1>3
<1>5. DOMAIN out = 1 .. m /\ \A k \in 1 .. m : out[k] = ChainTx(s[start + k])
  BY <1>1
<1> HIDE DEF m, last, out, n
<1>6. CASE load_rows(data, start, max) = Refused
  <2>1. load_rows(data, start, max).txs = <<>>
    BY <1>6 DEF Refused
  <2> QED
    BY <2>1 DEF AlignedWith
<1>7. CASE load_rows(data, start, max) = Loaded(out) /\ \A k \in 1 .. last : data.chain[k].valid
  <2>1. load_rows(data, start, max).txs = out
    BY <1>7 DEF Loaded
  <2>2. PICK V : V = {k \in DOMAIN data.chain : data.chain[k].valid}
    OBVIOUS
  <2>3. 1 .. last \subseteq V /\ last <= Len(s)
    BY <1>1, <1>3, <1>7, <2>2 DEF n
  <2>4. \A j \in 1 .. last : Kept(s, V)[j] = s[j]
    BY <1>3, <2>3, KeptPrefix
  <2>5. ValidRows(data) = Kept(s, V)
    BY <1>1, <2>2 DEF ValidRows
  <2>6. ASSUME NEW k \in 1 .. m
        PROVE  /\ out[k].sender = ValidRows(data)[start + k].sender
               /\ out[k].recipient = ValidRows(data)[start + k].recipient
    <3>1. ValidRows(data)[start + k] = s[start + k]
      BY <1>4, <2>4, <2>5
    <3>2. out[k] = ChainTx(s[start + k])
      BY <1>5
    <3> QED
      BY <3>1, <3>2 DEF ChainTx
  <2> QED
    BY <1>5, <2>1, <2>6 DEF AlignedWith
<1> QED
  BY <1>2, <1>6, <1>7

\* A window that is not refused is aligned and complete.
LEMMA WindowIs ==
    ASSUME NEW identity \in {"raw", "iot", "iot_v2"}, NEW data \in Dataset,
           NEW start \in Nat, NEW max \in Nat
    PROVE  /\ AlignedWith(identity, data, start, LoadWindow(identity, data, start, max).txs)
           /\ LoadWindow(identity, data, start, max).ok /\ max > 0
                => Len(LoadWindow(identity, data, start, max).txs) = max
<1>1. PICK w : w = LoadWindow(identity, data, start, max)
  OBVIOUS
<1>2. PICK result : result = CASE identity = "raw"    -> load_transactions(data, start, max)
                               [] identity = "iot"    -> load_iot(data, start, max)
                               [] identity = "iot_v2" -> load_rows(data, start, max)
  OBVIOUS
<1>3. w = IF \/ result.txs = <<>>
             \/ max > 0 /\ Len(result.txs) # max
          THEN Refused ELSE result
  BY <1>1, <1>2 DEF LoadWindow
<1>4. AlignedWith(identity, data, start, result.txs)
  <2>1. CASE identity = "raw"
    BY <1>2, <2>1, ChainWindow
  <2>2. CASE identity = "iot"
    BY <1>2, <2>2, SceneWindow
  <2>3. CASE identity = "iot_v2"
    BY <1>2, <2>3, RowsWindow
  <2> QED
    BY <2>1, <2>2, <2>3
<1>5. AlignedWith(identity, data, start, <<>>)
  BY DEF AlignedWith
<1>6. Refused.txs = <<>> /\ ~Refused.ok
  BY DEF Refused
<1>7. CASE w = Refused
  BY <1>1, <1>5, <1>6, <1>7
<1>8. CASE w # Refused
  <2>1. w = result /\ ~(max > 0 /\ Len(result.txs) # max)
    BY <1>3, <1>8
  <2> QED
    BY <1>1, <1>4, <2>1
<1> QED
  BY <1>7, <1>8

\* In particular it is as long as it should be.
LEMMA WindowFull ==
    ASSUME NEW identity \in {"raw", "iot", "iot_v2"}, NEW data \in Dataset,
           NEW start \in Nat, NEW max \in Nat,
           NEW w, w = LoadWindow(identity, data, start, max), w.ok, max > 0
    PROVE  Len(w.txs) = max
  BY WindowIs, Zenon

\* The windows in use are those of the job, and training is prepared.
WindowsTrue ==
    /\ \/ txs = <<>>
       \/ /\ phase \notin {"evaluate", "done"}
          /\ txs = LoadWindow(args.settings.identity, args.data, args.start, args.max).txs
       \/ phase \in {"evaluate", "done"} /\ txs = load_eval_transactions.txs
    /\ phase \in {"train", "validate", "epoch_done"} =>
         /\ Prepared(args)
         /\ txs = LoadWindow(args.settings.identity, args.data, args.start, args.max).txs
         /\ validation_txs =
              IF args.disable_best THEN <<>>
              ELSE LoadWindow(args.settings.identity, args.data, args.vstart, args.vmax).txs

LEMMA WindowsRest ==
    ASSUME WindowsTrue, UNCHANGED <<txs, args, validation_txs>>,
           phase' \in {"evaluate", "done"} <=> phase \in {"evaluate", "done"},
           phase' \in {"train", "validate", "epoch_done"}
             => phase \in {"train", "validate", "epoch_done"}
    PROVE  WindowsTrue'
<1>1. Prepared(args)' <=> Prepared(args)
  BY DEF Prepared, validate_args
<1>2. load_eval_transactions' = load_eval_transactions
  BY DEF load_eval_transactions
<1> QED
  BY <1>1, <1>2 DEF WindowsTrue

LEMMA WindowsStay == ASSUME WindowsTrue, TrainingNext PROVE WindowsTrue'
<1>1. args' = args
  BY ArgsStay
<1>2. CASE StartTraining
  <2>1. CASE Prepared(args)
    <3>1. PICK w : w = LoadWindow(args.settings.identity, args.data, args.start, args.max).txs
      OBVIOUS
    <3>2. /\ phase' = "train"
          /\ validation_txs' =
               IF args.disable_best THEN <<>>
               ELSE LoadWindow(args.settings.identity, args.data, args.vstart, args.vmax).txs
          /\ NewPass(args.settings, w, TRUE)
      BY <1>2, <2>1, <3>1, Zenon DEF StartTraining
    <3>3. txs' = w
      BY <3>2 DEF NewPass
    <3>4. Prepared(args)'
      BY <1>1, <2>1 DEF Prepared, validate_args
    <3> QED
      BY <1>1, <3>1, <3>2, <3>3, <3>4 DEF WindowsTrue
  <2>2. CASE ~Prepared(args)
    <3>1. phase = "start" /\ phase' = "refused" /\ UNCHANGED <<txs, validation_txs>>
      BY <1>2, <2>2 DEF StartTraining, envVars
    <3> QED
      BY <1>1, <3>1, WindowsRest
  <2> QED
    BY <2>1, <2>2
<1>3. CASE \E p \in Policies : StartEvaluation(p)
  <2>1. PICK p \in Policies : StartEvaluation(p)
    BY <1>3
  <2>2. phase \in {"trained", "selected"} /\ validation_txs' = validation_txs
    BY <2>1, Zenon DEF StartEvaluation
  <2>3. \/ phase' = "evaluate" /\ \E c : NewPass(c, load_eval_transactions.txs, TRUE)
        \/ phase' = "refused" /\ UNCHANGED envVars
    BY <2>1, Zenon DEF StartEvaluation
  <2>4. CASE phase' = "evaluate" /\ \E c : NewPass(c, load_eval_transactions.txs, TRUE)
    <3>1. txs' = load_eval_transactions.txs /\ load_eval_transactions' = load_eval_transactions
      BY <1>1, <2>4 DEF NewPass, load_eval_transactions
    <3> QED
      BY <2>4, <3>1 DEF WindowsTrue
  <2>5. CASE phase' = "refused" /\ UNCHANGED envVars
    BY <1>1, <2>2, <2>5, WindowsRest DEF envVars
  <2> QED
    BY <2>3, <2>4, <2>5
<1>4. CASE TrainEndBatch
  <2>1. phase = "train" /\ UNCHANGED <<txs, validation_txs>> /\ phase' \in {"train", "stranded"}
    BY <1>4 DEF TrainEndBatch, EndBatch, add_batch
  <2> QED
    BY <1>1, <2>1, WindowsRest
<1>5. CASE TrainBeginBatch \/ \E output \in Shard : TrainPlace(output)
  <2>1. phase = "train" /\ UNCHANGED <<txs, validation_txs, phase>>
    BY <1>5 DEF TrainBeginBatch, BeginBatch, TrainPlace, Place, trainVars
  <2> QED
    BY <1>1, <2>1, WindowsRest
<1>6. CASE FinishEpoch \/ \E m \in Metrics : Validate(m)
  <2>1. /\ phase \in {"train", "validate"} /\ phase' \in {"validate", "epoch_done"}
        /\ UNCHANGED <<txs, validation_txs>>
    BY <1>6 DEF FinishEpoch, Validate, envVars
  <2> QED
    BY <1>1, <2>1, WindowsRest
<1>7. CASE NextEpoch
  <2>1. phase = "epoch_done" /\ phase' = "train" /\ UNCHANGED <<txs, validation_txs>>
    BY <1>7 DEF NextEpoch, NewPass
  <2> QED
    BY <1>1, <2>1, WindowsRest
<1>8. CASE SelectCheckpoint \/ \E m \in Metrics : FinishTraining(m)
  <2>1. /\ phase \in {"epoch_done", "trained"} /\ phase' \in {"trained", "rejected", "selected"}
        /\ UNCHANGED <<txs, validation_txs>>
    <3>1. SelectCheckpoint => /\ phase = "trained" /\ phase' \in {"rejected", "selected"}
                              /\ UNCHANGED <<txs, validation_txs>>
      BY DEF SelectCheckpoint, envVars
    <3> QED
      BY <1>8, <3>1 DEF FinishTraining, envVars
  <2> QED
    BY <1>1, <2>1, WindowsRest
<1>9. CASE EvaluateStep
  <2>1. phase = "evaluate" /\ UNCHANGED <<phase, txs, validation_txs>>
    BY <1>9 DEF EvaluateStep, BeginBatch, Place, EndBatch, trainVars
  <2> QED
    BY <1>1, <2>1, WindowsRest
<1>10. CASE FinishEvaluation
  <2>1. phase = "evaluate" /\ phase' = "done" /\ UNCHANGED <<txs, validation_txs>>
    BY <1>10 DEF FinishEvaluation, envVars
  <2> QED
    BY <1>1, <2>1, WindowsRest
<1> QED
  BY <1>2, <1>3, <1>4, <1>5, <1>6, <1>7, <1>8, <1>9, <1>10 DEF TrainingNext

LEMMA WindowsInvariant == TrainingSpec => [](args \in Jobs /\ WindowsTrue)
<1>1. TrainingInit => args \in Jobs /\ WindowsTrue
  BY DEF TrainingInit, WindowsTrue
<1>2. (args \in Jobs /\ WindowsTrue) /\ [TrainingNext]_vars => (args \in Jobs /\ WindowsTrue)'
  <2> SUFFICES ASSUME args \in Jobs, WindowsTrue, [TrainingNext]_vars
               PROVE  (args \in Jobs)' /\ WindowsTrue'
    OBVIOUS
  <2>1. CASE TrainingNext
    BY <2>1, ArgsStay, WindowsStay
  <2>2. CASE UNCHANGED vars
    <3>1. UNCHANGED <<txs, args, validation_txs, phase>>
      BY <2>2 DEF vars, envVars, trainVars
    <3> QED
      BY <3>1, WindowsRest
  <2> QED
    BY <2>1, <2>2
<1> QED
  BY <1>1, <1>2, PTL DEF TrainingSpec

\* Windows that do not overlap, one of them without an end perhaps, have no
\* transaction in common when they are as long as they should be.
LEMMA NoOverlap ==
    ASSUME NEW s \in Nat, NEW m \in Nat, NEW vs \in Nat, NEW vm \in Nat, NEW n \in Nat, NEW vn \in Nat,
           m > 0 => n = m, vm > 0 => vn = vm, ~data_windows_overlap(s, m, vs, vm)
    PROVE  (s .. s + n - 1) \cap (vs .. vs + vn - 1) = {}
  BY DEF data_windows_overlap

\* The windows of training and evaluation are exactly the requested
\* transactions with their own rows, for all files and all bounds, open ones
\* too, and training and validation share none (load_transactions,
\* load_iot_transactions, load_rows, data_windows_overlap).
THEOREM WindowsAreAligned == TrainingSpec => []WindowAligned
<1>1. args \in Jobs /\ WindowsTrue => WindowAligned
  <2> SUFFICES ASSUME args \in Jobs, WindowsTrue PROVE WindowAligned
    OBVIOUS
  <2>1. /\ args.data \in Dataset /\ args.settings.identity \in {"raw", "iot", "iot_v2"}
        /\ args.start \in Nat /\ args.max \in Nat /\ args.vstart \in Nat /\ args.vmax \in Nat
        /\ args.tstart \in Nat /\ args.tmax \in Nat
    BY TrainingAssumption DEF Job, Config
  <2>2. PICK id, d : id = args.settings.identity /\ d = args.data
    OBVIOUS
  <2>3. PICK start : start = IF phase \in {"evaluate", "done"} THEN args.tstart ELSE args.start
    OBVIOUS
  <2>4. AlignedWith(id, d, start, txs)
    <3>1. CASE txs = <<>>
      BY <3>1 DEF AlignedWith
    <3>2. CASE phase \notin {"evaluate", "done"} /\ txs = LoadWindow(id, d, args.start, args.max).txs
      <4>1. AlignedWith(id, d, args.start, LoadWindow(id, d, args.start, args.max).txs)
        BY <2>1, <2>2, WindowIs
      <4> QED
        BY <2>3, <3>2, <4>1
    <3>3. CASE phase \in {"evaluate", "done"} /\ txs = LoadWindow(id, d, args.tstart, args.tmax).txs
      <4>1. AlignedWith(id, d, args.tstart, LoadWindow(id, d, args.tstart, args.tmax).txs)
        BY <2>1, <2>2, WindowIs
      <4> QED
        BY <2>3, <3>3, <4>1
    <3> QED
      BY <2>2, <3>1, <3>2, <3>3, Zenon DEF WindowsTrue, load_eval_transactions
  <2>5. Chain = ValidRows(d)
    BY <2>2 DEF Chain, ValidRows
  <2>6. phase = "train" =>
            (args.start .. args.start + Len(txs) - 1)
            \cap (args.vstart .. args.vstart + Len(validation_txs) - 1) = {}
    <3> SUFFICES ASSUME phase = "train"
                 PROVE  (args.start .. args.start + Len(txs) - 1)
                        \cap (args.vstart .. args.vstart + Len(validation_txs) - 1) = {}
      OBVIOUS
    <3>1. PICK w, v : /\ w = LoadWindow(id, d, args.start, args.max)
                      /\ v = LoadWindow(id, d, args.vstart, args.vmax)
      OBVIOUS
    <3>2. /\ Prepared(args) /\ txs = w.txs
          /\ validation_txs = IF args.disable_best THEN <<>> ELSE v.txs
      BY <2>2, <3>1, Zenon DEF WindowsTrue
    <3>3. CASE args.disable_best
      <4>1. Len(validation_txs) = 0
        BY <3>2, <3>3
      <4> QED
        BY <2>1, <4>1
    <3>4. CASE ~args.disable_best
      <4>1. /\ w.ok /\ v.ok
            /\ ~data_windows_overlap(args.start, args.max, args.vstart, args.vmax)
        BY <2>2, <3>1, <3>2, <3>4, Zenon DEF Prepared
      <4>2. w.txs \in Seq(Tx) /\ v.txs \in Seq(Tx)
        BY <2>1, <2>2, <3>1, WindowType
      <4>3. PICK s, m, vs, vm \in Nat :
              s = args.start /\ m = args.max /\ vs = args.vstart /\ vm = args.vmax
        BY <2>1
      <4>4. PICK n, vn \in Nat : n = Len(txs) /\ vn = Len(validation_txs)
        BY <3>2, <3>4, <4>2
      <4>5. id \in {"raw", "iot", "iot_v2"} /\ d \in Dataset
        BY <2>1, <2>2
      <4>6. m > 0 => n = m
        <5>1. w = LoadWindow(id, d, s, m) /\ w.ok /\ n = Len(w.txs)
          BY <3>1, <3>2, <4>1, <4>3, <4>4
        <5> QED
          BY <4>5, <5>1, WindowFull
      <4>7. vm > 0 => vn = vm
        <5>1. v = LoadWindow(id, d, vs, vm) /\ v.ok /\ vn = Len(v.txs)
          BY <3>1, <3>2, <3>4, <4>1, <4>3, <4>4
        <5> QED
          BY <4>5, <5>1, WindowFull
      <4>8. ~data_windows_overlap(s, m, vs, vm)
        BY <4>1, <4>3
      <4>9. (s .. s + n - 1) \cap (vs .. vs + vn - 1) = {}
        BY <4>6, <4>7, <4>8, NoOverlap
      <4> QED
        BY <4>3, <4>4, <4>9
    <3> QED
      BY <3>3, <3>4
  <2> QED
    BY <2>2, <2>3, <2>4, <2>5, <2>6, Zenon DEF WindowAligned, AlignedWith
<1> QED
  BY <1>1, WindowsInvariant, PTL

-----------------------------------------------------------------------------
(* The clock of mechanism v3.                                               *)

\* The number of batches of an epoch, and those executed in the present one.
EpochBatches == (Len(txs) + TxBatchSize - 1) \div TxBatchSize
BatchesDone == IF step = "place" THEN batch_id - 1 ELSE batch_id

\* The batches executed are those before the cursor.
CursorTrue ==
    /\ cursor = IF BatchesDone * TxBatchSize < Len(txs) THEN BatchesDone * TxBatchSize
                ELSE Len(txs)
    /\ step = "place" => batch_id >= 1 /\ cursor < Len(txs)

\* A sample carries the rewards of its batch and of those that follow.
Fits(s, n) ==
    /\ s.batch >= 1 /\ s.batch + Len(s.credits) <= n + 1
    /\ \A k \in 1 .. Len(s.credits) : /\ s.credits[k].batch = s.batch + k - 1
                                      /\ s.credits[k].power = k - 1

\* The last sample of epoch e, of n batches; a sample before one of batch b in
\* epoch e.
Ends(s, e, n) == s.id[1] = e /\ s.next = "end" /\ s.batch + Len(s.credits) = n + 1
Leads(s, e, b, n) ==
    \/ /\ s.id[1] = e /\ s.next = "next" /\ s.gap = Len(s.credits)
       /\ s.batch + Len(s.credits) = b
    \/ b = 1 /\ Ends(s, e - 1, n)

\* The samples of all epochs, one after the other without a gap, and the place
\* of the next one.
Opens(all, e, b, n) == IF all = <<>> THEN e = 1 /\ b = 1
                       ELSE Leads(all[Len(all)], e, b, n)
Walk(all, n) ==
    /\ all \in Seq(Sample)
    /\ \A i \in 1 .. Len(all) :
         /\ Fits(all[i], n)
         /\ IF i = 1 THEN all[i].id[1] = 1 /\ all[i].batch = 1
            ELSE Leads(all[i - 1], all[i].id[1], all[i].batch, n)

\* A sample that waits has the rewards of all batches since its own; if none
\* waits, the epoch begins or its next sample is among the placements of the batch.
Collected == trained \o buffer
Waits(s) == /\ s.id[1] = epoch /\ elapsed = Len(s.credits)
            /\ s.batch + elapsed = BatchesDone + 1
ClockTrue ==
    /\ phase = "start" => trained = <<>> /\ buffer = <<>>
    /\ V3 /\ phase \in {"train", "validate", "epoch_done", "trained"} =>
         /\ CursorTrue
         /\ Walk(Collected, EpochBatches)
         /\ phase = "train" =>
              IF pending THEN Waits(buffer[Len(buffer)])
              ELSE /\ Opens(Collected, epoch, BatchesDone + 1, EpochBatches)
                   /\ BatchesDone = 0 \/ (step = "place" /\ actions # <<>>)
         /\ phase # "train" =>
              /\ buffer = <<>> /\ trained # <<>> /\ BatchesDone = EpochBatches
              /\ Ends(trained[Len(trained)], epoch, EpochBatches)

-----------------------------------------------------------------------------
(* Numbers of batches.                                                      *)

\* Division by a batch size.
LEMMA Division ==
    ASSUME NEW a \in Nat, NEW b \in Nat \ {0}
    PROVE  a \div b \in Nat /\ (a \div b) * b <= a /\ a < (a \div b) * b + b
  OBVIOUS

\* How many batches of b transactions cover m.
LEMMA BatchCount ==
    ASSUME NEW m \in Nat, NEW b \in Nat \ {0}
    PROVE  LET n == (m + b - 1) \div b
           IN /\ n \in Nat /\ n <= m
              /\ \A k \in Nat : k * b \in Nat /\ (k * b < m <=> k < n)
<1>1. PICK a \in Nat : a = m + b - 1
  OBVIOUS
<1>2. PICK n \in Nat : n = a \div b /\ n * b <= a /\ a < n * b + b
  BY Division
<1>3. ASSUME NEW k \in Nat PROVE k * b \in Nat /\ (k * b < m <=> k < n)
  <2>1. PICK p \in Nat, q \in Nat : p = k * b /\ q = n * b
    OBVIOUS
  <2>2. CASE k < n
    <3>1. PICK d \in Nat : n = k + 1 + d
      BY <2>2
    <3>2. d * b \in Nat /\ q = p + b + d * b
      BY <2>1, <3>1
    <3> QED
      BY <1>1, <1>2, <2>1, <2>2, <3>2
  <2>3. CASE ~(k < n)
    <3>1. PICK d \in Nat : k = n + d
      BY <2>3
    <3>2. d * b \in Nat /\ p = q + d * b
      BY <2>1, <3>1
    <3> QED
      BY <1>1, <1>2, <2>1, <2>3, <3>2
  <2> QED
    BY <2>2, <2>3
<1>4. n <= m
  <2>1. PICK d \in Nat : b = d + 1
    OBVIOUS
  <2>2. m * b = m * d + m /\ m * d \in Nat
    BY <2>1
  <2>3. ~(m * b < m)
    BY <2>2
  <2> QED
    BY <1>3, <2>3
<1> QED
  BY <1>1, <1>2, <1>3, <1>4

\* Intervals one after the other: each begins where the one before ends.
LEMMA Tiling ==
    ASSUME NEW n \in Nat, NEW p, NEW c, NEW f \in Nat,
           \A i \in 1 .. n : p[i] \in Nat /\ c[i] \in Nat,
           \A i \in 1 .. n : p[i] = IF i = 1 THEN f ELSE p[i - 1] + c[i - 1]
    PROVE  /\ \A i, j \in 1 .. n : i < j => p[i] + c[i] <= p[j]
           /\ \A g \in Nat : n >= 1 /\ f <= g /\ g < p[n] + c[n] =>
                \E i \in 1 .. n : p[i] <= g /\ g < p[i] + c[i]
<1>1. ASSUME NEW i \in 1 .. n, NEW j \in 1 .. n, i < j PROVE p[i] + c[i] <= p[j]
  <2> DEFINE S == {k \in 1 .. n : i < k /\ ~(p[i] + c[i] <= p[k])}
  <2>1. SUFFICES ASSUME S # {} PROVE FALSE
    BY <1>1
  <2>2. S \in SUBSET Nat
    OBVIOUS
  <2>3. PICK k \in S : \A l \in S : k <= l
    BY <2>1, <2>2, Least
  <2>4. k \in 1 .. n /\ i < k /\ ~(p[i] + c[i] <= p[k])
    OBVIOUS
  <2>5. PICK l : l = k - 1
    OBVIOUS
  <2>6. l \in 1 .. n /\ i <= l /\ p[k] = p[l] + c[l]
    BY <2>4, <2>5
  <2>7. l \notin S
    BY <2>3, <2>4, <2>5
  <2>8. i = l \/ p[i] + c[i] <= p[l]
    BY <2>6, <2>7
  <2> QED
    BY <2>4, <2>6, <2>8
<1>2. ASSUME NEW g \in Nat, n >= 1, f <= g, g < p[n] + c[n]
      PROVE  \E i \in 1 .. n : p[i] <= g /\ g < p[i] + c[i]
  <2> DEFINE S == {k \in 1 .. n : g < p[k] + c[k]}
  <2>1. n \in S /\ S \in SUBSET Nat
    BY <1>2
  <2>2. PICK k \in S : \A l \in S : k <= l
    BY <2>1, Least
  <2>3. k \in 1 .. n /\ g < p[k] + c[k]
    OBVIOUS
  <2>4. p[k] <= g
    <3>1. CASE k = 1
      BY <1>2, <2>3, <3>1
    <3>2. CASE k # 1
      <4>1. PICK l : l = k - 1
        OBVIOUS
      <4>2. l \in 1 .. n /\ p[k] = p[l] + c[l]
        BY <2>3, <3>2, <4>1
      <4>3. l \notin S
        BY <2>2, <2>3, <4>1
      <4>4. ~(g < p[l] + c[l])
        BY <4>2, <4>3
      <4> QED
        BY <2>3, <4>2, <4>4
    <3> QED
      BY <3>1, <3>2
  <2> QED
    BY <2>3, <2>4
<1> QED
  BY <1>1, <1>2

\* A batch of an epoch has a number of its own.
LEMMA BatchNumbers ==
    ASSUME NEW n \in Nat, NEW d \in Nat, NEW e \in Nat, NEW a \in 1 .. n, NEW b \in 1 .. n
    PROVE  /\ d < e => d * n + n <= e * n
           /\ d * n + a = e * n + b => d = e /\ a = b
<1>1. PICK p \in Nat, q \in Nat : p = d * n /\ q = e * n
  OBVIOUS
<1>2. ASSUME d < e PROVE p + n <= q
  <2>1. PICK k \in Nat : e = d + 1 + k
    BY <1>2
  <2>2. k * n \in Nat /\ q = p + n + k * n
    BY <1>1, <2>1
  <2> QED
    BY <1>1, <2>2
<1>3. ASSUME e < d PROVE q + n <= p
  <2>1. PICK k \in Nat : d = e + 1 + k
    BY <1>3
  <2>2. k * n \in Nat /\ p = q + n + k * n
    BY <1>1, <2>1
  <2> QED
    BY <1>1, <2>2
<1>4. ASSUME p + a = q + b PROVE d = e /\ a = b
  <2>1. ~(d < e) /\ ~(e < d)
    BY <1>1, <1>2, <1>3, <1>4
  <2>2. d = e
    BY <2>1
  <2> QED
    BY <1>1, <1>4, <2>2
<1> QED
  BY <1>1, <1>2, <1>4

\* What a sample is.
LEMMA SampleIs ==
    ASSUME NEW s \in Sample
    PROVE  /\ s.id[1] \in Nat /\ s.batch \in Nat /\ s.gap \in Nat
           /\ s.credits \in Seq([batch : Nat, power : Nat])
           /\ Len(s.credits) \in Nat /\ DOMAIN s.credits = 1 .. Len(s.credits)
<1>1. s.id \in Nat \X Address /\ s.batch \in Nat /\ s.gap \in Nat
      /\ s.credits \in Seq([batch : Nat, power : Nat])
  BY DEF Sample
<1> QED
  BY <1>1

-----------------------------------------------------------------------------
(* Samples and the batches that they carry.                                 *)

\* The rewards of batch b of epoch e among the samples.
CarriedBy(all, m, e, b) ==
    {x \in (1 .. Len(all)) \X (1 .. m) :
        /\ x[2] <= Len(all[x[1]].credits) /\ all[x[1]].id[1] = e
        /\ all[x[1]].credits[x[2]].batch = b}

\* When the samples reach beyond batch b of epoch e, exactly one of them
\* carries its reward, once.
LEMMA WalkCovers ==
    ASSUME NEW n \in Nat, NEW m \in Nat, n <= m, NEW all, Walk(all, n), all # <<>>,
           NEW last, last = all[Len(all)],
           NEW e \in Nat \ {0}, NEW b \in 1 .. n,
           e * n + b < last.id[1] * n + last.batch + Len(last.credits)
    PROVE  Cardinality(CarriedBy(all, m, e, b)) = 1
<1>1. PICK len \in Nat : len = Len(all) /\ len >= 1
  <2>1. all \in Seq(Sample)
    BY DEF Walk
  <2> QED
    BY <2>1
<1> DEFINE c == [i \in 1 .. len |-> Len(all[i].credits)]
           p == [i \in 1 .. len |-> all[i].id[1] * n + all[i].batch]
<1>2. ASSUME NEW i \in 1 .. len
      PROVE  /\ all[i] \in Sample /\ Fits(all[i], n)
             /\ IF i = 1 THEN all[i].id[1] = 1 /\ all[i].batch = 1
                ELSE Leads(all[i - 1], all[i].id[1], all[i].batch, n)
  BY <1>1 DEF Walk
<1>3. \A i \in 1 .. len : /\ all[i].id[1] \in Nat /\ all[i].batch \in Nat
                          /\ Len(all[i].credits) \in Nat
  BY <1>2, SampleIs
<1>4. ASSUME NEW i \in 1 .. len
      PROVE  p[i] \in Nat /\ c[i] \in Nat /\ p[i] = all[i].id[1] * n + all[i].batch
             /\ c[i] = Len(all[i].credits)
  <2>1. PICK d \in Nat : d = all[i].id[1]
    BY <1>3
  <2>2. d * n \in Nat
    OBVIOUS
  <2>3. p[i] = all[i].id[1] * n + all[i].batch /\ c[i] = Len(all[i].credits)
    BY Zenon
  <2>4. PICK q \in Nat : q = all[i].batch
    BY <1>3
  <2>5. d * n + q \in Nat
    BY <2>2
  <2>6. p[i] = d * n + q
    BY <2>1, <2>3, <2>4, Zenon
  <2> HIDE DEF p, c
  <2> QED
    BY <1>3, <2>3, <2>5, <2>6, Zenon
<1>5. ASSUME NEW i \in 1 .. len PROVE p[i] = IF i = 1 THEN n + 1 ELSE p[i - 1] + c[i - 1]
  <2>1. CASE i = 1
    BY <1>2, <1>4, <2>1
  <2>2. CASE i # 1
    <3>1. PICK j \in 1 .. len : j = i - 1
      BY <2>2
    <3>2. Leads(all[j], all[i].id[1], all[i].batch, n)
      BY <1>2, <2>2, <3>1
    <3>3. PICK dj \in Nat, di \in Nat, bj \in Nat, bi \in Nat, cj \in Nat :
            /\ dj = all[j].id[1] /\ di = all[i].id[1] /\ bj = all[j].batch /\ bi = all[i].batch
            /\ cj = Len(all[j].credits)
      BY <1>3
    <3>4. (dj = di /\ bj + cj = bi) \/ (bi = 1 /\ dj = di - 1 /\ bj + cj = n + 1)
      BY <3>2, <3>3 DEF Leads, Ends
    <3>5. di * n + bi = dj * n + bj + cj
      <4>1. CASE dj = di /\ bj + cj = bi
        <5>1. PICK q \in Nat : q = di * n
          OBVIOUS
        <5> QED
          BY <4>1, <5>1
      <4>2. CASE bi = 1 /\ dj = di - 1 /\ bj + cj = n + 1
        <5>1. PICK q \in Nat : q = dj * n
          OBVIOUS
        <5>2. di = dj + 1 /\ di * n = q + n
          BY <4>2, <5>1
        <5> QED
          BY <4>2, <5>1, <5>2
      <4> QED
        BY <3>4, <4>1, <4>2
    <3> QED
      BY <1>4, <2>2, <3>1, <3>3, <3>5
  <2> QED
    BY <2>1, <2>2
<1>6. PICK g \in Nat : g = e * n + b
  <2>1. e * n \in Nat
    OBVIOUS
  <2> QED
    BY <2>1
<1>7. n + 1 <= g /\ g < p[len] + c[len]
  <2>1. PICK k \in Nat : e = k + 1
    OBVIOUS
  <2>2. k * n \in Nat /\ e * n = k * n + n
    BY <2>1
  <2>3. n + 1 <= g
    BY <1>6, <2>2
  <2>4. len \in 1 .. len
    BY <1>1
  <2>5. p[len] = last.id[1] * n + last.batch /\ c[len] = Len(last.credits)
    BY <1>1, <1>4, <2>4
  <2> QED
    BY <1>6, <2>3, <2>5
<1> HIDE DEF p, c
<1>8. /\ \A i, j \in 1 .. len : i < j => p[i] + c[i] <= p[j]
      /\ \E i \in 1 .. len : p[i] <= g /\ g < p[i] + c[i]
  <2>1. n + 1 \in Nat
    OBVIOUS
  <2>2. \A i \in 1 .. len : p[i] \in Nat /\ c[i] \in Nat
    BY <1>4
  <2>3. /\ \A i, j \in 1 .. len : i < j => p[i] + c[i] <= p[j]
        /\ \A h \in Nat : len >= 1 /\ n + 1 <= h /\ h < p[len] + c[len] =>
             \E i \in 1 .. len : p[i] <= h /\ h < p[i] + c[i]
    BY <1>5, <2>1, <2>2, Tiling
  <2> QED
    BY <1>1, <1>7, <2>3
<1>9. PICK i \in 1 .. len : p[i] <= g /\ g < p[i] + c[i]
  BY <1>8
<1>10. PICK k \in Nat : k = g - p[i] + 1 /\ k \in 1 .. c[i]
  BY <1>4, <1>9
\* A reward of a sample is the one of batch b of epoch e if its place is that one.
<1>11. ASSUME NEW j \in 1 .. len, NEW l \in 1 .. c[j]
       PROVE  /\ l \in 1 .. m
              /\ (all[j].id[1] = e /\ all[j].credits[l].batch = b) <=> p[j] + l - 1 = g
  <2>1. PICK d \in Nat, q \in Nat : d = all[j].id[1] /\ q = all[j].batch
    BY <1>3
  <2>2. c[j] \in Nat /\ p[j] = d * n + q /\ c[j] = Len(all[j].credits)
    BY <1>4, <2>1
  <2>3. /\ q >= 1 /\ q + c[j] <= n + 1
        /\ all[j].credits[l].batch = q + l - 1
    BY <1>2, <2>1, <2>2 DEF Fits
  <2>4. PICK a \in 1 .. n : a = q + l - 1
    BY <2>2, <2>3
  <2>5. d * n + a = e * n + b => d = e /\ a = b
    BY BatchNumbers
  <2>6. d * n \in Nat /\ e * n \in Nat
    OBVIOUS
  <2>7. p[j] + l - 1 = d * n + a
    BY <2>2, <2>4, <2>6
  <2>8. l \in 1 .. m
    BY <2>2, <2>3
  <2>9. (d = e /\ a = b) <=> p[j] + l - 1 = g
    BY <1>6, <2>5, <2>7, Zenon
  <2> QED
    BY <2>1, <2>3, <2>4, <2>8, <2>9, Zenon
<1>12. <<i, k>> \in CarriedBy(all, m, e, b)
  <2>1. p[i] + k - 1 = g
    BY <1>4, <1>10
  <2>2. k \in 1 .. m /\ all[i].id[1] = e /\ all[i].credits[k].batch = b
    BY <1>10, <1>11, <2>1
  <2>3. k <= Len(all[i].credits)
    BY <1>4, <1>10
  <2> QED
    BY <1>1, <2>2, <2>3 DEF CarriedBy
<1>13. ASSUME NEW x \in CarriedBy(all, m, e, b) PROVE x = <<i, k>>
  <2>1. PICK j \in 1 .. len, l \in 1 .. m : x = <<j, l>>
    BY <1>1 DEF CarriedBy
  <2>2. /\ l <= Len(all[j].credits) /\ all[j].id[1] = e
        /\ all[j].credits[l].batch = b
    BY <2>1 DEF CarriedBy
  <2>3. l \in 1 .. c[j] /\ c[j] \in Nat /\ p[j] \in Nat
    BY <1>4, <2>2
  <2>4. p[j] + l - 1 = g
    BY <1>11, <2>2, <2>3
  <2>5. c[i] \in Nat /\ p[i] \in Nat /\ i \in Nat /\ j \in Nat
    BY <1>4
  <2>6. /\ i < j => p[i] + c[i] <= p[j]
        /\ j < i => p[j] + c[j] <= p[i]
    BY <1>8, Zenon
  <2>7. PICK pi \in Nat, ci \in Nat, pj \in Nat, cj \in Nat :
          pi = p[i] /\ ci = c[i] /\ pj = p[j] /\ cj = c[j]
    BY <2>3, <2>5
  <2>8. i = j
    <3>1. pi <= g /\ g < pi + ci
      BY <1>9, <2>7
    <3>2. l \in Nat /\ 1 <= l /\ l <= cj /\ pj + l - 1 = g
      BY <2>3, <2>4, <2>7
    <3>3. (i < j => pi + ci <= pj) /\ (j < i => pj + cj <= pi)
      BY <2>6, <2>7
    <3> QED
      BY <2>5, <3>1, <3>2, <3>3
  <2>9. l = k
    BY <1>10, <2>3, <2>4, <2>5, <2>8
  <2> QED
    BY <2>1, <2>8, <2>9
<1>14. CarriedBy(all, m, e, b) = {<<i, k>>}
  BY <1>12, <1>13, Zenon
<1> QED
  BY <1>14, FS_Singleton, Zenon

-----------------------------------------------------------------------------
(* Samples that continue a trajectory.                                      *)

\* Two sequences of samples, one after the other.
LEMMA SamplesJoined ==
    ASSUME NEW a \in Seq(Sample), NEW b \in Seq(Sample), NEW u, u = a \o b,
           NEW k, k = Len(a), NEW l, l = Len(b)
    PROVE  /\ k \in Nat /\ l \in Nat /\ u \in Seq(Sample) /\ Len(u) = k + l
           /\ \A i \in 1 .. k : u[i] = a[i]
           /\ \A i \in 1 .. l : u[k + i] = b[i]
<1>1. k \in Nat /\ l \in Nat /\ u \in Seq(Sample) /\ Len(u) = k + l
  OBVIOUS
<1>2. \A i \in 1 .. k : u[i] = a[i]
  OBVIOUS
<1>3. \A i \in 1 .. l : u[k + i] = b[i]
  OBVIOUS
<1> QED
  BY <1>1, <1>2, <1>3

\* Samples that differ at most in the version that they improved.
Twin(s, t) == /\ s.id = t.id /\ s.batch = t.batch /\ s.credits = t.credits
              /\ s.next = t.next /\ s.gap = t.gap

\* A twin is in the same place.
LEMMA TwinsLead ==
    ASSUME NEW s, NEW t, Twin(s, t), NEW n, NEW e, NEW b
    PROVE  /\ Fits(t, n) => Fits(s, n)
           /\ Leads(t, e, b, n) => Leads(s, e, b, n)
           /\ Ends(t, e, n) => Ends(s, e, n)
  BY DEF Twin, Fits, Leads, Ends

\* So is a sample with the same rewards.
LEMMA FitsAlike ==
    ASSUME NEW s, NEW t, s.batch = t.batch, s.credits = t.credits, NEW n, Fits(t, n)
    PROVE  Fits(s, n)
  BY DEF Fits

\* Only the last of the samples is changed, and it stays in its place.
LEMMA WalkEdited ==
    ASSUME NEW n, NEW all, Walk(all, n), NEW new \in Seq(Sample), Len(new) = Len(all),
           NEW y, Len(all) >= 1,
           \A i \in 1 .. Len(all) - 1 : Twin(new[i], all[i]),
           Twin(new[Len(all)], y), Fits(y, n),
           y.id = all[Len(all)].id, y.batch = all[Len(all)].batch
    PROVE  Walk(new, n)
<1>1. PICK len \in Nat : len = Len(all) /\ len = Len(new)
  BY DEF Walk
<1>2. SUFFICES ASSUME NEW i \in 1 .. len
               PROVE  /\ Fits(new[i], n)
                      /\ IF i = 1 THEN new[i].id[1] = 1 /\ new[i].batch = 1
                         ELSE Leads(new[i - 1], new[i].id[1], new[i].batch, n)
  BY <1>1 DEF Walk
<1>3. /\ Fits(all[i], n)
      /\ IF i = 1 THEN all[i].id[1] = 1 /\ all[i].batch = 1
         ELSE Leads(all[i - 1], all[i].id[1], all[i].batch, n)
  BY <1>1 DEF Walk
<1>4. new[i].id = all[i].id /\ new[i].batch = all[i].batch
  <2>1. CASE i = len
    BY <1>1, <2>1 DEF Twin
  <2>2. CASE i # len
    BY <1>1, <2>2 DEF Twin
  <2> QED
    BY <2>1, <2>2
<1>5. Fits(new[i], n)
  <2>1. CASE i = len
    BY <1>1, <2>1, TwinsLead
  <2>2. CASE i # len
    <3>1. Twin(new[i], all[i])
      BY <1>1, <2>2
    <3> QED
      BY <1>3, <3>1, TwinsLead
  <2> QED
    BY <2>1, <2>2
<1>6. ASSUME i # 1 PROVE Leads(new[i - 1], new[i].id[1], new[i].batch, n)
  <2>1. PICK j \in 1 .. len - 1 : j = i - 1
    BY <1>6
  <2>2. Leads(all[j], new[i].id[1], new[i].batch, n)
    BY <1>3, <1>4, <1>6, <2>1
  <2>3. Twin(new[j], all[j])
    BY <1>1
  <2> QED
    BY <2>1, <2>2, <2>3, TwinsLead
<1> QED
  BY <1>3, <1>4, <1>5, <1>6

\* The samples of a batch take the open place; the last one carries its reward.
BatchOf(s, e, b) ==
    /\ s \in Seq(Sample) /\ s # <<>>
    /\ \A i \in 1 .. Len(s) :
         /\ s[i].id[1] = e /\ s[i].batch = b
         /\ i < Len(s) => s[i].credits = <<>> /\ s[i].next = "next" /\ s[i].gap = 0
         /\ i = Len(s) => s[i].credits = <<[batch |-> b, power |-> 0]>>

\* The samples of a batch continue the others.
LEMMA WalkJoined ==
    ASSUME NEW n \in Nat, NEW all, Walk(all, n), NEW e \in Nat, NEW b \in 1 .. n, Opens(all, e, b, n),
           NEW s, BatchOf(s, e, b)
    PROVE  Walk(all \o s, n)
<1>1. PICK k \in Nat, l \in Nat : k = Len(all) /\ l = Len(s) /\ l >= 1
  BY DEF Walk, BatchOf
<1>2. PICK u : u = all \o s
  OBVIOUS
<1>3. /\ u \in Seq(Sample) /\ Len(u) = k + l
      /\ \A i \in 1 .. k : u[i] = all[i]
      /\ \A i \in 1 .. l : u[k + i] = s[i]
  BY <1>1, <1>2 DEF Walk, BatchOf
<1>4. ASSUME NEW i \in 1 .. l PROVE s[i].id[1] = e /\ s[i].batch = b /\ Fits(s[i], n)
  <2>1. s[i].id[1] = e /\ s[i].batch = b
    BY <1>1 DEF BatchOf
  <2>2. CASE i < l
    <3>1. s[i].credits = <<>>
      BY <1>1, <2>2 DEF BatchOf
    <3>2. PICK c : c = s[i].credits /\ Len(c) = 0
      BY <3>1
    <3> QED
      BY <2>1, <3>2 DEF Fits
  <2>3. CASE i = l
    <3>1. s[i].credits = <<[batch |-> b, power |-> 0]>>
      BY <1>1, <2>3 DEF BatchOf
    <3>2. PICK c : c = s[i].credits /\ Len(c) = 1 /\ c[1].batch = b /\ c[1].power = 0
      BY <3>1
    <3> QED
      BY <2>1, <3>2 DEF Fits
  <2> QED
    BY <2>1, <2>2, <2>3
<1>5. SUFFICES ASSUME NEW j \in 1 .. k + l
               PROVE  /\ Fits(u[j], n)
                      /\ IF j = 1 THEN u[j].id[1] = 1 /\ u[j].batch = 1
                         ELSE Leads(u[j - 1], u[j].id[1], u[j].batch, n)
  BY <1>2, <1>3 DEF Walk
<1>6. CASE j <= k
  <2>1. /\ Fits(all[j], n)
        /\ IF j = 1 THEN all[j].id[1] = 1 /\ all[j].batch = 1
           ELSE Leads(all[j - 1], all[j].id[1], all[j].batch, n)
    BY <1>1, <1>6 DEF Walk
  <2>2. u[j] = all[j] /\ (j # 1 => u[j - 1] = all[j - 1])
    BY <1>3, <1>6
  <2> QED
    BY <2>1, <2>2
<1>7. CASE j > k
  <2>1. PICK i \in 1 .. l : j = k + i
    BY <1>7
  <2>2. u[j].id[1] = e /\ u[j].batch = b /\ Fits(u[j], n)
    BY <1>3, <1>4, <2>1
  <2>3. CASE i = 1 /\ k = 0
    <3>1. all = <<>>
      <4>1. all \in Seq(Sample) /\ Len(all) = 0
        BY <1>1, <2>3 DEF Walk
      <4> QED
        BY <4>1
    <3>2. e = 1 /\ b = 1
      BY <3>1 DEF Opens
    <3>3. j = 1
      BY <2>1, <2>3
    <3> QED
      BY <2>2, <3>2, <3>3
  <2>4. CASE i = 1 /\ k # 0
    <3>1. Leads(all[k], e, b, n)
      BY <1>1, <2>4 DEF Opens
    <3>2. j # 1 /\ j - 1 = k /\ u[k] = all[k]
      BY <1>3, <2>1, <2>4
    <3> QED
      BY <2>2, <3>1, <3>2
  <2>5. CASE i # 1
    <3>1. PICK h \in 1 .. l - 1 : h = i - 1
      BY <2>5
    <3>2. s[h].credits = <<>> /\ s[h].next = "next" /\ s[h].gap = 0
      BY <1>1 DEF BatchOf
    <3>3. s[h].id[1] = e /\ s[h].batch = b
      BY <1>4
    <3>4. PICK c : c = s[h].credits /\ Len(c) = 0
      BY <3>2
    <3>5. Leads(s[h], e, b, n)
      BY <3>2, <3>3, <3>4 DEF Leads
    <3>6. j # 1 /\ j - 1 = k + h /\ u[k + h] = s[h]
      BY <1>3, <2>1, <3>1
    <3> QED
      BY <2>2, <3>5, <3>6
  <2> QED
    BY <2>3, <2>4, <2>5
<1> QED
  BY <1>6, <1>7

\* A change of the last sample in the buffer.  An update may follow.
EditedLast(s, b) == /\ s \in Seq(Sample) /\ Len(s) = Len(b)
                    /\ \A i \in 1 .. Len(b) : i # Len(b) => s[i] = b[i]

\* It changes the last of all samples.
LEMMA CollectedEdited ==
    ASSUME trained \in Seq(Sample), NEW b, b = buffer, b \in Seq(Sample), b # <<>>, version \in Nat,
           NEW s, EditedLast(s, b), NEW y, y = s[Len(b)],
           UpdateAgent(s) \/ (buffer' = s /\ UNCHANGED trained)
    PROVE  /\ Collected' \in Seq(Sample) /\ Len(Collected') = Len(Collected) /\ Len(Collected) >= 1
           /\ Len(Collected) \in Nat
           /\ \A i \in 1 .. Len(Collected) - 1 : Twin(Collected'[i], Collected[i])
           /\ Twin(Collected'[Len(Collected)], y)
           /\ Collected[Len(Collected)] = b[Len(b)]
<1>1. PICK k \in Nat, l \in Nat : k = Len(trained) /\ l = Len(b) /\ l >= 1
  OBVIOUS
<1>2. /\ s \in Seq(Sample) /\ Len(s) = l
      /\ \A i \in 1 .. l : s[i] = IF i = l THEN y ELSE b[i]
  BY <1>1 DEF EditedLast
<1>3. PICK u : u = Collected
  OBVIOUS
<1>4. /\ Len(u) = k + l /\ \A i \in 1 .. k : u[i] = trained[i]
      /\ \A i \in 1 .. l : u[k + i] = b[i]
  BY <1>1, <1>3 DEF Collected
<1>5. PICK q : /\ q \in Seq(Sample) /\ Len(q) = l /\ Collected' = trained \o q
               /\ \A i \in 1 .. l : Twin(q[i], s[i])
  <2>1. CASE UpdateAgent(s)
    <3>1. PICK q : q = Trained(s)
      OBVIOUS
    <3>2. Alike(q, s)
      BY <1>2, <3>1, TrainedSamples, Zenon
    <3>3. q \in Seq(Sample) /\ Len(q) = l
      BY <1>2, <3>2 DEF Alike
    <3>4. \A i \in 1 .. l : Twin(q[i], s[i])
      <4>1. DOMAIN s = 1 .. l
        BY <1>2
      <4>2. \A i \in 1 .. l : q[i] = [s[i] EXCEPT !.by = version]
        BY <3>1, <4>1 DEF Trained
      <4>3. \A z \in Sample : Twin([z EXCEPT !.by = version], z)
        BY DEF Twin, Sample
      <4>4. \A i \in 1 .. l : s[i] \in Sample
        BY <1>2
      <4> QED
        BY <4>2, <4>3, <4>4, Zenon
    <3>5. trained' = trained \o q /\ buffer' = <<>>
      BY <2>1, <3>1 DEF UpdateAgent
    <3>6. trained \o q \in Seq(Sample)
      BY <3>3
    <3>7. (trained \o q) \o <<>> = trained \o q
      BY <3>6, ConcatEmptySeq
    <3>8. Collected' = trained \o q
      BY <3>5, <3>7, Zenon DEF Collected
    <3> QED
      BY <3>3, <3>4, <3>8
  <2>2. CASE buffer' = s /\ UNCHANGED trained
    <3>1. Collected' = trained \o s
      BY <2>2 DEF Collected
    <3>2. \A i \in 1 .. l : Twin(s[i], s[i])
      BY DEF Twin
    <3> QED
      BY <1>2, <3>1, <3>2
  <2> QED
    BY <2>1, <2>2
<1>6. PICK v : v = Collected'
  OBVIOUS
<1>7. /\ v \in Seq(Sample) /\ Len(v) = k + l
      /\ \A i \in 1 .. k : v[i] = trained[i]
      /\ \A i \in 1 .. l : v[k + i] = q[i]
  <2>1. v = trained \o q /\ k = Len(trained) /\ l = Len(q)
    BY <1>1, <1>5, <1>6
  <2>2. PICK p : p = trained /\ p \in Seq(Sample)
    OBVIOUS
  <2>3. q \in Seq(Sample) /\ v = p \o q /\ k = Len(p)
    BY <1>5, <2>1, <2>2
  <2>4. /\ v \in Seq(Sample) /\ Len(v) = k + l
        /\ \A i \in 1 .. k : v[i] = p[i]
        /\ \A i \in 1 .. l : v[k + i] = q[i]
    BY <2>1, <2>2, <2>3, SamplesJoined
  <2> QED
    BY <2>2, <2>4
<1>8. ASSUME NEW i \in 1 .. k + l - 1 PROVE Twin(v[i], u[i])
  <2>1. CASE i <= k
    <3>1. v[i] = u[i]
      BY <1>4, <1>7, <2>1
    <3> QED
      BY <3>1 DEF Twin
  <2>2. CASE i > k
    <3>1. PICK j \in 1 .. l - 1 : i = k + j
      BY <2>2
    <3>2. v[i] = q[j] /\ u[i] = b[j] /\ s[j] = b[j] /\ Twin(q[j], s[j])
      BY <1>2, <1>4, <1>5, <1>7, <3>1
    <3> QED
      BY <3>2, Zenon
  <2> QED
    BY <2>1, <2>2
<1>9. Twin(v[k + l], y) /\ u[k + l] = b[l]
  <2>1. v[k + l] = q[l] /\ s[l] = y /\ Twin(q[l], s[l]) /\ u[k + l] = b[l]
    BY <1>1, <1>2, <1>4, <1>5, <1>7
  <2> QED
    BY <2>1, Zenon
<1> QED
  BY <1>1, <1>3, <1>4, <1>6, <1>7, <1>8, <1>9

-----------------------------------------------------------------------------
(* Changes of the last sample.                                              *)

\* Samples that differ in the last one.
LEMMA SampleChanged ==
    ASSUME NEW b \in Seq(Sample), NEW n \in 1 .. Len(b), n = Len(b), NEW w \in Sample,
           NEW s, s = [b EXCEPT ![n] = w]
    PROVE  EditedLast(s, b) /\ s[n] = w
  BY DEF EditedLast

\* The last sample with another next state and discount.
WithNext(b, x, g) == [b EXCEPT ![Len(b)].next = x, ![Len(b)].gap = g]

\* Everything else in it remains.
LEMMA LastNext ==
    ASSUME NEW b \in Seq(Sample), b # <<>>, NEW x \in {"next", "own", "end"}, NEW g \in Nat,
           NEW s, s = WithNext(b, x, g),
           NEW y, y = s[Len(b)], NEW z, z = b[Len(b)]
    PROVE  /\ EditedLast(s, b) /\ y.id = z.id /\ y.batch = z.batch
           /\ y.credits = z.credits /\ y.next = x /\ y.gap = g
<1>1. PICK n : n = Len(b)
  OBVIOUS
<1>2. n \in 1 .. Len(b) /\ b[n] \in Sample /\ DOMAIN b = 1 .. Len(b)
  BY <1>1
<1>3. PICK w : w = [[b[n] EXCEPT !.next = x] EXCEPT !.gap = g]
  OBVIOUS
<1>4. PICK v : v = [b[n] EXCEPT !.next = x]
  OBVIOUS
<1>5. /\ v \in Sample /\ v.id = b[n].id /\ v.batch = b[n].batch
      /\ v.credits = b[n].credits /\ v.next = x
  BY <1>2, <1>4 DEF Sample
<1>6. /\ w \in Sample /\ w.id = v.id /\ w.batch = v.batch
      /\ w.credits = v.credits /\ w.next = v.next /\ w.gap = g
  BY <1>3, <1>4, <1>5 DEF Sample
<1>7. s = [b EXCEPT ![n] = w]
  BY <1>1, <1>2, <1>3 DEF WithNext
<1>8. EditedLast(s, b) /\ y = w /\ z = b[n]
  BY <1>1, <1>2, <1>6, <1>7, SampleChanged
<1> QED
  BY <1>5, <1>6, <1>8

\* The last sample with one more reward.
Credited(q, c) == Append(q, c)
WithCredit(b, c) == [b EXCEPT ![Len(b)].credits = Append(@, c)]

\* Everything else in it remains.
LEMMA LastPaid ==
    ASSUME NEW b \in Seq(Sample), b # <<>>, NEW c \in [batch : Nat, power : Nat],
           NEW s, s = WithCredit(b, c),
           NEW y, y = s[Len(b)], NEW z, z = b[Len(b)]
    PROVE  /\ EditedLast(s, b) /\ y.id = z.id /\ y.batch = z.batch
           /\ y.credits = Credited(z.credits, c)
<1>1. PICK n : n = Len(b)
  OBVIOUS
<1>2. n \in 1 .. Len(b) /\ b[n] \in Sample /\ DOMAIN b = 1 .. Len(b)
  BY <1>1
<1>3. PICK q : q = Append(b[n].credits, c)
  OBVIOUS
<1>4. q \in Seq([batch : Nat, power : Nat])
  BY <1>2, <1>3 DEF Sample
<1>5. PICK w : w = [b[n] EXCEPT !.credits = q]
  OBVIOUS
<1>6. w \in Sample /\ w.id = b[n].id /\ w.batch = b[n].batch /\ w.credits = q
  BY <1>2, <1>4, <1>5 DEF Sample
<1>7. s = [b EXCEPT ![n] = w]
  BY <1>1, <1>2, <1>3, <1>5 DEF WithCredit
<1>8. EditedLast(s, b) /\ y = w /\ z = b[n]
  BY <1>1, <1>2, <1>6, <1>7, SampleChanged
<1>9. y.credits = q /\ q = Credited(z.credits, c)
  BY <1>3, <1>6, <1>8 DEF Credited
<1> QED
  BY <1>6, <1>8, <1>9

\* The samples of a batch with decisions.
LEMMA BatchSamplesJoin ==
    ASSUME EnvTypeOK, epoch \in Nat, actions # <<>>,
           NEW s, s = BatchSamples({Len(actions)}, 0, "own")
    PROVE  BatchOf(s, epoch, batch_id)
<1>1. PICK e, b, n : e = epoch /\ b = batch_id /\ n = Len(actions)
  OBVIOUS
<1>2. e \in Nat /\ b \in Nat /\ n \in Nat \ {0} /\ DOMAIN actions = 1 .. n
  <2>1. PICK R : actions \in Seq(R)
    BY DEF EnvTypeOK
  <2> QED
    BY <1>1, <2>1 DEF EnvTypeOK
<1>3. s \in Seq(Sample) /\ Len(s) = n
  <2>1. 0 \in Nat /\ "own" \in {"next", "own", "end"}
    OBVIOUS
  <2>2. PICK t : t = BatchSamples({Len(actions)}, 0, "own")
    OBVIOUS
  <2>3. t \in Seq(Sample) /\ Len(t) = Len(actions)
    BY <1>1, <1>2, <2>1, <2>2, BatchSamplesAre, Zenon
  <2> QED
    BY <1>1, <2>2, <2>3
<1> DEFINE pay(i) == IF i \in {n} THEN <<[batch |-> b, power |-> 0]>> ELSE <<>>
           to(i) == IF i < n THEN "next" ELSE "own"
           r(i) == [id |-> <<e, actions[i].address>>, batch |-> b,
                    sampled |-> actions[i].sampled,
                    credits |-> pay(i), next |-> to(i), gap |-> 0, by |-> None]
<1>4. s = [i \in 1 .. n |-> r(i)]
  BY <1>1, <1>2 DEF BatchSamples
<1>5. ASSUME NEW i \in 1 .. n
      PROVE  /\ s[i].id[1] = e /\ s[i].batch = b
             /\ i < n => s[i].credits = <<>> /\ s[i].next = "next" /\ s[i].gap = 0
             /\ i = n => s[i].credits = <<[batch |-> b, power |-> 0]>>
  <2>1. s[i] = r(i)
    BY <1>4, Zenon
  <2>2. r(i).id = <<e, actions[i].address>> /\ r(i).batch = b /\ r(i).credits = pay(i)
        /\ r(i).next = to(i) /\ r(i).gap = 0
    BY Zenon
  <2>3. r(i).id[1] = e
    BY <2>2
  <2>4. i < n => pay(i) = <<>> /\ to(i) = "next"
    BY <1>2
  <2>5. i = n => pay(i) = <<[batch |-> b, power |-> 0]>>
    BY Zenon
  <2> HIDE DEF r, pay, to
  <2> QED
    BY <2>1, <2>2, <2>3, <2>4, <2>5, Zenon
<1>6. s # <<>>
  BY <1>2, <1>3
<1> QED
  BY <1>1, <1>3, <1>5, <1>6, Zenon DEF BatchOf

-----------------------------------------------------------------------------
(* The cursor.                                                              *)

\* The number of batches that an epoch has.
LEMMA EpochType ==
    ASSUME EnvTypeOK
    PROVE  /\ EpochBatches \in Nat /\ Len(txs) \in Nat /\ EpochBatches <= Len(txs)
           /\ TxBatchSize \in Nat \ {0}
           /\ \A k \in Nat : k * TxBatchSize \in Nat
                             /\ (k * TxBatchSize < Len(txs) <=> k < EpochBatches)
<1>1. PICK m \in Nat, b \in Nat \ {0} : m = Len(txs) /\ b = TxBatchSize
  <2>1. txs \in Seq(Tx) /\ config \in Config
    BY DEF EnvTypeOK
  <2>2. config.batch \in Nat \ {0} /\ Len(txs) \in Nat
    BY <2>1 DEF Config
  <2> QED
    BY <2>2 DEF TxBatchSize
<1>2. PICK n : n = (m + b - 1) \div b
  OBVIOUS
<1>3. n \in Nat /\ n <= m /\ \A k \in Nat : k * b \in Nat /\ (k * b < m <=> k < n)
  BY <1>2, BatchCount
<1>4. n = EpochBatches
  BY <1>1, <1>2 DEF EpochBatches
<1> QED
  BY <1>1, <1>3, <1>4

\* The batches done are some of those.
LEMMA DoneType ==
    ASSUME EnvTypeOK, CursorTrue
    PROVE  /\ BatchesDone \in Nat
           /\ step = "place" => BatchesDone < EpochBatches /\ batch_id = BatchesDone + 1
           /\ step = "idle" /\ cursor = Len(txs) => BatchesDone >= EpochBatches
<1>1. PICK d \in Nat : d = BatchesDone
  BY DEF EnvTypeOK, CursorTrue, BatchesDone
<1>2. PICK n \in Nat, m \in Nat, p \in Nat :
        /\ n = EpochBatches /\ m = Len(txs) /\ p = d * TxBatchSize /\ (p < m <=> d < n)
  BY EpochType
<1>3. cursor = IF p < m THEN p ELSE m
  BY <1>1, <1>2 DEF CursorTrue
<1>4. step = "place" => d < n /\ batch_id = d + 1
  <2> SUFFICES ASSUME step = "place" PROVE d < n /\ batch_id = d + 1
    OBVIOUS
  <2>1. cursor < m
    BY <1>2 DEF CursorTrue
  <2>2. d = batch_id - 1 /\ batch_id \in Nat
    BY <1>1 DEF BatchesDone, EnvTypeOK
  <2> QED
    BY <1>2, <1>3, <2>1, <2>2
<1>5. cursor = m => d >= n
  BY <1>2, <1>3
<1> QED
  BY <1>1, <1>2, <1>4, <1>5

\* A batch begins where the last one ended.
LEMMA CursorBegins ==
    ASSUME EnvTypeOK, CursorTrue, BeginBatch
    PROVE  CursorTrue' /\ BatchesDone' = BatchesDone /\ EpochBatches' = EpochBatches
<1>1. /\ step = "idle" /\ step' = "place" /\ batch_id' = batch_id + 1 /\ cursor < Len(txs)
      /\ cursor' = cursor /\ txs' = txs /\ config' = config
  BY DEF BeginBatch
<1>2. batch_id \in Nat
  BY DEF EnvTypeOK
<1>3. TxBatchSize' = TxBatchSize /\ EpochBatches' = EpochBatches
  BY <1>1 DEF TxBatchSize, EpochBatches
<1>4. BatchesDone' = BatchesDone
  BY <1>1, <1>2 DEF BatchesDone
<1> QED
  BY <1>1, <1>2, <1>3, <1>4 DEF CursorTrue

\* And it ends where the next one begins.
LEMMA CursorEnds ==
    ASSUME EnvTypeOK, CursorTrue, EndBatch
    PROVE  /\ CursorTrue' /\ BatchesDone' = BatchesDone + 1 /\ EpochBatches' = EpochBatches
           /\ BatchesDone' = batch_id /\ batch_id <= EpochBatches
<1>1. /\ step = "place" /\ step' = "idle" /\ batch_id' = batch_id
      /\ cursor' = cursor + Len(Batch) /\ txs' = txs /\ config' = config
  BY DEF EndBatch
<1>2. TxBatchSize' = TxBatchSize /\ EpochBatches' = EpochBatches
  BY <1>1 DEF TxBatchSize, EpochBatches
<1>3. PICK d \in Nat, m \in Nat, b \in Nat \ {0}, n \in Nat :
        /\ d = BatchesDone /\ m = Len(txs) /\ b = TxBatchSize /\ n = EpochBatches
        /\ d < n /\ batch_id = d + 1
  BY <1>1, DoneType, EpochType
<1>4. BatchesDone' = d + 1
  BY <1>1, <1>3 DEF BatchesDone
<1>5. PICK p \in Nat : p = d * b /\ p < m
  BY <1>3, EpochType
<1>6. cursor = p
  BY <1>3, <1>5 DEF CursorTrue
<1>7. Len(Batch) = IF p + b < m THEN b ELSE m - p
  <2>1. PICK h : h = IF p + b < m THEN p + b ELSE m
    OBVIOUS
  <2>2. Batch = SubSeq(txs, p + 1, h)
    BY <1>3, <1>6, <2>1 DEF Batch
  <2>3. txs \in Seq(Tx) /\ h \in Int /\ p <= h /\ h <= Len(txs)
    BY <1>3, <1>5, <2>1 DEF EnvTypeOK
  <2>4. Len(SubSeq(txs, p + 1, h)) = h - p
    BY <2>3, SubSeqProperties
  <2> QED
    BY <1>5, <2>1, <2>2, <2>4
<1>8. cursor' = IF p + b < m THEN p + b ELSE m
  BY <1>1, <1>5, <1>6, <1>7
<1>9. (d + 1) * b = p + b
  BY <1>5
<1>10. CursorTrue'
  <2>1. BatchesDone' * TxBatchSize' = p + b /\ Len(txs') = m
    BY <1>1, <1>2, <1>3, <1>4, <1>9
  <2>2. cursor' = IF BatchesDone' * TxBatchSize' < Len(txs') THEN BatchesDone' * TxBatchSize'
                  ELSE Len(txs')
    BY <1>8, <2>1
  <2> QED
    BY <1>1, <2>2 DEF CursorTrue
<1> QED
  BY <1>2, <1>3, <1>4, <1>10

\* A reset begins with the first batch.
LEMMA CursorResets ==
    ASSUME EnvTypeOK', NEW c, NEW w, NewPass(c, w, TRUE)
    PROVE  CursorTrue' /\ BatchesDone' = 0
<1>1. step' = "idle" /\ batch_id' = 0 /\ cursor' = 0
  BY DEF NewPass, batchVars, ResetState
<1>2. BatchesDone' = 0
  BY <1>1 DEF BatchesDone
<1>3. PICK b \in Nat, m \in Nat : b = TxBatchSize' /\ m = Len(txs')
  BY DEF EnvTypeOK, Config, TxBatchSize
<1>4. BatchesDone' * TxBatchSize' = 0
  <2>1. 0 * b = 0
    OBVIOUS
  <2> QED
    BY <1>2, <1>3, <2>1, Zenon
<1>5. cursor' = IF BatchesDone' * TxBatchSize' < Len(txs') THEN BatchesDone' * TxBatchSize'
                ELSE Len(txs')
  BY <1>1, <1>3, <1>4
<1> QED
  BY <1>1, <1>2, <1>5 DEF CursorTrue

\* The cursor depends on the environment alone.
LEMMA CursorRests ==
    ASSUME UNCHANGED <<txs, config, cursor, batch_id, step>>
    PROVE  /\ CursorTrue' <=> CursorTrue
           /\ BatchesDone' = BatchesDone /\ EpochBatches' = EpochBatches
  BY DEF CursorTrue, BatchesDone, EpochBatches, TxBatchSize

-----------------------------------------------------------------------------
(* Steps of training and the clock.                                         *)

\* What the invariants say about the samples.
LEMMA SamplesTyped ==
    ASSUME SamplesTrue, TrainTypes
    PROVE  /\ trained \in Seq(Sample) /\ buffer \in Seq(Sample) /\ version \in Nat
           /\ Collected \in Seq(Sample) /\ elapsed \in Nat /\ epoch \in Nat
           /\ pending => buffer # <<>> /\ phase = "train"
<1>1. trained \in Seq(Sample) /\ buffer \in Seq(Sample) /\ version \in Nat
  BY DEF SamplesTrue, Accounted
<1>2. Collected \in Seq(Sample)
  BY <1>1, ConcatProperties DEF Collected
<1>3. elapsed \in Nat /\ epoch \in Nat
  BY TrainingAssumption DEF TrainTypes
<1> QED
  BY <1>1, <1>2, <1>3 DEF SamplesTrue

\* A decision, or the end of the epoch, settles the sample that waits.
LEMMA WaitingSettled ==
    ASSUME SamplesTrue, TrainTypes, NEW n, Walk(Collected, n), pending,
           Waits(buffer[Len(buffer)]), BatchesDone \in Nat,
           NEW x \in {"next", "end"}, NEW g \in Nat, NEW s,
           s = WithNext(buffer, x, g),
           UpdateAgent(s) \/ (buffer' = s /\ UNCHANGED trained)
    PROVE  /\ Walk(Collected', n) /\ Collected' # <<>>
           /\ x = "next" /\ g = elapsed => Leads(Collected'[Len(Collected')], epoch, BatchesDone + 1, n)
           /\ x = "end" /\ BatchesDone = n => Ends(Collected'[Len(Collected')], epoch, n)
<1>1. PICK b : b = buffer /\ b \in Seq(Sample) /\ b # <<>>
  BY SamplesTyped
<1>2. PICK y, z : y = s[Len(b)] /\ z = b[Len(b)]
  OBVIOUS
<1>3. /\ EditedLast(s, b) /\ y.id = z.id /\ y.batch = z.batch
      /\ y.credits = z.credits /\ y.next = x /\ y.gap = g
  <2>1. x \in {"next", "own", "end"}
    OBVIOUS
  <2>2. s = WithNext(b, x, g)
    BY <1>1, Zenon
  <2> QED
    BY <1>1, <1>2, <2>1, <2>2, LastNext
<1>4. /\ Collected' \in Seq(Sample) /\ Len(Collected') = Len(Collected) /\ Len(Collected) >= 1
      /\ Len(Collected) \in Nat
      /\ \A i \in 1 .. Len(Collected) - 1 : Twin(Collected'[i], Collected[i])
      /\ Twin(Collected'[Len(Collected)], y)
      /\ Collected[Len(Collected)] = b[Len(b)]
  <2>1. trained \in Seq(Sample) /\ version \in Nat
    BY SamplesTyped
  <2>2. UpdateAgent(s) \/ (buffer' = s /\ UNCHANGED trained)
    OBVIOUS
  <2>3. b = buffer /\ b \in Seq(Sample) /\ b # <<>> /\ EditedLast(s, b) /\ y = s[Len(b)]
    BY <1>1, <1>2, <1>3
  <2> HIDE DEF UpdateAgent
  <2> QED
    BY <2>1, <2>2, <2>3, CollectedEdited
<1>5. PICK u, v : u = Collected /\ v = Collected'
  OBVIOUS
<1>6. PICK l \in Nat : l = Len(u)
  BY <1>4, <1>5
<1>7. Fits(u[l], n) /\ u[l] = z
  BY <1>2, <1>4, <1>5, <1>6 DEF Walk
<1>8. Fits(y, n)
  BY <1>7, <1>3, FitsAlike
<1>9. Walk(v, n)
  BY <1>2, <1>4, <1>5, <1>6, <1>8, <1>3, WalkEdited
<1>10. v # <<>> /\ Len(v) = l /\ Twin(v[l], y)
  BY <1>4, <1>5, <1>6
<1>11. y.id[1] = epoch /\ elapsed = Len(y.credits) /\ y.batch + elapsed = BatchesDone + 1
  BY <1>1, <1>2, <1>3 DEF Waits
<1>12. ASSUME x = "next", g = elapsed PROVE Leads(v[l], epoch, BatchesDone + 1, n)
  <2>1. Leads(y, epoch, BatchesDone + 1, n)
    BY <1>11, <1>12, <1>3 DEF Leads
  <2> QED
    BY <1>10, <2>1, TwinsLead
<1>13. ASSUME x = "end", BatchesDone = n PROVE Ends(v[l], epoch, n)
  <2>1. Ends(y, epoch, n)
    BY <1>11, <1>13, <1>3 DEF Ends
  <2> QED
    BY <1>10, <2>1, TwinsLead
<1> QED
  BY <1>5, <1>6, <1>9, <1>10, <1>12, <1>13

\* A placement.
LEMMA PlaceClock ==
    ASSUME EnvTypeOK, TrainTypes, SamplesTrue, ClockTrue, NEW output, TrainPlace(output)
    PROVE  ClockTrue'
<1>1. /\ phase = "train" /\ step = "place" /\ phase' = "train" /\ step' = "place"
      /\ args' = args /\ epoch' = epoch
      /\ (V3 /\ before_decision) \/ (~V3 /\ UNCHANGED rolloutVars)
      /\ \E c : actions' = Append(actions, c)
  BY TrainPlaceIs
<1>2. UNCHANGED <<txs, config, cursor, batch_id, step>>
  BY DEF TrainPlace, Place
<1>3. V3' = V3
  BY <1>1 DEF V3
<1>4. SUFFICES ASSUME V3
               PROVE  /\ CursorTrue' /\ Walk(Collected', EpochBatches')
                      /\ ~pending'
                      /\ Opens(Collected', epoch', BatchesDone' + 1, EpochBatches')
                      /\ actions' # <<>>
  BY <1>1, <1>3 DEF ClockTrue
<1>5. /\ CursorTrue /\ Walk(Collected, EpochBatches)
      /\ IF pending THEN Waits(buffer[Len(buffer)])
         ELSE Opens(Collected, epoch, BatchesDone + 1, EpochBatches)
  BY <1>1, <1>4 DEF ClockTrue
<1>6. CursorTrue' /\ BatchesDone' = BatchesDone /\ EpochBatches' = EpochBatches
  BY <1>2, <1>5, CursorRests
<1>7. actions' # <<>>
  <2>1. PICK R, c : actions \in Seq(R) /\ actions' = Append(actions, c)
    BY <1>1 DEF EnvTypeOK
  <2> QED
    BY <2>1
<1>8. CASE ~pending
  <2>1. UNCHANGED <<buffer, trained, pending>>
    BY <1>1, <1>4, <1>8 DEF before_decision, rolloutVars
  <2>2. Collected' = Collected
    BY <2>1 DEF Collected
  <2> QED
    BY <1>1, <1>5, <1>6, <1>7, <1>8, <2>1, <2>2
<1>9. CASE pending
  <2>1. PICK s : s = WithNext(buffer, "next", elapsed) /\ s = Settled
    BY DEF WithNext, Settled
  <2>2. ~pending' /\ (UpdateAgent(s) \/ (buffer' = s /\ UNCHANGED trained))
    BY <1>1, <1>4, <1>9, <2>1 DEF before_decision
  <2>3. /\ Walk(Collected', EpochBatches) /\ Collected' # <<>>
        /\ Leads(Collected'[Len(Collected')], epoch, BatchesDone + 1, EpochBatches)
    <3>1. PICK n : n = EpochBatches
      OBVIOUS
    <3>2. BatchesDone \in Nat /\ elapsed \in Nat
      BY <1>5, DoneType, SamplesTyped
    <3>3. "next" \in {"next", "end"}
      OBVIOUS
    <3>4. /\ Walk(Collected', n) /\ Collected' # <<>>
          /\ Leads(Collected'[Len(Collected')], epoch, BatchesDone + 1, n)
      BY <1>5, <1>9, <2>1, <2>2, <3>1, <3>2, <3>3, WaitingSettled
    <3> QED
      BY <3>1, <3>4
  <2>4. Opens(Collected', epoch, BatchesDone + 1, EpochBatches)
    BY <2>3 DEF Opens
  <2> QED
    BY <1>1, <1>6, <1>7, <2>2, <2>3, <2>4
<1> QED
  BY <1>8, <1>9

\* One more reward, of the next batch.
LEMMA FitsPaid ==
    ASSUME NEW z \in Sample, NEW n \in Nat, Fits(z, n), NEW y, NEW c \in [batch : Nat, power : Nat],
           y.batch = z.batch, y.credits = Credited(z.credits, c),
           c.batch = z.batch + Len(z.credits), c.power = Len(z.credits),
           z.batch + Len(z.credits) <= n
    PROVE  Fits(y, n) /\ Len(y.credits) = Len(z.credits) + 1
<1>1. PICK q : q = z.credits
  OBVIOUS
<1>2. PICK l \in Nat, b \in Nat : q = z.credits /\ l = Len(q) /\ b = z.batch
  BY <1>1, SampleIs
<1>3. q \in Seq([batch : Nat, power : Nat])
  BY <1>2, SampleIs
<1>4. PICK p : p = Append(q, c)
  OBVIOUS
<1>5. Len(p) = l + 1 /\ p[l + 1] = c /\ \A k \in 1 .. l : p[k] = q[k]
  BY <1>2, <1>3, <1>4
<1>6. y.credits = p /\ y.batch = b /\ b >= 1 /\ b + l <= n /\ c.batch = b + l /\ c.power = l
  BY <1>2, <1>4 DEF Fits, Credited
<1>7. \A k \in 1 .. l : q[k].batch = b + k - 1 /\ q[k].power = k - 1
  BY <1>2 DEF Fits
<1>8. ASSUME NEW k \in 1 .. l + 1 PROVE p[k].batch = b + k - 1 /\ p[k].power = k - 1
  <2>1. CASE k = l + 1
    BY <1>5, <1>6, <2>1
  <2>2. CASE k # l + 1
    <3>1. k \in 1 .. l
      BY <2>2
    <3> QED
      BY <1>5, <1>7, <3>1
  <2> QED
    BY <2>1, <2>2
<1>9. Fits(y, n)
  BY <1>5, <1>6, <1>8 DEF Fits
<1> QED
  BY <1>2, <1>5, <1>6, <1>9

\* A batch without decisions pays the sample that waits.
LEMMA WaitingPaid ==
    ASSUME EnvTypeOK, SamplesTrue, TrainTypes, NEW n \in Nat, Walk(Collected, n), pending,
           Waits(buffer[Len(buffer)]), batch_id = BatchesDone + 1, BatchesDone \in Nat,
           batch_id <= n, UNCHANGED trained,
           NEW s, s = WithCredit(buffer, [batch |-> batch_id, power |-> elapsed]), buffer' = s
    PROVE  /\ Walk(Collected', n) /\ s \in Seq(Sample) /\ s # <<>>
           /\ LET y == s[Len(s)] IN /\ y.id[1] = epoch /\ Len(y.credits) = elapsed + 1
                                    /\ y.batch + elapsed = batch_id
<1>1. PICK b : b = buffer /\ b \in Seq(Sample) /\ b # <<>>
  BY SamplesTyped
<1>2. PICK y, z : y = s[Len(b)] /\ z = b[Len(b)]
  OBVIOUS
<1>3. PICK c \in [batch : Nat, power : Nat] : c = [batch |-> batch_id, power |-> elapsed]
  BY SamplesTyped DEF EnvTypeOK
<1>4. EditedLast(s, b) /\ y.id = z.id /\ y.batch = z.batch /\ y.credits = Credited(z.credits, c)
  <2>1. PICK t : t = WithCredit(b, c)
    OBVIOUS
  <2>2. t = s
    BY <1>1, <1>3, <2>1, Zenon
  <2>3. b \in Seq(Sample) /\ b # <<>> /\ y = t[Len(b)] /\ z = b[Len(b)]
    BY <1>1, <1>2, <2>2
  <2>4. EditedLast(t, b) /\ y.id = z.id /\ y.batch = z.batch
        /\ y.credits = Credited(z.credits, c)
    BY <1>3, <2>1, <2>3, LastPaid
  <2> QED
    BY <2>2, <2>4
<1>5. /\ Collected' \in Seq(Sample) /\ Len(Collected') = Len(Collected) /\ Len(Collected) >= 1
      /\ Len(Collected) \in Nat
      /\ \A i \in 1 .. Len(Collected) - 1 : Twin(Collected'[i], Collected[i])
      /\ Twin(Collected'[Len(Collected)], y)
      /\ Collected[Len(Collected)] = z
  <2>1. trained \in Seq(Sample) /\ version \in Nat
    BY SamplesTyped
  <2>2. UpdateAgent(s) \/ (buffer' = s /\ UNCHANGED trained)
    OBVIOUS
  <2>3. b = buffer /\ b \in Seq(Sample) /\ b # <<>> /\ EditedLast(s, b) /\ y = s[Len(b)]
    BY <1>1, <1>2, <1>4
  <2> QED
    BY <1>2, <2>1, <2>2, <2>3, CollectedEdited
<1>6. PICK u, v : u = Collected /\ v = Collected'
  OBVIOUS
<1>7. PICK l \in Nat : l = Len(u)
  BY <1>5, <1>6
<1>8. z \in Sample /\ Fits(z, n)
  <2>1. u[l] = z /\ l \in 1 .. l /\ u \in Seq(Sample)
    BY <1>5, <1>6, <1>7, SamplesTyped
  <2> QED
    BY <1>6, <1>7, <2>1 DEF Walk
<1>9. /\ z.id[1] = epoch /\ elapsed = Len(z.credits) /\ z.batch + elapsed = batch_id
      /\ c.batch = batch_id /\ c.power = elapsed
  BY <1>1, <1>2, <1>3 DEF Waits
<1>10. Fits(y, n) /\ Len(y.credits) = elapsed + 1
  BY <1>4, <1>8, <1>9, FitsPaid
<1>11. Walk(v, n)
  BY <1>4, <1>5, <1>6, <1>7, <1>10, WalkEdited
<1>12. s[Len(s)] = y /\ s \in Seq(Sample) /\ s # <<>>
  BY <1>1, <1>2, <1>4 DEF EditedLast
<1> QED
  BY <1>4, <1>6, <1>7, <1>9, <1>10, <1>11, <1>12

\* The end of a batch.
LEMMA EndBatchClock ==
    ASSUME EnvTypeOK, TrainTypes, SamplesTrue, ClockTrue, TrainEndBatch, phase' # "stranded"
    PROVE  ClockTrue'
<1>1. /\ phase = "train" /\ EndBatch /\ step = "place" /\ step' = "idle" /\ actions' = actions
      /\ args' = args /\ epoch' = epoch
      /\ V3 => add_batch /\ UNCHANGED <<version, trained>>
  BY DEF TrainEndBatch, EndBatch
<1>2. V3' = V3
  BY <1>1 DEF V3
<1>3. phase' = "train"
  BY <1>1 DEF TrainEndBatch, add_batch
<1>4. SUFFICES ASSUME V3
               PROVE  /\ CursorTrue' /\ Walk(Collected', EpochBatches')
                      /\ pending' /\ Waits(buffer[Len(buffer)])'
  BY <1>2, <1>3 DEF ClockTrue
<1>5. /\ CursorTrue /\ Walk(Collected, EpochBatches)
      /\ IF pending THEN Waits(buffer[Len(buffer)])
         ELSE Opens(Collected, epoch, BatchesDone + 1, EpochBatches)
  BY <1>1, <1>4 DEF ClockTrue
<1>6. PICK n \in Nat : n = EpochBatches
  BY EpochType
<1>7. /\ CursorTrue' /\ EpochBatches' = n /\ BatchesDone' = batch_id /\ batch_id <= n
      /\ batch_id = BatchesDone + 1 /\ BatchesDone \in Nat
  BY <1>1, <1>5, <1>6, CursorEnds, DoneType
<1>8. CASE actions = <<>>
  <2>1. pending
    BY <1>1, <1>3, <1>4, <1>8 DEF add_batch
  <2>2. PICK s : s = WithCredit(buffer, [batch |-> batch_id, power |-> elapsed])
    OBVIOUS
  <2>3. buffer' = s /\ elapsed' = elapsed + 1 /\ pending' = pending /\ UNCHANGED trained
    BY <1>1, <1>4, <1>8, <2>1, <2>2 DEF add_batch, WithCredit, NextElapsed
  <2>4. /\ Walk(Collected', n) /\ s \in Seq(Sample) /\ s # <<>>
        /\ LET y == s[Len(s)] IN /\ y.id[1] = epoch /\ Len(y.credits) = elapsed + 1
                                 /\ y.batch + elapsed = batch_id
    BY <1>5, <1>6, <1>7, <2>1, <2>2, <2>3, WaitingPaid
  <2>5. PICK y : y = s[Len(s)]
    OBVIOUS
  <2>6. y.id[1] = epoch /\ Len(y.credits) = elapsed + 1 /\ y.batch + elapsed = batch_id
    BY <2>4, <2>5
  <2>7. y = buffer'[Len(buffer')]
    BY <2>3, <2>5
  <2>8. y.batch \in Nat /\ elapsed \in Nat
    <3>1. y \in Sample
      BY <2>4, <2>5
    <3> QED
      BY <3>1, SampleIs, SamplesTyped
  <2>9. y.id[1] = epoch' /\ elapsed' = Len(y.credits) /\ y.batch + elapsed' = BatchesDone' + 1
    BY <1>1, <1>7, <2>3, <2>6, <2>8
  <2>10. Waits(buffer[Len(buffer)])'
    BY <2>7, <2>9 DEF Waits
  <2> QED
    BY <1>6, <1>7, <2>1, <2>3, <2>4, <2>10
<1>9. CASE actions # <<>>
  <2>1. ~pending
    BY <1>1, <1>9 DEF SamplesTrue
  <2>2. PICK s : s = BatchSamples({Len(actions)}, 0, "own")
    OBVIOUS
  <2>3. buffer' = buffer \o s /\ elapsed' = 1 /\ pending' /\ UNCHANGED trained
    BY <1>1, <1>4, <1>9, <2>2 DEF add_batch
  <2>4. BatchOf(s, epoch, batch_id)
    BY <1>9, <2>2, SamplesTyped, BatchSamplesJoin
  <2>5. Walk(Collected \o s, n)
    <3>1. batch_id \in 1 .. n
      BY <1>7
    <3>2. Opens(Collected, epoch, batch_id, n) /\ Walk(Collected, n) /\ epoch \in Nat
      BY <1>5, <1>6, <1>7, <2>1, SamplesTyped
    <3> QED
      BY <2>4, <3>1, <3>2, WalkJoined
  <2>6. PICK p, b : p = trained /\ b = buffer /\ p \in Seq(Sample) /\ b \in Seq(Sample)
    BY SamplesTyped
  <2>7. s \in Seq(Sample) /\ s # <<>>
    BY <2>4 DEF BatchOf
  <2>8. p \o (b \o s) = (p \o b) \o s
    BY <2>6, <2>7, ConcatAssociative
  <2>9. Collected' = Collected \o s
    BY <2>3, <2>6, <2>8 DEF Collected
  <2>10. PICK l \in Nat : l = Len(s) /\ l >= 1
    BY <2>7
  <2>11. PICK y : y = s[l]
    OBVIOUS
  <2>12. PICK k \in Nat : k = Len(b)
    BY <2>6
  <2>13. PICK u : u = b \o s
    OBVIOUS
  <2>14. Len(u) = k + l /\ u[k + l] = y
    BY <2>6, <2>7, <2>10, <2>11, <2>12, <2>13, SamplesJoined
  <2>15. y.id[1] = epoch /\ y.batch = batch_id /\ y.credits = <<[batch |-> batch_id, power |-> 0]>>
    BY <2>4, <2>10, <2>11 DEF BatchOf
  <2>16. PICK c : c = y.credits /\ Len(c) = 1
    BY <2>15
  <2>17. y = buffer'[Len(buffer')]
    BY <2>3, <2>6, <2>12, <2>13, <2>14
  <2>18. y.id[1] = epoch' /\ elapsed' = Len(y.credits) /\ y.batch + elapsed' = BatchesDone' + 1
    BY <1>1, <1>7, <2>3, <2>15, <2>16
  <2>19. Waits(buffer[Len(buffer)])'
    BY <2>17, <2>18 DEF Waits
  <2> QED
    BY <1>6, <1>7, <2>3, <2>5, <2>9, <2>19
<1> QED
  BY <1>8, <1>9

\* A window that is not refused is not empty.
LEMMA WindowSome ==
    ASSUME NEW identity, NEW data, NEW start, NEW max,
           LoadWindow(identity, data, start, max).ok
    PROVE  LoadWindow(identity, data, start, max).txs # <<>>
<1>1. PICK w : w = LoadWindow(identity, data, start, max)
  OBVIOUS
<1>2. PICK result : result = CASE identity = "raw"    -> load_transactions(data, start, max)
                               [] identity = "iot"    -> load_iot(data, start, max)
                               [] identity = "iot_v2" -> load_rows(data, start, max)
  OBVIOUS
<1>3. w = IF \/ result.txs = <<>>
             \/ max > 0 /\ Len(result.txs) # max
          THEN Refused ELSE result
  BY <1>1, <1>2 DEF LoadWindow
<1>4. w.ok
  BY <1>1
<1> QED
  BY <1>1, <1>3, <1>4 DEF Refused

\* A batch begins.
LEMMA BeginClock ==
    ASSUME EnvTypeOK, ClockTrue, TrainBeginBatch
    PROVE  ClockTrue'
<1>1. /\ phase = "train" /\ BeginBatch /\ step = "idle" /\ step' = "place"
      /\ UNCHANGED <<args, phase, epoch, buffer, trained, pending, elapsed>>
  BY DEF TrainBeginBatch, BeginBatch, trainVars, rolloutVars
<1>2. V3' = V3 /\ Collected' = Collected
  BY <1>1 DEF V3, Collected
<1>3. SUFFICES ASSUME V3
               PROVE  /\ CursorTrue' /\ Walk(Collected', EpochBatches')
                      /\ IF pending' THEN Waits(buffer[Len(buffer)])'
                         ELSE /\ Opens(Collected', epoch', BatchesDone' + 1, EpochBatches')
                              /\ BatchesDone' = 0
  BY <1>1, <1>2 DEF ClockTrue
<1>4. /\ CursorTrue /\ Walk(Collected, EpochBatches)
      /\ IF pending THEN Waits(buffer[Len(buffer)])
         ELSE Opens(Collected, epoch, BatchesDone + 1, EpochBatches) /\ BatchesDone = 0
  BY <1>1, <1>3 DEF ClockTrue
<1>5. CursorTrue' /\ BatchesDone' = BatchesDone /\ EpochBatches' = EpochBatches
  BY <1>1, <1>4, CursorBegins
<1>6. pending => Waits(buffer[Len(buffer)])'
  BY <1>1, <1>4, <1>5 DEF Waits
<1> QED
  BY <1>1, <1>2, <1>4, <1>5, <1>6

\* The end of an epoch comes after all its batches, with a sample that waits.
LEMMA EpochIsComplete ==
    ASSUME EnvTypeOK, TrainTypes, SamplesTrue, ClockTrue, V3, phase = "train", step = "idle",
           cursor = Len(txs), txs # <<>>
    PROVE  pending /\ BatchesDone = EpochBatches
<1>1. /\ CursorTrue /\ Walk(Collected, EpochBatches)
      /\ IF pending THEN Waits(buffer[Len(buffer)]) ELSE BatchesDone = 0
  BY DEF ClockTrue
<1>2. PICK n \in Nat, m \in Nat : n = EpochBatches /\ m = Len(txs) /\ m # 0
  <2>1. txs \in Seq(Tx)
    BY DEF EnvTypeOK
  <2> QED
    BY <2>1, EpochType
<1>3. PICK d \in Nat : d = BatchesDone /\ d >= n
  BY <1>1, <1>2, DoneType
<1>4. n # 0
  <2>1. 0 * TxBatchSize < Len(txs) <=> 0 < EpochBatches
    BY EpochType
  <2>2. 0 * TxBatchSize = 0
    BY EpochType
  <2> QED
    BY <1>2, <2>1, <2>2
<1>5. pending
  BY <1>1, <1>3, <1>4
<1>6. d <= n
  <2>1. PICK p, b : p = trained /\ b = buffer /\ p \in Seq(Sample) /\ b \in Seq(Sample) /\ b # <<>>
    BY <1>5, SamplesTyped
  <2>2. PICK u : u = p \o b
    OBVIOUS
  <2>3. PICK k \in Nat, l \in Nat : k = Len(p) /\ l = Len(b) /\ l >= 1
    BY <2>1
  <2>4. Len(u) = k + l /\ u[k + l] = b[l]
    BY <2>1, <2>2, <2>3, SamplesJoined
  <2>5. PICK z : z = b[l] /\ z \in Sample
    BY <2>1, <2>3
  <2>6. Fits(z, n)
    <3>1. Walk(u, n)
      BY <1>1, <1>2, <2>1, <2>2 DEF Collected
    <3> QED
      BY <2>3, <2>4, <2>5, <3>1 DEF Walk
  <2>7. elapsed = Len(z.credits) /\ z.batch + elapsed = d + 1
    BY <1>1, <1>3, <1>5, <2>1, <2>3, <2>5 DEF Waits
  <2>8. z.batch + Len(z.credits) <= n + 1
    BY <2>6 DEF Fits
  <2> QED
    BY <2>7, <2>8
<1> QED
  BY <1>2, <1>3, <1>5, <1>6

\* The end of an epoch.
LEMMA FinishEpochClock ==
    ASSUME EnvTypeOK, TrainTypes, SamplesTrue, SamplesTrue', ClockTrue, WindowsTrue, FinishEpoch
    PROVE  ClockTrue'
<1>1. /\ phase = "train" /\ step = "idle" /\ cursor = Len(txs) /\ phase' = "validate"
      /\ UNCHANGED <<txs, config, cursor, batch_id, step, args, epoch, elapsed>>
  BY DEF FinishEpoch, envVars, stateVars, batchVars
<1>2. V3' = V3
  BY <1>1 DEF V3
<1>3. SUFFICES ASSUME V3
               PROVE  /\ CursorTrue' /\ Walk(Collected', EpochBatches')
                      /\ buffer' = <<>> /\ trained' # <<>> /\ BatchesDone' = EpochBatches'
                      /\ Ends(trained'[Len(trained')], epoch', EpochBatches')
  BY <1>1, <1>2 DEF ClockTrue
<1>4. txs # <<>>
  <2>1. Prepared(args) /\ txs = LoadWindow(args.settings.identity, args.data, args.start, args.max).txs
    BY <1>1 DEF WindowsTrue
  <2>2. LoadWindow(args.settings.identity, args.data, args.start, args.max).ok
    BY <2>1 DEF Prepared
  <2> QED
    BY <2>1, <2>2, WindowSome, Zenon
<1>5. pending /\ BatchesDone = EpochBatches
  BY <1>1, <1>3, <1>4, EpochIsComplete
<1>6. CursorTrue /\ Walk(Collected, EpochBatches) /\ Waits(buffer[Len(buffer)])
  BY <1>1, <1>3, <1>5 DEF ClockTrue
<1>7. CursorTrue' /\ BatchesDone' = BatchesDone /\ EpochBatches' = EpochBatches
  BY <1>1, <1>6, CursorRests
<1>8. PICK n : n = EpochBatches
  OBVIOUS
<1>9. PICK s : s = WithNext(buffer, "end", 0)
  OBVIOUS
<1>10. UpdateAgent(s) /\ buffer' = <<>>
  <2>1. buffer # <<>>
    BY <1>5, SamplesTyped
  <2>2. UpdateAgent(WithNext(buffer, "end", 0))
    BY <1>3, <2>1 DEF FinishEpoch, WithNext
  <2> QED
    BY <1>9, <2>2 DEF UpdateAgent
<1>11. /\ Walk(Collected', n) /\ Collected' # <<>>
       /\ Ends(Collected'[Len(Collected')], epoch, n)
  <2>1. BatchesDone \in Nat /\ BatchesDone = n /\ Walk(Collected, n)
    BY <1>5, <1>6, <1>8, DoneType
  <2>2. "end" \in {"next", "end"} /\ 0 \in Nat
    OBVIOUS
  <2> HIDE DEF UpdateAgent
  <2> QED
    BY <1>5, <1>6, <1>9, <1>10, <2>1, <2>2, WaitingSettled
<1>12. Collected' = trained'
  <2>1. trained' \in Seq(Sample)
    BY DEF SamplesTrue, Accounted
  <2> QED
    BY <1>10, <2>1, ConcatEmptySeq, Zenon DEF Collected
<1> QED
  BY <1>1, <1>5, <1>7, <1>8, <1>10, <1>11, <1>12

\* After an epoch nothing moves until the next one.
LEMMA RestClock ==
    ASSUME ClockTrue, phase \in {"validate", "epoch_done"}, phase' \in {"epoch_done", "trained"},
           UNCHANGED <<txs, config, cursor, batch_id, step, args, epoch, buffer, trained>>
    PROVE  ClockTrue'
<1>1. V3' = V3 /\ Collected' = Collected
  BY DEF V3, Collected
<1>2. /\ CursorTrue' <=> CursorTrue
      /\ BatchesDone' = BatchesDone /\ EpochBatches' = EpochBatches
  BY CursorRests
<1> QED
  BY <1>1, <1>2 DEF ClockTrue

\* Validation, and the end of training with nothing left to train.
LEMMA AfterEpochClock ==
    ASSUME ClockTrue,
           (\E m \in Metrics : Validate(m)) \/ (\E m \in Metrics : FinishTraining(m))
    PROVE  ClockTrue'
<1>1. CASE \E m \in Metrics : Validate(m)
  <2>1. /\ phase = "validate" /\ phase' = "epoch_done"
        /\ UNCHANGED <<txs, config, cursor, batch_id, step, args, epoch, buffer, trained>>
    BY <1>1 DEF Validate, envVars, stateVars, batchVars, rolloutVars
  <2> QED
    BY <2>1, RestClock
<1>2. CASE \E m \in Metrics : FinishTraining(m)
  <2>1. PICK m \in Metrics : FinishTraining(m)
    BY <1>2
  <2>2. /\ phase = "epoch_done" /\ phase' = "trained"
        /\ UNCHANGED <<txs, config, cursor, batch_id, step, args, epoch>>
        /\ buffer = <<>> => UNCHANGED <<trained, buffer>>
    BY <2>1 DEF FinishTraining, envVars, stateVars, batchVars
  <2>3. CASE V3
    <3>1. buffer = <<>>
      BY <2>2, <2>3 DEF ClockTrue
    <3> QED
      BY <2>2, <3>1, RestClock
  <2>4. CASE ~V3
    <3>1. ~V3'
      BY <2>2, <2>4 DEF V3
    <3> QED
      BY <2>2, <3>1 DEF ClockTrue
  <2> QED
    BY <2>3, <2>4
<1> QED
  BY <1>1, <1>2

\* The next epoch, in a reset environment: mechanism v3 does not keep the placement.
LEMMA NextEpochClock ==
    ASSUME EnvTypeOK', TrainTypes, SamplesTrue, FirstBatchDecides, ClockTrue, NextEpoch
    PROVE  ClockTrue'
<1>1. /\ phase = "epoch_done" /\ phase' = "train" /\ epoch' = epoch + 1
      /\ NewPass(config, txs, ~args.keep_placement)
      /\ UNCHANGED <<args, buffer, trained, pending>>
  BY DEF NextEpoch, rolloutVars
<1>2. V3' = V3 /\ Collected' = Collected
  BY <1>1 DEF V3, Collected
<1>3. SUFFICES ASSUME V3
               PROVE  /\ CursorTrue' /\ Walk(Collected', EpochBatches') /\ ~pending'
                      /\ Opens(Collected', epoch', BatchesDone' + 1, EpochBatches')
                      /\ BatchesDone' = 0
  BY <1>1, <1>2 DEF ClockTrue
<1>4. /\ Walk(Collected, EpochBatches) /\ buffer = <<>> /\ trained # <<>>
      /\ Ends(trained[Len(trained)], epoch, EpochBatches)
  BY <1>1, <1>3 DEF ClockTrue
<1>5. ~args.keep_placement
  BY <1>1, <1>3 DEF FirstBatchDecides, validate_args, V3
<1>6. NewPass(config, txs, TRUE)
  BY <1>1, <1>5
<1>7. CursorTrue' /\ BatchesDone' = 0
  BY <1>6, CursorResets
<1>8. EpochBatches' = EpochBatches
  BY <1>1 DEF NewPass, EpochBatches, TxBatchSize
<1>9. ~pending'
  BY <1>1 DEF SamplesTrue
<1>10. Collected = trained
  <2>1. trained \in Seq(Sample)
    BY SamplesTyped
  <2> QED
    BY <1>4, <2>1, ConcatEmptySeq, Zenon DEF Collected
<1>11. epoch' - 1 = epoch
  BY <1>1, SamplesTyped
<1>12. Opens(Collected', epoch', 1, EpochBatches')
  BY <1>2, <1>4, <1>8, <1>10, <1>11 DEF Opens, Leads
<1> QED
  BY <1>2, <1>4, <1>7, <1>8, <1>9, <1>12

\* The first epoch.
LEMMA StartClock ==
    ASSUME EnvTypeOK', SamplesTrue, ClockTrue, StartTraining
    PROVE  ClockTrue'
<1>1. /\ phase = "start" /\ phase' \in {"train", "refused"}
      /\ UNCHANGED <<args, buffer, trained, pending>>
  BY DEF StartTraining, rolloutVars
<1>2. trained = <<>> /\ buffer = <<>> /\ ~pending
  BY <1>1 DEF ClockTrue, SamplesTrue
<1>3. CASE phase' = "refused"
  BY <1>3 DEF ClockTrue
<1>4. CASE phase' = "train"
  <2>1. PICK w : epoch' = 1 /\ NewPass(args.settings, w, TRUE)
    BY <1>4 DEF StartTraining
  <2>2. CursorTrue' /\ BatchesDone' = 0
    BY <2>1, CursorResets
  <2>3. Collected' = <<>>
    BY <1>1, <1>2 DEF Collected
  <2>4. Walk(Collected', EpochBatches') /\ Opens(Collected', epoch', BatchesDone' + 1, EpochBatches')
    BY <2>1, <2>2, <2>3 DEF Walk, Opens
  <2> QED
    BY <1>1, <1>2, <1>4, <2>2, <2>4 DEF ClockTrue
<1> QED
  BY <1>1, <1>3, <1>4

\* The clock is true after every step.
LEMMA ClockStays ==
    ASSUME EnvTypeOK, EnvTypeOK', TrainInv, TrainInv', WindowsTrue, ClockTrue, TrainingNext
    PROVE  ClockTrue'
<1>1. /\ TrainTypes /\ SamplesTrue /\ SamplesTrue' /\ FirstBatchDecides
      /\ phase' # "stranded"
  BY DEF TrainInv, FirstBatchDecides
<1>2. CASE StartTraining
  BY <1>1, <1>2, StartClock
<1>3. CASE TrainBeginBatch
  BY <1>3, BeginClock
<1>4. CASE \E output \in Shard : TrainPlace(output)
  BY <1>1, <1>4, PlaceClock
<1>5. CASE TrainEndBatch
  BY <1>1, <1>5, EndBatchClock
<1>6. CASE FinishEpoch
  BY <1>1, <1>6, FinishEpochClock
<1>7. CASE (\E m \in Metrics : Validate(m)) \/ (\E m \in Metrics : FinishTraining(m))
  BY <1>7, AfterEpochClock
<1>8. CASE NextEpoch
  BY <1>1, <1>8, NextEpochClock
<1>9. CASE \/ SelectCheckpoint \/ \E p \in Policies : StartEvaluation(p)
           \/ EvaluateStep \/ FinishEvaluation
  <2>1. phase' \in {"rejected", "selected", "refused", "evaluate", "done"}
    BY <1>9 DEF SelectCheckpoint, StartEvaluation, EvaluateStep, FinishEvaluation, trainVars
  <2> QED
    BY <2>1 DEF ClockTrue
<1> QED
  BY <1>2, <1>3, <1>4, <1>5, <1>6, <1>7, <1>8, <1>9 DEF TrainingNext

\* Stuttering.
LEMMA ClockRests == ASSUME ClockTrue, UNCHANGED vars PROVE ClockTrue'
<1>1. UNCHANGED <<txs, config, cursor, batch_id, step, actions, args, phase, epoch, buffer,
                  pending, elapsed, trained>>
  BY DEF vars, envVars, stateVars, batchVars, trainVars, rolloutVars
<1>2. V3' = V3 /\ Collected' = Collected
  BY <1>1 DEF V3, Collected
<1>3. /\ CursorTrue' <=> CursorTrue
      /\ BatchesDone' = BatchesDone /\ EpochBatches' = EpochBatches
  BY <1>1, CursorRests
<1>4. Waits(buffer[Len(buffer)])' <=> Waits(buffer[Len(buffer)])
  BY <1>1, <1>3 DEF Waits
<1> QED
  BY <1>1, <1>2, <1>3, <1>4 DEF ClockTrue

\* The invariants of training together.
LEMMA ClockInvariant == TrainingSpec => [](EnvInv /\ TrainInv /\ ClockTrue)
<1>1. TrainingInit => ClockTrue
  BY DEF TrainingInit, ClockTrue
<1>2. /\ EnvInv /\ EnvInv' /\ TrainInv /\ TrainInv' /\ WindowsTrue /\ ClockTrue
      /\ [TrainingNext]_vars
      => ClockTrue'
  <2> SUFFICES ASSUME EnvInv, EnvInv', TrainInv, TrainInv', WindowsTrue, ClockTrue,
                      [TrainingNext]_vars
               PROVE  ClockTrue'
    OBVIOUS
  <2>1. EnvTypeOK /\ EnvTypeOK'
    BY DEF EnvInv
  <2>2. CASE TrainingNext
    BY <2>1, <2>2, ClockStays
  <2>3. CASE UNCHANGED vars
    BY <2>3, ClockRests
  <2> QED
    BY <2>2, <2>3
<1> QED
  BY <1>1, <1>2, TrainInvariant, WindowsInvariant, PTL DEF TrainingSpec

\* The samples reach up to the last batch executed.
LEMMA SamplesReach ==
    ASSUME EnvTypeOK, TrainTypes, SamplesTrue, ClockTrue, V3,
           phase \in {"train", "validate", "epoch_done", "trained"},
           NEW all, all = Collected, NEW last, last = all[Len(all)],
           NEW n, n = EpochBatches, NEW d, d = BatchesDone
    PROVE  \/ all = <<>> /\ epoch = 1 /\ d = 0
           \/ /\ all # <<>> /\ d \in 0 .. n
              /\ last.id[1] * n + last.batch + Len(last.credits) = epoch * n + d + 1
<1>1. /\ CursorTrue /\ Walk(all, n) /\ n \in Nat /\ d \in Nat /\ epoch \in Nat
      /\ all \in Seq(Sample)
  BY EpochType, DoneType, SamplesTyped DEF ClockTrue
<1>2. all # <<>> => last \in Sample /\ Fits(last, n)
  BY <1>1 DEF Walk
<1>3. ASSUME all # <<>>, last.id[1] = epoch, last.batch + Len(last.credits) = d + 1
      PROVE  /\ d \in 0 .. n
             /\ last.id[1] * n + last.batch + Len(last.credits) = epoch * n + d + 1
  <2>1. PICK b \in Nat, c \in Nat : b = last.batch /\ c = Len(last.credits) /\ b + c <= n + 1
    BY <1>2, <1>3, SampleIs DEF Fits
  <2>2. PICK q \in Nat : q = epoch * n
    BY <1>1
  <2>3. last.id[1] * n = q
    BY <1>3, <2>2
  <2>4. b + c = d + 1
    BY <1>3, <2>1
  <2>5. n \in Nat /\ d \in Nat /\ b + c <= n + 1
    BY <1>1, <2>1
  <2>6. d \in 0 .. n
    BY <2>4, <2>5
  <2>7. q + b + c = q + d + 1
    BY <2>4, <2>5
  <2> QED
    BY <2>1, <2>2, <2>3, <2>6, <2>7, Zenon
<1>4. CASE phase = "train" /\ pending
  <2>1. PICK p, b : p = trained /\ b = buffer /\ p \in Seq(Sample) /\ b \in Seq(Sample) /\ b # <<>>
    BY <1>4, SamplesTyped
  <2>2. PICK k \in Nat, l \in Nat : k = Len(p) /\ l = Len(b) /\ l >= 1
    BY <2>1
  <2>3. all = p \o b
    BY <2>1 DEF Collected
  <2>4. Len(all) = k + l /\ all[k + l] = b[l]
    BY <2>1, <2>2, <2>3, SamplesJoined
  <2>5. last = buffer[Len(buffer)] /\ all # <<>>
    BY <2>1, <2>2, <2>4
  <2>6. last.id[1] = epoch /\ last.batch + Len(last.credits) = d + 1
    BY <1>4, <2>5 DEF ClockTrue, Waits
  <2> QED
    BY <1>3, <2>5, <2>6
<1>5. CASE phase = "train" /\ ~pending
  <2>1. Opens(all, epoch, d + 1, n)
    BY <1>5 DEF ClockTrue
  <2>2. CASE all = <<>>
    BY <1>1, <2>1, <2>2 DEF Opens
  <2>3. CASE all # <<>>
    <3>1. Leads(last, epoch, d + 1, n)
      BY <2>1, <2>3 DEF Opens
    <3>2. CASE last.id[1] = epoch /\ last.batch + Len(last.credits) = d + 1
      BY <1>3, <2>3, <3>2
    <3>3. CASE d + 1 = 1 /\ Ends(last, epoch - 1, n)
      <4>1. PICK b \in Nat, c \in Nat, i \in Nat :
              b = last.batch /\ c = Len(last.credits) /\ i = last.id[1]
        BY <1>2, <2>3, SampleIs
      <4>2. i = epoch - 1 /\ b + c = n + 1 /\ d = 0
        BY <1>1, <3>3, <4>1 DEF Ends
      <4>3. PICK q \in Nat : q = i * n
        BY <1>1
      <4>4. epoch * n = q + n
        BY <1>1, <4>2, <4>3
      <4>5. n \in Nat /\ d \in Nat
        BY <1>1
      <4>6. d \in 0 .. n
        BY <4>2, <4>5
      <4>7. q + b + c = (q + n) + d + 1
        BY <4>2, <4>5
      <4> QED
        BY <2>3, <4>1, <4>3, <4>4, <4>6, <4>7, Zenon
    <3> QED
      BY <3>1, <3>2, <3>3 DEF Leads
  <2> QED
    BY <2>2, <2>3
<1>6. CASE phase # "train"
  <2>1. buffer = <<>> /\ trained # <<>> /\ d = n /\ Ends(trained[Len(trained)], epoch, n)
    BY <1>6 DEF ClockTrue
  <2>2. all = trained
    <3>1. trained \in Seq(Sample)
      BY SamplesTyped
    <3> QED
      BY <2>1, <3>1, ConcatEmptySeq, Zenon DEF Collected
  <2>3. all # <<>> /\ last.id[1] = epoch /\ last.batch + Len(last.credits) = d + 1
    BY <2>1, <2>2 DEF Ends
  <2> QED
    BY <1>3, <2>3
<1> QED
  BY <1>4, <1>5, <1>6 DEF TrainTypes

\* What the clock promises of the samples.
Clocked(all) ==
    LET Of(e, b) == {x \in (1 .. Len(all)) \X (1 .. Len(txs)) :
                        LET sample == all[x[1]]
                        IN /\ x[2] <= Len(sample.credits) /\ sample.id[1] = e
                           /\ sample.credits[x[2]].batch = b}
    IN /\ \A e \in 1 .. epoch : \A b \in Executed(e) : Cardinality(Of(e, b)) = 1
       /\ \A i \in DOMAIN all : \A k \in DOMAIN all[i].credits :
             all[i].credits[k].power = all[i].credits[k].batch - all[i].batch
       /\ \A i \in DOMAIN trained :
             IF i < Len(all) /\ all[i + 1].id[1] = all[i].id[1]
             THEN /\ all[i].next = "next"
                  /\ all[i].gap = all[i + 1].batch - all[i].batch
             ELSE all[i].next = "end" \/ (i = Len(trained) /\ phase = "train")

\* Every reward is credited exactly once, with the discount of the batches
\* in between, and every sample is bootstrapped over the batches up to the next one,
\* for every number of batches, epochs, decisions and updates
\* (add_batch, before_decision, finish).
THEOREM RewardsFollowTheClock == TrainingSpec => []BatchClock
<1>1. EnvInv /\ TrainInv /\ ClockTrue => BatchClock
  <2> SUFFICES ASSUME EnvInv, TrainInv, ClockTrue, V3,
                      phase \in {"train", "validate", "epoch_done", "trained"}
               PROVE  BatchClock
    BY DEF BatchClock
  <2>1. EnvTypeOK /\ TrainTypes /\ SamplesTrue
    BY DEF EnvInv, TrainInv
  <2>2. PICK all : all = Collected
    OBVIOUS
  <2>3. all = trained \o [i \in DOMAIN buffer |-> buffer[i]]
    <3>1. buffer \in Seq(Sample)
      BY <2>1, SamplesTyped
    <3>2. [i \in DOMAIN buffer |-> buffer[i]] = buffer
      BY <3>1
    <3> QED
      BY <2>2, <3>2 DEF Collected
  <2>4. PICK n \in Nat, m \in Nat, d \in Nat :
          /\ n = EpochBatches /\ m = Len(txs) /\ n <= m /\ d = BatchesDone
          /\ Walk(all, n) /\ epoch \in Nat
    <3>1. CursorTrue /\ Walk(Collected, EpochBatches)
      BY DEF ClockTrue
    <3> QED
      BY <2>1, <2>2, <3>1, EpochType, DoneType, SamplesTyped
  <2>5. PICK k \in Nat, l \in Nat : k = Len(trained) /\ l = Len(all)
    BY <2>1, <2>2, SamplesTyped
  <2>6. /\ k <= l /\ DOMAIN all = 1 .. l /\ all \in Seq(Sample)
        /\ DOMAIN trained = 1 .. k /\ \A i \in 1 .. k : all[i] = trained[i]
    <3>1. PICK p, b : p = trained /\ b = buffer /\ p \in Seq(Sample) /\ b \in Seq(Sample)
      BY <2>1, SamplesTyped
    <3>2. PICK h : h = Len(b)
      OBVIOUS
    <3>3. k = Len(p) /\ all = p \o b
      BY <2>2, <2>5, <3>1 DEF Collected
    <3>4. h \in Nat /\ all \in Seq(Sample) /\ Len(all) = k + h /\ \A i \in 1 .. k : all[i] = p[i]
      BY <3>1, <3>2, <3>3, SamplesJoined
    <3> QED
      BY <2>5, <3>1, <3>4
  <2>7. ASSUME NEW e \in 1 .. epoch, NEW b \in Executed(e)
        PROVE  Cardinality(CarriedBy(all, m, e, b)) = 1
    <3>1. PICK last : last = all[l]
      OBVIOUS
    <3>2. \/ all = <<>> /\ epoch = 1 /\ d = 0
          \/ /\ all # <<>> /\ d \in 0 .. n
             /\ last.id[1] * n + last.batch + Len(last.credits) = epoch * n + d + 1
      BY <2>1, <2>2, <2>4, <2>5, <3>1, SamplesReach
    <3>3. e \in Nat \ {0} /\ b \in IF e = epoch THEN 1 .. d ELSE 1 .. n
      BY <2>4 DEF Executed, BatchesDone, EpochBatches
    <3>4. /\ all # <<>> /\ d \in 0 .. n
          /\ last.id[1] * n + last.batch + Len(last.credits) = epoch * n + d + 1
      BY <3>2, <3>3
    <3>5. b \in 1 .. n
      BY <3>3, <3>4
    <3>6. e * n + b < epoch * n + d + 1
      <4>1. PICK q \in Nat, r \in Nat : q = e * n /\ r = epoch * n
        BY <2>4
      <4>2. CASE e = epoch
        BY <2>4, <3>3, <4>1, <4>2
      <4>3. CASE e # epoch
        <5>1. e < epoch /\ e \in Nat
          BY <2>4, <4>3
        <5>2. q + n <= r
          BY <2>4, <3>5, <4>1, <5>1, BatchNumbers
        <5> QED
          BY <2>4, <3>5, <4>1, <5>2
      <4> QED
        BY <4>2, <4>3
    <3>7. e * n + b < last.id[1] * n + last.batch + Len(last.credits)
      BY <3>4, <3>6
    <3>8. all # <<>> /\ last = all[Len(all)] /\ e \in Nat \ {0}
      BY <2>5, <3>1, <3>3, <3>4
    <3>9. n \in Nat /\ m \in Nat /\ n <= m /\ Walk(all, n)
      BY <2>4
    <3> QED
      BY <3>5, <3>7, <3>8, <3>9, WalkCovers, Zenon
  <2>8. ASSUME NEW i \in DOMAIN all, NEW j \in DOMAIN all[i].credits
        PROVE  all[i].credits[j].power = all[i].credits[j].batch - all[i].batch
    <3>1. PICK z : z = all[i]
      OBVIOUS
    <3>2. z \in Sample /\ Fits(z, n)
      BY <2>4, <2>5, <2>6, <3>1 DEF Walk
    <3>3. z.batch \in Nat /\ j \in 1 .. Len(z.credits) /\ Len(z.credits) \in Nat
      BY <3>1, <3>2, SampleIs
    <3>4. z.credits[j].batch = z.batch + j - 1 /\ z.credits[j].power = j - 1
      BY <3>2, <3>3 DEF Fits
    <3> QED
      BY <3>1, <3>3, <3>4
  <2>9. ASSUME NEW i \in DOMAIN trained
        PROVE  IF i < Len(all) /\ all[i + 1].id[1] = all[i].id[1]
               THEN /\ all[i].next = "next"
                    /\ all[i].gap = all[i + 1].batch - all[i].batch
               ELSE all[i].next = "end" \/ (i = Len(trained) /\ phase = "train")
    <3>1. i \in 1 .. k /\ i \in 1 .. l
      BY <2>4, <2>6
    <3>2. CASE i < l
      <4>1. PICK z, y : z = all[i] /\ y = all[i + 1] /\ z \in Sample /\ y \in Sample
        BY <2>5, <2>6, <3>1, <3>2
      <4>2. Leads(z, y.id[1], y.batch, n)
        <5>1. PICK j \in 1 .. l : j = i + 1 /\ j # 1 /\ j - 1 = i
          BY <3>1, <3>2
        <5>2. Leads(all[j - 1], all[j].id[1], all[j].batch, n)
          BY <2>4, <2>5, <5>1 DEF Walk
        <5> QED
          BY <4>1, <5>1, <5>2
      <4>3. PICK g \in Nat, h \in Nat, a \in Nat, b \in Nat, c \in Nat, x \in Nat :
              /\ g = z.id[1] /\ h = y.id[1] /\ a = z.batch /\ b = y.batch /\ c = Len(z.credits)
              /\ x = z.gap
        BY <4>1, SampleIs
      <4>4. \/ g = h /\ z.next = "next" /\ x = c /\ a + c = b
            \/ g = h - 1 /\ z.next = "end"
        BY <4>2, <4>3 DEF Leads, Ends
      <4> QED
        BY <2>5, <3>2, <4>1, <4>3, <4>4
    <3>3. CASE ~(i < l)
      <4>1. i = l /\ i = k
        BY <2>6, <3>1, <3>3
      <4>2. phase = "train" \/ all[i].next = "end"
        BY <2>5, <2>6, <3>1, <4>1 DEF ClockTrue, Ends
      <4> QED
        BY <2>5, <4>1, <4>2
    <3> QED
      BY <3>2, <3>3
  <2>10. Clocked(all)
    BY <2>4, <2>7, <2>8, <2>9 DEF Clocked, CarriedBy
  <2>11. Clocked(trained \o [i \in DOMAIN buffer |-> buffer[i]]) => BatchClock
    BY Zenon DEF Clocked, BatchClock
  <2> QED
    BY <2>3, <2>10, <2>11, Zenon
<1> QED
  BY <1>1, ClockInvariant, PTL

=============================================================================
