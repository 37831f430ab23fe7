----------------------- MODULE AccountTransferProofs -----------------------
(* Proofs about AccountTransfer, for every number of shards, accounts,        *)
(* transactions and partitions: types; the rounds of the shards, hence owners *)
(* and the transactions that come along; that halves of transactions are      *)
(* executed once; and balances.                                               *)
EXTENDS AccountTransfer, FilterProofs, FiniteSetTheorems, FunctionTheorems

-----------------------------------------------------------------------------
(* Types of what a block and a partition compute.                           *)

LEMMA EmptySequence == \A S : <<>> \in Seq(S) /\ Len(<<>>) = 0
  OBVIOUS

LEMMA OneItem == \A r : ToSet(<<r>>) = {r} /\ <<r>>[1] = r
  BY DEF ToSet

LEMMA FreshType ==
    ASSUME ChainTypes, NEW s \in Shard
    PROVE  Packed(s) \in Seq(Item) /\ Fresh(s) \in Seq(Item)
<1>1. TxQueue[s] \in Seq(Item) /\ Len(TxQueue[s]) \in Nat
  BY DEF ChainTypes
<1>2. Packed(s) \in Seq(Item)
  BY <1>1, TransferAssumption DEF Packed
<1>3. Fresh(s) \in Seq(Item)
  BY <1>2, KeptItems, Zenon DEF Fresh
<1> QED
  BY <1>2, <1>3

LEMMA UnpackedType ==
    ASSUME ChainTypes, NEW s \in Shard, NEW items
    PROVE  Unpacked(s, items) \in Seq(Item)
<1> DEFINE rest == SubSeq(TxQueue[s], Len(Packed(s)) + 1, Len(TxQueue[s]))
<1>1. TxQueue[s] \in Seq(Item) /\ Packed(s) \in Seq(Item)
  BY FreshType DEF ChainTypes
<1>2. rest \in Seq(Item)
  BY <1>1
<1> HIDE DEF rest
<1>3. \A P : Kept(rest, P) \in Seq(Item)
  BY <1>2, KeptItems
<1> QED
  BY <1>3, Zenon DEF Unpacked, rest

LEMMA RelayType ==
    ASSUME ChainTypes, NEW s \in Shard, NEW items \in Seq(Item), NEW d
    PROVE  RelayTo(s, items, d) \in Seq(Item)
<1> DEFINE P == {k \in DOMAIN items : PartitionMap[s][Recipient[items[k].tx]] = d}
           out == Kept(items, P)
<1>1. out \in Seq(Item)
  BY KeptItems
<1>2. RelayTo(s, items, d) = [k \in DOMAIN out |-> [tx |-> out[k].tx, relayed |-> TRUE]]
  BY Zenon DEF RelayTo
<1> HIDE DEF out
<1>3. ASSUME NEW k \in DOMAIN out PROVE [tx |-> out[k].tx, relayed |-> TRUE] \in Item
  <2>1. out[k] \in Item
    BY <1>1
  <2> QED
    BY <2>1 DEF Item
<1>4. DOMAIN out = 1 .. Len(out) /\ Len(out) \in Nat
  BY <1>1
<1> QED
  BY <1>2, <1>3, <1>4

\* What executing one transaction gives.
LEMMA ExecuteType ==
    ASSUME NEW s, NEW bal \in [Account -> Int], NEW item \in Item
    PROVE  Execute(s, bal, item) \in Entry /\ After(bal, Execute(s, bal, item)) \in [Account -> Int]
<1>1. Execute(s, bal, item) \in Entry
  BY DEF Execute, Entry, Item
<1>2. Execute(s, bal, item).tx \in Tx /\ Value[Execute(s, bal, item).tx] \in Int
  BY <1>1, TransferAssumption DEF Entry
<1> QED
  BY <1>1, <1>2 DEF After

Trie == [balance : [Account -> Int], body : Seq(Entry)]

\* One transaction after the other.
LEMMA TrieRuns ==
    ASSUME ChainTypes, NEW s \in Shard, NEW items \in Seq(Item)
    PROVE  \E done \in [0 .. Len(items) -> Trie] :
             /\ GetUpdateStatusTrie(s, items) = done[Len(items)]
             /\ done[0] = [balance |-> balance[s], body |-> <<>>]
             /\ \A k \in 1 .. Len(items) :
                  LET e == Execute(s, done[k - 1].balance, items[k])
                  IN done[k] = [balance |-> After(done[k - 1].balance, e),
                                body |-> Append(done[k - 1].body, e)]
<1> DEFINE n == Len(items)
           X == Trie
           Then(done, e) == [balance |-> After(done.balance, e), body |-> Append(done.body, e)]
           base == [balance |-> balance[s], body |-> <<>>]
           E(k, x) == Then(x, Execute(s, x.balance, items[k]))
           F(f) == [k \in 0 .. n |-> IF k = 0 THEN base ELSE E(k, f[k - 1])]
           done == CHOOSE f : f = F(f)
           step == [k \in 1 .. n |-> [x \in X |-> E(k, x)]]
<1>1. GetUpdateStatusTrie(s, items) = done[n]
  BY Zenon DEF GetUpdateStatusTrie
<1>2. n \in Nat /\ base \in X
  BY EmptySequence DEF ChainTypes, Trie
<1>3. ASSUME NEW k \in 1 .. n, NEW x \in X PROVE E(k, x) \in X
  <2>1. x.balance \in [Account -> Int] /\ x.body \in Seq(Entry) /\ items[k] \in Item
    BY DEF Trie
  <2>2. /\ Execute(s, x.balance, items[k]) \in Entry
        /\ After(x.balance, Execute(s, x.balance, items[k])) \in [Account -> Int]
    BY <2>1, ExecuteType
  <2> QED
    BY <2>1, <2>2 DEF Trie
<1> HIDE DEF E, base
<1>4. step \in [1 .. n -> [X -> X]] /\ \A k \in 1 .. n, x \in X : step[k][x] = E(k, x)
  BY <1>3
<1> HIDE DEF step, X
<1>5. PICK f : Iterates(n, X, base, step, f)
  BY <1>2, <1>4, Recursion, Zenon
<1>6. f \in [0 .. n -> X] /\ f[0] = base /\ \A k \in 1 .. n : f[k] = E(k, f[k - 1])
  BY <1>4, <1>5 DEF Iterates
<1>7. f = F(f)
  BY <1>6
<1>8. done = F(done)
  BY <1>7, Zenon
<1> HIDE DEF done
<1>9. done[0] = base /\ \A k \in 1 .. n : done[k] = E(k, done[k - 1])
  BY <1>2, <1>8
<1>10. 0 .. n \subseteq {k \in 0 .. n : done[k] \in X}
  <2> DEFINE G == {k \in 0 .. n : done[k] \in X}
  <2>1. 0 \in G
    BY <1>2, <1>9
  <2>2. ASSUME NEW k \in 1 .. n, k - 1 \in G PROVE k \in G
    BY <1>3, <1>9, <2>2
  <2> HIDE DEF G
  <2> QED
    BY <1>2, <2>1, <2>2, UpTo, Zenon DEF G
<1>11. done \in [0 .. n -> X]
  <2>1. done = [k \in 0 .. n |-> done[k]]
    BY <1>8
  <2> QED
    BY <1>10, <2>1
<1> QED
  BY <1>1, <1>9, <1>11, Zenon DEF X, E, base

LEMMA TrieType ==
    ASSUME ChainTypes, NEW s \in Shard, NEW items \in Seq(Item)
    PROVE  GetUpdateStatusTrie(s, items) \in Trie
<1>1. PICK done \in [0 .. Len(items) -> Trie] : GetUpdateStatusTrie(s, items) = done[Len(items)]
  BY TrieRuns
<1>2. Len(items) \in 0 .. Len(items)
  OBVIOUS
<1> QED
  BY <1>1, <1>2

\* What a shard has received comes from the messages it got.
LEMMA ReceivedType ==
    ASSUME RoundTypes, NEW s \in Shard
    PROVE  /\ ReceivedNewTx(s) \in Seq(Item)
           /\ \A item \in ToSet(ReceivedNewTx(s)) : \E m \in AccountStateTx[s] : item \in ToSet(m.txs)
<1> DEFINE n == ShardNum
           Got == {x \in Item : \E m \in AccountStateTx[s] : x \in ToSet(m.txs)}
           X == Seq(Got)
           From(d) == {m \in AccountStateTx[s] : m.from = d}
           E(k, x) == IF From(k - 1) = {} THEN x ELSE x \o (CHOOSE m \in From(k - 1) : TRUE).txs
           base == <<>>
           F(f) == [k \in 0 .. n |-> IF k = 0 THEN base
                                     ELSE IF From(k - 1) = {} THEN f[k - 1]
                                     ELSE f[k - 1] \o (CHOOSE m \in From(k - 1) : TRUE).txs]
           txs == CHOOSE f : f = F(f)
           step == [k \in 1 .. n |-> [x \in X |-> E(k, x)]]
<1>1. ReceivedNewTx(s) = txs[n]
  BY Zenon DEF ReceivedNewTx
<1>2. n \in Nat /\ base \in X
  BY EmptySequence, TransferAssumption
<1>3. ASSUME NEW k \in 1 .. n, NEW x \in X PROVE E(k, x) \in X
  <2>1. CASE From(k - 1) = {}
    BY <2>1
  <2>2. CASE From(k - 1) # {}
    <3>1. PICK m \in From(k - 1) : m = CHOOSE y \in From(k - 1) : TRUE
      BY <2>2
    <3>2. m.txs \in Seq(Got)
      <4>1. m.txs \in Seq(Item)
        BY DEF RoundTypes, IsAccountMsg
      <4>2. \A j \in 1 .. Len(m.txs) : m.txs[j] \in Got
        BY <4>1 DEF ToSet
      <4> QED
        BY <4>1, <4>2
    <3> QED
      BY <2>2, <3>1, <3>2
  <2> QED
    BY <2>1, <2>2
<1>4. \A f : F(f) = [k \in 0 .. n |-> IF k = 0 THEN base ELSE E(k, f[k - 1])]
  BY Zenon
<1> HIDE DEF E, F, base
<1>5. step \in [1 .. n -> [X -> X]] /\ \A k \in 1 .. n, x \in X : step[k][x] = E(k, x)
  BY <1>3
<1> HIDE DEF step, X
<1>6. PICK f : Iterates(n, X, base, step, f)
  BY <1>2, <1>5, Recursion, Zenon
<1>7. f \in [0 .. n -> X] /\ f[0] = base /\ \A k \in 1 .. n : f[k] = E(k, f[k - 1])
  BY <1>2, <1>5, <1>6 DEF Iterates
<1>8. f = F(f)
  BY <1>2, <1>4, <1>7
<1>9. txs = F(txs)
  BY <1>8, Zenon
<1> HIDE DEF txs
<1>10. txs[0] = base /\ \A k \in 1 .. n : txs[k] = E(k, txs[k - 1])
  BY <1>2, <1>4, <1>9
<1>11. 0 .. n \subseteq {k \in 0 .. n : txs[k] \in X}
  <2> DEFINE G == {k \in 0 .. n : txs[k] \in X}
  <2>1. 0 \in G
    BY <1>2, <1>10
  <2>2. ASSUME NEW k \in 1 .. n, k - 1 \in G PROVE k \in G
    BY <1>3, <1>10, <2>2
  <2> HIDE DEF G
  <2> QED
    BY <1>2, <2>1, <2>2, UpTo, Zenon DEF G
<1>12. ReceivedNewTx(s) \in Seq(Got)
  BY <1>1, <1>2, <1>11 DEF X
<1> QED
  BY <1>12 DEF ToSet

-----------------------------------------------------------------------------
(* Types.                                                                   *)

\* A shard in a partition has a map for it: the round it is in is not the last
\* one it has a map for, and a proposed partition has its request.
Rounds ==
    \A s \in Shard :
        /\ AccountTransferRound[s] <= Len(ModifiedMap[s])
        /\ PartitionOn[s] => AccountTransferRound[s] < Len(ModifiedMap[s])
        /\ phase[s] # "idle" => PartitionOn[s]
        /\ phase[s] = "proposed" => \E r : /\ atm[s] = <<r>>
                                           /\ r.id <= Len(ModifiedMap[s])

TypeInv == TypeOK /\ Rounds

LEMMA MovesMap ==
    ASSUME NEW moves \in Moves
    PROVE  DOMAIN moves \subseteq Account /\ \A a \in DOMAIN moves : moves[a] \in Shard
<1>1. PICK A \in SUBSET Account : moves \in [A -> Shard]
  BY DEF Moves
<1> QED
  BY <1>1

LEMMA UpdatedType ==
    ASSUME NEW map \in [Account -> Shard], NEW moves \in Moves
    PROVE  Updated(map, moves) \in [Account -> Shard]
  BY MovesMap DEF Updated

LEMMA TransferStarts == Init => TypeInv
<1> SUFFICES ASSUME Init PROVE TypeInv
  OBVIOUS
<1>1. SupervisorTypes
  BY TransferAssumption DEF Init, SupervisorTypes
<1>2. NetTypes
  BY DEF Init, NetTypes
<1>3. ChainTypes
  BY TransferAssumption, EmptySequence DEF Init, ChainTypes
<1>4. ReadyTypes
  BY DEF Init, ReadyTypes
<1>5. RoundTypes
  <2>1. \A s \in Shard : ModifiedMap[s] = <<>> /\ atm[s] = <<>> /\ AccountStateTx[s] = {}
    BY DEF Init
  <2>2. ToSet(<<>>) = {}
    BY DEF ToSet
  <2>3. ModifiedMap \in [Shard -> Seq(Moves)]
    BY EmptySequence DEF Init
  <2>4. /\ phase \in [Shard -> {"idle", "ready", "collect", "proposed"}]
        /\ AccountTransferRound \in [Shard -> Nat]
        /\ PartitionOn \in [Shard -> BOOLEAN] /\ CollectOver \in [Shard -> BOOLEAN]
        /\ DOMAIN AccountStateTx = Shard /\ DOMAIN atm = Shard
        /\ overtaken \in BOOLEAN
    BY DEF Init
  <2> QED
    BY <2>1, <2>2, <2>3, <2>4, Zenon DEF RoundTypes
<1>6. Rounds
  BY EmptySequence DEF Init, Rounds
<1> QED
  BY <1>1, <1>2, <1>3, <1>4, <1>5, <1>6 DEF TypeInv, TypeOK

LEMMA SupervisorKeepsTypes ==
    ASSUME TypeInv, \/ txSending \/ clpaMapSend
                    \/ \E m \in info : HandleBlockInfo(m)
    PROVE  TypeInv'
<1>1. CASE txSending
  <2>1. nowDataNum \in 0 .. NumTx /\ nowDataNum < NumTx /\ NumTx \in Nat /\ InjectSpeed \in Nat \ {0}
    BY <1>1, TransferAssumption DEF txSending, TypeInv, TypeOK, SupervisorTypes
  <2>2. ChunkEnd \in nowDataNum + 1 .. NumTx
    BY <2>1 DEF ChunkEnd
  <2>3. ASSUME NEW s \in Shard PROVE Chunk(s) \in Seq(Tx)
    <3> DEFINE next == [k \in 1 .. ChunkEnd - nowDataNum |-> nowDataNum + k]
    <3>1. next \in Seq(Tx)
      BY <2>1, <2>2 DEF Tx
    <3> QED
      BY <3>1, KeptItems, Zenon DEF Chunk
  <2>4. NetTypes'
    <3>1. \A m \in inject' : m \in inject \/ \E s \in Shard : m = [to |-> s, txs |-> Chunk(s)]
      BY <1>1 DEF txSending
    <3>2. \A m \in inject' : m \in [to : Shard, txs : Seq(Tx)]
      BY <2>3, <3>1 DEF TypeInv, TypeOK, NetTypes
    <3>3. UNCHANGED <<partitionMsg, readyMsg, accountMsg, relay, info>>
      BY <1>1 DEF txSending
    <3> QED
      BY <3>2, <3>3 DEF TypeInv, TypeOK, NetTypes
  <2>5. SupervisorTypes'
    BY <1>1, <2>1, <2>2 DEF txSending, TypeInv, TypeOK, SupervisorTypes
  <2> QED
    BY <1>1, <2>4, <2>5 DEF txSending, TypeInv, TypeOK, ChainTypes, ReadyTypes, RoundTypes,
                            Rounds, chainVars, readyVars, roundVars
<1>2. CASE clpaMapSend
  <2>1. PICK moves \in CLPA_Partition :
          /\ partitionMsg' = partitionMsg \cup
                {[to |-> s, round |-> clpaCnt + 1, map |-> moves] : s \in Shard}
          /\ modifiedMap' = Updated(modifiedMap, moves)
    BY <1>2 DEF clpaMapSend
  <2>2. moves \in Moves
    <3>1. PICK A \in SUBSET clpaGraph : moves \in [A -> ShardsOf(modifiedMap)]
      BY DEF CLPA_Partition
    <3>2. ShardsOf(modifiedMap) \subseteq Shard /\ A \in SUBSET Account
      BY DEF ShardsOf, TypeInv, TypeOK, SupervisorTypes
    <3>3. moves \in [A -> Shard]
      BY <3>1, <3>2
    <3> QED
      BY <3>2, <3>3 DEF Moves
  <2>3. SupervisorTypes'
    <3>1. modifiedMap' \in [Account -> Shard]
      BY <2>1, <2>2, UpdatedType DEF TypeInv, TypeOK, SupervisorTypes
    <3> QED
      BY <1>2, <3>1 DEF clpaMapSend, TypeInv, TypeOK, SupervisorTypes
  <2>4. NetTypes'
    <3>1. partitionMsg' \subseteq [to : Shard, round : Nat, map : Moves]
      BY <2>1, <2>2 DEF TypeInv, TypeOK, SupervisorTypes, NetTypes
    <3> QED
      BY <1>2, <3>1 DEF clpaMapSend, TypeInv, TypeOK, NetTypes
  <2> QED
    BY <1>2, <2>3, <2>4 DEF clpaMapSend, TypeInv, TypeOK, ChainTypes, ReadyTypes, RoundTypes,
                            Rounds, chainVars, readyVars, roundVars
<1>3. ASSUME NEW m \in info, HandleBlockInfo(m) PROVE TypeInv'
  <2>1. m.epoch \in Nat /\ m.vertices \subseteq Account
    BY DEF TypeInv, TypeOK, NetTypes
  <2>2. SupervisorTypes'
    BY <1>3, <2>1 DEF HandleBlockInfo, TypeInv, TypeOK, SupervisorTypes
  <2>3. NetTypes'
    BY <1>3 DEF HandleBlockInfo, TypeInv, TypeOK, NetTypes
  <2> QED
    BY <1>3, <2>2, <2>3 DEF HandleBlockInfo, TypeInv, TypeOK, ChainTypes, ReadyTypes, RoundTypes,
                            Rounds, chainVars, readyVars, roundVars
<1> QED
  BY <1>1, <1>2, <1>3

\* Messages to a shard.
LEMMA DeliveryKeepsTypes == ASSUME TypeInv, Deliver PROVE TypeInv'
<1>1. ASSUME NEW m \in inject, handleInjectTx(m) PROVE TypeInv'
  <2> DEFINE new == [k \in DOMAIN m.txs |-> [tx |-> m.txs[k], relayed |-> FALSE]]
  <2>1. m.to \in Shard /\ m.txs \in Seq(Tx)
    BY DEF TypeInv, TypeOK, NetTypes
  <2>2. new \in Seq(Item)
    <3>1. DOMAIN m.txs = 1 .. Len(m.txs) /\ Len(m.txs) \in Nat
      BY <2>1
    <3>2. ASSUME NEW k \in DOMAIN m.txs PROVE [tx |-> m.txs[k], relayed |-> FALSE] \in Item
      <4>1. m.txs[k] \in Tx
        BY <2>1
      <4> QED
        BY <4>1 DEF Item
    <3> QED
      BY <3>1, <3>2
  <2> HIDE DEF new
  <2>3. TxQueue[m.to] \in Seq(Item)
    BY <2>1 DEF TypeInv, TypeOK, ChainTypes
  <2>4. TxQueue' = [TxQueue EXCEPT ![m.to] = @ \o new]
    BY <1>1 DEF handleInjectTx, new
  <2>5. TxQueue' \in [Shard -> Seq(Item)]
    BY <2>1, <2>2, <2>3, <2>4 DEF TypeInv, TypeOK, ChainTypes
  <2>6. ChainTypes'
    BY <1>1, <2>5 DEF handleInjectTx, TypeInv, TypeOK, ChainTypes
  <2>7. NetTypes'
    BY <1>1 DEF handleInjectTx, TypeInv, TypeOK, NetTypes
  <2> QED
    BY <1>1, <2>6, <2>7 DEF handleInjectTx, TypeInv, TypeOK, SupervisorTypes, ReadyTypes,
                            RoundTypes, Rounds, supervisorVars, readyVars, roundVars
<1>2. ASSUME NEW m \in relay, handleRelay(m) PROVE TypeInv'
  <2>1. m.to \in Shard /\ m.from \in Shard /\ m.seq \in Nat /\ m.txs \in Seq(Item)
    BY DEF TypeInv, TypeOK, NetTypes
  <2>2. TxQueue[m.to] \in Seq(Item)
    BY <2>1 DEF TypeInv, TypeOK, ChainTypes
  <2>3. TxQueue' \in [Shard -> Seq(Item)]
    BY <1>2, <2>1, <2>2 DEF handleRelay, TypeInv, TypeOK, ChainTypes
  <2>4. ChainTypes'
    BY <1>2, <2>3 DEF handleRelay, TypeInv, TypeOK, ChainTypes
  <2>5. NetTypes'
    BY <1>2 DEF handleRelay, TypeInv, TypeOK, NetTypes
  <2>6. ReadyTypes'
    BY <1>2, <2>1 DEF handleRelay, TypeInv, TypeOK, ReadyTypes
  <2> QED
    BY <1>2, <2>4, <2>5, <2>6 DEF handleRelay, TypeInv, TypeOK, SupervisorTypes,
                            RoundTypes, Rounds, supervisorVars, roundVars
<1>3. ASSUME NEW m \in partitionMsg, handlePartitionMsg(m) PROVE TypeInv'
  <2>1. m.to \in Shard /\ m.map \in Moves
    BY DEF TypeInv, TypeOK, NetTypes
  <2>2. /\ ModifiedMap' = [ModifiedMap EXCEPT ![m.to] = Append(@, m.map)]
        /\ PartitionOn' = [PartitionOn EXCEPT ![m.to] = TRUE]
        /\ overtaken' = (overtaken \/ PartitionOn[m.to])
        /\ UNCHANGED <<phase, AccountTransferRound, AccountStateTx, CollectOver, atm>>
    BY <1>3 DEF handlePartitionMsg
  <2>3. /\ ModifiedMap[m.to] \in Seq(Moves) /\ ModifiedMap \in [Shard -> Seq(Moves)]
        /\ PartitionOn \in [Shard -> BOOLEAN] /\ overtaken \in BOOLEAN
        /\ AccountTransferRound \in [Shard -> Nat]
    BY <2>1 DEF TypeInv, TypeOK, RoundTypes
  <2>4. RoundTypes'
    <3>1. ModifiedMap' \in [Shard -> Seq(Moves)] /\ PartitionOn' \in [Shard -> BOOLEAN]
      BY <2>1, <2>2, <2>3
    <3>2. overtaken' \in BOOLEAN
      BY <2>1, <2>2, <2>3
    <3> QED
      BY <2>2, <3>1, <3>2 DEF TypeInv, TypeOK, RoundTypes
  <2>5. Rounds'
    <3>1. \A s \in Shard : Len(ModifiedMap[s]) \in Nat /\ AccountTransferRound[s] \in Nat
      BY <2>3
    <3>2. ModifiedMap'[m.to] = Append(ModifiedMap[m.to], m.map)
      BY <2>1, <2>2, <2>3
    <3>3. Len(ModifiedMap'[m.to]) = Len(ModifiedMap[m.to]) + 1
      BY <2>1, <2>3, <3>2
    <3>4. \A s \in Shard \ {m.to} : ModifiedMap'[s] = ModifiedMap[s]
      BY <2>2, <2>3
    <3>5. \A s \in Shard \ {m.to} : PartitionOn'[s] = PartitionOn[s]
      BY <2>2, <2>3
    <3>6. \A s \in Shard : Len(ModifiedMap[s]) <= Len(ModifiedMap'[s]) /\ Len(ModifiedMap'[s]) \in Nat
      BY <2>1, <3>1, <3>3, <3>4
    <3>7. ASSUME NEW s \in Shard
          PROVE  /\ AccountTransferRound[s] <= Len(ModifiedMap'[s])
                 /\ PartitionOn'[s] => AccountTransferRound[s] < Len(ModifiedMap'[s])
                 /\ phase[s] # "idle" => PartitionOn'[s]
      <4>1. CASE s = m.to
        BY <2>2, <2>3, <3>1, <3>3, <4>1 DEF TypeInv, Rounds
      <4>2. CASE s # m.to
        BY <3>4, <3>5, <4>2 DEF TypeInv, Rounds
      <4> QED
        BY <4>1, <4>2
    <3>8. ASSUME NEW s \in Shard, phase[s] = "proposed"
          PROVE  \E r : atm[s] = <<r>> /\ r.id <= Len(ModifiedMap'[s])
      <4>1. PICK r : atm[s] = <<r>> /\ r.id <= Len(ModifiedMap[s])
        BY <3>8 DEF TypeInv, Rounds
      <4>2. r.id \in Nat
        BY <4>1, OneItem DEF TypeInv, TypeOK, RoundTypes
      <4> QED
        BY <3>1, <3>6, <4>1, <4>2
    <3> QED
      BY <2>2, <3>7, <3>8 DEF Rounds
  <2>6. NetTypes'
    BY <1>3 DEF handlePartitionMsg, TypeInv, TypeOK, NetTypes
  <2> QED
    BY <1>3, <2>4, <2>5, <2>6 DEF handlePartitionMsg, TypeInv, TypeOK, SupervisorTypes, ReadyTypes,
                            ChainTypes, supervisorVars, readyVars, chainVars
<1>4. ASSUME NEW m \in readyMsg, handlePartitionReady(m) PROVE TypeInv'
  <2>1. m.to \in Shard /\ m.from \in Shard /\ m.seq \in Nat
    BY DEF TypeInv, TypeOK, NetTypes
  <2>2. ReadyTypes'
    BY <1>4, <2>1 DEF handlePartitionReady, TypeInv, TypeOK, ReadyTypes
  <2>3. NetTypes'
    BY <1>4 DEF handlePartitionReady, TypeInv, TypeOK, NetTypes
  <2> QED
    BY <1>4, <2>2, <2>3 DEF handlePartitionReady, TypeInv, TypeOK, SupervisorTypes, ChainTypes,
                            RoundTypes, Rounds, supervisorVars, chainVars, roundVars
<1>5. ASSUME NEW m \in accountMsg, handleAccountStateAndTxMsg(m) PROVE TypeInv'
  <2>1. IsAccountMsg(m) /\ m.to \in Shard
    BY DEF TypeInv, TypeOK, NetTypes, IsAccountMsg
  <2>2. /\ AccountStateTx' = [AccountStateTx EXCEPT ![m.to] = Collected(m.to, m)]
        /\ CollectOver' = [CollectOver EXCEPT ![m.to] = @ \/ AllCollected(Collected(m.to, m))]
        /\ UNCHANGED <<phase, ModifiedMap, AccountTransferRound, PartitionOn, atm, overtaken>>
    BY <1>5 DEF handleAccountStateAndTxMsg
  <2>3. \A x \in Collected(m.to, m) : IsAccountMsg(x)
    BY <2>1 DEF Collected, TypeInv, TypeOK, RoundTypes
  <2>4. RoundTypes'
    <3>1. /\ DOMAIN AccountStateTx' = Shard
          /\ \A s \in Shard : \A x \in AccountStateTx'[s] : IsAccountMsg(x)
      BY <2>1, <2>2, <2>3 DEF TypeInv, TypeOK, RoundTypes
    <3>2. CollectOver' \in [Shard -> BOOLEAN]
      BY <2>1, <2>2 DEF TypeInv, TypeOK, RoundTypes
    <3> QED
      BY <2>2, <3>1, <3>2, Zenon DEF TypeInv, TypeOK, RoundTypes, IsAccountMsg
  <2>5. NetTypes'
    BY <1>5 DEF handleAccountStateAndTxMsg, TypeInv, TypeOK, NetTypes
  <2> QED
    BY <1>5, <2>2, <2>4, <2>5 DEF handleAccountStateAndTxMsg, TypeInv, TypeOK, SupervisorTypes,
                            ReadyTypes, ChainTypes, Rounds, supervisorVars, readyVars, chainVars
<1> QED
  BY <1>1, <1>2, <1>3, <1>4, <1>5 DEF Deliver

\* A block.
LEMMA BlockKeepsTypes == ASSUME TypeInv, NEW s \in Shard, Block(s) PROVE TypeInv'
<1> DEFINE items == Fresh(s)
           done  == GetUpdateStatusTrie(s, items)
<1>1. items \in Seq(Item)
  BY FreshType DEF TypeInv, TypeOK
<1>2. done.balance \in [Account -> Int] /\ done.body \in Seq(Entry)
  BY <1>1, TrieType DEF TypeInv, TypeOK, Trie
<1>3. Unpacked(s, items) \in Seq(Item)
  BY UnpackedType DEF TypeInv, TypeOK
<1>4. /\ empties' = [empties EXCEPT ![s] = IF TxQueue[s] = <<>> THEN @ + 1 ELSE @]
      /\ TxQueue' = [TxQueue EXCEPT ![s] = Unpacked(s, items)]
      /\ balance' = [balance EXCEPT ![s] = done.balance]
      /\ log' = [log EXCEPT ![s] = @ \cup ToSet(done.body)]
      /\ PartitionMap' = PartitionMap
  BY DEF Block
<1>5. \/ dead' = [dead EXCEPT ![s] = TRUE] /\ UNCHANGED <<relay, info, sequenceID>>
      \/ /\ relay' = relay \cup RelayMsgs(s, items)
         /\ info' = info \cup {[from |-> s, seq |-> sequenceID[s],
                                epoch |-> AccountTransferRound[s],
                                vertices |-> DoneAccounts(s, items)]}
         /\ sequenceID' = [sequenceID EXCEPT ![s] = @ + 1]
         /\ UNCHANGED dead
  BY DEF Block
<1>6. ToSet(done.body) \subseteq Entry
  BY <1>2 DEF ToSet
<1>7. \A m \in RelayMsgs(s, items) : m \in [from : Shard, to : Shard, seq : Nat, txs : Seq(Item)]
  BY <1>1, RelayType DEF RelayMsgs, TypeInv, TypeOK, ChainTypes
<1>8. DoneAccounts(s, items) \subseteq Account
  <2> HIDE DEF items
  <2>1. \A k \in DOMAIN items : items[k] \in Item
    BY <1>1
  <2>2. \A k \in DOMAIN items : items[k].tx \in Tx
    BY <2>1 DEF Item
  <2> QED
    BY <2>2, TransferAssumption DEF DoneAccounts
<1>9. UNCHANGED <<supervisorVars, inject, partitionMsg, readyMsg, accountMsg, readyVars, roundVars>>
  BY DEF Block
<1> HIDE DEF items, done
<1>10. ChainTypes'
  <2>1. empties' \in [Shard -> Nat]
    BY <1>4 DEF TypeInv, TypeOK, ChainTypes
  <2>2. TxQueue' \in [Shard -> Seq(Item)]
    BY <1>3, <1>4 DEF TypeInv, TypeOK, ChainTypes
  <2>3. balance' \in [Shard -> [Account -> Int]]
    BY <1>2, <1>4 DEF TypeInv, TypeOK, ChainTypes
  <2>4. log' \in [Shard -> SUBSET Entry]
    BY <1>4, <1>6 DEF TypeInv, TypeOK, ChainTypes
  <2>5. dead' \in [Shard -> BOOLEAN]
    BY <1>5 DEF TypeInv, TypeOK, ChainTypes
  <2>6. sequenceID' \in [Shard -> Nat]
    BY <1>5 DEF TypeInv, TypeOK, ChainTypes
  <2> QED
    BY <1>4, <2>1, <2>2, <2>3, <2>4, <2>5, <2>6 DEF TypeInv, TypeOK, ChainTypes
<1>11. NetTypes'
  <2>1. CASE UNCHANGED <<relay, info>>
    BY <1>9, <2>1 DEF TypeInv, TypeOK, NetTypes
  <2>2. CASE /\ relay' = relay \cup RelayMsgs(s, items)
             /\ info' = info \cup {[from |-> s, seq |-> sequenceID[s],
                                    epoch |-> AccountTransferRound[s],
                                    vertices |-> DoneAccounts(s, items)]}
    <3>1. info' \subseteq [from : Shard, seq : Nat, epoch : Nat, vertices : SUBSET Account]
      BY <1>8, <2>2 DEF TypeInv, TypeOK, NetTypes, ChainTypes, RoundTypes
    <3>2. \A m \in relay' : m \in [from : Shard, to : Shard, seq : Nat, txs : Seq(Item)]
      BY <1>7, <2>2 DEF TypeInv, TypeOK, NetTypes
    <3> QED
      BY <1>9, <3>1, <3>2 DEF TypeInv, TypeOK, NetTypes
  <2> QED
    BY <1>5, <2>1, <2>2
<1> QED
  BY <1>9, <1>10, <1>11 DEF TypeInv, TypeOK, SupervisorTypes, ReadyTypes, RoundTypes, Rounds,
                            supervisorVars, readyVars, roundVars

\* The steps of a partition.
LEMMA ReadyKeepsTypes == ASSUME TypeInv, NEW s \in Shard, sendPartitionReady(s) PROVE TypeInv'
<1>1. /\ PartitionReady' = [PartitionReady EXCEPT ![s] = @ \cup {s}]
      /\ readyMsg' = readyMsg \cup
            {[from |-> s, to |-> d, seq |-> sequenceID[s]] : d \in Shard \ {s}}
      /\ phase' = [phase EXCEPT ![s] = "ready"] /\ PartitionOn[s]
      /\ UNCHANGED <<supervisorVars, inject, partitionMsg, accountMsg, relay, info,
                     chainVars, ReadySeq, seqIDMap, ModifiedMap, AccountTransferRound,
                     PartitionOn, AccountStateTx, CollectOver, atm, overtaken>>
  BY DEF sendPartitionReady
<1>2. ReadyTypes'
  BY <1>1 DEF TypeInv, TypeOK, ReadyTypes
<1>3. NetTypes'
  <2>1. readyMsg' \subseteq [from : Shard, to : Shard, seq : Nat]
    BY <1>1 DEF TypeInv, TypeOK, NetTypes, ChainTypes
  <2> QED
    BY <1>1, <2>1 DEF TypeInv, TypeOK, NetTypes
<1>4. RoundTypes' /\ Rounds'
  BY <1>1 DEF TypeInv, TypeOK, RoundTypes, Rounds
<1> QED
  BY <1>1, <1>2, <1>3, <1>4 DEF TypeInv, TypeOK, SupervisorTypes, ChainTypes, supervisorVars, chainVars

\* A shard in a partition has the map of the round.
LEMMA HasMap ==
    ASSUME TypeInv, NEW s \in Shard, phase[s] # "idle"
    PROVE  LastMap(s) \in Moves /\ RoundMap(s) \in Moves
<1>1. /\ AccountTransferRound[s] < Len(ModifiedMap[s])
      /\ AccountTransferRound[s] \in Nat /\ ModifiedMap[s] \in Seq(Moves)
  BY DEF TypeInv, TypeOK, RoundTypes, Rounds
<1> QED
  BY <1>1 DEF LastMap, RoundMap

LEMMA SendKeepsTypes == ASSUME TypeInv, NEW s \in Shard, sendAccounts_and_Txs(s) PROVE TypeInv'
<1> DEFINE With(d) == {k \in DOMAIN TxQueue[s] : LeavesWith(s, d, TxQueue[s][k])}
           Sent(d) == [from |-> s, to |-> d,
                       states |-> [a \in Leaving(s, d) |-> balance[s][a]],
                       txs    |-> Kept(TxQueue[s], With(d))]
           left == Kept(TxQueue[s], DOMAIN TxQueue[s] \ UNION {With(d) : d \in Shard \ {s}})
<1>1. /\ accountMsg' = accountMsg \cup {Sent(d) : d \in Shard \ {s}}
      /\ TxQueue' = [TxQueue EXCEPT ![s] =
                        Kept(@, DOMAIN @ \ UNION {With(d) : d \in Shard \ {s}})]
      /\ phase' = [phase EXCEPT ![s] = "collect"] /\ phase[s] = "ready"
  BY DEF sendAccounts_and_Txs
<1>2. UNCHANGED <<supervisorVars, inject, partitionMsg, readyMsg, relay, info,
                   sequenceID, PartitionMap, balance, log, empties, dead, readyVars,
                   ModifiedMap, AccountTransferRound, PartitionOn, AccountStateTx,
                   CollectOver, atm, overtaken>>
  BY DEF sendAccounts_and_Txs
<1>3. TxQueue[s] \in Seq(Item) /\ balance[s] \in [Account -> Int]
  BY DEF TypeInv, TypeOK, ChainTypes
<1>4. TxQueue' = [TxQueue EXCEPT ![s] = left]
  BY <1>1
<1>5. left \in Seq(Item)
  BY <1>3, KeptItems
<1> HIDE DEF left
<1>6. ASSUME NEW d \in Shard PROVE IsAccountMsg(Sent(d))
  <2>1. Kept(TxQueue[s], With(d)) \in Seq(Item)
    BY <1>3, KeptItems
  <2>2. Leaving(s, d) \subseteq Account
    BY <1>1, HasMap, MovesMap DEF Leaving
  <2> HIDE DEF With
  <2> QED
    BY <1>3, <2>1, <2>2 DEF IsAccountMsg, IsStates
<1> HIDE DEF Sent
<1>7. NetTypes'
  <2>1. \A m \in accountMsg' : IsAccountMsg(m)
    BY <1>1, <1>6 DEF TypeInv, TypeOK, NetTypes
  <2>2. \A m \in accountMsg' : IsAccountMsg(m)'
    BY <2>1 DEF IsAccountMsg
  <2> QED
    BY <1>2, <2>2 DEF TypeInv, TypeOK, NetTypes
<1>8. ChainTypes'
  <2>1. TxQueue' \in [Shard -> Seq(Item)]
    BY <1>4, <1>5 DEF TypeInv, TypeOK, ChainTypes
  <2> QED
    BY <1>2, <2>1 DEF TypeInv, TypeOK, ChainTypes
<1>9. RoundTypes'
  <2>1. phase' \in [Shard -> {"idle", "ready", "collect", "proposed"}]
    BY <1>1 DEF TypeInv, TypeOK, RoundTypes
  <2> QED
    BY <1>2, <2>1 DEF TypeInv, TypeOK, RoundTypes
<1>10. Rounds'
  BY <1>1, <1>2 DEF TypeInv, TypeOK, RoundTypes, Rounds
<1> QED
  BY <1>2, <1>7, <1>8, <1>9, <1>10 DEF TypeInv, TypeOK, SupervisorTypes, ReadyTypes,
                                       supervisorVars, readyVars

LEMMA ProposeKeepsTypes == ASSUME TypeInv, NEW s \in Shard, proposePartition(s) PROVE TypeInv'
<1> DEFINE req == [map |-> RoundMap(s), states |-> ReceivedNewAccountState(s),
                   id |-> Len(ModifiedMap[s])]
<1>1. /\ dead' = [dead EXCEPT ![s] = \E item \in ToSet(ReceivedNewTx(s)) : ErrorTx(s, item)]
      /\ TxQueue' = [TxQueue EXCEPT ![s] = @ \o ReceivedNewTx(s)]
      /\ atm' = [atm EXCEPT ![s] = <<req>>]
      /\ phase' = [phase EXCEPT ![s] = "proposed"] /\ phase[s] = "collect"
  BY DEF proposePartition
<1>2. UNCHANGED <<supervisorVars, netVars, sequenceID, PartitionMap, balance, log,
                   empties, readyVars, ModifiedMap, AccountTransferRound,
                   PartitionOn, AccountStateTx, CollectOver, overtaken>>
  BY DEF proposePartition
<1>3. ReceivedNewTx(s) \in Seq(Item)
  BY ReceivedType DEF TypeInv, TypeOK
<1>4. ChainTypes'
  <2>1. TxQueue[s] \in Seq(Item) /\ TxQueue[s] \o ReceivedNewTx(s) \in Seq(Item)
    BY <1>3 DEF TypeInv, TypeOK, ChainTypes
  <2>2. TxQueue' \in [Shard -> Seq(Item)]
    BY <1>1, <2>1 DEF TypeInv, TypeOK, ChainTypes
  <2>3. dead' \in [Shard -> BOOLEAN]
    BY <1>1 DEF TypeInv, TypeOK, ChainTypes
  <2> QED
    BY <1>2, <2>2, <2>3 DEF TypeInv, TypeOK, ChainTypes
<1>5. IsStates(ReceivedNewAccountState(s))
  <2> DEFINE Dom == UNION {DOMAIN m.states : m \in AccountStateTx[s]}
  <2>1. \A m \in AccountStateTx[s] : IsStates(m.states)
    BY DEF TypeInv, TypeOK, RoundTypes, IsAccountMsg
  <2>2. Dom \subseteq Account
    BY <2>1 DEF IsStates
  <2>3. ASSUME NEW a \in Dom
        PROVE  (CHOOSE m \in AccountStateTx[s] : a \in DOMAIN m.states).states[a] \in Int
    <3>1. PICK x \in AccountStateTx[s] : a \in DOMAIN x.states
      OBVIOUS
    <3>2. PICK y \in AccountStateTx[s] :
            /\ a \in DOMAIN y.states
            /\ y = CHOOSE m \in AccountStateTx[s] : a \in DOMAIN m.states
      BY <3>1
    <3> QED
      BY <2>1, <3>2 DEF IsStates
  <2> QED
    BY <2>2, <2>3 DEF ReceivedNewAccountState, IsStates
<1>6. req.map \in Moves /\ IsStates(req.states) /\ req.id \in Nat /\ req.id = Len(ModifiedMap[s])
  BY <1>1, <1>5, HasMap DEF TypeInv, TypeOK, RoundTypes
<1> HIDE DEF req
<1>7. ASSUME NEW d \in Shard PROVE atm'[d] = IF d = s THEN <<req>> ELSE atm[d]
  BY <1>1 DEF TypeInv, TypeOK, RoundTypes
<1>8. RoundTypes'
  <2>1. phase' \in [Shard -> {"idle", "ready", "collect", "proposed"}]
    BY <1>1 DEF TypeInv, TypeOK, RoundTypes
  <2>2. DOMAIN atm' = Shard
    BY <1>1 DEF TypeInv, TypeOK, RoundTypes
  <2>3. ASSUME NEW d \in Shard, NEW r \in ToSet(atm'[d])
        PROVE  r.map \in Moves /\ IsStates(r.states) /\ r.id \in Nat
    <3>1. CASE d = s
      BY <1>6, <1>7, <3>1, OneItem
    <3>2. CASE d # s
      BY <1>7, <3>2 DEF TypeInv, TypeOK, RoundTypes
    <3> QED
      BY <3>1, <3>2
  <2> QED
    BY <1>2, <2>1, <2>2, <2>3 DEF TypeInv, TypeOK, RoundTypes
<1>9. Rounds'
  <2>1. ASSUME NEW d \in Shard
        PROVE  /\ AccountTransferRound[d] <= Len(ModifiedMap[d])
               /\ PartitionOn[d] => AccountTransferRound[d] < Len(ModifiedMap[d])
               /\ phase'[d] # "idle" => PartitionOn[d]
    BY <1>1 DEF TypeInv, TypeOK, RoundTypes, Rounds
  <2>2. ASSUME NEW d \in Shard, phase'[d] = "proposed"
        PROVE  \E r : atm'[d] = <<r>> /\ r.id <= Len(ModifiedMap[d])
    <3>1. CASE d = s
      BY <1>6, <1>7, <3>1
    <3>2. CASE d # s
      BY <1>1, <1>7, <2>2, <3>2 DEF TypeInv, TypeOK, RoundTypes, Rounds
    <3> QED
      BY <3>1, <3>2
  <2> QED
    BY <1>2, <2>1, <2>2 DEF Rounds
<1> QED
  BY <1>2, <1>4, <1>8, <1>9 DEF TypeInv, TypeOK, SupervisorTypes, NetTypes, ReadyTypes,
                                supervisorVars, netVars, readyVars

LEMMA TransferKeepsTypes == ASSUME TypeInv, NEW s \in Shard, accountTransfer_do(s) PROVE TypeInv'
<1>1. PICK r : atm[s] = <<r>> /\ r.id <= Len(ModifiedMap[s])
  BY DEF accountTransfer_do, TypeInv, Rounds
<1> DEFINE map == NewMap(s, r.map)
<1>2. atm[s][1] = r /\ r.map \in Moves /\ IsStates(r.states) /\ r.id \in Nat
  BY <1>1, OneItem DEF TypeInv, TypeOK, RoundTypes
<1>3. /\ PartitionMap' = [PartitionMap EXCEPT ![s] = map]
      /\ balance' = [balance EXCEPT ![s] = AddAccounts(s, r.states, map)]
      /\ ModifiedMap' = [ModifiedMap EXCEPT ![s] = IF Len(@) # r.id THEN Append(@, r.map) ELSE @]
      /\ AccountTransferRound' = [AccountTransferRound EXCEPT ![s] = r.id]
  BY <1>2, Zenon DEF accountTransfer_do
<1>4. /\ AccountStateTx' = [AccountStateTx EXCEPT ![s] = {}]
      /\ PartitionOn' = [PartitionOn EXCEPT ![s] = FALSE]
      /\ CollectOver' = [CollectOver EXCEPT ![s] = FALSE]
      /\ PartitionReady' = [PartitionReady EXCEPT ![s] = {}]
      /\ sequenceID' = [sequenceID EXCEPT ![s] = @ + 1]
      /\ phase' = [phase EXCEPT ![s] = "idle"]
      /\ atm' = [atm EXCEPT ![s] = <<>>]
      /\ UNCHANGED <<supervisorVars, netVars, TxQueue, log, empties, dead, ReadySeq,
                     seqIDMap, overtaken>>
  BY DEF accountTransfer_do
<1>5. map \in [Account -> Shard]
  BY <1>2, UpdatedType DEF NewMap, TypeInv, TypeOK, ChainTypes
<1> HIDE DEF map
<1>6. AddAccounts(s, r.states, map) \in [Account -> Int]
  BY <1>2 DEF AddAccounts, IsStates, TypeInv, TypeOK, ChainTypes
<1>7. ChainTypes'
  <2>1. PartitionMap' \in [Shard -> [Account -> Shard]]
    BY <1>3, <1>5 DEF TypeInv, TypeOK, ChainTypes
  <2>2. balance' \in [Shard -> [Account -> Int]]
    BY <1>3, <1>6 DEF TypeInv, TypeOK, ChainTypes
  <2>3. sequenceID' \in [Shard -> Nat]
    BY <1>4 DEF TypeInv, TypeOK, ChainTypes
  <2> QED
    BY <1>4, <2>1, <2>2, <2>3 DEF TypeInv, TypeOK, ChainTypes
<1>8. ReadyTypes'
  BY <1>4 DEF TypeInv, TypeOK, ReadyTypes
<1>9. /\ ModifiedMap[s] \in Seq(Moves) /\ Len(ModifiedMap[s]) \in Nat
      /\ ModifiedMap \in [Shard -> Seq(Moves)]
  BY DEF TypeInv, TypeOK, RoundTypes
<1> DEFINE maps == IF Len(ModifiedMap[s]) # r.id THEN Append(ModifiedMap[s], r.map)
                   ELSE ModifiedMap[s]
<1>10. /\ maps \in Seq(Moves) /\ Len(maps) \in Nat /\ r.id <= Len(maps)
       /\ ModifiedMap' = [ModifiedMap EXCEPT ![s] = maps]
  BY <1>1, <1>2, <1>3, <1>9
<1> HIDE DEF maps
<1>11. RoundTypes'
  <2>1. ModifiedMap' \in [Shard -> Seq(Moves)]
    BY <1>9, <1>10
  <2>2. /\ phase' \in [Shard -> {"idle", "ready", "collect", "proposed"}]
        /\ AccountTransferRound' \in [Shard -> Nat]
        /\ PartitionOn' \in [Shard -> BOOLEAN]
        /\ CollectOver' \in [Shard -> BOOLEAN]
    BY <1>2, <1>3, <1>4 DEF TypeInv, TypeOK, RoundTypes
  <2>3. DOMAIN atm' = Shard /\ DOMAIN AccountStateTx' = Shard
    BY <1>4 DEF TypeInv, TypeOK, RoundTypes
  <2>4. ASSUME NEW d \in Shard, NEW x \in ToSet(atm'[d])
        PROVE  x.map \in Moves /\ IsStates(x.states) /\ x.id \in Nat
    <3>1. ToSet(<<>>) = {}
      BY DEF ToSet
    <3>2. atm'[d] = IF d = s THEN <<>> ELSE atm[d]
      BY <1>4 DEF TypeInv, TypeOK, RoundTypes
    <3> QED
      BY <3>1, <3>2 DEF TypeInv, TypeOK, RoundTypes
  <2>5. ASSUME NEW d \in Shard, NEW m \in AccountStateTx'[d] PROVE IsAccountMsg(m)
    BY <1>4 DEF TypeInv, TypeOK, RoundTypes
  <2>6. overtaken' \in BOOLEAN
    BY <1>4 DEF TypeInv, TypeOK, RoundTypes
  <2>7. \A d \in Shard : \A m \in AccountStateTx'[d] : IsAccountMsg(m)'
    BY <2>5 DEF IsAccountMsg
  <2> QED
    BY <2>1, <2>2, <2>3, <2>4, <2>6, <2>7 DEF RoundTypes
<1>12. Rounds'
  <2>1. ASSUME NEW d \in Shard, d # s
        PROVE  /\ ModifiedMap'[d] = ModifiedMap[d] /\ PartitionOn'[d] = PartitionOn[d]
               /\ AccountTransferRound'[d] = AccountTransferRound[d]
               /\ phase'[d] = phase[d] /\ atm'[d] = atm[d]
    BY <1>3, <1>4, <2>1 DEF TypeInv, TypeOK, RoundTypes
  <2>2. /\ ModifiedMap'[s] = maps /\ PartitionOn'[s] = FALSE
        /\ AccountTransferRound'[s] = r.id /\ phase'[s] = "idle"
    BY <1>3, <1>4, <1>10 DEF TypeInv, TypeOK, RoundTypes
  <2> QED
    BY <1>10, <2>1, <2>2 DEF TypeInv, Rounds
<1> QED
  BY <1>4, <1>7, <1>8, <1>11, <1>12 DEF TypeInv, TypeOK, SupervisorTypes, NetTypes,
                                        supervisorVars, netVars

LEMMA StepKeepsTypes == TypeInv /\ [Next]_vars => TypeInv'
<1> SUFFICES ASSUME TypeInv, [Next]_vars PROVE TypeInv'
  OBVIOUS
<1>1. CASE UNCHANGED vars
  BY <1>1 DEF vars, TypeInv, TypeOK, SupervisorTypes, NetTypes, ChainTypes, ReadyTypes,
              RoundTypes, Rounds, supervisorVars, netVars, chainVars, readyVars, roundVars
<1>2. ASSUME NEW s \in Shard, ShardStep(s) PROVE TypeInv'
  BY <1>2, BlockKeepsTypes, ReadyKeepsTypes, SendKeepsTypes, ProposeKeepsTypes,
     TransferKeepsTypes DEF ShardStep
<1> QED
  BY <1>1, <1>2, SupervisorKeepsTypes, DeliveryKeepsTypes, Zenon DEF Next

\* Every state of a run is well formed: in particular a shard that is in a
\* partition has a map for its round, so RoundMap and LastMap read a map that
\* is there (handlePartitionMsg, proposePartition, accountTransfer_do).
THEOREM TransferIsTyped == Spec => []TypeOK
<1>1. Spec => []TypeInv
  BY TransferStarts, StepKeepsTypes, PTL DEF Spec
<1> QED
  BY <1>1, PTL DEF TypeInv

-----------------------------------------------------------------------------
(* The rounds of the shards.                                                *)
(*                                                                          *)
(* A shard is ready for a round before it sends accounts, everybody is ready *)
(* before anybody sends, and everybody has sent before anybody is done.  The *)
(* shards are at most one round apart, and they go through the same maps.    *)

Exchanging(s) == phase[s] \in {"collect", "proposed"}

\* The last round that shard s is ready for, and the last one it sent for.
Readied(s) == AccountTransferRound[s] + IF phase[s] = "idle" THEN 0 ELSE 1
SentFor(s) == AccountTransferRound[s] + IF Exchanging(s) THEN 1 ELSE 0

\* A shard has one map more than rounds while a partition is on, and proposes
\* that map.
Clock ==
    \A s \in Shard :
        /\ Len(ModifiedMap[s]) = AccountTransferRound[s] + IF PartitionOn[s] THEN 1 ELSE 0
        /\ phase[s] = "proposed" =>
             /\ CollectOver[s]
             /\ \E r \in ToSet(atm[s]) : /\ atm[s] = <<r>>
                                         /\ r.map = RoundMap(s)
                                         /\ r.id = AccountTransferRound[s] + 1

Barrier ==
    \A s, d \in Shard : SentFor(s) <= Readied(d) /\ AccountTransferRound[d] <= SentFor(s)

\* Who a shard knows to be ready is, and a message that says so is news.
KnownReady ==
    /\ \A s \in Shard : \A d \in PartitionReady[s] \ {s} :
         Exchanging(s) \/ Readied(d) > AccountTransferRound[s]
    /\ \A m \in readyMsg :
         /\ m.from # m.to
         /\ Readied(m.from) > SentFor(m.to)
         /\ m.from \in PartitionReady[m.to] => Exchanging(m.to)
    /\ \A m, n \in readyMsg : m.from = n.from /\ m.to = n.to => m = n

Coming(s) == {m \in accountMsg : m.to = s}

\* The transactions of a message are for accounts that move to shard s.
Fits(s, m) ==
    \A item \in ToSet(m.txs) :
        Carrier(item) \in DOMAIN RoundMap(s) /\ RoundMap(s)[Carrier(item)] = s

\* What a shard has got or will get is for the round that it is in, once from
\* every shard.
Exchange ==
    \A s \in Shard :
        /\ \A m \in AccountStateTx[s] \cup Coming(s) :
             /\ m.from # s /\ SentFor(m.from) > AccountTransferRound[s]
             /\ phase[s] # "idle" /\ Fits(s, m)
        /\ \A m, n \in AccountStateTx[s] : m.from = n.from => m = n
        /\ \A m, n \in Coming(s) : m.from = n.from => m = n
        /\ \A m \in Coming(s), n \in AccountStateTx[s] : m.from # n.from
        /\ CollectOver[s] => \A d \in Shard \ {s} : \E m \in AccountStateTx[s] : m.from = d

\* A shard has every map of the supervisor, or all but the last and that one on
\* the way; the shards and the messages agree on the maps.
SameMaps ==
    /\ \A m \in partitionMsg : m.round = clpaCnt /\ Len(ModifiedMap[m.to]) = clpaCnt - 1
    /\ \A s \in Shard : (\A m \in partitionMsg : m.to # s) => Len(ModifiedMap[s]) = clpaCnt
    /\ \A m, n \in partitionMsg : m.map = n.map
    /\ \A m \in partitionMsg, s \in Shard :
         Len(ModifiedMap[s]) = clpaCnt => ModifiedMap[s][clpaCnt] = m.map
    /\ \A s, d \in Shard : \A i \in 1 .. Len(ModifiedMap[s]) :
         i <= Len(ModifiedMap[d]) => ModifiedMap[s][i] = ModifiedMap[d][i]

\* What the supervisor was told of rounds that are done.
Reported ==
    /\ \A m \in info : m.epoch <= AccountTransferRound[m.from]
    /\ \E s \in Shard : curEpoch <= AccountTransferRound[s]

\* Shards in the same round have the same map; one that is ahead has applied
\* the moves of the round that the other is in.
SameOwners ==
    \A s, d \in Shard :
        /\ AccountTransferRound[s] = AccountTransferRound[d] => PartitionMap[s] = PartitionMap[d]
        /\ AccountTransferRound[d] = AccountTransferRound[s] + 1 =>
             PartitionMap[d] = Updated(PartitionMap[s], RoundMap(s))

InStep == Clock /\ Barrier /\ KnownReady /\ Exchange /\ SameMaps /\ Reported /\ SameOwners

StepInv == ~overtaken => InStep

\* The counters of a shard.
LEMMA Counters ==
    ASSUME TypeInv, NEW s \in Shard
    PROVE  /\ AccountTransferRound[s] \in Nat /\ Readied(s) \in Nat /\ SentFor(s) \in Nat
           /\ AccountTransferRound[s] <= SentFor(s) /\ SentFor(s) <= Readied(s)
           /\ Readied(s) <= AccountTransferRound[s] + 1
           /\ phase[s] = "idle" => Readied(s) = AccountTransferRound[s]
           /\ phase[s] # "idle" => Readied(s) = AccountTransferRound[s] + 1
           /\ Exchanging(s) => SentFor(s) = AccountTransferRound[s] + 1
           /\ ~Exchanging(s) => SentFor(s) = AccountTransferRound[s]
           /\ Len(ModifiedMap[s]) \in Nat
  BY DEF TypeInv, TypeOK, RoundTypes, Readied, SentFor, Exchanging

\* A shard that is ready for a round has its map.
LEMMA ReadyHasMap ==
    ASSUME TypeInv, Clock, NEW s \in Shard
    PROVE  Readied(s) <= Len(ModifiedMap[s])
<1>1. phase[s] # "idle" => PartitionOn[s]
  BY DEF TypeInv, Rounds
<1>2. Len(ModifiedMap[s]) = AccountTransferRound[s] + IF PartitionOn[s] THEN 1 ELSE 0
  BY DEF Clock
<1> QED
  BY <1>1, <1>2, Counters

LEMMA InStepStarts == Init => InStep
<1> SUFFICES ASSUME Init PROVE InStep
  OBVIOUS
<1>1. /\ \A s \in Shard : /\ phase[s] = "idle" /\ ModifiedMap[s] = <<>> /\ AccountTransferRound[s] = 0
                          /\ PartitionOn[s] = FALSE /\ PartitionReady[s] = {}
                          /\ AccountStateTx[s] = {} /\ CollectOver[s] = FALSE
                          /\ PartitionMap[s] = Addr2Shard
      /\ readyMsg = {} /\ accountMsg = {} /\ partitionMsg = {} /\ info = {}
      /\ clpaCnt = 0 /\ curEpoch = 0
  BY DEF Init
<1>2. Clock
  <2>1. \A s \in Shard : Len(ModifiedMap[s]) = 0
    BY <1>1, EmptySequence
  <2>2. \A s \in Shard : phase[s] # "proposed"
    BY <1>1
  <2>3. \A s \in Shard : AccountTransferRound[s] + (IF PartitionOn[s] THEN 1 ELSE 0) = 0
    BY <1>1
  <2> QED
    BY <2>1, <2>2, <2>3 DEF Clock
<1>3. Barrier
  BY <1>1 DEF Barrier, SentFor, Readied, Exchanging
<1>4. KnownReady
  BY <1>1 DEF KnownReady
<1>5. Exchange
  BY <1>1 DEF Exchange, Coming
<1>6. SameMaps
  BY <1>1, EmptySequence DEF SameMaps
<1>7. Reported
  <2>1. 0 \in Shard
    BY TransferAssumption DEF Shard
  <2> QED
    BY <1>1, <2>1 DEF Reported
<1>8. SameOwners
  BY <1>1 DEF SameOwners
<1> QED
  BY <1>2, <1>3, <1>4, <1>5, <1>6, <1>7, <1>8 DEF InStep

\* What the invariant depends on, part by part.
mapVars   == <<ModifiedMap, AccountTransferRound, PartitionOn, phase>>

LEMMA SameRounds ==
    ASSUME UNCHANGED <<AccountTransferRound, phase>>
    PROVE  \A s : Readied(s)' = Readied(s) /\ SentFor(s)' = SentFor(s) /\ Exchanging(s)' = Exchanging(s)
  BY DEF Readied, SentFor, Exchanging

LEMMA ClockStays ==
    ASSUME Clock, UNCHANGED <<mapVars, CollectOver, atm>> PROVE Clock'
  BY DEF Clock, mapVars, RoundMap

LEMMA BarrierStays ==
    ASSUME Barrier, UNCHANGED mapVars PROVE Barrier'
  BY SameRounds DEF Barrier, mapVars

LEMMA KnownReadyStays ==
    ASSUME KnownReady, UNCHANGED <<mapVars, readyMsg, PartitionReady>> PROVE KnownReady'
  BY SameRounds DEF KnownReady, mapVars

LEMMA ExchangeStays ==
    ASSUME Exchange, UNCHANGED <<mapVars, accountMsg, AccountStateTx, CollectOver>> PROVE Exchange'
<1>1. \A s : SentFor(s)' = SentFor(s)
  BY SameRounds DEF mapVars
<1>2. \A s, m : Fits(s, m)' = Fits(s, m)
  BY DEF Fits, RoundMap, Carrier, mapVars
<1>3. \A s : Coming(s)' = Coming(s)
  BY DEF Coming
<1> QED
  BY <1>1, <1>2, <1>3 DEF Exchange, mapVars

LEMMA SameMapsStay ==
    ASSUME SameMaps, UNCHANGED <<clpaCnt, partitionMsg, ModifiedMap>> PROVE SameMaps'
  BY DEF SameMaps

LEMMA ReportedStays ==
    ASSUME Reported, UNCHANGED <<info, curEpoch, AccountTransferRound>> PROVE Reported'
  BY DEF Reported

LEMMA SameOwnersStay ==
    ASSUME SameOwners, UNCHANGED <<mapVars, PartitionMap>> PROVE SameOwners'
  BY DEF SameOwners, RoundMap, Updated, mapVars

\* The steps that have nothing to do with rounds, and reports of blocks.
LEMMA OthersInStep ==
    ASSUME TypeInv, InStep,
           \/ txSending \/ (\E m \in info : HandleBlockInfo(m))
           \/ (\E m \in inject : handleInjectTx(m)) \/ (\E m \in relay : handleRelay(m))
           \/ (\E s \in Shard : Block(s)) \/ UNCHANGED vars
    PROVE  InStep'
<1> DEFINE Same == UNCHANGED <<mapVars, CollectOver, atm, readyMsg, PartitionReady, accountMsg,
                               AccountStateTx, clpaCnt, partitionMsg, PartitionMap>>
<1>1. ASSUME Same, Reported' PROVE InStep'
  <2>1. /\ UNCHANGED <<mapVars, CollectOver, atm>> /\ UNCHANGED mapVars
        /\ UNCHANGED <<mapVars, readyMsg, PartitionReady>>
        /\ UNCHANGED <<mapVars, accountMsg, AccountStateTx, CollectOver>>
        /\ UNCHANGED <<clpaCnt, partitionMsg, ModifiedMap>>
        /\ UNCHANGED <<mapVars, PartitionMap>>
    BY <1>1 DEF mapVars
  <2> QED
    BY <1>1, <2>1, ClockStays, BarrierStays, KnownReadyStays, ExchangeStays, SameMapsStay,
       SameOwnersStay DEF InStep
<1>2. CASE txSending
  <2>1. Same /\ UNCHANGED <<info, curEpoch, AccountTransferRound>>
    BY <1>2 DEF txSending, mapVars, chainVars, readyVars, roundVars
  <2> QED
    BY <1>1, <2>1, ReportedStays DEF InStep
<1>3. ASSUME NEW m \in info, HandleBlockInfo(m) PROVE InStep'
  <2>1. /\ Same /\ UNCHANGED AccountTransferRound
        /\ info' = info \ {m} /\ curEpoch' = IF curEpoch = m.epoch - 1 THEN m.epoch ELSE curEpoch
    BY <1>3 DEF HandleBlockInfo, mapVars, chainVars, readyVars, roundVars
  <2>2. m.from \in Shard
    BY DEF TypeInv, TypeOK, NetTypes
  <2>3. Reported'
    BY <2>1, <2>2 DEF InStep, Reported
  <2> QED
    BY <1>1, <2>1, <2>3
<1>4. ASSUME NEW m \in inject, handleInjectTx(m) PROVE InStep'
  <2>1. Same /\ UNCHANGED <<info, curEpoch, AccountTransferRound>>
    BY <1>4 DEF handleInjectTx, mapVars, supervisorVars, readyVars, roundVars
  <2> QED
    BY <1>1, <2>1, ReportedStays DEF InStep
<1>5. ASSUME NEW m \in relay, handleRelay(m) PROVE InStep'
  <2>1. Same /\ UNCHANGED <<info, curEpoch, AccountTransferRound>>
    BY <1>5 DEF handleRelay, mapVars, supervisorVars, roundVars
  <2> QED
    BY <1>1, <2>1, ReportedStays DEF InStep
<1>6. ASSUME NEW s \in Shard, Block(s) PROVE InStep'
  <2>1. Same /\ UNCHANGED <<curEpoch, AccountTransferRound>>
    BY <1>6 DEF Block, mapVars, supervisorVars, readyVars, roundVars
  <2>2. \E A : info' \subseteq info \cup {[from |-> s, seq |-> sequenceID[s],
                                           epoch |-> AccountTransferRound[s], vertices |-> A]}
    <3>1. \/ info' = info
          \/ info' = info \cup {[from |-> s, seq |-> sequenceID[s], epoch |-> AccountTransferRound[s],
                                 vertices |-> DoneAccounts(s, Fresh(s))]}
      BY <1>6 DEF Block
    <3> QED
      BY <3>1
  <2>3. AccountTransferRound[s] \in Nat
    BY Counters
  <2>4. Reported'
    BY <2>1, <2>2, <2>3 DEF InStep, Reported
  <2> QED
    BY <1>1, <2>1, <2>4
<1>7. CASE UNCHANGED vars
  <2>1. Same /\ UNCHANGED <<info, curEpoch, AccountTransferRound>>
    BY <1>7 DEF vars, mapVars, supervisorVars, netVars, chainVars, readyVars, roundVars
  <2> QED
    BY <1>1, <2>1, ReportedStays DEF InStep
<1> QED
  BY <1>2, <1>3, <1>4, <1>5, <1>6, <1>7

\* A partition is sent only when every shard has the map of the last one.
LEMMA SupervisorInStep ==
    ASSUME TypeInv, InStep, clpaMapSend
    PROVE  InStep'
<1>1. PICK moves :
         partitionMsg' = partitionMsg \cup
            {[to |-> s, round |-> clpaCnt + 1, map |-> moves] : s \in Shard}
  BY DEF clpaMapSend
<1>2. /\ clpaCnt' = clpaCnt + 1 /\ clpaCnt \in Nat /\ curEpoch = clpaCnt
      /\ UNCHANGED <<mapVars, CollectOver, atm, readyMsg, PartitionReady, accountMsg,
                     AccountStateTx, PartitionMap, info, curEpoch>>
  BY DEF clpaMapSend, Waiting, mapVars, chainVars, readyVars, roundVars,
         TypeInv, TypeOK, SupervisorTypes
<1>3. ASSUME NEW s \in Shard PROVE Len(ModifiedMap[s]) >= clpaCnt
  <2>1. PICK d \in Shard : curEpoch <= AccountTransferRound[d]
    BY DEF InStep, Reported
  <2>2. AccountTransferRound[d] <= SentFor(s) /\ SentFor(s) <= Readied(s)
    BY Counters DEF InStep, Barrier
  <2>3. Readied(s) <= Len(ModifiedMap[s])
    BY ReadyHasMap DEF InStep
  <2>4. /\ AccountTransferRound[d] \in Nat /\ SentFor(s) \in Nat /\ Readied(s) \in Nat
        /\ Len(ModifiedMap[s]) \in Nat
    BY Counters
  <2> QED
    BY <1>2, <2>1, <2>2, <2>3, <2>4
<1>4. partitionMsg = {}
  <2> SUFFICES ASSUME NEW m \in partitionMsg PROVE FALSE
    OBVIOUS
  <2>1. m.to \in Shard /\ Len(ModifiedMap[m.to]) = clpaCnt - 1
    BY DEF InStep, SameMaps, TypeInv, TypeOK, NetTypes
  <2> QED
    BY <1>2, <1>3, <2>1
<1>5. \A s \in Shard : Len(ModifiedMap[s]) = clpaCnt
  BY <1>4 DEF InStep, SameMaps
<1>6. SameMaps'
  <2>1. ModifiedMap' = ModifiedMap
    BY <1>2 DEF mapVars
  <2>2. \A m \in partitionMsg' : m.to \in Shard /\ m.round = clpaCnt + 1 /\ m.map = moves
    BY <1>1, <1>4
  <2>3. ASSUME NEW s \in Shard PROVE \E m \in partitionMsg' : m.to = s
    <3>1. [to |-> s, round |-> clpaCnt + 1, map |-> moves] \in partitionMsg'
      BY <1>1
    <3> QED
      BY <3>1
  <2>4. \A s, d \in Shard : \A i \in 1 .. Len(ModifiedMap[s]) :
           i <= Len(ModifiedMap[d]) => ModifiedMap[s][i] = ModifiedMap[d][i]
    BY DEF InStep, SameMaps
  <2> QED
    BY <1>2, <1>5, <2>1, <2>2, <2>3, <2>4 DEF SameMaps
<1>7. /\ UNCHANGED <<mapVars, CollectOver, atm>> /\ UNCHANGED mapVars
      /\ UNCHANGED <<mapVars, readyMsg, PartitionReady>>
      /\ UNCHANGED <<mapVars, accountMsg, AccountStateTx, CollectOver>>
      /\ UNCHANGED <<info, curEpoch, AccountTransferRound>>
      /\ UNCHANGED <<mapVars, PartitionMap>>
  BY <1>2 DEF mapVars
<1> QED
  BY <1>6, <1>7, ClockStays, BarrierStays, KnownReadyStays, ExchangeStays, ReportedStays,
     SameOwnersStay DEF InStep

\* A map arrives at a shard that is done with the one before.
LEMMA MapInStep ==
    ASSUME TypeInv, InStep, NEW m \in partitionMsg, handlePartitionMsg(m), ~overtaken'
    PROVE  InStep'
<1> DEFINE s == m.to
           n == clpaCnt
<1>1. /\ s \in Shard /\ n \in Nat /\ m \in [to : Shard, round : Nat, map : Moves]
      /\ ModifiedMap \in [Shard -> Seq(Moves)] /\ PartitionOn \in [Shard -> BOOLEAN]
      /\ \A d \in Shard : Len(ModifiedMap[d]) \in Nat
  BY DEF TypeInv, TypeOK, NetTypes, SupervisorTypes, RoundTypes
<1>2. /\ partitionMsg' = partitionMsg \ {m}
      /\ ModifiedMap' = [ModifiedMap EXCEPT ![s] = Append(@, m.map)]
      /\ PartitionOn' = [PartitionOn EXCEPT ![s] = TRUE]
      /\ ~PartitionOn[s]
      /\ UNCHANGED <<AccountTransferRound, phase, CollectOver, atm, readyMsg, PartitionReady,
                     accountMsg, AccountStateTx, PartitionMap, info, curEpoch, clpaCnt>>
  BY DEF handlePartitionMsg, supervisorVars, chainVars, readyVars
<1>3. /\ m.round = n /\ Len(ModifiedMap[s]) = n - 1
      /\ Len(ModifiedMap[s]) = AccountTransferRound[s] /\ phase[s] = "idle"
  BY <1>1, <1>2, Counters DEF InStep, SameMaps, Clock, TypeInv, Rounds
<1> HIDE DEF s, n
<1>4. ModifiedMap'[s] = Append(ModifiedMap[s], m.map)
  BY <1>1, <1>2
<1>5. /\ Len(ModifiedMap'[s]) = n /\ ModifiedMap'[s][n] = m.map
      /\ \A i \in 1 .. n - 1 : ModifiedMap'[s][i] = ModifiedMap[s][i]
  BY <1>1, <1>3, <1>4
<1>6. \A d \in Shard \ {s} : ModifiedMap'[d] = ModifiedMap[d]
  BY <1>1, <1>2
<1>7. \A d \in Shard \ {s} : PartitionOn'[d] = PartitionOn[d]
  BY <1>1, <1>2
<1>8. PartitionOn'[s] = TRUE
  BY <1>1, <1>2
<1>9. \A x : Readied(x)' = Readied(x) /\ SentFor(x)' = SentFor(x) /\ Exchanging(x)' = Exchanging(x)
  BY <1>2, SameRounds
<1>10. \A d \in Shard \ {s} : RoundMap(d)' = RoundMap(d)
  BY <1>2, <1>6 DEF RoundMap
<1>11. Clock'
  <2>1. ASSUME NEW d \in Shard
        PROVE  Len(ModifiedMap'[d]) = AccountTransferRound[d] + IF PartitionOn'[d] THEN 1 ELSE 0
    <3>1. CASE d = s
      BY <1>1, <1>3, <1>5, <1>8, <3>1
    <3>2. CASE d # s
      BY <1>6, <1>7, <3>2 DEF InStep, Clock
    <3> QED
      BY <3>1, <3>2
  <2>2. ASSUME NEW d \in Shard, phase[d] = "proposed"
        PROVE  CollectOver[d] /\ \E r \in ToSet(atm[d]) :
                  atm[d] = <<r>> /\ r.map = RoundMap(d)' /\ r.id = AccountTransferRound[d] + 1
    BY <1>3, <1>10, <2>2 DEF InStep, Clock
  <2> QED
    BY <1>2, <2>1, <2>2 DEF Clock
<1>12. Barrier' /\ KnownReady' /\ Reported'
  BY <1>2, <1>9 DEF InStep, Barrier, KnownReady, Reported
<1>13. Exchange'
  <2>1. \A x : Coming(x)' = Coming(x)
    BY <1>2 DEF Coming
  <2>2. \A d \in Shard \ {s} : \A x : Fits(d, x)' = Fits(d, x)
    BY <1>10 DEF Fits, Carrier
  <2>3. \A x : x \notin AccountStateTx[s] \cup Coming(s)
    BY <1>1, <1>3 DEF InStep, Exchange
  <2> QED
    BY <1>2, <1>9, <2>1, <2>2, <2>3 DEF InStep, Exchange
<1>14. SameMaps'
  <2>1. \A d \in Shard : Len(ModifiedMap[d]) \in {n - 1, n}
    BY DEF InStep, SameMaps, n
  <2>2. ASSUME NEW x \in partitionMsg' PROVE x.to # s /\ x.to \in Shard /\ x.round = n /\ x.map = m.map
    <3>1. x \in partitionMsg /\ x # m /\ x \in [to : Shard, round : Nat, map : Moves]
      BY <1>2 DEF TypeInv, TypeOK, NetTypes
    <3>2. x.round = n /\ x.map = m.map
      BY <3>1 DEF InStep, SameMaps, n
    <3> QED
      BY <1>1, <1>3, <3>1, <3>2 DEF s
  <2>3. \A x \in partitionMsg' : Len(ModifiedMap'[x.to]) = n - 1
    BY <1>2, <1>6, <2>2 DEF InStep, SameMaps, n
  <2>4. ASSUME NEW d \in Shard, \A x \in partitionMsg' : x.to # d PROVE Len(ModifiedMap'[d]) = n
    <3>1. CASE d = s
      BY <1>5, <3>1
    <3>2. CASE d # s
      <4>1. \A x \in partitionMsg : x.to # d
        BY <1>2, <2>4, <3>2 DEF s
      <4> QED
        BY <1>6, <3>2, <4>1 DEF InStep, SameMaps, n
    <3> QED
      BY <3>1, <3>2
  <2>5. ASSUME NEW x \in partitionMsg', NEW d \in Shard, Len(ModifiedMap'[d]) = n
        PROVE  ModifiedMap'[d][n] = x.map
    <3>1. CASE d = s
      BY <1>5, <2>2, <3>1
    <3>2. CASE d # s
      BY <1>2, <1>6, <2>5, <3>2 DEF InStep, SameMaps, n
    <3> QED
      BY <3>1, <3>2
  <2>6. ASSUME NEW d \in Shard \ {s}, NEW i \in 1 .. n, i <= Len(ModifiedMap[d])
        PROVE  ModifiedMap'[s][i] = ModifiedMap[d][i]
    <3>1. CASE i = n
      <4>1. Len(ModifiedMap[d]) = n
        BY <1>1, <2>1, <2>6, <3>1
      <4> QED
        BY <1>5, <3>1, <4>1 DEF InStep, SameMaps, n
    <3>2. CASE i # n
      <4>1. i \in 1 .. n - 1 /\ i \in 1 .. Len(ModifiedMap[s])
        BY <1>1, <1>3, <3>2
      <4> QED
        BY <1>1, <1>5, <2>6, <4>1 DEF InStep, SameMaps
    <3> QED
      BY <3>1, <3>2
  <2>7. ASSUME NEW c \in Shard, NEW d \in Shard, NEW i \in 1 .. Len(ModifiedMap'[c]),
               i <= Len(ModifiedMap'[d])
        PROVE  ModifiedMap'[c][i] = ModifiedMap'[d][i]
    <3>1. CASE c = s /\ d = s
      BY <3>1
    <3>2. CASE c = s /\ d # s
      BY <1>5, <1>6, <2>6, <2>7, <3>2
    <3>3. CASE c # s /\ d = s
      <4>1. i \in 1 .. n /\ i <= Len(ModifiedMap[c])
        BY <1>1, <1>5, <1>6, <2>7, <3>3
      <4> QED
        BY <1>6, <2>6, <3>3, <4>1
    <3>4. CASE c # s /\ d # s
      BY <1>6, <2>7, <3>4 DEF InStep, SameMaps
    <3> QED
      BY <3>1, <3>2, <3>3, <3>4
  <2> QED
    BY <1>2, <2>2, <2>3, <2>4, <2>5, <2>7 DEF SameMaps, n
<1>15. SameOwners'
  <2>1. ASSUME NEW d \in Shard PROVE AccountTransferRound[d] # AccountTransferRound[s] + 1
    <3>1. AccountTransferRound[d] <= SentFor(s) /\ SentFor(s) = AccountTransferRound[s]
      BY <1>1, <1>3, Counters DEF InStep, Barrier, Exchanging
    <3> QED
      BY <1>1, <3>1, Counters
  <2>2. ASSUME NEW c \in Shard, NEW d \in Shard,
               AccountTransferRound[d] = AccountTransferRound[c] + 1
        PROVE  PartitionMap[d] = Updated(PartitionMap[c], RoundMap(c)')
    <3>1. c # s
      BY <2>1, <2>2
    <3> QED
      BY <1>10, <2>2, <3>1 DEF InStep, SameOwners
  <2>3. \A c, d : Updated(PartitionMap[c], RoundMap(d))' = Updated(PartitionMap[c], RoundMap(d)')
    BY <1>2 DEF Updated
  <2> QED
    BY <1>2, <2>2, <2>3 DEF InStep, SameOwners
<1> QED
  BY <1>11, <1>12, <1>13, <1>14, <1>15 DEF InStep

\* A shard hears that another one is ready.
LEMMA ReadyHeardInStep ==
    ASSUME TypeInv, InStep, NEW m \in readyMsg, handlePartitionReady(m)
    PROVE  InStep'
<1>1. m.to \in Shard /\ m.from \in Shard /\ PartitionReady \in [Shard -> SUBSET Shard]
  BY DEF TypeInv, TypeOK, NetTypes, ReadyTypes
<1>2. /\ readyMsg' = readyMsg \ {m}
      /\ PartitionReady' = [PartitionReady EXCEPT ![m.to] = @ \cup {m.from}]
      /\ UNCHANGED <<mapVars, CollectOver, atm, accountMsg, AccountStateTx, clpaCnt, partitionMsg,
                     PartitionMap, info, curEpoch>>
  BY DEF handlePartitionReady, mapVars, supervisorVars, chainVars, roundVars
<1>3. UNCHANGED AccountTransferRound
  BY <1>2 DEF mapVars
<1>4. \A x : Readied(x)' = Readied(x) /\ SentFor(x)' = SentFor(x) /\ Exchanging(x)' = Exchanging(x)
  BY <1>2, SameRounds DEF mapVars
<1>5. \A d \in Shard : PartitionReady'[d] = IF d = m.to THEN PartitionReady[d] \cup {m.from}
                                            ELSE PartitionReady[d]
  BY <1>1, <1>2
<1>6. KnownReady'
  <2>1. ASSUME NEW s \in Shard, NEW d \in PartitionReady'[s] \ {s}
        PROVE  Exchanging(s) \/ Readied(d) > AccountTransferRound[s]
    <3>1. CASE s = m.to /\ d = m.from
      <4>1. Readied(d) > SentFor(s)
        BY <3>1 DEF InStep, KnownReady
      <4>2. d \in Shard
        BY <1>1, <3>1
      <4> QED
        BY <4>1, <4>2, Counters
    <3>2. CASE ~(s = m.to /\ d = m.from)
      <4>1. d \in PartitionReady[s] \ {s}
        BY <1>5, <3>2
      <4> QED
        BY <4>1 DEF InStep, KnownReady
    <3> QED
      BY <3>1, <3>2
  <2>2. ASSUME NEW x \in readyMsg'
        PROVE  /\ x.from # x.to /\ Readied(x.from) > SentFor(x.to)
               /\ x.from \in PartitionReady'[x.to] => Exchanging(x.to)
    <3>1. x \in readyMsg /\ x # m /\ x.to \in Shard
      BY <1>2 DEF TypeInv, TypeOK, NetTypes
    <3>2. ~(x.to = m.to /\ x.from = m.from)
      BY <3>1 DEF InStep, KnownReady
    <3> QED
      BY <1>5, <3>1, <3>2 DEF InStep, KnownReady
  <2>3. \A x, y \in readyMsg' : x.from = y.from /\ x.to = y.to => x = y
    BY <1>2 DEF InStep, KnownReady
  <2> QED
    BY <1>3, <1>4, <2>1, <2>2, <2>3 DEF KnownReady
<1>7. /\ UNCHANGED <<mapVars, CollectOver, atm>> /\ UNCHANGED mapVars
      /\ UNCHANGED <<mapVars, accountMsg, AccountStateTx, CollectOver>>
      /\ UNCHANGED <<clpaCnt, partitionMsg, ModifiedMap>>
      /\ UNCHANGED <<info, curEpoch, AccountTransferRound>>
      /\ UNCHANGED <<mapVars, PartitionMap>>
  BY <1>2 DEF mapVars
<1> QED
  BY <1>6, <1>7, ClockStays, BarrierStays, ExchangeStays, SameMapsStay, ReportedStays,
     SameOwnersStay DEF InStep

\* As many messages as there are other shards, one from each, are from all of them.
LEMMA AllSenders ==
    ASSUME NEW s \in Shard, NEW M, AllCollected(M),
           \A m \in M : m.from \in Shard \ {s},
           \A m, n \in M : m.from = n.from => m = n
    PROVE  \A d \in Shard \ {s} : \E m \in M : m.from = d
<1> DEFINE F == {m.from : m \in M}
           f == [m \in M |-> m.from]
<1>1. IsFiniteSet(Shard) /\ Cardinality(Shard) = ShardNum
  <2>1. 0 \in Int /\ ShardNum - 1 \in Int /\ ~(0 > ShardNum - 1) /\ ShardNum - 1 - 0 + 1 = ShardNum
    BY TransferAssumption
  <2>2. /\ IsFiniteSet(0 .. ShardNum - 1)
        /\ Cardinality(0 .. ShardNum - 1) = IF 0 > ShardNum - 1 THEN 0 ELSE ShardNum - 1 - 0 + 1
    BY <2>1, FS_Interval, Zenon
  <2> QED
    BY <2>1, <2>2 DEF Shard
<1>2. IsFiniteSet(Shard \ {s}) /\ Cardinality(Shard \ {s}) = ShardNum - 1
  BY <1>1, FS_RemoveElement
<1>3. IsFiniteSet(F)
  BY <1>2, FS_Subset
<1>4. f \in Bijection(M, F)
  BY Fun_IsBij
<1>5. ExistsBijection(F, M)
  BY <1>4, Fun_ExistsBijSymmetric DEF ExistsBijection
<1>6. Cardinality(F) = ShardNum - 1
  BY <1>3, <1>5, FS_Bijection DEF AllCollected
<1>7. F = Shard \ {s}
  BY <1>2, <1>6, FS_Subset
<1> QED
  BY <1>7

\* A shard gets the accounts and transactions of another one.
LEMMA AccountsInStep ==
    ASSUME TypeInv, InStep, NEW m \in accountMsg, handleAccountStateAndTxMsg(m)
    PROVE  InStep'
<1> DEFINE s == m.to
           got == Collected(s, m)
<1>1. s \in Shard /\ DOMAIN AccountStateTx = Shard /\ CollectOver \in [Shard -> BOOLEAN]
  BY DEF TypeInv, TypeOK, NetTypes, IsAccountMsg, RoundTypes
<1>2. /\ accountMsg' = accountMsg \ {m}
      /\ AccountStateTx' = [AccountStateTx EXCEPT ![s] = got]
      /\ CollectOver' = [CollectOver EXCEPT ![s] = @ \/ AllCollected(got)]
      /\ UNCHANGED <<mapVars, atm, readyMsg, PartitionReady, clpaCnt, partitionMsg,
                     PartitionMap, info, curEpoch>>
  BY DEF handleAccountStateAndTxMsg, mapVars, supervisorVars, chainVars, readyVars
<1>3. /\ m \in Coming(s)
      /\ \A d : \A x \in Coming(d)' : x \in Coming(d) /\ x # m
  BY <1>2 DEF Coming
<1>4. got = AccountStateTx[s] \cup {m}
  BY <1>1, <1>3 DEF Collected, InStep, Exchange
<1> HIDE DEF got
<1>5. /\ AccountStateTx'[s] = AccountStateTx[s] \cup {m}
      /\ \A d \in Shard \ {s} : AccountStateTx'[d] = AccountStateTx[d]
  BY <1>1, <1>2, <1>4
<1>6. CollectOver'[s] => CollectOver[s] \/ AllCollected(got)
  BY <1>1, <1>2
<1>7. \A d \in Shard \ {s} : CollectOver'[d] = CollectOver[d]
  BY <1>1, <1>2
<1>8. CollectOver[s] => CollectOver'[s]
  BY <1>1, <1>2
<1>9. UNCHANGED <<AccountTransferRound, phase, ModifiedMap>>
  BY <1>2 DEF mapVars
<1>10. /\ \A x : SentFor(x)' = SentFor(x)
       /\ \A d, x : Fits(d, x)' = Fits(d, x)
  BY <1>9, SameRounds DEF Fits, RoundMap, Carrier
<1>11. Clock'
  <2>1. \A d \in Shard : CollectOver[d] => CollectOver'[d]
    BY <1>7, <1>8
  <2> QED
    BY <1>2, <2>1 DEF InStep, Clock, RoundMap, mapVars
<1>12. ASSUME NEW d \in Shard, NEW x \in AccountStateTx'[d] \cup Coming(d)'
       PROVE  /\ x.from # d /\ SentFor(x.from) > AccountTransferRound[d]
              /\ phase[d] # "idle" /\ Fits(d, x)
  <2>1. x \in AccountStateTx[d] \cup Coming(d)
    BY <1>3, <1>5
  <2> QED
    BY <2>1 DEF InStep, Exchange
<1>13. ASSUME NEW d \in Shard
       PROVE  /\ \A x, y \in AccountStateTx'[d] : x.from = y.from => x = y
              /\ \A x, y \in Coming(d)' : x.from = y.from => x = y
              /\ \A x \in Coming(d)', y \in AccountStateTx'[d] : x.from # y.from
  <2>1. CASE d = s
    BY <1>1, <1>3, <1>5, <2>1 DEF InStep, Exchange
  <2>2. CASE d # s
    BY <1>3, <1>5, <2>2 DEF InStep, Exchange
  <2> QED
    BY <2>1, <2>2
<1>14. ASSUME NEW d \in Shard, CollectOver'[d], NEW c \in Shard \ {d}
       PROVE  \E x \in AccountStateTx'[d] : x.from = c
  <2>1. CASE CollectOver[d]
    BY <1>5, <2>1 DEF InStep, Exchange
  <2>2. CASE d = s /\ AllCollected(got)
    <3>1. \A x \in got : x.from \in Shard
      BY <1>4 DEF TypeInv, TypeOK, NetTypes, RoundTypes, IsAccountMsg
    <3>2. \A x \in got : x.from # s
      BY <1>1, <1>4, <1>5, <1>12
    <3>3. \A x, y \in got : x.from = y.from => x = y
      BY <1>1, <1>4, <1>5, <1>13
    <3>4. \A e \in Shard \ {s} : \E x \in got : x.from = e
      BY <1>1, <2>2, <3>1, <3>2, <3>3, AllSenders
    <3> QED
      BY <1>4, <1>5, <2>2, <3>4
  <2> QED
    BY <1>6, <1>7, <1>14, <2>1, <2>2
<1>15. Exchange'
  BY <1>9, <1>10, <1>12, <1>13, <1>14 DEF Exchange
<1>16. /\ UNCHANGED mapVars /\ UNCHANGED <<mapVars, readyMsg, PartitionReady>>
      /\ UNCHANGED <<clpaCnt, partitionMsg, ModifiedMap>>
      /\ UNCHANGED <<info, curEpoch, AccountTransferRound>>
      /\ UNCHANGED <<mapVars, PartitionMap>>
  BY <1>2 DEF mapVars
<1> QED
  BY <1>11, <1>15, <1>16, BarrierStays, KnownReadyStays, SameMapsStay, ReportedStays,
     SameOwnersStay DEF InStep

\* A shard announces that it is ready.
LEMMA ReadyInStep ==
    ASSUME TypeInv, InStep, NEW s \in Shard, sendPartitionReady(s)
    PROVE  InStep'
<1> DEFINE r == AccountTransferRound[s]
<1>1. /\ phase[s] = "idle" /\ phase' = [phase EXCEPT ![s] = "ready"]
      /\ PartitionReady' = [PartitionReady EXCEPT ![s] = @ \cup {s}]
      /\ readyMsg' = readyMsg \cup
            {[from |-> s, to |-> d, seq |-> sequenceID[s]] : d \in Shard \ {s}}
      /\ UNCHANGED <<ModifiedMap, AccountTransferRound, PartitionOn, CollectOver, atm, accountMsg,
                     AccountStateTx, clpaCnt, partitionMsg, PartitionMap, info, curEpoch>>
  BY DEF sendPartitionReady, supervisorVars, chainVars
<1>2. /\ phase'[s] = "ready"
      /\ \A d \in Shard \ {s} : phase'[d] = phase[d]
      /\ \A d \in Shard : PartitionReady'[d] \subseteq PartitionReady[d] \cup {s}
      /\ \A d \in Shard \ {s} : PartitionReady'[d] = PartitionReady[d]
  BY <1>1 DEF TypeInv, TypeOK, RoundTypes, ReadyTypes
<1>3. /\ Readied(s) = r /\ Readied(s)' = r + 1 /\ r \in Nat
      /\ \A d \in Shard : SentFor(d)' = SentFor(d) /\ Exchanging(d)' = Exchanging(d)
      /\ \A d \in Shard \ {s} : Readied(d)' = Readied(d)
  BY <1>1, <1>2, Counters DEF Readied, SentFor, Exchanging
<1>4. \A d \in Shard : Readied(d)' >= Readied(d) /\ Readied(d)' \in Nat
  BY <1>3, Counters
<1>5. Clock'
  BY <1>1, <1>2 DEF InStep, Clock, RoundMap
<1>6. Barrier'
  <2>1. ASSUME NEW c \in Shard, NEW d \in Shard PROVE SentFor(c) <= Readied(d)'
    <3>1. SentFor(c) <= Readied(d) /\ SentFor(c) \in Nat /\ Readied(d) \in Nat
      BY Counters DEF InStep, Barrier
    <3> QED
      BY <1>4, <3>1
  <2> QED
    BY <1>1, <1>3, <2>1 DEF InStep, Barrier
<1>7. ASSUME NEW d \in Shard \ {s} PROVE SentFor(d) = r
  <2>1. SentFor(d) <= r /\ r <= SentFor(d)
    BY <1>3 DEF InStep, Barrier
  <2> QED
    BY <1>3, <2>1, Counters
<1>8. KnownReady'
  <2>1. ASSUME NEW c \in Shard, NEW d \in PartitionReady'[c] \ {c}
        PROVE  Exchanging(c) \/ Readied(d)' > AccountTransferRound[c]
    <3>1. d \in PartitionReady[c] \ {c} /\ d \in Shard
      BY <1>2 DEF TypeInv, TypeOK, ReadyTypes
    <3>2. Exchanging(c) \/ Readied(d) > AccountTransferRound[c]
      BY <3>1 DEF InStep, KnownReady
    <3> QED
      BY <1>4, <3>1, <3>2, Counters
  <2>2. ASSUME NEW x \in readyMsg
        PROVE  /\ x.from # x.to /\ Readied(x.from)' > SentFor(x.to)
               /\ x.from \in PartitionReady'[x.to] => Exchanging(x.to)
               /\ x.from # s
    <3>1. /\ x.from \in Shard /\ x.to \in Shard /\ x.from # x.to /\ Readied(x.from) > SentFor(x.to)
          /\ x.from \in PartitionReady[x.to] => Exchanging(x.to)
      BY DEF TypeInv, TypeOK, NetTypes, InStep, KnownReady
    <3>2. x.from # s
      BY <1>3, <1>7, <3>1
    <3> QED
      BY <1>2, <1>3, <3>1, <3>2
  <2>3. ASSUME NEW d \in Shard \ {s}
        PROVE  Readied(s)' > SentFor(d) /\ (s \in PartitionReady'[d] => Exchanging(d))
    <3>1. Readied(s)' > SentFor(d)
      BY <1>3, <1>7
    <3>2. ASSUME s \in PartitionReady[d], ~Exchanging(d) PROVE FALSE
      <4>1. Readied(s) > AccountTransferRound[d]
        BY <3>2 DEF InStep, KnownReady
      <4>2. AccountTransferRound[d] = r
        BY <1>7, <3>2, Counters
      <4> QED
        BY <1>3, <4>1, <4>2
    <3> QED
      BY <1>2, <3>1, <3>2
  <2>4. \A x \in readyMsg' : x \in readyMsg \/ \E d \in Shard \ {s} :
                               x = [from |-> s, to |-> d, seq |-> sequenceID[s]]
    BY <1>1
  <2>5. ASSUME NEW x \in readyMsg'
        PROVE  /\ x.from # x.to /\ Readied(x.from)' > SentFor(x.to)
               /\ x.from \in PartitionReady'[x.to] => Exchanging(x.to)
    BY <2>2, <2>3, <2>4
  <2>6. ASSUME NEW x \in readyMsg', NEW y \in readyMsg', x.from = y.from, x.to = y.to
        PROVE  x = y
    <3>1. CASE x \in readyMsg /\ y \in readyMsg
      BY <2>6, <3>1 DEF InStep, KnownReady
    <3>2. CASE ~(x \in readyMsg /\ y \in readyMsg)
      <4>1. x \notin readyMsg /\ y \notin readyMsg
        BY <2>2, <2>4, <2>6, <3>2
      <4> QED
        BY <2>4, <2>6, <4>1
    <3> QED
      BY <3>1, <3>2
  <2>7. \A x \in readyMsg' : x.from \in Shard /\ x.to \in Shard
    BY <2>4 DEF TypeInv, TypeOK, NetTypes
  <2> QED
    BY <1>1, <1>3, <2>1, <2>5, <2>6, <2>7 DEF KnownReady
<1>9. Exchange'
  <2>1. \A d : Coming(d)' = Coming(d)
    BY <1>1 DEF Coming
  <2>2. \A d, x : Fits(d, x)' = Fits(d, x)
    BY <1>1 DEF Fits, RoundMap, Carrier
  <2>3. \A d \in Shard : \A x \in AccountStateTx[d] \cup Coming(d) : x.from \in Shard
    BY DEF TypeInv, TypeOK, NetTypes, RoundTypes, IsAccountMsg, Coming
  <2>4. \A d \in Shard : phase[d] # "idle" => phase'[d] # "idle"
    BY <1>2
  <2> QED
    BY <1>1, <1>3, <2>1, <2>2, <2>3, <2>4 DEF InStep, Exchange
<1>10. SameMaps' /\ Reported'
  BY <1>1, SameMapsStay, ReportedStays DEF InStep
<1>11. SameOwners'
  BY <1>1 DEF InStep, SameOwners, RoundMap, Updated
<1> QED
  BY <1>5, <1>6, <1>8, <1>9, <1>10, <1>11 DEF InStep

\* A shard sends its accounts: everybody else is in the same round, and ready.
LEMMA SendInStep ==
    ASSUME TypeInv, InStep, NEW s \in Shard, sendAccounts_and_Txs(s)
    PROVE  InStep'
<1> DEFINE r == AccountTransferRound[s]
           With(d) == {k \in DOMAIN TxQueue[s] : LeavesWith(s, d, TxQueue[s][k])}
           Msg(d) == [from |-> s, to |-> d,
                      states |-> [a \in Leaving(s, d) |-> balance[s][a]],
                      txs    |-> Kept(TxQueue[s], With(d))]
<1>1. /\ phase[s] = "ready" /\ PartitionReady[s] = Shard
      /\ accountMsg' = accountMsg \cup {Msg(d) : d \in Shard \ {s}}
      /\ phase' = [phase EXCEPT ![s] = "collect"]
  BY DEF sendAccounts_and_Txs, getPartitionReady
<1>2. UNCHANGED <<ModifiedMap, AccountTransferRound, PartitionOn, CollectOver, atm, readyMsg,
                  PartitionReady, AccountStateTx, clpaCnt, partitionMsg, PartitionMap, info, curEpoch>>
  BY DEF sendAccounts_and_Txs, supervisorVars, readyVars
<1>3. phase'[s] = "collect" /\ \A d \in Shard \ {s} : phase'[d] = phase[d]
  BY <1>1 DEF TypeInv, TypeOK, RoundTypes
<1>4. /\ r \in Nat /\ Readied(s) = r + 1 /\ SentFor(s) = r /\ SentFor(s)' = r + 1
      /\ ~Exchanging(s) /\ Exchanging(s)'
      /\ \A d \in Shard : Readied(d)' = Readied(d)
      /\ \A d \in Shard \ {s} : SentFor(d)' = SentFor(d) /\ Exchanging(d)' = Exchanging(d)
  BY <1>1, <1>2, <1>3, Counters DEF Readied, SentFor, Exchanging
<1>5. \A d \in Shard : SentFor(d)' >= SentFor(d) /\ SentFor(d)' \in Nat
  BY <1>4, Counters
<1>6. ASSUME NEW d \in Shard \ {s}
      PROVE  Readied(d) = r + 1 /\ AccountTransferRound[d] = r /\ phase[d] # "idle"
  <2>1. Readied(d) > r
    BY <1>1, <1>4 DEF InStep, KnownReady
  <2>2. AccountTransferRound[d] <= r
    BY <1>4 DEF InStep, Barrier
  <2> QED
    BY <1>4, <2>1, <2>2, Counters
<1>7. Clock'
  BY <1>2, <1>3 DEF InStep, Clock, RoundMap
<1>8. Barrier'
  <2>1. ASSUME NEW c \in Shard, NEW d \in Shard
        PROVE  SentFor(c)' <= Readied(d) /\ AccountTransferRound[d] <= SentFor(c)'
    <3>1. /\ SentFor(c) <= Readied(d) /\ AccountTransferRound[d] <= SentFor(c)
          /\ SentFor(c) \in Nat /\ Readied(d) \in Nat /\ AccountTransferRound[d] \in Nat
      BY Counters DEF InStep, Barrier
    <3>2. AccountTransferRound[d] <= SentFor(c)'
      BY <1>5, <3>1
    <3>3. SentFor(c)' <= Readied(d)
      BY <1>4, <1>6, <3>1
    <3> QED
      BY <3>2, <3>3
  <2> QED
    BY <1>2, <1>4, <2>1 DEF Barrier
<1>9. KnownReady'
  <2>1. ASSUME NEW x \in readyMsg
        PROVE  /\ x.from \in Shard /\ x.to \in Shard \ {s}
               /\ x.from # x.to /\ Readied(x.from) > SentFor(x.to)
               /\ x.from \in PartitionReady[x.to] => Exchanging(x.to)
    <3>1. /\ x.from \in Shard /\ x.to \in Shard /\ x.from # x.to /\ Readied(x.from) > SentFor(x.to)
          /\ x.from \in PartitionReady[x.to] => Exchanging(x.to)
      BY DEF TypeInv, TypeOK, NetTypes, InStep, KnownReady
    <3>2. x.to # s
      BY <1>1, <1>4, <3>1
    <3> QED
      BY <3>1, <3>2
  <2>2. ASSUME NEW c \in Shard, NEW d \in PartitionReady[c] \ {c}
        PROVE  Exchanging(c)' \/ Readied(d)' > AccountTransferRound[c]
    <3>1. d \in Shard
      BY DEF TypeInv, TypeOK, ReadyTypes
    <3>2. Exchanging(c) \/ Readied(d) > AccountTransferRound[c]
      BY DEF InStep, KnownReady
    <3> QED
      BY <1>4, <3>1, <3>2
  <2>3. \A x, y \in readyMsg : x.from = y.from /\ x.to = y.to => x = y
    BY DEF InStep, KnownReady
  <2> QED
    BY <1>2, <1>4, <2>1, <2>2, <2>3 DEF KnownReady
<1>10. ASSUME NEW d \in Shard \ {s} PROVE Fits(d, Msg(d))
  <2>1. ModifiedMap[s] \in Seq(Moves) /\ ModifiedMap[d] \in Seq(Moves) /\ TxQueue[s] \in Seq(Item)
    BY DEF TypeInv, TypeOK, RoundTypes, ChainTypes
  <2>2. Len(ModifiedMap[s]) = r + 1
    <3>1. PartitionOn[s]
      BY <1>1 DEF TypeInv, Rounds
    <3> QED
      BY <3>1 DEF InStep, Clock
  <2>3. r + 1 <= Len(ModifiedMap[d])
    BY <1>6, ReadyHasMap DEF InStep
  <2>4. ModifiedMap[s][r + 1] = ModifiedMap[d][r + 1]
    <3>1. r + 1 \in 1 .. Len(ModifiedMap[s])
      BY <1>4, <2>2
    <3> QED
      BY <2>3, <3>1 DEF InStep, SameMaps
  <2>5. RoundMap(d) = LastMap(s)
    BY <1>6, <2>2, <2>4 DEF RoundMap, LastMap
  <2>6. ASSUME NEW item \in ToSet(Kept(TxQueue[s], With(d)))
        PROVE  Carrier(item) \in Leaving(s, d)
    <3> DEFINE P == With(d)
               out == Kept(TxQueue[s], P)
    <3> HIDE DEF P
    <3>1. \A i \in DOMAIN out : \E p \in P \cap DOMAIN TxQueue[s] : out[i] = TxQueue[s][p]
      BY <2>1, KeptItems
    <3> HIDE DEF out
    <3>2. PICK i \in DOMAIN out : item = out[i]
      BY DEF ToSet, out, P
    <3>3. PICK p \in With(d) : item = TxQueue[s][p]
      BY <3>1, <3>2 DEF P
    <3> QED
      BY <3>3 DEF LeavesWith
  <2>7. Msg(d).txs = Kept(TxQueue[s], With(d))
    OBVIOUS
  <2> HIDE DEF Msg, With
  <2> QED
    BY <2>5, <2>6, <2>7 DEF Fits, Leaving
<1>11. \A d : Msg(d).from = s /\ Msg(d).to = d
  OBVIOUS
<1> HIDE DEF Msg
<1>12. /\ \A d \in Shard \ {s} : Coming(d)' = Coming(d) \cup {Msg(d)}
       /\ Coming(s)' = Coming(s)
  BY <1>1, <1>11 DEF Coming
<1>13. \A d, x : Fits(d, x)' = Fits(d, x)
  BY <1>2 DEF Fits, RoundMap, Carrier
<1>14. ASSUME NEW d \in Shard, NEW x \in AccountStateTx[d] \cup Coming(d)
       PROVE  /\ x.from # d /\ SentFor(x.from)' > AccountTransferRound[d]
              /\ phase'[d] # "idle" /\ Fits(d, x) /\ x.from # s
  <2>1. /\ x.from # d /\ SentFor(x.from) > AccountTransferRound[d]
        /\ phase[d] # "idle" /\ Fits(d, x)
    BY DEF InStep, Exchange
  <2>2. x.from \in Shard
    BY DEF TypeInv, TypeOK, NetTypes, RoundTypes, IsAccountMsg, Coming
  <2>3. x.from # s
    BY <1>4, <1>6, <2>1
  <2>4. phase'[d] # "idle"
    BY <1>3, <2>1
  <2> QED
    BY <1>4, <2>1, <2>2, <2>3, <2>4
<1>15. Exchange'
  <2>1. ASSUME NEW d \in Shard, NEW x \in AccountStateTx'[d] \cup Coming(d)'
        PROVE  /\ x.from # d /\ SentFor(x.from)' > AccountTransferRound'[d]
               /\ phase'[d] # "idle" /\ Fits(d, x)'
    <3>1. CASE x \in AccountStateTx[d] \cup Coming(d)
      BY <1>2, <1>13, <1>14, <3>1
    <3>2. CASE d # s /\ x = Msg(d)
      BY <1>2, <1>3, <1>4, <1>6, <1>10, <1>11, <1>13, <3>2
    <3> QED
      BY <1>2, <1>12, <3>1, <3>2
  <2>2. ASSUME NEW d \in Shard
        PROVE  /\ \A x, y \in AccountStateTx'[d] : x.from = y.from => x = y
               /\ \A x, y \in Coming(d)' : x.from = y.from => x = y
               /\ \A x \in Coming(d)', y \in AccountStateTx'[d] : x.from # y.from
               /\ CollectOver'[d] => \A c \in Shard \ {d} : \E x \in AccountStateTx'[d] : x.from = c
    <3>1. /\ \A x, y \in AccountStateTx[d] : x.from = y.from => x = y
          /\ \A x, y \in Coming(d) : x.from = y.from => x = y
          /\ \A x \in Coming(d), y \in AccountStateTx[d] : x.from # y.from
          /\ CollectOver[d] => \A c \in Shard \ {d} : \E x \in AccountStateTx[d] : x.from = c
      BY DEF InStep, Exchange
    <3>2. \A x \in AccountStateTx[d] \cup Coming(d) : x.from # s
      BY <1>14
    <3>3. CASE d = s
      BY <1>2, <1>12, <3>1, <3>3
    <3>4. CASE d # s
      BY <1>2, <1>11, <1>12, <3>1, <3>2, <3>4
    <3> QED
      BY <3>3, <3>4
  <2> QED
    BY <2>1, <2>2 DEF Exchange
<1>16. SameMaps' /\ Reported'
  BY <1>2, SameMapsStay, ReportedStays DEF InStep
<1>17. SameOwners'
  BY <1>2 DEF InStep, SameOwners, RoundMap, Updated
<1> QED
  BY <1>7, <1>8, <1>9, <1>15, <1>16, <1>17 DEF InStep

\* A shard proposes the map of its round.
LEMMA ProposeInStep ==
    ASSUME TypeInv, InStep, NEW s \in Shard, proposePartition(s)
    PROVE  InStep'
<1> DEFINE req == [map |-> RoundMap(s), states |-> ReceivedNewAccountState(s),
                   id |-> Len(ModifiedMap[s])]
<1>1. /\ phase[s] = "collect" /\ CollectOver[s]
      /\ atm' = [atm EXCEPT ![s] = <<req>>] /\ phase' = [phase EXCEPT ![s] = "proposed"]
      /\ UNCHANGED <<ModifiedMap, AccountTransferRound, PartitionOn, CollectOver, readyMsg,
                     PartitionReady, accountMsg, AccountStateTx, clpaCnt, partitionMsg,
                     PartitionMap, info, curEpoch>>
  BY DEF proposePartition, supervisorVars, netVars, readyVars
<1>2. /\ phase'[s] = "proposed" /\ \A d \in Shard \ {s} : phase'[d] = phase[d]
      /\ atm'[s] = <<req>> /\ \A d \in Shard \ {s} : atm'[d] = atm[d]
  BY <1>1 DEF TypeInv, TypeOK, RoundTypes
<1>3. \A d \in Shard : /\ Readied(d)' = Readied(d) /\ SentFor(d)' = SentFor(d)
                       /\ Exchanging(d)' = Exchanging(d)
                       /\ (phase[d] = "idle") = (phase'[d] = "idle")
  BY <1>1, <1>2 DEF Readied, SentFor, Exchanging
<1>4. req.map = RoundMap(s) /\ req.id = AccountTransferRound[s] + 1
  <2>1. PartitionOn[s]
    BY <1>1 DEF TypeInv, Rounds
  <2> QED
    BY <2>1 DEF InStep, Clock
<1> HIDE DEF req
<1>5. Clock'
  <2>1. ASSUME NEW d \in Shard, phase'[d] = "proposed"
        PROVE  /\ CollectOver[d]
               /\ \E r \in ToSet(atm'[d]) : atm'[d] = <<r>> /\ r.map = RoundMap(d)
                                            /\ r.id = AccountTransferRound[d] + 1
    <3>1. CASE d = s
      BY <1>1, <1>2, <1>4, <3>1, OneItem
    <3>2. CASE d # s
      BY <1>2, <2>1, <3>2 DEF InStep, Clock
    <3> QED
      BY <3>1, <3>2
  <2>2. \A d : RoundMap(d)' = RoundMap(d)
    BY <1>1 DEF RoundMap
  <2> QED
    BY <1>1, <2>1, <2>2 DEF InStep, Clock
<1>6. Barrier'
  BY <1>1, <1>3 DEF InStep, Barrier
<1>7. KnownReady'
  <2>1. /\ \A x \in readyMsg : x.from \in Shard /\ x.to \in Shard
        /\ \A c \in Shard : PartitionReady[c] \subseteq Shard
    BY DEF TypeInv, TypeOK, NetTypes, ReadyTypes
  <2> QED
    BY <1>1, <1>3, <2>1 DEF InStep, KnownReady
<1>8. Exchange'
  <2>1. \A d : Coming(d)' = Coming(d)
    BY <1>1 DEF Coming
  <2>2. \A d, x : Fits(d, x)' = Fits(d, x)
    BY <1>1 DEF Fits, RoundMap, Carrier
  <2>3. \A d \in Shard : \A x \in AccountStateTx[d] \cup Coming(d) : x.from \in Shard
    BY DEF TypeInv, TypeOK, NetTypes, RoundTypes, IsAccountMsg, Coming
  <2> QED
    BY <1>1, <1>3, <2>1, <2>2, <2>3 DEF InStep, Exchange
<1>9. SameMaps' /\ Reported'
  BY <1>1, SameMapsStay, ReportedStays DEF InStep
<1>10. SameOwners'
  BY <1>1 DEF InStep, SameOwners, RoundMap, Updated
<1> QED
  BY <1>5, <1>6, <1>7, <1>8, <1>9, <1>10 DEF InStep

\* A shard is done with its round: everybody has sent for it.
LEMMA TransferInStep ==
    ASSUME TypeInv, InStep, NEW s \in Shard, accountTransfer_do(s)
    PROVE  InStep'
<1> DEFINE r == AccountTransferRound[s]
           new == Updated(PartitionMap[s], RoundMap(s))
<1>1. phase[s] = "proposed"
  BY DEF accountTransfer_do
<1>2. /\ CollectOver[s]
      /\ \E q \in ToSet(atm[s]) : atm[s] = <<q>> /\ q.map = RoundMap(s) /\ q.id = r + 1
  BY <1>1 DEF InStep, Clock
<1>3. PICK q : atm[s] = <<q>> /\ q.map = RoundMap(s) /\ q.id = r + 1
  BY <1>2
<1>4. Len(ModifiedMap[s]) = r + 1 /\ ModifiedMap \in [Shard -> Seq(Moves)]
  <2>1. PartitionOn[s]
    BY <1>1 DEF TypeInv, Rounds
  <2> QED
    BY <2>1 DEF InStep, Clock, TypeInv, TypeOK, RoundTypes
<1>5. /\ PartitionMap' = [PartitionMap EXCEPT ![s] = NewMap(s, q.map)]
      /\ ModifiedMap' = [ModifiedMap EXCEPT ![s] = IF Len(@) # q.id THEN Append(@, q.map) ELSE @]
      /\ AccountTransferRound' = [AccountTransferRound EXCEPT ![s] = q.id]
  <2>1. atm[s][1] = q
    BY <1>3
  <2> QED
    BY <2>1, Zenon DEF accountTransfer_do
<1>6. /\ AccountStateTx' = [AccountStateTx EXCEPT ![s] = {}]
      /\ PartitionOn' = [PartitionOn EXCEPT ![s] = FALSE]
      /\ CollectOver' = [CollectOver EXCEPT ![s] = FALSE]
      /\ PartitionReady' = [PartitionReady EXCEPT ![s] = {}]
      /\ phase' = [phase EXCEPT ![s] = "idle"]
      /\ atm' = [atm EXCEPT ![s] = <<>>]
      /\ UNCHANGED <<readyMsg, accountMsg, clpaCnt, partitionMsg, info, curEpoch>>
  BY DEF accountTransfer_do, supervisorVars, netVars
<1>7. ModifiedMap' = ModifiedMap
  BY <1>3, <1>4, <1>5
<1>8. /\ AccountTransferRound'[s] = r + 1 /\ PartitionMap'[s] = new
      /\ AccountStateTx'[s] = {} /\ PartitionOn'[s] = FALSE /\ CollectOver'[s] = FALSE
      /\ PartitionReady'[s] = {} /\ phase'[s] = "idle"
  BY <1>3, <1>5, <1>6 DEF NewMap, TypeInv, TypeOK, RoundTypes, ReadyTypes, ChainTypes
<1>9. \A d \in Shard \ {s} :
         /\ AccountTransferRound'[d] = AccountTransferRound[d] /\ PartitionMap'[d] = PartitionMap[d]
         /\ AccountStateTx'[d] = AccountStateTx[d] /\ PartitionOn'[d] = PartitionOn[d]
         /\ CollectOver'[d] = CollectOver[d] /\ PartitionReady'[d] = PartitionReady[d]
         /\ phase'[d] = phase[d] /\ atm'[d] = atm[d]
  BY <1>5, <1>6 DEF TypeInv, TypeOK, RoundTypes, ReadyTypes, ChainTypes
<1> HIDE DEF new
<1>10. /\ r \in Nat /\ SentFor(s) = r + 1 /\ SentFor(s)' = r + 1
       /\ Readied(s) = r + 1 /\ Readied(s)' = r + 1
  BY <1>1, <1>8, Counters DEF Readied, SentFor, Exchanging
<1>11. /\ \A d \in Shard : Readied(d)' = Readied(d) /\ SentFor(d)' = SentFor(d)
       /\ \A d \in Shard \ {s} : Exchanging(d)' = Exchanging(d)
  BY <1>9, <1>10 DEF Readied, SentFor, Exchanging
<1>12. ASSUME NEW d \in Shard \ {s} PROVE SentFor(d) > r
  <2>1. PICK x \in AccountStateTx[s] : x.from = d
    BY <1>2 DEF InStep, Exchange
  <2> QED
    BY <2>1 DEF InStep, Exchange
<1>13. Coming(s) = {}
  <2> SUFFICES ASSUME NEW x \in Coming(s) PROVE FALSE
    OBVIOUS
  <2>1. x.from \in Shard \ {s}
    BY DEF InStep, Exchange, Coming, TypeInv, TypeOK, NetTypes, IsAccountMsg
  <2>2. PICK y \in AccountStateTx[s] : y.from = x.from
    BY <1>2, <2>1 DEF InStep, Exchange
  <2> QED
    BY <2>2 DEF InStep, Exchange
<1>14. \A d \in Shard \ {s} : RoundMap(d)' = RoundMap(d)
  BY <1>7, <1>9 DEF RoundMap
<1>15. Clock'
  <2>1. ASSUME NEW d \in Shard
        PROVE  Len(ModifiedMap[d]) = AccountTransferRound'[d] + IF PartitionOn'[d] THEN 1 ELSE 0
    <3>1. CASE d = s
      BY <1>4, <1>8, <1>10, <3>1
    <3>2. CASE d # s
      BY <1>9, <3>2 DEF InStep, Clock
    <3> QED
      BY <3>1, <3>2
  <2>2. ASSUME NEW d \in Shard, phase'[d] = "proposed"
        PROVE  /\ CollectOver'[d]
               /\ \E x \in ToSet(atm'[d]) : atm'[d] = <<x>> /\ x.map = RoundMap(d)'
                                            /\ x.id = AccountTransferRound'[d] + 1
    <3>1. d # s
      BY <1>8, <2>2
    <3> QED
      BY <1>9, <1>14, <2>2, <3>1 DEF InStep, Clock
  <2> QED
    BY <1>7, <2>1, <2>2 DEF Clock
<1>16. Barrier'
  <2>1. ASSUME NEW c \in Shard, NEW d \in Shard PROVE AccountTransferRound'[d] <= SentFor(c)
    <3>1. AccountTransferRound[d] <= SentFor(c) /\ SentFor(c) \in Nat
      BY Counters DEF InStep, Barrier
    <3>2. CASE d # s
      BY <1>9, <3>1, <3>2
    <3>3. CASE d = s
      BY <1>8, <1>10, <1>12, <3>1, <3>3
    <3> QED
      BY <3>2, <3>3
  <2> QED
    BY <1>11, <2>1 DEF InStep, Barrier
<1>17. KnownReady'
  <2>1. /\ \A x \in readyMsg : x.from \in Shard /\ x.to \in Shard
        /\ \A c \in Shard : PartitionReady[c] \subseteq Shard
    BY DEF TypeInv, TypeOK, NetTypes, ReadyTypes
  <2>2. ASSUME NEW c \in Shard, NEW d \in PartitionReady'[c] \ {c}
        PROVE  Exchanging(c)' \/ Readied(d)' > AccountTransferRound'[c]
    <3>1. c # s /\ d \in PartitionReady[c] \ {c} /\ d \in Shard
      BY <1>8, <1>9, <2>1
    <3> QED
      BY <1>9, <1>11, <3>1 DEF InStep, KnownReady
  <2>3. ASSUME NEW x \in readyMsg
        PROVE  /\ x.from # x.to /\ Readied(x.from)' > SentFor(x.to)'
               /\ x.from \in PartitionReady'[x.to] => Exchanging(x.to)'
    BY <1>8, <1>9, <1>11, <2>1 DEF InStep, KnownReady
  <2> QED
    BY <1>6, <2>2, <2>3 DEF InStep, KnownReady
<1>18. Exchange'
  <2>1. \A d : Coming(d)' = Coming(d)
    BY <1>6 DEF Coming
  <2>2. \A d \in Shard \ {s} : \A x : Fits(d, x)' = Fits(d, x)
    BY <1>14 DEF Fits, Carrier
  <2>3. \A d \in Shard : \A x \in AccountStateTx[d] \cup Coming(d) : x.from \in Shard
    BY DEF TypeInv, TypeOK, NetTypes, RoundTypes, IsAccountMsg, Coming
  <2>4. ASSUME NEW d \in Shard \ {s}, NEW x \in AccountStateTx'[d] \cup Coming(d)'
        PROVE  /\ x.from # d /\ SentFor(x.from)' > AccountTransferRound'[d]
               /\ phase'[d] # "idle" /\ Fits(d, x)'
    <3>1. x \in AccountStateTx[d] \cup Coming(d)
      BY <1>9, <2>1
    <3> QED
      BY <1>9, <1>11, <2>2, <2>3, <3>1 DEF InStep, Exchange
  <2>5. AccountStateTx'[s] \cup Coming(s)' = {}
    BY <1>8, <1>13, <2>1
  <2>6. ASSUME NEW d \in Shard
        PROVE  /\ \A x, y \in AccountStateTx'[d] : x.from = y.from => x = y
               /\ \A x, y \in Coming(d)' : x.from = y.from => x = y
               /\ \A x \in Coming(d)', y \in AccountStateTx'[d] : x.from # y.from
               /\ CollectOver'[d] => \A c \in Shard \ {d} : \E x \in AccountStateTx'[d] : x.from = c
    <3>1. CASE d = s
      BY <1>8, <2>5, <3>1
    <3>2. CASE d # s
      BY <1>9, <2>1, <3>2 DEF InStep, Exchange
    <3> QED
      BY <3>1, <3>2
  <2> QED
    BY <2>4, <2>5, <2>6 DEF Exchange
<1>19. SameMaps'
  BY <1>6, <1>7, SameMapsStay DEF InStep
<1>20. \A d \in Shard : AccountTransferRound'[d] >= AccountTransferRound[d] /\ AccountTransferRound'[d] \in Nat
  BY <1>8, <1>9, <1>10, Counters
<1>21. Reported'
  <2>1. \A x \in info : x.from \in Shard /\ x.epoch \in Nat
    BY DEF TypeInv, TypeOK, NetTypes
  <2>2. ASSUME NEW x \in info PROVE x.epoch <= AccountTransferRound'[x.from]
    <3>1. x.epoch <= AccountTransferRound[x.from] /\ AccountTransferRound[x.from] \in Nat
      BY <2>1, Counters DEF InStep, Reported
    <3> QED
      BY <1>20, <2>1, <3>1
  <2>3. PICK d \in Shard : curEpoch <= AccountTransferRound[d]
    BY DEF InStep, Reported
  <2>4. curEpoch <= AccountTransferRound'[d]
    BY <1>20, <2>3, Counters DEF TypeInv, TypeOK, SupervisorTypes
  <2> QED
    BY <1>6, <2>2, <2>4 DEF Reported
<1>22. SameOwners'
  <2>1. ASSUME NEW d \in Shard \ {s}
        PROVE  /\ AccountTransferRound[d] \in {r, r + 1}
               /\ AccountTransferRound[d] = r + 1 => PartitionMap[d] = new
               /\ AccountTransferRound[d] = r => new = Updated(PartitionMap[d], RoundMap(d))
    <3>1. AccountTransferRound[d] \in {r, r + 1}
      <4>1. AccountTransferRound[d] <= SentFor(s)
        BY DEF InStep, Barrier
      <4> QED
        BY <1>10, <1>12, <4>1, Counters
    <3>2. AccountTransferRound[d] = r + 1 => PartitionMap[d] = new
      BY DEF InStep, SameOwners, new
    <3>3. ASSUME AccountTransferRound[d] = r PROVE new = Updated(PartitionMap[d], RoundMap(d))
      <4>1. PartitionMap[d] = PartitionMap[s]
        BY <3>3 DEF InStep, SameOwners
      <4>2. r + 1 <= Len(ModifiedMap[d])
        <5>1. SentFor(d) <= Readied(d) /\ Readied(d) <= Len(ModifiedMap[d])
          BY Counters, ReadyHasMap DEF InStep
        <5> QED
          BY <1>10, <1>12, <5>1, Counters
      <4>3. r + 1 \in 1 .. Len(ModifiedMap[s])
        BY <1>4, <1>10
      <4>4. RoundMap(d) = RoundMap(s)
        BY <3>3, <4>2, <4>3 DEF InStep, SameMaps, RoundMap
      <4> QED
        BY <4>1, <4>4 DEF new
    <3> QED
      BY <3>1, <3>2, <3>3
  <2>2. \A c, d \in Shard : Updated(PartitionMap[c], RoundMap(d))' = Updated(PartitionMap'[c], RoundMap(d)')
    BY DEF Updated
  <2>3. ASSUME NEW c \in Shard, NEW d \in Shard
        PROVE  /\ AccountTransferRound'[c] = AccountTransferRound'[d] => PartitionMap'[c] = PartitionMap'[d]
               /\ AccountTransferRound'[d] = AccountTransferRound'[c] + 1 =>
                    PartitionMap'[d] = Updated(PartitionMap'[c], RoundMap(c)')
    <3>1. CASE c = s /\ d = s
      BY <1>8, <1>10, <3>1
    <3>2. CASE c = s /\ d # s
      BY <1>8, <1>9, <1>10, <2>1, <3>2
    <3>3. CASE c # s /\ d = s
      BY <1>8, <1>9, <1>10, <1>14, <2>1, <3>3
    <3>4. CASE c # s /\ d # s
      BY <1>9, <1>14, <3>4 DEF InStep, SameOwners
    <3> QED
      BY <3>1, <3>2, <3>3, <3>4
  <2> QED
    BY <2>2, <2>3 DEF SameOwners
<1> QED
  BY <1>15, <1>16, <1>17, <1>18, <1>19, <1>21, <1>22 DEF InStep

LEMMA StepInStep ==
    TypeInv /\ (~overtaken => InStep) /\ [Next]_vars => (~overtaken => InStep)'
<1> SUFFICES ASSUME TypeInv, ~overtaken => InStep, [Next]_vars, ~overtaken' PROVE InStep'
  OBVIOUS
<1>1. ASSUME NEW m \in partitionMsg, handlePartitionMsg(m) PROVE InStep'
  <2>1. ~overtaken
    BY <1>1 DEF handlePartitionMsg, TypeInv, TypeOK, RoundTypes
  <2> QED
    BY <1>1, <2>1, MapInStep
<1>2. ASSUME overtaken' = overtaken, Next \/ UNCHANGED vars,
             ~\E m \in partitionMsg : handlePartitionMsg(m)
      PROVE  InStep'
  <2>1. InStep
    BY <1>2
  <2>2. ASSUME Deliver PROVE InStep'
    BY <1>2, <2>1, <2>2, OthersInStep, ReadyHeardInStep, AccountsInStep, Zenon DEF Deliver
  <2>3. ASSUME NEW s \in Shard, ShardStep(s) PROVE InStep'
    BY <2>1, <2>3, OthersInStep, ReadyInStep, SendInStep, ProposeInStep, TransferInStep, Zenon
       DEF ShardStep
  <2> QED
    BY <1>2, <2>1, <2>2, <2>3, OthersInStep, SupervisorInStep, Zenon DEF Next
<1>3. (\E m \in partitionMsg : handlePartitionMsg(m)) \/ overtaken' = overtaken
  <2>1. CASE UNCHANGED vars
    BY <2>1 DEF vars, roundVars
  <2>2. CASE txSending \/ clpaMapSend \/ \E m \in info : HandleBlockInfo(m)
    BY <2>2 DEF txSending, clpaMapSend, HandleBlockInfo, roundVars
  <2>3. CASE Deliver
    BY <2>3 DEF Deliver, handleInjectTx, handleRelay, handlePartitionReady,
                handleAccountStateAndTxMsg, roundVars
  <2>4. ASSUME NEW s \in Shard, ShardStep(s) PROVE overtaken' = overtaken
    BY <2>4 DEF ShardStep, Block, sendPartitionReady, sendAccounts_and_Txs, proposePartition,
                accountTransfer_do, roundVars
  <2> QED
    BY <2>1, <2>2, <2>3, <2>4, Zenon DEF Next
<1> QED
  BY <1>1, <1>2, <1>3, Zenon

LEMMA TransferInv == Spec => [](TypeInv /\ (~overtaken => InStep))
<1>1. Init => TypeInv /\ (~overtaken => InStep)
  BY TransferStarts, InStepStarts
<1>2. (TypeInv /\ (~overtaken => InStep)) /\ [Next]_vars => (TypeInv /\ (~overtaken => InStep))'
  BY StepKeepsTypes, StepInStep
<1> QED
  BY <1>1, <1>2, PTL DEF Spec

\* Two shards never both execute blocks on the same account, however many
\* shards, accounts and partitions there are: two shards that are not in a
\* partition are in the same round, and have the same map
\* (sendPartitionReady, getPartitionReady, accountTransfer_do).
THEOREM AccountsHaveOneOwner == Spec => []OneOwner
<1>1. TypeInv /\ (~overtaken => InStep) => OneOwner
  <2> SUFFICES ASSUME TypeInv, InStep, NEW s \in Shard, NEW d \in Shard, NEW a \in Account,
                      s # d, Here(s, a), Here(d, a), phase[s] = "idle", phase[d] = "idle"
               PROVE  FALSE
    BY DEF OneOwner
  <2>1. SentFor(s) = AccountTransferRound[s] /\ SentFor(d) = AccountTransferRound[d]
    BY Counters DEF Exchanging
  <2>2. AccountTransferRound[s] <= SentFor(d) /\ AccountTransferRound[d] <= SentFor(s)
    BY DEF InStep, Barrier
  <2>3. AccountTransferRound[s] = AccountTransferRound[d]
    BY <2>1, <2>2, Counters
  <2>4. PartitionMap[s] = PartitionMap[d]
    BY <2>3 DEF InStep, SameOwners
  <2> QED
    BY <2>4 DEF Here
<1> QED
  BY <1>1, TransferInv, PTL

\* A shard only gets transactions of accounts that the map of its own round
\* moves to it: who sends is in the same round, and has the same map
\* (sendAccounts_and_Txs, proposePartition).
THEOREM TransactionsComeWithAccounts == Spec => []TxsComeWithAccounts
<1>1. TypeInv /\ (~overtaken => InStep) => TxsComeWithAccounts
  <2> SUFFICES ASSUME TypeInv, InStep, NEW s \in Shard, NEW m \in AccountStateTx[s],
                      NEW item \in ToSet(m.txs)
               PROVE  Carrier(item) \in DOMAIN RoundMap(s) /\ RoundMap(s)[Carrier(item)] = s
    BY DEF TxsComeWithAccounts
  <2>1. Fits(s, m)
    BY DEF InStep, Exchange
  <2> QED
    BY <2>1 DEF Fits
<1> QED
  BY <1>1, TransferInv, PTL

-----------------------------------------------------------------------------
(* Transactions are executed once.                                          *)
(*                                                                          *)
(* Pools and messages hold the halves of transactions.  A half is in one    *)
(* place at a time, and in none once it is executed.                        *)

First(t)  == [tx |-> t, relayed |-> FALSE]
Second(t) == [tx |-> t, relayed |-> TRUE]

\* The places where an item waits.  What a proposed partition brought is in the
\* pool already.
Places(i) ==
    {<<"queue", s>> : s \in {d \in Shard : i \in ToSet(TxQueue[d])}}
    \cup {<<"inject", m>> : m \in {x \in inject : ~i.relayed /\ i.tx \in ToSet(x.txs)}}
    \cup {<<"relay", m>> : m \in {x \in relay : i \in ToSet(x.txs)}}
    \cup {<<"account", m>> : m \in {x \in accountMsg : i \in ToSet(x.txs)}}
    \cup UNION {{<<"got", <<s, m>>>> : m \in {x \in AccountStateTx[s] : i \in ToSet(x.txs)}} :
                  s \in {d \in Shard : phase[d] # "proposed"}}

Waits(i) == Places(i) # {}

Executions == UNION {log[s] : s \in Shard}

OnePlace == \A i \in Item : \A p, q \in Places(i) : p = q

\* What waits is not executed, and a second half waits or is executed only
\* after the first one, that did not credit the recipient itself.
OnceOnly ==
    /\ \A i \in Item : Waits(i) => ~\E e \in Executions : e.tx = i.tx /\ e.relayed = i.relayed
    /\ \A t \in Tx :
         /\ Waits(Second(t)) \/ (\E e \in Executions : e.tx = t /\ e.relayed)
              => \E e \in Executions : e.tx = t /\ ~e.relayed
         /\ Waits(Second(t)) => ~\E e \in Executions : e.tx = t /\ e.credit
         /\ Waits(First(t)) \/ (\E e \in Executions : e.tx = t) => t <= nowDataNum
    /\ \A e \in Executions : e.debit => ~e.relayed

Once == OnePlace /\ OnceOnly

LEMMA Halves ==
    \A t \in Tx : /\ First(t) \in Item /\ First(t).tx = t /\ ~First(t).relayed
                  /\ Second(t) \in Item /\ Second(t).tx = t /\ Second(t).relayed
  BY DEF First, Second, Item

LEMMA HalfIs ==
    ASSUME NEW i \in Item
    PROVE  /\ i.tx \in Tx /\ i.relayed \in BOOLEAN
           /\ i = IF i.relayed THEN Second(i.tx) ELSE First(i.tx)
  BY DEF First, Second, Item

LEMMA PlaceIs ==
    ASSUME NEW i, NEW p
    PROVE  p \in Places(i) <=>
             \/ \E s \in Shard : p = <<"queue", s>> /\ i \in ToSet(TxQueue[s])
             \/ \E m \in inject : p = <<"inject", m>> /\ ~i.relayed /\ i.tx \in ToSet(m.txs)
             \/ \E m \in relay : p = <<"relay", m>> /\ i \in ToSet(m.txs)
             \/ \E m \in accountMsg : p = <<"account", m>> /\ i \in ToSet(m.txs)
             \/ \E s \in Shard : \E m \in AccountStateTx[s] :
                  p = <<"got", <<s, m>>>> /\ i \in ToSet(m.txs) /\ phase[s] # "proposed"
  BY DEF Places

LEMMA PlaceIsNext ==
    ASSUME NEW i, NEW p
    PROVE  p \in Places(i)' <=>
             \/ \E s \in Shard : p = <<"queue", s>> /\ i \in ToSet(TxQueue'[s])
             \/ \E m \in inject' : p = <<"inject", m>> /\ ~i.relayed /\ i.tx \in ToSet(m.txs)
             \/ \E m \in relay' : p = <<"relay", m>> /\ i \in ToSet(m.txs)
             \/ \E m \in accountMsg' : p = <<"account", m>> /\ i \in ToSet(m.txs)
             \/ \E s \in Shard : \E m \in AccountStateTx'[s] :
                  p = <<"got", <<s, m>>>> /\ i \in ToSet(m.txs) /\ phase'[s] # "proposed"
  BY DEF Places

LEMMA JoinedItems ==
    ASSUME NEW S, NEW s \in Seq(S), NEW t \in Seq(S)
    PROVE  ToSet(s \o t) = ToSet(s) \cup ToSet(t)
<1>1. /\ Len(s) \in Nat /\ Len(t) \in Nat /\ Len(s \o t) = Len(s) + Len(t)
      /\ DOMAIN (s \o t) = 1 .. Len(s) + Len(t)
      /\ \A k \in 1 .. Len(s) : (s \o t)[k] = s[k]
      /\ \A k \in 1 .. Len(t) : (s \o t)[Len(s) + k] = t[k]
  OBVIOUS
<1>2. ASSUME NEW k \in 1 .. Len(s) + Len(t) PROVE (s \o t)[k] \in ToSet(s) \cup ToSet(t)
  <2>1. CASE k <= Len(s)
    BY <1>1, <2>1 DEF ToSet
  <2>2. CASE k > Len(s)
    <3>1. k - Len(s) \in 1 .. Len(t) /\ Len(s) + (k - Len(s)) = k
      BY <1>1, <2>2
    <3>2. (s \o t)[k] = t[k - Len(s)]
      BY <1>1, <3>1, Zenon
    <3> QED
      BY <3>1, <3>2 DEF ToSet
  <2> QED
    BY <1>1, <2>1, <2>2
<1>3. ASSUME NEW k \in 1 .. Len(s) PROVE s[k] \in ToSet(s \o t)
  <2>1. k \in 1 .. Len(s) + Len(t)
    BY <1>1
  <2> QED
    BY <1>1, <2>1, Zenon DEF ToSet
<1>4. ASSUME NEW k \in 1 .. Len(t) PROVE t[k] \in ToSet(s \o t)
  <2>1. Len(s) + k \in 1 .. Len(s) + Len(t)
    BY <1>1
  <2> QED
    BY <1>1, <2>1, Zenon DEF ToSet
<1>5. DOMAIN s = 1 .. Len(s) /\ DOMAIN t = 1 .. Len(t)
  OBVIOUS
<1>6. ToSet(s) = {s[k] : k \in 1 .. Len(s)} /\ ToSet(t) = {t[k] : k \in 1 .. Len(t)}
      /\ ToSet(s \o t) = {(s \o t)[k] : k \in 1 .. Len(s) + Len(t)}
  BY <1>1, <1>5, Zenon DEF ToSet
<1> QED
  BY <1>2, <1>3, <1>4, <1>6

LEMMA KeptSet ==
    ASSUME NEW S, NEW s \in Seq(S), NEW P
    PROVE  ToSet(Kept(s, P)) = {s[p] : p \in P \cap DOMAIN s}
<1>1. /\ Kept(s, P) \in Seq(S)
      /\ \A i \in DOMAIN Kept(s, P) : \E p \in P \cap DOMAIN s : Kept(s, P)[i] = s[p]
      /\ \A p \in P \cap DOMAIN s : \E i \in DOMAIN Kept(s, P) : Kept(s, P)[i] = s[p]
  BY KeptItems
<1> QED
  BY <1>1 DEF ToSet

\* A step may move an item from one place to another.
Moved(i, from, to) ==
    \A p \in Places(i)' : (p \in Places(i) /\ p # from) \/ (from \in Places(i) /\ p = to)

\* Nothing is executed, and items only move.
LEMMA MovesKeepOnce ==
    ASSUME Once, log' = log, nowDataNum' = nowDataNum,
           \A i \in Item : Places(i)' \subseteq Places(i) \/ \E from, to : Moved(i, from, to)
    PROVE  Once'
<1>1. OnePlace'
  <2> SUFFICES ASSUME NEW i \in Item, NEW p \in Places(i)', NEW q \in Places(i)' PROVE p = q
    BY DEF OnePlace
  <2>1. CASE Places(i)' \subseteq Places(i)
    BY <2>1 DEF Once, OnePlace
  <2>2. CASE \E from, to : Moved(i, from, to)
    BY <2>2 DEF Moved, Once, OnePlace
  <2> QED
    BY <2>1, <2>2
<1>2. \A i \in Item : Waits(i)' => Waits(i)
  BY DEF Moved, Waits
<1>3. Executions' = Executions
  BY DEF Executions
<1>4. \A t \in Tx : (Waits(First(t))' => Waits(First(t))) /\ (Waits(Second(t))' => Waits(Second(t)))
  BY <1>2, Halves
<1>5. OnceOnly'
  BY <1>2, <1>3, <1>4 DEF Once, OnceOnly
<1> QED
  BY <1>1, <1>5 DEF Once

LEMMA PlacesStay ==
    ASSUME UNCHANGED <<TxQueue, inject, relay, accountMsg, AccountStateTx>>,
           \A s \in Shard : phase'[s] # "proposed" => phase[s] # "proposed"
    PROVE  \A i \in Item : Places(i)' \subseteq Places(i)
<1> SUFFICES ASSUME NEW i \in Item, NEW p \in Places(i)' PROVE p \in Places(i)
  OBVIOUS
<1> QED
  BY PlaceIs, PlaceIsNext

\* The supervisor sends every transaction once, in the order of the file.
LEMMA SendingKeepsOnce == ASSUME TypeInv, Once, txSending PROVE Once'
<1>1. /\ nowDataNum \in Nat /\ ChunkEnd \in Nat /\ nowDataNum <= ChunkEnd
      /\ nowDataNum' = ChunkEnd /\ log' = log
      /\ inject' = inject \cup
            {[to |-> s, txs |-> Chunk(s)] : s \in {d \in Shard : Chunk(d) # <<>>}}
      /\ UNCHANGED <<TxQueue, relay, accountMsg, AccountStateTx, phase>>
  <2>1. nowDataNum \in 0 .. NumTx /\ nowDataNum < NumTx /\ NumTx \in Nat /\ InjectSpeed \in Nat \ {0}
    BY TransferAssumption DEF txSending, TypeInv, TypeOK, SupervisorTypes
  <2> QED
    BY <2>1 DEF ChunkEnd, txSending, chainVars, roundVars
<1>2. ASSUME NEW s \in Shard, NEW t \in ToSet(Chunk(s))
      PROVE  t \in nowDataNum + 1 .. ChunkEnd /\ modifiedMap[Sender[t]] = s
  <2> DEFINE next == [k \in 1 .. ChunkEnd - nowDataNum |-> nowDataNum + k]
             P == {k \in DOMAIN next : modifiedMap[Sender[next[k]]] = s}
  <2>1. next \in Seq(Int)
    BY <1>1
  <2>2. Chunk(s) = Kept(next, P)
    BY Zenon DEF Chunk
  <2>3. \A k \in DOMAIN next : next[k] \in nowDataNum + 1 .. ChunkEnd
    BY <1>1
  <2> HIDE DEF next
  <2>4. \A Q : ToSet(Kept(next, Q)) = {next[k] : k \in Q \cap DOMAIN next}
    BY <2>1, KeptSet
  <2>5. ToSet(Chunk(s)) = {next[k] : k \in P \cap DOMAIN next}
    BY <2>2, <2>4, Zenon
  <2> QED
    BY <2>3, <2>5
<1>3. ASSUME NEW i \in Item, NEW p \in Places(i)'
      PROVE  \/ p \in Places(i)
             \/ /\ p = <<"inject", [to |-> modifiedMap[Sender[i.tx]],
                                    txs |-> Chunk(modifiedMap[Sender[i.tx]])]>>
                /\ ~i.relayed /\ i.tx > nowDataNum /\ i.tx <= ChunkEnd
  <2>1. CASE \E m \in inject' : p = <<"inject", m>> /\ ~i.relayed /\ i.tx \in ToSet(m.txs)
    <3>1. PICK m \in inject' : p = <<"inject", m>> /\ ~i.relayed /\ i.tx \in ToSet(m.txs)
      BY <2>1
    <3>2. CASE m \in inject
      BY <3>1, <3>2, PlaceIs
    <3>3. CASE m \notin inject
      <4>1. PICK s \in Shard : m = [to |-> s, txs |-> Chunk(s)]
        BY <1>1, <3>3
      <4>2. i.tx \in nowDataNum + 1 .. ChunkEnd /\ modifiedMap[Sender[i.tx]] = s
        BY <1>2, <3>1, <4>1
      <4> QED
        BY <1>1, <3>1, <4>1, <4>2
    <3> QED
      BY <3>2, <3>3
  <2>2. CASE ~\E m \in inject' : p = <<"inject", m>> /\ ~i.relayed /\ i.tx \in ToSet(m.txs)
    BY <1>1, <2>2, PlaceIs, PlaceIsNext
  <2> QED
    BY <2>1, <2>2
<1>4. ASSUME NEW t \in Tx, t > nowDataNum
      PROVE  ~Waits(First(t)) /\ ~Waits(Second(t)) /\ ~\E e \in Executions : e.tx = t
  <2>1. ~(t <= nowDataNum)
    BY <1>1, <1>4 DEF Tx
  <2>2. ~Waits(First(t)) /\ ~\E e \in Executions : e.tx = t
    BY <2>1 DEF Once, OnceOnly
  <2>3. ~Waits(Second(t))
    BY <2>2 DEF Once, OnceOnly
  <2> QED
    BY <2>2, <2>3
<1>5. OnePlace'
  <2> SUFFICES ASSUME NEW i \in Item, NEW p \in Places(i)', NEW q \in Places(i)' PROVE p = q
    BY DEF OnePlace
  <2>1. CASE ~i.relayed /\ i.tx > nowDataNum
    <3>1. i = First(i.tx) /\ i.tx \in Tx
      BY <2>1, HalfIs
    <3>2. p \notin Places(i) /\ q \notin Places(i)
      BY <1>4, <2>1, <3>1 DEF Waits
    <3> QED
      BY <1>3, <3>2, Zenon
  <2>2. CASE ~(~i.relayed /\ i.tx > nowDataNum)
    <3>1. p \in Places(i) /\ q \in Places(i)
      BY <1>3, <2>2
    <3> QED
      BY <3>1 DEF Once, OnePlace
  <2> QED
    BY <2>1, <2>2
<1>6. \A i \in Item : Waits(i)' => \/ Waits(i)
                                   \/ ~i.relayed /\ i.tx > nowDataNum /\ i.tx <= ChunkEnd
  BY <1>3 DEF Waits
<1>7. Executions' = Executions
  BY <1>1 DEF Executions
<1>8. ASSUME NEW t \in Tx
      PROVE  /\ Waits(Second(t))' => Waits(Second(t))
             /\ Waits(First(t))' => Waits(First(t)) \/ (t > nowDataNum /\ t <= ChunkEnd)
  BY <1>6, Halves
<1>9. OnceOnly'
  <2>1. ASSUME NEW i \in Item, Waits(i)', NEW e \in Executions, e.tx = i.tx, e.relayed = i.relayed
        PROVE  FALSE
    <3>1. CASE Waits(i)
      BY <2>1, <3>1 DEF Once, OnceOnly
    <3>2. CASE ~Waits(i)
      BY <1>4, <1>6, <2>1, <3>2, HalfIs
    <3> QED
      BY <3>1, <3>2
  <2>2. ASSUME NEW t \in Tx, Waits(First(t))' \/ \E e \in Executions : e.tx = t
        PROVE  t <= ChunkEnd
    <3>1. Waits(First(t)) \/ (\E e \in Executions : e.tx = t) => t <= nowDataNum
      BY DEF Once, OnceOnly
    <3> QED
      BY <1>1, <1>8, <2>2, <3>1 DEF Tx
  <2> QED
    BY <1>1, <1>7, <1>8, <2>1, <2>2 DEF Once, OnceOnly
<1> QED
  BY <1>5, <1>9 DEF Once

LEMMA InjectKeepsOnce ==
    ASSUME TypeInv, Once, NEW m \in inject, handleInjectTx(m) PROVE Once'
<1> DEFINE new == [k \in DOMAIN m.txs |-> [tx |-> m.txs[k], relayed |-> FALSE]]
           from == <<"inject", m>>
           to == <<"queue", m.to>>
<1>1. m.to \in Shard /\ m.txs \in Seq(Tx) /\ TxQueue \in [Shard -> Seq(Item)]
  BY DEF TypeInv, TypeOK, NetTypes, ChainTypes
<1>2. new \in Seq(Item)
  <2>1. DOMAIN m.txs = 1 .. Len(m.txs) /\ Len(m.txs) \in Nat
    BY <1>1
  <2>2. ASSUME NEW k \in DOMAIN m.txs PROVE [tx |-> m.txs[k], relayed |-> FALSE] \in Item
    <3>1. m.txs[k] \in Tx
      BY <1>1
    <3> QED
      BY <3>1 DEF Item
  <2> QED
    BY <2>1, <2>2
<1>3. ASSUME NEW i \in ToSet(new) PROVE ~i.relayed /\ i.tx \in ToSet(m.txs)
  <2>1. PICK k \in DOMAIN m.txs : i = [tx |-> m.txs[k], relayed |-> FALSE]
    BY DEF ToSet
  <2> QED
    BY <2>1 DEF ToSet
<1>4. TxQueue' = [TxQueue EXCEPT ![m.to] = @ \o new]
  BY DEF handleInjectTx
<1> HIDE DEF new
<1>5. /\ ToSet(TxQueue'[m.to]) = ToSet(TxQueue[m.to]) \cup ToSet(new)
      /\ \A d \in Shard \ {m.to} : TxQueue'[d] = TxQueue[d]
  BY <1>1, <1>2, <1>4, JoinedItems
<1>6. /\ inject' = inject \ {m} /\ nowDataNum' = nowDataNum
      /\ UNCHANGED <<log, relay, accountMsg, AccountStateTx, phase>>
  BY DEF handleInjectTx, supervisorVars, roundVars
<1>7. ASSUME NEW i \in Item, NEW p \in Places(i)'
      PROVE  (p \in Places(i) /\ p # from) \/ (from \in Places(i) /\ p = to)
  <2>1. CASE i \in ToSet(new) /\ p = to
    BY <1>3, <2>1, PlaceIs
  <2>2. CASE ~(i \in ToSet(new) /\ p = to)
    BY <1>1, <1>5, <1>6, <2>2, PlaceIs, PlaceIsNext
  <2> QED
    BY <2>1, <2>2
<1> QED
  BY <1>6, <1>7, MovesKeepOnce DEF Moved

LEMMA RelayKeepsOnce ==
    ASSUME TypeInv, Once, NEW m \in relay, handleRelay(m) PROVE Once'
<1> DEFINE from == <<"relay", m>>
           to == <<"queue", m.to>>
<1>1. m.to \in Shard /\ m.txs \in Seq(Item) /\ TxQueue \in [Shard -> Seq(Item)]
  BY DEF TypeInv, TypeOK, NetTypes, ChainTypes
<1>2. TxQueue' = [TxQueue EXCEPT ![m.to] = @ \o m.txs]
  BY DEF handleRelay
<1>3. /\ ToSet(TxQueue'[m.to]) = ToSet(TxQueue[m.to]) \cup ToSet(m.txs)
      /\ \A d \in Shard \ {m.to} : TxQueue'[d] = TxQueue[d]
  <2>1. TxQueue[m.to] \in Seq(Item) /\ TxQueue'[m.to] = TxQueue[m.to] \o m.txs
    BY <1>1, <1>2
  <2>2. ToSet(TxQueue[m.to] \o m.txs) = ToSet(TxQueue[m.to]) \cup ToSet(m.txs)
    BY <1>1, <2>1, JoinedItems
  <2> QED
    BY <1>1, <1>2, <2>1, <2>2
<1>4. /\ relay' = relay \ {m} /\ nowDataNum' = nowDataNum
      /\ UNCHANGED <<log, inject, accountMsg, AccountStateTx, phase>>
  BY DEF handleRelay, supervisorVars, roundVars
<1>5. ASSUME NEW i \in Item, NEW p \in Places(i)'
      PROVE  (p \in Places(i) /\ p # from) \/ (from \in Places(i) /\ p = to)
  <2>1. CASE i \in ToSet(m.txs) /\ p = to
    BY <2>1, PlaceIs
  <2>2. CASE ~(i \in ToSet(m.txs) /\ p = to)
    <3>1. \A d \in Shard : p = <<"queue", d>> /\ i \in ToSet(TxQueue'[d]) => i \in ToSet(TxQueue[d])
      BY <1>1, <1>3, <2>2
    <3> QED
      BY <1>4, <3>1, PlaceIs, PlaceIsNext
  <2> QED
    BY <2>1, <2>2
<1> QED
  BY <1>4, <1>5, MovesKeepOnce DEF Moved

LEMMA AccountsKeepOnce ==
    ASSUME TypeInv, Once, NEW m \in accountMsg, handleAccountStateAndTxMsg(m) PROVE Once'
<1> DEFINE from == <<"account", m>>
           to == <<"got", <<m.to, m>>>>
<1>1. m.to \in Shard /\ DOMAIN AccountStateTx = Shard
  BY DEF TypeInv, TypeOK, NetTypes, RoundTypes, IsAccountMsg
<1>2. /\ accountMsg' = accountMsg \ {m} /\ nowDataNum' = nowDataNum
      /\ AccountStateTx' = [AccountStateTx EXCEPT ![m.to] = Collected(m.to, m)]
      /\ UNCHANGED <<log, TxQueue, inject, relay, phase>>
  BY DEF handleAccountStateAndTxMsg, supervisorVars, chainVars
<1>3. /\ AccountStateTx'[m.to] \subseteq AccountStateTx[m.to] \cup {m}
      /\ \A d \in Shard \ {m.to} : AccountStateTx'[d] = AccountStateTx[d]
  BY <1>1, <1>2 DEF Collected
<1>4. ASSUME NEW i \in Item, NEW p \in Places(i)'
      PROVE  (p \in Places(i) /\ p # from) \/ (from \in Places(i) /\ p = to)
  <2>1. CASE i \in ToSet(m.txs) /\ p = to
    BY <2>1, PlaceIs
  <2>2. CASE ~(i \in ToSet(m.txs) /\ p = to)
    BY <1>1, <1>2, <1>3, <2>2, PlaceIs, PlaceIsNext
  <2> QED
    BY <2>1, <2>2
<1> QED
  BY <1>2, <1>4, MovesKeepOnce DEF Moved

\* The transactions of the accounts that leave a shard go with them.
LEMMA SendKeepsOnce == ASSUME TypeInv, Once, NEW s \in Shard, sendAccounts_and_Txs(s) PROVE Once'
<1> DEFINE others == Shard \ {s}
           With(d) == {k \in DOMAIN TxQueue[s] : LeavesWith(s, d, TxQueue[s][k])}
           Msg(d) == [from |-> s, to |-> d,
                      states |-> [a \in Leaving(s, d) |-> balance[s][a]],
                      txs    |-> Kept(TxQueue[s], With(d))]
           Stays == DOMAIN TxQueue[s] \ UNION {With(d) : d \in others}
<1>1. TxQueue \in [Shard -> Seq(Item)] /\ phase \in [Shard -> {"idle", "ready", "collect", "proposed"}]
  BY DEF TypeInv, TypeOK, ChainTypes, RoundTypes
<1>2. /\ accountMsg' = accountMsg \cup {Msg(d) : d \in others}
      /\ TxQueue' = [TxQueue EXCEPT ![s] = Kept(@, Stays)]
      /\ phase[s] = "ready" /\ phase' = [phase EXCEPT ![s] = "collect"]
      /\ UNCHANGED <<log, inject, relay, AccountStateTx, nowDataNum>>
  BY <1>1 DEF sendAccounts_and_Txs, supervisorVars
<1>3. TxQueue'[s] = Kept(TxQueue[s], Stays) /\ \A d \in Shard \ {s} : TxQueue'[d] = TxQueue[d]
  BY <1>1, <1>2
<1>4. \A d \in Shard : phase'[d] # "proposed" => phase[d] # "proposed"
  BY <1>1, <1>2
<1>5. \A P : ToSet(Kept(TxQueue[s], P)) = {TxQueue[s][k] : k \in P \cap DOMAIN TxQueue[s]}
  BY <1>1, KeptSet
<1>6. ASSUME NEW i, NEW d \in others, i \in ToSet(Msg(d).txs)
      PROVE  i \in ToSet(TxQueue[s]) /\ LeavesWith(s, d, i)
  <2>1. Msg(d).txs = Kept(TxQueue[s], With(d))
    OBVIOUS
  <2>2. i \in {TxQueue[s][k] : k \in With(d) \cap DOMAIN TxQueue[s]}
    BY <1>5, <1>6, <2>1, Zenon
  <2> QED
    BY <2>2 DEF ToSet
<1>7. ASSUME NEW i, i \in ToSet(TxQueue'[s])
      PROVE  i \in ToSet(TxQueue[s]) /\ \A d \in others : ~LeavesWith(s, d, i)
  <2>1. i \in {TxQueue[s][k] : k \in Stays \cap DOMAIN TxQueue[s]}
    BY <1>3, <1>5, <1>7, Zenon
  <2> QED
    BY <2>1 DEF ToSet
<1> HIDE DEF Msg, Stays, With
<1>8. ASSUME NEW i \in Item, NEW p \in Places(i)'
      PROVE  \/ p \in Places(i) /\ (p = <<"queue", s>> => \A d \in others : ~LeavesWith(s, d, i))
             \/ \E d \in others : /\ p = <<"account", Msg(d)>> /\ LeavesWith(s, d, i)
                                  /\ <<"queue", s>> \in Places(i)
  <2>1. CASE \E d \in others : p = <<"account", Msg(d)>> /\ i \in ToSet(Msg(d).txs)
    BY <1>6, <2>1, PlaceIs
  <2>2. CASE p = <<"queue", s>> /\ i \in ToSet(TxQueue'[s])
    BY <1>7, <2>2, PlaceIs
  <2>3. CASE ~(\E d \in others : p = <<"account", Msg(d)>> /\ i \in ToSet(Msg(d).txs))
             /\ ~(p = <<"queue", s>> /\ i \in ToSet(TxQueue'[s]))
    <3>1. p \in Places(i)
      BY <1>2, <1>3, <1>4, <2>3, PlaceIs, PlaceIsNext
    <3>2. p # <<"queue", s>>
      BY <2>3, PlaceIsNext
    <3> QED
      BY <3>1, <3>2
  <2> QED
    BY <2>1, <2>2, <2>3
<1>9. ASSUME NEW i \in Item
      PROVE  Places(i)' \subseteq Places(i) \/ \E from, to : Moved(i, from, to)
  <2>1. CASE \E d \in others : LeavesWith(s, d, i)
    <3>1. PICK d \in others : LeavesWith(s, d, i)
      BY <2>1
    <3>2. \A c \in others : LeavesWith(s, c, i) => c = d
      BY <3>1 DEF LeavesWith, Leaving
    <3>3. Moved(i, <<"queue", s>>, <<"account", Msg(d)>>)
      BY <1>8, <3>1, <3>2, Zenon DEF Moved
    <3> QED
      BY <3>3
  <2>2. CASE ~\E d \in others : LeavesWith(s, d, i)
    BY <1>8, <2>2
  <2> QED
    BY <2>1, <2>2
<1> QED
  BY <1>2, <1>9, MovesKeepOnce

LEMMA ProposeKeepsOnce == ASSUME TypeInv, Once, NEW s \in Shard, proposePartition(s) PROVE Once'
<1>1. /\ TxQueue \in [Shard -> Seq(Item)] /\ ReceivedNewTx(s) \in Seq(Item)
      /\ phase \in [Shard -> {"idle", "ready", "collect", "proposed"}]
  BY ReceivedType DEF TypeInv, TypeOK, ChainTypes, RoundTypes
<1>2. /\ TxQueue' = [TxQueue EXCEPT ![s] = @ \o ReceivedNewTx(s)]
      /\ phase[s] = "collect" /\ phase' = [phase EXCEPT ![s] = "proposed"]
      /\ UNCHANGED <<log, inject, relay, accountMsg, AccountStateTx, nowDataNum>>
  BY DEF proposePartition, supervisorVars, netVars
<1>3. /\ ToSet(TxQueue'[s]) = ToSet(TxQueue[s]) \cup ToSet(ReceivedNewTx(s))
      /\ \A d \in Shard \ {s} : TxQueue'[d] = TxQueue[d]
  <2>1. TxQueue[s] \in Seq(Item) /\ TxQueue'[s] = TxQueue[s] \o ReceivedNewTx(s)
    BY <1>1, <1>2
  <2>2. ToSet(TxQueue[s] \o ReceivedNewTx(s)) = ToSet(TxQueue[s]) \cup ToSet(ReceivedNewTx(s))
    BY <1>1, <2>1, JoinedItems
  <2> QED
    BY <1>1, <1>2, <2>1, <2>2
<1>4. phase'[s] = "proposed" /\ \A d \in Shard \ {s} : phase'[d] = phase[d]
  BY <1>1, <1>2
<1>5. \A i \in ToSet(ReceivedNewTx(s)) : \E m \in AccountStateTx[s] : i \in ToSet(m.txs)
  BY ReceivedType DEF TypeInv, TypeOK
<1>6. ASSUME NEW i \in Item, NEW p \in Places(i)'
      PROVE  \/ p \in Places(i) /\ \A m : p # <<"got", <<s, m>>>>
             \/ p = <<"queue", s>> /\ i \in ToSet(ReceivedNewTx(s))
  <2>1. CASE p = <<"queue", s>> /\ i \in ToSet(ReceivedNewTx(s))
    BY <2>1
  <2>2. CASE ~(p = <<"queue", s>> /\ i \in ToSet(ReceivedNewTx(s)))
    <3>1. \A d \in Shard : p = <<"queue", d>> /\ i \in ToSet(TxQueue'[d]) => i \in ToSet(TxQueue[d])
      BY <1>3, <2>2
    <3>2. p \in Places(i)
      BY <1>2, <1>4, <3>1, PlaceIs, PlaceIsNext
    <3>3. \A m : p # <<"got", <<s, m>>>>
      BY <1>4, PlaceIsNext
    <3> QED
      BY <3>2, <3>3
  <2> QED
    BY <2>1, <2>2
<1>7. ASSUME NEW i \in Item
      PROVE  Places(i)' \subseteq Places(i) \/ \E from, to : Moved(i, from, to)
  <2>1. CASE i \in ToSet(ReceivedNewTx(s))
    <3>1. PICK m \in AccountStateTx[s] : i \in ToSet(m.txs)
      BY <1>5, <2>1
    <3>2. <<"got", <<s, m>>>> \in Places(i)
      BY <1>2, <3>1, PlaceIs
    <3>3. Moved(i, <<"got", <<s, m>>>>, <<"queue", s>>)
      BY <1>6, <3>2, Zenon DEF Moved
    <3> QED
      BY <3>3
  <2>2. CASE i \notin ToSet(ReceivedNewTx(s))
    BY <1>6, <2>2
  <2> QED
    BY <2>1, <2>2
<1> QED
  BY <1>2, <1>7, MovesKeepOnce

LEMMA TransferKeepsOnce == ASSUME TypeInv, Once, NEW s \in Shard, accountTransfer_do(s) PROVE Once'
<1>1. DOMAIN AccountStateTx = Shard /\ phase \in [Shard -> {"idle", "ready", "collect", "proposed"}]
  BY DEF TypeInv, TypeOK, RoundTypes
<1>2. /\ AccountStateTx' = [AccountStateTx EXCEPT ![s] = {}]
      /\ phase' = [phase EXCEPT ![s] = "idle"]
      /\ UNCHANGED <<log, TxQueue, inject, relay, accountMsg, nowDataNum>>
  BY DEF accountTransfer_do, supervisorVars, netVars
<1>3. /\ AccountStateTx'[s] = {}
      /\ \A d \in Shard \ {s} : AccountStateTx'[d] = AccountStateTx[d] /\ phase'[d] = phase[d]
  BY <1>1, <1>2
<1>4. ASSUME NEW i \in Item, NEW p \in Places(i)' PROVE p \in Places(i)
  BY <1>2, <1>3, PlaceIs, PlaceIsNext
<1> QED
  BY <1>2, <1>4, MovesKeepOnce

\* The steps that touch no transactions.
LEMMA OthersKeepOnce ==
    ASSUME TypeInv, Once,
           \/ clpaMapSend \/ (\E m \in info : HandleBlockInfo(m))
           \/ (\E m \in partitionMsg : handlePartitionMsg(m))
           \/ (\E m \in readyMsg : handlePartitionReady(m))
           \/ (\E s \in Shard : sendPartitionReady(s)) \/ UNCHANGED vars
    PROVE  Once'
<1>1. /\ UNCHANGED <<TxQueue, inject, relay, accountMsg, AccountStateTx, log, nowDataNum>>
      /\ \A s \in Shard : phase'[s] # "proposed" => phase[s] # "proposed"
  <2>1. CASE clpaMapSend
    BY <2>1 DEF clpaMapSend, chainVars, roundVars
  <2>2. ASSUME NEW m \in info, HandleBlockInfo(m) PROVE <1>1!1 /\ <1>1!2
    BY <2>2 DEF HandleBlockInfo, chainVars, roundVars
  <2>3. ASSUME NEW m \in partitionMsg, handlePartitionMsg(m) PROVE <1>1!1 /\ <1>1!2
    BY <2>3 DEF handlePartitionMsg, supervisorVars, chainVars
  <2>4. ASSUME NEW m \in readyMsg, handlePartitionReady(m) PROVE <1>1!1 /\ <1>1!2
    BY <2>4 DEF handlePartitionReady, supervisorVars, chainVars, roundVars
  <2>5. ASSUME NEW s \in Shard, sendPartitionReady(s) PROVE <1>1!1 /\ <1>1!2
    BY <2>5 DEF sendPartitionReady, supervisorVars, chainVars, TypeInv, TypeOK, RoundTypes
  <2>6. CASE UNCHANGED vars
    BY <2>6 DEF vars, supervisorVars, netVars, chainVars, roundVars
  <2> QED
    BY <2>1, <2>2, <2>3, <2>4, <2>5, <2>6
<1> QED
  BY <1>1, PlacesStay, MovesKeepOnce

\* The transactions of a block come from the pool, each once.
LEMMA FreshItems ==
    ASSUME ChainTypes, NEW s \in Shard
    PROVE  /\ \A k \in DOMAIN Fresh(s) : Fresh(s)[k] \in ToSet(TxQueue[s])
           /\ \A j, k \in DOMAIN Fresh(s) : j # k => Fresh(s)[j].tx # Fresh(s)[k].tx
<1> DEFINE items == Packed(s)
           P == {k \in DOMAIN items : /\ ~HasTransaction(s, items[k].tx)
                                      /\ \A j \in 1 .. k - 1 : items[j].tx # items[k].tx}
<1>1. TxQueue[s] \in Seq(Item) /\ Len(TxQueue[s]) \in Nat /\ items \in Seq(Item)
  BY FreshType DEF ChainTypes
<1>2. Fresh(s) = Kept(items, P)
  BY Zenon DEF Fresh
<1>3. \A k \in DOMAIN items : items[k] \in ToSet(TxQueue[s])
  <2>1. PICK n : n = IF Len(TxQueue[s]) < BlockSize THEN Len(TxQueue[s]) ELSE BlockSize
    OBVIOUS
  <2>2. n \in Nat /\ n <= Len(TxQueue[s])
    BY <1>1, <2>1, TransferAssumption
  <2>3. items = SubSeq(TxQueue[s], 1, n)
    BY <2>1, Zenon DEF Packed
  <2>4. DOMAIN items = 1 .. n /\ \A k \in 1 .. n : items[k] = TxQueue[s][k]
    BY <1>1, <2>2, <2>3
  <2>5. \A k \in 1 .. n : k \in DOMAIN TxQueue[s]
    BY <1>1, <2>2
  <2> QED
    BY <2>4, <2>5 DEF ToSet
<1>4. \A Q : ToSet(Kept(items, Q)) = {items[k] : k \in Q \cap DOMAIN items}
  BY <1>1, KeptSet
<1>5. ASSUME NEW j \in DOMAIN Fresh(s), NEW k \in DOMAIN Fresh(s), j < k
      PROVE  Fresh(s)[j].tx # Fresh(s)[k].tx
  <2>1. \A Q : j \in DOMAIN Kept(items, Q) /\ k \in DOMAIN Kept(items, Q) =>
           \E p, q \in Q \cap DOMAIN items :
              p < q /\ Kept(items, Q)[j] = items[p] /\ Kept(items, Q)[k] = items[q]
    BY <1>1, <1>5, KeptInOrder
  <2>2. PICK p \in P \cap DOMAIN items, q \in P \cap DOMAIN items :
           p < q /\ Fresh(s)[j] = items[p] /\ Fresh(s)[k] = items[q]
    BY <1>2, <2>1, Zenon
  <2>3. p \in 1 .. q - 1
    BY <1>1, <2>2
  <2> QED
    BY <2>2, <2>3
<1>6. Fresh(s) \in Seq(Item)
  BY FreshType
<1>7. \A k \in DOMAIN Fresh(s) : Fresh(s)[k] \in ToSet(Fresh(s))
  BY DEF ToSet
<1>8. ASSUME NEW k \in DOMAIN Fresh(s) PROVE Fresh(s)[k] \in ToSet(TxQueue[s])
  <2>1. Fresh(s)[k] \in {items[q] : q \in P \cap DOMAIN items}
    BY <1>2, <1>4, <1>7, Zenon
  <2> QED
    BY <1>3, <2>1
<1>9. DOMAIN Fresh(s) = 1 .. Len(Fresh(s)) /\ Len(Fresh(s)) \in Nat
  BY <1>6
<1>10. ASSUME NEW j \in DOMAIN Fresh(s), NEW k \in DOMAIN Fresh(s), j # k
       PROVE  Fresh(s)[j].tx # Fresh(s)[k].tx
  <2>1. j < k \/ k < j
    BY <1>9, <1>10
  <2> QED
    BY <1>5, <2>1
<1> QED
  BY <1>8, <1>10

\* What stays in the pool was there, and is no transaction of the block.
LEMMA UnpackedItems ==
    ASSUME ChainTypes, NEW s \in Shard, NEW items, NEW x \in ToSet(Unpacked(s, items))
    PROVE  x \in ToSet(TxQueue[s]) /\ \A k \in DOMAIN items : items[k].tx # x.tx
<1> DEFINE m == Len(Packed(s)) + 1
           rest == SubSeq(TxQueue[s], m, Len(TxQueue[s]))
           P == {k \in DOMAIN rest : \A j \in DOMAIN items : items[j].tx # rest[k].tx}
<1>1. /\ TxQueue[s] \in Seq(Item) /\ Len(TxQueue[s]) \in Nat /\ m \in Nat \ {0}
      /\ DOMAIN TxQueue[s] = 1 .. Len(TxQueue[s])
  BY FreshType DEF ChainTypes
<1>2. Unpacked(s, items) = Kept(rest, P)
  BY Zenon DEF Unpacked
<1> HIDE DEF m
<1>3. rest \in Seq(Item) /\ \A k \in DOMAIN rest : \E j \in DOMAIN TxQueue[s] : rest[k] = TxQueue[s][j]
  <2>1. rest \in Seq(Item)
    BY <1>1
  <2>2. ASSUME NEW k \in DOMAIN rest PROVE \E j \in DOMAIN TxQueue[s] : rest[k] = TxQueue[s][j]
    <3>1. k \in 1 .. Len(TxQueue[s]) - m + 1 /\ rest[k] = TxQueue[s][m + k - 1]
      BY <1>1
    <3>2. m + k - 1 \in DOMAIN TxQueue[s]
      BY <1>1, <3>1
    <3> QED
      BY <3>1, <3>2
  <2> QED
    BY <2>1, <2>2
<1> HIDE DEF rest
<1>4. \A Q : ToSet(Kept(rest, Q)) = {rest[k] : k \in Q \cap DOMAIN rest}
  BY <1>3, KeptSet
<1>5. PICK k \in P \cap DOMAIN rest : x = rest[k]
  <2>1. x \in {rest[k] : k \in P \cap DOMAIN rest}
    BY <1>2, <1>4, Zenon
  <2> QED
    BY <2>1
<1> QED
  BY <1>3, <1>5 DEF ToSet

\* What the execution of an item may be in shard s.
Executes(s, item, e) ==
    /\ e.tx = item.tx /\ e.relayed = item.relayed
    /\ e.debit => ~item.relayed /\ Here(s, Sender[item.tx])
    /\ e.credit => Here(s, Recipient[item.tx])

LEMMA BodyIs ==
    ASSUME ChainTypes, NEW s \in Shard, NEW items \in Seq(Item)
    PROVE  LET body == GetUpdateStatusTrie(s, items).body
           IN /\ \A e \in ToSet(body) : e \in Entry /\ \E k \in DOMAIN items : Executes(s, items[k], e)
              /\ \A k \in DOMAIN items : \E e \in ToSet(body) : Executes(s, items[k], e)
<1>1. PICK done \in [0 .. Len(items) -> Trie] :
         /\ GetUpdateStatusTrie(s, items) = done[Len(items)]
         /\ done[0] = [balance |-> balance[s], body |-> <<>>]
         /\ \A k \in 1 .. Len(items) :
              LET e == Execute(s, done[k - 1].balance, items[k])
              IN done[k] = [balance |-> After(done[k - 1].balance, e),
                            body |-> Append(done[k - 1].body, e)]
  BY TrieRuns
<1>2. PICK n : n = Len(items) /\ n \in Nat /\ DOMAIN items = 1 .. n
  OBVIOUS
<1> DEFINE G == {k \in 0 .. n : /\ Len(done[k].body) = k
                                /\ \A j \in 1 .. k : Executes(s, items[j], done[k].body[j])}
<1>3. 0 \in G
  BY <1>1, <1>2
<1>4. ASSUME NEW k \in 1 .. n, k - 1 \in G PROVE k \in G
  <2>1. PICK old, e : /\ old = done[k - 1].body /\ old \in Seq(Entry) /\ Len(old) = k - 1
                      /\ e = Execute(s, done[k - 1].balance, items[k])
    BY <1>1, <1>2, <1>4 DEF Trie
  <2>2. done[k].body = Append(old, e)
    <3>1. done[k] = [balance |-> After(done[k - 1].balance, e), body |-> Append(done[k - 1].body, e)]
      BY <1>1, <1>2, <2>1, Zenon
    <3> QED
      BY <2>1, <3>1
  <2>3. Executes(s, items[k], e)
    BY <2>1 DEF Executes, Execute
  <2>4. e \in Entry
    <3>1. done[k - 1].balance \in [Account -> Int] /\ items[k] \in Item
      <4>1. k - 1 \in 0 .. Len(items)
        BY <1>2
      <4>2. done[k - 1] \in Trie
        BY <1>1, <4>1
      <4> QED
        BY <1>2, <4>2 DEF Trie
    <3> QED
      BY <2>1, <3>1, ExecuteType
  <2>5. Len(Append(old, e)) = k /\ Append(old, e)[k] = e /\ \A j \in 1 .. k - 1 : Append(old, e)[j] = old[j]
    BY <2>1, <2>4
  <2>6. ASSUME NEW j \in 1 .. k PROVE Executes(s, items[j], Append(old, e)[j])
    <3>1. CASE j = k
      BY <2>3, <2>5, <3>1
    <3>2. CASE j # k
      <4>1. j \in 1 .. k - 1
        BY <3>2
      <4>2. Executes(s, items[j], old[j])
        BY <1>4, <2>1, <4>1, Zenon
      <4> QED
        BY <2>5, <4>1, <4>2, Zenon
    <3> QED
      BY <3>1, <3>2
  <2>7. k \in 0 .. n
    OBVIOUS
  <2> QED
    BY <2>2, <2>5, <2>6, <2>7, Zenon
<1>5. n \in G
  <2>1. 0 .. n \subseteq G
    <3> HIDE DEF G
    <3> QED
      BY <1>2, <1>3, <1>4, UpTo, Zenon
  <2> QED
    BY <1>2, <2>1
<1>6. PICK body : body = done[n].body /\ body \in Seq(Entry) /\ body = GetUpdateStatusTrie(s, items).body
  BY <1>1, <1>2 DEF Trie
<1>7. Len(body) = n /\ \A j \in 1 .. n : Executes(s, items[j], body[j])
  BY <1>5, <1>6
<1>8. DOMAIN body = 1 .. n /\ \A j \in 1 .. n : body[j] \in Entry
  BY <1>6, <1>7
<1> QED
  BY <1>2, <1>6, <1>7, <1>8 DEF ToSet

\* What is relayed are second halves.
LEMMA RelayItems ==
    ASSUME ChainTypes, NEW s \in Shard, NEW items \in Seq(Item), NEW d,
           NEW x \in ToSet(RelayTo(s, items, d))
    PROVE  \E k \in DOMAIN items : /\ x = Second(items[k].tx)
                                   /\ PartitionMap[s][Recipient[items[k].tx]] = d
<1> DEFINE P == {k \in DOMAIN items : PartitionMap[s][Recipient[items[k].tx]] = d}
           out == Kept(items, P)
<1>1. RelayTo(s, items, d) = [k \in DOMAIN out |-> [tx |-> out[k].tx, relayed |-> TRUE]]
  BY Zenon DEF RelayTo
<1>2. \A Q : ToSet(Kept(items, Q)) = {items[k] : k \in Q \cap DOMAIN items}
  BY KeptSet
<1>3. ToSet(out) = {items[k] : k \in P \cap DOMAIN items}
  BY <1>2, Zenon
<1> HIDE DEF out
<1>4. PICK k \in DOMAIN out : x = [tx |-> out[k].tx, relayed |-> TRUE]
  BY <1>1 DEF ToSet
<1>5. out[k] \in ToSet(out)
  BY <1>4 DEF ToSet
<1> QED
  BY <1>3, <1>4, <1>5 DEF Second

\* What a block does to transactions.
RelayMsg(s, d) == [from |-> s, to |-> d, seq |-> sequenceID[s], txs |-> RelayTo(s, Fresh(s), d)]

LEMMA BlockIs ==
    ASSUME TypeInv, NEW s \in Shard, Block(s)
    PROVE  /\ \A x \in ToSet(TxQueue'[s]) :
                 x \in ToSet(TxQueue[s]) /\ \A k \in DOMAIN Fresh(s) : Fresh(s)[k].tx # x.tx
           /\ \A d \in Shard \ {s} : TxQueue'[d] = TxQueue[d]
           /\ Executions' = Executions \cup ToSet(GetUpdateStatusTrie(s, Fresh(s)).body)
           /\ \A m \in relay' :
                 \/ m \in relay
                 \/ /\ \E d \in Shard \ {s} : m = RelayMsg(s, d)
                    /\ \A k \in DOMAIN Fresh(s) : ~IncorrectTx(s, Fresh(s)[k])
           /\ UNCHANGED <<inject, accountMsg, AccountStateTx, phase, nowDataNum>>
<1> DEFINE body == GetUpdateStatusTrie(s, Fresh(s)).body
<1>1. /\ TxQueue \in [Shard -> Seq(Item)] /\ log \in [Shard -> SUBSET Entry] /\ ChainTypes
  BY DEF TypeInv, TypeOK, ChainTypes
<1>2. /\ TxQueue' = [TxQueue EXCEPT ![s] = Unpacked(s, Fresh(s))]
      /\ log' = [log EXCEPT ![s] = @ \cup ToSet(body)]
      /\ \/ relay' = relay
         \/ /\ \A k \in DOMAIN Fresh(s) : ~IncorrectTx(s, Fresh(s)[k])
            /\ relay' = relay \cup RelayMsgs(s, Fresh(s))
      /\ UNCHANGED <<inject, accountMsg, AccountStateTx, phase, nowDataNum>>
  BY DEF Block, supervisorVars, roundVars
<1> HIDE DEF body
<1>3. TxQueue'[s] = Unpacked(s, Fresh(s)) /\ \A d \in Shard \ {s} : TxQueue'[d] = TxQueue[d]
  BY <1>1, <1>2
<1>4. log'[s] = log[s] \cup ToSet(body) /\ \A d \in Shard \ {s} : log'[d] = log[d]
  BY <1>1, <1>2
<1>5. Executions' = Executions \cup ToSet(body)
  BY <1>4 DEF Executions
<1>6. \A m \in RelayMsgs(s, Fresh(s)) : \E d \in Shard \ {s} : m = RelayMsg(s, d)
  BY DEF RelayMsgs, RelayMsg
<1>7. \A x \in ToSet(TxQueue'[s]) :
         x \in ToSet(TxQueue[s]) /\ \A k \in DOMAIN Fresh(s) : Fresh(s)[k].tx # x.tx
  BY <1>1, <1>3, UnpackedItems
<1> QED
  BY <1>2, <1>3, <1>5, <1>6, <1>7 DEF body

LEMMA BlockKeepsOnce == ASSUME TypeInv, Once, NEW s \in Shard, Block(s) PROVE Once'
<1> DEFINE items == Fresh(s)
           body == GetUpdateStatusTrie(s, items).body
           To(t) == PartitionMap[s][Recipient[t]]
           Passed(t) == (\E k \in DOMAIN items : items[k] = First(t)) /\ To(t) # s
<1>1. ChainTypes /\ items \in Seq(Item)
  BY FreshType DEF TypeInv, TypeOK
<1>2. /\ \A k \in DOMAIN items : items[k] \in ToSet(TxQueue[s]) /\ items[k] \in Item
      /\ \A j, k \in DOMAIN items : j # k => items[j].tx # items[k].tx
  BY <1>1, FreshItems
<1>3. /\ \A e \in ToSet(body) : e \in Entry /\ \E k \in DOMAIN items : Executes(s, items[k], e)
      /\ \A k \in DOMAIN items : \E e \in ToSet(body) : Executes(s, items[k], e)
  BY <1>1, BodyIs
<1>4. /\ \A x \in ToSet(TxQueue'[s]) :
            x \in ToSet(TxQueue[s]) /\ \A k \in DOMAIN items : items[k].tx # x.tx
      /\ \A d \in Shard \ {s} : TxQueue'[d] = TxQueue[d]
      /\ Executions' = Executions \cup ToSet(body)
      /\ \A m \in relay' :
            \/ m \in relay
            \/ /\ \E d \in Shard \ {s} : m = RelayMsg(s, d)
               /\ \A k \in DOMAIN items : ~IncorrectTx(s, items[k])
      /\ UNCHANGED <<inject, accountMsg, AccountStateTx, phase, nowDataNum>>
  BY BlockIs
<1>5. ASSUME NEW m \in relay', m \notin relay, NEW i \in Item, i \in ToSet(m.txs)
      PROVE  i.relayed /\ Passed(i.tx) /\ m = RelayMsg(s, To(i.tx))
  <2>1. PICK d \in Shard \ {s} : m = RelayMsg(s, d)
    BY <1>4, <1>5
  <2>2. \A k \in DOMAIN items : ~IncorrectTx(s, items[k])
    BY <1>4, <1>5
  <2>3. i \in ToSet(RelayTo(s, items, d))
    BY <1>5, <2>1 DEF RelayMsg
  <2>4. PICK k \in DOMAIN items : i = Second(items[k].tx) /\ To(items[k].tx) = d
    BY <1>1, <2>3, RelayItems
  <2>5. ~items[k].relayed
    BY <2>1, <2>2, <2>4 DEF IncorrectTx, Carrier, Here
  <2>6. items[k] = First(items[k].tx) /\ i.relayed /\ i.tx = items[k].tx
    BY <1>2, <2>4, <2>5, HalfIs, Halves
  <2> QED
    BY <2>1, <2>4, <2>6
<1> HIDE DEF items, body
<1>6. ASSUME NEW i \in Item, NEW p \in Places(i)'
      PROVE  \/ p \in Places(i) /\ (p = <<"queue", s>> => \A k \in DOMAIN items : items[k].tx # i.tx)
             \/ i.relayed /\ Passed(i.tx) /\ p = <<"relay", RelayMsg(s, To(i.tx))>>
  <2>1. CASE \E m \in relay' \ relay : p = <<"relay", m>> /\ i \in ToSet(m.txs)
    BY <1>5, <2>1
  <2>2. CASE ~\E m \in relay' \ relay : p = <<"relay", m>> /\ i \in ToSet(m.txs)
    <3>1. p = <<"queue", s>> => i \in ToSet(TxQueue'[s])
      BY PlaceIsNext
    <3>2. \A d \in Shard : i \in ToSet(TxQueue'[d]) => i \in ToSet(TxQueue[d])
      BY <1>4
    <3>3. p \in Places(i)
      BY <1>4, <2>2, <3>2, PlaceIs, PlaceIsNext
    <3> QED
      BY <1>4, <3>1, <3>3
  <2> QED
    BY <2>1, <2>2
<1>7. ASSUME NEW k \in DOMAIN items PROVE <<"queue", s>> \in Places(items[k]) /\ Waits(items[k])
  BY <1>2, PlaceIs DEF Waits
<1>8. ASSUME NEW t \in Tx, NEW k \in DOMAIN items, items[k] = First(t)
      PROVE  ~Waits(Second(t)) /\ ~\E e \in Executions : e.tx = t
  <2>1. ~\E e \in Executions : e.tx = t /\ ~e.relayed
    <3>1. Waits(First(t)) /\ First(t) \in Item /\ First(t).tx = t /\ First(t).relayed = FALSE
      BY <1>7, <1>8, Halves DEF First
    <3>2. ~\E e \in Executions : e.tx = t /\ e.relayed = FALSE
      BY <3>1 DEF Once, OnceOnly
    <3>3. \A e \in Executions : e.relayed \in BOOLEAN
      BY <1>1 DEF ChainTypes, Executions, Entry
    <3> QED
      BY <3>2, <3>3
  <2> QED
    BY <2>1 DEF Once, OnceOnly
<1>9. OnePlace'
  <2> SUFFICES ASSUME NEW i \in Item, NEW p \in Places(i)', NEW q \in Places(i)' PROVE p = q
    BY DEF OnePlace
  <2>1. CASE i.relayed /\ Passed(i.tx)
    <3>1. i = Second(i.tx) /\ i.tx \in Tx
      BY <2>1, HalfIs
    <3>2. p \notin Places(i) /\ q \notin Places(i)
      BY <1>8, <2>1, <3>1 DEF Waits
    <3> QED
      BY <1>6, <3>2, Zenon
  <2>2. CASE ~(i.relayed /\ Passed(i.tx))
    <3>1. p \in Places(i) /\ q \in Places(i)
      BY <1>6, <2>2
    <3> QED
      BY <3>1 DEF Once, OnePlace
  <2> QED
    BY <2>1, <2>2
<1>10. ASSUME NEW i \in Item, Waits(i)'
       PROVE  \/ Waits(i) /\ \A k \in DOMAIN items : items[k] # i
              \/ i.relayed /\ Passed(i.tx)
  <2>1. PICK p \in Places(i)' : TRUE
    BY <1>10 DEF Waits
  <2>2. CASE p \in Places(i) /\ (p = <<"queue", s>> => \A k \in DOMAIN items : items[k].tx # i.tx)
    <3>1. ASSUME NEW k \in DOMAIN items, items[k] = i PROVE FALSE
      <4>1. p = <<"queue", s>>
        BY <1>7, <2>2, <3>1 DEF Once, OnePlace
      <4> QED
        BY <2>2, <3>1, <4>1
    <3> QED
      BY <2>2, <3>1 DEF Waits
  <2> QED
    BY <1>6, <2>2
<1> HIDE DEF Passed
<1>11. ASSUME NEW i \in Item, Waits(i)', NEW e \in Executions', e.tx = i.tx, e.relayed = i.relayed
       PROVE  FALSE
  <2>1. ASSUME e \in ToSet(body) PROVE \E k \in DOMAIN items : items[k] = i
    <3>1. PICK k \in DOMAIN items : Executes(s, items[k], e)
      BY <1>3, <2>1
    <3>2. items[k].tx = i.tx /\ items[k].relayed = i.relayed
      BY <1>11, <3>1 DEF Executes
    <3> QED
      BY <1>2, <3>2, HalfIs
  <2>2. CASE Waits(i) /\ \A k \in DOMAIN items : items[k] # i
    <3>1. e \in Executions
      BY <1>4, <2>1, <2>2
    <3> QED
      BY <1>11, <2>2, <3>1 DEF Once, OnceOnly
  <2>3. CASE i.relayed /\ Passed(i.tx)
    <3>1. i.tx \in Tx
      BY HalfIs
    <3>2. PICK k \in DOMAIN items : items[k] = First(i.tx)
      BY <2>3 DEF Passed
    <3>3. e \in ToSet(body)
      BY <1>4, <1>8, <1>11, <3>1, <3>2
    <3>4. PICK j \in DOMAIN items : items[j] = i
      BY <2>1, <3>3
    <3> QED
      BY <1>2, <2>3, <3>1, <3>2, <3>4, Halves
  <2> QED
    BY <1>10, <1>11, <2>2, <2>3
<1>12. ASSUME NEW k \in DOMAIN items
       PROVE  /\ items[k].tx \in Tx
              /\ items[k] = First(items[k].tx) \/ items[k] = Second(items[k].tx)
              /\ items[k].relayed => items[k] = Second(items[k].tx)
              /\ ~items[k].relayed => items[k] = First(items[k].tx)
  BY <1>2, HalfIs
<1>13. ASSUME NEW t \in Tx, Waits(Second(t))' \/ \E e \in Executions' : e.tx = t /\ e.relayed
       PROVE  \E e \in Executions' : e.tx = t /\ ~e.relayed
  <2>1. CASE Waits(Second(t)) \/ \E e \in Executions : e.tx = t /\ e.relayed
    BY <1>4, <2>1 DEF Once, OnceOnly
  <2>2. CASE Passed(t)
    <3>1. PICK k \in DOMAIN items : items[k] = First(t)
      BY <2>2 DEF Passed
    <3>2. PICK e \in ToSet(body) : Executes(s, items[k], e)
      BY <1>3
    <3> QED
      BY <1>4, <3>1, <3>2, Halves DEF Executes
  <2>3. ASSUME NEW e \in ToSet(body), e.tx = t, e.relayed PROVE Waits(Second(t))
    <3>1. PICK k \in DOMAIN items : Executes(s, items[k], e)
      BY <1>3
    <3> QED
      BY <1>7, <1>12, <2>3, <3>1 DEF Executes
  <2>4. Waits(Second(t))' => Waits(Second(t)) \/ Passed(t)
    BY <1>10, Halves
  <2> QED
    BY <1>4, <1>13, <2>1, <2>2, <2>3, <2>4
<1>14. ASSUME NEW t \in Tx, Waits(Second(t))', NEW e \in Executions', e.tx = t, e.credit PROVE FALSE
  <2>1. ASSUME e \in ToSet(body)
        PROVE  \E k \in DOMAIN items : /\ items[k] \in {First(t), Second(t)}
                                       /\ PartitionMap[s][Recipient[t]] = s
    <3>1. PICK k \in DOMAIN items : Executes(s, items[k], e)
      BY <1>3, <2>1
    <3> QED
      BY <1>12, <1>14, <3>1 DEF Executes, Here
  <2>2. CASE Waits(Second(t)) /\ \A k \in DOMAIN items : items[k] # Second(t)
    <3>1. e \notin Executions
      BY <1>14, <2>2 DEF Once, OnceOnly
    <3>2. PICK k \in DOMAIN items : items[k] = First(t)
      BY <1>4, <2>1, <2>2, <3>1
    <3> QED
      BY <1>8, <2>2, <3>2
  <2>3. CASE Passed(t)
    <3>1. e \notin Executions
      BY <1>8, <1>14, <2>3 DEF Passed
    <3> QED
      BY <1>4, <2>1, <2>3, <3>1 DEF Passed
  <2> QED
    BY <1>10, <1>14, <2>2, <2>3, Halves
<1>15. ASSUME NEW t \in Tx, Waits(First(t))' \/ \E e \in Executions' : e.tx = t PROVE t <= nowDataNum
  <2>1. Waits(First(t)) \/ (\E e \in Executions : e.tx = t) => t <= nowDataNum
    BY DEF Once, OnceOnly
  <2>2. Waits(Second(t)) => \E e \in Executions : e.tx = t
    BY DEF Once, OnceOnly
  <2>3. ASSUME NEW e \in ToSet(body), e.tx = t PROVE Waits(First(t)) \/ Waits(Second(t))
    <3>1. PICK k \in DOMAIN items : Executes(s, items[k], e)
      BY <1>3
    <3> QED
      BY <1>7, <1>12, <2>3, <3>1 DEF Executes
  <2>4. Waits(First(t))' => Waits(First(t))
    BY <1>10, Halves
  <2> QED
    BY <1>4, <1>15, <2>1, <2>2, <2>3, <2>4
<1>16. ASSUME NEW e \in Executions', e.debit PROVE ~e.relayed
  BY <1>3, <1>4, <1>16 DEF Executes, Once, OnceOnly
<1>17. OnceOnly'
  BY <1>4, <1>11, <1>13, <1>14, <1>15, <1>16 DEF OnceOnly
<1> QED
  BY <1>9, <1>17 DEF Once

LEMMA OnceStarts == Init => Once
<1> SUFFICES ASSUME Init PROVE Once
  OBVIOUS
<1>1. /\ \A s \in Shard : TxQueue[s] = <<>> /\ AccountStateTx[s] = {} /\ log[s] = {}
      /\ inject = {} /\ relay = {} /\ accountMsg = {}
  BY DEF Init
<1>2. ToSet(<<>>) = {}
  BY DEF ToSet
<1>3. \A i : Places(i) = {}
  BY <1>1, <1>2, PlaceIs
<1>4. Executions = {}
  BY <1>1 DEF Executions
<1> QED
  BY <1>3, <1>4 DEF Once, OnePlace, OnceOnly, Waits

LEMMA StepKeepsOnce == TypeInv /\ Once /\ [Next]_vars => Once'
<1> SUFFICES ASSUME TypeInv, Once, [Next]_vars PROVE Once'
  OBVIOUS
<1>1. ASSUME Deliver PROVE Once'
  BY <1>1, InjectKeepsOnce, RelayKeepsOnce, AccountsKeepOnce, OthersKeepOnce, Zenon DEF Deliver
<1>2. ASSUME NEW s \in Shard, ShardStep(s) PROVE Once'
  BY <1>2, BlockKeepsOnce, SendKeepsOnce, ProposeKeepsOnce, TransferKeepsOnce, OthersKeepOnce, Zenon
     DEF ShardStep
<1> QED
  BY <1>1, <1>2, SendingKeepsOnce, OthersKeepOnce, Zenon DEF Next

-----------------------------------------------------------------------------
(* What transactions do to an account, added up.                            *)

Paid(L, a, t) == IF Sender[t] = a /\ (\E e \in L : e.tx = t /\ e.debit) THEN Value[t] ELSE 0
Got(L, a, t)  == IF Recipient[t] = a /\ (\E e \in L : e.tx = t /\ e.credit) THEN Value[t] ELSE 0

\* What an account has after the first transactions of the file, if the
\* executions in L are what there was.
Sums(f, L, a) ==
    /\ f \in [0 .. NumTx -> Int] /\ f[0] = Init_Balance
    /\ \A t \in Tx : f[t] = f[t - 1] - Paid(L, a, t) + Got(L, a, t)

Total(L, a) == (CHOOSE f : Sums(f, L, a))[NumTx]

LEMMA Halfway ==
    ASSUME NEW L, NEW a, NEW t \in Tx PROVE Paid(L, a, t) \in Int /\ Got(L, a, t) \in Int
  BY TransferAssumption DEF Paid, Got

LEMMA SumsAre == ASSUME NEW L, NEW a PROVE Sums(CHOOSE f : Sums(f, L, a), L, a)
<1> DEFINE E(k, x) == x - Paid(L, a, k) + Got(L, a, k)
           step == [k \in 1 .. NumTx |-> [x \in Int |-> E(k, x)]]
<1>1. NumTx \in Nat /\ Init_Balance \in Int
  BY TransferAssumption
<1>2. \A k \in 1 .. NumTx, x \in Int : E(k, x) \in Int
  BY Halfway DEF Tx
<1> HIDE DEF E
<1>3. step \in [1 .. NumTx -> [Int -> Int]] /\ \A k \in 1 .. NumTx, x \in Int : step[k][x] = E(k, x)
  BY <1>2
<1> HIDE DEF step
<1>4. PICK f : Iterates(NumTx, Int, Init_Balance, step, f)
  BY <1>1, <1>3, Recursion
<1>5. f \in [0 .. NumTx -> Int] /\ f[0] = Init_Balance /\ \A k \in 1 .. NumTx : f[k] = E(k, f[k - 1])
  <2>1. f \in [0 .. NumTx -> Int] /\ f[0] = Init_Balance
    BY <1>4 DEF Iterates
  <2>2. \A k \in 1 .. NumTx : f[k] = step[k][f[k - 1]]
    BY <1>4 DEF Iterates
  <2>3. \A k \in 1 .. NumTx : f[k - 1] \in Int
    BY <1>1, <2>1
  <2> QED
    BY <1>3, <2>1, <2>2, <2>3
<1>6. Sums(f, L, a)
  BY <1>5 DEF Sums, E, Tx
<1> QED
  BY <1>6, Zenon

\* One transaction with another effect changes the total by as much.
LEMMA TotalChanges ==
    ASSUME NEW L, NEW M, NEW a, NEW f, NEW g, Sums(f, L, a), Sums(g, M, a),
           NEW t \in Tx, NEW c \in Int,
           \A u \in Tx \ {t} : Paid(M, a, u) = Paid(L, a, u) /\ Got(M, a, u) = Got(L, a, u),
           Got(M, a, t) - Paid(M, a, t) = Got(L, a, t) - Paid(L, a, t) + c
    PROVE  g[NumTx] = f[NumTx] + c
<1> DEFINE G == {k \in 0 .. NumTx : g[k] = f[k] + IF k >= t THEN c ELSE 0}
<1>1. NumTx \in Nat /\ t \in 1 .. NumTx
  BY TransferAssumption DEF Tx
<1>2. 0 \in G
  BY <1>1, TransferAssumption DEF Sums
<1>3. ASSUME NEW k \in 1 .. NumTx, k - 1 \in G PROVE k \in G
  <2>1. /\ k \in Tx /\ f[k] \in Int /\ g[k] \in Int /\ f[k - 1] \in Int /\ g[k - 1] \in Int
        /\ f[k] = f[k - 1] - Paid(L, a, k) + Got(L, a, k)
        /\ g[k] = g[k - 1] - Paid(M, a, k) + Got(M, a, k)
    BY <1>1 DEF Sums, Tx
  <2>2. /\ Paid(L, a, k) \in Int /\ Got(L, a, k) \in Int
        /\ Paid(M, a, k) \in Int /\ Got(M, a, k) \in Int
    BY <2>1, Halfway
  <2>3. g[k - 1] = f[k - 1] + IF k - 1 >= t THEN c ELSE 0
    BY <1>3
  <2>4. CASE k = t
    <3>1. Got(M, a, k) - Paid(M, a, k) = Got(L, a, k) - Paid(L, a, k) + c
      BY <2>4
    <3>2. g[k - 1] = f[k - 1]
      BY <1>1, <2>1, <2>3, <2>4
    <3> QED
      BY <2>1, <2>2, <2>4, <3>1, <3>2
  <2>5. CASE k # t
    <3>1. Paid(M, a, k) = Paid(L, a, k) /\ Got(M, a, k) = Got(L, a, k)
      BY <2>1, <2>5
    <3>2. (k - 1 >= t) = (k >= t)
      BY <1>1, <2>5
    <3> QED
      BY <2>1, <2>2, <2>3, <3>1, <3>2
  <2> QED
    BY <2>4, <2>5
<1>4. 0 .. NumTx \subseteq G
  <2> HIDE DEF G
  <2> QED
    BY <1>1, <1>2, <1>3, UpTo, Zenon
<1> QED
  BY <1>1, <1>4

LEMMA SumsAreUnique ==
    ASSUME NEW L, NEW a, NEW f, NEW g, Sums(f, L, a), Sums(g, L, a)
    PROVE  f[NumTx] = g[NumTx]
<1>1. CASE NumTx = 0
  BY <1>1 DEF Sums
<1>2. CASE NumTx # 0
  <2>1. NumTx \in Tx
    BY <1>2, TransferAssumption DEF Tx
  <2>2. f[NumTx] \in Int /\ g[NumTx] \in Int
    BY TransferAssumption DEF Sums
  <2>3. /\ Paid(L, a, NumTx) \in Int /\ Got(L, a, NumTx) \in Int
        /\ \A u \in Tx \ {NumTx} : Paid(L, a, u) = Paid(L, a, u) /\ Got(L, a, u) = Got(L, a, u)
    BY <2>1, Halfway
  <2>4. Got(L, a, NumTx) - Paid(L, a, NumTx) = Got(L, a, NumTx) - Paid(L, a, NumTx) + 0
    BY <2>3
  <2>5. g[NumTx] = f[NumTx] + 0
    BY <2>1, <2>3, <2>4, TotalChanges
  <2> QED
    BY <2>2, <2>5
<1> QED
  BY <1>1, <1>2

LEMMA TotalType == \A L, a : Total(L, a) \in Int
<1> SUFFICES ASSUME NEW L, NEW a PROVE Total(L, a) \in Int
  OBVIOUS
<1>1. PICK f : f = CHOOSE g : Sums(g, L, a)
  OBVIOUS
<1>2. Sums(f, L, a)
  BY <1>1, SumsAre
<1>3. f \in [0 .. NumTx -> Int] /\ NumTx \in 0 .. NumTx
  BY <1>2, TransferAssumption DEF Sums
<1> QED
  BY <1>1, <1>3 DEF Total

\* What an account is expected to have is the total of all executions.
LEMMA ExpectedIs == \A a : Expected(a) = Total(Executions, a)
<1> SUFFICES ASSUME NEW a PROVE Expected(a) = Total(Executions, a)
  OBVIOUS
<1> DEFINE P(t) == \E s \in Shard : \E e \in log[s] : e.tx = t /\ e.debit
           Q(t) == \E s \in Shard : \E e \in log[s] : e.tx = t /\ e.credit
           F(f) == [t \in 0 .. NumTx |->
                      IF t = 0 THEN Init_Balance
                      ELSE f[t - 1] - (IF Sender[t] = a /\ P(t) THEN Value[t] ELSE 0)
                                    + (IF Recipient[t] = a /\ Q(t) THEN Value[t] ELSE 0)]
           sum == CHOOSE f : f = F(f)
<1>1. Expected(a) = sum[NumTx]
  BY Zenon DEF Expected
<1>2. /\ \A t : P(t) <=> \E e \in Executions : e.tx = t /\ e.debit
      /\ \A t : Q(t) <=> \E e \in Executions : e.tx = t /\ e.credit
  BY DEF Executions
<1> HIDE DEF P, Q
<1>3. /\ \A t : Paid(Executions, a, t) = IF Sender[t] = a /\ P(t) THEN Value[t] ELSE 0
      /\ \A t : Got(Executions, a, t) = IF Recipient[t] = a /\ Q(t) THEN Value[t] ELSE 0
  BY <1>2 DEF Paid, Got
<1>4. PICK g : g = CHOOSE f : Sums(f, Executions, a)
  OBVIOUS
<1>5. Sums(g, Executions, a)
  BY <1>4, SumsAre
<1>6. NumTx \in Nat
  BY TransferAssumption
<1>7. g = F(g)
  BY <1>3, <1>5, <1>6 DEF Sums, Tx
<1>8. sum = F(sum)
  BY <1>7, Zenon
<1> HIDE DEF sum
<1>9. sum[0] = Init_Balance
  BY <1>6, <1>8
<1>10. \A t \in Tx : sum[t] = sum[t - 1] - Paid(Executions, a, t) + Got(Executions, a, t)
  BY <1>3, <1>6, <1>8 DEF Tx
<1>11. sum \in [0 .. NumTx -> Int]
  <2> DEFINE G == {k \in 0 .. NumTx : sum[k] \in Int}
  <2>1. 0 \in G
    BY <1>6, <1>9, TransferAssumption
  <2>2. ASSUME NEW k \in 1 .. NumTx, k - 1 \in G PROVE k \in G
    <3>1. k \in Tx /\ Paid(Executions, a, k) \in Int /\ Got(Executions, a, k) \in Int
      BY Halfway DEF Tx
    <3>2. sum[k] = sum[k - 1] - Paid(Executions, a, k) + Got(Executions, a, k)
      BY <1>10, <3>1
    <3> QED
      BY <2>2, <3>1, <3>2
  <2>3. 0 .. NumTx \subseteq G
    <3> HIDE DEF G
    <3> QED
      BY <1>6, <2>1, <2>2, UpTo, Zenon
  <2>4. sum = [k \in 0 .. NumTx |-> sum[k]]
    BY <1>8
  <2> QED
    BY <2>3, <2>4
<1>12. Sums(sum, Executions, a)
  BY <1>9, <1>10, <1>11 DEF Sums
<1>13. sum[NumTx] = g[NumTx]
  BY <1>5, <1>12, SumsAreUnique
<1> QED
  BY <1>1, <1>4, <1>13 DEF Total

LEMMA ExpectedIsNext == \A a : Expected(a)' = Total(Executions', a)
<1>1. (\A a : Expected(a) = Total(Executions, a))'
  BY ExpectedIs, PTL
<1> QED
  BY <1>1 DEF Total, Sums, Paid, Got

\* A transaction that is debited and credited for the first time.
LEMMA EntryAdds ==
    ASSUME NEW L, NEW e \in Entry, NEW bal \in [Account -> Int], NEW a \in Account,
           e.debit => ~\E x \in L : x.tx = e.tx /\ x.debit,
           e.credit => ~\E x \in L : x.tx = e.tx /\ x.credit
    PROVE  Total(L \cup {e}, a) - Total(L, a) = After(bal, e)[a] - bal[a]
<1> DEFINE t == e.tx
           M == L \cup {e}
           out == IF e.debit /\ a = Sender[t] THEN Value[t] ELSE 0
           in == IF e.credit /\ a = Recipient[t] THEN Value[t] ELSE 0
<1>1. t \in Tx /\ out \in Int /\ in \in Int /\ bal[a] \in Int
  BY TransferAssumption DEF Entry
<1>2. After(bal, e)[a] = bal[a] - out + in
  BY DEF After
<1>3. Paid(M, a, t) = Paid(L, a, t) + out
  BY <1>1, TransferAssumption DEF Paid
<1>4. Got(M, a, t) = Got(L, a, t) + in
  BY <1>1, TransferAssumption DEF Got
<1>5. \A u \in Tx \ {t} : Paid(M, a, u) = Paid(L, a, u) /\ Got(M, a, u) = Got(L, a, u)
  BY DEF Paid, Got
<1>6. PICK f, g : f = (CHOOSE h : Sums(h, L, a)) /\ g = (CHOOSE h : Sums(h, M, a))
  OBVIOUS
<1> HIDE DEF out, in, M, t
<1>7. Got(M, a, t) - Paid(M, a, t) = Got(L, a, t) - Paid(L, a, t) + (in - out)
  <2>1. Paid(L, a, t) \in Int /\ Got(L, a, t) \in Int
    BY <1>1, Halfway
  <2> QED
    BY <1>1, <1>3, <1>4, <2>1
<1>8. Sums(f, L, a) /\ Sums(g, M, a) /\ in - out \in Int
  BY <1>1, <1>6, SumsAre
<1>9. g[NumTx] = f[NumTx] + (in - out)
  BY <1>1, <1>5, <1>7, <1>8, TotalChanges
<1>10. Total(M, a) = g[NumTx] /\ Total(L, a) = f[NumTx]
  BY <1>6 DEF Total
<1>11. Total(L, a) \in Int /\ Total(M, a) \in Int
  BY TotalType
<1> QED
  BY <1>1, <1>2, <1>9, <1>10, <1>11 DEF M

\* A block changes what an account is expected to have as it changes the
\* balance in its shard: it executes what was not executed before.
LEMMA BlockBalances ==
    ASSUME TypeInv, Once, NEW s \in Shard, Block(s), NEW a \in Account
    PROVE  /\ Expected(a)' - Expected(a) = balance'[s][a] - balance[s][a]
           /\ ~Here(s, a) => balance'[s][a] = balance[s][a]
           /\ \A d \in Shard \ {s} : balance'[d] = balance[d]
           /\ Expected(a) \in Int /\ Expected(a)' \in Int
           /\ balance[s][a] \in Int /\ balance'[s][a] \in Int
<1>1. ChainTypes /\ balance \in [Shard -> [Account -> Int]]
  BY DEF TypeInv, TypeOK, ChainTypes
<1>2. PICK items : items = Fresh(s) /\ items \in Seq(Item)
  BY <1>1, FreshType
<1>3. /\ \A k \in DOMAIN items : items[k] \in ToSet(TxQueue[s]) /\ items[k] \in Item
      /\ \A j, k \in DOMAIN items : j # k => items[j].tx # items[k].tx
  BY <1>1, <1>2, FreshItems
<1>4. PICK done \in [0 .. Len(items) -> Trie] :
         /\ GetUpdateStatusTrie(s, items) = done[Len(items)]
         /\ done[0] = [balance |-> balance[s], body |-> <<>>]
         /\ \A k \in 1 .. Len(items) :
              LET e == Execute(s, done[k - 1].balance, items[k])
              IN done[k] = [balance |-> After(done[k - 1].balance, e),
                            body |-> Append(done[k - 1].body, e)]
  BY <1>1, <1>2, TrieRuns
<1>5. PICK n : n = Len(items) /\ n \in Nat /\ DOMAIN items = 1 .. n
  BY <1>2
<1>6. balance'[s] = done[n].balance /\ \A d \in Shard \ {s} : balance'[d] = balance[d]
  <2>1. balance' = [balance EXCEPT ![s] = GetUpdateStatusTrie(s, Fresh(s)).balance]
    BY DEF Block
  <2> QED
    BY <1>1, <1>2, <1>4, <1>5, <2>1
<1>7. Executions' = Executions \cup ToSet(done[n].body)
  BY <1>2, <1>4, <1>5, BlockIs
\* Nothing of what an item of the block does is done.
<1>8. ASSUME NEW k \in DOMAIN items, NEW x \in Executions, x.tx = items[k].tx
      PROVE  items[k].relayed /\ ~x.credit
  <2>1. items[k] \in Item /\ Waits(items[k])
    BY <1>3, PlaceIs DEF Waits
  <2>2. items[k].tx \in Tx /\ items[k] = IF items[k].relayed THEN Second(items[k].tx) ELSE First(items[k].tx)
    BY <2>1, HalfIs
  <2>3. items[k].relayed
    <3> SUFFICES ASSUME ~items[k].relayed PROVE FALSE
      OBVIOUS
    <3>1. ~\E e \in Executions : e.tx = items[k].tx /\ e.relayed = items[k].relayed
      BY <2>1 DEF Once, OnceOnly
    <3>2. \A e \in Executions : e.relayed \in BOOLEAN
      BY <1>1 DEF ChainTypes, Executions, Entry
    <3>3. items[k].relayed = FALSE
      BY <2>1 DEF Item
    <3>4. x.relayed
      BY <1>8, <3>1, <3>2, <3>3
    <3>5. \E e \in Executions : e.tx = items[k].tx /\ ~e.relayed
      BY <1>8, <2>2, <3>4 DEF Once, OnceOnly
    <3> QED
      BY <3>1, <3>2, <3>3, <3>5
  <2>4. ~x.credit
    BY <1>8, <2>1, <2>2, <2>3 DEF Once, OnceOnly
  <2> QED
    BY <2>3, <2>4
<1> DEFINE L(k) == Executions \cup ToSet(done[k].body)
           G == {k \in 0 .. n :
                   /\ \A x \in ToSet(done[k].body) : \E j \in 1 .. k : x.tx = items[j].tx
                   /\ Total(L(k), a) - Total(Executions, a) = done[k].balance[a] - balance[s][a]
                   /\ ~Here(s, a) => done[k].balance[a] = balance[s][a]}
<1>9. 0 \in G
  <2>1. ToSet(<<>>) = {} /\ done[0].body = <<>> /\ done[0].balance = balance[s]
    BY <1>4 DEF ToSet
  <2>2. L(0) = Executions
    BY <2>1
  <2>3. Total(Executions, a) \in Int /\ balance[s][a] \in Int /\ 0 \in 0 .. n
    BY <1>1, <1>5, TotalType
  <2> HIDE DEF L
  <2> QED
    BY <2>1, <2>2, <2>3
<1>10. ASSUME NEW k \in 1 .. n, k - 1 \in G PROVE k \in G
  <2>1. k - 1 \in 0 .. Len(items) /\ k \in 0 .. Len(items) /\ k \in DOMAIN items
    BY <1>5
  <2>2. PICK bal, body, e : /\ bal = done[k - 1].balance /\ bal \in [Account -> Int]
                            /\ body = done[k - 1].body /\ body \in Seq(Entry)
                            /\ e = Execute(s, bal, items[k])
    <3>1. done[k - 1] \in Trie
      BY <1>4, <2>1
    <3> QED
      BY <3>1 DEF Trie
  <2>3. done[k].balance = After(bal, e) /\ done[k].body = Append(body, e)
    <3>1. done[k] = [balance |-> After(done[k - 1].balance, e), body |-> Append(done[k - 1].body, e)]
      BY <1>4, <1>5, <2>2, Zenon
    <3> QED
      BY <2>2, <3>1
  <2>4. Executes(s, items[k], e)
    BY <2>2 DEF Executes, Execute
  <2>5. e \in Entry /\ After(bal, e) \in [Account -> Int]
    BY <1>3, <2>1, <2>2, ExecuteType
  <2>6. ToSet(done[k].body) = ToSet(body) \cup {e}
    <3>1. body \in Seq(Entry) /\ e \in Entry
      BY <2>2, <2>5
    <3>2. <<e>> \in Seq(Entry) /\ Append(body, e) = body \o <<e>>
      BY <3>1
    <3>3. ToSet(body \o <<e>>) = ToSet(body) \cup ToSet(<<e>>)
      BY <3>1, <3>2, JoinedItems, Zenon
    <3>4. ToSet(<<e>>) = {e}
      BY OneItem
    <3> QED
      BY <2>3, <3>2, <3>3, <3>4, Zenon
  <2>7. \A x \in ToSet(body) : \E j \in 1 .. k - 1 : x.tx = items[j].tx
    BY <1>10, <2>2
  <2>8. \A x \in ToSet(body) : x.tx # e.tx
    <3> SUFFICES ASSUME NEW x \in ToSet(body), x.tx = e.tx PROVE FALSE
      OBVIOUS
    <3>1. PICK j \in 1 .. k - 1 : x.tx = items[j].tx
      BY <2>7
    <3>2. j \in DOMAIN items /\ j # k
      BY <1>5, <3>1
    <3> QED
      BY <1>3, <2>1, <2>4, <3>1, <3>2 DEF Executes
  <2>9. e.debit => ~\E x \in L(k - 1) : x.tx = e.tx /\ x.debit
    BY <1>8, <2>1, <2>2, <2>4, <2>8 DEF Executes
  <2>10. e.credit => ~\E x \in L(k - 1) : x.tx = e.tx /\ x.credit
    BY <1>8, <2>1, <2>2, <2>4, <2>8 DEF Executes
  <2>11. L(k) = L(k - 1) \cup {e}
    BY <2>2, <2>6
  <2>12. /\ Total(L(k - 1), a) - Total(Executions, a) = bal[a] - balance[s][a]
         /\ ~Here(s, a) => bal[a] = balance[s][a]
    BY <1>10, <2>2
  <2> HIDE DEF L
  <2>13. Total(L(k - 1) \cup {e}, a) - Total(L(k - 1), a) = After(bal, e)[a] - bal[a]
    BY <2>2, <2>5, <2>9, <2>10, EntryAdds
  <2>14. Total(L(k), a) - Total(Executions, a) = After(bal, e)[a] - balance[s][a]
    <3>1. /\ Total(L(k), a) \in Int /\ Total(L(k - 1), a) \in Int /\ Total(Executions, a) \in Int
          /\ bal[a] \in Int /\ After(bal, e)[a] \in Int /\ balance[s][a] \in Int
      BY <1>1, <2>2, <2>5, TotalType
    <3>2. PICK x, y, z : x = Total(L(k), a) /\ y = Total(L(k - 1), a) /\ z = Total(Executions, a)
      OBVIOUS
    <3>3. x - y = After(bal, e)[a] - bal[a]
      BY <2>11, <2>13, <3>2, Zenon
    <3>4. y - z = bal[a] - balance[s][a]
      BY <2>12, <3>2, Zenon
    <3>5. x - z = After(bal, e)[a] - balance[s][a]
      BY <3>1, <3>2, <3>3, <3>4
    <3> QED
      BY <3>2, <3>5, Zenon
  <2>15. ~Here(s, a) => After(bal, e)[a] = balance[s][a]
    <3> SUFFICES ASSUME ~Here(s, a) PROVE After(bal, e)[a] = bal[a]
      BY <2>12
    <3>1. ~(e.debit /\ a = Sender[e.tx]) /\ ~(e.credit /\ a = Recipient[e.tx])
      BY <2>4 DEF Executes
    <3>2. bal[a] \in Int
      BY <2>2
    <3> QED
      BY <3>1, <3>2 DEF After
  <2>16. \A x \in ToSet(done[k].body) : \E j \in 1 .. k : x.tx = items[j].tx
    BY <2>4, <2>6, <2>7 DEF Executes
  <2>17. k \in 0 .. n
    OBVIOUS
  <2> QED
    BY <2>3, <2>14, <2>15, <2>16, <2>17
<1>11. n \in G
  <2>1. 0 .. n \subseteq G
    <3> HIDE DEF G
    <3> QED
      BY <1>5, <1>9, <1>10, UpTo, Zenon
  <2> HIDE DEF G
  <2> QED
    BY <1>5, <2>1
<1>12. Expected(a) = Total(Executions, a) /\ Expected(a)' = Total(L(n), a)
  <2>1. Expected(a) = Total(Executions, a)
    BY ExpectedIs
  <2>2. Expected(a)' = Total(Executions', a)
    BY ExpectedIsNext
  <2> QED
    BY <1>7, <2>1, <2>2
<1>13. balance[s][a] \in Int /\ done[n].balance[a] \in Int
  <2>1. done[n] \in Trie
    BY <1>4, <1>5
  <2> QED
    BY <1>1, <2>1 DEF Trie
<1> HIDE DEF L
<1> QED
  BY <1>6, <1>11, <1>12, <1>13, TotalType

LEMMA SameExpected == ASSUME log' = log PROVE \A a : Expected(a)' = Expected(a)
  BY DEF Expected

-----------------------------------------------------------------------------
(* Balances.                                                                *)
(*                                                                          *)
(* A shard has the right balance of its accounts until another shard has    *)
(* taken them over, and so has what is on its way to the new shard.         *)

\* The shard of an account after the round of shard s, and the accounts that
\* shard d gives to s in it.
NewOwner(s, a) == Updated(PartitionMap[s], RoundMap(s))[a]
Arriving(s, d) == {a \in DOMAIN RoundMap(s) : RoundMap(s)[a] = s /\ PartitionMap[s][a] = d}

\* The balances are what the accounts are expected to have.
Exact(states) == \A a \in DOMAIN states : states[a] = Expected(a)

\* Shard s is the last one that had account a: it is not in an exchange, or the
\* new shard of the account is not done with it.
Keeps(s, a) ==
    /\ Here(s, a)
    /\ Exchanging(s) => AccountTransferRound[NewOwner(s, a)] = AccountTransferRound[s]

Balances == \A s \in Shard, a \in Account : Keeps(s, a) => balance[s][a] = Expected(a)

\* A message has the accounts that its shard gives up.
Sent ==
    \A s \in Shard : \A m \in AccountStateTx[s] \cup Coming(s) :
        DOMAIN m.states = Arriving(s, m.from) /\ Exact(m.states)

\* A proposed partition has all accounts that come.
Proposed ==
    \A s \in Shard : phase[s] = "proposed" =>
        \A r \in ToSet(atm[s]) :
            DOMAIN r.states = UNION {Arriving(s, d) : d \in Shard \ {s}} /\ Exact(r.states)

Copies == Balances /\ Sent /\ Proposed

LEMMA CopiesStart == Init => Copies
<1> SUFFICES ASSUME Init PROVE Copies
  OBVIOUS
<1>1. /\ \A s \in Shard : /\ AccountStateTx[s] = {} /\ log[s] = {} /\ phase[s] = "idle"
                          /\ balance[s] = [a \in Account |-> Init_Balance]
      /\ accountMsg = {}
  BY DEF Init
<1>2. ASSUME NEW a PROVE Expected(a) = Init_Balance
  <2> DEFINE f == [t \in 0 .. NumTx |-> Init_Balance]
  <2>1. Executions = {}
    BY <1>1 DEF Executions
  <2>2. \A t : Paid({}, a, t) = 0 /\ Got({}, a, t) = 0
    BY DEF Paid, Got
  <2>3. Sums(f, {}, a) /\ f[NumTx] = Init_Balance
    BY <2>2, TransferAssumption DEF Sums, Tx
  <2>4. PICK g : g = CHOOSE h : Sums(h, {}, a)
    OBVIOUS
  <2>5. Sums(g, {}, a)
    BY <2>4, SumsAre
  <2> HIDE DEF f
  <2>6. f[NumTx] = g[NumTx]
    BY <2>3, <2>5, SumsAreUnique
  <2> QED
    BY <2>1, <2>3, <2>4, <2>6, ExpectedIs DEF Total
<1> QED
  BY <1>1, <1>2 DEF Copies, Balances, Sent, Proposed, Coming

\* Steps that touch no balance, map or exchange.
LEMMA CopiesStay ==
    ASSUME Copies,
           UNCHANGED <<PartitionMap, ModifiedMap, AccountTransferRound, balance, log, accountMsg,
                       AccountStateTx, atm>>,
           \A s \in Shard : Exchanging(s)' = Exchanging(s),
           \A s \in Shard : phase'[s] = "proposed" => phase[s] = "proposed"
    PROVE  Copies'
<1>1. \A a : Expected(a)' = Expected(a)
  BY SameExpected
<1>2. \A s, a : Here(s, a)' = Here(s, a) /\ NewOwner(s, a)' = NewOwner(s, a)
  BY DEF Here, NewOwner, Updated, RoundMap
<1>3. \A s, d : Arriving(s, d)' = Arriving(s, d) /\ Coming(s)' = Coming(s)
  BY DEF Arriving, Coming, RoundMap
<1>4. \A states : Exact(states)' = Exact(states)
  BY <1>1 DEF Exact
<1>5. Balances'
  <2>1. \A s \in Shard, a \in Account : Keeps(s, a)' = Keeps(s, a)
    BY <1>2 DEF Keeps
  <2> QED
    BY <1>1, <2>1 DEF Copies, Balances
<1>6. Sent' /\ Proposed'
  BY <1>3, <1>4 DEF Copies, Sent, Proposed
<1> QED
  BY <1>5, <1>6 DEF Copies

LEMMA OthersKeepCopies ==
    ASSUME Copies,
           \/ txSending \/ clpaMapSend \/ (\E m \in info : HandleBlockInfo(m))
           \/ (\E m \in inject : handleInjectTx(m)) \/ (\E m \in relay : handleRelay(m))
           \/ (\E m \in readyMsg : handlePartitionReady(m)) \/ UNCHANGED vars
    PROVE  Copies'
<1>1. /\ UNCHANGED <<PartitionMap, ModifiedMap, AccountTransferRound, balance, log, accountMsg,
                     AccountStateTx, atm>>
      /\ phase' = phase
  BY DEF txSending, clpaMapSend, HandleBlockInfo, handleInjectTx, handleRelay, handlePartitionReady,
         vars, chainVars, roundVars, netVars
<1> QED
  BY <1>1, CopiesStay DEF Exchanging

LEMMA ReadyKeepsCopies ==
    ASSUME TypeInv, Copies, NEW s \in Shard, sendPartitionReady(s) PROVE Copies'
<1>1. /\ UNCHANGED <<PartitionMap, ModifiedMap, AccountTransferRound, balance, log, accountMsg,
                     AccountStateTx, atm>>
      /\ phase[s] = "idle" /\ phase' = [phase EXCEPT ![s] = "ready"]
  BY DEF sendPartitionReady, chainVars
<1>2. phase'[s] = "ready" /\ \A d \in Shard \ {s} : phase'[d] = phase[d]
  BY <1>1 DEF TypeInv, TypeOK, RoundTypes
<1> QED
  BY <1>1, <1>2, CopiesStay DEF Exchanging

\* A map comes to a shard that is in no partition: nothing goes to it.
LEMMA MapKeepsCopies ==
    ASSUME TypeInv, InStep, Copies, NEW m \in partitionMsg, handlePartitionMsg(m), ~overtaken'
    PROVE  Copies'
<1> DEFINE s == m.to
<1>1. /\ s \in Shard /\ ~PartitionOn[s]
      /\ ModifiedMap' = [ModifiedMap EXCEPT ![s] = Append(@, m.map)]
      /\ UNCHANGED <<PartitionMap, AccountTransferRound, balance, log, accountMsg, AccountStateTx,
                     atm, phase>>
  BY DEF handlePartitionMsg, TypeInv, TypeOK, NetTypes, RoundTypes, chainVars
<1>2. phase[s] = "idle"
  BY <1>1 DEF TypeInv, Rounds
<1>3. AccountStateTx[s] \cup Coming(s) = {}
  BY <1>1, <1>2 DEF InStep, Exchange
<1>4. \A d \in Shard \ {s} : ModifiedMap'[d] = ModifiedMap[d]
  BY <1>1 DEF TypeInv, TypeOK, RoundTypes
<1> HIDE DEF s
<1>5. \A d \in Shard \ {s} : RoundMap(d)' = RoundMap(d)
  BY <1>1, <1>4 DEF RoundMap
<1>6. /\ \A a : Expected(a)' = Expected(a)
      /\ \A d : Exchanging(d)' = Exchanging(d) /\ Coming(d)' = Coming(d)
  BY <1>1, SameExpected DEF Exchanging, Coming
<1>7. \A states : Exact(states)' = Exact(states)
  BY <1>6 DEF Exact
<1>8. \A d \in Shard \ {s} : \A c : Arriving(d, c)' = Arriving(d, c)
  BY <1>1, <1>5 DEF Arriving
<1>9. Balances'
  <2>1. \A d \in Shard \ {s} : \A a : NewOwner(d, a)' = NewOwner(d, a)
    BY <1>1, <1>5 DEF NewOwner, Updated
  <2>2. \A d, a : Here(d, a)' = Here(d, a)
    BY <1>1 DEF Here
  <2>3. ASSUME NEW d \in Shard, NEW a \in Account, Keeps(d, a)' PROVE Keeps(d, a)
    <3>1. CASE d = s
      BY <1>2, <2>2, <2>3, <3>1 DEF Keeps, Exchanging
    <3>2. CASE d # s
      BY <1>1, <1>6, <2>1, <2>2, <2>3, <3>2 DEF Keeps
    <3> QED
      BY <3>1, <3>2
  <2> QED
    BY <1>1, <1>6, <2>3 DEF Copies, Balances
<1>10. Sent'
  <2> SUFFICES ASSUME NEW d \in Shard, NEW x \in AccountStateTx'[d] \cup Coming(d)'
               PROVE  DOMAIN x.states = Arriving(d, x.from)' /\ Exact(x.states)'
    BY DEF Sent
  <2>1. d # s /\ x \in AccountStateTx[d] \cup Coming(d)
    BY <1>1, <1>3, <1>6
  <2> QED
    BY <1>7, <1>8, <2>1 DEF Copies, Sent
<1>11. Proposed'
  <2>1. \A d \in Shard : phase[d] = "proposed" => d # s
    BY <1>2
  <2> QED
    BY <1>1, <1>7, <1>8, <2>1 DEF Copies, Proposed
<1> QED
  BY <1>9, <1>10, <1>11 DEF Copies

\* What comes to a shard was on its way.
LEMMA AccountsKeepCopies ==
    ASSUME TypeInv, Copies, NEW m \in accountMsg, handleAccountStateAndTxMsg(m) PROVE Copies'
<1>1. /\ m.to \in Shard /\ accountMsg' = accountMsg \ {m}
      /\ AccountStateTx' = [AccountStateTx EXCEPT ![m.to] = Collected(m.to, m)]
      /\ UNCHANGED <<PartitionMap, ModifiedMap, AccountTransferRound, balance, log, atm, phase>>
  BY DEF handleAccountStateAndTxMsg, TypeInv, TypeOK, NetTypes, IsAccountMsg, chainVars
<1>2. \A d \in Shard : AccountStateTx'[d] \cup Coming(d)' \subseteq AccountStateTx[d] \cup Coming(d)
  BY <1>1 DEF Collected, Coming, TypeInv, TypeOK, RoundTypes
<1>3. \A a : Expected(a)' = Expected(a)
  BY <1>1, SameExpected
<1>4. \A states : Exact(states)' = Exact(states)
  BY <1>3 DEF Exact
<1>5. \A d, c : Arriving(d, c)' = Arriving(d, c) /\ NewOwner(d, c)' = NewOwner(d, c)
  BY <1>1 DEF Arriving, NewOwner, Updated, RoundMap
<1>6. Balances'
  <2>1. \A d, a : Keeps(d, a)' = Keeps(d, a)
    BY <1>1, <1>5 DEF Keeps, Here, Exchanging
  <2> QED
    BY <1>1, <1>3, <2>1 DEF Copies, Balances
<1>7. Sent' /\ Proposed'
  BY <1>1, <1>2, <1>4, <1>5 DEF Copies, Sent, Proposed
<1> QED
  BY <1>6, <1>7 DEF Copies

\* To a shard that executes blocks, another one is in the same round or in an
\* exchange that this shard is done with.
LEMMA IdleAhead ==
    ASSUME TypeInv, InStep, NEW s \in Shard, phase[s] = "idle", NEW d \in Shard, d # s
    PROVE  /\ ~Exchanging(d) => PartitionMap[d] = PartitionMap[s]
           /\ (Exchanging(d) \/ AccountStateTx[d] \cup Coming(d) # {}) =>
                /\ AccountTransferRound[s] = AccountTransferRound[d] + 1
                /\ PartitionMap[s] = Updated(PartitionMap[d], RoundMap(d))
<1>1. /\ SentFor(s) = AccountTransferRound[s] /\ Readied(s) = AccountTransferRound[s]
      /\ AccountTransferRound[s] \in Nat /\ AccountTransferRound[d] \in Nat
  BY Counters DEF Exchanging
<1>2. /\ SentFor(d) <= AccountTransferRound[s] /\ AccountTransferRound[s] <= SentFor(d)
      /\ SentFor(d) \in Nat
  BY <1>1, Counters DEF InStep, Barrier
<1>3. ~Exchanging(d) => AccountTransferRound[d] = AccountTransferRound[s]
  BY <1>1, <1>2, Counters
<1>4. Exchanging(d) => AccountTransferRound[s] = AccountTransferRound[d] + 1
  BY <1>1, <1>2, Counters
<1>5. ASSUME NEW m \in AccountStateTx[d] \cup Coming(d)
      PROVE  AccountTransferRound[s] = AccountTransferRound[d] + 1
  <2>1. SentFor(m.from) > AccountTransferRound[d]
    BY DEF InStep, Exchange
  <2>2. m.from \in Shard
    BY DEF TypeInv, TypeOK, NetTypes, RoundTypes, IsAccountMsg, Coming
  <2>3. SentFor(m.from) <= Readied(s) /\ SentFor(m.from) \in Nat
    BY <2>2, Counters DEF InStep, Barrier
  <2>4. AccountTransferRound[s] > AccountTransferRound[d]
    BY <1>1, <2>1, <2>3
  <2> QED
    BY <1>1, <1>2, <1>3, <1>4, <2>4
<1> QED
  BY <1>3, <1>4, <1>5 DEF InStep, SameOwners

\* A block changes balances of accounts that only its shard has.
LEMMA BlockKeepsCopies ==
    ASSUME TypeInv, InStep, Once, Copies, NEW s \in Shard, Block(s) PROVE Copies'
<1>1. /\ phase[s] = "idle"
      /\ UNCHANGED <<PartitionMap, ModifiedMap, AccountTransferRound, accountMsg, AccountStateTx,
                     atm, phase>>
  BY DEF Block, roundVars
<1>2. ASSUME NEW a \in Account
      PROVE  /\ Expected(a)' - Expected(a) = balance'[s][a] - balance[s][a]
             /\ ~Here(s, a) => balance'[s][a] = balance[s][a]
             /\ \A d \in Shard \ {s} : balance'[d] = balance[d]
             /\ Expected(a) \in Int /\ Expected(a)' \in Int
             /\ balance[s][a] \in Int /\ balance'[s][a] \in Int
  BY BlockBalances
<1>3. ASSUME NEW a \in Account, ~Here(s, a) PROVE Expected(a)' = Expected(a)
  BY <1>2, <1>3
<1>4. ASSUME NEW a \in Account, balance[s][a] = Expected(a) PROVE balance'[s][a] = Expected(a)'
  BY <1>2, <1>4
<1>5. ASSUME NEW d \in Shard \ {s}, NEW a \in Account, Keeps(d, a) PROVE ~Here(s, a)
  <2>1. CASE Exchanging(d)
    <3>1. /\ AccountTransferRound[s] = AccountTransferRound[d] + 1
          /\ PartitionMap[s] = Updated(PartitionMap[d], RoundMap(d))
      BY <1>1, <2>1, IdleAhead
    <3>2. AccountTransferRound[NewOwner(d, a)] = AccountTransferRound[d]
      BY <1>5, <2>1 DEF Keeps
    <3>3. PartitionMap[s][a] = NewOwner(d, a) /\ AccountTransferRound[d] \in Nat
      BY <3>1, Counters DEF NewOwner
    <3> QED
      BY <3>1, <3>2, <3>3 DEF Here
  <2>2. CASE ~Exchanging(d)
    <3>1. PartitionMap[d] = PartitionMap[s]
      BY <1>1, <2>2, IdleAhead
    <3> QED
      BY <1>5, <3>1 DEF Keeps, Here
  <2> QED
    BY <2>1, <2>2
\* The same holds for accounts that go to another shard.
<1>6. ASSUME NEW d \in Shard, NEW a \in DOMAIN RoundMap(d), RoundMap(d)[a] = d,
             Exchanging(d) \/ AccountStateTx[d] \cup Coming(d) # {}
      PROVE  a \in Account /\ Expected(a)' = Expected(a)
  <2>1. phase[d] # "idle"
    BY <1>6 DEF Exchanging, InStep, Exchange
  <2>2. d # s /\ a \in Account
    BY <1>1, <2>1, HasMap, MovesMap
  <2>3. PartitionMap[s] = Updated(PartitionMap[d], RoundMap(d))
    BY <1>1, <1>6, <2>2, IdleAhead
  <2>4. DOMAIN PartitionMap[d] = Account
    BY DEF TypeInv, TypeOK, ChainTypes
  <2>5. PartitionMap[s][a] = d
    BY <1>6, <2>2, <2>3, <2>4 DEF Updated
  <2> QED
    BY <1>3, <2>2, <2>5 DEF Here
<1>7. \A d, c : /\ Arriving(d, c)' = Arriving(d, c) /\ NewOwner(d, c)' = NewOwner(d, c)
                /\ Coming(d)' = Coming(d)
  BY <1>1 DEF Arriving, NewOwner, Updated, RoundMap, Coming
<1>8. Balances'
  <2> SUFFICES ASSUME NEW d \in Shard, NEW a \in Account, Keeps(d, a)'
               PROVE  balance'[d][a] = Expected(a)'
    BY DEF Balances
  <2>1. Keeps(d, a)
    BY <1>1, <1>7 DEF Keeps, Here, Exchanging
  <2>2. balance[d][a] = Expected(a)
    BY <2>1 DEF Copies, Balances
  <2>3. CASE d = s
    BY <1>4, <2>2, <2>3
  <2>4. CASE d # s
    BY <1>2, <1>3, <1>5, <2>1, <2>2, <2>4
  <2> QED
    BY <2>3, <2>4
<1>9. Sent'
  <2> SUFFICES ASSUME NEW d \in Shard, NEW m \in AccountStateTx[d] \cup Coming(d)
               PROVE  DOMAIN m.states = Arriving(d, m.from) /\ Exact(m.states)'
    BY <1>1, <1>7 DEF Sent
  <2>1. DOMAIN m.states = Arriving(d, m.from) /\ Exact(m.states)
    BY DEF Copies, Sent
  <2>2. \A a \in DOMAIN m.states : Expected(a)' = Expected(a)
    BY <1>6, <2>1 DEF Arriving
  <2> QED
    BY <2>1, <2>2 DEF Exact
<1>10. Proposed'
  <2> SUFFICES ASSUME NEW d \in Shard, phase[d] = "proposed", NEW r \in ToSet(atm[d])
               PROVE  /\ DOMAIN r.states = UNION {Arriving(d, c) : c \in Shard \ {d}}
                      /\ Exact(r.states)'
    BY <1>1, <1>7 DEF Proposed
  <2>1. DOMAIN r.states = UNION {Arriving(d, c) : c \in Shard \ {d}} /\ Exact(r.states)
    BY DEF Copies, Proposed
  <2>2. \A a \in DOMAIN r.states : Expected(a)' = Expected(a)
    BY <1>6, <2>1 DEF Arriving, Exchanging
  <2> QED
    BY <2>1, <2>2 DEF Exact
<1> QED
  BY <1>8, <1>9, <1>10 DEF Copies

\* A shard sends the balances that it has: everybody is in the same round.
LEMMA SendKeepsCopies ==
    ASSUME TypeInv, InStep, Copies, NEW s \in Shard, sendAccounts_and_Txs(s) PROVE Copies'
<1> DEFINE r == AccountTransferRound[s]
           Msg(d) == [from |-> s, to |-> d,
                      states |-> [a \in Leaving(s, d) |-> balance[s][a]],
                      txs    |-> Kept(TxQueue[s], {k \in DOMAIN TxQueue[s] :
                                                     LeavesWith(s, d, TxQueue[s][k])})]
<1>1. /\ phase[s] = "ready" /\ PartitionReady[s] = Shard
      /\ accountMsg' = accountMsg \cup {Msg(d) : d \in Shard \ {s}}
      /\ phase' = [phase EXCEPT ![s] = "collect"]
      /\ UNCHANGED <<PartitionMap, ModifiedMap, AccountTransferRound, balance, log,
                     AccountStateTx, atm>>
  BY DEF sendAccounts_and_Txs, getPartitionReady
<1>2. phase'[s] = "collect" /\ \A d \in Shard \ {s} : phase'[d] = phase[d]
  BY <1>1 DEF TypeInv, TypeOK, RoundTypes
<1>3. r \in Nat /\ SentFor(s) = r
  BY <1>1, Counters DEF Exchanging
<1>4. ASSUME NEW d \in Shard \ {s}
      PROVE  AccountTransferRound[d] = r /\ Readied(d) = r + 1
  <2>1. Readied(d) > r
    BY <1>1 DEF InStep, KnownReady, Exchanging
  <2>2. AccountTransferRound[d] <= r
    BY <1>3 DEF InStep, Barrier
  <2> QED
    BY <1>3, <2>1, <2>2, Counters
<1>5. \A d : /\ Msg(d).from = s /\ Msg(d).to = d
            /\ Msg(d).states = [a \in Leaving(s, d) |-> balance[s][a]]
  OBVIOUS
<1> HIDE DEF Msg
<1>6. \A d : \A m : m \in Coming(d)' => m \in Coming(d) \/ (d \in Shard \ {s} /\ m = Msg(d))
  BY <1>1, <1>5 DEF Coming
<1>7. \A a : Expected(a)' = Expected(a)
  BY <1>1, SameExpected
<1>8. \A states : Exact(states)' = Exact(states)
  BY <1>7 DEF Exact
<1>9. \A d, c : Arriving(d, c)' = Arriving(d, c) /\ NewOwner(d, c)' = NewOwner(d, c)
  BY <1>1 DEF Arriving, NewOwner, Updated, RoundMap
<1>10. ASSUME NEW d \in Shard \ {s} PROVE Leaving(s, d) = Arriving(d, s)
  <2>1. Len(ModifiedMap[s]) = r + 1 /\ ModifiedMap[s] \in Seq(Moves)
    BY <1>1 DEF InStep, Clock, TypeInv, TypeOK, RoundTypes, Rounds
  <2>2. r + 1 <= Len(ModifiedMap[d])
    BY <1>4, ReadyHasMap DEF InStep
  <2>3. r + 1 \in 1 .. Len(ModifiedMap[s])
    BY <1>3, <2>1
  <2>4. ModifiedMap[s][r + 1] = ModifiedMap[d][r + 1]
    BY <2>2, <2>3 DEF InStep, SameMaps
  <2>5. RoundMap(d) = LastMap(s)
    BY <1>4, <2>1, <2>4 DEF RoundMap, LastMap
  <2>6. PartitionMap[d] = PartitionMap[s]
    BY <1>4 DEF InStep, SameOwners
  <2> QED
    BY <2>5, <2>6 DEF Leaving, Arriving, Here
<1>11. Balances'
  <2>1. ASSUME NEW d \in Shard, NEW a \in Account, Keeps(d, a)' PROVE Keeps(d, a)
    <3>1. Exchanging(d) => Exchanging(d)'
      BY <1>1, <1>2 DEF Exchanging
    <3> QED
      BY <1>1, <1>9, <2>1, <3>1 DEF Keeps, Here
  <2> QED
    BY <1>1, <1>7, <2>1 DEF Copies, Balances
<1>12. Sent'
  <2> SUFFICES ASSUME NEW d \in Shard, NEW m \in AccountStateTx[d] \cup Coming(d)'
               PROVE  DOMAIN m.states = Arriving(d, m.from) /\ Exact(m.states)
    BY <1>1, <1>8, <1>9 DEF Sent
  <2>1. CASE m \in AccountStateTx[d] \cup Coming(d)
    BY <2>1 DEF Copies, Sent
  <2>2. CASE d \in Shard \ {s} /\ m = Msg(d)
    <3>1. m.from = s /\ m.states = [a \in Leaving(s, d) |-> balance[s][a]]
      BY <1>5, <2>2
    <3>2. \A a \in Leaving(s, d) : a \in Account /\ Keeps(s, a)
      BY <1>1, HasMap, MovesMap DEF Leaving, Keeps, Exchanging
    <3>3. \A a \in Leaving(s, d) : balance[s][a] = Expected(a)
      BY <3>2 DEF Copies, Balances
    <3> QED
      BY <1>10, <2>2, <3>1, <3>3 DEF Exact
  <2> QED
    BY <1>6, <2>1, <2>2
<1>13. Proposed'
  <2>1. \A d \in Shard : phase'[d] = "proposed" => phase[d] = "proposed"
    BY <1>2
  <2> QED
    BY <1>1, <1>8, <1>9, <2>1 DEF Copies, Proposed
<1> QED
  BY <1>11, <1>12, <1>13 DEF Copies

\* What a shard proposes is what all the others sent.
LEMMA ProposeKeepsCopies ==
    ASSUME TypeInv, InStep, Copies, NEW s \in Shard, proposePartition(s) PROVE Copies'
<1> DEFINE req == [map |-> RoundMap(s), states |-> ReceivedNewAccountState(s),
                   id |-> Len(ModifiedMap[s])]
           states == ReceivedNewAccountState(s)
           got == AccountStateTx[s]
<1>1. /\ phase[s] = "collect" /\ CollectOver[s]
      /\ atm' = [atm EXCEPT ![s] = <<req>>] /\ phase' = [phase EXCEPT ![s] = "proposed"]
      /\ UNCHANGED <<PartitionMap, ModifiedMap, AccountTransferRound, balance, log, accountMsg,
                     AccountStateTx>>
  BY DEF proposePartition, netVars
<1>2. /\ phase'[s] = "proposed" /\ \A d \in Shard \ {s} : phase'[d] = phase[d]
      /\ atm'[s] = <<req>> /\ \A d \in Shard \ {s} : atm'[d] = atm[d]
  BY <1>1 DEF TypeInv, TypeOK, RoundTypes
<1>3. req.states = states /\ ToSet(atm'[s]) = {req}
  BY <1>2, OneItem
<1> HIDE DEF req
<1>4. /\ \A a : Expected(a)' = Expected(a)
      /\ \A d \in Shard : Exchanging(d)' = Exchanging(d)
  BY <1>1, <1>2, SameExpected DEF Exchanging
<1>5. \A x : Exact(x)' = Exact(x)
  BY <1>4 DEF Exact
<1>6. \A d, c : /\ Arriving(d, c)' = Arriving(d, c) /\ NewOwner(d, c)' = NewOwner(d, c)
                /\ Coming(d)' = Coming(d)
  BY <1>1 DEF Arriving, NewOwner, Updated, RoundMap, Coming
<1>7. \A m \in got : /\ DOMAIN m.states = Arriving(s, m.from) /\ Exact(m.states)
                     /\ m.from \in Shard \ {s}
  BY DEF Copies, Sent, InStep, Exchange, TypeInv, TypeOK, RoundTypes, IsAccountMsg
<1>8. \A d \in Shard \ {s} : \E m \in got : m.from = d
  BY <1>1 DEF InStep, Exchange
<1>9. DOMAIN states = UNION {DOMAIN m.states : m \in got}
  BY DEF ReceivedNewAccountState
<1>10. DOMAIN states = UNION {Arriving(s, d) : d \in Shard \ {s}}
  BY <1>7, <1>8, <1>9
<1>11. Exact(states)
  <2> SUFFICES ASSUME NEW a \in DOMAIN states PROVE states[a] = Expected(a)
    BY DEF Exact
  <2>1. \E m \in got : a \in DOMAIN m.states
    BY <1>9
  <2>2. PICK m : m = CHOOSE x \in got : a \in DOMAIN x.states
    OBVIOUS
  <2>3. m \in got /\ a \in DOMAIN m.states
    BY <2>1, <2>2
  <2>4. states[a] = m.states[a]
    BY <1>9, <2>2 DEF ReceivedNewAccountState
  <2> QED
    BY <1>7, <2>3, <2>4 DEF Exact
<1> HIDE DEF states, got
<1>12. Balances'
  <2>1. \A d \in Shard : \A a : Keeps(d, a)' = Keeps(d, a)
    BY <1>1, <1>4, <1>6 DEF Keeps, Here
  <2> QED
    BY <1>1, <1>4, <2>1 DEF Copies, Balances
<1>13. Sent'
  BY <1>1, <1>5, <1>6 DEF Copies, Sent
<1>14. Proposed'
  <2> SUFFICES ASSUME NEW d \in Shard, phase'[d] = "proposed", NEW r \in ToSet(atm'[d])
               PROVE  /\ DOMAIN r.states = UNION {Arriving(d, c) : c \in Shard \ {d}}
                      /\ Exact(r.states)
    BY <1>5, <1>6 DEF Proposed
  <2>1. CASE d = s
    BY <1>3, <1>10, <1>11, <2>1
  <2>2. CASE d # s
    BY <1>2, <2>2 DEF Copies, Proposed
  <2> QED
    BY <2>1, <2>2
<1> QED
  BY <1>12, <1>13, <1>14 DEF Copies

\* A shard takes over what it proposed, and no shard can still give it accounts.
LEMMA TransferKeepsCopies ==
    ASSUME TypeInv, InStep, Copies, NEW s \in Shard, accountTransfer_do(s) PROVE Copies'
<1> DEFINE r == AccountTransferRound[s]
           new == Updated(PartitionMap[s], RoundMap(s))
<1>1. phase[s] = "proposed"
  BY DEF accountTransfer_do
<1>2. /\ CollectOver[s]
      /\ \E q \in ToSet(atm[s]) : atm[s] = <<q>> /\ q.map = RoundMap(s) /\ q.id = r + 1
  BY <1>1 DEF InStep, Clock
<1>3. PICK q \in ToSet(atm[s]) : atm[s] = <<q>> /\ q.map = RoundMap(s) /\ q.id = r + 1
  BY <1>2
<1>4. /\ Len(ModifiedMap[s]) = r + 1 /\ ModifiedMap \in [Shard -> Seq(Moves)]
      /\ PartitionMap[s] \in [Account -> Shard] /\ RoundMap(s) \in Moves
      /\ balance \in [Shard -> [Account -> Int]]
  <2>1. PartitionOn[s]
    BY <1>1 DEF TypeInv, Rounds
  <2> QED
    BY <1>1, <2>1, HasMap DEF InStep, Clock, TypeInv, TypeOK, RoundTypes, ChainTypes
<1>5. /\ PartitionMap' = [PartitionMap EXCEPT ![s] = NewMap(s, q.map)]
      /\ balance' = [balance EXCEPT ![s] = AddAccounts(s, q.states, NewMap(s, q.map))]
      /\ ModifiedMap' = [ModifiedMap EXCEPT ![s] = IF Len(@) # q.id THEN Append(@, q.map) ELSE @]
      /\ AccountTransferRound' = [AccountTransferRound EXCEPT ![s] = q.id]
  <2>1. atm[s][1] = q
    BY <1>3
  <2> QED
    BY <2>1, Zenon DEF accountTransfer_do
<1>6. /\ AccountStateTx' = [AccountStateTx EXCEPT ![s] = {}]
      /\ phase' = [phase EXCEPT ![s] = "idle"]
      /\ atm' = [atm EXCEPT ![s] = <<>>]
      /\ UNCHANGED <<accountMsg, log>>
  BY DEF accountTransfer_do, netVars
<1>7. ModifiedMap' = ModifiedMap
  BY <1>3, <1>4, <1>5
<1>8. /\ AccountTransferRound'[s] = r + 1 /\ PartitionMap'[s] = new
      /\ balance'[s] = AddAccounts(s, q.states, new)
      /\ AccountStateTx'[s] = {} /\ phase'[s] = "idle"
  BY <1>3, <1>5, <1>6 DEF NewMap, TypeInv, TypeOK, RoundTypes, ChainTypes
<1>9. \A d \in Shard \ {s} :
         /\ AccountTransferRound'[d] = AccountTransferRound[d] /\ PartitionMap'[d] = PartitionMap[d]
         /\ AccountStateTx'[d] = AccountStateTx[d] /\ balance'[d] = balance[d]
         /\ phase'[d] = phase[d] /\ atm'[d] = atm[d]
  BY <1>5, <1>6 DEF TypeInv, TypeOK, RoundTypes, ChainTypes
<1>10. \A a : NewOwner(s, a) = new[a]
  BY DEF NewOwner
<1>11. new \in [Account -> Shard]
  BY <1>4, UpdatedType
<1>12. \A a \in Account : new[a] = IF a \in DOMAIN RoundMap(s) THEN RoundMap(s)[a] ELSE PartitionMap[s][a]
  BY <1>4 DEF Updated
<1> HIDE DEF new
<1>13. Coming(s) = {}
  <2> SUFFICES ASSUME NEW x \in Coming(s) PROVE FALSE
    OBVIOUS
  <2>1. x.from \in Shard \ {s}
    BY DEF InStep, Exchange, Coming, TypeInv, TypeOK, NetTypes, IsAccountMsg
  <2>2. PICK y \in AccountStateTx[s] : y.from = x.from
    BY <1>2, <2>1 DEF InStep, Exchange
  <2> QED
    BY <2>2 DEF InStep, Exchange
<1>14. \A a : Expected(a)' = Expected(a)
  BY <1>6, SameExpected
<1>15. /\ \A x : Exact(x)' = Exact(x)
       /\ \A d : Coming(d)' = Coming(d)
  BY <1>6, <1>14 DEF Exact, Coming
<1>16. \A d \in Shard \ {s} : RoundMap(d)' = RoundMap(d)
  BY <1>7, <1>9 DEF RoundMap
<1>17. \A d \in Shard \ {s} : \A c : Arriving(d, c)' = Arriving(d, c) /\ NewOwner(d, c)' = NewOwner(d, c)
  BY <1>9, <1>16 DEF Arriving, NewOwner, Updated
\* The accounts that shard s has now came, or were there and stay.
<1>18. ASSUME NEW a \in Account, new[a] = s PROVE balance'[s][a] = Expected(a)
  <2>1. balance'[s][a] = IF a \in DOMAIN q.states THEN q.states[a] ELSE balance[s][a]
    BY <1>8, <1>18 DEF AddAccounts
  <2>2. DOMAIN q.states = UNION {Arriving(s, d) : d \in Shard \ {s}} /\ Exact(q.states)
    BY <1>1, <1>3 DEF Copies, Proposed
  <2>3. CASE a \in DOMAIN q.states
    BY <2>1, <2>2, <2>3 DEF Exact
  <2>4. CASE a \notin DOMAIN q.states
    <3>1. PartitionMap[s][a] \in Shard
      BY <1>4
    <3>2. PartitionMap[s][a] = s
      <4>1. CASE a \in DOMAIN RoundMap(s)
        <5>1. a \in Arriving(s, PartitionMap[s][a])
          BY <1>12, <1>18, <4>1 DEF Arriving
        <5> QED
          BY <2>2, <2>4, <3>1, <5>1
      <4>2. CASE a \notin DOMAIN RoundMap(s)
        BY <1>12, <1>18, <4>2
      <4> QED
        BY <4>1, <4>2
    <3>3. Keeps(s, a)
      BY <1>10, <1>18, <3>2 DEF Keeps, Here
    <3> QED
      BY <2>1, <2>4, <3>3 DEF Copies, Balances
  <2> QED
    BY <2>3, <2>4
\* Nobody else is in the next round's exchange yet.
<1>19. ASSUME NEW d \in Shard \ {s}, NEW a \in Account, Keeps(d, a)' PROVE Keeps(d, a)
  <2>1. Here(d, a) /\ Exchanging(d)' = Exchanging(d)
    BY <1>9, <1>19 DEF Keeps, Here, Exchanging
  <2>2. ASSUME Exchanging(d) PROVE AccountTransferRound[NewOwner(d, a)] = AccountTransferRound[d]
    <3>1. AccountTransferRound'[NewOwner(d, a)] = AccountTransferRound[d]
      BY <1>9, <1>17, <1>19, <2>1, <2>2 DEF Keeps
    <3>2. NewOwner(d, a) \in Shard
      <4>1. PartitionMap[d] \in [Account -> Shard] /\ RoundMap(d) \in Moves
        BY <2>2, HasMap DEF Exchanging, TypeInv, TypeOK, ChainTypes
      <4> QED
        BY <4>1, UpdatedType DEF NewOwner
    <3>3. NewOwner(d, a) # s
      <4> SUFFICES ASSUME NewOwner(d, a) = s PROVE FALSE
        OBVIOUS
      <4>1. AccountTransferRound[d] = r + 1
        BY <1>8, <3>1
      <4>2. SentFor(d) = r + 2 /\ SentFor(d) <= Readied(s) /\ Readied(s) = r + 1
        BY <1>1, <2>2, <4>1, Counters DEF InStep, Barrier
      <4> QED
        BY <4>2, Counters
    <3> QED
      BY <1>9, <3>1, <3>2, <3>3
  <2> QED
    BY <2>1, <2>2 DEF Keeps
<1>20. Balances'
  <2> SUFFICES ASSUME NEW d \in Shard, NEW a \in Account, Keeps(d, a)'
               PROVE  balance'[d][a] = Expected(a)
    BY <1>14 DEF Balances
  <2>1. CASE d = s
    <3>1. new[a] = s
      BY <1>8, <2>1 DEF Keeps, Here
    <3> QED
      BY <1>18, <2>1, <3>1
  <2>2. CASE d # s
    BY <1>9, <1>19, <2>2 DEF Copies, Balances
  <2> QED
    BY <2>1, <2>2
<1>21. Sent'
  <2> SUFFICES ASSUME NEW d \in Shard, NEW m \in AccountStateTx'[d] \cup Coming(d)
               PROVE  DOMAIN m.states = Arriving(d, m.from)' /\ Exact(m.states)
    BY <1>15 DEF Sent
  <2>1. d # s /\ m \in AccountStateTx[d] \cup Coming(d)
    BY <1>8, <1>9, <1>13
  <2> QED
    BY <1>17, <2>1 DEF Copies, Sent
<1>22. Proposed'
  <2> SUFFICES ASSUME NEW d \in Shard, phase'[d] = "proposed", NEW x \in ToSet(atm'[d])
               PROVE  /\ DOMAIN x.states = UNION {Arriving(d, c)' : c \in Shard \ {d}}
                      /\ Exact(x.states)
    BY <1>15 DEF Proposed
  <2>1. d # s
    BY <1>8
  <2> QED
    BY <1>9, <1>17, <2>1 DEF Copies, Proposed
<1> QED
  BY <1>20, <1>21, <1>22 DEF Copies

\* What holds until a shard is overtaken, with what always holds.
AccountInv == TypeInv /\ Once /\ (~overtaken => InStep /\ Copies)

LEMMA StepKeepsCopies ==
    AccountInv /\ [Next]_vars => (~overtaken => Copies)'
<1> SUFFICES ASSUME AccountInv, [Next]_vars, ~overtaken' PROVE Copies'
  OBVIOUS
<1>1. ~overtaken
  <2>1. CASE UNCHANGED vars
    BY <2>1 DEF vars, roundVars
  <2>2. CASE txSending \/ clpaMapSend \/ \E m \in info : HandleBlockInfo(m)
    BY <2>2 DEF txSending, clpaMapSend, HandleBlockInfo, roundVars
  <2>3. CASE Deliver
    BY <2>3 DEF Deliver, handleInjectTx, handleRelay, handlePartitionMsg, handlePartitionReady,
                handleAccountStateAndTxMsg, roundVars
  <2>4. ASSUME NEW s \in Shard, ShardStep(s) PROVE ~overtaken
    BY <2>4 DEF ShardStep, Block, sendPartitionReady, sendAccounts_and_Txs, proposePartition,
                accountTransfer_do, roundVars
  <2> QED
    BY <2>1, <2>2, <2>3, <2>4, Zenon DEF Next
<1>2. TypeInv /\ Once /\ InStep /\ Copies
  BY <1>1 DEF AccountInv
<1>3. ASSUME Deliver PROVE Copies'
  BY <1>2, <1>3, MapKeepsCopies, AccountsKeepCopies, OthersKeepCopies, Zenon DEF Deliver
<1>4. ASSUME NEW s \in Shard, ShardStep(s) PROVE Copies'
  BY <1>2, <1>4, BlockKeepsCopies, ReadyKeepsCopies, SendKeepsCopies, ProposeKeepsCopies,
     TransferKeepsCopies, Zenon DEF ShardStep
<1> QED
  BY <1>2, <1>3, <1>4, OthersKeepCopies, Zenon DEF Next

LEMMA AccountsFollow == Spec => []AccountInv
<1>1. Init => AccountInv
  BY TransferStarts, OnceStarts, InStepStarts, CopiesStart DEF AccountInv
<1>2. AccountInv /\ [Next]_vars => AccountInv'
  <2> SUFFICES ASSUME AccountInv, [Next]_vars PROVE AccountInv'
    OBVIOUS
  <2>1. TypeInv'
    BY StepKeepsTypes DEF AccountInv
  <2>2. Once'
    BY StepKeepsOnce DEF AccountInv
  <2>3. (~overtaken => InStep)'
    BY StepInStep DEF AccountInv
  <2>4. (~overtaken => Copies)'
    BY StepKeepsCopies
  <2> QED
    BY <2>1, <2>2, <2>3, <2>4 DEF AccountInv
<1> QED
  BY <1>1, <1>2, PTL DEF Spec

\* Each half of a transaction waits in at most one pool or message, and in none
\* once it is executed; a second half waits or is executed only after the first,
\* and only if nobody has credited the recipient yet, partitions overtaken or
\* not (handleInjectTx, handleRelay, sendAccounts_and_Txs, proposePartition,
\* filterFreshTransactions, GetUpdateStatusTrie).
THEOREM HalvesAreExecutedOnce == Spec => []Once
<1>1. AccountInv => Once
  BY DEF AccountInv
<1> QED
  BY <1>1, AccountsFollow, PTL

\* Until a shard is overtaken, and whatever the number of shards, accounts,
\* transactions and partitions: the shard with the latest map of an account has
\* the balance that all executed transactions give, each of their halves
\* counted once.  The accounts on their way carry the same balance, and the old
\* shard executes nothing on them any more (FetchAccounts,
\* sendAccounts_and_Txs, accountTransfer_do, GetUpdateStatusTrie).
THEOREM BalancesFollowAccounts == Spec => []BalanceFollowsAccount
<1>1. AccountInv => BalanceFollowsAccount
  <2> SUFFICES ASSUME TypeInv, InStep, Copies, NEW a \in Account, NEW s \in Owners(a)
               PROVE  balance[s][a] = Expected(a)
    BY DEF AccountInv, BalanceFollowsAccount
  <2>1. s \in Shard /\ Here(s, a)
    BY DEF Owners
  <2>2. ASSUME Exchanging(s) PROVE AccountTransferRound[NewOwner(s, a)] = AccountTransferRound[s]
    <3>1. PartitionMap[s] \in [Account -> Shard] /\ RoundMap(s) \in Moves
      BY <2>1, <2>2, HasMap DEF Exchanging, TypeInv, TypeOK, ChainTypes
    <3>2. PICK d \in Shard : d = NewOwner(s, a)
      BY <3>1, UpdatedType DEF NewOwner
    <3>3. /\ AccountTransferRound[d] <= SentFor(s) /\ SentFor(s) <= Readied(d)
      BY <2>1 DEF InStep, Barrier
    <3>4. AccountTransferRound[d] \in {AccountTransferRound[s], AccountTransferRound[s] + 1}
      BY <2>1, <2>2, <3>3, Counters
    <3>5. AccountTransferRound[d] # AccountTransferRound[s] + 1
      <4> SUFFICES ASSUME AccountTransferRound[d] = AccountTransferRound[s] + 1 PROVE FALSE
        OBVIOUS
      <4>1. PartitionMap[d] = Updated(PartitionMap[s], RoundMap(s))
        BY <2>1 DEF InStep, SameOwners
      <4>2. Here(d, a)
        BY <3>2, <4>1 DEF NewOwner, Here
      <4>3. AccountTransferRound[d] <= AccountTransferRound[s]
        BY <4>2 DEF Owners
      <4> QED
        BY <2>1, <4>3, Counters
    <3> QED
      BY <3>2, <3>4, <3>5
  <2>3. Keeps(s, a)
    BY <2>1, <2>2 DEF Keeps
  <2> QED
    BY <2>1, <2>3 DEF Copies, Balances
<1> QED
  BY <1>1, AccountsFollow, PTL

=============================================================================
