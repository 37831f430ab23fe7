------------------------- MODULE RelayShardsProofs -------------------------
(* Proofs about RelayShards.                                                *)
EXTENDS RelayShards, FilterProofs, FiniteSetTheorems

\* A quorum has a member (malicious_nums in NewPbftNode).
LEMMA QuorumPositive == Quorum \in Nat /\ Quorum >= 1
<1>1. Nodes_perShard - 1 \in Nat
  BY RelayAssumption
<1>2. (Nodes_perShard - 1) \div 3 \in Nat
  BY <1>1
<1> QED
  BY <1>2 DEF Quorum

\* The chains hold well-formed blocks.
ChainsOK == chain \in [Shard -> Seq(Block)]

\* A block that a quorum finds valid on top of the chain (Agree) is
\* well-formed, holds no transaction twice, and none that the chain holds
\* (IsValidBlock).
LEMMA AgreedIsFresh ==
    ASSUME NEW s \in Shard, NEW n \in Node, Agree(s, n)
    PROVE  LET b == proposal[s][n][1]
           IN /\ b \in Block
              /\ \A k, l \in DOMAIN b.body : b.body[k].tx = b.body[l].tx => k = l
              /\ \A k \in DOMAIN b.body :
                    ~HasTransaction(s, Len(chain[s]), b.body[k].tx)
<1> DEFINE b == proposal[s][n][1]
           V == {m \in Node : ~dead[s][m] /\ IsValidBlock(s, m, b)}
<1>1. Cardinality(V) >= Quorum /\ b.parent = Len(chain[s])
  BY DEF Agree
<1>2. V # {}
  <2>1. SUFFICES ASSUME V = {} PROVE FALSE
    OBVIOUS
  <2>2. Cardinality(V) = 0
    BY <2>1, FS_EmptySet
  <2> QED
    BY <1>1, <2>2, QuorumPositive
<1>3. PICK m \in Node : IsValidBlock(s, m, b)
  BY <1>2
<1>4. height[s][m] = Len(chain[s])
  BY <1>1, <1>3 DEF IsValidBlock
<1> HIDE DEF b
<1>5. /\ b \in Block
      /\ \A k, l \in DOMAIN b.body : b.body[k].tx = b.body[l].tx => k = l
      /\ \A k \in DOMAIN b.body : ~HasTransaction(s, height[s][m], b.body[k].tx)
  BY <1>3, Zenon DEF IsValidBlock
<1> QED
  BY <1>4, <1>5, Zenon DEF b

\* Appending such a block keeps the invariant.
LEMMA AgreeKeeps ==
    ASSUME ChainsOK, NoReplay, NEW s \in Shard, NEW n \in Node, Agree(s, n)
    PROVE  ChainsOK' /\ NoReplay'
<1>1. PICK b : b = proposal[s][n][1]
  OBVIOUS
<1>2. /\ b \in Block
      /\ \A k, l \in DOMAIN b.body : b.body[k].tx = b.body[l].tx => k = l
      /\ \A k \in DOMAIN b.body : ~HasTransaction(s, Len(chain[s]), b.body[k].tx)
  BY <1>1, AgreedIsFresh, Zenon
<1>3. chain' = [chain EXCEPT ![s] = Append(@, b)]
  BY <1>1 DEF Agree
<1>4. chain[s] \in Seq(Block) /\ Len(chain[s]) \in Nat
  BY DEF ChainsOK
<1>5. chain'[s] = Append(chain[s], b)
  BY <1>3 DEF ChainsOK
<1>6. \A r \in Shard : r # s => chain'[r] = chain[r]
  BY <1>3 DEF ChainsOK
<1>7. ChainsOK'
  BY <1>2, <1>3, <1>4 DEF ChainsOK
<1>8. /\ DOMAIN chain'[s] = 1 .. Len(chain[s]) + 1
      /\ \A i \in 1 .. Len(chain[s]) : chain'[s][i] = chain[s][i]
      /\ chain'[s][Len(chain[s]) + 1] = b
      /\ DOMAIN chain[s] = 1 .. Len(chain[s])
  BY <1>2, <1>4, <1>5
<1>9. ASSUME NEW i \in DOMAIN chain'[s], NEW j \in DOMAIN chain'[s],
             NEW k \in DOMAIN chain'[s][i].body, NEW l \in DOMAIN chain'[s][j].body,
             chain'[s][i].body[k].tx = chain'[s][j].body[l].tx
      PROVE  i = j /\ k = l
  <2>1. CASE i \in 1 .. Len(chain[s]) /\ j \in 1 .. Len(chain[s])
    BY <1>8, <1>9, <2>1 DEF NoReplay
  <2>2. CASE i = Len(chain[s]) + 1 /\ j = Len(chain[s]) + 1
    BY <1>2, <1>8, <1>9, <2>2
  <2>3. CASE i \in 1 .. Len(chain[s]) /\ j = Len(chain[s]) + 1
    BY <1>2, <1>8, <1>9, <2>3 DEF HasTransaction
  <2>4. CASE i = Len(chain[s]) + 1 /\ j \in 1 .. Len(chain[s])
    BY <1>2, <1>8, <1>9, <2>4 DEF HasTransaction
  <2> QED
    BY <1>4, <1>8, <2>1, <2>2, <2>3, <2>4
<1>10. NoReplay'
  BY <1>6, <1>9 DEF NoReplay
<1> QED
  BY <1>7, <1>10

\* Nothing but agreement changes a chain.
LEMMA StepKeeps ==
    ASSUME ChainsOK, NoReplay, [Next]_vars
    PROVE  ChainsOK' /\ NoReplay'
<1>1. ASSUME NEW s \in Shard, NEW n \in Node, Agree(s, n)
      PROVE  ChainsOK' /\ NoReplay'
  BY <1>1, AgreeKeeps
<1>2. ASSUME UNCHANGED chain
      PROVE  ChainsOK' /\ NoReplay'
  BY <1>2 DEF ChainsOK, NoReplay
<1>3. ASSUME NEW s \in Shard, NEW n \in Node,
             \/ Propose(s, n) \/ Commit(s, n) \/ Recover(s, n)
             \/ Classify(s, n) \/ NewView(s, n)
      PROVE  UNCHANGED chain
  BY <1>3 DEF Propose, Commit, Recover, AddBlock, Classify, NewView
<1>4. ASSUME Deliver \/ Supervise \/ UNCHANGED vars
      PROVE  UNCHANGED chain
  <2>1. ASSUME NEW m, handleInjectTx(m) PROVE UNCHANGED chain
    BY <2>1, Zenon DEF handleInjectTx
  <2>2. ASSUME NEW m, handleRelay(m) \/ handleBlockInfos(m) PROVE UNCHANGED chain
    BY <2>2 DEF handleRelay, handleBlockInfos
  <2>3. ASSUME txSending \/ SendStop \/ UNCHANGED vars PROVE UNCHANGED chain
    BY <2>3 DEF txSending, SendStop, vars
  <2> QED
    BY <1>4, <2>1, <2>2, <2>3, Zenon DEF Deliver, Supervise
<1> QED
  BY <1>1, <1>2, <1>3, <1>4 DEF Next, ReplicaStep

\* In every behaviour, for every number of shards and replicas, no shard
\* executes a transaction twice (filterFreshTransactions, IsValidBlock).
THEOREM NoShardReplays == Spec => []NoReplay
<1>1. Init => ChainsOK /\ NoReplay
  BY DEF Init, ChainsOK, NoReplay
<1>2. ChainsOK /\ NoReplay /\ [Next]_vars => (ChainsOK /\ NoReplay)'
  BY StepKeeps
<1> QED
  BY <1>1, <1>2, PTL DEF Spec

-----------------------------------------------------------------------------
(* Sequences, and what executing a block gives.                             *)

\* The items of a sequence that is put together or cut down.
LEMMA ItemsOf ==
    ASSUME NEW S, NEW q \in Seq(S)
    PROVE  /\ \A r \in Seq(S) : ToSet(q \o r) = ToSet(q) \cup ToSet(r)
           /\ ToSet(q) \subseteq S
           /\ \A P : ToSet(Kept(q, P)) \subseteq ToSet(q)
           /\ \A i \in 1 .. Len(q) + 1, j \in 0 .. Len(q) : ToSet(SubSeq(q, i, j)) \subseteq ToSet(q)
<1>1. ASSUME NEW r \in Seq(S) PROVE ToSet(q \o r) = ToSet(q) \cup ToSet(r)
  <2>1. /\ q \o r \in Seq(S) /\ Len(q \o r) = Len(q) + Len(r)
        /\ Len(q) \in Nat /\ Len(r) \in Nat
        /\ \A i \in 1 .. Len(q) : (q \o r)[i] = q[i]
        /\ \A i \in 1 .. Len(r) : (q \o r)[Len(q) + i] = r[i]
    OBVIOUS
  <2>2. ToSet(q) \subseteq ToSet(q \o r)
    BY <2>1 DEF ToSet
  <2>3. ASSUME NEW i \in DOMAIN r PROVE r[i] \in ToSet(q \o r)
    <3>1. i \in 1 .. Len(r) /\ Len(q) + i \in DOMAIN (q \o r)
      BY <2>1
    <3>2. (q \o r)[Len(q) + i] = r[i]
      BY <2>1, <3>1
    <3> QED
      BY <3>1, <3>2 DEF ToSet
  <2>4. ASSUME NEW i \in DOMAIN (q \o r) PROVE (q \o r)[i] \in ToSet(q) \cup ToSet(r)
    <3>1. CASE i <= Len(q)
      BY <2>1, <3>1 DEF ToSet
    <3>2. CASE i > Len(q)
      <4>1. i - Len(q) \in 1 .. Len(r)
        BY <2>1, <3>2
      <4>2. (q \o r)[i] = r[i - Len(q)]
        BY <2>1, <4>1
      <4> QED
        BY <2>1, <4>1, <4>2 DEF ToSet
    <3> QED
      BY <2>1, <3>1, <3>2
  <2> QED
    BY <2>2, <2>3, <2>4 DEF ToSet
<1>2. ToSet(q) \subseteq S
  BY DEF ToSet
<1>3. ASSUME NEW P PROVE ToSet(Kept(q, P)) \subseteq ToSet(q)
  <2>1. \A i \in DOMAIN Kept(q, P) : \E p \in P \cap DOMAIN q : Kept(q, P)[i] = q[p]
    BY KeptItems
  <2> QED
    BY <2>1 DEF ToSet
<1>4. ASSUME NEW i \in 1 .. Len(q) + 1, NEW j \in 0 .. Len(q)
      PROVE  ToSet(SubSeq(q, i, j)) \subseteq ToSet(q)
  <2>1. ASSUME NEW k \in DOMAIN SubSeq(q, i, j) PROVE SubSeq(q, i, j)[k] \in ToSet(q)
    <3>1. k \in 1 .. Len(SubSeq(q, i, j)) /\ Len(SubSeq(q, i, j)) = IF i <= j THEN j - i + 1 ELSE 0
      OBVIOUS
    <3>2. i + k - 1 \in DOMAIN q /\ SubSeq(q, i, j)[k] = q[i + k - 1]
      BY <3>1
    <3> QED
      BY <3>2 DEF ToSet
  <2> QED
    BY <2>1 DEF ToSet
<1> QED
  BY <1>1, <1>2, <1>3, <1>4

\* A replica cuts what it packs off its pool.
LEMMA Packing ==
    ASSUME NEW q \in Seq(Item)
    PROVE  /\ PackTxs(q) \in Seq(Item) /\ Len(PackTxs(q)) <= Len(q)
           /\ SubSeq(q, Len(PackTxs(q)) + 1, Len(q)) \in Seq(Item)
           /\ ToSet(q) = ToSet(PackTxs(q)) \cup ToSet(SubSeq(q, Len(PackTxs(q)) + 1, Len(q)))
<1> DEFINE n == IF Len(q) < BlockSize THEN Len(q) ELSE BlockSize
<1>1. Len(q) \in Nat /\ n \in 0 .. Len(q)
  BY RelayAssumption
<1>2. PackTxs(q) = SubSeq(q, 1, n)
  BY DEF PackTxs
<1> HIDE DEF n
<1>3. SubSeq(q, 1, n) \in Seq(Item) /\ Len(SubSeq(q, 1, n)) = n
  BY <1>1
<1>4. SubSeq(q, n + 1, Len(q)) \in Seq(Item)
  BY <1>1
<1>5. ASSUME NEW i \in DOMAIN q
      PROVE  q[i] \in ToSet(SubSeq(q, 1, n)) \cup ToSet(SubSeq(q, n + 1, Len(q)))
  <2>1. CASE i <= n
    <3>1. i \in 1 .. n /\ SubSeq(q, 1, n)[i] = q[i] /\ DOMAIN SubSeq(q, 1, n) = 1 .. n
      BY <1>1, <2>1
    <3> QED
      BY <3>1 DEF ToSet
  <2>2. CASE i > n
    <3>1. i - n \in 1 .. Len(q) - n /\ DOMAIN SubSeq(q, n + 1, Len(q)) = 1 .. Len(q) - n
      BY <1>1, <2>2
    <3>2. SubSeq(q, n + 1, Len(q))[i - n] = q[i]
      BY <1>1, <3>1
    <3> QED
      BY <3>1, <3>2 DEF ToSet
  <2> QED
    BY <1>1, <2>1, <2>2
<1>6. ToSet(q) = ToSet(SubSeq(q, 1, n)) \cup ToSet(SubSeq(q, n + 1, Len(q)))
  <2>1. ToSet(SubSeq(q, 1, n)) \subseteq ToSet(q) /\ ToSet(SubSeq(q, n + 1, Len(q))) \subseteq ToSet(q)
    BY <1>1, ItemsOf
  <2> QED
    BY <1>5, <2>1 DEF ToSet
<1> QED
  BY <1>1, <1>2, <1>3, <1>4, <1>6

\* What executing items gives: an entry for every item, which takes from a
\* sender in the shard that has not been debited elsewhere, and pays a
\* recipient in the shard.
Executed(s, map, items, out) ==
    /\ out \in Seq(Entry) /\ Len(out) = Len(items)
    /\ \A k \in 1 .. Len(items) :
         /\ out[k].tx = items[k].tx /\ out[k].relayed = items[k].relayed
         /\ out[k].debit => ~items[k].relayed
         /\ out[k].credit => map[Recipient[items[k].tx]] = s

LEMMA ExecuteOne ==
    ASSUME NEW s, NEW map, NEW log, NEW item \in Item
    PROVE  /\ Execute(s, map, log, item) \in Entry
           /\ Execute(s, map, log, item).tx = item.tx
           /\ Execute(s, map, log, item).relayed = item.relayed
           /\ Execute(s, map, log, item).debit => ~item.relayed
           /\ Execute(s, map, log, item).credit => map[Recipient[item.tx]] = s
<1> DEFINE pays  == ~item.relayed /\ map[Sender[item.tx]] = s
           debit == pays /\ Balance(log, Sender[item.tx]) >= Value[item.tx]
           credit == (pays => debit) /\ map[Recipient[item.tx]] = s
<1>1. Execute(s, map, log, item) = [tx |-> item.tx, relayed |-> item.relayed, debit |-> debit,
                                    credit |-> credit]
  BY DEF Execute
<1>2. debit \in BOOLEAN /\ credit \in BOOLEAN /\ (debit => ~item.relayed)
      /\ (credit => map[Recipient[item.tx]] = s)
  OBVIOUS
<1> HIDE DEF debit, credit
<1> QED
  BY <1>1, <1>2 DEF Item, Entry

LEMMA ExecuteItems ==
    ASSUME NEW s, NEW map, NEW before, NEW items \in Seq(Item)
    PROVE  Executed(s, map, items, ExecuteAll(s, map, before, items))
<1> DEFINE n == Len(items)
           X == Seq(Entry)
           base == <<>>
           E(k, x) == Append(x, Execute(s, map, before \o x, items[k]))
           F(f) == [k \in 0 .. n |-> IF k = 0 THEN base
                                     ELSE Append(f[k - 1], Execute(s, map, before \o f[k - 1], items[k]))]
           done == CHOOSE f : f = F(f)
           step == [k \in 1 .. n |-> [x \in X |-> E(k, x)]]
           Good(k, x) == /\ x \in X /\ Len(x) = k
                         /\ \A j \in 1 .. k :
                              /\ x[j].tx = items[j].tx /\ x[j].relayed = items[j].relayed
                              /\ x[j].debit => ~items[j].relayed
                              /\ x[j].credit => map[Recipient[items[j].tx]] = s
<1>1. ExecuteAll(s, map, before, items) = done[n]
  BY Zenon DEF ExecuteAll
<1>2. n \in Nat /\ base \in X /\ Len(base) = 0
  OBVIOUS
<1>3. ASSUME NEW k \in 1 .. n, NEW x \in X PROVE E(k, x) \in X
  <2>1. items[k] \in Item
    OBVIOUS
  <2>2. Execute(s, map, before \o x, items[k]) \in Entry
    BY <2>1, ExecuteOne
  <2> QED
    BY <2>2
<1>4. ASSUME NEW k \in 1 .. n, NEW x \in X, Good(k - 1, x) PROVE Good(k, E(k, x))
  <2> DEFINE e == Execute(s, map, before \o x, items[k])
  <2>1. items[k] \in Item
    OBVIOUS
  <2>2. /\ e \in Entry /\ e.tx = items[k].tx /\ e.relayed = items[k].relayed
        /\ e.debit => ~items[k].relayed
        /\ e.credit => map[Recipient[items[k].tx]] = s
    BY <2>1, ExecuteOne
  <2>3. E(k, x) = Append(x, e)
    OBVIOUS
  <2> HIDE DEF e
  <2>4. /\ E(k, x) \in X /\ Len(E(k, x)) = k /\ E(k, x)[k] = e
        /\ \A j \in 1 .. k - 1 : E(k, x)[j] = x[j]
    BY <1>4, <2>2, <2>3
  <2> HIDE DEF E
  <2>5. ASSUME NEW j \in 1 .. k
        PROVE  /\ E(k, x)[j].tx = items[j].tx /\ E(k, x)[j].relayed = items[j].relayed
               /\ E(k, x)[j].debit => ~items[j].relayed
               /\ E(k, x)[j].credit => map[Recipient[items[j].tx]] = s
    <3>1. CASE j = k
      BY <2>2, <2>4, <3>1
    <3>2. CASE j # k
      <4>1. j \in 1 .. k - 1
        BY <3>2
      <4> QED
        BY <1>4, <2>4, <4>1
    <3> QED
      BY <3>1, <3>2
  <2> QED
    BY <2>4, <2>5
<1>5. \A f : F(f) = [k \in 0 .. n |-> IF k = 0 THEN base ELSE E(k, f[k - 1])]
  BY Zenon
<1>6. Good(0, base)
  BY <1>2
<1> HIDE DEF E, F, base
<1>7. step \in [1 .. n -> [X -> X]] /\ \A k \in 1 .. n, x \in X : step[k][x] = E(k, x)
  BY <1>3
<1> HIDE DEF step, X
<1>8. PICK f : Iterates(n, X, base, step, f)
  BY <1>2, <1>7, Recursion, Zenon
<1>9. f \in [0 .. n -> X] /\ f[0] = base /\ \A k \in 1 .. n : f[k] = E(k, f[k - 1])
  <2>1. f \in [0 .. n -> X] /\ f[0] = base /\ \A k \in 1 .. n : f[k] = step[k][f[k - 1]]
    BY <1>8, Zenon DEF Iterates
  <2>2. ASSUME NEW k \in 1 .. n PROVE f[k] = E(k, f[k - 1])
    <3>1. k - 1 \in 0 .. n /\ f[k - 1] \in X
      BY <1>2, <2>1
    <3> QED
      BY <1>7, <2>1, <3>1, Zenon
  <2> QED
    BY <2>1, <2>2
<1>10. f = F(f)
  BY <1>2, <1>5, <1>9
<1>11. done = F(done)
  BY <1>10, Zenon
<1> HIDE DEF done
<1>12. done[0] = base /\ \A k \in 1 .. n : done[k] = E(k, done[k - 1])
  BY <1>2, <1>5, <1>11
<1>13. 0 .. n \subseteq {k \in 0 .. n : Good(k, done[k])}
  <2> DEFINE G == {k \in 0 .. n : Good(k, done[k])}
  <2>1. 0 \in G
    <3>1. 0 \in 0 .. n
      BY <1>2
    <3> HIDE DEF Good
    <3> QED
      BY <1>6, <1>12, <3>1
  <2>2. ASSUME NEW k \in 1 .. n, k - 1 \in G PROVE k \in G
    <3>1. Good(k - 1, done[k - 1])
      BY <2>2
    <3>2. done[k - 1] \in X
      BY <3>1
    <3>3. Good(k, E(k, done[k - 1]))
      BY <1>4, <3>1, <3>2, Zenon
    <3>4. k \in 0 .. n
      BY <1>2
    <3> HIDE DEF Good
    <3> QED
      BY <1>12, <3>3, <3>4
  <2> HIDE DEF G
  <2> QED
    BY <1>2, <2>1, <2>2, UpTo, Zenon DEF G
<1>14. Good(n, done[n])
  BY <1>2, <1>13
<1> QED
  BY <1>1, <1>14 DEF Executed, X

\* What the filter for replays lets through: items of the pool, each
\* transaction once, and all that the chain does not have.
LEMMA FilterFresh ==
    ASSUME NEW s, NEW h, NEW items \in Seq(Item)
    PROVE  LET out == filterFreshTransactions(s, h, items)
           IN /\ out \in Seq(Item) /\ ToSet(out) \subseteq ToSet(items)
              /\ \A k \in DOMAIN out : ~HasTransaction(s, h, out[k].tx)
              /\ \A k, l \in DOMAIN out : out[k].tx = out[l].tx => k = l
              /\ \A x \in ToSet(items) :
                    HasTransaction(s, h, x.tx) \/ \E y \in ToSet(out) : y.tx = x.tx
<1> DEFINE P == {k \in DOMAIN items : ~HasTransaction(s, h, items[k].tx) /\ FirstOf(items, k)}
           out == Kept(items, P)
           n == Len(items)
<1>1. out = filterFreshTransactions(s, h, items)
  BY Zenon DEF filterFreshTransactions
<1>2. DOMAIN items = 1 .. n /\ n \in Nat
  OBVIOUS
<1>3. P \subseteq DOMAIN items /\ \A k \in P : ~HasTransaction(s, h, items[k].tx) /\ FirstOf(items, k)
  OBVIOUS
<1>4. \A k \in DOMAIN items : ~HasTransaction(s, h, items[k].tx) /\ FirstOf(items, k) => k \in P
  OBVIOUS
<1> HIDE DEF P
<1>5. /\ out \in Seq(Item)
      /\ \A i \in DOMAIN out : \E p \in P \cap DOMAIN items : out[i] = items[p]
      /\ \A p \in P \cap DOMAIN items : \E i \in DOMAIN out : out[i] = items[p]
  BY KeptItems
<1>6. ToSet(out) \subseteq ToSet(items)
  BY ItemsOf
<1>7. \A i, j \in DOMAIN out : i < j =>
         \E p, q \in P \cap DOMAIN items : p < q /\ out[i] = items[p] /\ out[j] = items[q]
  BY KeptInOrder
<1> HIDE DEF out
<1>8. DOMAIN out \subseteq Nat
  BY <1>5
<1>9. ASSUME NEW k \in DOMAIN out PROVE ~HasTransaction(s, h, out[k].tx)
  BY <1>3, <1>5
<1>10. ASSUME NEW k \in DOMAIN out, NEW l \in DOMAIN out, k < l PROVE out[k].tx # out[l].tx
  <2>1. PICK p \in P \cap DOMAIN items, q \in P \cap DOMAIN items :
          p < q /\ out[k] = items[p] /\ out[l] = items[q]
    BY <1>7, <1>10
  <2>2. p \in 1 .. q - 1 /\ FirstOf(items, q)
    BY <1>2, <1>3, <2>1
  <2> QED
    BY <2>1, <2>2 DEF FirstOf
<1>11. \A k, l \in DOMAIN out : out[k].tx = out[l].tx => k = l
  BY <1>8, <1>10
<1>12. ASSUME NEW x \in ToSet(items)
       PROVE  HasTransaction(s, h, x.tx) \/ \E y \in ToSet(out) : y.tx = x.tx
  <2> DEFINE OK(j) == HasTransaction(s, h, items[j].tx) \/ \E y \in ToSet(out) : y.tx = items[j].tx
             G == {k \in 0 .. n : \A j \in 1 .. k : OK(j)}
  <2>1. 0 \in G
    BY <1>2
  <2>2. ASSUME NEW k \in 1 .. n, k - 1 \in G PROVE k \in G
    <3>1. \A j \in 1 .. k - 1 : OK(j)
      BY <2>2
    <3>2. OK(k)
      <4>1. CASE HasTransaction(s, h, items[k].tx)
        BY <4>1
      <4>2. CASE ~HasTransaction(s, h, items[k].tx) /\ FirstOf(items, k)
        <5>1. k \in P \cap DOMAIN items
          BY <1>2, <1>4, <4>2
        <5>2. PICK i \in DOMAIN out : out[i] = items[k]
          BY <1>5, <5>1
        <5> QED
          BY <5>2 DEF ToSet
      <4>3. CASE ~FirstOf(items, k)
        <5>1. PICK j \in 1 .. k - 1 : items[j].tx = items[k].tx
          BY <4>3 DEF FirstOf
        <5> QED
          BY <3>1, <5>1
      <4> QED
        BY <4>1, <4>2, <4>3
    <3> HIDE DEF OK
    <3>3. \A j \in 1 .. k : j = k \/ j \in 1 .. k - 1
      OBVIOUS
    <3> QED
      BY <1>2, <3>1, <3>2, <3>3
  <2> HIDE DEF G
  <2>3. 0 .. n \subseteq G
    BY <1>2, <2>1, <2>2, UpTo, Zenon
  <2>4. n \in G
    BY <1>2, <2>3
  <2>5. PICK i \in 1 .. n : x = items[i]
    BY <1>2 DEF ToSet
  <2> QED
    BY <2>4, <2>5 DEF G
<1> QED
  BY <1>1, <1>5, <1>6, <1>9, <1>11, <1>12

\* What a block does not have stays in the pool.
LEMMA RemoveKeeps ==
    ASSUME NEW queue \in Seq(Item), NEW body
    PROVE  /\ RemoveTxs(queue, body) \in Seq(Item)
           /\ ToSet(RemoveTxs(queue, body)) \subseteq ToSet(queue)
           /\ \A x \in ToSet(queue) :
                 x \in ToSet(RemoveTxs(queue, body)) \/ \E k \in DOMAIN body : body[k].tx = x.tx
<1> DEFINE P == {i \in DOMAIN queue : \A k \in DOMAIN body : body[k].tx # queue[i].tx}
           out == Kept(queue, P)
<1>1. out = RemoveTxs(queue, body)
  BY Zenon DEF RemoveTxs
<1>2. \A i \in DOMAIN queue : i \in P \/ \E k \in DOMAIN body : body[k].tx = queue[i].tx
  OBVIOUS
<1> HIDE DEF P
<1>3. /\ out \in Seq(Item)
      /\ \A i \in DOMAIN out : \E p \in P \cap DOMAIN queue : out[i] = queue[p]
      /\ \A p \in P \cap DOMAIN queue : \E i \in DOMAIN out : out[i] = queue[p]
  BY KeptItems
<1>4. ToSet(out) \subseteq ToSet(queue)
  BY ItemsOf
<1> HIDE DEF out
<1>5. ASSUME NEW x \in ToSet(queue)
      PROVE  x \in ToSet(out) \/ \E k \in DOMAIN body : body[k].tx = x.tx
  <2>1. PICK i \in DOMAIN queue : x = queue[i]
    BY DEF ToSet
  <2>2. i \in P => \E j \in DOMAIN out : out[j] = x
    BY <1>3, <2>1
  <2> QED
    BY <1>2, <2>1, <2>2 DEF ToSet
<1> QED
  BY <1>1, <1>3, <1>4, <1>5

\* What a leader relays: the transactions of the block whose recipient it
\* finds in the other shard.
LEMMA RelayPoolIs ==
    ASSUME NEW s, NEW n, NEW body \in Seq(Entry), NEW d
    PROVE  /\ RelayPool(s, n, body, d) \in Seq(Item)
           /\ \A x \in ToSet(RelayPool(s, n, body, d)) :
                 /\ x.relayed
                 /\ \E k \in DOMAIN body : /\ x.tx = body[k].tx
                                           /\ Get_PartitionMap(s, n, Recipient[x.tx]) = d
           /\ \A k \in DOMAIN body : Get_PartitionMap(s, n, Recipient[body[k].tx]) = d =>
                 \E x \in ToSet(RelayPool(s, n, body, d)) : x.tx = body[k].tx
<1> DEFINE P == {k \in DOMAIN body : Get_PartitionMap(s, n, Recipient[body[k].tx]) = d}
           kept == Kept(body, P)
           out == [k \in DOMAIN kept |-> [tx |-> kept[k].tx, relayed |-> TRUE]]
<1>1. out = RelayPool(s, n, body, d)
  BY Zenon DEF RelayPool
<1>2. /\ \A k \in P : Get_PartitionMap(s, n, Recipient[body[k].tx]) = d
      /\ \A k \in DOMAIN body : Get_PartitionMap(s, n, Recipient[body[k].tx]) = d => k \in P
  OBVIOUS
<1> HIDE DEF P
<1>3. /\ kept \in Seq(Entry)
      /\ \A i \in DOMAIN kept : \E p \in P \cap DOMAIN body : kept[i] = body[p]
      /\ \A p \in P \cap DOMAIN body : \E i \in DOMAIN kept : kept[i] = body[p]
  BY KeptItems
<1> HIDE DEF kept
<1>4. DOMAIN kept = 1 .. Len(kept) /\ Len(kept) \in Nat
  BY <1>3
<1>5. ASSUME NEW k \in DOMAIN kept PROVE [tx |-> kept[k].tx, relayed |-> TRUE] \in Item
  <2>1. kept[k] \in Entry
    BY <1>3
  <2> QED
    BY <2>1 DEF Entry, Item
<1>6. out \in Seq(Item)
  BY <1>4, <1>5
<1>7. DOMAIN out = DOMAIN kept /\ \A k \in DOMAIN kept : out[k].tx = kept[k].tx /\ out[k].relayed
  OBVIOUS
<1> HIDE DEF out
<1>8. ASSUME NEW x \in ToSet(out)
      PROVE  /\ x.relayed
             /\ \E k \in DOMAIN body : /\ x.tx = body[k].tx
                                       /\ Get_PartitionMap(s, n, Recipient[x.tx]) = d
  <2>1. PICK i \in DOMAIN kept : x = out[i]
    BY <1>7 DEF ToSet
  <2>2. PICK p \in P \cap DOMAIN body : kept[i] = body[p]
    BY <1>3
  <2> QED
    BY <1>2, <1>7, <2>1, <2>2
<1>9. ASSUME NEW k \in DOMAIN body, Get_PartitionMap(s, n, Recipient[body[k].tx]) = d
      PROVE  \E x \in ToSet(out) : x.tx = body[k].tx
  <2>1. k \in P \cap DOMAIN body
    BY <1>2, <1>9
  <2>2. PICK i \in DOMAIN kept : kept[i] = body[k]
    BY <1>3, <2>1
  <2> QED
    BY <1>7, <2>2 DEF ToSet
<1> QED
  BY <1>1, <1>6, <1>8, <1>9

\* A transaction that it finds there is among them.
Pools(s, n, body, d, t) == \E x \in ToSet(RelayPool(s, n, body, d)) : x.tx = t

LEMMA RelayPoolHas ==
    ASSUME NEW s, NEW n, NEW body, body \in Seq(Entry), NEW d, NEW k, k \in DOMAIN body,
           NEW t, body[k].tx = t, Get_PartitionMap(s, n, Recipient[t]) = d
    PROVE  Pools(s, n, body, d, t)
BY RelayPoolIs DEF Pools

\* The transactions of a chunk for a shard.
LEMMA ChunkIs ==
    ASSUME NEW first \in Tx, NEW last \in Tx, NEW s
    PROVE  /\ Chunk(first, last, s) \in Seq(Item)
           /\ \A x \in ToSet(Chunk(first, last, s)) :
                 x.tx \in first .. last /\ ~x.relayed /\ SendersShard(x.tx) = s
<1> DEFINE items == [k \in 1 .. last - first + 1 |-> [tx |-> first + k - 1, relayed |-> FALSE]]
           P == {k \in DOMAIN items : SendersShard(items[k].tx) = s}
           out == Kept(items, P)
<1>1. out = Chunk(first, last, s)
  BY Zenon DEF Chunk
<1>2. first \in Nat /\ last \in Nat /\ first >= 1 /\ last <= NumTx /\ NumTx \in Nat
  BY RelayAssumption DEF Tx
<1>3. \A k \in 1 .. last - first + 1 : first + k - 1 \in first .. last /\ first + k - 1 \in Tx
  BY <1>2 DEF Tx
<1>4. items \in Seq(Item)
  <2>1. \A k \in 1 .. last - first + 1 : [tx |-> first + k - 1, relayed |-> FALSE] \in Item
    BY <1>3 DEF Item
  <2>2. \E m \in Nat : 1 .. last - first + 1 = 1 .. m
    <3>1. CASE last - first + 1 >= 0
      <4>1. last - first + 1 \in Nat
        BY <1>2, <3>1
      <4> QED
        BY <4>1
    <3>2. CASE last - first + 1 < 0
      <4>1. 1 .. last - first + 1 = 1 .. 0
        BY <1>2, <3>2
      <4> QED
        BY <4>1
    <3> QED
      BY <1>2, <3>1, <3>2
  <2>3. PICK m \in Nat : 1 .. last - first + 1 = 1 .. m
    BY <2>2
  <2>4. items \in [1 .. m -> Item]
    BY <2>1, <2>3, Zenon
  <2> HIDE DEF items
  <2> QED
    BY <2>4
<1>5. \A k \in P : SendersShard(items[k].tx) = s
  OBVIOUS
<1>6. \A k \in DOMAIN items : items[k].tx \in first .. last /\ ~items[k].relayed
  BY <1>3
<1> HIDE DEF items, P
<1>7. /\ out \in Seq(Item)
      /\ \A i \in DOMAIN out : \E p \in P \cap DOMAIN items : out[i] = items[p]
  BY <1>4, KeptItems
<1> QED
  BY <1>1, <1>5, <1>6, <1>7 DEF ToSet

-----------------------------------------------------------------------------
(* Types.                                                                   *)

LEMMA Quotients ==
    ASSUME NEW a \in Nat, NEW b \in Nat \ {0}
    PROVE  /\ a \div b \in Nat
           /\ ((a \div b) + 1) * b > a
           /\ \A c \in Nat : a <= c /\ c < ((a \div b) + 1) * b => c \div b = a \div b
OBVIOUS

\* A chunk is not empty, and all of it is in one batch, that of its first
\* transaction (MsgSendingControl).
LEMMA ChunkInBatch ==
    ASSUME nowDataNum \in 0 .. NumTx, nowDataNum < NumTx
    PROVE  /\ nowDataNum + 1 \in Tx /\ ChunkEnd \in Tx /\ nowDataNum < ChunkEnd
           /\ \A t \in nowDataNum + 1 .. ChunkEnd :
                 (t - 1) \div batchDataNum = nowDataNum \div batchDataNum
<1> DEFINE end == ((nowDataNum \div batchDataNum) + 1) * batchDataNum
<1>1. /\ NumTx \in Nat /\ InjectSpeed \in Nat \ {0} /\ batchDataNum \in Nat \ {0}
      /\ nowDataNum \in Nat
  BY RelayAssumption
<1>2. BatchEnd = IF end < NumTx THEN end ELSE NumTx
  BY DEF BatchEnd
<1>3. /\ nowDataNum \div batchDataNum \in Nat
      /\ end > nowDataNum
      /\ \A c \in Nat : nowDataNum <= c /\ c < end =>
            c \div batchDataNum = nowDataNum \div batchDataNum
  BY <1>1, Quotients
<1>4. end \in Int
  BY <1>1, <1>3
<1> HIDE DEF end
<1>5. BatchEnd \in nowDataNum + 1 .. NumTx /\ BatchEnd <= end
  BY <1>1, <1>2, <1>3, <1>4
<1>6. ChunkEnd \in nowDataNum + 1 .. BatchEnd
  BY <1>1, <1>5 DEF ChunkEnd
<1>7. ASSUME NEW t \in nowDataNum + 1 .. ChunkEnd
      PROVE  (t - 1) \div batchDataNum = nowDataNum \div batchDataNum
  <2>1. t - 1 \in Nat /\ nowDataNum <= t - 1 /\ t - 1 < end
    BY <1>1, <1>4, <1>5, <1>6
  <2> QED
    BY <1>3, <2>1
<1> QED
  BY <1>1, <1>5, <1>6, <1>7 DEF Tx

\* No replica is ahead of its shard's chain.
Heights ==
    \A s \in Shard, n \in Node :
        /\ height[s][n] <= Len(chain[s])
        /\ added[s][n] => height[s][n] >= 1

TypeInv == TypeOK /\ Heights

LEMMA InitTypes == Init => TypeInv
<1> SUFFICES ASSUME Init PROVE TypeInv
  OBVIOUS
<1>1. /\ TxQueue \in [Shard -> [Node -> Seq(Item)]]
      /\ PartitionMap \in [Shard -> [Node -> SUBSET Account]]
      /\ proposal \in [Shard -> [Node -> Seq(Block)]]
      /\ chain \in [Shard -> Seq(Block)]
  BY DEF Init
<1>2. /\ height \in [Shard -> [Node -> Nat]]
      /\ added \in [Shard -> [Node -> BOOLEAN]]
      /\ view \in [Shard -> [Node -> Nat]]
      /\ dead \in [Shard -> [Node -> BOOLEAN]]
  BY DEF Init
<1>3. NumTx \in Nat /\ stopThreshold \in Nat
  BY RelayAssumption
<1>4. nowDataNum \in 0 .. NumTx /\ stopGap \in 0 .. stopThreshold
  BY <1>3 DEF Init
<1>5. inject = {} /\ relay = {} /\ info = {} /\ stopped \in BOOLEAN
  BY DEF Init
<1>6. Heights
  BY DEF Init, Heights
<1> QED
  BY <1>1, <1>2, <1>4, <1>5, <1>6 DEF TypeInv, TypeOK

\* Injections, the supervisor's own steps and deliveries.
LEMMA SuperviseTypes ==
    ASSUME TypeInv, Supervise \/ Deliver
    PROVE  TypeInv'
<1>1. ASSUME txSending PROVE TypeInv'
  <2>1. nowDataNum \in 0 .. NumTx /\ nowDataNum < NumTx
    BY <1>1 DEF txSending, TypeInv, TypeOK
  <2>2. nowDataNum + 1 \in Tx /\ ChunkEnd \in Tx /\ ChunkEnd \in 0 .. NumTx
    BY <2>1, ChunkInBatch, RelayAssumption DEF Tx
  <2>3. inject' \subseteq [shard : Shard, node : Node, first : Tx, last : Tx]
    BY <1>1, <2>2 DEF txSending, TypeInv, TypeOK
  <2>4. stopGap' \in 0 .. stopThreshold
    BY <1>1, RelayAssumption DEF txSending, TypeInv, TypeOK
  <2> QED
    BY <1>1, <2>2, <2>3, <2>4 DEF txSending, TypeInv, TypeOK, Heights, poolVars, nodeVars
<1>2. ASSUME NEW m, handleBlockInfos(m) PROVE TypeInv'
  <2>1. stopGap' \in 0 .. stopThreshold
    BY <1>2, RelayAssumption DEF handleBlockInfos, TypeInv, TypeOK
  <2> QED
    BY <1>2, <2>1 DEF handleBlockInfos, TypeInv, TypeOK, Heights, poolVars, nodeVars
<1>3. ASSUME SendStop PROVE TypeInv'
  BY <1>3 DEF SendStop, TypeInv, TypeOK, Heights, poolVars, nodeVars, netVars
<1>4. ASSUME NEW m \in inject, handleInjectTx(m) PROVE TypeInv'
  <2>1. m.shard \in Shard /\ m.node \in Node /\ m.first \in Tx /\ m.last \in Tx
    BY DEF TypeInv, TypeOK
  <2>2. Chunk(m.first, m.last, m.shard) \in Seq(Item)
    BY <2>1, ChunkIs
  <2>3. \A t \in Tx : BatchAccounts(t) \subseteq Account
    BY RelayAssumption DEF BatchAccounts
  <2> DEFINE new == IF UseSpring THEN BatchAccounts(m.first) ELSE {}
             txs == Chunk(m.first, m.last, m.shard)
  <2>4. new \subseteq Account
    BY <2>1, <2>3
  <2>5. /\ PartitionMap' = [PartitionMap EXCEPT ![m.shard][m.node] = @ \cup new]
        /\ TxQueue' = [TxQueue EXCEPT ![m.shard][m.node] = @ \o txs]
        /\ inject' = inject \ {m}
        /\ UNCHANGED <<supervisorVars, relay, info, proposal, chain, nodeVars>>
    BY <1>4, Zenon DEF handleInjectTx
  <2> HIDE DEF new, txs
  <2>6. PartitionMap' \in [Shard -> [Node -> SUBSET Account]]
    BY <2>1, <2>4, <2>5 DEF TypeInv, TypeOK
  <2>7. TxQueue' \in [Shard -> [Node -> Seq(Item)]]
    BY <2>1, <2>2, <2>5 DEF TypeInv, TypeOK, txs
  <2> QED
    BY <2>5, <2>6, <2>7 DEF TypeInv, TypeOK, Heights, supervisorVars, nodeVars
<1>5. ASSUME NEW m \in relay, handleRelay(m) PROVE TypeInv'
  <2>1. m.to \in Shard /\ m.node \in Node /\ m.txs \in Seq(Item)
    BY DEF TypeInv, TypeOK
  <2>2. TxQueue' \in [Shard -> [Node -> Seq(Item)]]
    <3>1. TxQueue' = [TxQueue EXCEPT ![m.to][m.node] = @ \o m.txs]
      BY <1>5, Zenon DEF handleRelay
    <3>2. TxQueue \in [Shard -> [Node -> Seq(Item)]]
      BY DEF TypeInv, TypeOK
    <3> QED
      BY <2>1, <3>1, <3>2
  <2> QED
    BY <1>5, <2>2 DEF handleRelay, TypeInv, TypeOK, Heights, supervisorVars, nodeVars
<1> QED
  BY <1>1, <1>2, <1>3, <1>4, <1>5, Zenon DEF Supervise, Deliver

\* The block that replica n of shard s makes of some items.
NewBlock(s, n, items) ==
    [body     |-> GetUpdateStatusTrie(s, n, items),
     parent   |-> height[s][n],
     proposer |-> n]

\* What a leader takes out of its pool, and what it leaves there.
PackedFrom(s, n, fresh, rest) ==
    /\ fresh \in Seq(Item) /\ rest \in Seq(Item)
    /\ ToSet(fresh) \subseteq ToSet(TxQueue[s][n])
    /\ ToSet(rest) \subseteq ToSet(TxQueue[s][n])
    /\ \A k \in DOMAIN fresh : ~HasTransaction(s, height[s][n], fresh[k].tx)
    /\ \A k, l \in DOMAIN fresh : fresh[k].tx = fresh[l].tx => k = l
    /\ \A x \in ToSet(TxQueue[s][n]) :
          \/ x \in ToSet(rest)
          \/ HasTransaction(s, height[s][n], x.tx)
          \/ \E y \in ToSet(fresh) : y.tx = x.tx

LEMMA ProposePacks ==
    ASSUME TypeInv, NEW s \in Shard, NEW n \in Node, Propose(s, n)
    PROVE  \E fresh, rest :
             /\ PackedFrom(s, n, fresh, rest)
             /\ proposal' = [proposal EXCEPT ![s][n] = <<NewBlock(s, n, fresh)>>]
             /\ TxQueue' = [TxQueue EXCEPT ![s][n] = rest]
<1> DEFINE q == TxQueue[s][n]
           packed == PackTxs(q)
           rest   == SubSeq(q, Len(packed) + 1, Len(q))
           fresh  == filterFreshTransactions(s, height[s][n], packed)
<1>1. q \in Seq(Item)
  BY DEF TypeInv, TypeOK
<1>2. /\ packed \in Seq(Item) /\ rest \in Seq(Item)
      /\ ToSet(q) = ToSet(packed) \cup ToSet(rest)
  BY <1>1, Packing, Zenon
<1>3. /\ fresh \in Seq(Item) /\ ToSet(fresh) \subseteq ToSet(packed)
      /\ \A k \in DOMAIN fresh : ~HasTransaction(s, height[s][n], fresh[k].tx)
      /\ \A k, l \in DOMAIN fresh : fresh[k].tx = fresh[l].tx => k = l
      /\ \A x \in ToSet(packed) :
            HasTransaction(s, height[s][n], x.tx) \/ \E y \in ToSet(fresh) : y.tx = x.tx
  BY <1>2, FilterFresh, Zenon
<1>4. /\ proposal' = [proposal EXCEPT ![s][n] = <<NewBlock(s, n, fresh)>>]
      /\ TxQueue' = [TxQueue EXCEPT ![s][n] = SubSeq(@, Len(packed) + 1, Len(@))]
  BY Zenon DEF Propose, NewBlock
<1>5. TxQueue' = [TxQueue EXCEPT ![s][n] = rest]
  BY <1>4
<1>6. PackedFrom(s, n, fresh, rest)
  <2> HIDE DEF packed, rest, fresh
  <2> QED
    BY <1>2, <1>3, Zenon DEF PackedFrom
<1> QED
  BY <1>4, <1>5, <1>6, Zenon

\* A block's body is what executing its items gives.
LEMMA NewBlockIs ==
    ASSUME TypeInv, NEW s \in Shard, NEW n \in Node, NEW items \in Seq(Item)
    PROVE  /\ NewBlock(s, n, items) \in Block
           /\ NewBlock(s, n, items).parent = height[s][n]
           /\ NewBlock(s, n, items).proposer = n
           /\ Executed(s, Places(s, n), items, NewBlock(s, n, items).body)
<1> DEFINE body == GetUpdateStatusTrie(s, n, items)
<1>1. Executed(s, Places(s, n), items, body)
  BY ExecuteItems, Zenon DEF GetUpdateStatusTrie
<1>2. body \in Seq(Entry) /\ height[s][n] \in Nat
  BY <1>1 DEF Executed, TypeInv, TypeOK
<1> HIDE DEF body
<1>3. NewBlock(s, n, items) = [body |-> body, parent |-> height[s][n], proposer |-> n]
  BY Zenon DEF NewBlock, body
<1> QED
  BY <1>1, <1>2, <1>3 DEF Block

LEMMA ReplicaTypes ==
    ASSUME TypeInv, NEW s \in Shard, NEW n \in Node, ReplicaStep(s, n)
    PROVE  TypeInv'
<1>0. /\ TxQueue \in [Shard -> [Node -> Seq(Item)]]
      /\ proposal \in [Shard -> [Node -> Seq(Block)]]
      /\ chain \in [Shard -> Seq(Block)]
      /\ height \in [Shard -> [Node -> Nat]]
      /\ added \in [Shard -> [Node -> BOOLEAN]]
      /\ view \in [Shard -> [Node -> Nat]]
      /\ dead \in [Shard -> [Node -> BOOLEAN]]
  BY DEF TypeInv, TypeOK
<1>1. CASE Propose(s, n)
  <2>1. PICK fresh, rest :
             /\ PackedFrom(s, n, fresh, rest)
             /\ proposal' = [proposal EXCEPT ![s][n] = <<NewBlock(s, n, fresh)>>]
             /\ TxQueue' = [TxQueue EXCEPT ![s][n] = rest]
    BY <1>1, ProposePacks
  <2>2. fresh \in Seq(Item) /\ rest \in Seq(Item)
    BY <2>1 DEF PackedFrom
  <2>3. NewBlock(s, n, fresh) \in Block
    BY <2>2, NewBlockIs
  <2>4. <<NewBlock(s, n, fresh)>> \in Seq(Block)
    BY <2>3
  <2>5. proposal' \in [Shard -> [Node -> Seq(Block)]]
    BY <1>0, <2>1, <2>4
  <2>6. TxQueue' \in [Shard -> [Node -> Seq(Item)]]
    BY <1>0, <2>1, <2>2
  <2>7. UNCHANGED <<supervisorVars, netVars, PartitionMap, chain, nodeVars>>
    BY <1>1, Zenon DEF Propose
  <2> QED
    BY <2>5, <2>6, <2>7 DEF TypeInv, TypeOK, Heights, supervisorVars, netVars, nodeVars
<1>2. CASE Agree(s, n)
  <2>1. PICK b : b = proposal[s][n][1]
    OBVIOUS
  <2>2. b \in Block
    BY <1>2, <2>1, AgreedIsFresh, Zenon
  <2>3. chain' = [chain EXCEPT ![s] = Append(@, b)]
    BY <1>2, <2>1, Zenon DEF Agree
  <2>4. chain' \in [Shard -> Seq(Block)]
    BY <1>0, <2>2, <2>3
  <2>5. ASSUME NEW r \in Shard PROVE Len(chain[r]) <= Len(chain'[r]) /\ Len(chain[r]) \in Nat
                                     /\ Len(chain'[r]) \in Nat
    BY <1>0, <2>2, <2>3
  <2>6. UNCHANGED <<supervisorVars, netVars, poolVars, proposal, nodeVars>>
    BY <1>2, Zenon DEF Agree
  <2>7. Heights'
    <3>1. UNCHANGED <<height, added>>
      BY <2>6 DEF nodeVars
    <3>2. ASSUME NEW r \in Shard, NEW m \in Node
          PROVE  height[r][m] <= Len(chain'[r]) /\ (added[r][m] => height[r][m] >= 1)
      <4>1. height[r][m] <= Len(chain[r]) /\ (added[r][m] => height[r][m] >= 1)
        BY DEF TypeInv, Heights
      <4>2. height[r][m] \in Nat
        BY <1>0
      <4> QED
        BY <2>5, <4>1, <4>2
    <3> QED
      BY <3>1, <3>2 DEF Heights
  <2> QED
    BY <2>4, <2>6, <2>7 DEF TypeInv, TypeOK, supervisorVars, netVars, poolVars, nodeVars
<1>3. ASSUME AddBlock(s, n), added' \in [Shard -> [Node -> BOOLEAN]],
             \A r \in Shard, m \in Node : (r = s /\ m = n) \/ added'[r][m] = added[r][m]
      PROVE  TypeInv'
  <2>1. PICK body : TxQueue' = [TxQueue EXCEPT ![s][n] = RemoveTxs(@, body)]
    BY <1>3, Zenon DEF AddBlock
  <2>2. /\ height' = [height EXCEPT ![s][n] = @ + 1] /\ height[s][n] < Len(chain[s])
        /\ UNCHANGED <<supervisorVars, netVars, PartitionMap, proposal, chain, view, dead>>
    BY <1>3, Zenon DEF AddBlock
  <2>3. RemoveTxs(TxQueue[s][n], body) \in Seq(Item)
    BY <1>0, RemoveKeeps
  <2>4. TxQueue' \in [Shard -> [Node -> Seq(Item)]]
    BY <1>0, <2>1, <2>3
  <2>5. height' \in [Shard -> [Node -> Nat]]
    BY <1>0, <2>2
  <2>6. Heights'
    <3>1. ASSUME NEW r \in Shard, NEW m \in Node
          PROVE  height'[r][m] <= Len(chain'[r]) /\ (added'[r][m] => height'[r][m] >= 1)
      <4>1. /\ height[r][m] <= Len(chain[r]) /\ (added[r][m] => height[r][m] >= 1)
            /\ chain'[r] = chain[r] /\ height[r][m] \in Nat /\ Len(chain[r]) \in Nat
        BY <1>0, <2>2 DEF TypeInv, Heights
      <4>2. height'[r][m] = IF r = s /\ m = n THEN height[s][n] + 1 ELSE height[r][m]
        BY <1>0, <2>2
      <4> QED
        BY <1>3, <2>2, <4>1, <4>2
    <3> QED
      BY <3>1 DEF Heights
  <2> QED
    BY <1>3, <2>2, <2>4, <2>5, <2>6 DEF TypeInv, TypeOK, supervisorVars, netVars
<1>4. CASE Commit(s, n) \/ Recover(s, n)
  <2>1. AddBlock(s, n)
    BY <1>4 DEF Commit, Recover
  <2>2. added' = [added EXCEPT ![s][n] = TRUE] \/ UNCHANGED added
    BY <1>4, Zenon DEF Commit, Recover
  <2>3. /\ added' \in [Shard -> [Node -> BOOLEAN]]
        /\ \A r \in Shard, m \in Node : (r = s /\ m = n) \/ added'[r][m] = added[r][m]
    <3>1. CASE added' = [added EXCEPT ![s][n] = TRUE]
      BY <1>0, <3>1
    <3>2. CASE added' = added
      BY <1>0, <3>2
    <3> QED
      BY <2>2, <3>1, <3>2
  <2> QED
    BY <1>3, <2>1, <2>3
<1>5. CASE Classify(s, n)
  <2> DEFINE body == chain[s][height[s][n]].body
  <2>1. height[s][n] \in DOMAIN chain[s]
    BY <1>0, <1>5 DEF TypeInv, Heights, Classify
  <2>2. chain[s][height[s][n]] \in Block
    BY <1>0, <2>1
  <2>3. body \in Seq(Entry) /\ Len(body) \in Nat
    BY <2>2 DEF Block
  <2>4. /\ added' = [added EXCEPT ![s][n] = FALSE]
        /\ UNCHANGED <<supervisorVars, inject, poolVars, chain, height, view>>
    BY <1>5, Zenon DEF Classify
  <2>5. /\ relay' = relay \/ relay' = relay \cup RelayMsgs(s, n, body)
        /\ info' = info \/ info' = info \cup {[shard |-> s, height |-> height[s][n], by |-> n,
                                               length |-> Len(body)]}
        /\ proposal' = proposal \/ proposal' = [proposal EXCEPT ![s][n] = <<>>]
        /\ dead' = dead \/ dead' = [dead EXCEPT ![s][n] = TRUE]
    BY <1>5, Zenon DEF Classify, Unlocked
  <2> HIDE DEF body
  <2>6. RelayMsgs(s, n, body) \subseteq [from : Shard, height : Nat, by : Node, to : Shard,
                                         node : Node, txs : Seq(Item)]
    <3>1. ASSUME NEW d PROVE RelayPool(s, n, body, d) \in Seq(Item)
      BY <2>3, RelayPoolIs
    <3> QED
      BY <1>0, <3>1 DEF RelayMsgs
  <2>7. relay' \subseteq [from : Shard, height : Nat, by : Node, to : Shard,
                          node : Node, txs : Seq(Item)]
    BY <2>5, <2>6 DEF TypeInv, TypeOK
  <2>8. info' \subseteq [shard : Shard, height : Nat, by : Node, length : Nat]
    BY <1>0, <2>3, <2>5 DEF TypeInv, TypeOK
  <2>9. /\ proposal' \in [Shard -> [Node -> Seq(Block)]]
        /\ dead' \in [Shard -> [Node -> BOOLEAN]]
        /\ added' \in [Shard -> [Node -> BOOLEAN]]
    <3>1. [proposal EXCEPT ![s][n] = <<>>] \in [Shard -> [Node -> Seq(Block)]]
      BY <1>0
    <3>2. [dead EXCEPT ![s][n] = TRUE] \in [Shard -> [Node -> BOOLEAN]]
      BY <1>0
    <3>3. [added EXCEPT ![s][n] = FALSE] \in [Shard -> [Node -> BOOLEAN]]
      BY <1>0
    <3> QED
      BY <1>0, <2>4, <2>5, <3>1, <3>2, <3>3, Zenon
  <2>10. Heights'
    BY <1>0, <2>4 DEF TypeInv, Heights
  <2> QED
    BY <2>4, <2>7, <2>8, <2>9, <2>10 DEF TypeInv, TypeOK, supervisorVars, poolVars
<1>6. CASE NewView(s, n)
  <2>1. /\ view' = [view EXCEPT ![s][n] = @ + 1]
        /\ UNCHANGED <<supervisorVars, netVars, poolVars, proposal, chain, height, added, dead>>
    BY <1>6, Zenon DEF NewView
  <2>2. view' \in [Shard -> [Node -> Nat]]
    BY <1>0, <2>1
  <2> QED
    BY <2>1, <2>2 DEF TypeInv, TypeOK, Heights, supervisorVars, netVars, poolVars
<1> QED
  BY <1>1, <1>2, <1>4, <1>5, <1>6 DEF ReplicaStep

LEMMA TypesStay == TypeInv /\ [Next]_vars => TypeInv'
<1>1. ASSUME TypeInv, UNCHANGED vars PROVE TypeInv'
  BY <1>1 DEF vars, supervisorVars, netVars, poolVars, nodeVars, TypeInv, TypeOK, Heights
<1> QED
  BY <1>1, SuperviseTypes, ReplicaTypes, Zenon DEF Next

\* The variables keep their types, for any number of shards, replicas and
\* transactions; no replica stores a block that its shard has not agreed on.
THEOREM RelayIsTyped == Spec => []TypeOK
<1>1. TypeInv => TypeOK
  BY DEF TypeInv
<1> QED
  BY <1>1, InitTypes, TypesStay, PTL DEF Spec

-----------------------------------------------------------------------------
(* Where transactions are executed and paid.                                *)

\* A proposal has none of the transactions below it, and each once.
FreshBlock(s, n, b) ==
    /\ b.proposer = n
    /\ b.parent <= height[s][n]
    /\ \A k \in DOMAIN b.body : ~HasTransaction(s, b.parent, b.body[k].tx)
    /\ \A k, l \in DOMAIN b.body : b.body[k].tx = b.body[l].tx => k = l

Proposed ==
    \A s \in Shard, n \in Node : proposal[s][n] # <<>> =>
        Len(proposal[s][n]) = 1 /\ FreshBlock(s, n, proposal[s][n][1])

\* All that pay the recipient of a transaction agree on its shard.
Settled == ~UseSpring \/ NoViewChange

\* Replica n of shard s has the placement of a transaction's recipient.
Knows(s, n, t) == UseSpring => Recipient[t] \in PartitionMap[s][n]

\* An item that has reached replica n of shard s belongs there.
GoodItem(s, n, x) ==
    IF x.relayed THEN Settled => Destination(x.tx) = s
                 ELSE SendersShard(x.tx) = s /\ Knows(s, n, x.tx)

\* So does an executed one; the first leader has known where to relay it.
GoodEntry(s, e) ==
    /\ e.debit => ~e.relayed
    /\ ~e.relayed => SendersShard(e.tx) = s /\ (Settled => Knows(s, 0, e.tx))
    /\ Settled /\ (e.relayed \/ e.credit) => Destination(e.tx) = s

\* An injected chunk is part of one batch.
InjectedBatch ==
    \A m \in inject : \A t \in m.first .. m.last :
        (t - 1) \div batchDataNum = (m.first - 1) \div batchDataNum
HashedMaps    == ~UseSpring => \A s \in Shard, n \in Node : PartitionMap[s][n] = {}
GoodPools     == \A s \in Shard, n \in Node : \A x \in ToSet(TxQueue[s][n]) : GoodItem(s, n, x)
GoodRelays    == \A m \in relay : \A x \in ToSet(m.txs) :
                    x.relayed /\ (Settled => Destination(x.tx) = m.to)
GoodProposals == \A s \in Shard, n \in Node : \A b \in ToSet(proposal[s][n]) :
                    \A k \in DOMAIN b.body : GoodEntry(s, b.body[k])
GoodChains    == \A s \in Shard : \A i \in DOMAIN chain[s] :
                    \A k \in DOMAIN chain[s][i].body : GoodEntry(s, chain[s][i].body[k])

Belongs == /\ InjectedBatch /\ HashedMaps /\ GoodPools /\ GoodRelays
           /\ GoodProposals /\ GoodChains

\* What no step takes back: the placements a replica knows, the stored and the
\* agreed blocks, and a change of the view.
Grows ==
    /\ Settled' => Settled
    /\ \A s \in Shard, n \in Node : PartitionMap[s][n] \subseteq PartitionMap'[s][n]
    /\ \A s \in Shard, n \in Node : height[s][n] <= height'[s][n]
    /\ \A s \in Shard : /\ Len(chain[s]) <= Len(chain'[s])
                        /\ \A i \in 1 .. Len(chain[s]) : chain'[s][i] = chain[s][i]

LEMMA StepsGrow == TypeInv /\ [Next]_vars => Grows
<1> SUFFICES ASSUME TypeInv, [Next]_vars PROVE Grows
  OBVIOUS
<1>0. /\ PartitionMap \in [Shard -> [Node -> SUBSET Account]]
      /\ proposal \in [Shard -> [Node -> Seq(Block)]]
      /\ chain \in [Shard -> Seq(Block)]
      /\ height \in [Shard -> [Node -> Nat]]
      /\ view \in [Shard -> [Node -> Nat]]
  BY DEF TypeInv, TypeOK
<1> DEFINE Maps    == \A s \in Shard, n \in Node : PartitionMap[s][n] \subseteq PartitionMap'[s][n]
           Highs   == \A s \in Shard, n \in Node : height[s][n] <= height'[s][n]
           Longer  == \A s \in Shard : /\ Len(chain[s]) <= Len(chain'[s])
                                       /\ \A i \in 1 .. Len(chain[s]) : chain'[s][i] = chain[s][i]
           Quiet   == UNCHANGED <<PartitionMap, chain, height, view>>
<1>1. ASSUME UNCHANGED view PROVE Settled' => Settled
  BY <1>1 DEF Settled, NoViewChange
<1>2. ASSUME UNCHANGED PartitionMap PROVE Maps
  BY <1>2
<1>3. ASSUME UNCHANGED height PROVE Highs
  BY <1>0, <1>3
<1>4. ASSUME UNCHANGED chain PROVE Longer
  BY <1>0, <1>4
<1>5. ASSUME NEW m \in inject, handleInjectTx(m) PROVE Grows
  <2>1. PICK new : PartitionMap' = [PartitionMap EXCEPT ![m.shard][m.node] = @ \cup new]
    BY <1>5, Zenon DEF handleInjectTx
  <2>2. Maps
    BY <1>0, <2>1
  <2>3. UNCHANGED <<chain, height, view>>
    BY <1>5, Zenon DEF handleInjectTx, nodeVars
  <2> QED
    BY <1>1, <1>3, <1>4, <2>2, <2>3, Zenon DEF Grows
<1>6. ASSUME NEW s \in Shard, NEW n \in Node, Agree(s, n) PROVE Grows
  <2>1. PICK b : b = proposal[s][n][1]
    OBVIOUS
  <2>2. b \in Block
    BY <1>6, <2>1, AgreedIsFresh, Zenon
  <2>3. chain' = [chain EXCEPT ![s] = Append(@, b)]
    BY <1>6, <2>1, Zenon DEF Agree
  <2>4. Longer
    BY <1>0, <2>2, <2>3
  <2>5. UNCHANGED <<PartitionMap, height, view>>
    BY <1>6, Zenon DEF Agree, poolVars, nodeVars
  <2> QED
    BY <1>1, <1>2, <1>3, <2>4, <2>5, Zenon DEF Grows
<1>7. ASSUME NEW s \in Shard, NEW n \in Node, AddBlock(s, n) PROVE Grows
  <2>1. height' = [height EXCEPT ![s][n] = @ + 1] /\ UNCHANGED <<PartitionMap, chain, view>>
    BY <1>7, Zenon DEF AddBlock
  <2>2. Highs
    BY <1>0, <2>1
  <2> QED
    BY <1>1, <1>2, <1>4, <2>1, <2>2, Zenon DEF Grows
<1>8. ASSUME NEW s \in Shard, NEW n \in Node, NewView(s, n) PROVE Grows
  <2>1. view' = [view EXCEPT ![s][n] = @ + 1] /\ UNCHANGED <<PartitionMap, chain, height>>
    BY <1>8, Zenon DEF NewView, poolVars
  <2>2. view'[s][n] # 0
    BY <1>0, <2>1
  <2>3. Settled' => Settled
    BY <2>2 DEF Settled, NoViewChange
  <2> QED
    BY <1>2, <1>3, <1>4, <2>1, <2>3, Zenon DEF Grows
<1>9. ASSUME Quiet PROVE Grows
  BY <1>1, <1>2, <1>3, <1>4, <1>9, Zenon DEF Grows
<1>10. ASSUME txSending \/ SendStop \/ UNCHANGED vars PROVE Quiet
  BY <1>10 DEF txSending, SendStop, vars, poolVars, nodeVars
<1>11. ASSUME NEW m, handleRelay(m) \/ handleBlockInfos(m) PROVE Quiet
  BY <1>11 DEF handleRelay, handleBlockInfos, poolVars, nodeVars
<1>12. ASSUME NEW s \in Shard, NEW n \in Node, Propose(s, n) \/ Classify(s, n) PROVE Quiet
  BY <1>12, Zenon DEF Propose, Classify, poolVars, nodeVars
<1> HIDE DEF Quiet
<1>13. ASSUME NEW s \in Shard, NEW n \in Node, ReplicaStep(s, n) PROVE Grows
  BY <1>6, <1>7, <1>8, <1>9, <1>12, <1>13, Zenon DEF ReplicaStep, Commit, Recover
<1> QED
  BY <1>5, <1>9, <1>10, <1>11, <1>13, Zenon DEF Next, Supervise, Deliver

\* What a block holds is not disturbed by later ones.
LEMMA IndexStays ==
    ASSUME TypeInv, Grows, NEW s \in Shard, NEW h \in Nat, h <= Len(chain[s]), NEW t
    PROVE  HasTransaction(s, h, t)' <=> HasTransaction(s, h, t)
<1>1. chain[s] \in Seq(Block) /\ Len(chain[s]) \in Nat
  BY DEF TypeInv, TypeOK
<1>2. \A i \in 1 .. Len(chain[s]) : chain'[s][i] = chain[s][i]
  BY DEF Grows
<1>3. \A i \in 1 .. h : chain'[s][i] = chain[s][i]
  BY <1>1, <1>2
<1> QED
  BY <1>3, Zenon DEF HasTransaction

LEMMA GoodStays ==
    ASSUME Grows
    PROVE  /\ \A s \in Shard, n \in Node : \A x : GoodItem(s, n, x) => GoodItem(s, n, x)'
           /\ \A s \in Shard : \A e : GoodEntry(s, e) => GoodEntry(s, e)'
<1>1. 0 \in Node
  BY RelayAssumption DEF Node
<1>2. ASSUME NEW s \in Shard, NEW n \in Node, NEW t, Knows(s, n, t) PROVE Knows(s, n, t)'
  BY <1>2 DEF Knows, Grows
<1>3. Settled' => Settled
  BY DEF Grows
<1>4. ASSUME NEW s \in Shard, NEW n \in Node, NEW x, GoodItem(s, n, x) PROVE GoodItem(s, n, x)'
  BY <1>2, <1>3, <1>4, Zenon DEF GoodItem, SendersShard, Destination
<1>5. ASSUME NEW s \in Shard, NEW e, GoodEntry(s, e) PROVE GoodEntry(s, e)'
  BY <1>1, <1>2, <1>3, <1>5, Zenon DEF GoodEntry, SendersShard, Destination
<1> QED
  BY <1>4, <1>5

LEMMA BelongsStays ==
    ASSUME TypeInv, Belongs, Grows
    PROVE  /\ inject' \subseteq inject => InjectedBatch'
           /\ UNCHANGED PartitionMap => HashedMaps'
           /\ (\A s \in Shard, n \in Node : ToSet(TxQueue'[s][n]) \subseteq ToSet(TxQueue[s][n]))
                => GoodPools'
           /\ relay' \subseteq relay => GoodRelays'
           /\ (\A s \in Shard, n \in Node : ToSet(proposal'[s][n]) \subseteq ToSet(proposal[s][n]))
                => GoodProposals'
           /\ UNCHANGED chain => GoodChains'
<1>1. /\ \A s \in Shard, n \in Node : \A x : GoodItem(s, n, x) => GoodItem(s, n, x)'
      /\ \A s \in Shard : \A e : GoodEntry(s, e) => GoodEntry(s, e)'
  BY GoodStays
<1>2. /\ InjectedBatch /\ HashedMaps /\ GoodPools /\ GoodRelays
      /\ GoodProposals /\ GoodChains /\ (Settled' => Settled)
  BY DEF Belongs, Grows
<1>3. inject' \subseteq inject => InjectedBatch'
  BY <1>2 DEF InjectedBatch
<1>4. UNCHANGED PartitionMap => HashedMaps'
  BY <1>2 DEF HashedMaps
<1>5. ASSUME \A s \in Shard, n \in Node : ToSet(TxQueue'[s][n]) \subseteq ToSet(TxQueue[s][n])
      PROVE  GoodPools'
  BY <1>1, <1>2, <1>5, Zenon DEF GoodPools
<1>6. relay' \subseteq relay => GoodRelays'
  BY <1>2, Zenon DEF GoodRelays, Destination
<1>7. ASSUME \A s \in Shard, n \in Node : ToSet(proposal'[s][n]) \subseteq ToSet(proposal[s][n])
      PROVE  GoodProposals'
  BY <1>1, <1>2, <1>7, Zenon DEF GoodProposals
<1>8. ASSUME UNCHANGED chain PROVE GoodChains'
  BY <1>1, <1>2, <1>8, Zenon DEF GoodChains
<1> QED
  BY <1>3, <1>4, <1>5, <1>6, <1>7, <1>8

LEMMA FreshStays ==
    ASSUME TypeInv, TypeInv', Grows, NEW s \in Shard, NEW n \in Node, NEW b \in Block,
           FreshBlock(s, n, b)
    PROVE  FreshBlock(s, n, b)'
<1>1. b.parent \in Nat
  BY DEF Block
<1>2. height[s][n] \in Nat /\ height'[s][n] \in Nat /\ Len(chain[s]) \in Nat
  BY DEF TypeInv, TypeOK
<1>3. height[s][n] <= Len(chain[s]) /\ height[s][n] <= height'[s][n] /\ b.parent <= height[s][n]
  BY DEF TypeInv, Heights, Grows, FreshBlock
<1>4. b.parent <= height'[s][n] /\ b.parent <= Len(chain[s])
  BY <1>1, <1>2, <1>3
<1>5. \A t : HasTransaction(s, b.parent, t)' <=> HasTransaction(s, b.parent, t)
  BY <1>1, <1>4, IndexStays
<1> QED
  BY <1>4, <1>5, Zenon DEF FreshBlock

LEMMA ProposedStays ==
    ASSUME TypeInv, TypeInv', Proposed, Grows,
           \A s \in Shard, n \in Node : proposal'[s][n] \in {proposal[s][n], <<>>}
    PROVE  Proposed'
<1>1. ASSUME NEW s \in Shard, NEW n \in Node, proposal'[s][n] # <<>>
      PROVE  Len(proposal'[s][n]) = 1 /\ FreshBlock(s, n, proposal[s][n][1])'
  <2>1. proposal'[s][n] = proposal[s][n] /\ proposal[s][n] # <<>>
    BY <1>1
  <2>2. PICK b : b = proposal[s][n][1]
    OBVIOUS
  <2>3. Len(proposal[s][n]) = 1 /\ FreshBlock(s, n, b)
    BY <2>1, <2>2, Zenon DEF Proposed
  <2>4. b \in Block
    BY <2>2, <2>3 DEF TypeInv, TypeOK
  <2>5. FreshBlock(s, n, b)'
    BY <2>3, <2>4, FreshStays, Zenon
  <2>6. b = proposal'[s][n][1]
    BY <2>1, <2>2
  <2> QED
    BY <2>1, <2>3, <2>5, <2>6, Zenon
<1> QED
  BY <1>1, Zenon DEF Proposed

\* Every transaction of a chunk comes with its batch's placements.
LEMMA InjectBelongs ==
    ASSUME TypeInv, Belongs, Grows, NEW m \in inject, handleInjectTx(m)
    PROVE  Belongs'
<1> DEFINE new == IF UseSpring THEN BatchAccounts(m.first) ELSE {}
           txs == Chunk(m.first, m.last, m.shard)
<1>1. m.shard \in Shard /\ m.node \in Node /\ m.first \in Tx /\ m.last \in Tx
  BY DEF TypeInv, TypeOK
<1>2. /\ PartitionMap' = [PartitionMap EXCEPT ![m.shard][m.node] = @ \cup new]
      /\ TxQueue' = [TxQueue EXCEPT ![m.shard][m.node] = @ \o txs]
      /\ inject' = inject \ {m}
      /\ UNCHANGED <<supervisorVars, relay, info, proposal, chain, nodeVars>>
  BY Zenon DEF handleInjectTx
<1>3. /\ txs \in Seq(Item)
      /\ \A x \in ToSet(txs) :
            x.tx \in m.first .. m.last /\ ~x.relayed /\ SendersShard(x.tx) = m.shard
  BY <1>1, ChunkIs
<1>4. /\ TxQueue \in [Shard -> [Node -> Seq(Item)]]
      /\ PartitionMap \in [Shard -> [Node -> SUBSET Account]]
  BY DEF TypeInv, TypeOK
<1>5. ASSUME NEW x \in ToSet(txs) PROVE GoodItem(m.shard, m.node, x)'
  <2>1. x.tx \in m.first .. m.last /\ x.tx \in Tx
    <3>1. x \in Item
      BY <1>3 DEF ToSet
    <3> QED
      BY <1>3, <3>1 DEF Item
  <2>2. (x.tx - 1) \div batchDataNum = (m.first - 1) \div batchDataNum
    BY <2>1 DEF Belongs, InjectedBatch
  <2>3. Recipient[x.tx] \in BatchAccounts(m.first)
    BY <2>1, <2>2 DEF BatchAccounts
  <2>4. UseSpring => Recipient[x.tx] \in PartitionMap'[m.shard][m.node]
    BY <1>1, <1>2, <1>4, <2>3
  <2> QED
    BY <1>3, <2>4, Zenon DEF GoodItem, Knows, SendersShard
<1> HIDE DEF new, txs
<1>6. TxQueue'[m.shard][m.node] = TxQueue[m.shard][m.node] \o txs
  BY <1>1, <1>2, <1>4
<1>7. ToSet(TxQueue'[m.shard][m.node]) = ToSet(TxQueue[m.shard][m.node]) \cup ToSet(txs)
  <2>1. TxQueue[m.shard][m.node] \in Seq(Item)
    BY <1>1, <1>4
  <2> QED
    BY <1>3, <1>6, <2>1, ItemsOf
<1>8. ASSUME NEW s \in Shard, NEW n \in Node, ~(s = m.shard /\ n = m.node)
      PROVE  TxQueue'[s][n] = TxQueue[s][n]
  BY <1>1, <1>2, <1>4, <1>8
<1>9. \A s \in Shard, n \in Node : \A x : GoodItem(s, n, x) => GoodItem(s, n, x)'
  BY GoodStays
<1>10. GoodPools'
  BY <1>5, <1>7, <1>8, <1>9, Zenon DEF GoodPools, Belongs
<1>11. HashedMaps'
  BY <1>1, <1>2, <1>4 DEF HashedMaps, Belongs, new
<1>12. /\ inject' \subseteq inject /\ relay' \subseteq relay /\ UNCHANGED chain
       /\ UNCHANGED proposal
  BY <1>2
<1>13. \A s \in Shard, n \in Node : ToSet(proposal'[s][n]) \subseteq ToSet(proposal[s][n])
  BY <1>12
<1> QED
  BY <1>10, <1>11, <1>12, <1>13, BelongsStays, Zenon DEF Belongs

LEMMA RelayBelongs ==
    ASSUME TypeInv, Belongs, Grows, NEW m \in relay, handleRelay(m)
    PROVE  Belongs'
<1>1. m.to \in Shard /\ m.node \in Node /\ m.txs \in Seq(Item)
  BY DEF TypeInv, TypeOK
<1>2. /\ TxQueue' = [TxQueue EXCEPT ![m.to][m.node] = @ \o m.txs]
      /\ relay' = relay \ {m}
      /\ UNCHANGED <<supervisorVars, inject, info, PartitionMap, proposal, chain, nodeVars>>
  BY Zenon DEF handleRelay
<1>3. TxQueue \in [Shard -> [Node -> Seq(Item)]]
  BY DEF TypeInv, TypeOK
<1>4. ASSUME NEW x \in ToSet(m.txs) PROVE GoodItem(m.to, m.node, x)'
  <2>1. x.relayed /\ (Settled => Destination(x.tx) = m.to)
    BY DEF Belongs, GoodRelays
  <2>2. Settled' => Settled
    BY DEF Grows
  <2> QED
    BY <2>1, <2>2, Zenon DEF GoodItem, Destination
<1>5. TxQueue'[m.to][m.node] = TxQueue[m.to][m.node] \o m.txs
  BY <1>1, <1>2, <1>3
<1>6. ToSet(TxQueue'[m.to][m.node]) = ToSet(TxQueue[m.to][m.node]) \cup ToSet(m.txs)
  <2>1. TxQueue[m.to][m.node] \in Seq(Item)
    BY <1>1, <1>3
  <2> QED
    BY <1>1, <1>5, <2>1, ItemsOf
<1>7. ASSUME NEW s \in Shard, NEW n \in Node, ~(s = m.to /\ n = m.node)
      PROVE  TxQueue'[s][n] = TxQueue[s][n]
  BY <1>1, <1>2, <1>3, <1>7
<1>8. \A s \in Shard, n \in Node : \A x : GoodItem(s, n, x) => GoodItem(s, n, x)'
  BY GoodStays
<1>9. GoodPools'
  BY <1>4, <1>6, <1>7, <1>8, Zenon DEF GoodPools, Belongs
<1>10. /\ inject' \subseteq inject /\ relay' \subseteq relay
       /\ UNCHANGED <<PartitionMap, chain, proposal>>
  BY <1>2
<1>11. \A s \in Shard, n \in Node : ToSet(proposal'[s][n]) \subseteq ToSet(proposal[s][n])
  BY <1>10
<1> QED
  BY <1>9, <1>10, <1>11, BelongsStays, Zenon DEF Belongs

\* Where replica n finds an account is where it is, when n knows its placement.
LEMMA FindsPlaced ==
    ASSUME HashedMaps, NEW s \in Shard, NEW n \in Node, NEW t \in Tx, Knows(s, n, t)
    PROVE  Get_PartitionMap(s, n, Recipient[t]) = Destination(t)
BY DEF HashedMaps, Knows, Get_PartitionMap, Destination

\* Only the first leader proposes or relays while the views do not change.
LEMMA FirstLeader ==
    ASSUME Settled, NEW s \in Shard, NEW n \in Node, view[s][n] = n
    PROVE  UseSpring => n = 0
BY DEF Settled, NoViewChange

\* What executing the items of a pool gives.
LEMMA ExecutedBelongs ==
    ASSUME TypeInv, HashedMaps, NEW s \in Shard, NEW n \in Node, view[s][n] = n,
           NEW items \in Seq(Item), \A k \in DOMAIN items : GoodItem(s, n, items[k]),
           NEW body, Executed(s, Places(s, n), items, body)
    PROVE  \A k \in DOMAIN body : GoodEntry(s, body[k])
<1> SUFFICES ASSUME NEW k \in DOMAIN body PROVE GoodEntry(s, body[k])
  OBVIOUS
<1>1. k \in DOMAIN items /\ k \in 1 .. Len(items)
  BY DEF Executed
<1>2. items[k] \in Item
  BY <1>1
<1>3. items[k].tx \in Tx /\ Recipient[items[k].tx] \in Account
  BY <1>2, RelayAssumption DEF Item
<1> DEFINE x == items[k]
           e == body[k]
           a == Recipient[x.tx]
<1>4. /\ e.tx = x.tx /\ e.relayed = x.relayed /\ (e.debit => ~x.relayed)
      /\ e.credit => Places(s, n)[a] = s
  BY <1>1, Zenon DEF Executed
<1>5. e.credit => Get_PartitionMap(s, n, a) = s
  <2>1. Places(s, n)[a] = Get_PartitionMap(s, n, a)
    BY <1>3 DEF Places
  <2> QED
    BY <1>4, <2>1
<1>6. GoodItem(s, n, x)
  BY <1>1
<1>7. x.tx \in Tx
  BY <1>3
<1> HIDE DEF x, e, a
<1>8. Settled /\ e.relayed => Destination(e.tx) = s
  BY <1>4, <1>6, Zenon DEF GoodItem
<1>9. ASSUME ~e.relayed
      PROVE  SendersShard(e.tx) = s /\ (Settled => Knows(s, 0, e.tx))
             /\ (e.credit => Destination(e.tx) = s)
  <2>1. SendersShard(e.tx) = s /\ Knows(s, n, e.tx)
    BY <1>4, <1>6, <1>9, Zenon DEF GoodItem
  <2>2. Settled => Knows(s, 0, e.tx)
    <3>1. CASE UseSpring
      BY <2>1, <3>1, FirstLeader, Zenon
    <3>2. CASE ~UseSpring
      BY <3>2, Zenon DEF Knows
    <3> QED
      BY <3>1, <3>2
  <2>3. e.credit => Destination(e.tx) = s
    BY <1>4, <1>5, <1>7, <2>1, FindsPlaced, Zenon DEF a
  <2> QED
    BY <2>1, <2>2, <2>3
<1>10. GoodEntry(s, e)
  BY <1>4, <1>8, <1>9, Zenon DEF GoodEntry
<1> QED
  BY <1>10 DEF e

LEMMA ProposeBelongs ==
    ASSUME TypeInv, Belongs, Grows, NEW s \in Shard, NEW n \in Node, Propose(s, n)
    PROVE  Belongs'
<1>0. /\ TxQueue \in [Shard -> [Node -> Seq(Item)]]
      /\ proposal \in [Shard -> [Node -> Seq(Block)]]
  BY DEF TypeInv, TypeOK
<1>1. PICK fresh, rest :
           /\ PackedFrom(s, n, fresh, rest)
           /\ proposal' = [proposal EXCEPT ![s][n] = <<NewBlock(s, n, fresh)>>]
           /\ TxQueue' = [TxQueue EXCEPT ![s][n] = rest]
  BY ProposePacks
<1>2. PICK b : b = NewBlock(s, n, fresh)
  OBVIOUS
<1>3. fresh \in Seq(Item) /\ rest \in Seq(Item)
  BY <1>1 DEF PackedFrom
<1>4. Executed(s, Places(s, n), fresh, b.body)
  BY <1>2, <1>3, NewBlockIs, Zenon
<1>5. \A k \in DOMAIN fresh : GoodItem(s, n, fresh[k])
  <2>1. \A x \in ToSet(TxQueue[s][n]) : GoodItem(s, n, x)
    BY DEF Belongs, GoodPools
  <2>2. \A k \in DOMAIN fresh : fresh[k] \in ToSet(TxQueue[s][n])
    BY <1>1 DEF PackedFrom, ToSet
  <2> QED
    BY <2>1, <2>2
<1>6. \A k \in DOMAIN b.body : GoodEntry(s, b.body[k])
  <2>1. HashedMaps /\ view[s][n] = n
    BY Zenon DEF Belongs, Propose
  <2> QED
    BY <1>3, <1>4, <1>5, <2>1, ExecutedBelongs, Zenon
<1>7. /\ \A r \in Shard : \A e : GoodEntry(r, e) => GoodEntry(r, e)'
  BY GoodStays
<1>8. proposal'[s][n] = <<b>>
  BY <1>0, <1>1, <1>2
<1>9. ToSet(proposal'[s][n]) = {b}
  BY <1>8 DEF ToSet
<1>10. ASSUME NEW r \in Shard, NEW m \in Node, ~(r = s /\ m = n)
       PROVE  proposal'[r][m] = proposal[r][m]
  BY <1>0, <1>1, <1>10
<1>11. GoodProposals'
  BY <1>6, <1>7, <1>9, <1>10, Zenon DEF GoodProposals, Belongs
<1>12. \A r \in Shard, m \in Node : ToSet(TxQueue'[r][m]) \subseteq ToSet(TxQueue[r][m])
  <2>1. ToSet(rest) \subseteq ToSet(TxQueue[s][n])
    BY <1>1 DEF PackedFrom
  <2>2. TxQueue'[s][n] = rest
    BY <1>0, <1>1
  <2>3. ASSUME NEW r \in Shard, NEW m \in Node, ~(r = s /\ m = n)
        PROVE  TxQueue'[r][m] = TxQueue[r][m]
    BY <1>0, <1>1, <2>3
  <2> QED
    BY <2>1, <2>2, <2>3, Zenon
<1>13. inject' \subseteq inject /\ relay' \subseteq relay /\ UNCHANGED <<PartitionMap, chain>>
  BY DEF Propose, netVars
<1> QED
  BY <1>11, <1>12, <1>13, BelongsStays, Zenon DEF Belongs

LEMMA AgreeBelongs ==
    ASSUME TypeInv, Proposed, Belongs, Grows, NEW s \in Shard, NEW n \in Node, Agree(s, n)
    PROVE  Belongs'
<1>0. /\ proposal \in [Shard -> [Node -> Seq(Block)]]
      /\ chain \in [Shard -> Seq(Block)]
  BY DEF TypeInv, TypeOK
<1>1. PICK b : b = proposal[s][n][1]
  OBVIOUS
<1>2. b \in Block
  BY <1>1, AgreedIsFresh, Zenon
<1>3. /\ chain' = [chain EXCEPT ![s] = Append(@, b)] /\ proposal[s][n] # <<>>
      /\ UNCHANGED <<supervisorVars, netVars, poolVars, proposal, nodeVars>>
  BY <1>1, Zenon DEF Agree
<1>4. b \in ToSet(proposal[s][n])
  BY <1>0, <1>1, <1>3 DEF ToSet
<1>5. \A k \in DOMAIN b.body : GoodEntry(s, b.body[k])
  BY <1>4 DEF Belongs, GoodProposals
<1>6. \A r \in Shard : \A e : GoodEntry(r, e) => GoodEntry(r, e)'
  BY GoodStays
<1>7. chain'[s] = Append(chain[s], b) /\ chain[s] \in Seq(Block)
  BY <1>0, <1>3
<1>8. \A r \in Shard : r # s => chain'[r] = chain[r]
  BY <1>0, <1>3
<1>9. /\ DOMAIN chain'[s] = 1 .. Len(chain[s]) + 1 /\ DOMAIN chain[s] = 1 .. Len(chain[s])
      /\ \A i \in 1 .. Len(chain[s]) : chain'[s][i] = chain[s][i]
      /\ chain'[s][Len(chain[s]) + 1] = b /\ Len(chain[s]) \in Nat
  BY <1>2, <1>7
<1>10. ASSUME NEW i \in DOMAIN chain'[s]
       PROVE  chain'[s][i] = b \/ (i \in DOMAIN chain[s] /\ chain'[s][i] = chain[s][i])
  BY <1>9
<1>11. GoodChains'
  BY <1>5, <1>6, <1>8, <1>10, Zenon DEF GoodChains, Belongs
<1>12. /\ inject' \subseteq inject /\ relay' \subseteq relay
       /\ UNCHANGED <<PartitionMap, TxQueue, proposal>>
  BY <1>3 DEF netVars, poolVars
<1>13. \A r \in Shard, m \in Node :
          /\ ToSet(proposal'[r][m]) \subseteq ToSet(proposal[r][m])
          /\ ToSet(TxQueue'[r][m]) \subseteq ToSet(TxQueue[r][m])
  BY <1>12
<1> QED
  BY <1>11, <1>12, <1>13, BelongsStays, Zenon DEF Belongs

LEMMA AddBelongs ==
    ASSUME TypeInv, Belongs, Grows, NEW s \in Shard, NEW n \in Node, AddBlock(s, n)
    PROVE  Belongs'
<1>0. TxQueue \in [Shard -> [Node -> Seq(Item)]]
  BY DEF TypeInv, TypeOK
<1>1. PICK body : TxQueue' = [TxQueue EXCEPT ![s][n] = RemoveTxs(@, body)]
  BY Zenon DEF AddBlock
<1>2. /\ UNCHANGED <<supervisorVars, netVars, PartitionMap, proposal, chain, view, dead>>
  BY Zenon DEF AddBlock
<1>3. ToSet(RemoveTxs(TxQueue[s][n], body)) \subseteq ToSet(TxQueue[s][n])
  BY <1>0, RemoveKeeps
<1>4. TxQueue'[s][n] = RemoveTxs(TxQueue[s][n], body)
  BY <1>0, <1>1
<1>5. ASSUME NEW r \in Shard, NEW m \in Node, ~(r = s /\ m = n)
      PROVE  TxQueue'[r][m] = TxQueue[r][m]
  BY <1>0, <1>1, <1>5
<1>6. \A r \in Shard, m \in Node : ToSet(TxQueue'[r][m]) \subseteq ToSet(TxQueue[r][m])
  BY <1>3, <1>4, <1>5, Zenon
<1>7. inject' \subseteq inject /\ relay' \subseteq relay /\ UNCHANGED <<PartitionMap, chain>>
  BY <1>2 DEF netVars
<1>8. \A r \in Shard, m \in Node : ToSet(proposal'[r][m]) \subseteq ToSet(proposal[r][m])
  BY <1>2
<1> QED
  BY <1>6, <1>7, <1>8, BelongsStays, Zenon DEF Belongs

\* What a leader relays goes where its transactions end.
LEMMA RelayedBelongs ==
    ASSUME TypeInv, Belongs, NEW s \in Shard, NEW n \in Node, view[s][n] = n,
           NEW i \in DOMAIN chain[s], \A k \in DOMAIN chain[s][i].body :
                                          ~IncorrectTx(s, n, chain[s][i].body[k]),
           NEW m \in RelayMsgs(s, n, chain[s][i].body), NEW x \in ToSet(m.txs)
    PROVE  x.relayed /\ (Settled => Destination(x.tx) = m.to)
<1>0. PICK body : body = chain[s][i].body
  OBVIOUS
<1>1. PICK d \in Shard \ {s} : m.to = d /\ m.txs = RelayPool(s, n, body, d)
  BY <1>0 DEF RelayMsgs
<1>2. chain[s][i] \in Block
  BY DEF TypeInv, TypeOK
<1>3. body \in Seq(Entry)
  BY <1>0, <1>2 DEF Block
<1>4. /\ x.relayed
      /\ \E k \in DOMAIN body : /\ x.tx = body[k].tx
                                /\ Get_PartitionMap(s, n, Recipient[x.tx]) = d
  <2>1. x \in ToSet(RelayPool(s, n, body, d))
    BY <1>1
  <2>2. x.relayed
    BY <1>3, <2>1, RelayPoolIs
  <2>3. \E k \in DOMAIN body : /\ x.tx = body[k].tx
                               /\ Get_PartitionMap(s, n, Recipient[x.tx]) = d
    BY <1>3, <2>1, RelayPoolIs
  <2> QED
    BY <2>2, <2>3
<1>5. PICK k \in DOMAIN body : x.tx = body[k].tx /\ Get_PartitionMap(s, n, Recipient[x.tx]) = d
  BY <1>4
<1>6. ~IncorrectTx(s, n, body[k]) /\ GoodEntry(s, body[k])
  BY <1>0, Zenon DEF Belongs, GoodChains
<1>7. body[k] \in Entry /\ x.tx \in Tx
  <2>1. body[k] \in Entry
    BY <1>3
  <2> QED
    BY <1>5, <2>1 DEF Entry
<1>8. ~body[k].relayed
  BY <1>1, <1>5, <1>6, Zenon DEF IncorrectTx
<1>9. ASSUME Settled PROVE Destination(x.tx) = d
  <2>1. Knows(s, 0, x.tx)
    BY <1>5, <1>6, <1>8, <1>9, Zenon DEF GoodEntry
  <2>2. Knows(s, n, x.tx)
    <3>1. CASE UseSpring
      BY <1>9, <2>1, <3>1, FirstLeader, Zenon
    <3>2. CASE ~UseSpring
      BY <3>2, Zenon DEF Knows
    <3> QED
      BY <3>1, <3>2
  <2>3. HashedMaps
    BY DEF Belongs
  <2> QED
    BY <1>5, <1>7, <2>2, <2>3, FindsPlaced, Zenon
<1> QED
  BY <1>1, <1>4, <1>9, Zenon

LEMMA ClassifyBelongs ==
    ASSUME TypeInv, Belongs, Grows, NEW s \in Shard, NEW n \in Node, Classify(s, n)
    PROVE  Belongs'
<1> DEFINE i == height[s][n]
<1>0. /\ chain \in [Shard -> Seq(Block)]
      /\ height \in [Shard -> [Node -> Nat]]
      /\ proposal \in [Shard -> [Node -> Seq(Block)]]
  BY DEF TypeInv, TypeOK
<1>1. i \in DOMAIN chain[s]
  BY <1>0 DEF TypeInv, Heights, Classify
<1>2. /\ added' = [added EXCEPT ![s][n] = FALSE]
      /\ UNCHANGED <<supervisorVars, inject, poolVars, chain, height, view>>
      /\ proposal' = proposal \/ proposal' = [proposal EXCEPT ![s][n] = <<>>]
  BY Zenon DEF Classify, Unlocked
<1>3. \/ relay' = relay
      \/ /\ relay' = relay \cup RelayMsgs(s, n, chain[s][i].body)
         /\ view[s][n] = n
         /\ \A k \in DOMAIN chain[s][i].body : ~IncorrectTx(s, n, chain[s][i].body[k])
  BY Zenon DEF Classify
<1>4. \A r \in Shard, m \in Node : ToSet(proposal'[r][m]) \subseteq ToSet(proposal[r][m])
  <2>1. ToSet(<<>>) = {}
    BY DEF ToSet
  <2>2. ASSUME NEW r \in Shard, NEW m \in Node
        PROVE  proposal'[r][m] = proposal[r][m] \/ proposal'[r][m] = <<>>
    BY <1>0, <1>2
  <2> QED
    BY <2>1, <2>2
<1>5. \A r \in Shard, m \in Node : ToSet(TxQueue'[r][m]) \subseteq ToSet(TxQueue[r][m])
  BY <1>2 DEF poolVars
<1>6. inject' \subseteq inject /\ UNCHANGED <<PartitionMap, chain>>
  BY <1>2 DEF poolVars
<1>7. GoodRelays'
  <2>1. CASE relay' = relay
    BY <2>1, BelongsStays, Zenon
  <2>2. CASE relay' # relay
    <3>1. ASSUME NEW m \in RelayMsgs(s, n, chain[s][i].body), NEW x \in ToSet(m.txs)
          PROVE  x.relayed /\ (Settled => Destination(x.tx) = m.to)
      BY <1>1, <1>3, <2>2, <3>1, RelayedBelongs, Zenon
    <3>2. Settled' => Settled
      BY DEF Grows
    <3> QED
      BY <1>3, <3>1, <3>2 DEF GoodRelays, Belongs, Destination
  <2> QED
    BY <2>1, <2>2
<1> QED
  BY <1>4, <1>5, <1>6, <1>7, BelongsStays, Zenon DEF Belongs

LEMMA BelongsInductive == TypeInv /\ Proposed /\ Belongs /\ [Next]_vars => Belongs'
<1> SUFFICES ASSUME TypeInv, Proposed, Belongs, [Next]_vars PROVE Belongs'
  OBVIOUS
<1>1. Grows
  BY StepsGrow
<1> DEFINE Quiet == UNCHANGED <<inject, relay, TxQueue, PartitionMap, proposal, chain>>
<1>2. ASSUME Quiet PROVE Belongs'
  <2>1. \A s \in Shard, n \in Node :
          /\ ToSet(TxQueue'[s][n]) \subseteq ToSet(TxQueue[s][n])
          /\ ToSet(proposal'[s][n]) \subseteq ToSet(proposal[s][n])
    BY <1>2
  <2>2. inject' \subseteq inject /\ relay' \subseteq relay /\ UNCHANGED <<PartitionMap, chain>>
    BY <1>2
  <2> QED
    BY <1>1, <2>1, <2>2, BelongsStays, Zenon DEF Belongs
<1>3. ASSUME txSending PROVE Belongs'
  <2>1. UNCHANGED <<relay, TxQueue, PartitionMap, proposal, chain>>
    BY <1>3 DEF txSending, poolVars
  <2>2. \A s \in Shard, n \in Node :
          /\ ToSet(TxQueue'[s][n]) \subseteq ToSet(TxQueue[s][n])
          /\ ToSet(proposal'[s][n]) \subseteq ToSet(proposal[s][n])
    BY <2>1
  <2>3. relay' \subseteq relay
    BY <2>1
  <2>4. nowDataNum \in 0 .. NumTx /\ nowDataNum < NumTx /\ nowDataNum \in Int
    BY <1>3, RelayAssumption DEF txSending, TypeInv, TypeOK
  <2>5. \A t \in nowDataNum + 1 .. ChunkEnd :
          (t - 1) \div batchDataNum = nowDataNum \div batchDataNum
    BY <2>4, ChunkInBatch
  <2>6. ASSUME NEW m \in inject', NEW t \in m.first .. m.last
        PROVE  (t - 1) \div batchDataNum = (m.first - 1) \div batchDataNum
    <3>1. CASE m \in inject
      BY <3>1 DEF Belongs, InjectedBatch
    <3>2. CASE m \notin inject
      <4>1. m.first = nowDataNum + 1 /\ m.last = ChunkEnd
        BY <1>3, <3>2 DEF txSending
      <4>2. m.first - 1 = nowDataNum
        BY <2>4, <4>1
      <4> QED
        BY <2>5, <4>1, <4>2
    <3> QED
      BY <3>1, <3>2
  <2>7. InjectedBatch'
    BY <2>6 DEF InjectedBatch
  <2> QED
    BY <1>1, <2>1, <2>2, <2>3, <2>7, BelongsStays, Zenon DEF Belongs
<1>4. ASSUME SendStop \/ UNCHANGED vars PROVE Quiet
  BY <1>4 DEF SendStop, vars, netVars, poolVars
<1>5. ASSUME NEW m, handleBlockInfos(m) PROVE Quiet
  BY <1>5 DEF handleBlockInfos, poolVars
<1>6. ASSUME NEW s \in Shard, NEW n \in Node, NewView(s, n) PROVE Quiet
  BY <1>6 DEF NewView, netVars, poolVars
<1> HIDE DEF Quiet
<1>7. ASSUME NEW s \in Shard, NEW n \in Node, ReplicaStep(s, n) PROVE Belongs'
  BY <1>1, <1>2, <1>6, <1>7, ProposeBelongs, AgreeBelongs, AddBelongs, ClassifyBelongs, Zenon
     DEF ReplicaStep, Commit, Recover
<1> QED
  BY <1>1, <1>2, <1>3, <1>4, <1>5, <1>7, InjectBelongs, RelayBelongs, Zenon
     DEF Next, Supervise, Deliver

\* Only proposing adds a proposal.
LEMMA ProposalSteps ==
    ASSUME TypeInv, [Next]_vars
    PROVE  \/ \A s \in Shard, n \in Node : proposal'[s][n] \in {proposal[s][n], <<>>}
           \/ \E s \in Shard, n \in Node : Propose(s, n)
<1> DEFINE Less == \A s \in Shard, n \in Node : proposal'[s][n] \in {proposal[s][n], <<>>}
<1>1. ASSUME UNCHANGED proposal PROVE Less
  BY <1>1
<1>2. ASSUME NEW s \in Shard, NEW n \in Node, Classify(s, n) PROVE Less
  <2>1. proposal' = proposal \/ proposal' = [proposal EXCEPT ![s][n] = <<>>]
    BY <1>2, Zenon DEF Classify, Unlocked
  <2>2. proposal \in [Shard -> [Node -> Seq(Block)]]
    BY DEF TypeInv, TypeOK
  <2> QED
    BY <2>1, <2>2
<1>3. ASSUME NEW s \in Shard, NEW n \in Node,
             Agree(s, n) \/ AddBlock(s, n) \/ NewView(s, n)
      PROVE  UNCHANGED proposal
  BY <1>3 DEF Agree, AddBlock, NewView
<1>4. ASSUME NEW m, handleInjectTx(m) PROVE UNCHANGED proposal
  BY <1>4, Zenon DEF handleInjectTx
<1>5. ASSUME NEW m, handleRelay(m) \/ handleBlockInfos(m) PROVE UNCHANGED proposal
  BY <1>5 DEF handleRelay, handleBlockInfos
<1>6. ASSUME txSending \/ SendStop \/ UNCHANGED vars PROVE UNCHANGED proposal
  BY <1>6 DEF txSending, SendStop, vars
<1> HIDE DEF Less
<1>7. ASSUME NEW s \in Shard, NEW n \in Node, ReplicaStep(s, n)
      PROVE  Less \/ Propose(s, n)
  BY <1>1, <1>2, <1>3, <1>7, Zenon DEF ReplicaStep, Commit, Recover
<1>8. Less \/ \E s \in Shard, n \in Node : Propose(s, n)
  BY <1>1, <1>4, <1>5, <1>6, <1>7, Zenon DEF Next, Supervise, Deliver
<1> QED
  BY <1>8, Zenon DEF Less

LEMMA ProposedInductive == TypeInv /\ Proposed /\ [Next]_vars => Proposed'
<1> SUFFICES ASSUME TypeInv, Proposed, [Next]_vars PROVE Proposed'
  OBVIOUS
<1>0. /\ TypeInv' /\ Grows
      /\ proposal \in [Shard -> [Node -> Seq(Block)]]
  BY TypesStay, StepsGrow DEF TypeInv, TypeOK
<1>1. ASSUME \A s \in Shard, n \in Node : proposal'[s][n] \in {proposal[s][n], <<>>}
      PROVE  Proposed'
  BY <1>0, <1>1, ProposedStays
<1>2. ASSUME NEW s \in Shard, NEW n \in Node, Propose(s, n) PROVE Proposed'
  <2>1. PICK fresh, rest :
             /\ PackedFrom(s, n, fresh, rest)
             /\ proposal' = [proposal EXCEPT ![s][n] = <<NewBlock(s, n, fresh)>>]
    BY <1>2, ProposePacks
  <2>2. PICK b : b = NewBlock(s, n, fresh)
    OBVIOUS
  <2>3. fresh \in Seq(Item)
    BY <2>1 DEF PackedFrom
  <2>4. /\ b \in Block /\ b.parent = height[s][n] /\ b.proposer = n
        /\ Executed(s, Places(s, n), fresh, b.body)
    BY <2>2, <2>3, NewBlockIs, Zenon
  <2>5. DOMAIN b.body = DOMAIN fresh /\ \A k \in DOMAIN fresh : b.body[k].tx = fresh[k].tx
    BY <2>3, <2>4 DEF Executed
  <2>6. height[s][n] \in Nat
    BY DEF TypeInv, TypeOK
  <2>7. FreshBlock(s, n, b)
    BY <2>1, <2>4, <2>5, <2>6 DEF FreshBlock, PackedFrom
  <2>8. FreshBlock(s, n, b)'
    BY <1>0, <2>4, <2>7, FreshStays, Zenon
  <2>9. proposal'[s][n] = <<b>>
    BY <1>0, <2>1, <2>2
  <2>10. Len(proposal'[s][n]) = 1 /\ proposal'[s][n][1] = b
    BY <2>9
  <2>11. ASSUME NEW r \in Shard, NEW m \in Node, ~(r = s /\ m = n)
         PROVE  proposal'[r][m] = proposal[r][m]
    BY <1>0, <2>1, <2>11
  <2>12. ASSUME NEW r \in Shard, NEW m \in Node, ~(r = s /\ m = n), proposal'[r][m] # <<>>
         PROVE  Len(proposal'[r][m]) = 1 /\ FreshBlock(r, m, proposal[r][m][1])'
    <3>1. PICK c : c = proposal[r][m][1]
      OBVIOUS
    <3>2. Len(proposal[r][m]) = 1 /\ FreshBlock(r, m, c)
      BY <2>11, <2>12, <3>1, Zenon DEF Proposed
    <3>3. c \in Block
      BY <3>1, <3>2, <1>0
    <3>4. FreshBlock(r, m, c)'
      BY <1>0, <3>2, <3>3, FreshStays, Zenon
    <3>5. c = proposal'[r][m][1] /\ proposal'[r][m] = proposal[r][m]
      BY <2>11, <2>12, <3>1
    <3> QED
      BY <3>2, <3>4, <3>5, Zenon
  <2>13. ASSUME NEW r \in Shard, NEW m \in Node, proposal'[r][m] # <<>>
         PROVE  Len(proposal'[r][m]) = 1 /\ FreshBlock(r, m, proposal[r][m][1])'
    <3>1. CASE r = s /\ m = n
      BY <2>8, <2>10, <3>1, Zenon
    <3>2. CASE ~(r = s /\ m = n)
      BY <2>12, <2>13, <3>2, Zenon
    <3> QED
      BY <3>1, <3>2
  <2> QED
    BY <2>13, Zenon DEF Proposed
<1> QED
  BY <1>1, <1>2, ProposalSteps, Zenon

LEMMA InitBelongs == Init => Proposed /\ Belongs
<1> SUFFICES ASSUME Init PROVE Proposed /\ Belongs
  OBVIOUS
<1>1. ToSet(<<>>) = {}
  BY DEF ToSet
<1>2. Proposed /\ GoodPools /\ GoodProposals
  BY <1>1 DEF Init, Proposed, GoodPools, GoodProposals
<1>3. InjectedBatch /\ HashedMaps /\ GoodRelays /\ GoodChains
  BY DEF Init, InjectedBatch, HashedMaps, GoodRelays, GoodChains
<1> QED
  BY <1>2, <1>3 DEF Belongs

LEMMA LedgerInvariant == Spec => [](TypeInv /\ Proposed /\ Belongs)
BY InitTypes, InitBelongs, TypesStay, ProposedInductive, BelongsInductive, PTL DEF Spec

\* What a leader has proposed on top of its chain has nothing that the chain
\* has, in any number of shards and under any placement
\* (filterFreshTransactions in GenerateBlock).
THEOREM FilteredProposals == Spec => []ProposalsStayFresh
<1>1. Proposed => ProposalsStayFresh
  BY Zenon DEF Proposed, FreshBlock, ProposalsStayFresh, OnTop
<1> QED
  BY <1>1, LedgerInvariant, PTL

\* All of a shard's entries are good.
LEMMA EntriesAreGood ==
    ASSUME TypeInv, Belongs, NEW s \in Shard, NEW e \in Entries(s)
    PROVE  GoodEntry(s, e)
<1>1. PICK i \in DOMAIN chain[s] : e \in ToSet(chain[s][i].body)
  BY Zenon DEF Entries
<1> QED
  BY <1>1 DEF ToSet, Belongs, GoodChains

\* Shards that are all the same are at most one.
LEMMA AtMostOne ==
    ASSUME NEW S, NEW one, \A x \in S : x = one
    PROVE  Cardinality(S) <= 1
<1>1. CASE S = {}
  BY <1>1, FS_EmptySet
<1>2. CASE S # {}
  <2>1. S = {one}
    BY <1>2
  <2>2. Cardinality(S) = 1
    BY <2>1, FS_Singleton, Zenon
  <2> QED
    BY <2>2
<1> QED
  BY <1>1, <1>2

\* However the messages, the proposals and the views of the shards interleave, a
\* transaction is debited in its sender's shard only; and while no view has
\* changed, or accounts are placed by their hash, it is credited in one shard,
\* its recipient's (GetUpdateStatusTrie, HandleinCommit, handleInjectTx).
THEOREM TransactionsArePaidOnce == Spec => []PaidOnce
<1>1. ASSUME TypeInv, Belongs PROVE PaidOnce
  <2> SUFFICES ASSUME NEW t \in Tx
               PROVE  /\ Cardinality({s \in Shard : \E e \in Entries(s) : e.tx = t /\ e.debit}) <= 1
                      /\ ~UseSpring \/ NoViewChange =>
                           Cardinality({s \in Shard : \E e \in Entries(s) : e.tx = t /\ e.credit}) <= 1
    BY DEF PaidOnce
  <2>1. ASSUME NEW s \in Shard, NEW e \in Entries(s), e.tx = t, e.debit
        PROVE  s = SendersShard(t)
    BY <1>1, <2>1, EntriesAreGood, Zenon DEF GoodEntry
  <2>2. ASSUME NEW s \in Shard, NEW e \in Entries(s), e.tx = t, e.credit, Settled
        PROVE  s = Destination(t)
    BY <1>1, <2>2, EntriesAreGood, Zenon DEF GoodEntry
  <2> DEFINE Debits == {s \in Shard : \E e \in Entries(s) : e.tx = t /\ e.debit}
             Credits == {s \in Shard : \E e \in Entries(s) : e.tx = t /\ e.credit}
  <2>3. \A s \in Debits : s = SendersShard(t)
    BY <2>1, Zenon
  <2>4. Settled => \A s \in Credits : s = Destination(t)
    BY <2>2, Zenon
  <2> HIDE DEF Debits, Credits
  <2>5. Cardinality(Debits) <= 1
    BY <2>3, AtMostOne
  <2>6. ASSUME Settled PROVE Cardinality(Credits) <= 1
    <3>1. \A s \in Credits : s = Destination(t)
      BY <2>4, <2>6, Zenon
    <3> QED
      BY <3>1, AtMostOne
  <2> QED
    BY <2>5, <2>6, Zenon DEF Settled, Debits, Credits
<1> QED
  BY <1>1, LedgerInvariant, PTL

-----------------------------------------------------------------------------
(* Validity of proposals.                                                   *)

\* What a block has been executed on is not disturbed by later blocks.
LEMMA LogStays ==
    ASSUME TypeInv, Grows, NEW s \in Shard, NEW h \in Nat, h <= Len(chain[s])
    PROVE  Log(s, h)' = Log(s, h)
<1>1. chain[s] \in Seq(Block) /\ Len(chain[s]) \in Nat
  BY DEF TypeInv, TypeOK
<1>2. \A i \in 1 .. Len(chain[s]) : chain'[s][i] = chain[s][i]
  BY DEF Grows
<1>3. \A i \in 1 .. h : chain'[s][i].body = chain[s][i].body
  BY <1>1, <1>2
<1>4. [i \in 1 .. h |-> chain'[s][i].body] = [i \in 1 .. h |-> chain[s][i].body]
  BY <1>3
<1> QED
  BY <1>4, Zenon DEF Log

\* A block is what executing its items on top of its parent gives.
ExecutedOnParent(s, b) ==
    b.body = ExecuteAll(s, Addr2Shard, Log(s, b.parent), Items(b.body))

ExecutedProposals ==
    \A s \in Shard, n \in Node : proposal[s][n] # <<>> =>
        ExecutedOnParent(s, proposal[s][n][1])

LEMMA ExecutedStays ==
    ASSUME TypeInv, Grows, NEW s \in Shard, NEW b \in Block, b.parent <= Len(chain[s]),
           ExecutedOnParent(s, b)
    PROVE  ExecutedOnParent(s, b)'
<1>1. b.parent \in Nat
  BY DEF Block
<1>2. Log(s, b.parent)' = Log(s, b.parent)
  BY <1>1, LogStays
<1> QED
  BY <1>2, Zenon DEF ExecutedOnParent

LEMMA ItemsBack ==
    ASSUME NEW s, NEW map, NEW items \in Seq(Item), NEW out, Executed(s, map, items, out)
    PROVE  Items(out) = items
<1>1. DOMAIN out = DOMAIN items /\ DOMAIN items = 1 .. Len(items)
  BY DEF Executed
<1>2. ASSUME NEW k \in DOMAIN items
      PROVE  [tx |-> out[k].tx, relayed |-> out[k].relayed] = items[k]
  <2>1. items[k] \in Item
    OBVIOUS
  <2>2. out[k].tx = items[k].tx /\ out[k].relayed = items[k].relayed
    BY <1>1 DEF Executed
  <2> QED
    BY <2>1, <2>2 DEF Item
<1>3. items = [k \in DOMAIN items |-> items[k]]
  OBVIOUS
<1>4. Items(out) = [k \in DOMAIN out |-> [tx |-> out[k].tx, relayed |-> out[k].relayed]]
  BY DEF Items
<1> QED
  BY <1>1, <1>2, <1>3, <1>4

\* Accounts that are placed by their hash are found there.
LEMMA PlacesByHash ==
    ASSUME ~UseSpring, HashedMaps, NEW s \in Shard, NEW n \in Node
    PROVE  Places(s, n) = Addr2Shard
<1>1. Addr2Shard = [a \in Account |-> Addr2Shard[a]]
  BY RelayAssumption
<1>2. \A a : Get_PartitionMap(s, n, a) = Addr2Shard[a]
  BY DEF HashedMaps, Get_PartitionMap
<1> QED
  BY <1>1, <1>2 DEF Places

LEMMA ExecutedInductive ==
    ASSUME ~UseSpring, TypeInv, Proposed, Belongs, ExecutedProposals, [Next]_vars
    PROVE  ExecutedProposals'
<1>0. /\ TypeInv' /\ Grows
      /\ proposal \in [Shard -> [Node -> Seq(Block)]]
  BY TypesStay, StepsGrow DEF TypeInv, TypeOK
<1>1. ASSUME NEW s \in Shard, NEW n \in Node, proposal[s][n] # <<>>,
             proposal'[s][n] = proposal[s][n]
      PROVE  ExecutedOnParent(s, proposal[s][n][1])'
  <2>1. PICK b : b = proposal[s][n][1]
    OBVIOUS
  <2>2. Len(proposal[s][n]) = 1 /\ FreshBlock(s, n, b) /\ ExecutedOnParent(s, b)
    BY <1>1, <2>1, Zenon DEF Proposed, ExecutedProposals
  <2>3. b \in Block
    BY <1>0, <2>1, <2>2
  <2>4. b.parent <= Len(chain[s])
    <3>1. b.parent \in Nat
      BY <2>3 DEF Block
    <3>2. height[s][n] \in Nat /\ Len(chain[s]) \in Nat
      BY DEF TypeInv, TypeOK
    <3>3. b.parent <= height[s][n] /\ height[s][n] <= Len(chain[s])
      BY <2>2 DEF FreshBlock, TypeInv, Heights
    <3> QED
      BY <3>1, <3>2, <3>3
  <2>5. ExecutedOnParent(s, b)'
    BY <1>0, <2>2, <2>3, <2>4, ExecutedStays, Zenon
  <2>6. b = proposal'[s][n][1]
    BY <1>1, <2>1
  <2> QED
    BY <2>5, <2>6, Zenon
<1>2. ASSUME \A s \in Shard, n \in Node : proposal'[s][n] \in {proposal[s][n], <<>>}
      PROVE  ExecutedProposals'
  <2>1. ASSUME NEW s \in Shard, NEW n \in Node, proposal'[s][n] # <<>>
        PROVE  proposal'[s][n] = proposal[s][n]
    BY <1>2, <2>1
  <2> QED
    BY <1>1, <2>1, Zenon DEF ExecutedProposals
<1>3. ASSUME NEW s \in Shard, NEW n \in Node, Propose(s, n) PROVE ExecutedProposals'
  <2>1. PICK fresh, rest :
             /\ PackedFrom(s, n, fresh, rest)
             /\ proposal' = [proposal EXCEPT ![s][n] = <<NewBlock(s, n, fresh)>>]
    BY <1>3, ProposePacks
  <2>2. PICK b : b = NewBlock(s, n, fresh)
    OBVIOUS
  <2>3. fresh \in Seq(Item) /\ HashedMaps
    BY <2>1 DEF PackedFrom, Belongs
  <2>4. /\ b \in Block /\ b.parent = height[s][n]
        /\ Executed(s, Places(s, n), fresh, b.body)
    BY <2>2, <2>3, NewBlockIs, Zenon
  <2>5. b.body = ExecuteAll(s, Places(s, n), Log(s, height[s][n]), fresh)
    BY <2>2 DEF NewBlock, GetUpdateStatusTrie
  <2>6. Items(b.body) = fresh
    BY <2>3, <2>4, ItemsBack, Zenon
  <2>7. ExecutedOnParent(s, b)
    BY <2>3, <2>4, <2>5, <2>6, PlacesByHash, Zenon DEF ExecutedOnParent
  <2>8. b.parent <= Len(chain[s])
    BY <2>4 DEF TypeInv, Heights
  <2>9. ExecutedOnParent(s, b)'
    BY <1>0, <2>4, <2>7, <2>8, ExecutedStays, Zenon
  <2>10. proposal'[s][n] = <<b>>
    BY <1>0, <2>1, <2>2
  <2>11. proposal'[s][n][1] = b
    BY <2>10
  <2>12. ASSUME NEW r \in Shard, NEW m \in Node, ~(r = s /\ m = n)
         PROVE  proposal'[r][m] = proposal[r][m]
    BY <1>0, <2>1, <2>12
  <2>13. ASSUME NEW r \in Shard, NEW m \in Node, proposal'[r][m] # <<>>
         PROVE  ExecutedOnParent(r, proposal[r][m][1])'
    <3>1. CASE r = s /\ m = n
      BY <2>9, <2>11, <3>1, Zenon
    <3>2. CASE ~(r = s /\ m = n)
      BY <1>1, <2>12, <2>13, <3>2, Zenon
    <3> QED
      BY <3>1, <3>2
  <2> QED
    BY <2>13, Zenon DEF ExecutedProposals
<1> QED
  BY <1>2, <1>3, ProposalSteps, Zenon

\* With accounts placed by their hash, a leader's proposal on top of its own
\* chain always passes its own validation, whatever has arrived or changed since
\* it made it, so a round is never stuck for that (GenerateBlock, IsValidBlock).
THEOREM OwnProposalsAreValid == ~UseSpring => (Spec => []ProposalsStayValid)
<1> SUFFICES ASSUME ~UseSpring PROVE Spec => []ProposalsStayValid
  OBVIOUS
<1>1. Init => ExecutedProposals
  BY DEF Init, ExecutedProposals
<1>2. TypeInv /\ Proposed /\ Belongs /\ ExecutedProposals /\ [Next]_vars => ExecutedProposals'
  BY ExecutedInductive
<1>3. ASSUME TypeInv, Proposed, Belongs, ExecutedProposals PROVE ProposalsStayValid
  <2> SUFFICES ASSUME NEW s \in Shard, NEW n \in Node, OnTop(s, n)
               PROVE  IsValidBlock(s, n, proposal[s][n][1])
    BY DEF ProposalsStayValid
  <2>1. PICK b : b = proposal[s][n][1]
    OBVIOUS
  <2>2. proposal[s][n] # <<>> /\ b.parent = height[s][n]
    BY <2>1 DEF OnTop
  <2>3. Len(proposal[s][n]) = 1 /\ FreshBlock(s, n, b) /\ ExecutedOnParent(s, b)
    BY <1>3, <2>1, <2>2, Zenon DEF Proposed, ExecutedProposals
  <2>4. b \in Block
    BY <1>3, <2>1, <2>3 DEF TypeInv, TypeOK
  <2>5. HashedMaps
    BY <1>3 DEF Belongs
  <2>6. b.body = GetUpdateStatusTrie(s, n, Items(b.body))
    BY <2>2, <2>3, <2>5, PlacesByHash, Zenon DEF ExecutedOnParent, GetUpdateStatusTrie
  <2> QED
    BY <2>1, <2>2, <2>3, <2>4, <2>6, Zenon DEF IsValidBlock, FreshBlock
<1> QED
  BY <1>1, <1>2, <1>3, LedgerInvariant, PTL DEF Spec

-----------------------------------------------------------------------------
(* Relays.                                                                  *)

\* Accounts are placed by their hash and nobody votes for another leader.
SteadyLeaders == ~UseSpring /\ \A s \in Shard : MaxView[s] = 0

\* Replica 0 leads every shard, and none panics.
FirstLeads ==
    /\ \A s \in Shard, n \in Node : view[s][n] = 0 /\ ~dead[s][n]
    /\ \A s \in Shard, n \in Node : proposal[s][n] # <<>> => n = 0
    /\ \A s \in Shard : \A i \in DOMAIN chain[s] : chain[s][i].proposer = 0

\* The leader has nothing under way; or it has proposed b, the shard has agreed
\* on it, or it has stored b and not yet relayed its transactions.
Idle(s)        == proposal[s][0] = <<>> /\ Len(chain[s]) = height[s][0] /\ ~added[s][0]
Open(s, b)     == b.parent = height[s][0] /\ Len(chain[s]) = height[s][0] /\ ~added[s][0]
Agreed(s, b)   == /\ b.parent = height[s][0] /\ Len(chain[s]) = height[s][0] + 1
                  /\ chain[s][height[s][0] + 1] = b /\ ~added[s][0]
Stored(s, b)   == /\ b.parent + 1 = height[s][0] /\ Len(chain[s]) = height[s][0]
                  /\ chain[s][height[s][0]] = b /\ added[s][0]
Round(s) ==
    \/ Idle(s)
    \/ /\ proposal[s][0] # <<>>
       /\ \/ Open(s, proposal[s][0][1])
          \/ Agreed(s, proposal[s][0][1])
          \/ Stored(s, proposal[s][0][1])
InRound == \A s \in Shard : Round(s)

\* The leader has relayed block i.
Passed(s, i) == height[s][0] > i \/ (height[s][0] = i /\ ~added[s][0])

\* A transaction has got to its last shard, or every replica there has it.
Arrives(t) == OnChain(t) \/ \A n \in Node : Holds(Destination(t), n, t)

RelayedArrive ==
    \A s \in Shard : \A i \in DOMAIN chain[s] : \A k \in DOMAIN chain[s][i].body :
        Passed(s, i) /\ Destination(chain[s][i].body[k].tx) # s =>
            Arrives(chain[s][i].body[k].tx)

LEMMA ZeroIsNode == 0 \in Node
BY RelayAssumption DEF Node

\* Accounts are found where their transactions are sent: no block has a
\* transaction that makes the leader panic.
LEMMA NeverIncorrect ==
    ASSUME ~UseSpring, TypeInv, Belongs, NEW s \in Shard, NEW n \in Node,
           NEW i \in DOMAIN chain[s], NEW k \in DOMAIN chain[s][i].body
    PROVE  ~IncorrectTx(s, n, chain[s][i].body[k])
<1>1. PICK e : e = chain[s][i].body[k]
  OBVIOUS
<1>2. GoodEntry(s, e) /\ HashedMaps
  BY <1>1, Zenon DEF Belongs, GoodChains
<1>3. Settled
  BY DEF Settled
<1>4. \A a : Get_PartitionMap(s, n, a) = Addr2Shard[a]
  BY <1>2 DEF HashedMaps, Get_PartitionMap
<1>5. e.relayed => Addr2Shard[Recipient[e.tx]] = s
  BY <1>2, <1>3, Zenon DEF GoodEntry, Destination
<1>6. ~e.relayed => Addr2Shard[Sender[e.tx]] = s
  BY <1>2, Zenon DEF GoodEntry, SendersShard
<1> QED
  BY <1>1, <1>4, <1>5, <1>6, Zenon DEF IncorrectTx

\* A step leaves the leader of shard s alone, or is one of its own.
Calm(s) == /\ proposal'[s][0] = proposal[s][0] /\ chain'[s] = chain[s]
           /\ height'[s][0] = height[s][0] /\ added'[s][0] = added[s][0]

LEMMA LeaderSteps ==
    ASSUME SteadyLeaders, TypeInv, FirstLeads, [Next]_vars, NEW s \in Shard
    PROVE  Calm(s) \/ Propose(s, 0) \/ Agree(s, 0) \/ Commit(s, 0) \/ Classify(s, 0)
<1>0. /\ proposal \in [Shard -> [Node -> Seq(Block)]]
      /\ chain \in [Shard -> Seq(Block)]
      /\ height \in [Shard -> [Node -> Nat]]
      /\ added \in [Shard -> [Node -> BOOLEAN]]
      /\ view \in [Shard -> [Node -> Nat]]
  BY DEF TypeInv, TypeOK
<1>00. 0 \in Node
  BY RelayAssumption DEF Node
<1> DEFINE Quiet == UNCHANGED <<proposal, chain, height, added>>
<1>1. ASSUME Quiet PROVE Calm(s)
  BY <1>1, Zenon DEF Calm
<1>2. ASSUME NEW m, handleInjectTx(m) PROVE Quiet
  BY <1>2, Zenon DEF handleInjectTx, nodeVars
<1>3. ASSUME NEW m, handleRelay(m) \/ handleBlockInfos(m) PROVE Quiet
  BY <1>3 DEF handleRelay, handleBlockInfos, nodeVars
<1>4. ASSUME txSending \/ SendStop \/ UNCHANGED vars PROVE Quiet
  BY <1>4 DEF txSending, SendStop, vars, nodeVars
<1>5. ASSUME NEW r \in Shard, NEW n \in Node, NewView(r, n) PROVE FALSE
  BY <1>0, <1>5, RelayAssumption DEF NewView, FirstLeads, SteadyLeaders
<1>6. ASSUME NEW r \in Shard, NEW n \in Node, Propose(r, n), ~(r = s /\ n = 0) PROVE Calm(s)
  <2>1. PICK p : proposal' = [proposal EXCEPT ![r][n] = p]
    BY <1>6, Zenon DEF Propose
  <2>2. UNCHANGED <<chain, height, added>>
    BY <1>6 DEF Propose, nodeVars
  <2>3. proposal'[s][0] = proposal[s][0]
    BY <1>0, <1>00, <1>6, <2>1
  <2> QED
    BY <2>2, <2>3, Zenon DEF Calm
<1>7. ASSUME NEW r \in Shard, NEW n \in Node, Agree(r, n), ~(r = s /\ n = 0) PROVE Calm(s)
  <2>1. n = 0 /\ r # s
    BY <1>7 DEF Agree, FirstLeads
  <2>2. UNCHANGED <<proposal, height, added>>
    BY <1>7 DEF Agree, nodeVars
  <2>3. PICK c : chain' = [chain EXCEPT ![r] = c]
    BY <1>7, Zenon DEF Agree
  <2>4. chain'[s] = chain[s]
    BY <1>0, <2>1, <2>3
  <2> QED
    BY <2>2, <2>4, Zenon DEF Calm
<1>8. ASSUME NEW r \in Shard, NEW n \in Node, Commit(r, n) \/ Recover(r, n), ~(r = s /\ n = 0)
      PROVE  Calm(s)
  <2>1. /\ height' = [height EXCEPT ![r][n] = @ + 1]
        /\ UNCHANGED <<supervisorVars, netVars, PartitionMap, proposal, chain, view, dead>>
    BY <1>8, Zenon DEF Commit, Recover, AddBlock
  <2>2. added' = [added EXCEPT ![r][n] = TRUE] \/ added' = added
    BY <1>8, Zenon DEF Commit, Recover
  <2>3. height'[s][0] = height[s][0]
    BY <1>0, <1>00, <1>8, <2>1
  <2>4. added'[s][0] = added[s][0]
    <3>1. CASE added' = [added EXCEPT ![r][n] = TRUE]
      BY <1>0, <1>00, <1>8, <3>1
    <3>2. CASE added' = added
      BY <3>2
    <3> QED
      BY <2>2, <3>1, <3>2
  <2> QED
    BY <2>1, <2>3, <2>4, Zenon DEF Calm
<1>9. ASSUME Recover(s, 0) PROVE FALSE
  <2>1. height[s][0] + 1 \in DOMAIN chain[s]
    BY <1>0, <1>00, <1>9 DEF Recover, AddBlock
  <2> QED
    BY <1>00, <1>9, <2>1 DEF Recover, FirstLeads
<1>10. ASSUME NEW r \in Shard, NEW n \in Node, Classify(r, n), ~(r = s /\ n = 0) PROVE Calm(s)
  <2>1. /\ added' = [added EXCEPT ![r][n] = FALSE]
        /\ UNCHANGED <<supervisorVars, inject, poolVars, chain, height, view>>
        /\ proposal' = proposal \/ proposal' = [proposal EXCEPT ![r][n] = <<>>]
    BY <1>10, Zenon DEF Classify, Unlocked
  <2>2. added'[s][0] = added[s][0]
    BY <1>0, <1>00, <1>10, <2>1
  <2>3. proposal'[s][0] = proposal[s][0]
    <3>1. CASE proposal' = proposal
      BY <3>1
    <3>2. CASE proposal' = [proposal EXCEPT ![r][n] = <<>>]
      BY <1>0, <1>00, <1>10, <3>2
    <3> QED
      BY <2>1, <3>1, <3>2
  <2> QED
    BY <2>1, <2>2, <2>3, Zenon DEF Calm
<1> HIDE DEF Quiet
<1>11. ASSUME NEW r \in Shard, NEW n \in Node, ReplicaStep(r, n)
       PROVE  Calm(s) \/ Propose(s, 0) \/ Agree(s, 0) \/ Commit(s, 0) \/ Classify(s, 0)
  <2>1. CASE r = s /\ n = 0
    BY <1>00, <1>5, <1>9, <1>11, <2>1, Zenon DEF ReplicaStep
  <2>2. CASE ~(r = s /\ n = 0)
    BY <1>5, <1>6, <1>7, <1>8, <1>10, <1>11, <2>2, Zenon DEF ReplicaStep
  <2> QED
    BY <2>1, <2>2
<1> QED
  BY <1>1, <1>2, <1>3, <1>4, <1>11, Zenon DEF Next, Supervise, Deliver

LEMMA FirstLeadsInductive ==
    ASSUME SteadyLeaders, TypeInv, Proposed, Belongs, FirstLeads, [Next]_vars
    PROVE  FirstLeads'
<1>0. /\ proposal \in [Shard -> [Node -> Seq(Block)]]
      /\ chain \in [Shard -> Seq(Block)]
      /\ height \in [Shard -> [Node -> Nat]]
      /\ view \in [Shard -> [Node -> Nat]]
  BY DEF TypeInv, TypeOK
<1> DEFINE Quiet == UNCHANGED <<view, dead, proposal, chain>>
<1>1. ASSUME Quiet PROVE FirstLeads'
  BY <1>1, Zenon DEF FirstLeads
<1>2. ASSUME NEW m, handleInjectTx(m) PROVE Quiet
  BY <1>2, Zenon DEF handleInjectTx, nodeVars
<1>3. ASSUME NEW m, handleRelay(m) \/ handleBlockInfos(m) PROVE Quiet
  BY <1>3 DEF handleRelay, handleBlockInfos, nodeVars
<1>4. ASSUME txSending \/ SendStop \/ UNCHANGED vars PROVE Quiet
  BY <1>4 DEF txSending, SendStop, vars, nodeVars
<1>5. ASSUME NEW r \in Shard, NEW n \in Node, NewView(r, n) PROVE FALSE
  BY <1>0, <1>5, RelayAssumption DEF NewView, FirstLeads, SteadyLeaders
<1>6. ASSUME NEW r \in Shard, NEW n \in Node, Commit(r, n) \/ Recover(r, n) PROVE Quiet
  BY <1>6, Zenon DEF Commit, Recover, AddBlock
<1>7. ASSUME NEW r \in Shard, NEW n \in Node, Propose(r, n) PROVE FirstLeads'
  <2>1. n = 0
    BY <1>7 DEF Propose, FirstLeads
  <2>2. PICK p : proposal' = [proposal EXCEPT ![r][n] = p]
    BY <1>7, Zenon DEF Propose
  <2>3. UNCHANGED <<view, dead, chain>>
    BY <1>7 DEF Propose, nodeVars
  <2>4. ASSUME NEW s \in Shard, NEW m \in Node, m # 0 PROVE proposal'[s][m] = proposal[s][m]
    BY <1>0, <2>1, <2>2, <2>4
  <2>5. ASSUME NEW s \in Shard, NEW m \in Node, proposal'[s][m] # <<>> PROVE m = 0
    BY <2>4, <2>5 DEF FirstLeads
  <2> QED
    BY <2>3, <2>5, Zenon DEF FirstLeads
<1>8. ASSUME NEW r \in Shard, NEW n \in Node, Agree(r, n) PROVE FirstLeads'
  <2>1. PICK b : b = proposal[r][n][1]
    OBVIOUS
  <2>2. b \in Block
    BY <1>8, <2>1, AgreedIsFresh, Zenon
  <2>3. /\ chain' = [chain EXCEPT ![r] = Append(@, b)] /\ proposal[r][n] # <<>>
        /\ UNCHANGED <<supervisorVars, netVars, poolVars, proposal, nodeVars>>
    BY <1>8, <2>1, Zenon DEF Agree
  <2>4. b.proposer = 0
    BY <2>1, <2>3, Zenon DEF FirstLeads, Proposed, FreshBlock
  <2>5. ASSUME NEW s \in Shard, NEW i \in DOMAIN chain'[s] PROVE chain'[s][i].proposer = 0
    <3>1. CASE s = r
      BY <1>0, <2>2, <2>3, <2>4, <2>5, <3>1 DEF FirstLeads
    <3>2. CASE s # r
      BY <1>0, <2>3, <2>5, <3>2 DEF FirstLeads
    <3> QED
      BY <3>1, <3>2
  <2>6. UNCHANGED <<view, dead, proposal>>
    BY <2>3 DEF nodeVars
  <2> QED
    BY <2>5, <2>6, Zenon DEF FirstLeads
<1>9. ASSUME NEW r \in Shard, NEW n \in Node, Classify(r, n) PROVE FirstLeads'
  <2>1. height[r][n] \in DOMAIN chain[r]
    BY <1>0, <1>9 DEF TypeInv, Heights, Classify
  <2>2. \A k \in DOMAIN chain[r][height[r][n]].body :
           ~IncorrectTx(r, n, chain[r][height[r][n]].body[k])
    BY <2>1, NeverIncorrect, Zenon DEF SteadyLeaders
  <2>3. /\ UNCHANGED <<view, dead, chain>>
        /\ proposal' = proposal \/ proposal' = [proposal EXCEPT ![r][n] = <<>>]
    BY <1>9, <2>2, Zenon DEF Classify, Unlocked
  <2>4. ASSUME NEW s \in Shard, NEW m \in Node, proposal'[s][m] # <<>> PROVE m = 0
    <3>1. proposal'[s][m] = proposal[s][m]
      <4>1. CASE proposal' = proposal
        BY <4>1
      <4>2. CASE proposal' = [proposal EXCEPT ![r][n] = <<>>]
        BY <1>0, <2>4, <4>2
      <4> QED
        BY <2>3, <4>1, <4>2
    <3> QED
      BY <2>4, <3>1 DEF FirstLeads
  <2> QED
    BY <2>3, <2>4, Zenon DEF FirstLeads
<1> HIDE DEF Quiet
<1>10. ASSUME NEW r \in Shard, NEW n \in Node, ReplicaStep(r, n) PROVE FirstLeads'
  BY <1>1, <1>5, <1>6, <1>7, <1>8, <1>9, <1>10, Zenon DEF ReplicaStep
<1> QED
  BY <1>1, <1>2, <1>3, <1>4, <1>10, Zenon DEF Next, Supervise, Deliver

\* What the leader finds when it classifies.
LEMMA ClassifyRelays ==
    ASSUME SteadyLeaders, TypeInv, Belongs, FirstLeads, NEW s \in Shard, Classify(s, 0)
    PROVE  /\ height[s][0] \in DOMAIN chain[s] /\ added[s][0]
           /\ relay' = relay \cup RelayMsgs(s, 0, chain[s][height[s][0]].body)
           /\ proposal' = [proposal EXCEPT ![s][0] = <<>>]
           /\ added' = [added EXCEPT ![s][0] = FALSE]
           /\ UNCHANGED <<TxQueue, chain, height>>
<1>0. /\ chain \in [Shard -> Seq(Block)]
      /\ height \in [Shard -> [Node -> Nat]]
      /\ 0 \in Node
  BY ZeroIsNode DEF TypeInv, TypeOK
<1>1. height[s][0] \in DOMAIN chain[s]
  BY <1>0 DEF TypeInv, Heights, Classify
<1>2. \A k \in DOMAIN chain[s][height[s][0]].body :
         ~IncorrectTx(s, 0, chain[s][height[s][0]].body[k])
  BY <1>0, <1>1, NeverIncorrect, Zenon DEF SteadyLeaders
<1>3. view[s][0] = 0
  BY <1>0 DEF FirstLeads
<1> QED
  BY <1>1, <1>2, <1>3, Zenon DEF Classify, Unlocked, poolVars

LEMMA InRoundInductive ==
    ASSUME SteadyLeaders, TypeInv, Proposed, Belongs, FirstLeads, InRound, [Next]_vars
    PROVE  InRound'
<1> SUFFICES ASSUME NEW s \in Shard PROVE Round(s)'
  BY DEF InRound
<1>0. /\ proposal \in [Shard -> [Node -> Seq(Block)]]
      /\ chain \in [Shard -> Seq(Block)]
      /\ height \in [Shard -> [Node -> Nat]]
      /\ added \in [Shard -> [Node -> BOOLEAN]]
      /\ TxQueue \in [Shard -> [Node -> Seq(Item)]]
      /\ 0 \in Node
  BY ZeroIsNode DEF TypeInv, TypeOK
<1>00. Round(s)
  BY DEF InRound
<1>1. CASE Calm(s)
  BY <1>00, <1>1 DEF Calm, Round, Idle, Open, Agreed, Stored
<1>2. CASE Propose(s, 0)
  <2>1. PICK fresh, rest :
             /\ PackedFrom(s, 0, fresh, rest)
             /\ proposal' = [proposal EXCEPT ![s][0] = <<NewBlock(s, 0, fresh)>>]
             /\ TxQueue' = [TxQueue EXCEPT ![s][0] = rest]
    BY <1>0, <1>2, ProposePacks, Zenon
  <2>2. PICK b : b = NewBlock(s, 0, fresh)
    OBVIOUS
  <2>3. b.parent = height[s][0]
    BY <2>2 DEF NewBlock
  <2>4. proposal[s][0] = <<>> /\ UNCHANGED <<chain, height, added>>
    BY <1>2 DEF Propose, nodeVars
  <2>5. Len(chain[s]) = height[s][0] /\ ~added[s][0]
    BY <1>00, <2>4 DEF Round, Idle
  <2>6. proposal'[s][0] = <<b>>
    BY <1>0, <2>1, <2>2
  <2>7. proposal'[s][0] # <<>> /\ proposal'[s][0][1] = b
    BY <2>6
  <2>8. Open(s, proposal[s][0][1])'
    BY <2>3, <2>4, <2>5, <2>7 DEF Open
  <2> QED
    BY <2>7, <2>8 DEF Round
<1>3. CASE Agree(s, 0)
  <2>1. PICK b : b = proposal[s][0][1]
    OBVIOUS
  <2>2. b \in Block
    BY <1>0, <1>3, <2>1, AgreedIsFresh, Zenon
  <2>3. /\ chain' = [chain EXCEPT ![s] = Append(@, b)] /\ proposal[s][0] # <<>>
        /\ b.parent = Len(chain[s])
        /\ UNCHANGED <<proposal, height, added>>
    BY <1>3, <2>1, Zenon DEF Agree, nodeVars
  <2>4. b.parent \in Nat /\ height[s][0] \in Nat /\ chain[s] \in Seq(Block)
    BY <1>0, <2>2 DEF Block
  <2>5. Open(s, b)
    BY <1>00, <2>1, <2>3, <2>4 DEF Round, Idle, Agreed, Stored
  <2>6. chain'[s] = Append(chain[s], b)
    BY <1>0, <2>3
  <2>7. Agreed(s, proposal[s][0][1])'
    <3>1. Len(chain'[s]) = height[s][0] + 1 /\ chain'[s][height[s][0] + 1] = b
      BY <2>2, <2>4, <2>5, <2>6 DEF Open
    <3> QED
      BY <2>1, <2>3, <2>5, <3>1 DEF Agreed, Open
  <2> QED
    BY <2>3, <2>7 DEF Round
<1>4. CASE Commit(s, 0)
  <2>1. /\ ~added[s][0] /\ height[s][0] < Len(chain[s])
        /\ height' = [height EXCEPT ![s][0] = @ + 1]
        /\ added' = [added EXCEPT ![s][0] = TRUE]
        /\ UNCHANGED <<supervisorVars, netVars, PartitionMap, proposal, chain, view, dead>>
    BY <1>4, Zenon DEF Commit, AddBlock
  <2>2. height[s][0] \in Nat /\ Len(chain[s]) \in Nat
    BY <1>0
  <2>3. proposal[s][0] # <<>> /\ Agreed(s, proposal[s][0][1])
    BY <1>00, <2>1, <2>2 DEF Round, Idle, Open, Stored
  <2>4. height'[s][0] = height[s][0] + 1 /\ added'[s][0] = TRUE
    BY <1>0, <2>1
  <2>5. Stored(s, proposal[s][0][1])'
    BY <2>1, <2>2, <2>3, <2>4 DEF Agreed, Stored
  <2> QED
    BY <2>1, <2>3, <2>5 DEF Round
<1>5. CASE Classify(s, 0)
  <2>1. /\ added[s][0]
        /\ proposal' = [proposal EXCEPT ![s][0] = <<>>]
        /\ added' = [added EXCEPT ![s][0] = FALSE]
        /\ UNCHANGED <<TxQueue, chain, height>>
    BY <1>5, ClassifyRelays, Zenon
  <2>2. Len(chain[s]) = height[s][0]
    BY <1>00, <2>1 DEF Round, Idle, Open, Agreed, Stored
  <2>3. proposal'[s][0] = <<>> /\ added'[s][0] = FALSE
    BY <1>0, <2>1
  <2>4. Idle(s)'
    BY <2>1, <2>2, <2>3 DEF Idle
  <2> QED
    BY <2>4 DEF Round
<1> QED
  BY <1>1, <1>2, <1>3, <1>4, <1>5, LeaderSteps, Zenon

LEMMA DestinationIsShard == \A t \in Tx : Destination(t) \in Shard
BY RelayAssumption DEF Destination

\* Every transaction of a block of its last shard is on that shard's chain.
LEMMA BlockOnChain ==
    ASSUME NEW t, NEW i \in DOMAIN chain[Destination(t)],
           NEW k \in DOMAIN chain[Destination(t)][i].body,
           chain[Destination(t)][i].body[k].tx = t
    PROVE  OnChain(t)
<1>1. chain[Destination(t)][i].body[k] \in ToSet(chain[Destination(t)][i].body)
  BY DEF ToSet
<1> QED
  BY <1>1, Zenon DEF OnChain, Entries

LEMMA IndexedOnChain ==
    ASSUME TypeInv, NEW s \in Shard, NEW n \in Node, NEW t, Destination(t) = s,
           HasTransaction(s, height[s][n], t)
    PROVE  OnChain(t)
<1>1. PICK i \in 1 .. height[s][n] : \E k \in DOMAIN chain[s][i].body :
                                        chain[s][i].body[k].tx = t
  BY Zenon DEF HasTransaction
<1>2. i \in DOMAIN chain[s]
  <2>1. chain[s] \in Seq(Block) /\ height[s][n] \in Nat /\ height[s][n] <= Len(chain[s])
    BY DEF TypeInv, TypeOK, Heights
  <2> QED
    BY <2>1
<1> QED
  BY <1>1, <1>2, BlockOnChain, Zenon

\* What is on a chain stays there.
LEMMA OnChainStays ==
    ASSUME TypeInv, TypeInv', Grows, NEW t \in Tx, OnChain(t)
    PROVE  OnChain(t)'
<1>1. PICK s \in Shard : s = Destination(t)
  BY DestinationIsShard
<1>2. /\ chain[s] \in Seq(Block) /\ chain'[s] \in Seq(Block)
      /\ Len(chain[s]) <= Len(chain'[s])
      /\ \A i \in 1 .. Len(chain[s]) : chain'[s][i] = chain[s][i]
  BY DEF TypeInv, TypeOK, Grows
<1>3. \A i \in DOMAIN chain[s] : i \in DOMAIN chain'[s] /\ chain'[s][i] = chain[s][i]
  BY <1>2
<1>4. PICK i \in DOMAIN chain[s] : \E e \in ToSet(chain[s][i].body) : e.tx = t
  BY <1>1, Zenon DEF OnChain, Entries
<1>5. i \in DOMAIN chain'[s] /\ \E e \in ToSet(chain'[s][i].body) : e.tx = t
  BY <1>3, <1>4, Zenon
<1>6. s = Destination(t)'
  BY <1>1 DEF Destination
<1> QED
  BY <1>5, <1>6, Zenon DEF OnChain, Entries

\* The three places where a replica may hold a transaction.
InRelay(s, n, t)    == \E m \in relay : /\ m.to = s /\ m.node = n
                                        /\ \E item \in ToSet(m.txs) : item.tx = t
InQueue(s, n, t)    == \E item \in ToSet(TxQueue[s][n]) : item.tx = t
InProposal(s, n, t) == \E b \in ToSet(proposal[s][n]) : \E e \in ToSet(b.body) : e.tx = t

LEMMA HoldsIs ==
    /\ \A s, n, t : Holds(s, n, t) <=> InRelay(s, n, t) \/ InQueue(s, n, t) \/ InProposal(s, n, t)
    /\ \A s, n, t : Holds(s, n, t)' <=> InRelay(s, n, t)' \/ InQueue(s, n, t)' \/ InProposal(s, n, t)'
BY Zenon DEF Holds, InRelay, InQueue, InProposal

\* Nothing that keeps the messages, the pool and the proposals loses it.
LEMMA HoldsFrame ==
    ASSUME NEW s, NEW n, NEW t
    PROVE  /\ relay \subseteq relay' => (InRelay(s, n, t) => InRelay(s, n, t)')
           /\ ToSet(TxQueue[s][n]) \subseteq ToSet(TxQueue'[s][n]) =>
                 (InQueue(s, n, t) => InQueue(s, n, t)')
           /\ proposal'[s][n] = proposal[s][n] => (InProposal(s, n, t) => InProposal(s, n, t)')
<1>1. relay \subseteq relay' => (InRelay(s, n, t) => InRelay(s, n, t)')
  BY Zenon DEF InRelay
<1>2. ToSet(TxQueue[s][n]) \subseteq ToSet(TxQueue'[s][n]) =>
         (InQueue(s, n, t) => InQueue(s, n, t)')
  BY Zenon DEF InQueue
<1>3. proposal'[s][n] = proposal[s][n] => (InProposal(s, n, t) => InProposal(s, n, t)')
  BY Zenon DEF InProposal
<1> QED
  BY <1>1, <1>2, <1>3

\* Delivery moves a transaction to the pool.
LEMMA DeliverHolds ==
    ASSUME TypeInv, NEW s \in Shard, NEW n \in Node, NEW t, Holds(s, n, t),
           (\E m \in relay : handleRelay(m)) \/ (\E m \in inject : handleInjectTx(m))
    PROVE  Holds(s, n, t)'
<1>0. TxQueue \in [Shard -> [Node -> Seq(Item)]]
  BY DEF TypeInv, TypeOK
<1>1. ASSUME NEW r \in Shard, NEW m \in Node, NEW txs \in Seq(Item),
             TxQueue' = [TxQueue EXCEPT ![r][m] = @ \o txs]
      PROVE  /\ ToSet(TxQueue[s][n]) \subseteq ToSet(TxQueue'[s][n])
             /\ ToSet(txs) \subseteq ToSet(TxQueue'[r][m])
  <2>1. TxQueue'[r][m] = TxQueue[r][m] \o txs /\ TxQueue[r][m] \in Seq(Item)
    BY <1>0, <1>1
  <2>2. ToSet(TxQueue'[r][m]) = ToSet(TxQueue[r][m]) \cup ToSet(txs)
    BY <2>1, ItemsOf
  <2>3. CASE r = s /\ m = n
    BY <2>2, <2>3
  <2>4. CASE ~(r = s /\ m = n)
    <3>1. TxQueue'[s][n] = TxQueue[s][n]
      BY <1>0, <1>1, <2>4
    <3> QED
      BY <2>2, <3>1
  <2> QED
    BY <2>3, <2>4
<1>2. CASE \E m \in inject : handleInjectTx(m)
  <2>1. PICK m \in inject : handleInjectTx(m)
    BY <1>2
  <2>2. m.shard \in Shard /\ m.node \in Node /\ m.first \in Tx /\ m.last \in Tx
    BY DEF TypeInv, TypeOK
  <2>3. Chunk(m.first, m.last, m.shard) \in Seq(Item)
    BY <2>2, ChunkIs
  <2>4. /\ TxQueue' = [TxQueue EXCEPT ![m.shard][m.node] = @ \o Chunk(m.first, m.last, m.shard)]
        /\ UNCHANGED <<relay, proposal>>
    BY <2>1, Zenon DEF handleInjectTx
  <2>5. ToSet(TxQueue[s][n]) \subseteq ToSet(TxQueue'[s][n])
    BY <1>1, <2>2, <2>3, <2>4, Zenon
  <2>6. relay \subseteq relay' /\ proposal'[s][n] = proposal[s][n]
    BY <2>4
  <2> QED
    BY <2>5, <2>6, HoldsFrame, HoldsIs, Zenon
<1>3. CASE \E m \in relay : handleRelay(m)
  <2>1. PICK m \in relay : handleRelay(m)
    BY <1>3
  <2>2. m.to \in Shard /\ m.node \in Node /\ m.txs \in Seq(Item)
    BY DEF TypeInv, TypeOK
  <2>3. /\ TxQueue' = [TxQueue EXCEPT ![m.to][m.node] = @ \o m.txs]
        /\ relay' = relay \ {m}
        /\ UNCHANGED proposal
    BY <2>1, Zenon DEF handleRelay
  <2>4. /\ ToSet(TxQueue[s][n]) \subseteq ToSet(TxQueue'[s][n])
        /\ ToSet(m.txs) \subseteq ToSet(TxQueue'[m.to][m.node])
    BY <1>1, <2>2, <2>3, Zenon
  <2>5. proposal'[s][n] = proposal[s][n]
    BY <2>3
  <2>6. ASSUME InRelay(s, n, t) PROVE InRelay(s, n, t)' \/ InQueue(s, n, t)'
    <3>1. PICK q \in relay : /\ q.to = s /\ q.node = n
                             /\ \E item \in ToSet(q.txs) : item.tx = t
      BY <2>6, Zenon DEF InRelay
    <3>2. CASE q = m
      BY <2>4, <3>1, <3>2, Zenon DEF InQueue
    <3>3. CASE q # m
      <4>1. q \in relay'
        BY <2>3, <3>3
      <4> QED
        BY <3>1, <4>1, Zenon DEF InRelay
    <3> QED
      BY <3>2, <3>3
  <2> QED
    BY <2>4, <2>5, <2>6, HoldsFrame, HoldsIs, Zenon
<1> QED
  BY <1>2, <1>3

\* Packing moves a transaction to the proposal, or finds it on the chain.
LEMMA ProposeHolds ==
    ASSUME TypeInv, NEW r \in Shard, NEW m \in Node, Propose(r, m),
           NEW t, Destination(t) \in Shard, NEW n \in Node, Holds(Destination(t), n, t)
    PROVE  OnChain(t) \/ Holds(Destination(t), n, t)'
<1> DEFINE s == Destination(t)
<1>0. /\ TxQueue \in [Shard -> [Node -> Seq(Item)]]
      /\ proposal \in [Shard -> [Node -> Seq(Block)]]
      /\ height \in [Shard -> [Node -> Nat]]
  BY DEF TypeInv, TypeOK
<1>1. PICK fresh, rest :
           /\ PackedFrom(r, m, fresh, rest)
           /\ proposal' = [proposal EXCEPT ![r][m] = <<NewBlock(r, m, fresh)>>]
           /\ TxQueue' = [TxQueue EXCEPT ![r][m] = rest]
  BY ProposePacks, Zenon
<1>2. relay \subseteq relay' /\ proposal[r][m] = <<>>
  BY DEF Propose, netVars
<1>3. CASE ~(r = s /\ m = n)
  <2>1. TxQueue'[s][n] = TxQueue[s][n] /\ proposal'[s][n] = proposal[s][n]
    BY <1>0, <1>1, <1>3
  <2>2. ToSet(TxQueue[s][n]) \subseteq ToSet(TxQueue'[s][n])
    BY <2>1
  <2>3. Holds(s, n, t)'
    BY <1>2, <2>1, <2>2, HoldsFrame, HoldsIs, Zenon DEF Destination
  <2> QED
    BY <2>3
<1>4. CASE r = s /\ m = n
  <2>1. PICK b : b = NewBlock(r, m, fresh)
    OBVIOUS
  <2>2. proposal'[r][m] = <<b>> /\ TxQueue'[r][m] = rest
    BY <1>0, <1>1, <2>1
  <2>3. fresh \in Seq(Item)
    BY <1>1 DEF PackedFrom
  <2>4. Executed(r, Places(r, m), fresh, b.body)
    BY <2>1, <2>3, NewBlockIs, Zenon
  <2>5. ASSUME NEW y \in ToSet(fresh), y.tx = t PROVE InProposal(r, m, t)'
    <3>1. PICK k \in DOMAIN fresh : y = fresh[k]
      BY DEF ToSet
    <3>2. k \in DOMAIN b.body /\ b.body[k].tx = t
      BY <2>3, <2>4, <2>5, <3>1 DEF Executed
    <3>3. b.body[k] \in ToSet(b.body)
      BY <3>2 DEF ToSet
    <3>4. b \in ToSet(proposal'[r][m])
      BY <2>2 DEF ToSet
    <3> QED
      BY <3>2, <3>3, <3>4, Zenon DEF InProposal
  <2>6. ~InProposal(r, m, t)
    <3>1. ToSet(<<>>) = {}
      BY DEF ToSet
    <3> QED
      BY <1>2, <3>1 DEF InProposal
  <2>7. ASSUME InQueue(r, m, t) PROVE OnChain(t) \/ InQueue(r, m, t)' \/ InProposal(r, m, t)'
    <3>1. PICK x \in ToSet(TxQueue[r][m]) : x.tx = t
      BY <2>7 DEF InQueue
    <3>2. \/ x \in ToSet(rest)
          \/ HasTransaction(r, height[r][m], t)
          \/ \E y \in ToSet(fresh) : y.tx = t
      BY <1>1, <3>1, Zenon DEF PackedFrom
    <3>3. CASE x \in ToSet(rest)
      BY <2>2, <3>1, <3>3 DEF InQueue
    <3>4. CASE HasTransaction(r, height[r][m], t)
      BY <1>4, <3>4, IndexedOnChain
    <3>5. CASE \E y \in ToSet(fresh) : y.tx = t
      BY <2>5, <3>5
    <3> QED
      BY <3>2, <3>3, <3>4, <3>5
  <2>8. InRelay(r, m, t) => InRelay(r, m, t)'
    BY <1>2, HoldsFrame, Zenon
  <2>9. OnChain(t) \/ Holds(r, m, t)'
    BY <1>4, <2>6, <2>7, <2>8, HoldsIs, Zenon
  <2> QED
    BY <1>4, <2>9, Zenon DEF Destination
<1> QED
  BY <1>3, <1>4

\* Storing a block takes only what the block has out of the pool.
LEMMA AddHolds ==
    ASSUME TypeInv, NEW r \in Shard, NEW m \in Node, AddBlock(r, m),
           NEW t, Destination(t) \in Shard, NEW n \in Node, Holds(Destination(t), n, t)
    PROVE  OnChain(t) \/ Holds(Destination(t), n, t)'
<1>1. PICK s \in Shard : s = Destination(t)
  OBVIOUS
<1>0. /\ TxQueue \in [Shard -> [Node -> Seq(Item)]]
      /\ chain \in [Shard -> Seq(Block)]
      /\ height \in [Shard -> [Node -> Nat]]
  BY DEF TypeInv, TypeOK
<1>2. PICK body : body = chain[r][height[r][m] + 1].body
  OBVIOUS
<1>3. /\ TxQueue' = [TxQueue EXCEPT ![r][m] = RemoveTxs(@, body)]
      /\ height[r][m] < Len(chain[r])
      /\ UNCHANGED <<supervisorVars, netVars, PartitionMap, proposal, chain, view, dead>>
  BY <1>2, Zenon DEF AddBlock
<1>4. relay \subseteq relay' /\ proposal'[s][n] = proposal[s][n]
  BY <1>3 DEF netVars
<1>5. InQueue(s, n, t) => OnChain(t) \/ InQueue(s, n, t)'
  <2>1. CASE ~(r = s /\ m = n)
    <3>1. TxQueue'[s][n] = TxQueue[s][n]
      BY <1>0, <1>3, <2>1
    <3> QED
      BY <3>1 DEF InQueue
  <2>2. CASE r = s /\ m = n
    <3>1. TxQueue'[s][n] = RemoveTxs(TxQueue[s][n], body) /\ TxQueue[s][n] \in Seq(Item)
      BY <1>0, <1>3, <2>2
    <3>2. \A x \in ToSet(TxQueue[s][n]) :
             x \in ToSet(TxQueue'[s][n]) \/ \E k \in DOMAIN body : body[k].tx = x.tx
      BY <3>1, RemoveKeeps
    <3>3. height[r][m] + 1 \in DOMAIN chain[r]
      BY <1>0, <1>3
    <3>4. ASSUME NEW k \in DOMAIN body, body[k].tx = t PROVE OnChain(t)
      BY <1>1, <1>2, <2>2, <3>3, <3>4, BlockOnChain, Zenon
    <3> QED
      BY <3>2, <3>4, Zenon DEF InQueue
  <2> QED
    BY <2>1, <2>2
<1>6. OnChain(t) \/ Holds(s, n, t)'
  BY <1>1, <1>4, <1>5, HoldsFrame, HoldsIs, Zenon
<1> QED
  BY <1>1, <1>6, Zenon DEF Destination

\* The leader gives up a proposal that is on its chain.
LEMMA ClassifyHolds ==
    ASSUME SteadyLeaders, TypeInv, Proposed, Belongs, FirstLeads, InRound,
           NEW r \in Shard, NEW m \in Node, Classify(r, m),
           NEW t, Destination(t) \in Shard, NEW n \in Node, Holds(Destination(t), n, t)
    PROVE  OnChain(t) \/ Holds(Destination(t), n, t)'
<1>1. PICK s \in Shard : s = Destination(t)
  OBVIOUS
<1>0. /\ proposal \in [Shard -> [Node -> Seq(Block)]]
      /\ chain \in [Shard -> Seq(Block)]
      /\ 0 \in Node
  BY ZeroIsNode DEF TypeInv, TypeOK
<1>2. /\ relay \subseteq relay'
      /\ UNCHANGED poolVars
      /\ proposal' = proposal \/ proposal' = [proposal EXCEPT ![r][m] = <<>>]
  BY Zenon DEF Classify, Unlocked
<1>3. ToSet(TxQueue[s][n]) \subseteq ToSet(TxQueue'[s][n])
  BY <1>2 DEF poolVars
<1>4. InProposal(s, n, t) => OnChain(t) \/ InProposal(s, n, t)'
  <2>1. CASE proposal'[s][n] = proposal[s][n]
    BY <2>1, HoldsFrame, Zenon
  <2>2. CASE proposal'[s][n] # proposal[s][n]
    <3>1. r = s /\ m = n /\ proposal[s][n] # <<>>
      <4>1. proposal' = [proposal EXCEPT ![r][m] = <<>>]
        BY <1>2, <2>2
      <4> QED
        BY <1>0, <2>2, <4>1
    <3>2. n = 0
      BY <3>1 DEF FirstLeads
    <3>3. height[s][0] \in DOMAIN chain[s] /\ added[s][0]
      BY <3>1, <3>2, ClassifyRelays, Zenon
    <3>4. chain[s][height[s][0]] = proposal[s][0][1]
      BY <3>1, <3>2, <3>3 DEF InRound, Round, Idle, Open, Agreed, Stored
    <3>5. Len(proposal[s][0]) = 1 /\ proposal[s][0] \in Seq(Block)
      BY <1>0, <3>1, <3>2 DEF Proposed
    <3>6. ToSet(proposal[s][0]) = {proposal[s][0][1]}
      BY <3>5 DEF ToSet
    <3>7. ASSUME NEW b \in ToSet(proposal[s][0]), NEW e \in ToSet(b.body), e.tx = t
          PROVE  OnChain(t)
      <4>1. b = chain[s][height[s][0]]
        BY <3>4, <3>6
      <4>2. PICK k \in DOMAIN b.body : e = b.body[k]
        BY DEF ToSet
      <4> QED
        BY <1>1, <3>3, <3>7, <4>1, <4>2, BlockOnChain, Zenon
    <3> QED
      BY <3>2, <3>7, Zenon DEF InProposal
  <2> QED
    BY <2>1, <2>2
<1>5. OnChain(t) \/ Holds(s, n, t)'
  BY <1>1, <1>2, <1>3, <1>4, HoldsFrame, HoldsIs, Zenon
<1> QED
  BY <1>1, <1>5, Zenon DEF Destination

LEMMA ArrivesStays ==
    ASSUME SteadyLeaders, TypeInv, Proposed, Belongs, FirstLeads, InRound, [Next]_vars,
           NEW t \in Tx, Arrives(t)
    PROVE  Arrives(t)'
<1>0. TypeInv' /\ Grows /\ Destination(t) \in Shard
  BY TypesStay, StepsGrow, DestinationIsShard
<1>1. OnChain(t) => OnChain(t)'
  BY <1>0, OnChainStays
<1>2. ASSUME NEW n \in Node, Holds(Destination(t), n, t)
      PROVE  OnChain(t) \/ Holds(Destination(t), n, t)'
  <2> DEFINE Quiet == UNCHANGED <<relay, TxQueue, proposal>>
             Good == OnChain(t) \/ Holds(Destination(t), n, t)'
  <2>1. ASSUME Quiet PROVE Good
    BY <1>2, <2>1, Zenon DEF Holds, Destination
  <2>2. ASSUME NEW m, handleBlockInfos(m) PROVE Quiet
    BY <2>2 DEF handleBlockInfos, poolVars
  <2>3. ASSUME txSending \/ SendStop \/ UNCHANGED vars PROVE Quiet
    BY <2>3 DEF txSending, SendStop, vars, netVars, poolVars
  <2>4. ASSUME NEW r \in Shard, NEW m \in Node, Agree(r, m) \/ NewView(r, m) PROVE Quiet
    BY <2>4 DEF Agree, NewView, netVars, poolVars
  <2>5. ASSUME Deliver PROVE Good
    <3>1. PICK s \in Shard : s = Destination(t)
      BY <1>0
    <3>2. Holds(s, n, t)'
      BY <1>2, <2>5, <3>1, DeliverHolds, Zenon DEF Deliver
    <3> QED
      BY <3>1, <3>2, Zenon DEF Destination
  <2>6. ASSUME NEW r \in Shard, NEW m \in Node, Propose(r, m) PROVE Good
    BY <1>0, <1>2, <2>6, ProposeHolds, Zenon
  <2>7. ASSUME NEW r \in Shard, NEW m \in Node, AddBlock(r, m) PROVE Good
    BY <1>0, <1>2, <2>7, AddHolds, Zenon
  <2>8. ASSUME NEW r \in Shard, NEW m \in Node, Classify(r, m) PROVE Good
    BY <1>0, <1>2, <2>8, ClassifyHolds, Zenon
  <2> HIDE DEF Quiet, Good
  <2>9. ASSUME NEW r \in Shard, NEW m \in Node, ReplicaStep(r, m) PROVE Good
    BY <2>1, <2>4, <2>6, <2>7, <2>8, <2>9, Zenon DEF ReplicaStep, Commit, Recover
  <2>10. Good
    BY <2>1, <2>2, <2>3, <2>5, <2>9, Zenon DEF Next, Supervise
  <2> QED
    BY <2>10 DEF Good
<1> QED
  BY <1>1, <1>2, Zenon DEF Arrives

\* A block that the leader has passed was passed before, or is the one that it
\* classifies now.
LEMMA NewlyPassed ==
    ASSUME SteadyLeaders, TypeInv, FirstLeads, [Next]_vars, NEW s \in Shard,
           NEW i \in DOMAIN chain'[s], Passed(s, i)'
    PROVE  /\ i \in DOMAIN chain[s] /\ chain'[s][i] = chain[s][i]
           /\ Passed(s, i) \/ (Classify(s, 0) /\ i = height[s][0])
<1>0. /\ chain \in [Shard -> Seq(Block)]
      /\ height \in [Shard -> [Node -> Nat]]
      /\ added \in [Shard -> [Node -> BOOLEAN]]
      /\ 0 \in Node /\ Grows /\ TypeInv'
  BY ZeroIsNode, StepsGrow, TypesStay DEF TypeInv, TypeOK
<1>1. i \in Nat /\ i >= 1 /\ height'[s][0] \in Nat
  BY <1>0 DEF TypeInv, TypeOK
<1>2. height[s][0] \in Nat /\ Len(chain[s]) \in Nat /\ height[s][0] <= Len(chain[s])
  BY <1>0 DEF TypeInv, Heights
<1>3. i <= height[s][0] /\ (Passed(s, i) \/ (Classify(s, 0) /\ i = height[s][0]))
  <2>1. CASE Calm(s)
    BY <1>1, <1>2, <2>1 DEF Calm, Passed
  <2>2. CASE Propose(s, 0) \/ Agree(s, 0)
    <3>1. UNCHANGED <<height, added>>
      BY <2>2 DEF Propose, Agree, nodeVars
    <3> QED
      BY <1>1, <1>2, <3>1 DEF Passed
  <2>3. CASE Commit(s, 0)
    <3>1. /\ ~added[s][0] /\ height' = [height EXCEPT ![s][0] = @ + 1]
          /\ added' = [added EXCEPT ![s][0] = TRUE]
      BY <2>3, Zenon DEF Commit, AddBlock
    <3>2. height'[s][0] = height[s][0] + 1 /\ added'[s][0] = TRUE
      BY <1>0, <3>1
    <3> QED
      BY <1>1, <1>2, <3>1, <3>2 DEF Passed
  <2>4. CASE Classify(s, 0)
    <3>1. UNCHANGED height
      BY <2>4, Zenon DEF Classify
    <3> QED
      BY <1>1, <1>2, <2>4, <3>1 DEF Passed
  <2> QED
    BY <2>1, <2>2, <2>3, <2>4, LeaderSteps, Zenon
<1>4. i \in 1 .. Len(chain[s])
  BY <1>1, <1>2, <1>3
<1>5. DOMAIN chain[s] = 1 .. Len(chain[s]) /\ \A j \in 1 .. Len(chain[s]) : chain'[s][j] = chain[s][j]
  BY <1>0 DEF Grows
<1> QED
  BY <1>3, <1>4, <1>5, Zenon

\* The leader sends what ends in another shard to all replicas there.
LEMMA ClassifiedArrives ==
    ASSUME SteadyLeaders, TypeInv, Belongs, FirstLeads, NEW s \in Shard, Classify(s, 0),
           NEW k \in DOMAIN chain[s][height[s][0]].body, NEW t \in Tx,
           t = chain[s][height[s][0]].body[k].tx, Destination(t) # s
    PROVE  Arrives(t)'
<1>0. /\ chain \in [Shard -> Seq(Block)]
      /\ height \in [Shard -> [Node -> Nat]]
      /\ 0 \in Node /\ Destination(t) \in Shard
  BY ZeroIsNode, DestinationIsShard DEF TypeInv, TypeOK
<1>1. PICK body : body = chain[s][height[s][0]].body
  OBVIOUS
<1>2. PICK d \in Shard \ {s} : d = Destination(t)
  BY <1>0
<1>3. height[s][0] \in DOMAIN chain[s] /\ relay' = relay \cup RelayMsgs(s, 0, body)
  BY <1>1, ClassifyRelays, Zenon
<1>4. chain[s][height[s][0]] \in Block
  BY <1>0, <1>3
<1>5. body \in Seq(Entry)
  BY <1>1, <1>4 DEF Block
<1>6. Get_PartitionMap(s, 0, Recipient[t]) = d
  <2>1. HashedMaps /\ Knows(s, 0, t)
    BY DEF Belongs, Knows, SteadyLeaders
  <2> QED
    BY <1>0, <1>2, <2>1, FindsPlaced, Zenon
<1>7. \E x \in ToSet(RelayPool(s, 0, body, d)) : x.tx = t
  <2>1. k \in DOMAIN body /\ body[k].tx = t
    BY <1>1
  <2>2. Pools(s, 0, body, d, t)
    BY <1>5, <1>6, <2>1, RelayPoolHas, Zenon
  <2> QED
    BY <2>2 DEF Pools
<1>8. RelayPool(s, 0, body, d) # <<>>
  <2>1. ToSet(<<>>) = {}
    BY DEF ToSet
  <2> QED
    BY <1>7, <2>1
<1>9. ASSUME NEW n \in Node PROVE Holds(d, n, t)'
  <2> DEFINE m == [from |-> s, height |-> height[s][0], by |-> 0, to |-> d, node |-> n,
                   txs |-> RelayPool(s, 0, body, d)]
  <2>1. m \in RelayMsgs(s, 0, body)
    BY <1>8 DEF RelayMsgs
  <2>2. m \in relay' /\ m.to = d /\ m.node = n /\ m.txs = RelayPool(s, 0, body, d)
    BY <1>3, <2>1
  <2>3. PICK q : q = m
    OBVIOUS
  <2>4. q \in relay' /\ q.to = d /\ q.node = n /\ \E x \in ToSet(q.txs) : x.tx = t
    BY <1>7, <2>2, <2>3, Zenon
  <2> QED
    BY <2>4, Zenon DEF Holds
<1> QED
  BY <1>2, <1>9, Zenon DEF Arrives, Destination

LEMMA RelayedInductive ==
    ASSUME SteadyLeaders, TypeInv, Proposed, Belongs, FirstLeads, InRound, RelayedArrive,
           [Next]_vars
    PROVE  RelayedArrive'
<1> SUFFICES ASSUME NEW s \in Shard, NEW i \in DOMAIN chain'[s],
                    NEW k \in DOMAIN chain'[s][i].body, Passed(s, i)',
                    Destination(chain[s][i].body[k].tx)' # s
             PROVE  Arrives(chain[s][i].body[k].tx)'
  BY Zenon DEF RelayedArrive
<1>1. PICK t : t = chain'[s][i].body[k].tx
  OBVIOUS
<1>2. /\ i \in DOMAIN chain[s] /\ chain'[s][i] = chain[s][i]
      /\ Passed(s, i) \/ (Classify(s, 0) /\ i = height[s][0])
  BY NewlyPassed
<1>3. Destination(t) # s /\ t = chain[s][i].body[k].tx /\ k \in DOMAIN chain[s][i].body
  BY <1>1, <1>2, Zenon DEF Destination
<1>4. t \in Tx
  <2>1. chain[s][i] \in Block
    BY <1>2 DEF TypeInv, TypeOK
  <2>2. chain[s][i].body \in Seq(Entry)
    BY <2>1 DEF Block
  <2>3. chain[s][i].body[k] \in Entry
    BY <1>3, <2>2
  <2> QED
    BY <1>3, <2>3 DEF Entry
<1>5. CASE Passed(s, i)
  <2>1. Arrives(t)
    BY <1>2, <1>3, <1>5, Zenon DEF RelayedArrive
  <2>2. Arrives(t)'
    BY <1>4, <2>1, ArrivesStays
  <2> QED
    BY <1>1, <2>2, Zenon
<1>6. CASE Classify(s, 0) /\ i = height[s][0]
  <2>1. Arrives(t)'
    BY <1>3, <1>4, <1>6, ClassifiedArrives
  <2> QED
    BY <1>1, <2>1, Zenon
<1> QED
  BY <1>2, <1>5, <1>6

LEMMA InitRelays == Init => FirstLeads /\ InRound /\ RelayedArrive
<1> SUFFICES ASSUME Init PROVE FirstLeads /\ InRound /\ RelayedArrive
  OBVIOUS
<1>1. FirstLeads
  BY DEF Init, FirstLeads
<1>2. InRound
  BY ZeroIsNode DEF Init, InRound, Round, Idle
<1>3. RelayedArrive
  BY DEF Init, RelayedArrive
<1> QED
  BY <1>1, <1>2, <1>3

\* While the first leaders stay and accounts are placed by their hash, no
\* transaction is lost between two shards: from the moment that every replica of
\* the source shard is done with its block until it is on the chain of the other
\* shard, every replica there has it or has a message with it on its way, for any
\* number of shards, replicas and transactions, any block size, and any delay of
\* messages (HandleinCommit, RelayMsgSend, RemoveTxs, filterFreshTransactions).
THEOREM RelaysAreNotLost ==
    ~UseSpring /\ (\A s \in Shard : MaxView[s] = 0) => (Spec => []RelayNotLost)
<1> SUFFICES ASSUME SteadyLeaders PROVE Spec => []RelayNotLost
  BY DEF SteadyLeaders
<1> DEFINE Inv == FirstLeads /\ InRound /\ RelayedArrive
<1>1. TypeInv /\ Proposed /\ Belongs /\ Inv /\ [Next]_vars => Inv'
  BY FirstLeadsInductive, InRoundInductive, RelayedInductive
<1>2. ASSUME TypeInv, Inv PROVE RelayNotLost
  <2> SUFFICES ASSUME NEW s \in Shard, NEW i \in DOMAIN chain[s],
                      NEW e \in ToSet(chain[s][i].body), Destination(e.tx) # s,
                      ~ToBeRelayed(s, i)
               PROVE  OnChain(e.tx) \/ \A n \in Node : Holds(Destination(e.tx), n, e.tx)
    BY Zenon DEF RelayNotLost
  <2>1. PICK k \in DOMAIN chain[s][i].body : e = chain[s][i].body[k]
    BY DEF ToSet
  <2>2. height[s][0] \in Nat /\ i \in Nat /\ 0 \in Node
    BY <1>2, ZeroIsNode DEF TypeInv, TypeOK
  <2>3. ~(height[s][0] < i) /\ ~(height[s][0] = i /\ added[s][0])
    BY <1>2, <2>2, Zenon DEF ToBeRelayed, FirstLeads
  <2>4. Passed(s, i)
    BY <2>2, <2>3 DEF Passed
  <2>5. Arrives(e.tx)
    BY <1>2, <2>1, <2>4, Zenon DEF RelayedArrive
  <2> QED
    BY <2>5 DEF Arrives
<1> QED
  BY <1>1, <1>2, InitRelays, LedgerInvariant, PTL DEF Spec

=============================================================================
