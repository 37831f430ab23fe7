------------------------------ MODULE MCRelay ------------------------------
(* Small instances of RelayShards: two shards, two accounts, and the data     *)
(* files "one transfer across" and "one transfer each way".                   *)
EXTENDS RelayShards

MCAccount   == {"a", "b"}
MCSender    == [t \in Tx |-> IF t % 2 = 1 THEN "a" ELSE "b"]
MCRecipient == [t \in Tx |-> IF t % 2 = 1 THEN "b" ELSE "a"]
MCValue     == [t \in Tx |-> 2]
MCAddr2Shard == [x \in Account |-> IF x = "a" THEN 0 ELSE 1]
\* Both accounts on the first shard by hash.
MCSameHash   == [x \in Account |-> 0]

\* Bounds of view changes or empty blocks: none, one in the first shard.
MCNone  == [s \in Shard |-> 0]
MCFirst == [s \in Shard |-> IF s = 0 THEN 1 ELSE 0]

\* Either one transfer and view changes, or both transfers, of which the second
\* is sent when the first has arrived.
MCTwoOrView ==
    \/ nowDataNum <= 1
    \/ /\ \A s \in Shard, n \in Node : view[s][n] = 0
       /\ \A m \in inject : m.first = 2

=============================================================================
