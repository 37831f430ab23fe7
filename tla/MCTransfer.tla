----------------------------- MODULE MCTransfer -----------------------------
(* Instances of AccountTransfer for TLC: two shards, an account alone in     *)
(* the first, two in the second, and a data file that goes inside the second *)
(* shard, twice across, and inside again.                                    *)
EXTENDS AccountTransfer

MCAccount    == {"a", "b", "c"}
MCSender     == [t \in Tx |-> <<"c", "a", "a", "c">>[t]]
MCRecipient  == [t \in Tx |-> "b"]
MCValue      == [t \in Tx |-> 2]
MCAddr2Shard == [x \in Account |-> IF x = "a" THEN 0 ELSE 1]

\* The supervisor handles a report before the next one comes; at most two
\* injections are on their way; the second partition begins when the
\* relays are in, and ends the run of blocks.
Load ==
    /\ Cardinality(info) <= 1
    /\ Cardinality(inject) <= 2
    /\ clpaCnt = 2 => relay = {}

=============================================================================
