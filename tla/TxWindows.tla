------------------------------ MODULE TxWindows ------------------------------
(* Windows of transactions read from a chain file and, for IoT data, from a   *)
(* companion file with one row of scene data for each transaction             *)
(* (offline_env.py, iot_v2.py).                                               *)
EXTENDS OfflineEnv

\* A row of the chain file that parse_tx_row or check_chain_row may refuse, a
\* row of the companion file, and a dataset: both files, the companion's
\* global index of the first row.
ChainRow == [valid : BOOLEAN, sender : Address, recipient : Address]
SceneRow == [tx_index : Nat, from : Address, to : Address, anchors : SUBSET Address]
Dataset  == [chain : Seq(ChainRow), scene : Seq(SceneRow), offset : Nat]

\* A window that is full needs no more rows; 0 stands for the rest of the file.
Full(max_txs, out) == max_txs > 0 /\ Len(out) >= max_txs

\* The result of reading: the transactions, or an exception.
Loaded(out) == [ok |-> TRUE, txs |-> out]
Refused == [ok |-> FALSE, txs |-> <<>>]

\* The transaction of a chain row.
ChainTx(row) == [sender |-> row.sender, recipient |-> row.recipient, anchors |-> {}]

\* The loop of load_transactions, at row k: start_tx counts the rows that parse.
ReadRow(data, start_tx, max_txs, acc, k) ==
    IF ~data.chain[k].valid \/ Full(max_txs, acc.out) THEN acc
    ELSE [index |-> acc.index + 1,
          out |-> IF acc.index < start_tx THEN acc.out
                  ELSE Append(acc.out, ChainTx(data.chain[k]))]

\* load_transactions
load_transactions(data, start_tx, max_txs) ==
    LET after[k \in 0 .. Len(data.chain)] ==
            IF k = 0 THEN [index |-> 0, out |-> <<>>]
            ELSE ReadRow(data, start_tx, max_txs, after[k - 1], k)
    IN Loaded(after[Len(data.chain)].out)

\* iot_state_object_key, iot_anchor_key, iot_related_anchors: the state object
\* is the sender of the older IoT transactions, its device the recipient.
StateObjectTx(row) == [sender |-> row.to, recipient |-> row.from,
                       anchors |-> row.anchors \cup {row.from}]

\* Wrong variant of ReadBoth: a chain row that does not parse uses up a row of
\* the companion file.
ReadBothEveryRow(data, start_tx, max_txs, acc, k) ==
    IF ~acc.ok \/ Full(max_txs, acc.out) \/ ~data.chain[k].valid THEN acc
    ELSE IF k > Len(data.scene) THEN [acc EXCEPT !.ok = FALSE]
    ELSE [ok |-> TRUE, index |-> acc.index + 1,
          out |-> IF acc.index < start_tx THEN acc.out
                  ELSE Append(acc.out, StateObjectTx(data.scene[k]))]

\* The loop of load_iot_transactions, at row k: the files are read together, a
\* row of the companion for each chain row that parses, and the indices must
\* agree.
ReadBoth(data, start_tx, max_txs, acc, k) ==
    IF ~acc.ok \/ Full(max_txs, acc.out) \/ ~data.chain[k].valid THEN acc
    ELSE IF \/ acc.index + 1 > Len(data.scene)
            \/ data.scene[acc.index + 1].tx_index # acc.index
    THEN [acc EXCEPT !.ok = FALSE]
    ELSE [ok |-> TRUE, index |-> acc.index + 1,
          out |-> IF acc.index < start_tx THEN acc.out
                  ELSE Append(acc.out, StateObjectTx(data.scene[acc.index + 1]))]

\* load_iot_transactions, older identity.
load_iot(data, start_tx, max_txs) ==
    LET after[k \in 0 .. Len(data.chain)] ==
            IF k = 0 THEN [ok |-> TRUE, index |-> 0, out |-> <<>>]
            ELSE ReadBoth(data, start_tx, max_txs, after[k - 1], k)
        result == after[Len(data.chain)]
    IN IF result.ok THEN Loaded(result.out) ELSE Refused

\* load_rows: physical row k of both files, up to the end of the window; both
\* addresses and the global index must agree, and a pass over the whole file
\* leaves no row of the companion.
load_rows(data, start_tx, max_txs) ==
    LET n    == Len(data.chain)
        last == IF max_txs > 0 /\ start_tx + max_txs <= n THEN start_tx + max_txs ELSE n
        Aligned(k) ==
            /\ data.chain[k].valid
            /\ k <= Len(data.scene)
            /\ data.scene[k].tx_index = data.offset + k - 1
            /\ data.scene[k].from = data.chain[k].sender
            /\ data.scene[k].to = data.chain[k].recipient
        complete == max_txs > 0 /\ start_tx + max_txs <= n
    IN IF /\ \A k \in 1 .. last : Aligned(k)
          /\ complete \/ (max_txs = 0 /\ Len(data.scene) <= n)
       THEN Loaded([k \in 1 .. (IF last > start_tx THEN last - start_tx ELSE 0) |->
                       ChainTx(data.chain[start_tx + k])])
       ELSE Refused

\* load_training_transactions, load_validation_transactions and
\* load_eval_transactions; an empty window and an incomplete one are refused
\* (require_exact_window).
LoadWindow(identity, data, start_tx, max_txs) ==
    LET result == CASE identity = "raw"    -> load_transactions(data, start_tx, max_txs)
                    [] identity = "iot"    -> load_iot(data, start_tx, max_txs)
                    [] identity = "iot_v2" -> load_rows(data, start_tx, max_txs)
    IN IF \/ result.txs = <<>>
          \/ max_txs > 0 /\ Len(result.txs) # max_txs
       THEN Refused ELSE result

\* Wrong variant of data_windows_overlap: an open window is taken for empty.
data_windows_touch(first_start, first_count, second_start, second_count) ==
    /\ first_start < second_start + second_count
    /\ second_start < first_start + first_count

\* data_windows_overlap, where a count of 0 is a window without an end.
data_windows_overlap(first_start, first_count, second_start, second_count) ==
    /\ second_count = 0 \/ first_start < second_start + second_count
    /\ first_count = 0 \/ second_start < first_start + first_count

=============================================================================
