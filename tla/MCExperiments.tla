---------------------------- MODULE MCExperiments ----------------------------
(* A small instance of ExperimentRuns: two shards, two batches, one run       *)
(* directory, a configuration that is trained online and a frozen one.        *)
EXTENDS ExperimentRuns, TLC

MCDim == [k \in Kind |-> IF k = "iot" THEN 2 ELSE 3]
MCMechanism == [k \in Kind |-> IF k = "v3" THEN "v3" ELSE "legacy"]
MCSampleId == (1 .. MaxExecutions) \X (1 .. NumBatches)
MCTrials == {[run |-> None, kind |-> "iot", train |-> TRUE],
             [run |-> None, kind |-> "v3", train |-> FALSE]}
MCRunKind == [r \in Run |-> "iot"]

ShardSymmetry == Permutations(Shard)

\* The user trains by hand, and resets a model, only a few times; reports of
\* the second epoch come in the first execution, if it trains.
Bounded ==
    /\ model.version <= 3
    /\ Len(buffers[None].samples) <= 1
    /\ execution > 0 => buffers[None] = NoFile
    /\ loaded # None /\ ~(execution = 1 /\ loaded.train) =>
         springEpochFeedback[3] = NoReports /\ 3 \notin springRewardedEpoch

=============================================================================
