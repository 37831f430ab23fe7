SPECIFICATION RunsSpec
CONSTANTS
    Kind = {"iot", "v3"}
    Dim <- MCDim
    Mechanism <- MCMechanism
    LegacyDim = 1
    SampleId <- MCSampleId
    BATCH_SIZE = 2
    MIN_FLUSH_BATCH_SIZE = 1
    None = None
    Shard = {s1, s2}
    NumBatches = 2
    Epoch = {1, 3}
    springPendingFeedbackTTL = 1
    springFeedbackAggregateWindow = 2
    springMaxTrainFeedbackMatches = 2
    KeepEpochs = 1
    MaxExecutions = 2
    Run = {"r1"}
    RunKind <- MCRunKind
    Trials <- MCTrials
    HandDim = {2}
CONSTRAINT Bounded
SYMMETRY ShardSymmetry
INVARIANTS
    TypeOK
    CompleteIsTrue
PROPERTIES
    ImplementsLedger
    ServesNewest
    FrozenModelKept
CHECK_DEADLOCK FALSE
