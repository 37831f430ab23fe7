SPECIFICATION TrainingSpec
CONSTANTS
    Address <- MCAddress
    Shards = 2
    addr2shard <- MCHash
    MaxBlockSize = 1
    Window = 2
    GuardNum = 6
    GuardDen = 5
    LoadWeight = 1
    NoAddr = NoAddr
    Jobs <- MCJobs
    Epochs = 2
    BatchSize = 2
    RolloutBatches = 2
    SaveEveryUpdates = 1
    EvalEveryEpochs = 1
    Metrics <- MCMetrics
    MinActive = 20
    MaxHotspot = 2
    MaxDeficit = 5
    None = None
INVARIANTS
    TypeOK
    PlacementAccounting
    StageConserved
    EverySampleOnce
    OnPolicy
    BatchClock
    NoStrandedReward
    WindowAligned
    CheckpointsTrue
    SelectionSound
PROPERTIES
    NeverMoves
CHECK_DEADLOCK FALSE
