SPECIFICATION Spec
CONSTRAINT MCTwoOrView
CONSTANTS
    ShardNum = 2
    Nodes_perShard = 2
    NumTx = 2
    UseSpring = TRUE
    Init_Balance = 10
    BlockSize = 2
    batchDataNum = 2
    InjectSpeed = 1
    stopThreshold = 1
    MaxEmpty <- MCNone
    MaxView <- MCFirst
    Account <- MCAccount
    Sender <- MCSender
    Recipient <- MCRecipient
    Value <- MCValue
    Addr2Shard <- MCSameHash
    Placed <- MCAddr2Shard
INVARIANT
    NoReplay
    PaidOnce
    ProposalsStayFresh
CHECK_DEADLOCK FALSE
