SPECIFICATION Spec
CONSTANTS
    ShardNum = 2
    Nodes_perShard = 2
    NumTx = 1
    UseSpring = FALSE
    Init_Balance = 10
    BlockSize = 2
    batchDataNum = 2
    InjectSpeed = 1
    stopThreshold = 2
    MaxEmpty <- MCNone
    MaxView <- MCFirst
    Account <- MCAccount
    Sender <- MCSender
    Recipient <- MCRecipient
    Value <- MCValue
    Addr2Shard <- MCAddr2Shard
    Placed <- MCAddr2Shard
INVARIANT
    RelayNotLost
CHECK_DEADLOCK FALSE
