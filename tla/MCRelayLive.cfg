SPECIFICATION FairSpec
CONSTANTS
    ShardNum = 2
    Nodes_perShard = 2
    NumTx = 1
    UseSpring = FALSE
    Init_Balance = 10
    BlockSize = 2
    batchDataNum = 2
    InjectSpeed = 2
    stopThreshold = 1
    MaxEmpty <- MCFirst
    MaxView <- MCNone
    Account <- MCAccount
    Sender <- MCSender
    Recipient <- MCRecipient
    Value <- MCValue
    Addr2Shard <- MCAddr2Shard
    Placed <- MCAddr2Shard
INVARIANT
    TypeOK
    RelayNotLost
    ProposalsStayValid
PROPERTY
    TxsGetOnChain
CHECK_DEADLOCK FALSE
