CONSTANTS
    ShardNum = 2
    Account <- MCAccount
    NumTx = 3
    Sender <- MCSender
    Recipient <- MCRecipient
    Value <- MCValue
    Addr2Shard <- MCAddr2Shard
    Init_Balance = 10
    BlockSize = 2
    InjectSpeed = 1
    MaxPartitions = 1
    MaxEmpty = 0
SPECIFICATION Spec
INVARIANT DebitedNotLost
CHECK_DEADLOCK FALSE
