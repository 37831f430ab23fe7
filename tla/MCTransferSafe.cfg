CONSTANTS
    ShardNum = 2
    Account <- MCAccount
    NumTx = 4
    Sender <- MCSender
    Recipient <- MCRecipient
    Value <- MCValue
    Addr2Shard <- MCAddr2Shard
    Init_Balance = 10
    BlockSize = 2
    InjectSpeed = 3
    MaxPartitions = 2
    MaxEmpty = 0
SPECIFICATION Spec
INVARIANTS TypeOK OneOwner BalanceFollowsAccount TxsComeWithAccounts
CHECK_DEADLOCK FALSE
CONSTRAINT Load
