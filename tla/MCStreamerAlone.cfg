CONSTANTS
    w1 = w1
    w2 = w2
    t1 = t1
    t2 = t2
    t3 = t3
    Absent = Absent
    Unbound = Unbound
    Wallets <- TwoWallets
    Sessions = {s1}
    Lists <- AsList
    Txs <- ThreeTxs
    TxBlock <- ThreeBlocks
    TxWallets <- ThreeDisjoint
    MaxBlock = 3
    BigintAsText = FALSE
    EmptyUnbinds = FALSE
    ExplorerMayLag = TRUE
SPECIFICATION LiveSpec
INVARIANTS TypeOK CursorCoversOwn PassComplete
PROPERTIES CursorOnlyResets ResumesAfterCursor StreamEnds
CHECK_DEADLOCK FALSE
