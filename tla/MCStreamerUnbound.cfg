CONSTANTS
    w1 = w1
    w2 = w2
    t1 = t1
    t2 = t2
    t3 = t3
    Absent = Absent
    Unbound = Unbound
    Wallets <- TwoWallets
    Sessions = {s1}
    Lists <- JustOne
    Txs <- ThreeTxs
    TxBlock <- ThreeBlocks
    TxWallets <- ThreeDisjoint
    MaxBlock = 3
    BigintAsText = FALSE
    EmptyUnbinds = TRUE
    ExplorerMayLag = FALSE
SPECIFICATION Spec
INVARIANTS CursorCoversOwn
CHECK_DEADLOCK FALSE
