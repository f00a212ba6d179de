CONSTANTS
    routed = routed
    swap = swap
    weth = weth
    usdc = usdc
    Absent = Absent
    Unbound = Unbound
    NoTokenRow = NoTokenRow
    Sessions = {s1, s2}
    w = w
    Wallets <- OneWallet
    Lists <- ItsList
    TxWallets <- ItsTxs
    Target = w
    Txs <- TwoTxs
    TxBlock <- Blocks
    MaxBlock = 2
    BigintAsText = FALSE
    EmptyUnbinds = FALSE
    ExplorerMayLag = FALSE
    Tokens <- TwoTokens
    Summary <- Summaries
    Timestamps = {0}
    MaxAnalyses = 2
    MaxBeside = 1
SPECIFICATION SpecReading
INVARIANTS CommandTypeOK CursorCovers CalmRowsComplete
SYMMETRY Symmetry
