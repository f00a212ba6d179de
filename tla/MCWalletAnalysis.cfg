CONSTANTS
    swap = swap
    routed = routed
    mint = mint
    weth = weth
    usdc = usdc
    steth = steth
    nft = nft
    NoRow = NoRow
    Sessions = {s1}
    Tokens <- AllTokens
    Transactions <- ThreeTransactions
    TimeOf <- Times
    Summary <- Summaries
    Timestamps = {0, 1}
    MaxAnalyses = 2
SPECIFICATION Spec
INVARIANTS TypeOK NothingCountedTwice NoUpdateLost SummaryIsSum
PROPERTIES AnalysisEnds
CHECK_DEADLOCK FALSE
