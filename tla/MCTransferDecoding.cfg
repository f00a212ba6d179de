CONSTANTS
    trade = trade
    payment = payment
    usdc = usdc
    weth = weth
    junk = junk
    meme = meme
    me = me
    pool = pool
    router = router
    None = None
    NativeToken = NativeToken
    Wallet = me
    Accounts = {me, pool, router}
    Lookups = {trade, payment}
    Tokens <- AllTokens
    Important = {usdc, weth}
    Broken = {junk}
    LogsOf <- Logs
    BatchSize = 2
    PartiesOf <- Ends
    NativeOf <- Natives
    Raws = {7, 96}
    DecimalsOf <- Places
    DefaultDecimals = 4
    DisplayDigits = 1
    Scale = 2
SPECIFICATION Spec
INVARIANTS TypeOK CacheHoldsTruth EntryForEach NeighboursUnharmed SumsConserved DirectionKept NeverOverstated StoredExactly
PROPERTIES LookupEnds
CHECK_DEADLOCK FALSE
