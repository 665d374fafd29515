SPECIFICATION Spec
CONSTANTS
    Intents <- ClashingIntents
    Steps <- OneStep
    Adapters = {a1, za}
    Tokens = {weth, zaps, out}
    Sources = {feed}
    Executors = {e1, e2}
    Zap = zap
    Owner = owner
    Recipient = recipient
    Pot = pot
    Venue = venue
    NoOne = none
    ZAPS = zaps
    ZAPSAdapter = za
    Currency0 <- MCCurrency0
    Currency1 <- MCCurrency1
    ThisDomain = "scheduled"
    maxRelayerFeeCap = 1
    BPS = 10
    EXEC_FEE_BPS = 2
    EXECUTOR_SHARE_BPS = 5
    MAX_THRESHOLD_BPS = 10
    Q96 = 1
    BALANCE_RELATIVE = 99
    OwnerTakesNative = TRUE
    MaxTime = 4
    Prices = {4}
    Pulls = {0, 2, 5}
    Yields = {5}
    Deposits = {}
    ExitLists <- MCExitLists
    Submissions <- MCSubmissions
    Delistable <- MCDelistable
    InitialBalance <- MCInitialBalance
    a1 = a1
    za = za
    weth = weth
    zaps = zaps
    out = out
    feed = feed
    stackFeed = stackFeed
    zapsFeed = zapsFeed
    e1 = e1
    e2 = e2
    zap = zap
    owner = owner
    recipient = recipient
    pot = pot
    venue = venue
    none = none
INVARIANT RunsWithinBudget
