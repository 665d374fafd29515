SPECIFICATION SpecAll
CONSTANTS
    Accounts = {alice, bob}
    Wrap = wrap
    DEPOSIT_UNTIL = 1
    MATURITY = 2
    CLAIM_DEADLINE = 3
    ACC_SCALE = 2
    Purse <- TwoPurses
    Payments = {0, 1, 2}
    MaxReward = 3
    MaxTime = 4
    This = this
    MIN_OUT_BPS = 9
    BPS = 10
    Q96 = 1
    MAX_ROUTE_WEI = 1
    MIN_ROUTE_WEI = 1
    Yields = {0, 1}
    Prices = {1, 2}
    MaxBlock = 2
    START_AT = 1
    END_AT = 2
    SWEEP_AFTER = 3
    MAX_BUY_WEI = 2
    MIN_BUY_WEI = 1
    Principals = {1}
    MaxBought = 2
    MaxDonated = 1
    alice = alice
    bob = bob
    wrap = wrap
    this = this
INVARIANTS
    PrincipalHeld
    RedemptionOpen
    RewardsCovered
    WithdrawOpen
    LedgerHonest
    PrincipalReturns
PROPERTIES
    EarningsKept
    SharedBeforeMoved
    YieldsApart
    KeepsToLeg
CHECK_DEADLOCK FALSE
