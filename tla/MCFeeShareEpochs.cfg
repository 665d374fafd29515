SPECIFICATION EpochsSpec
CONSTANTS
    Accounts = {alice, bob}
    Wrap = wrap
    DEPOSIT_UNTIL = 1
    MATURITY = 2
    CLAIM_DEADLINE = 3
    ACC_SCALE = 2
    Purse <- OneEach
    Payments = {0, 1}
    MaxReward = 2
    MaxTime = 4
    alice = alice
    bob = bob
    wrap = wrap
INVARIANT
    StrictlyApart
CHECK_DEADLOCK FALSE
