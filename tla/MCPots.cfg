SPECIFICATION SpecAll
CONSTANTS
    Players = {alice, bob}
    Governors = {gov, gov2}
    Factories = {fac}
    Pot = pot
    Venue = venue
    Tokens = {weth, zaps}
    ZAPS = zaps
    NoOne = none
    Governor = gov
    Clones = {clone}
    MaxRound = 3
    Amounts = {1, 2}
    Supply = 2
    Table = {alice, bob, carol}
    entryFee = 5
    commitWindow = 1
    revealWindow = 1
    rakeBps = 2
    keeperBps = 1
    BPS = 10
    MAX_SEATS = 3
    MIN_REVEALS = 2
    Tiebreak <- TurningTies
    Draws = {3, 6}
    MaxRounds = 3
    gov = gov
    gov2 = gov2
    fac = fac
    alice = alice
    bob = bob
    carol = carol
    clone = clone
    pot = pot
    venue = venue
    weth = weth
    zaps = zaps
    none = none
INVARIANTS
    TypeOK
    PrizeBacked
    PrizesAccountedFor
    WinnersPlayed
    Solvent
PROPERTIES
    ClosedRoundsAreFinal
    TableFair
CHECK_DEADLOCK FALSE
