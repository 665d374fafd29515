SPECIFICATION FairSpec
CONSTANTS
    Leads = {l1, l2}
    Workers = {w1, w2}
    Ended = ended
    MAX_NOTIFICATIONS_PER_RUN = 1
    maxRetries = 1
    Refused = {}
    MaxStalls = 1
    l1 = l1
    l2 = l2
    w1 = w1
    w2 = w2
INVARIANTS
    OneMailPerLead
    SettledWasMailed
PROPERTIES
    OutcomesFinal
    MissedNudgeRecovered
