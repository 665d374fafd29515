SPECIFICATION FairSpec
CONSTANTS
    Leads = {l1, l2}
    Workers = {w1, w2}
    Ended = ended
    MAX_NOTIFICATIONS_PER_RUN = 2
    maxRetries = 1
    Refused = {l1}
    MaxStalls = 1
    l1 = l1
    l2 = l2
    w1 = w1
    w2 = w2
PROPERTIES
    MissedNudgeRecovered
