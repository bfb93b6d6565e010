\* One job, two faults, one claim from a live worker; a job needs two
\* deliveries to exhaust its budget.
CONSTANTS
    w1 = w1
    w2 = w2
    e1 = e1
    r1 = r1
    NoEntry = NoEntry
    Workers = {w1, w2}
    Entries = {e1}
    Requests = {r1}
    Rid <- RidOne
    Sentences <- OneSentence
    Malformed = {}
    MaxRetries = 2
    CountMayFail = FALSE
    MaxFaults = 2
    MaxSteals = 1
SPECIFICATION FairSpec
PROPERTY EveryJobSettles
CHECK_DEADLOCK FALSE
