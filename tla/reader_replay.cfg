CONSTANTS
    w1 = w1
    w2 = w2
    e1 = e1
    r1 = r1
    g1 = g1
    g2 = g2
    NoEntry = NoEntry
    Workers = {w1}
    Entries = {e1}
    Requests = {r1}
    Rid <- RidOne
    Sentences <- TwoSentences
    Malformed = {}
    MaxRetries = 2
    CountMayFail = FALSE
    MaxFaults = 0
    MaxSteals = 0
    Readers = {g1, g2}
    Awaits <- AwaitsBoth
SPECIFICATION ReaderSpec
INVARIANT ReplayGetsAudioOrTimeout
CHECK_DEADLOCK FALSE
