\* A good and an undecodable entry, two faults, one claim from a live worker.
CONSTANTS
    w1 = w1
    w2 = w2
    e1 = e1
    e2 = e2
    r1 = r1
    r2 = r2
    p1 = p1
    NoEntry = NoEntry
    Workers = {w1, w2}
    Entries = {e1, e2}
    Requests = {r1, r2}
    Rid <- RidOwn
    Sentences <- OneAndNone
    Malformed = {e2}
    MaxRetries = 2
    CountMayFail = TRUE
    MaxFaults = 2
    MaxSteals = 1
    Pollers = {p1}
    Asks <- AsksFirst
SPECIFICATION StatusSpec
SYMMETRY WorkerSymmetry
INVARIANTS
    TypeOK
    StatusSound
    CompleteIsDurable
    FinalAfterCommit
    AckedHasOutcome
PROPERTIES
    ContractSpec
    FailedStaysFailed
CHECK_DEADLOCK FALSE
