CONSTANTS
    c1 = c1
    c2 = c2
    c3 = c3
    NoCaller = NoCaller
    Callers = {c1, c2}
    Endpoint <- AllJobs
    Body <- Bodies
    LostReplies = FALSE
    MayExpire = FALSE
    MaxFailures = 0
    MaxCrashes = 0
SPECIFICATION AdmissionSpec
INVARIANT NeverEnqueuesTwice
CHECK_DEADLOCK FALSE
