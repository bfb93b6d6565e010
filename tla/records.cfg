CONSTANTS
    Sessions = {s1, s2}
    Null = Null
    NoVoice = NoVoice
    Absent = Absent
    Wiped = Wiped
    FreezeDays = {0}
    RetentionDays = 1
    MaxDay = 1
    MaxCalls = 5
    MaxFailures = 1
    Owners = {"a", "b"}
    Viewers = {"b", "c"}
    PayloadBits = 2
    Payloads = {1, 2}
    MaxKeys = 2
    MarkOperators = {"o1", "o2"}
    MarkWorkers = {"w1"}
    ApiKeys = {"k1"}
    KeyLimits = {2}
    TenantLimit = 1
    Window = 4
    Second = 2
    Requests = {"r1", "r2"}
    ClockOf <- Clocks
    TokenTtl = 1
SPECIFICATION RecordsSpec
SYMMETRY SessionSymmetry
INVARIANTS
    VoicesSound
    SpokenWasOpen
    SharingSound
    RequiredIsMarked
    MarksSound
    
    
PROPERTIES
    LifecycleNeverGoesBack
    WithdrawnNeverAdmitted
    TombstoneIsSilent
CHECK_DEADLOCK FALSE
