CONSTANTS
    Sessions = {s1, s2}
    Null = Null
    NoVoice = NoVoice
    Absent = Absent
    Wiped = Wiped
    FreezeDays = {0}
    RetentionDays = 1
    MaxDay = 0
    MaxCalls = 3
    MaxFailures = 0
SPECIFICATION Spec
INVARIANT PurgeLands
CHECK_DEADLOCK FALSE
