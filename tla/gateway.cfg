CONSTANTS
    c1 = c1
    c2 = c2
    c3 = c3
    NoCaller = NoCaller
    Callers = {c1, c2, c3}
    Endpoint <- Mixed
    Body <- Bodies
    LostReplies = FALSE
    MayExpire = TRUE
    MaxFailures = 1
    MaxCrashes = 1
    Texts <- SomeTexts
    MIN_BUFFER_CHARS = 3
    MAX_BUFFER_CHARS = 5
    BufferLimit = 9
    MaxChars = 6
    MaxMessages = 4
    Chunks = 3
    SpokenTexts <- SomeSpokenTexts
    SpokenNumbers <- SomeNumbers
    MinSegment = 2
    MaxSegment = 6
    Slack = 1
    Orders <- SomeOrders
    FullScale = 3
    Ceiling = 2
    SampleRate = 700
SPECIFICATION GatewaySpec
INVARIANTS
    
    StreamSound
    
    SegmentsSound
    NumbersReadBack
    KnobsSafe
    
PROPERTIES
    
    EveryCallAnswered
    TextIsFlushed
    
CHECK_DEADLOCK FALSE
