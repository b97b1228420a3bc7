\* Two callers, three requests a window: the budget runs out under both of them,
\* answers overtake one another and the local clock is a second ahead.
SPECIFICATION FairSpec
CONSTANTS
    c1 = c1
    c2 = c2
    Nobody = Nobody
    Callers <- MCCallers
    Limit = 3
    Threshold = 2
    Window = 3
    RetryAfters <- MCRetryAfters
    Ahead = 1
INVARIANTS
    TypeOK
    RefusedOnlyWhenOvertaken
    HonoursRefusal
    NeverRepeats
    SleepsAreBounded
PROPERTIES
    RequestsGoForward
    RequestsReturn
