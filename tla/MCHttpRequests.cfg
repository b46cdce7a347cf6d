SPECIFICATION Spec
CONSTANTS
    Requests = {r1, r2}
    r1 = r1
    r2 = r2
    Cancelable = {r1}
    Settings <- MCSettings
    MaxChunks = 2
INVARIANT BodyIsWhole
PROPERTY AnsweredUnlessCancelled
CHECK_DEADLOCK FALSE
