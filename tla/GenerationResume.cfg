SPECIFICATION Spec
CONSTANTS
    N = 2
    MaxRetries = 1
    Limit = 2
    Window = 1
    MaxStarts = 2
    MaxInterrupts = 1
    MaxKills = 0
    Settings <- MCSettings
INVARIANT ResumesSafely
CHECK_DEADLOCK FALSE
