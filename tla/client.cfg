SPECIFICATION ClientSpec
CONSTANTS
    Settings <- MCSettings
    MaxRestartCount = 2
    Window = 1
    Day = 4
    MaxCalls = 2
    MaxTime = 3
    MaxCrashes = 4
INVARIANTS
    CrashLoopsEnd
    OneServer
    
PROPERTIES
    CallsEnd
CHECK_DEADLOCK FALSE
