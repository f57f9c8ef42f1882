SPECIFICATION Spec
CONSTANTS
    Tree <- MCTree
    Lua <- MCLua
    MaxStarts = 1
    MaxFaults = 1
    ReadRetryAttempts = 2
INVARIANTS
    FilesHaveOneNode
    TimersAreRegistered
    DecorationsFollow
PROPERTIES
    SavesReachTheSourcemap
CHECK_DEADLOCK FALSE
