SPECIFICATION Spec
CONSTANTS
    Msg = {"initialize", "initialized", "open", "document1", "stream1", "luaurc", "exit"}
    Kind <- MCKind
    fA = fA
    fB = fB
    Folder <- MCFolder
    Initial <- MCNoFolder
    Null = Null
    Target <- MCTarget
    Added <- MCAdded
    Removed <- MCRemoved
    Configures = TRUE
    NoMsg = NoMsg
INVARIANTS
    NoRequestForgotten
CHECK_DEADLOCK FALSE
