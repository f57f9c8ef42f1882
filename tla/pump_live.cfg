SPECIFICATION FairSpec
CONSTANTS
    Msg = {"initialize", "initialized", "open", "report", "shutdown1", "shutdown2"}
    Kind <- MCKind
    fA = fA
    fB = fB
    Folder <- MCFolder
    Initial <- MCNoFolder
    Null = Null
    Target <- MCTarget
    Added <- MCAdded
    Removed <- MCRemoved
    Configures = TRUE
    NoMsg = NoMsg
PROPERTIES
    EventuallyAnswered
    ShutdownIsAnswered
CHECK_DEADLOCK FALSE
