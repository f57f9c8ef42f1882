SPECIFICATION Spec
CONSTANTS
    Msg = {"initialize", "initialized", "openB", "edit1", "document1"}
    Kind <- MCKind
    fA = fA
    fB = fB
    Folder <- MCFolder
    Initial <- MCOneFolder
    Null = Null
    Target <- MCTarget
    Added <- MCAdded
    Removed <- MCRemoved
    Configures = TRUE
    NoMsg = NoMsg
PROPERTIES
    PostponedIsHandled
CHECK_DEADLOCK FALSE
