SPECIFICATION Spec
CONSTANTS
    Msg = {"initialize", "initialized", "document1", "edit1", "close", "configuration", "shutdown1"}
    Kind <- MCKind
    fA = fA
    fB = fB
    Folder <- MCFolder
    Initial <- MCOneFolder
    Null = Null
    Target <- MCTarget
    Added <- MCAdded
    Removed <- MCRemoved
    Configures = TRUE
    NoMsg = NoMsg
INVARIANTS
    AtMostOneReply
    NoRequestForgotten
    SeesEarlierMessages
    TokenOnlyWhilePending
PROPERTIES
    NothingAfterShutdown
    ImplementsLifecycle
CHECK_DEADLOCK FALSE
