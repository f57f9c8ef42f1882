SPECIFICATION TypesSpec
CONSTANTS
    Name <- MCName
    Class = {"Folder", "ModuleScript", "LocalScript"}
    RootClass = {"DataModel", "Folder"}
    ServerContainer <- MCServer
    ClientContainer <- MCClient
    PlayerPaths <- MCPlayerPaths
    MaxNodes = 5
    Opened <- MCOpened
    Copies <- MCCopies
    MaxTyped = 3
INVARIANTS
    FilesHaveNames
    ImportsAreUsable
    NothingFreedIsRead
    LookupsAgree
CHECK_DEADLOCK FALSE
