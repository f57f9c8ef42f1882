\* Two homes, two first documents and one set of configuration files, to which
\* a user makes two edits in any order, one of a configuration at most.
SPECIFICATION Spec
CONSTANTS
    Files <- MCFiles
    Homes <- MCHomes
    Root <- MCRoot
    ConfigDirs <- MCConfigDirs
    FirstDisks <- MCDisks
    Contents <- MCContents
    Ignored <- MCIgnored
    Styles = {"auto", "alwaysAbsolute"}
    Semantics = {FALSE}
    SizeOf <- MCSizeOf
    MaxFiles = 5
    MaxChanges = 1
    FirstDocuments <- MCDocuments
    Blocks <- MCBlocks
    Services <- MCServices
    Instances <- MCInstances
    HomePath <- MCHomePath
    Platforms = {"standard", "overdare"}
    StringRequires = {TRUE, FALSE}
    Separated = {TRUE}
    Order <- MCOrder
    Silenced <- MCSilenced
    MaxLines = 9
    MaxEdits = 2
INVARIANTS
    ConfigIsCurrent
    PathsResolve
    EditsAreDisjoint
PROPERTIES
    SortingKeepsStatements
    MissingImportsAreBound
    
CHECK_DEADLOCK FALSE
