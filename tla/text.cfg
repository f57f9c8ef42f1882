SPECIFICATION Spec
CONSTANTS
    Char = {"a", "astral", "CR", "LF"}
    CR = "CR"
    LF = "LF"
    Bytes <- MCBytes
    Units <- MCUnits
    Insertion <- MCInsertion
    MaxLength = 5
INVARIANTS
    ContentIsClients
    PositionsAreCurrent
