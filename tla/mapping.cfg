SPECIFICATION Spec
CONSTANTS
    Byte = {"x", "y", "LF"}
    LF = "LF"
    MaxSource = 3
    Sources <- MCSources
    NewText <- MCNewText
    MaxEdits = 3
INVARIANTS
    UntouchedBytesStay
    OriginalMapsForth
    TransformedMapsBack
CHECK_DEADLOCK FALSE
