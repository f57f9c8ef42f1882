SPECIFICATION Spec
CONSTANTS
    Programs <- MCPrograms
    NewNames <- MCNewNames
INVARIANTS
    PropertyUsesAreFound
    TypeNamesKeepMeaning
    
    
    GraphsShowRequires
CHECK_DEADLOCK FALSE
