SPECIFICATION DocumentsSpec
CONSTANTS
    Doc = {Doc1}
    Doc1 = Doc1
    fA = fA
    Folder = {fA}
    Null = Null
    Under <- MCUnder
    Home = fA
    Text = {"t1", "t2"}
    MaxVersion = 3
    MaxScript = 3
    Broken = {2}
    Restarts = FALSE
    HasSourcemap = TRUE
INVARIANTS
    CopiesFollowEditor
    
    
CHECK_DEADLOCK FALSE
