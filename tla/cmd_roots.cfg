CONSTANTS
    Cmds = {c1, c2}
    NoCmd = NoCmd
    NoLease = NoLease
    Isolation = {TRUE, FALSE}
    MaxEpochs = 3
SPECIFICATION FairSpec
CHECK_DEADLOCK FALSE
INVARIANTS
    TypeOK
    StartedOnce
    OwnClaims
    
PROPERTIES
    ChildKeepsDescriptor
    
    PickedUp
