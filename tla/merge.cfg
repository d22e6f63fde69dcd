CONSTANTS
    g = g
    a = a
    b = b
    d = d
    NoDate = NoDate
    FileSeq <- MCFileSeq
    Generated = {g}
    Contested = {a}
    Date <- MCDate
    Ref <- MCRef
    Holdings <- MCHoldings
    Messages = {m1}
    MaxFaults = 1
SPECIFICATION FairSpec
CHECK_DEADLOCK FALSE
INVARIANTS
    SnapshotFirst
    
    
    MailKept
    MailOnce
    
    IndexesFresh
    WindowKept

    
    
