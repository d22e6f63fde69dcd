CONSTANTS
    Cmds = {c1}
    NoCmd = NoCmd
    NoLease = NoLease
    Isolation = {TRUE, FALSE}
    MaxEpochs = 2
SPECIFICATION Spec
CHECK_DEADLOCK FALSE
PROPERTIES
    SubmitLeavesDescriptor
