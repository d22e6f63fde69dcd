CONSTANTS
    Callers = {c1}
    Tasks = {t1}
    Handles = {1, 2, 3, 4, 5}
    MaxRetries = 2
    MaxFaults = 2
    MaxCalls = 1
SPECIFICATION FairSpec
CHECK_DEADLOCK FALSE
INVARIANTS
    Managed
    ShutdownStops
    GuardsOwned
PROPERTIES
    EnabledRuns
    DisabledStops
    ShutdownEnds
