CONSTANTS
    Callers = {c1}
    Tasks = {t1, t2}
    Handles = {1, 2, 3, 4, 5, 6}
    MaxRetries = 1
    MaxFaults = 2
    MaxCalls = 1
SPECIFICATION Spec
CHECK_DEADLOCK FALSE
INVARIANT OneHandler
