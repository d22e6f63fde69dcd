CONSTANTS
    anima = anima
    t1 = t1
    t2 = t2
    t3 = t3
    NoInput = NoInput
    Tasks = {t1}
    Animas <- MCAnimas
    Owner <- MCOwner
    Payloads <- MCPayloads
    Procs = {p1, p2}
    MaxActive = 2
    MaxAttempts = 3
SPECIFICATION Spec
INVARIANTS
    ArchivedIsClosed
    OneOpenAttempt
PROPERTIES
    CancelSticks
    HistoryAppendOnly
    ImplementsLifecycle
