CONSTANTS
    anima = anima
    t1 = t1
    t2 = t2
    t3 = t3
    NoInput = NoInput
    Tasks = {t1, t2, t3}
    Animas <- MCAnimas
    Owner <- MCOwner
    Payloads <- MCPayloads
    Procs = {p1}
    MaxActive = 2
    MaxAttempts = 1
SPECIFICATION Spec
INVARIANTS
    ReadyIsRunnable
    BatchExclusive
    
