CONSTANTS
    anima = anima
    t1 = t1
    t2 = t2
    NoInput = NoInput
    Tasks = {t1}
    Animas <- MCAnimas
    Owner <- MCOwner
    Payloads <- MCPayloads
    Procs <- ExecutorProcs
    MaxActive = 1
    MaxAttempts = 1
    Isolation = {TRUE}
    MaxEpochs = 1
SPECIFICATION ExecSpec
PROPERTY RunnerKeepsDeclared
