SPECIFICATION FairSubmitSpec
CONSTANTS
    t1 = t1
    t2 = t2
    t3 = t3
    t4 = t4
    api = api
    worker = worker
    NoTask = NoTask
    Tasks = {t1, t2, t3, t4}
    Keys = {api, worker}
    KeyOf <- TwoProcesses
    Bare = {t3}
    MaxBadSeqRetries = 1
    NetFaults = {"lost", "net"}
CHECK_DEADLOCK FALSE
INVARIANT OneInFlight
INVARIANT ForgottenIsIdle
INVARIANT AcceptedOnce
 
PROPERTY ImplementsSigningQueue
PROPERTY AllSettle
