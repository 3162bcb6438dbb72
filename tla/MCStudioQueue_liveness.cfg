\* One gateway, two jobs of one or two accounts, one worker, one restart.
SPECIFICATION FairSpec
CONSTANTS
    NoJob = NoJob
    Jobs = {j1, j2}
    Accounts = {alice, bob}
    Gateways = {g1}
    GPUs = {x1}
    MaxRunning = 1
    MaxWaiting = 1
    MaxBytes = 6
    MaxResult = 2
    AccountLease = 2
    GpuLease = 2
    QueueTTL = 1
    ExecMax = 1
    CancelGrace = 0
    ResultTTL = 0
    MaxCrashes = 1


PROPERTIES AdmissionEnds
CHECK_DEADLOCK FALSE
