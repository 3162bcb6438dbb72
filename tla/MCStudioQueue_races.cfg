\* Two gateways, two jobs of one or two accounts, one worker, one restart.
SPECIFICATION Spec
CONSTANTS
    NoJob = NoJob
    Jobs = {j1, j2}
    Accounts = {alice, bob}
    Gateways = {g1, g2}
    GPUs = {x1}
    MaxRunning = 1
    MaxWaiting = 1
    MaxBytes = 6
    MaxResult = 2
    AccountLease = 2
    GpuLease = 2
    QueueTTL = 1
    ExecMax = 1
    CancelGrace = 0
    ResultTTL = 0
    MaxCrashes = 1
SYMMETRY Symmetry
INVARIANTS Accounted GpuExclusive CancelNeverBilled
PROPERTIES Implements
CHECK_DEADLOCK FALSE
