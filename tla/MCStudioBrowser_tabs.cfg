\* Two tabs, two jobs of one account, three user inputs, two lost answers or failures.
SPECIFICATION FairBrowser
CONSTANTS
    NoJob = NoJob
    Jobs = {j1, j2}
    Accounts = {alice}
    Tabs = {t1, t2}
    MaxInputs = 3
    MaxFaults = 2

INVARIANTS Recoverable ReleasedIsSaved SavedIsBilled
PROPERTIES GenerationEnds
CHECK_DEADLOCK FALSE
