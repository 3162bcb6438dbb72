\* Two tabs that share a session or log in at once, browsers with and without Web Locks,
\* two inputs.
SPECIFICATION FairSpec
CONSTANTS
    Tabs = {t1, t2}
    Sids = {s1, s2}
    First = s1
    None = None
    LockModes = {TRUE,FALSE}
    MaxInputs = 2
INVARIANTS SignedOutStaysOut ReuseOnlyAfterLoss
PROPERTIES GuardsDecide RevokedLeaves
CHECK_DEADLOCK FALSE
