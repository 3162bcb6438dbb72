\* One task of every kind, two nodes, one crash, failing call, lost reply or query.
SPECIFICATION Spec
CONSTANTS
    Tasks = {t1}
    Nodes = {n1, n2}
    Amounts = {1, 3}
    Estimates = {2}
    MaxInputs = 1
INVARIANTS OrganizationPaysActual
CHECK_DEADLOCK FALSE
