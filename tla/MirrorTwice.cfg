SPECIFICATION Spec
CONSTANTS
    m1 = m1
    m2 = m2
    Machines = {m1, m2}
    First = m1
    Faithful <- Either
    Overlap = FALSE
    MaxText = 1
    MaxUid = 5
    MaxEvents = 3
    Failures <- RelayOnly
    None = None
INVARIANT GoesOutOnce
CHECK_DEADLOCK FALSE
