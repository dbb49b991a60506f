SPECIFICATION FairSpec
CONSTANTS
    m1 = m1
    m2 = m2
    Machines = {m1, m2}
    First = m1
    Faithful <- Either
    Overlap = FALSE
    MaxText = 2
    MaxUid = 7
    MaxEvents = 1
    Failures <- AllFailures
    None = None
PROPERTY ComesIntoStep
CHECK_DEADLOCK FALSE
