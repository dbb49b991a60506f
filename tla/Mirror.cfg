SPECIFICATION Spec
CONSTANTS
    m1 = m1
    m2 = m2
    Machines = {m1, m2}
    First = m1
    Faithful <- Either
    Overlap = FALSE
    MaxText = 2
    MaxUid = 6
    MaxEvents = 2
    Failures <- AllFailures
    None = None
INVARIANTS TypeOK  ApprovedIsReviewed SentOnce
CHECK_DEADLOCK FALSE
