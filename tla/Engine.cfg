SPECIFICATION FairSpec
CONSTANTS
    Gens <- TwoRuntimes
    Ops = {o1}
    Callers = {c1}
    Passes = {p1}
    BusyRetries = 1
    Overruns = TRUE
    None = None
INVARIANT TypeOK
INVARIANT LockCoversWork
INVARIANT DrainsAlone
INVARIANT RestsWithNothingOwed
PROPERTY OwedDrains
PROPERTY TicksAnswer
CHECK_DEADLOCK FALSE
