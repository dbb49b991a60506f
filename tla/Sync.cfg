SPECIFICATION FairSpec
CONSTANTS
    inbox = inbox
    archive = archive
    m1 = m1
    m2 = m2
    Targets <- TwoBoxes
    Home = inbox
    Msgs = {m1, m2}
    Limits = {1, 3}
    MaxAttempts = 2
    Budgets <- Mixed
    StaleRollbacks = FALSE
    None = None
    Failed = Failed
INVARIANT TypeOK
INVARIANT NoTwin
 
 
PROPERTY Converges
