CONSTANTS
    d1 = d1
    None = None
    Sends = {s1}
    Resumers = {w1}
    Drafts = {d1}
    DraftOf <- SameDraft
    Recipients = {r1, r2}
    Ids <- OneRow
    HoldsTurn = {}
    TurnResumers = {}
    SaveSettings = {TRUE}
    DiscardStates = {}
    Reapproves = FALSE
    MaxAttempts = 1
    MaxCrashes = 0
    MaxRetries = 0
SPECIFICATION Spec
INVARIANTS
    DeliveredOnce

