CONSTANTS
    d1 = d1
    None = None
    Sends = {s1}
    Resumers = {w1, w2}
    Drafts = {d1}
    DraftOf <- SameDraft
    Recipients = {r1}
    Ids <- OneRow
    HoldsTurn = {}
    TurnResumers = {}
    SaveSettings = {TRUE, FALSE}
    DiscardStates = {"failed", "done", "pending_send"}
    Reapproves = FALSE
    MaxAttempts = 2
    MaxCrashes = 1
    MaxRetries = 2
SPECIFICATION Spec
INVARIANTS
    SentCopyOnce

    
