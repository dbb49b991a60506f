CONSTANTS
    d1 = d1
    None = None
    Sends = {s1, s2}
    Resumers = {w1}
    Drafts = {d1}
    DraftOf <- SameDraft
    Recipients = {r1, r2}
    Ids <- TwoRows
    HoldsTurn = {s1, s2}
    TurnResumers = {w1}
    SaveSettings = {TRUE}
    DiscardStates = {"failed"}
    Reapproves = TRUE
    MaxAttempts = 2
    MaxCrashes = 1
    MaxRetries = 0
SPECIFICATION FairSpec
INVARIANTS
    TypeOK DraftSentOnce RetiredIsDelivered BlobsAccounted
PROPERTIES
    OpenRowSettles KeepsItsPromise
