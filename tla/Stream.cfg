CONSTANTS
    draft = draft
    inbox = inbox
    search = search
    None = None
    Resources = {draft, inbox}
    Counts = {inbox}
    Operations = {search}
    Apps = {"desktop", "tui"}
    MaxEvents = 1
    MaxWire = 1
    MaxChanges = 2
    MaxLosses = 1
    MaxTimeouts = 1
SPECIFICATION FairSpec
CHECK_DEADLOCK FALSE
INVARIANTS
    TypeOK NothingLost
PROPERTIES
    NeverBack CatchesUp
