CONSTANTS
    t1 = t1
    a = a
    b = b
    None = None
    Clients = {c1, c2}
    Rows = {t1}
    Mails = {a, b}
    Home <- RowOfA
    Boxes = {inbox, archive}
    Inbox = inbox
    Kinds = {"move", "delete", "set_flagged"}
    Settles = {TRUE, FALSE}
    Ids <- ThreeIds
    MaxAttempts = 2
    MaxReplies = 1
    MaxCrashes = 1
    Overlaps = FALSE
SPECIFICATION Spec
CHECK_DEADLOCK FALSE
INVARIANTS
    TypeOK Converged RunsInOrder ParkedUnrun
PROPERTIES
    AnsweredKept
