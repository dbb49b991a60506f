CONSTANTS
    t1 = t1
    a = a
    b = b
    None = None
    Clients = {c1, c2}
    Rows = {t1}
    Mails = {a, b}
    Home <- RowOfA
    Boxes = {inbox, archive}
    Inbox = inbox
    Kinds = {"move", "delete", "set_flagged"}
    Settles = {TRUE, FALSE}
    Ids <- ThreeIds
    MaxAttempts = 2
    MaxReplies = 0
    MaxCrashes = 1
    Overlaps = FALSE
SPECIFICATION FairSpec
CHECK_DEADLOCK FALSE
PROPERTIES
    OwedSettles
