CONSTANTS
    c1 = c1
    c2 = c2
    held = held
    Sends = {held}
    Clients = {c1, c2}
    App <- OneOfEach
    MaxTicks = 1
    MaxAccepts = 3
SPECIFICATION FairSpec
CHECK_DEADLOCK FALSE
INVARIANTS
    TypeOK CancelIsFinal StatusAgrees NoneLeftBehind
PROPERTIES
    HoldSettles EndIsLast
