\* A schedule taken back and armed again while a sweep holds its old arming.
SPECIFICATION Spec
CONSTANTS
    Action = {a1}
    Draft = {d1}
    Handler = {h1}
    Engine = engine
    NoAction = NoAction
    NoDraft = NoDraft
    MaxTime = 4
    Horizon = 2
    SendTimeout = 1
    Grace = 2
    MinLead = 1
    Skew = 0
    TickLimit = 1
    MaxCrashes = 0
    StoreFails = FALSE
    Exempt = 9
    Beside = {}

PROPERTIES
    EarlierReplyNeverCancels
CHECK_DEADLOCK FALSE
