\* Approve and Revise on the same card.
SPECIFICATION Spec
CONSTANTS
    Action = {a1}
    Draft = {d1, d2}
    Handler = {h1, h2}
    Engine = engine
    NoAction = NoAction
    NoDraft = NoDraft
    MaxTime = 3
    Horizon = 1
    SendTimeout = 1
    Grace = 2
    MinLead = 1
    Skew = 0
    TickLimit = 1
    MaxCrashes = 0
    StoreFails = FALSE
    Exempt = 9
    Beside = {}
SYMMETRY Symmetry
INVARIANTS
    NothingSendsTheOldDraft
CHECK_DEADLOCK FALSE
