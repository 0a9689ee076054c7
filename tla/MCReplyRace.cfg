\* Two concurrent clicks, the engine and a restart on one row: who may send.
SPECIFICATION Spec
CONSTANTS
    Action = {a1}
    Draft = {d1, d2}
    Handler = {h1, h2}
    Engine = engine
    NoAction = NoAction
    NoDraft = NoDraft
    MaxTime = 3
    Horizon = 0
    SendTimeout = 1
    Grace = 2
    MinLead = 1
    Skew = 0
    TickLimit = 1
    MaxCrashes = 1
    StoreFails = FALSE
    Exempt = 9
    Beside = {}
SYMMETRY Symmetry
INVARIANTS
    TypeOK
    OnlyOrphansFlagged
    ScheduledSendsAreExempt
    
    OneSender
    
    

    
CHECK_DEADLOCK FALSE
