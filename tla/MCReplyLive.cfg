\* Progress of one row, or of two that the engine fires one per tick, under the
\* fairness of the runtime, and what the engine fires.
SPECIFICATION LiveSpec
CONSTANTS
    Action = {a1, a2}
    Draft = {d1, d2, d3}
    Handler = {h1}
    Engine = engine
    NoAction = NoAction
    NoDraft = NoDraft
    MaxTime = 3
    Horizon = 1
    SendTimeout = 1
    Grace = 2
    MinLead = 1
    Skew = 0
    TickLimit = 1
    MaxCrashes = 1
    StoreFails = TRUE
    Exempt = 9
    Beside = {a2}
ACTION_CONSTRAINT OneOrMore
PROPERTIES
    EngineSendsWhatItJudged
    ClaimsEnd
    SchedulesEnd
CHECK_DEADLOCK FALSE
