SPECIFICATION Spec
CONSTANTS
    Msg = {m1, m2}
    Thread = {t1}
    Card = {c1}
    NoMsg = NoMsg
    Start = 10
    MaxTime = 12
    Horizon = 11
    SendTimeout = 1
    Proximity = 1
    Slack = 1
    Lookback = 2
INVARIANTS
    NothingPassedOver
PROPERTIES
    RecordedSendIsRecognised
SYMMETRY Symmetry
