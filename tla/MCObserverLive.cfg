SPECIFICATION FairSpec
CONSTANTS
    Msg = {m1}
    Thread = {t1}
    Card = {c1}
    NoMsg = NoMsg
    Start = 10
    MaxTime = 13
    Horizon = 12
    SendTimeout = 1
    Proximity = 1
    Slack = 1
    Lookback = 3
PROPERTIES
    AnsweredCardsRetire
