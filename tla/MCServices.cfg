\* What the governor, the reasoner, the cards and the agents must never do.
SPECIFICATION ServicesSpec
CHECK_DEADLOCK FALSE
CONSTANTS
    c1 = c1  c2 = c2  p1 = p1  j1 = j1  j2 = j2  k1 = k1  t1 = t1  a1 = a1  h1 = h1  h2 = h2  x1 = x1
    Scope = {"governor", "chain", "update", "clicks", "agents"}
    MaxNow = 2  MaxRestarts = 1
    Caller = {c1, c2}  Kind = {"like"}  MaxPermits = 3  BurstCap = 1  DayCap = 4
    GapSpan = 1  BurstSpan = 1  DaySpan = 2  WeekSpan = 2  HaltSpan = 1  Quiet = {}
    Post = {p1}  Platform = {"linkedin", "facebook"}  Governed = {"linkedin"}  Silent = {"facebook"}
    PreviewSpan = 1  PostHorizon = 1  MaxFaults = 1
    Job = {j1, j2}  Process = {"serve", "cli"}  Home <- OneHome  Asked = {"text", "agentic"}
    Chain <- TwoProviders  Slots = 1  QuotaSpan = 1  DownSpan = 1  HintSpan = 1
    MaxCards = 2  MaxDrafts = 3  Composer = {k1}  Poster = {t1}  NudgeSpan = 1  MaxStops = 1
    Action = {a1}  Channel = {"linkedin_comment"}  Hand = {h1, h2}
    MaxMsgs = 2  MaxRedrafts = 1  MaxTexts = 1
    Issue = {x1}  MaxCharges = 2  Rounds = 1  MaxDiffs = 2  MaxPulls = 2
SYMMETRY Hands
INVARIANTS
    ServicesTypes
    
    SlotsBalance LatchIsExcused
    
     
    MergedWasReviewed 

    
