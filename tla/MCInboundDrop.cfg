\* A poll dropped at its budget while an entry is being decrypted.
SPECIFICATION InboundSpec
CHECK_DEADLOCK FALSE
CONSTANTS
    m1 = m1  m2 = m2  d1 = d1  d2 = d2  e1 = e1  e2 = e2  e3 = e3
    Scope = {"sync"}
    MaxNow = 1  MaxRestarts = 0
    Mail = {m1, m2}  Invite = {m2}  MaxRows = 2  MaxAttempts = 2  RetryGap = 0  RetryAge = 1
    RetryBatch = 1  MaxMishaps = 1
    Dm = {d1, d2}  PerTick = 1  TriageRetries = 2  DmAge = 0  MaxReplies = 1  MaxHitches = 2
    Entry = {e1, e2, e3}  MaxVersion = 2  Pages = 2  PageOf <- TwoPages  PerPoll = 1  PagesPerPoll = 2
    BaseSize = 2  MaxBreaks = 1
INVARIANTS
    DropIsSafe
