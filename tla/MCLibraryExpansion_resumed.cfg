CONSTANTS
    p1 = p1  a = a  u = u  g = g  t = t
    None = None
    Process = {p1}
    InitialPosts = 3
    MaxPost = 4
    MaxChanges = 1
    PageSize = 2
    Limits <- MCLimits
    MaxRetries = 1
    MaxRuns = 2
    Account = {a, u}
    Attribution = {g, t}
    Enumerable = {a, g, t}
    Counted = {a}
    Tagged = {t}
    Linked = {a, u}
    SeedPost = 2
    KnownFacts <- MCKnownFacts
    Asked <- MCAsked
    MaxFacts = 1
    MaxPlans = 2
    MaxProbes = 1
    MaxClock = 1
SPECIFICATION MCSpec
CHECK_DEADLOCK FALSE
INVARIANTS PausedCanResume
