CONSTANTS
    Process = {p, d}
    SessionProcess = {d}
    Post = {"s", "h"}
    Account = {"a"}
    File = {"f"}
    Material = {"m1", "m2", "name"}
    Providers <- MCProviders
    Strategies <- MCStrategies
    Artist = {"artist"}
    Supported <- MCSupported
    StrategyOf <- MCStrategyOf
    Materials <- MCMaterials
    Answers <- MCAnswers
    PageLimit = 2
    Budgets = {2}
    MaxRuns = 3
    Watched = {"s"}
    MaxSessions = 1
    None = None
    SitePost = {1, 2, 3, 4, 5}
    Query = {1, 2}
    Tokens <- MCTokens
    PageSize = 2
    MaxChanges = 2
    MaxFaults = 1
    Nothing = Nothing
SPECIFICATION MCSpec
CHECK_DEADLOCK FALSE
INVARIANT LookupMissesNothing
