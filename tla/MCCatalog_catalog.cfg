CONSTANTS
    q1 = q1  q2 = q2  q3 = q3  w1 = w1  w2 = w2  i1 = i1  i2 = i2  d1 = d1
    c1 = c1  c2 = c2  c3 = c3  m1 = m1  m2 = m2  x1 = x1
    Opener = {q1, q2, q3}
    Supported <- MCSupported
    Latest = 3
    Replayable = {2}
    MaxTransactions = 2
    Nobody = Nobody
    Writer = {w1, w2}
    Detail = {d1, d2}
    Tag = {t1, t2}
    Name = {n1, n2, n3}
    MaxClock = 2
    MaxPages = 2
    MaxEvents = 2
    None = None
    Importer = {i1, i2}
    Content = {c1, c2, c3}
    RecordsOf <- MCRecordsOf
    SeedFile = {f1, f2}
    MaxImports = 3
    NoValue = NoValue
    Member = {m1, m2}
    Caption = {x1}
    Status = {200, 404, 503}
    PoolDocument <- MCPoolDocument
    TextDocument <- MCTextDocument
    MaxTextRuns = 2
    Blank = Blank
    Long = Long
SPECIFICATION MCSpec
CHECK_DEADLOCK FALSE
INVARIANTS TypesOK OpenedIsMigrated SnapshotStands ProjectionIsNewest
PROPERTIES OnlyNewsAdds ReportsAreTrue OpeningEnds
