CONSTANTS
    q1 = q1  q2 = q2  v1 = v1  v2 = v2  v3 = v3  v4 = v4  t1 = t1  t2 = t2
    None = None  NoTag = NoTag
    Request = {q1, q2}
    Version = {v1, v2, v3, v4}
    Resource <- MCResource
    Size <- MCSize
    Etag <- MCEtag
    ErrorTags = {t1, t2}
    MaxItemBytes = 2
    MaxTotalBytes = 3
    MaxAttempts = 2
    MaxRuns = 3
SPECIFICATION MCSpec
INVARIANTS TypeOK FileIsOneVersion RowStands
PROPERTIES RunEnds
