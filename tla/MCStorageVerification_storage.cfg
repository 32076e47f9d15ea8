CONSTANTS
    a1 = a1
    a2 = a2
    b1 = b1
    b2 = b2
    b3 = b3
    b4 = b4
    o1 = o1
    o2 = o2
    None = None
    Link = Link
    Adopter = {a1, a2}
    SourceRows <- MCSourceRows
    Content = {b1, b2, b3, b4}
    InitialRoots <- MCInitialRoots
    Declared <- MCDeclared
    Oversize = {b4}
    ExactOnly = {b2}
    Undecodable = {b3}
    PlanLimit = 3
    MaxRuns = 2
    MaxChanges = 1
    EntryLimits = {2, 8}
    Unverifiable = {b2}
SYMMETRY Interchangeable
SPECIFICATION Spec
CHECK_DEADLOCK FALSE
INVARIANTS VTypeOK AdoptedIsTrue ReportIsTrue
PROPERTIES SecondAssetByStalePlan
