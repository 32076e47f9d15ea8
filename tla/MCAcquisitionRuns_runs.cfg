CONSTANTS
    p1 = p1  p2 = p2  a = a  b = b
    None = None
    Process = {p1, p2}
    Item = {1, 2}
    Version = {a, b}
    Material <- MCMaterial
    Declared = {1}
    Mismatching <- MCMismatching
    MaxRuns = 3
SPECIFICATION MCSpec
SYMMETRY Symmetry
CHECK_DEADLOCK FALSE
INVARIANTS TypeOK StoreAgrees SamePlanNeverRedownloads
PROPERTIES ReportStands
