SPECIFICATION Spec
CONSTANTS
    m1 = m1
    m2 = m2
    q1 = q1
    q2 = q2
    NoMember = NoMember
    Members <- TwoMembers
    Queries <- TwoQueries
    Modes = {"stable", "fastest", "parallel"}
    ErrorTTL = 1
    WinTTL = 2
    MaxRecords = 2
SYMMETRY Symmetry
INVARIANTS
    TypeOK
    ElectionOwned
    AmnestyHolds
