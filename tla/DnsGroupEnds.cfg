SPECIFICATION FairSpec
CONSTANTS
    m1 = m1
    m2 = m2
    q1 = q1
    q2 = q2
    NoMember = NoMember
    Members <- TwoMembers
    Queries = {q1}
    Modes = {"stable", "fastest", "parallel"}
    ErrorTTL = 2
    WinTTL = 1
    MaxRecords = 2
PROPERTIES
    QueryReturns
    ElectionEnds
