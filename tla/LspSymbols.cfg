SPECIFICATION FairSpec
CONSTANTS
    d1 = d1
    d2 = d2
    d3 = d3
    s1 = s1
    s2 = s2
    Doc = {d1, d2, d3}
    Server = {s1, s2}
    None = None
    ServerOf <- TwoServers
    MaxActs = 4
    MaxFailures = 1
INVARIANTS
    OneRequest
    QuietTreeIsCurrent
PROPERTIES
    OthersAreAnswered
    FillsTheActive
    KeepsUp
CHECK_DEADLOCK FALSE
