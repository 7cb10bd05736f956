SPECIFICATION Spec
CONSTANTS
    Docs = {d1, d2}
    NoDoc = NoDoc
    Texts <- FourTexts
    MonitorIds <- SixIds
    AutoSync = {TRUE, FALSE}
    MaxActs = 3
    MaxFailures = 1
    MaxDepth = 4
    MaxOrphans = 1
INVARIANT OneTimer
CHECK_DEADLOCK FALSE
