SPECIFICATION FairSpec
CONSTANTS
    Call = {c1}
    MaxNotes = 2
    PipeSize = 1
    MaxUnread = 1
PROPERTIES
    EveryoneIsTold
    EverythingIsHeard
CHECK_DEADLOCK FALSE
