SPECIFICATION Spec
CONSTANTS
    Call = {c1, c2}
    MaxNotes = 1
    PipeSize = 1
    MaxUnread = 1
SYMMETRY Symmetry
INVARIANTS
    NobodyLeftWaiting
    RepliesFindTheirCall
    InOrder
    FreedInPeace
PROPERTIES
    SettledOnce
    ExitToldLast
CHECK_DEADLOCK FALSE
