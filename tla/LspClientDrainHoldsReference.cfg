SPECIFICATION Spec
CONSTANTS
    Call = {c1}
    MaxNotes = 1
    PipeSize = 1
    MaxUnread = 1
INVARIANTS
    DrainHoldsReference
CHECK_DEADLOCK FALSE
