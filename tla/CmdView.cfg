SPECIFICATION Spec
CONSTANTS
    View = {output, results}
    Search = {results}
    MaxCmds = 2
    MaxLines = 1
INVARIANTS
    StopReaches
    OutputThenExit
PROPERTIES
    CommandEnds
    PanesShowTheirCommands
CHECK_DEADLOCK FALSE
