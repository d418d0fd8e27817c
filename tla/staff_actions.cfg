SPECIFICATION Spec
CONSTANTS
    Groups = {g1}
    MaxActions = 2
    MaxUndos = 2
    MaxTaps = 3
    Commands <- TwoCommands
    Starts <- AnyStart
    Decisions <- OtherDecisions
    MinTerm = 1
    UndoMargin = 1
    MaxTime = 2
    MaxDelay = 1
    MaxFaults = 1
    g1 = g1
\* The cards, the taps and the time are bounded: the system stops in the end.
CHECK_DEADLOCK FALSE
INVARIANTS
    TypeOK
    OneUndo
    RecordIsTrue
PROPERTIES
    RunsDoNotOvertake
    UndoPutsBack
