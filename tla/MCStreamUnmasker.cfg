CONSTANTS
    CARRY_BUFFER_SIZE = 3
    MaxLen = 6
    Shapes <- MCShapes
    Known <- MCKnown
    Answers <- MCAnswers
SPECIFICATION RestoreSpec
INVARIANTS
    EndComplete
    BoundedCarry
    WireCutsClean
    SourceComplete
PROPERTIES
    Implements
CHECK_DEADLOCK FALSE
