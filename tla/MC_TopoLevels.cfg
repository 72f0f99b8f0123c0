CONSTANTS
    N = 3
    Plans <- SmallPlans
SPECIFICATION TopoSpec
INVARIANTS
    TopoTypeOK
    LevelsExact
    VerdictIsTrue
PROPERTIES
    SortEnds
CHECK_DEADLOCK FALSE
