CONSTANTS
    N = 5
    Plans <- PackagesPlans
    Kind <- PackagesKind
    Trigger <- PackagesTrigger
    Family <- PackagesFamily
    SkipWhen <- PackagesSkip
    MaxRuns = 2
SPECIFICATION FairSpec
INVARIANTS
    TypeOK
    DepsSettled
    ReportComplete
    Converged
    NoLostTrigger
PROPERTIES
    NoSpuriousTrigger
    DryRunIsPure
    ImplementsDagRun
    RunTerminates
    RunEnds
CHECK_DEADLOCK FALSE
