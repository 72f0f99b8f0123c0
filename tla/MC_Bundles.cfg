SPECIFICATION Spec
CONSTANTS
    BundleNames <- BundleName
    Vars <- RealVars
    Settings <- RealConfigs
    Build <- RealBuild
    Requests <- RealRequests
INVARIANTS
    TypeOK
    DepsAreEarlier
    ReadyMeansAll
    TriggersAreDeps
    SharedAreOrdered
    AptComesFirst
    PlanIsUnion
    DriversAreAlone
    RealConventions
CHECK_DEADLOCK FALSE
