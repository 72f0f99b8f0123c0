CONSTANTS
    N = 4
    Plans <- DockerPlans
    Kind <- DockerKind
    Trigger <- DockerTrigger
    Family <- DockerFamily
    SkipWhen <- DockerSkip
    MaxRuns = 1
SPECIFICATION FairSpec
INVARIANTS
    MarkerForwardsChange
CHECK_DEADLOCK FALSE
