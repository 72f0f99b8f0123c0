CONSTANTS
    N = 3
    Plans <- TweaksPlans
    Kind <- TweaksKind
    Trigger <- TweaksTrigger
    Family <- TweaksFamily
    SkipWhen <- TweaksSkip
    MaxRuns = 2
SPECIFICATION FairSpec
INVARIANTS
    HandlersConverge
CHECK_DEADLOCK FALSE
