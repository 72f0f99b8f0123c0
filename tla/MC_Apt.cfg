SPECIFICATION FairSpec
CONSTANTS
    Packages <- MCPackages
    Needs <- MCNeeds
    Wanted <- MCWanted
    Unwanted <- MCUnwanted
    MaxFaults = 2
INVARIANTS
    TypeOK
    OkPackages
    NoSecondLoss
PROPERTIES
    Recovers
