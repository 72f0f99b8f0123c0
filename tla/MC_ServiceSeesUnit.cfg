SPECIFICATION Spec
CONSTANTS
    Units = {u1}
    Versions = {v1, v2}
    Modes = {"644", "600"}
    Umasked = {"644", "600"}
    Want = "644"
    MaxRuns = 3
    u1 = u1
    v1 = v1
    v2 = v2
SYMMETRY Sym
INVARIANT ServiceSeesUnit
