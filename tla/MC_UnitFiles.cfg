SPECIFICATION Spec
CONSTANTS
    Units = {u1, u2}
    Versions = {v1}
    Modes = {"644", "600"}
    Umasked = {"600"}
    Want = "644"
    MaxRuns = 3
    u1 = u1
    u2 = u2
    v1 = v1
SYMMETRY Sym
INVARIANTS TypeOK OkInstalled OkRuns
PROPERTIES WholeFileWrites RestartsAreFresh
