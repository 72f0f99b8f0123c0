SPECIFICATION Spec
CONSTANTS
    local = local
    private = private
    iptables = iptables
    rules4 = rules4
    rules6 = rules6
    run_args = run_args
    asc = asc
    vteA = vteA
    vteB = vteB
    sh = sh
    qemu = qemu
    v1 = v1
    v2 = v2
    edited = edited
    bash = bash
    dash = dash
    right = right
    wrong = wrong
    other = other
    Paths <- ThePaths
    Plans <- ThePlans
    Kind <- TheKind
    Above <- TheAbove
    Mode <- TheMode
    Owner <- TheOwner
    Configs <- TheConfigs
    Found <- TheFound
    Modes = {"644", "600"}
    Umasked = {"644", "600"}
    Users = {"alice"}
    Nothing = Nothing
    Partial = Partial
    Lines = {right, wrong, other}
    Matching = {right, wrong}
    Line = right
    MayFail = FALSE
INVARIANT AbsentIsGone
