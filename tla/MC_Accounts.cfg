SPECIFICATION Spec
CONSTANTS
    Users = {alice, bob}
    alice = alice
    bob = bob
    Groups = {"sudo", "docker"}
    Provided = {"docker"}
    MayFail = TRUE
    Configs <- Asked
SYMMETRY Sym
INVARIANTS TypeOK OkUsers
PROPERTY PasswordsAreKept
