SPECIFICATION Spec
CONSTANTS
    Users = {alice, bob}
    alice = alice
    bob = bob
    Groups = {"sudo", "nix-users"}
    Provided = {"nix-users"}
    MayFail = FALSE
    Configs <- AskedOfAll
SYMMETRY Sym
INVARIANT ProvidedGroupsWork
