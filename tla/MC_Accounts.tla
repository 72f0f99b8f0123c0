---------------------------- MODULE MC_Accounts ----------------------------
(***************************************************************************)
(* Accounts for TLC: two users, one with a password and a group of its     *)
(* own, under two configurations; or two users in a group that a package   *)
(* brings.  There is no bound on the number of runs: the state of the host *)
(* is finite.                                                              *)
(***************************************************************************)
EXTENDS Accounts, TLC

Asked ==
    {[groups |-> {"sudo"}, password |-> "hash"],
     [groups |-> {"sudo", "docker"}, password |-> "none"]}

AskedOfAll == {[groups |-> {"sudo", "nix-users"}, password |-> "none"]}

Sym == Permutations(Users)

=============================================================================
