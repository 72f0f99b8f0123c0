---------------------------- MODULE MC_UnitFiles ----------------------------
(***************************************************************************)
(* UnitFiles for TLC: two units through every interleaving of three runs   *)
(* with what may go wrong in and between them.                             *)
(***************************************************************************)
EXTENDS UnitFiles, TLC

Sym == Permutations(Units) \cup Permutations(Versions)

=============================================================================
