----------------------------- MODULE MC_FolderSync -----------------------------
(* Two paths that are written three times between them, with time stamps that *)
(* may go back and fall within the second the comparison tolerates.           *)
EXTENDS FolderSync, TLC

PathSymmetry == Permutations(Paths)
=============================================================================
