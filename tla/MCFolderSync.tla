----------------------------- MODULE MCFolderSync ------------------------------
(* Instances of FolderSync for TLC. *)
EXTENDS FolderSync, TLC

(* Files, contents and agents of equal standing may be swapped. *)
Symmetry == Permutations(Files) \cup Permutations(Contents) \cup Permutations(Peers)
================================================================================
