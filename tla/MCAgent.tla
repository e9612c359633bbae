--------------------------------- MODULE MCAgent -------------------------------
(* Instances of Agent for TLC. *)
EXTENDS Agent, TLC

(* Peers, connections and channels of equal standing may be swapped. *)
Symmetry == Permutations(Peers) \cup Permutations(Links) \cup Permutations(Channels)
================================================================================
