----------------------------- MODULE MCRelayServer -----------------------------
(* Instances of RelayServer for TLC. *)
EXTENDS RelayServer, TLC

(* Handlers of equal standing may be swapped, and so may agents. *)
Symmetry == Permutations(Conns) \cup Permutations(Agents)
================================================================================
