----------------------------- MODULE MCRelayClient -----------------------------
(* Instances of RelayClient for TLC. *)
EXTENDS RelayClient
================================================================================
