------------------------------- MODULE MCPluginBus ------------------------------
(* Instances of PluginBus for TLC. *)
EXTENDS PluginBus
================================================================================
