------------------------------ MODULE MCFileSender ------------------------------
(* Instances of FileSender for TLC. *)
EXTENDS FileSender
================================================================================
