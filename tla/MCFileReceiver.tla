---------------------------- MODULE MCFileReceiver -----------------------------
(* Instances of FileReceiver for TLC. *)
EXTENDS FileReceiver
================================================================================
