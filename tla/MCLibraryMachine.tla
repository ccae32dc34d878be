-------------------------- MODULE MCLibraryMachine --------------------------
(* Small instances of LibraryMachine for TLC. *)
EXTENDS LibraryMachine
==============================================================================
