----------------------------- MODULE MCModules -----------------------------
(* Modules with a few files, for TLC.                                      *)
EXTENDS Modules

=============================================================================
