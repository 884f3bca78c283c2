------------------------------ MODULE MCUpdate ------------------------------
(* Small instances of Updater.                                             *)
EXTENDS Updater
=============================================================================
