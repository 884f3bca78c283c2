--------------------------- MODULE MCComputerUse ---------------------------
(* Small instances of ComputerUse.                                         *)
EXTENDS ComputerUse
=============================================================================
