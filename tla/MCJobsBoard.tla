---------------------------- MODULE MCJobsBoard ----------------------------
(* Small instances of JobsBoard.                                           *)
EXTENDS JobsBoard
=============================================================================
