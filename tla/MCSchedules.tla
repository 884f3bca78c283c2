---------------------------- MODULE MCSchedules -----------------------------
(* A small instance of Schedules.                                          *)
EXTENDS Schedules
=============================================================================
