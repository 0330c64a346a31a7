------------------------------- MODULE MCProc -------------------------------
(* Model-checking instance of Proc: init and the other slots of a tiny     *)
(* process table.                                                          *)
EXTENDS Proc

=============================================================================
