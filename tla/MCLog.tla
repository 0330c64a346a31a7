------------------------------- MODULE MCLog --------------------------------
(* Model-checking instance of Log.  Threads and blocks are                 *)
(* interchangeable, but its liveness property rules symmetry out.          *)
EXTENDS Log

=============================================================================
