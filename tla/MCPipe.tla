------------------------------ MODULE MCPipe --------------------------------
(* Model-checking instance of Pipe.                                        *)
EXTENDS Pipe

=============================================================================
