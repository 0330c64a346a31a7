----------------------------- MODULE MCSandbox ------------------------------
(***************************************************************************)
(* Model-checking instance of Sandbox.  Audit and strict mode concern a    *)
(* process and its parent, what is inherited a whole line of ancestors:    *)
(* the instance explores every state of a parent and a child, whose slot   *)
(* is used again while the modes are off, and of three processes with the  *)
(* modes off until one of them exits or is killed.                         *)
(***************************************************************************)
EXTENDS Sandbox

CONSTANT third   \* the slot of the third process

ModesOff == \A p \in Slot : ~audit_enabled[p] /\ ~strict_mode[p]

Explored ==
    \/ /\ state[third] = "UNUSED"
       /\ ModesOff \/ nextpid <= MaxPid
    \/ /\ ModesOff
       /\ \A p \in Slot :
            ~killed[p] /\ pc[p] # "exit" /\ state[p] \notin {"UNUSED", "ZOMBIE"}

MCNext ==
    \/ SandboxNext /\ Explored'
    \/ state[third] # "UNUSED" /\ UNCHANGED sandboxvars

MCSpec == SandboxInit /\ [][MCNext]_sandboxvars

=============================================================================
