---------------------------- MODULE BlockStore ------------------------------
(***************************************************************************)
(* What the buffer cache promises: every block looks like one memory cell  *)
(* with a lock, however few buffers there are.                             *)
(***************************************************************************)
CONSTANTS Block, Val, Thread, Blank

VARIABLES
    mem,    \* the content of each block
    owners  \* the pairs <<thread, block>> of who has which block locked

Init == mem = [k \in Block |-> Blank] /\ owners = {}

Lock(t, k) ==
    /\ \A u \in Thread : <<u, k>> \notin owners
    /\ owners' = owners \cup {<<t, k>>}
    /\ UNCHANGED mem

Unlock(t, k) ==
    /\ <<t, k>> \in owners
    /\ owners' = owners \ {<<t, k>>}
    /\ UNCHANGED mem

Store(t, k, v) ==
    /\ <<t, k>> \in owners
    /\ mem' = [mem EXCEPT ![k] = v]
    /\ UNCHANGED owners

Next ==
    \E t \in Thread, k \in Block :
        Lock(t, k) \/ Unlock(t, k) \/ \E v \in Val : Store(t, k, v)

Spec == Init /\ [][Next]_<<mem, owners>>

=============================================================================
