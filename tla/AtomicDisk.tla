----------------------------- MODULE AtomicDisk -----------------------------
(***************************************************************************)
(* What the logging layer promises to the file system: block writes made   *)
(* between begin_op() and end_op() reach the disk together, only when no   *)
(* operation is under way, and a crash falls back to the last such point,  *)
(* so that no operation is ever seen half done.                            *)
(***************************************************************************)
CONSTANTS Block, Val, Thread, Blank

VARIABLES
    durable,  \* what is on the disk if the machine stops now and recovers
    current,  \* what the file system reads now
    active    \* the threads between begin_op() and end_op()

Init ==
    /\ durable = [b \in Block |-> Blank]
    /\ current = [b \in Block |-> Blank]
    /\ active = {}

Begin(p) ==
    /\ p \notin active
    /\ active' = active \cup {p}
    /\ UNCHANGED <<durable, current>>

Write(p, b, v) ==
    /\ p \in active
    /\ current' = [current EXCEPT ![b] = v]
    /\ UNCHANGED <<durable, active>>

End(p) ==
    /\ p \in active
    /\ active' = active \ {p}
    /\ UNCHANGED <<durable, current>>

Commit ==
    /\ active = {}
    /\ durable' = current
    /\ UNCHANGED <<current, active>>

Crash ==
    /\ current' = durable
    /\ active' = {}
    /\ UNCHANGED durable

Next ==
    \/ \E p \in Thread : Begin(p) \/ End(p)
    \/ \E p \in Thread, b \in Block, v \in Val : Write(p, b, v)
    \/ Commit
    \/ Crash

Spec == Init /\ [][Next]_<<durable, current, active>>

=============================================================================
