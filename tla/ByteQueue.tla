----------------------------- MODULE ByteQueue ------------------------------
(***************************************************************************)
(* What a pipe promises: bytes come out in the order they went in, each    *)
(* once, and at most Capacity of them are under way.                       *)
(***************************************************************************)
EXTENDS Naturals, Sequences

CONSTANTS Byte, Capacity

VARIABLES
    queue,  \* the bytes written and not read
    taken   \* the last byte read

Init == queue = <<>> /\ taken \in Byte

Put(ch) ==
    /\ Len(queue) < Capacity
    /\ queue' = Append(queue, ch)
    /\ UNCHANGED taken

Get ==
    /\ queue # <<>>
    /\ taken' = Head(queue)
    /\ queue' = Tail(queue)

Next == Get \/ \E ch \in Byte : Put(ch)

Spec == Init /\ [][Next]_<<queue, taken>>

=============================================================================
