----------------------------- MODULE LineQueue -----------------------------
(***************************************************************************)
(* What the console promises its readers: a line being edited, a queue of  *)
(* finished input in front of it, and reads that never run past the end of *)
(* a line or swallow an end-of-file mark together with other input.        *)
(***************************************************************************)
EXTENDS Naturals, Sequences

CONSTANTS
  Size,     \* characters the console can hold
  Letters,  \* ordinary characters
  NL,       \* the newline
  EOF       \* control-D

VARIABLES
  done,     \* finished input, not yet read
  edit      \* the line being edited

Ends == {NL, EOF}

QueueInit ==
  /\ done = << >>
  /\ edit = << >>

\* A character is accepted while there is room; the end of a line, or of the
\* room, finishes what was being edited.
Accept(c) ==
  /\ Len(done) + Len(edit) < Size
  /\ IF c \in Ends \/ Len(done) + Len(edit) + 1 = Size
     THEN /\ done' = done \o Append(edit, c)
          /\ edit' = << >>
     ELSE /\ edit' = Append(edit, c)
          /\ UNCHANGED done

\* Erasing touches only the line being edited.
Erase ==
  /\ edit # << >>
  /\ edit' = SubSeq(edit, 1, Len(edit) - 1)
  /\ UNCHANGED done

EraseLine ==
  /\ edit' = << >>
  /\ UNCHANGED done

\* One read takes k characters off the front: no line end before the last
\* of them, and an end-of-file mark only by itself.
Deliver(k) ==
  /\ \A i \in 1 .. k - 1 : done[i] \notin Ends
  /\ done[k] = EOF => k = 1
  /\ done' = SubSeq(done, k + 1, Len(done))
  /\ UNCHANGED edit

QueueNext ==
  \/ \E c \in Letters \cup Ends : Accept(c)
  \/ Erase
  \/ EraseLine
  \/ \E k \in 1 .. Len(done) : Deliver(k)

LineQueueSpec == QueueInit /\ [][QueueNext]_<<done, edit>>
=============================================================================
