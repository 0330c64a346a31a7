-------------------------------- MODULE Pipe --------------------------------
(***************************************************************************)
(* One pipe of kernel/pipe.c with its readers and writers.  pi->lock is    *)
(* explicit: a call holds it from end to end except while it sleeps, so    *)
(* that kills and waiting callers interleave with every byte copied.       *)
(* nread and nwrite are unsigned counters that wrap at UintSize.           *)
(***************************************************************************)
EXTENDS Naturals, Sequences

CONSTANTS
    Reader, Writer,  \* the processes that use either end
    NoProc,          \* "nobody holds pi->lock"
    Byte,
    PIPESIZE,
    UintSize,        \* 2^32
    CallSizes        \* the numbers of bytes asked for in one call

Proc == Reader \cup Writer

ASSUME PipeProcAssumption == Reader \cap Writer = {} /\ NoProc \notin Proc
ASSUME PipeSizeAssumption ==
    /\ PIPESIZE \in Nat \ {0} /\ UintSize \in Nat /\ PIPESIZE < UintSize
    /\ UintSize % PIPESIZE = 0
    /\ CallSizes \subseteq Nat

VARIABLES
    data,       \* pi->data
    nread, nwrite,
    readopen, writeopen,
    lock,       \* the holder of pi->lock
    pc,         \* where each process is in piperead() or pipewrite()
    left,       \* bytes its call has still to copy, n - i
    killed,     \* p->killed
    taken       \* history: the last byte piperead() took out

pipevars == <<data, nread, nwrite, readopen, writeopen, lock, pc, left, killed, taken>>

ring == <<data, nread, nwrite, taken>>

(* "out": not in a call; "enter": about to acquire pi->lock (first or      *)
(* again, after sleep); "loop": holding it at the head of the while loop;  *)
(* "copy": in piperead()'s for loop; "doze": past the test of killed(), on *)
(* its way into sleep(); "asleep": in sleep(&pi->nread) for a reader and   *)
(* sleep(&pi->nwrite) for a writer.                                        *)
Places == {"out", "enter", "loop", "copy", "doze", "asleep"}

PipeTypeOK ==
    /\ data \in [0 .. PIPESIZE - 1 -> Byte]
    /\ nread \in 0 .. UintSize - 1 /\ nwrite \in 0 .. UintSize - 1
    /\ readopen \in BOOLEAN /\ writeopen \in BOOLEAN
    /\ lock \in Proc \cup {NoProc}
    /\ pc \in [Proc -> Places]
    /\ left \in [Proc -> Nat]
    /\ killed \in [Proc -> BOOLEAN]
    /\ taken \in Byte

(* pipealloc(); the page from kalloc() holds arbitrary bytes.              *)
PipeInit ==
    /\ data \in [0 .. PIPESIZE - 1 -> Byte]
    /\ nread = 0 /\ nwrite = 0
    /\ readopen = TRUE /\ writeopen = TRUE
    /\ lock = NoProc
    /\ pc = [p \in Proc |-> "out"]
    /\ left = [p \in Proc |-> 0]
    /\ killed = [p \in Proc |-> FALSE]
    /\ taken \in Byte

-----------------------------------------------------------------------------
(* Unsigned addition: it wraps once for the sums that occur here.          *)
Plus(n, k) == IF n + k < UintSize THEN n + k ELSE n + k - UintSize

Empty == nread = nwrite

Full == nwrite = Plus(nread, PIPESIZE)

Wake(who, places) ==
    [p \in Proc |-> IF p \in who /\ places[p] = "asleep" THEN "enter" ELSE places[p]]

Call(p, n) ==
    /\ pc[p] = "out"
    /\ ~killed[p]
    /\ IF p \in Reader THEN readopen ELSE writeopen
    /\ pc' = [pc EXCEPT ![p] = "enter"]
    /\ left' = [left EXCEPT ![p] = n]
    /\ UNCHANGED <<ring, readopen, writeopen, lock, killed>>

Acquire(p) ==
    /\ pc[p] = "enter"
    /\ lock = NoProc
    /\ lock' = p
    /\ pc' = [pc EXCEPT ![p] = "loop"]
    /\ UNCHANGED <<ring, readopen, writeopen, left, killed>>

(* Leave the call; whom, if anybody, it wakes first.                       *)
Leave(p, woken) ==
    /\ lock' = NoProc
    /\ pc' = Wake(woken, [pc EXCEPT ![p] = "out"])
    /\ left' = [left EXCEPT ![p] = 0]
    /\ UNCHANGED <<ring, readopen, writeopen, killed>>

Doze(p, woken) ==
    /\ pc' = Wake(woken, [pc EXCEPT ![p] = "doze"])
    /\ UNCHANGED <<ring, readopen, writeopen, lock, left, killed>>

Sleep(p) ==
    /\ pc[p] = "doze"
    /\ lock' = NoProc
    /\ pc' = [pc EXCEPT ![p] = "asleep"]
    /\ UNCHANGED <<ring, readopen, writeopen, left, killed>>

-----------------------------------------------------------------------------
Writing(p) == p \in Writer /\ pc[p] = "loop"

(* -1, with nobody woken.                                                  *)
WriteFails(p) ==
    /\ Writing(p)
    /\ left[p] > 0
    /\ ~readopen \/ killed[p]
    /\ Leave(p, {})

WriteFull(p) ==
    /\ Writing(p)
    /\ left[p] > 0
    /\ readopen /\ ~killed[p] /\ Full
    /\ Doze(p, Reader)

(* Mutant: the slot is computed from nread.                                *)
PutByteMisplaced(p, ch) ==
    /\ Writing(p)
    /\ left[p] > 0
    /\ readopen /\ ~killed[p] /\ ~Full
    /\ data' = [data EXCEPT ![nread % PIPESIZE] = ch]
    /\ nwrite' = Plus(nwrite, 1)
    /\ left' = [left EXCEPT ![p] = @ - 1]
    /\ UNCHANGED <<nread, taken, readopen, writeopen, lock, pc, killed>>

PutByte(p, ch) ==
    /\ Writing(p)
    /\ left[p] > 0
    /\ readopen /\ ~killed[p] /\ ~Full
    /\ data' = [data EXCEPT ![nwrite % PIPESIZE] = ch]
    /\ nwrite' = Plus(nwrite, 1)
    /\ left' = [left EXCEPT ![p] = @ - 1]
    /\ UNCHANGED <<nread, taken, readopen, writeopen, lock, pc, killed>>

(* The loop ends, or copyin() fails in its body.                           *)
WriteDone(p) ==
    /\ Writing(p)
    /\ left[p] > 0 => readopen /\ ~killed[p] /\ ~Full
    /\ Leave(p, Reader)

-----------------------------------------------------------------------------
Reading(p, place) == p \in Reader /\ pc[p] = place

ReadFails(p) ==
    /\ Reading(p, "loop")
    /\ Empty /\ writeopen
    /\ killed[p]
    /\ Leave(p, {})

ReadEmpty(p) ==
    /\ Reading(p, "loop")
    /\ Empty /\ writeopen
    /\ ~killed[p]
    /\ Doze(p, {})

ReadReady(p) ==
    /\ Reading(p, "loop")
    /\ ~Empty \/ ~writeopen
    /\ pc' = [pc EXCEPT ![p] = "copy"]
    /\ UNCHANGED <<ring, readopen, writeopen, lock, left, killed>>

GetByte(p) ==
    /\ Reading(p, "copy")
    /\ left[p] > 0
    /\ ~Empty
    /\ taken' = data[nread % PIPESIZE]
    /\ nread' = Plus(nread, 1)
    /\ left' = [left EXCEPT ![p] = @ - 1]
    /\ UNCHANGED <<data, nwrite, readopen, writeopen, lock, pc, killed>>

(* The loop ends, the pipe is empty, or copyout() fails.                   *)
ReadDone(p) == Reading(p, "copy") /\ Leave(p, Writer)

-----------------------------------------------------------------------------
(* pipeclose(), when the last file on an end goes away: no process with    *)
(* that end is inside a call then (fileclose() counts references).         *)
CloseRead ==
    /\ readopen
    /\ \A p \in Reader : pc[p] = "out"
    /\ lock = NoProc
    /\ readopen' = FALSE
    /\ pc' = Wake(Writer, pc)
    /\ UNCHANGED <<ring, writeopen, lock, left, killed>>

(* Mutant: closing the write end wakes nobody.                             *)
CloseWriteSilent ==
    /\ writeopen
    /\ \A p \in Writer : pc[p] = "out"
    /\ lock = NoProc
    /\ writeopen' = FALSE
    /\ UNCHANGED <<ring, readopen, lock, pc, left, killed>>

CloseWrite ==
    /\ writeopen
    /\ \A p \in Writer : pc[p] = "out"
    /\ lock = NoProc
    /\ writeopen' = FALSE
    /\ pc' = Wake(Reader, pc)
    /\ UNCHANGED <<ring, readopen, lock, left, killed>>

(* kkill(): a sleeper is woken, whatever it sleeps on.                     *)
Kill(p) ==
    /\ ~killed[p]
    /\ killed' = [killed EXCEPT ![p] = TRUE]
    /\ pc' = Wake({p}, pc)
    /\ UNCHANGED <<ring, readopen, writeopen, lock, left>>

-----------------------------------------------------------------------------
(* What a process inside a call does next.                                 *)
InCall(p) ==
    \/ Acquire(p) \/ Sleep(p)
    \/ WriteFails(p) \/ WriteFull(p) \/ WriteDone(p)
    \/ \E ch \in Byte : PutByte(p, ch)
    \/ ReadFails(p) \/ ReadEmpty(p) \/ ReadReady(p) \/ GetByte(p) \/ ReadDone(p)

PipeNext ==
    \/ \E p \in Proc : InCall(p) \/ Kill(p) \/ \E n \in CallSizes : Call(p, n)
    \/ CloseRead \/ CloseWrite

PipeSpec == PipeInit /\ [][PipeNext]_pipevars

-----------------------------------------------------------------------------
Count == IF nread <= nwrite THEN nwrite - nread ELSE nwrite + UintSize - nread

Buffered == [i \in 1 .. Count |-> data[(nread + i - 1) % PIPESIZE]]

(* First in, first out, nothing lost or made up, across the wrap of the    *)
(* ring and of the counters: the pipe implements a bounded byte queue.     *)
Stream == INSTANCE ByteQueue WITH queue <- Buffered, Capacity <- PIPESIZE

Fifo == Stream!Spec

(* A writer asleep with the lock free sleeps on a full pipe that someone   *)
(* may still read: every change of that wakes it.                          *)
WriterSleepsOnFull ==
    \A p \in Writer : pc[p] = "asleep" /\ lock = NoProc => Full /\ readopen

(* A reader asleep with the lock free sleeps on an empty pipe that someone *)
(* may still write, unless a writer was killed: pipewrite() then returns   *)
(* -1 past the wakeup() for the bytes it has already put in.               *)
ReaderSleepsOnEmpty ==
    \A p \in Reader : pc[p] = "asleep" /\ lock = NoProc =>
        writeopen /\ (Empty \/ \E w \in Writer : killed[w])

(* Readers and writers never wait for each other.                          *)
NoStandoff ==
    ~ \E r \in Reader, w \in Writer : pc[r] = "asleep" /\ pc[w] = "asleep"

(* The inductive invariant behind these three.  pi->lock covers everything *)
(* but sleep, an end is closed only by its last user, and while the pipe   *)
(* is not what a sleeper waits for, the process that changed it still      *)
(* holds the lock and will wake it.                                        *)
PipeLockInv ==
    \A p \in Proc :
        /\ pc[p] \in {"loop", "copy", "doze"} <=> lock = p
        /\ pc[p] = "copy" => p \in Reader

OpenInv ==
    /\ ~readopen => \A p \in Reader : pc[p] = "out"
    /\ ~writeopen => \A p \in Writer : pc[p] = "out"

WriterInv ==
    \A w \in Writer :
        /\ pc[w] \in {"doze", "asleep"} => readopen
        /\ pc[w] = "doze" => Full /\ \A r \in Reader : pc[r] # "asleep"
        /\ pc[w] = "asleep" => Full \/ \E r \in Reader : lock = r /\ pc[r] = "copy"

ReaderInv ==
    \A r \in Reader :
        /\ pc[r] \in {"doze", "asleep"} => writeopen
        /\ pc[r] = "doze" => Empty
        /\ pc[r] = "asleep" => Empty \/ lock \in Writer \/ \E w \in Writer : killed[w]

(* Beside them, the two counters are never more than a ring apart.         *)
PipeInv ==
    /\ PipeTypeOK /\ PipeLockInv /\ OpenInv /\ WriterInv /\ ReaderInv /\ NoStandoff
    /\ Count <= PIPESIZE

-----------------------------------------------------------------------------
(* Fairness: whoever is in a call goes on, and gets pi->lock in the end.   *)
FairPipeSpec == PipeSpec /\ \A p \in Proc : SF_pipevars(InCall(p))

(* End of file: once the writers are gone a reader gets out of its call.   *)
ReaderSeesEnd ==
    \A p \in Reader : ~writeopen /\ pc[p] # "out" ~> pc[p] = "out"

=============================================================================
