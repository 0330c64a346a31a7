------------------------------ MODULE Console ------------------------------
(***************************************************************************)
(* The console and the UART below it (kernel/console.c, kernel/uart.c,     *)
(* kernel/plic.c).  Processes read and write; the interrupt handler edits  *)
(* the line being typed, echoes it and restarts the transmitter.           *)
(*                                                                         *)
(* consoleread holds cons.lock from the moment it wakes until it returns   *)
(* or sleeps, and consoleintr for its whole body, so each is one step.     *)
(* The UART's transmit side is guarded by tx_lock, but the device, the     *)
(* echo and printf() do not take it: its steps are separate.               *)
(***************************************************************************)
EXTENDS Integers, FiniteSets, Sequences

CONSTANTS
  Tty,             \* the processes that use the console
  Letters,         \* ordinary characters
  INPUT_BUF_SIZE,  \* size of cons.buf
  UINT,            \* the counters r, w and e are unsigned: modulo UINT
  Requests,        \* the byte counts of read() and write()
  BATCH,           \* sizeof(buf) in consolewrite
  Readers,         \* the processes that read
  Writers,         \* the processes that write
  Mortals          \* the processes that may be killed

\* The counters wrap to a slot boundary, as 2^32 does for 128.
ASSUME ConsoleAssumption ==
  /\ INPUT_BUF_SIZE \in Nat \ {0}
  /\ UINT \in Nat
  /\ UINT > INPUT_BUF_SIZE
  /\ UINT % INPUT_BUF_SIZE = 0
  /\ BATCH \in Nat \ {0}
  /\ Requests \subseteq Nat \ {0}   \* a call for no byte returns at once
  /\ Readers \cup Writers \cup Mortals \subseteq Tty
  /\ "nobody" \notin Tty

VARIABLES
  cons,      \* [buf, r, w, e]: the input ring and its three counters
  tty,       \* process -> [pc, left, target, killed]: its call in progress
  fifo,      \* characters in the transmitter
  tx_busy,   \* uart.c's flag: a sent character is not known to be out
  tx_lock,   \* the process inside uartwrite, or Nobody
  txi,       \* the device raised "transmitter empty" and it was not read
  rx_ready,  \* a received character waits in RHR; which one is chosen on reading
  intr,      \* where uartintr is: "off", "tx" or "rx"
  printing   \* a printf() has seen the transmitter empty and not written yet

consoleVars == <<cons, tty, fifo, tx_busy, tx_lock, txi, rx_ready, intr, printing>>

NL == "nl"
CtrlD == "ctrl-d"
CtrlU == "ctrl-u"
CtrlH == "ctrl-h"
CtrlP == "ctrl-p"
Nul == "nul"
NoChar == "none"
Nobody == "nobody"
Keys == Letters \cup {NL, CtrlD, CtrlU, CtrlH, CtrlP, Nul}

Forward(x, n) == (x + n) % UINT
Apart(x, y) == (x - y) % UINT
Slot(x) == x % INPUT_BUF_SIZE

\* The characters of the ring between two counters.
Ring(from, to) == [i \in 1 .. Apart(to, from) |-> cons.buf[Slot(from + i - 1)]]
Committed == Ring(cons.r, cons.w)
Editing == Ring(cons.w, cons.e)

Idle(p) == [tty[p] EXCEPT !.pc = "user", !.left = 0, !.target = 0]

ConsoleInit ==
  /\ cons = [buf |-> [i \in 0 .. INPUT_BUF_SIZE - 1 |-> NoChar],
             r |-> 0, w |-> 0, e |-> 0]
  /\ tty = [p \in Tty |->
             [pc |-> "user", left |-> 0, target |-> 0, killed |-> FALSE]]
  /\ fifo = 0
  /\ tx_busy = FALSE
  /\ tx_lock = Nobody
  /\ txi = FALSE
  /\ rx_ready = FALSE
  /\ intr = "off"
  /\ printing = FALSE

-----------------------------------------------------------------------------
(***************************************************************************)
(* read().                                                                 *)
(***************************************************************************)
\* The process enters consoleread or consolewrite.
ConsoleCall(p, n) ==
  /\ tty[p].pc = "user"
  /\ ~ tty[p].killed
  /\ \E pc \in {"read", "copyin"} :
       /\ p \in IF pc = "read" THEN Readers ELSE Writers
       /\ tty' = [tty EXCEPT ![p].pc = pc, ![p].left = n, ![p].target = n]
  /\ UNCHANGED <<cons, fifo, tx_busy, tx_lock, txi, rx_ready, intr>>

\* Nothing to read: give up if killed, else sleep on cons.r.
ConsoleEmpty(p) ==
  /\ tty[p].pc = "read"
  /\ cons.r = cons.w
  /\ tty' = [tty EXCEPT ![p] = IF @.killed THEN Idle(p)
                                           ELSE [@ EXCEPT !.pc = "rsleep"]]
  /\ UNCHANGED <<cons, fifo, tx_busy, tx_lock, txi, rx_ready, intr>>

\* How many committed characters come before the first one that ends a read:
\* the one number with these two properties.
Plain(s) ==
  {k \in 0 .. Len(s) :
     /\ \A i \in 1 .. k : s[i] \notin {NL, CtrlD}
     /\ k < Len(s) => s[k + 1] \in {NL, CtrlD}}

\* Mutant: a control-D that comes first ends a read that has copied something.
ReadLoopTakesEof(s, k, left, target) ==
  LET plain == IF left <= k THEN left ELSE k
      atEnd == left > k /\ k < Len(s)
      newline == atEnd /\ s[k + 1] = NL
      eof == atEnd /\ s[k + 1] = CtrlD /\ k = 0
  IN  [took |-> IF newline \/ eof THEN k + 1 ELSE plain,
       kept |-> IF newline THEN k + 1 ELSE plain,
       stop |-> left <= k \/ atEnd]

\* The loop of consoleread from here to its return or its next sleep, when
\* every copyout succeeds: took characters leave the ring, stop says whether
\* the read is over.  A control-D is put back unless it comes first.
ReadLoop(s, k, left, target) ==
  LET plain == IF left <= k THEN left ELSE k
      atEnd == left > k /\ k < Len(s)
      newline == atEnd /\ s[k + 1] = NL
      eof == atEnd /\ s[k + 1] = CtrlD /\ k = 0 /\ left = target
  IN  [took |-> IF newline \/ eof THEN k + 1 ELSE plain,
       kept |-> IF newline THEN k + 1 ELSE plain,
       stop |-> left <= k \/ atEnd]

\* Out of input before its end, the read sleeps for more, unless it was killed.
AfterRead(p, x) ==
  IF x.stop \/ tty[p].killed THEN Idle(p)
  ELSE [tty[p] EXCEPT !.pc = "rsleep", !.left = tty[p].left - x.kept]

\* A read that finds input.
Read(p) ==
  /\ tty[p].pc = "read"
  /\ cons.r # cons.w
  /\ \E n \in Plain(Committed) :
       LET x == ReadLoop(Committed, n, tty[p].left, tty[p].target) IN
         /\ cons' = [cons EXCEPT !.r = Forward(@, x.took)]
         /\ tty' = [tty EXCEPT ![p] = AfterRead(p, x)]
  /\ UNCHANGED <<fifo, tx_busy, tx_lock, txi, rx_ready, intr>>

\* The copyout of the k-th character fails: it has left the ring all the same.
ReadFault(p) ==
  /\ tty[p].pc = "read"
  /\ cons.r # cons.w
  /\ \E n \in Plain(Committed) :
       \E k \in 1 .. ReadLoop(Committed, n, tty[p].left, tty[p].target).kept :
         /\ cons' = [cons EXCEPT !.r = Forward(@, k)]
         /\ tty' = [tty EXCEPT ![p] = Idle(p)]
  /\ UNCHANGED <<fifo, tx_busy, tx_lock, txi, rx_ready, intr>>

\* kill(): the flag, and out of any sleep.
Awake(p) ==
  CASE tty[p].pc = "rsleep" -> "read"
    [] tty[p].pc = "wsleep" -> "write"
    [] OTHER                -> tty[p].pc

ConsoleKill(p) ==
  /\ p \in Mortals
  /\ ~ tty[p].killed
  /\ tty' = [tty EXCEPT ![p].killed = TRUE, ![p].pc = Awake(p)]
  /\ UNCHANGED <<cons, fifo, tx_busy, tx_lock, txi, rx_ready, intr>>

-----------------------------------------------------------------------------
(***************************************************************************)
(* write().                                                                *)
(***************************************************************************)
\* consolewrite fetches the next batch; it stops early when it cannot.
CopyIn(p) ==
  /\ tty[p].pc = "copyin"
  /\ \E ok \in BOOLEAN :
       tty' = [tty EXCEPT ![p] = IF ok THEN [@ EXCEPT !.pc = "write"]
                                       ELSE Idle(p)]
  /\ UNCHANGED <<cons, fifo, tx_busy, tx_lock, txi, rx_ready, intr>>

\* uartwrite with tx_lock: sleep while the transmitter is busy, else hand it
\* the next character.
UartWrite(p) ==
  /\ tty[p].pc = "write"
  /\ tx_lock = Nobody
  /\ IF tx_busy
     THEN /\ tty' = [tty EXCEPT ![p].pc = "wsleep"]
          /\ UNCHANGED <<fifo, tx_lock>>
     ELSE /\ tty' = [tty EXCEPT ![p].pc = "wbusy"]
          /\ fifo' = fifo + 1
          /\ tx_lock' = p
  /\ UNCHANGED <<cons, tx_busy, txi, rx_ready, intr>>

\* tx_busy = 1; then the call, or the batch, is over, or uartwrite goes round
\* its loop and sleeps on the flag it has just set.
AfterByte(p) ==
  LET left == tty[p].left - 1 IN
  IF left = 0 THEN Idle(p)
  ELSE [tty[p] EXCEPT !.left = left,
                      !.pc = IF (tty[p].target - left) % BATCH = 0
                             THEN "copyin" ELSE "wsleep"]

UartBusy(p) ==
  /\ tty[p].pc = "wbusy"
  /\ tx_busy' = TRUE
  /\ tx_lock' = Nobody
  /\ tty' = [tty EXCEPT ![p] = AfterByte(p)]
  /\ UNCHANGED <<cons, fifo, txi, rx_ready, intr>>

-----------------------------------------------------------------------------
(***************************************************************************)
(* The device, and the interrupt handler.                                  *)
(***************************************************************************)
\* A character goes out; the last one makes the UART ask for more.
Transmit ==
  /\ fifo > 0
  /\ fifo' = fifo - 1
  /\ txi' = (txi \/ fifo = 1)
  /\ UNCHANGED <<cons, tty, tx_busy, tx_lock, rx_ready, intr>>

Key ==
  /\ ~ rx_ready
  /\ rx_ready' = TRUE
  /\ UNCHANGED <<cons, tty, fifo, tx_busy, tx_lock, txi, intr>>

\* plic_claim: one hart gets the interrupt, and no other until
\* plic_complete.  uartintr reads ISR first.
Claim ==
  /\ intr = "off"
  /\ txi \/ rx_ready
  /\ intr' = "tx"
  /\ txi' = FALSE
  /\ UNCHANGED <<cons, tty, fifo, tx_busy, tx_lock, rx_ready>>

WakeWriters == [p \in Tty |-> IF tty[p].pc = "wsleep"
                              THEN [tty[p] EXCEPT !.pc = "write"] ELSE tty[p]]

\* Mutant: the handler does not take tx_lock.
IntrTxUnlocked ==
  /\ intr = "tx"
  /\ intr' = "rx"
  /\ IF fifo = 0 THEN tx_busy' = FALSE /\ tty' = WakeWriters
                 ELSE UNCHANGED <<tx_busy, tty>>
  /\ UNCHANGED <<cons, fifo, tx_lock, txi, rx_ready>>

IntrTx ==
  /\ intr = "tx"
  /\ tx_lock = Nobody
  /\ intr' = "rx"
  /\ IF fifo = 0 THEN tx_busy' = FALSE /\ tty' = WakeWriters
                 ELSE UNCHANGED <<tx_busy, tty>>
  /\ UNCHANGED <<cons, fifo, tx_lock, txi, rx_ready>>

\* uartputc_sync spins until the transmitter is empty and fills it again.  The
\* characters of one echo, such as the three of a backspace, count as one.
Echo ==
  /\ fifo = 0
  /\ fifo' = 1

NoEcho == UNCHANGED fifo

WakeReaders == [p \in Tty |-> IF tty[p].pc = "rsleep"
                              THEN [tty[p] EXCEPT !.pc = "read"] ELSE tty[p]]

\* Mutant: a full ring is not committed.
StoreOnlyLines(c) ==
  IF c # Nul /\ Apart(cons.e, cons.r) < INPUT_BUF_SIZE
  THEN /\ Echo
       /\ cons' = [cons EXCEPT !.buf[Slot(cons.e)] = c, !.e = Forward(@, 1),
                     !.w = IF c \in {NL, CtrlD} THEN Forward(cons.e, 1) ELSE @]
       /\ tty' = IF c \in {NL, CtrlD} THEN WakeReaders ELSE tty
  ELSE NoEcho /\ UNCHANGED <<cons, tty>>

\* consoleintr's default case: store, and commit at the end of a line, at a
\* control-D and when the ring is full.
Store(c) ==
  IF c # Nul /\ Apart(cons.e, cons.r) < INPUT_BUF_SIZE
  THEN LET e == Forward(cons.e, 1)
           commit == \/ c \in {NL, CtrlD}
                     \/ Apart(e, cons.r) = INPUT_BUF_SIZE
       IN  /\ Echo
           /\ cons' = [cons EXCEPT !.buf[Slot(cons.e)] = c, !.e = e,
                                   !.w = IF commit THEN e ELSE @]
           /\ tty' = IF commit THEN WakeReaders ELSE tty
  ELSE NoEcho /\ UNCHANGED <<cons, tty>>

\* Mutant: backspace erases as long as the ring is not empty.
BackspaceCommitted ==
  /\ IF cons.e # cons.r
     THEN Echo /\ cons' = [cons EXCEPT !.e = Apart(@, 1)]
     ELSE NoEcho /\ UNCHANGED cons
  /\ UNCHANGED tty

Backspace ==
  /\ IF cons.e # cons.w
     THEN Echo /\ cons' = [cons EXCEPT !.e = Apart(@, 1)]
     ELSE NoEcho /\ UNCHANGED cons
  /\ UNCHANGED tty

\* control-U's loop runs back to w or to just after a newline.
LineStart ==
  LET n == Apart(cons.e, cons.w)
      k == CHOOSE j \in 0 .. n :
             /\ \A i \in j + 1 .. n : Editing[i] # NL
             /\ j > 0 => Editing[j] = NL
  IN  Forward(cons.w, k)

KillLine ==
  /\ IF LineStart # cons.e
     THEN Echo /\ cons' = [cons EXCEPT !.e = LineStart]
     ELSE NoEcho /\ UNCHANGED cons
  /\ UNCHANGED tty

consoleintr(c) ==
  CASE c = CtrlU -> KillLine
    [] c = CtrlH -> Backspace
    [] c = CtrlP -> ~ printing /\ Echo /\ UNCHANGED <<cons, tty>>  \* procdump() takes pr.lock
    [] OTHER     -> Store(c)

\* uartgetc and one turn of uartintr's loop.
IntrRx ==
  /\ intr = "rx"
  /\ rx_ready
  /\ \E c \in Keys : consoleintr(c)
  /\ rx_ready' = FALSE
  /\ UNCHANGED <<tx_busy, tx_lock, txi, intr>>

\* No more input: uartintr returns and devintr calls plic_complete.
IntrDone ==
  /\ intr = "rx"
  /\ ~ rx_ready
  /\ intr' = "off"
  /\ UNCHANGED <<cons, tty, fifo, tx_busy, tx_lock, txi, rx_ready>>

-----------------------------------------------------------------------------
(***************************************************************************)
(* printf() on another hart, such as syscall() reporting a refused call.   *)
(* pr.lock lets one print at a time, but uartputc_sync takes neither       *)
(* tx_lock nor cons.lock: between its look at LSR and its write to THR     *)
(* uartwrite and an echo may fill the transmitter.                         *)
(***************************************************************************)
PrintLook ==
  /\ ~ printing
  /\ fifo = 0
  /\ printing' = TRUE
  /\ UNCHANGED <<cons, tty, fifo, tx_busy, tx_lock, txi, rx_ready, intr>>

PrintPut ==
  /\ printing
  /\ printing' = FALSE
  /\ fifo' = fifo + 1
  /\ UNCHANGED <<cons, tty, tx_busy, tx_lock, txi, rx_ready, intr>>

-----------------------------------------------------------------------------
TtyStep(p) ==
  \/ ConsoleEmpty(p)
  \/ Read(p)
  \/ ReadFault(p)
  \/ CopyIn(p)
  \/ UartWrite(p)
  \/ UartBusy(p)

DriverStep ==
  \/ \E p \in Tty : \/ \E n \in Requests : ConsoleCall(p, n)
                    \/ TtyStep(p)
                    \/ ConsoleKill(p)
  \/ Transmit
  \/ Key
  \/ Claim
  \/ IntrTx
  \/ IntrRx
  \/ IntrDone

ConsoleNext ==
  \/ DriverStep /\ UNCHANGED printing
  \/ PrintLook
  \/ PrintPut

(***************************************************************************)
(* The scheduler runs every runnable process, the UART sends what it was   *)
(* given, a pending interrupt is delivered and its handler runs.           *)
(***************************************************************************)
ConsoleFairness ==
  /\ \A p \in Tty : WF_consoleVars(TtyStep(p) /\ UNCHANGED printing)
  /\ WF_consoleVars(Transmit /\ UNCHANGED printing)
  /\ WF_consoleVars(Claim /\ UNCHANGED printing)
  /\ WF_consoleVars((IntrTx \/ IntrRx \/ IntrDone) /\ UNCHANGED printing)
  /\ WF_consoleVars(PrintPut)

ConsoleSpec == ConsoleInit /\ [][ConsoleNext]_consoleVars /\ ConsoleFairness

-----------------------------------------------------------------------------
(***************************************************************************)
(* Properties.                                                             *)
(***************************************************************************)
Char == Letters \cup {NL, CtrlD, NoChar}
Counter == 0 .. UINT - 1

ConsoleTypeOK ==
  /\ cons \in [buf : [0 .. INPUT_BUF_SIZE - 1 -> Char],
               r : Counter, w : Counter, e : Counter]
  /\ tty \in [Tty -> [pc : {"user", "read", "rsleep", "copyin",
                           "write", "wsleep", "wbusy"},
                     left : Nat, target : Nat, killed : BOOLEAN]]
  /\ fifo \in Nat
  /\ tx_busy \in BOOLEAN /\ txi \in BOOLEAN /\ rx_ready \in BOOLEAN
  /\ intr \in {"off", "tx", "rx"}
  /\ printing \in BOOLEAN

\* The counters never cross (r to w to e within one ring), a reader sleeps in
\* consoleread only while nothing is committed, and a ring with no room left
\* has something to read: otherwise consoleintr would drop every further key,
\* the newline included, and the reader would sleep for ever.
ReadersNotStuck ==
  /\ Apart(cons.e, cons.r) <= INPUT_BUF_SIZE
  /\ Apart(cons.w, cons.r) <= Apart(cons.e, cons.r)
  /\ \A p \in Tty : tty[p].pc = "rsleep" => cons.r = cons.w
  /\ Apart(cons.e, cons.r) = INPUT_BUF_SIZE => cons.r # cons.w

\* The transmitter never holds more than one character from uartwrite, which
\* does not look at LSR but trusts tx_busy, one from an echo and one from a
\* printf() that saw it empty: without one of uartwrite's at most two, the one
\* printf() is about to write included.
AboutToPrint == IF printing THEN 1 ELSE 0
NoOverrun ==
  /\ fifo + AboutToPrint <= 3
  /\ ~ tx_busy /\ tx_lock = Nobody => fifo + AboutToPrint <= 2

\* A call has bytes left to copy until it is over, and no more than it came with.
CallsUnderWay ==
  \A p \in Tty : /\ tty[p].left <= tty[p].target
                 /\ tty[p].pc # "user" => tty[p].left > 0

\* The line being edited has no end in it: consoleintr commits up to each.  So
\* control-U, which looks for the newline before the line, stops at w.
LineOpen == \A i \in 1 .. Apart(cons.e, cons.w) : Editing[i] \notin {NL, CtrlD}

ConsoleInv ==
  ConsoleTypeOK /\ ReadersNotStuck /\ NoOverrun /\ CallsUnderWay /\ LineOpen

\* The ring with its wrapping counters is a queue of finished lines with a
\* line being edited behind it; erasing never reaches committed input, and one
\* read of consoleread stays within a line and takes control-D by itself.
Queue == INSTANCE LineQueue WITH
  Size <- INPUT_BUF_SIZE, EOF <- CtrlD, done <- Committed, edit <- Editing
LineQueueSpec == Queue!LineQueueSpec

\* A control-D reaches a program as one read() that returns 0: it leaves the
\* ring only with a call that has copied nothing, neither now nor before it
\* slept, and that call returns.  (consoleread puts it back for the next read
\* with cons.r-- when n < target.)
EofEndsOneRead ==
  [][\A i \in 1 .. Apart(cons'.r, cons.r) :
       Committed[i] = CtrlD =>
         /\ i = 1 /\ Apart(cons'.r, cons.r) = 1
         /\ \E p \in Tty : /\ tty[p].pc = "read" /\ tty[p].left = tty[p].target
                            /\ tty'[p].pc = "user"]_consoleVars

\* Once typing and kernel messages stop, a write to the console ends: whoever
\* sleeps on tx_chan in uartwrite is woken by a transmit interrupt, although
\* echoes and printf(), which fill the transmitter without touching tx_busy,
\* came between.  (While they keep coming every interrupt may find one of their
\* characters in the transmitter and leave tx_busy set.)
InWrite(p) == tty[p].pc \in {"copyin", "write", "wsleep", "wbusy"}
WriterReturns ==
  <>[](~ rx_ready /\ ~ printing) => \A p \in Tty : InWrite(p) ~> ~ InWrite(p)
=============================================================================
