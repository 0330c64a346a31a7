----------------------------- MODULE MCTerminal -----------------------------
(***************************************************************************)
(* The console, the shell, the allocator and the image builder in one run. *)
(* They share no state, so each behaviour exercises one of them: the       *)
(* initial state says which.  The console's input and output are taken one *)
(* at a time too: a reader and a writer meet only in the transmitter,      *)
(* which echoes fill in both.  Kernel messages come with the output.       *)
(***************************************************************************)
EXTENDS Console, Shell, Malloc, Mkfs

VARIABLE part   \* what this behaviour exercises

vars == <<part, consoleVars, shellVars, mallocVars, mkfsVars>>

MCLines == {
  << >>,
  << "cd", "a" >>,
  << "a", "|", "b" >>,
  << "a", ";", "b", "&" >>,
  << "a", "|", "b", "|", "a" >>,
  << "(", "a", ";", "b", ")", "|", "b" >>,
  << "(", "a", "|", "b", ")", ">", "b", "&" >>,
  << "a", "<", "b", "+", "a" >>,
  << "|", ">", "b" >>,
  << "a", "b", ")" >> }

MCScripts == {<< l >> : l \in MCLines} \cup
             {<< << "a", "|", "b", "&" >>, << "a", "|", "b" >> >>}

\* Up to three files, of up to five blocks or one too many: together they may fill
\* the image exactly, or not fit.
MCFileSizes == UNION {[1 .. n -> {0, 3, 4, 9, 18, 21}] : n \in 0 .. 3}

IsConsole == part \in {"input", "output"}

Init ==
  /\ part \in {"input", "output", "shell", "malloc", "mkfs"}
  /\ ConsoleInit
  /\ ShellInit
  /\ MallocInit
  /\ MkfsInit
  /\ part # "shell" => script = << << >> >>
  /\ part # "mkfs" => ops = MkfsMain(<< >>)

Next ==
  /\ UNCHANGED part
  /\ \/ /\ IsConsole
        /\ ConsoleNext
        /\ \A p \in Tty : tty'[p].pc # IF part = "input" THEN "copyin" ELSE "read"
        /\ part = "input" => ~ printing'
        /\ UNCHANGED <<shellVars, mallocVars, mkfsVars>>
     \/ /\ part = "shell"
        /\ ShellNext
        /\ UNCHANGED <<consoleVars, mallocVars, mkfsVars>>
     \/ /\ part = "malloc"
        /\ MallocNext
        /\ UNCHANGED <<consoleVars, shellVars, mkfsVars>>
     \/ /\ part = "mkfs"
        /\ \/ MkfsNext
           \/ ops \in {<< >>, Died} /\ UNCHANGED mkfsVars
        /\ UNCHANGED <<consoleVars, shellVars, mallocVars>>

\* A part in its initial state has no fair step enabled.
Spec ==
  /\ Init
  /\ [][Next]_vars
  /\ ConsoleFairness
  /\ ShellFairness

\* States that differ only in what no code reads again are one: the slots of
\* cons.buf outside r .. e, and headers of blocks that exist no more.
Headers == FreeList \cup used \cup {Base}
View ==
  << part,
     cons.r, Committed, Editing, tty, fifo, tx_busy, tx_lock, txi, rx_ready, intr,
     printing,
     shellVars,
     [a \in FreeList \cup {Base} |-> ptr[a]], [a \in Headers |-> size[a]],
     freep, top, used, holes, want,
     mkfsVars >>
=============================================================================
