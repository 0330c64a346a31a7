------------------------------- MODULE Shell -------------------------------
(***************************************************************************)
(* The shell (user/sh.c): main reads a line, forks a child that parses it  *)
(* and runs the tree, and waits.  runcmd never returns: it forks, wires    *)
(* pipes to descriptors, waits and becomes a program.                      *)
(*                                                                         *)
(* A step is one system call, or a run of calls on the process's own       *)
(* descriptors.  fork, pipe, dup, close, wait, exit and exec are the       *)
(* kernel's, as the shell uses them; a program reads its standard input to *)
(* the end or not at all, and finishes once its output can go out.         *)
(***************************************************************************)
EXTENDS ShellParser, FiniteSets, FiniteSetsExt

CONSTANTS
  NProcs,   \* process slots: the shell is 1
  NFD,      \* descriptors of a process
  Scripts,  \* the input, line by line
  Extra     \* how many tokens the parser is checked on beyond each line

Main == 1
Slots == 1 .. NProcs
FD == 0 .. NFD - 1

Closed == <<"closed", 0>>
Tty0 == <<"tty", 0>>
File == <<"file", 0>>
ReadEnd(k) == <<"r", k>>
WriteEnd(k) == <<"w", k>>

VARIABLES
  script, \* the lines getcmd has not read yet
  line,   \* the line it read last, with what parsecmd makes of it
  sh,     \* slot -> the process; bg says that it was started with "&"
  panicked  \* fork1 has panicked

shellVars == <<script, line, sh, panicked>>

None == [type |-> "NONE"]

Free == [pc |-> "free", cmd |-> None, fd |-> [f \in FD |-> Closed],
         parent |-> 0, p |-> << >>, waits |-> 0, bg |-> FALSE]

\* main has made sure that descriptors 0, 1 and 2 are open on the console.
Fresh == [Free EXCEPT !.pc = "getcmd",
                      !.fd = [f \in FD |-> IF f <= 2 THEN Tty0 ELSE Closed]]

Typed(l) == [text |-> l, parse |-> parsecmd(l)]

ShellInit ==
  /\ script \in Scripts
  /\ line = Typed(<< >>)
  /\ sh = [i \in Slots |-> IF i = Main THEN Fresh ELSE Free]
  /\ panicked = FALSE

-----------------------------------------------------------------------------
\* The calls, on one table of descriptors.
close(t, f) == [t EXCEPT ![f] = Closed]
FreeFDs(t) == {f \in FD : t[f] = Closed}
install(t, o) == [t EXCEPT ![Min(FreeFDs(t))] = o]
dup(t, f) == install(t, t[f])

Live(i) == sh[i].pc \notin {"free", "zombie"}
Holders(o) == {i \in Slots : Live(i) /\ \E f \in FD : sh[i].fd[f] = o}
PipeIds == 1 .. NProcs
FreshPipe == Min({k \in PipeIds : Holders(ReadEnd(k)) \cup Holders(WriteEnd(k)) = {}})

\* exit(): descriptors closed, children to init, which reaps at once.  init
\* notices when the shell itself has gone.
Exited(s, i) ==
  [j \in Slots |->
    CASE j = i -> IF i = Main THEN [Free EXCEPT !.pc = "gone"]
                  ELSE IF s[i].parent = 0 THEN Free
                  ELSE [Free EXCEPT !.pc = "zombie", !.parent = s[i].parent,
                                    !.bg = s[i].bg]
      [] j # i /\ s[j].parent = i ->
           IF s[j].pc = "zombie" THEN Free ELSE [s[j] EXCEPT !.parent = 0]
      [] OTHER -> s[j]]

exit(i) == sh' = Exited(sh, i) /\ UNCHANGED <<script, line, panicked>>

\* fork1(): the child starts as given, the parent goes on as given; the caller
\* panics when there is no slot, or the kernel has no memory for it.
fork1(i, child, parent) ==
  /\ \/ /\ sh' = Exited(sh, i)
        /\ panicked' = TRUE
     \/ \E j \in {k \in Slots : sh[k].pc = "free"} :
          /\ \A k \in 1 .. j - 1 : sh[k].pc # "free"
          /\ sh' = [sh EXCEPT ![i] = parent, ![j] = [child EXCEPT !.parent = i]]
          /\ UNCHANGED panicked
  /\ UNCHANGED <<script, line>>

\* A child about to run c with the descriptors t.
Child(i, c, t) == [sh[i] EXCEPT !.pc = "run", !.cmd = c, !.fd = t,
                                !.p = << >>, !.waits = 0]

-----------------------------------------------------------------------------
(***************************************************************************)
(* main.                                                                   *)
(***************************************************************************)
\* The line starts with "cd ": the tokens of a line are one blank apart.
IsChdir(l) == Len(l) > 1 /\ l[1] = "cd"

\* getcmd: end of input ends the shell; blank lines and cd need no child.
GetCmd ==
  /\ sh[Main].pc = "getcmd"
  /\ \/ script = << >> /\ exit(Main)
     \/ /\ script # << >>
        /\ script' = Tail(script)
        /\ line' = Typed(Head(script))
        /\ sh' = [sh EXCEPT ![Main].pc =
                     IF Head(script) = << >> \/ IsChdir(Head(script))
                     THEN "getcmd" ELSE "fork"]
        /\ UNCHANGED panicked

\* init starts another shell (user/init.c).
Restart ==
  /\ sh[Main].pc = "gone"
  /\ sh' = [sh EXCEPT ![Main] = Fresh]
  /\ UNCHANGED <<script, line, panicked>>

MainFork ==
  /\ sh[Main].pc = "fork"
  /\ fork1(Main, [sh[Main] EXCEPT !.pc = "parse"],
                 [sh[Main] EXCEPT !.pc = "wait", !.waits = 1])

\* The child parses; a panic ends it.
Parse(i) ==
  /\ sh[i].pc = "parse"
  /\ \/ /\ line.parse.ok
        /\ sh' = [sh EXCEPT ![i].pc = "run", ![i].cmd = line.parse.cmd]
        /\ UNCHANGED <<script, line, panicked>>
     \/ ~ line.parse.ok /\ exit(i)

\* wait(0) reaps a child that has exited.  Its callers always have one left: see
\* WaitsHaveChildren.
Kids(i) == {j \in Slots : sh[j].pc # "free" /\ sh[j].parent = i}

Waited(i) ==
  LET left == sh[i].waits - 1 IN
  CASE left > 0               -> [sh[i] EXCEPT !.waits = left]
    [] i = Main               -> [sh[i] EXCEPT !.waits = 0, !.pc = "getcmd"]
    [] sh[i].cmd.type = "LIST" -> [sh[i] EXCEPT !.waits = 0, !.pc = "run",
                                               !.cmd = sh[i].cmd.right]
    [] OTHER                  -> [sh[i] EXCEPT !.waits = 0, !.pc = "exit"]

Wait(i) ==
  /\ sh[i].pc = "wait"
  /\ \E j \in Kids(i) :
       /\ sh[j].pc = "zombie"
       /\ sh' = [sh EXCEPT ![i] = Waited(i), ![j] = Free]
  /\ UNCHANGED <<script, line, panicked>>

-----------------------------------------------------------------------------
(***************************************************************************)
(* runcmd.                                                                 *)
(***************************************************************************)
Runs(i, type) == sh[i].pc = "run" /\ sh[i].cmd.type = type

\* exec succeeds, or the process exits.  "reads": the program reads its input
\* to the end.
RunExec(i) ==
  /\ Runs(i, "EXEC")
  /\ \/ exit(i)
     \/ /\ sh[i].cmd.args # << >>
        /\ \E pc \in {"reads", "writes"} : sh' = [sh EXCEPT ![i].pc = pc]
        /\ UNCHANGED <<script, line, panicked>>

RunRedir(i) ==
  /\ Runs(i, "REDIR")
  /\ \/ exit(i)
     \/ /\ sh' = [sh EXCEPT ![i].fd = install(close(@, sh[i].cmd.fd), File),
                            ![i].cmd = sh[i].cmd.cmd]
        /\ UNCHANGED <<script, line, panicked>>

RunList(i) ==
  /\ Runs(i, "LIST")
  /\ fork1(i, Child(i, sh[i].cmd.left, sh[i].fd),
              [sh[i] EXCEPT !.pc = "wait", !.waits = 1])

RunBack(i) ==
  /\ Runs(i, "BACK")
  /\ fork1(i, [Child(i, sh[i].cmd.cmd, sh[i].fd) EXCEPT !.bg = TRUE],
              [sh[i] EXCEPT !.pc = "exit"])

\* pipe(p): panics when it fails.
RunPipe(i) ==
  /\ Runs(i, "PIPE")
  /\ \/ exit(i)
     \/ LET t == sh[i].fd
            t1 == install(t, ReadEnd(FreshPipe))
        IN  /\ Cardinality(FreeFDs(t)) >= 2
            /\ sh' = [sh EXCEPT ![i].pc = "left",
                                ![i].p = <<Min(FreeFDs(t)), Min(FreeFDs(t1))>>,
                                ![i].fd = install(t1, WriteEnd(FreshPipe))]
            /\ UNCHANGED <<script, line, panicked>>

ClosePipe(t, p) == close(close(t, p[1]), p[2])

\* The left child's standard output becomes the pipe.
LeftFDs(t, p) == ClosePipe(dup(close(t, 1), p[2]), p)
ForkLeft(i) ==
  /\ sh[i].pc = "left"
  /\ fork1(i, Child(i, sh[i].cmd.left, LeftFDs(sh[i].fd, sh[i].p)),
              [sh[i] EXCEPT !.pc = "right"])

\* Mutant: the parent waits for one of its two children.
ForkRightOneWait(i) ==
  /\ sh[i].pc = "right"
  /\ fork1(i, Child(i, sh[i].cmd.right, ClosePipe(dup(close(sh[i].fd, 0), sh[i].p[1]), sh[i].p)),
              [sh[i] EXCEPT !.pc = "wait", !.waits = 1,
                            !.fd = ClosePipe(sh[i].fd, sh[i].p)])

\* The right child's standard input does; then the parent drops both ends.
RightFDs(t, p) == ClosePipe(dup(close(t, 0), p[1]), p)

\* Mutant: the parent keeps the write end.
ParentKeepsEnd(t, p) == close(t, p[1])

ParentFDs(t, p) == ClosePipe(t, p)

ForkRight(i) ==
  /\ sh[i].pc = "right"
  /\ fork1(i, Child(i, sh[i].cmd.right, RightFDs(sh[i].fd, sh[i].p)),
              [sh[i] EXCEPT !.pc = "wait", !.waits = 2,
                            !.fd = ParentFDs(sh[i].fd, sh[i].p)])

RunExit(i) == sh[i].pc = "exit" /\ exit(i)

-----------------------------------------------------------------------------
\* A reading program sees the end of a pipe once nobody holds its write end.
\* Output to a pipe goes out if a program reads it, or if nobody could.
InputOver(i) ==
  \A k \in PipeIds : sh[i].fd[0] = ReadEnd(k) => Holders(WriteEnd(k)) = {}
OutputGone(i) ==
  \A k \in PipeIds : sh[i].fd[1] = WriteEnd(k) =>
    \/ Holders(ReadEnd(k)) = {}
    \/ \E j \in Slots : sh[j].pc = "reads" /\ sh[j].fd[0] = ReadEnd(k)

Finish(i) ==
  /\ \/ sh[i].pc = "reads" /\ InputOver(i)
     \/ sh[i].pc = "writes"
  /\ OutputGone(i)
  /\ exit(i)

RunStep(i) ==
  \/ Parse(i)
  \/ Wait(i)
  \/ RunExec(i)
  \/ RunRedir(i)
  \/ RunList(i)
  \/ RunBack(i)
  \/ RunPipe(i)
  \/ ForkLeft(i)
  \/ ForkRight(i)
  \/ RunExit(i)
  \/ Finish(i)

ShellNext ==
  \/ GetCmd
  \/ Restart
  \/ MainFork
  \/ \E i \in Slots : RunStep(i)

\* Every process the scheduler can run gets its turn.
ShellFairness ==
  /\ WF_shellVars(MainFork)
  /\ \A i \in Slots : WF_shellVars(RunStep(i))

ShellSpec == ShellInit /\ [][ShellNext]_shellVars /\ ShellFairness

-----------------------------------------------------------------------------
(***************************************************************************)
(* Properties.                                                             *)
(***************************************************************************)
ShellTypeOK ==
  /\ sh \in [Slots -> [pc : {"free", "getcmd", "fork", "wait", "parse", "run",
                             "left", "right", "exit", "reads", "writes", "zombie", "gone"},
                       cmd : {sh[i].cmd : i \in Slots},
                       fd : [FD -> {Closed, Tty0, File} \cup
                                   {ReadEnd(k) : k \in PipeIds} \cup
                                   {WriteEnd(k) : k \in PipeIds}],
                       parent : 0 .. NProcs,
                       p : {<< >>} \cup (FD \X FD),
                       waits : 0 .. 2,
                       bg : BOOLEAN]]

\* A program starts with descriptors 0, 1 and 2 open and holds pipe ends only
\* where runcmd wired them: a read end as standard input, a write end as
\* standard output.  A spare write end would keep some reader waiting for ever.
Wired ==
  \A i \in Slots : sh[i].pc \in {"reads", "writes"} =>
    \A f \in FD :
      /\ f <= 2 => sh[i].fd[f] # Closed
      /\ sh[i].fd[f][1] = "r" => f = 0
      /\ sh[i].fd[f][1] = "w" => f = 1

\* Whoever calls wait(0) has a child for every call it is going to make: none of
\* them fails, or reaps somebody else's.
WaitsHaveChildren ==
  \A i \in Slots : sh[i].pc = "wait" => Cardinality(Kids(i)) = sh[i].waits

\* When main asks for the next line, whatever still runs was started with "&":
\* each wait(0) of main, LIST and PIPE reaps the child it was meant for.  (Where
\* fork1 panics after the left end of a pipe was started, that one is left.)
ForegroundDone ==
  sh[Main].pc = "getcmd" =>
    \A i \in Slots \ {Main} : sh[i].pc # "free" => sh[i].bg \/ panicked

\* The recursive descent of parsecmd accepts exactly the lines of the shell's
\* grammar and gives each the one tree the grammar does: on every line of up to
\* Extra tokens, and on every continuation of the lines typed by as many.
ParserAgrees ==
  sh[Main].pc = "fork" =>
    \A n \in 0 .. Extra : \A s \in [1 .. n -> Token] :
      ParsesRight(s) /\ ParsesRight(line.text \o s)

ShellInv == ShellTypeOK /\ Wired /\ WaitsHaveChildren /\ ForegroundDone

\* The prompt comes back: no arrangement of pipes, lists and background jobs
\* leaves main's wait(0) without an end, because nobody who waits keeps a pipe
\* end that would keep somebody else from seeing the end of file.
PromptReturns == sh[Main].pc = "wait" ~> sh[Main].pc # "wait"
=============================================================================
