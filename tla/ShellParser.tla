---------------------------- MODULE ShellParser ----------------------------
(***************************************************************************)
(* The recursive-descent parser of user/sh.c, over tokens: gettoken's      *)
(* scan of white space, symbols and words is the step from a line to its   *)
(* tokens, and ">>" is the token "+", as it is for gettoken.               *)
(*                                                                         *)
(* A parse returns the tree and the rest of the line, or no tree when      *)
(* panic() was called.                                                     *)
(***************************************************************************)
EXTENDS Naturals, Sequences

CONSTANTS
  Words,    \* the words: programs, arguments, file names
  MAXARGS   \* sh.c's bound on argv, terminator included

Redirs == {"<", ">", "+"}
Token == Words \cup Redirs \cup {"|", "&", ";", "(", ")"}

-----------------------------------------------------------------------------
\* The constructors.
execcmd(args) == [type |-> "EXEC", args |-> args]
redircmd(c, op) == [type |-> "REDIR", cmd |-> c, fd |-> IF op = "<" THEN 0 ELSE 1]
pipecmd(l, r) == [type |-> "PIPE", left |-> l, right |-> r]
listcmd(l, r) == [type |-> "LIST", left |-> l, right |-> r]
backcmd(c) == [type |-> "BACK", cmd |-> c]

Panic == [ok |-> FALSE]
Ok(c, s) == [ok |-> TRUE, cmd |-> c, rest |-> s]

peek(s, toks) == s # << >> /\ Head(s) \in toks
Drop(s, n) == SubSeq(s, n + 1, Len(s))

-----------------------------------------------------------------------------
\* The redirections at the front of s, after the ones already met.
RECURSIVE parseredirs(_, _)
parseredirs(ops, s) ==
  IF ~ peek(s, Redirs) THEN Ok(ops, s)
  ELSE IF ~ peek(Tail(s), Words) THEN Panic
  ELSE parseredirs(Append(ops, Head(s)), Drop(s, 2))

\* The tree is built inside out: each redirection encloses the earlier ones.
RECURSIVE Enclose(_, _)
Enclose(c, ops) ==
  IF ops = << >> THEN c ELSE Enclose(redircmd(c, Head(ops)), Tail(ops))

Redirected(c, red) == IF red.ok THEN Ok(Enclose(c, red.cmd), red.rest) ELSE Panic

\* The loop of parseexec, with the arguments so far and the redirections met.
RECURSIVE Arguments(_, _)
Arguments(args, red) ==
  CASE ~ red.ok                    -> Panic
    [] red.rest = << >> \/ peek(red.rest, {"|", ")", "&", ";"})
                                   -> Redirected(execcmd(args), red)
    [] ~ peek(red.rest, Words)     -> Panic
    [] Len(args) + 1 >= MAXARGS    -> Panic
    [] OTHER -> Arguments(Append(args, Head(red.rest)),
                          parseredirs(red.cmd, Tail(red.rest)))

RECURSIVE parseline(_)

\* Mutant: no redirections after a block.
BlockEndPlain(body) ==
  IF body.ok /\ peek(body.rest, {")"}) THEN Ok(body.cmd, Tail(body.rest)) ELSE Panic

BlockEnd(body) ==
  IF body.ok /\ peek(body.rest, {")"})
  THEN Redirected(body.cmd, parseredirs(<< >>, Tail(body.rest)))
  ELSE Panic

parseblock(s) == BlockEnd(parseline(Tail(s)))

parseexec(s) ==
  IF peek(s, {"("}) THEN parseblock(s)
                    ELSE Arguments(<< >>, parseredirs(<< >>, s))

\* A node over what was parsed before and after an operator.
Join(Node(_, _), l, r) == IF r.ok THEN Ok(Node(l, r.cmd), r.rest) ELSE Panic

RECURSIVE PipeRest(_)
PipeRest(l) ==
  IF l.ok /\ peek(l.rest, {"|"})
  THEN Join(pipecmd, l.cmd, PipeRest(parseexec(Tail(l.rest))))
  ELSE l
parsepipe(s) == PipeRest(parseexec(s))

RECURSIVE Ampersands(_)
Ampersands(l) ==
  IF l.ok /\ peek(l.rest, {"&"})
  THEN Ampersands(Ok(backcmd(l.cmd), Tail(l.rest)))
  ELSE l

LineRest(l) ==
  IF l.ok /\ peek(l.rest, {";"})
  THEN Join(listcmd, l.cmd, parseline(Tail(l.rest)))
  ELSE l
parseline(s) == LineRest(Ampersands(parsepipe(s)))

\* Leftovers are a syntax error.
NoLeftovers(l) == IF l.ok /\ l.rest = << >> THEN l ELSE Panic
parsecmd(s) == NoLeftovers(parseline(s))

-----------------------------------------------------------------------------
(***************************************************************************)
(* The language, written as a grammar and not as a scan: all the trees     *)
(* some split of the tokens gives.                                         *)
(*                                                                         *)
(*   line  ::=  job  |  job ";" line          job  ::=  pipe  |  job "&"   *)
(*   pipe  ::=  cmd  |  cmd "|" pipe                                       *)
(*   cmd   ::=  "(" line ")" redir*   |   (word | redir)*                  *)
(*   redir ::=  ("<" | ">" | ">>") word                                    *)
(***************************************************************************)
Before(s, i) == SubSeq(s, 1, i - 1)
After(s, i) == SubSeq(s, i + 1, Len(s))
Positions(s, toks) == {i \in 1 .. Len(s) : s[i] \in toks}

\* Every redirection has its file, and nothing but words and redirections.
Plainly(s) == /\ \A i \in 1 .. Len(s) : s[i] \in Words \cup Redirs
              /\ \A i \in Positions(s, Redirs) :
                   i < Len(s) /\ s[i + 1] \in Words

RedirsIn(s) == SelectSeq(s, LAMBDA t : t \in Redirs)

\* The words that are not the file of a redirection.
ArgsIn(s) ==
  LET pairs == [i \in 1 .. Len(s) |->
                  <<s[i], i > 1 /\ s[i - 1] \in Redirs>>]
      args  == SelectSeq(pairs, LAMBDA x : x[1] \in Words /\ ~ x[2])
  IN  [i \in 1 .. Len(args) |-> args[i][1]]

RECURSIVE LineTrees(_)

CmdTrees(s) ==
  (IF Plainly(s) /\ Len(ArgsIn(s)) < MAXARGS
   THEN {Enclose(execcmd(ArgsIn(s)), RedirsIn(s))} ELSE {})
  \cup
  (IF peek(s, {"("})
   THEN UNION {{Enclose(t, RedirsIn(After(s, i))) :
                  t \in LineTrees(SubSeq(s, 2, i - 1))} :
               i \in {j \in Positions(s, {")"}) :
                        Plainly(After(s, j)) /\ ArgsIn(After(s, j)) = << >>}}
   ELSE {})

RECURSIVE PipeTrees(_)
PipeTrees(s) ==
  CmdTrees(s) \cup
  UNION {{pipecmd(l, r) : l \in CmdTrees(Before(s, i)),
                          r \in PipeTrees(After(s, i))} :
         i \in Positions(s, {"|"})}

RECURSIVE JobTrees(_)
JobTrees(s) ==
  PipeTrees(s) \cup
  (IF s # << >> /\ s[Len(s)] = "&"
   THEN {backcmd(t) : t \in JobTrees(Before(s, Len(s)))} ELSE {})

LineTrees(s) ==
  JobTrees(s) \cup
  UNION {{listcmd(l, r) : l \in JobTrees(Before(s, i)),
                          r \in LineTrees(After(s, i))} :
         i \in Positions(s, {";"})}

\* parsecmd accepts exactly the lines of the grammar, and builds their tree.
TreesOf(p) == IF p.ok THEN {p.cmd} ELSE {}
ParsesRight(s) == LineTrees(s) = TreesOf(parsecmd(s))
=============================================================================
