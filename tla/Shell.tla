------------------------------- MODULE Shell --------------------------------
(***************************************************************************)
(* The shell, sh.c: the parser, as operators on a line of tokens, and the  *)
(* processes that run the parsed command: fork, wait, and the pipe ends    *)
(* that each process holds.  gettoken() and peek() skip blanks and cut the *)
(* line into tokens; a word is the token "a".                              *)
(***************************************************************************)
EXTENDS Naturals, Sequences, SequencesExt, FiniteSets, TLC

CONSTANTS
  Token,
  MAXARGS,
  MaxTokens, MaxLines,   \* bounds: tokens of a line, lines that are run
  RunLine,               \* the lines that are run; every line is parsed
  MaxProcs               \* slots of the process table for the shell's family

-----------------------------------------------------------------------------
(* The parser: each operator takes the line and a position, and returns    *)
(* the command it read and the position after it.                          *)

TokenAt(l, i) == IF i <= Len(l) THEN l[i] ELSE "end"
peek(l, i, toks) == TokenAt(l, i) \in toks

execcmd(argc) == [type |-> "EXEC", argc |-> argc]
redircmd(cmd, fd) == [type |-> "REDIR", cmd |-> cmd, fd |-> fd]
pipecmd(l, r) == [type |-> "PIPE", left |-> l, right |-> r]
listcmd(l, r) == [type |-> "LIST", left |-> l, right |-> r]
backcmd(cmd) == [type |-> "BACK", cmd |-> cmd]

Read(cmd, i) == [ok |-> TRUE, cmd |-> cmd, i |-> i, fds |-> <<>>]
SyntaxError == [ok |-> FALSE, cmd |-> execcmd(0), i |-> 0, fds |-> <<>>]
Redirected(cmd, fds) == FoldLeft(redircmd, cmd, fds)

RECURSIVE parseredirs(_, _)
parseredirs(l, i) ==
  CASE ~peek(l, i, {"<", ">"}) -> Read(execcmd(0), i)
    [] peek(l, i, {"<", ">"}) /\ ~peek(l, i + 1, {"a"}) -> SyntaxError
    [] OTHER -> [parseredirs(l, i + 2) EXCEPT !.fds = <<IF l[i] = "<" THEN 0 ELSE 1>> \o @]

TooManyLate(argc) == argc > MAXARGS
TooMany(argc) == argc >= MAXARGS

RECURSIVE parseargs(_, _, _, _)
MoreArgs(l, argc, fds, r) == IF r.ok THEN parseargs(l, r.i, argc, fds \o r.fds) ELSE SyntaxError
parseargs(l, i, argc, fds) ==
  CASE peek(l, i, {"|", ")", "&", ";", "end"}) -> Read(Redirected(execcmd(argc), fds), i)
    [] peek(l, i, {"a"}) /\ ~TooMany(argc + 1) -> MoreArgs(l, argc + 1, fds, parseredirs(l, i + 1))
    [] OTHER -> SyntaxError

RECURSIVE parseline(_, _)
RECURSIVE parsepipe(_, _)
RECURSIVE parseback(_, _)
BlockEnds(r, cmd) == IF r.ok THEN Read(Redirected(cmd, r.fds), r.i) ELSE SyntaxError
BlockRead(l, b) ==
  IF b.ok /\ peek(l, b.i, {")"}) THEN BlockEnds(parseredirs(l, b.i + 1), b.cmd) ELSE SyntaxError
parseblock(l, i) == BlockRead(l, parseline(l, i + 1))

ExecArgs(l, r) == IF r.ok THEN parseargs(l, r.i, 0, r.fds) ELSE SyntaxError
parseexec(l, i) == IF peek(l, i, {"("}) THEN parseblock(l, i) ELSE ExecArgs(l, parseredirs(l, i))

\* What was read, e, followed by the rest after a separator.
Joined(make(_, _), e, rest) == IF rest.ok THEN Read(make(e.cmd, rest.cmd), rest.i) ELSE SyntaxError
PipeRead(l, e) ==
  IF e.ok /\ peek(l, e.i, {"|"}) THEN Joined(pipecmd, e, parsepipe(l, e.i + 1)) ELSE e
parsepipe(l, i) == PipeRead(l, parseexec(l, i))

\* Every "&" puts what was read so far in the background.
parseback(l, r) ==
  IF r.ok /\ peek(l, r.i, {"&"}) THEN parseback(l, Read(backcmd(r.cmd), r.i + 1)) ELSE r

LineRead(l, b) ==
  IF b.ok /\ peek(l, b.i, {";"}) THEN Joined(listcmd, b, parseline(l, b.i + 1)) ELSE b
parseline(l, i) == LineRead(l, parseback(l, parsepipe(l, i)))

AllRead(l, r) == IF r.ok /\ r.i = Len(l) + 1 THEN r ELSE SyntaxError
parsecmd(l) == AllRead(l, parseline(l, 1))

-----------------------------------------------------------------------------
(* The processes.  Process 1 is the shell, 0 is init.  `held`: the pipe    *)
(* ends in p[0] and p[1]; a pipe is named by the process that made it.     *)

VARIABLES line, nline, procs, shpid, shpanic

shvars == <<line, nline, procs, shpid, shpanic>>

NewProc(par, cmd, fd0, fd1, held, bg, at) ==
  [st |-> "run", at |-> at, cmd |-> cmd, par |-> par, fd0 |-> fd0, fd1 |-> fd1,
   held |-> held, bg |-> bg, waits |-> 0, next |-> "exit"]
console == <<"console", 0>>
ReadEnd(id) == <<"r", id>>
WriteEnd(id) == <<"w", id>>

ShInit ==
  /\ line = <<>> /\ nline = 0 /\ shpid = 2 /\ shpanic = FALSE
  /\ procs = 1 :> NewProc(0, execcmd(0), console, console, {}, FALSE, "prompt")

Running(p) == p \in DOMAIN procs /\ procs[p].st = "run"
Child(p) == {c \in DOMAIN procs : procs[c].par = p}
Zombie(p) == {c \in Child(p) : procs[c].st = "zombie"}
Holders(end) == {p \in DOMAIN procs : end \in procs[p].held \cup {procs[p].fd0, procs[p].fd1}}

\* exit(): the ends are closed and the children go to init.
Exited(ps, p) ==
  [q \in DOMAIN ps |->
     IF q = p THEN [ps[q] EXCEPT !.st = "zombie", !.fd0 = console, !.fd1 = console, !.held = {}]
     ELSE IF ps[q].par = p THEN [ps[q] EXCEPT !.par = 0] ELSE ps[q]]
ShExit(p) == procs' = Exited(procs, p) /\ UNCHANGED <<line, nline, shpid, shpanic>>

\* fork1(): the child starts at `at` with cmd; a full table is a panic.
Fork1(p, child, parent) ==
  /\ IF Cardinality(DOMAIN procs) < MaxProcs
     THEN /\ procs' = [procs EXCEPT ![p] = parent] @@ (shpid :> child)
          /\ shpid' = shpid + 1 /\ shpanic' = shpanic
     ELSE procs' = Exited(procs, p) /\ shpid' = shpid /\ shpanic' = TRUE
  /\ UNCHANGED <<line, nline>>

ForkOf(p, cmd, at, bg) ==
  NewProc(p, cmd, procs[p].fd0, procs[p].fd1, procs[p].held, procs[p].bg \/ bg, at)

Local(p, rec) == procs' = [procs EXCEPT ![p] = rec] /\ UNCHANGED <<line, nline, shpid, shpanic>>

\* A line is typed at the first prompt, to be parsed.
TypeToken(t) ==
  /\ Running(1) /\ procs[1].at = "prompt" /\ nline = 0 /\ Len(line) < MaxTokens
  /\ line' = Append(line, t)
  /\ UNCHANGED <<nline, procs, shpid, shpanic>>

Waiting(p, n, next) == [procs[p] EXCEPT !.at = "wait", !.waits = n, !.next = next]

\* main(): the line is read, and a child parses and runs it.
getcmd(l) ==
  /\ Running(1) /\ procs[1].at = "prompt" /\ nline < MaxLines /\ (nline = 0 => line = <<>>)
  /\ line' = l /\ nline' = nline + 1
  /\ procs' = [procs EXCEPT ![1].at = "fork"]
  /\ UNCHANGED <<shpid, shpanic>>

MainFork ==
  /\ Running(1) /\ procs[1].at = "fork"
  /\ Fork1(1, ForkOf(1, execcmd(0), "parse", FALSE), Waiting(1, 1, "prompt"))

Run(p, r) == IF r.ok THEN Local(p, [procs[p] EXCEPT !.at = "runcmd", !.cmd = r.cmd]) ELSE ShExit(p)
Parse(p) == Running(p) /\ procs[p].at = "parse" /\ Run(p, parsecmd(line))

AtCmd(p, type) == Running(p) /\ procs[p].at = "runcmd" /\ procs[p].cmd.type = type

\* exec() becomes the program or fails.
RunExec(p) ==
  /\ AtCmd(p, "EXEC")
  /\ \/ procs[p].cmd.argc > 0 /\ Local(p, [procs[p] EXCEPT !.at = "program"])
     \/ ShExit(p)

\* The file replaces the descriptor, or cannot be opened.
RunRedir(p) ==
  /\ AtCmd(p, "REDIR")
  /\ LET c == procs[p].cmd
         q == [procs[p] EXCEPT !.cmd = c.cmd]
     IN  \/ Local(p, IF c.fd = 0 THEN [q EXCEPT !.fd0 = <<"file", 0>>] ELSE [q EXCEPT !.fd1 = <<"file", 0>>])
         \/ ShExit(p)

ListWaits(p) == 1
RunList(p) ==
  /\ AtCmd(p, "LIST")
  /\ LET c == procs[p].cmd
     IN  Fork1(p, ForkOf(p, c.left, "runcmd", FALSE),
               [Waiting(p, ListWaits(p), "runcmd") EXCEPT !.cmd = c.right])

RunBack(p) ==
  /\ AtCmd(p, "BACK")
  /\ Fork1(p, ForkOf(p, procs[p].cmd.cmd, "runcmd", TRUE), [procs[p] EXCEPT !.at = "exit"])

\* pipe() and the fork of the left side, then that of the right side.
RunPipe(p) ==
  /\ AtCmd(p, "PIPE")
  /\ \/ Local(p, [procs[p] EXCEPT !.at = "left", !.held = {ReadEnd(p), WriteEnd(p)}])
     \/ ShExit(p)
ForkLeft(p) ==
  /\ Running(p) /\ procs[p].at = "left"
  /\ Fork1(p, ForkOf(p, procs[p].cmd.left, "dup1", FALSE), [procs[p] EXCEPT !.at = "right"])
ForkRight(p) ==
  /\ Running(p) /\ procs[p].at = "right"
  /\ Fork1(p, ForkOf(p, procs[p].cmd.right, "dup0", FALSE), [procs[p] EXCEPT !.at = "close"])

\* close(0 or 1), dup(), close() of both ends, in the children.
TheEnd(p, k) == CHOOSE e \in procs[p].held : e[1] = k
Dup(p) ==
  /\ Running(p)
  /\ \/ procs[p].at = "dup1"
        /\ Local(p, [procs[p] EXCEPT !.at = "runcmd", !.fd1 = TheEnd(p, "w"), !.held = {}])
     \/ procs[p].at = "dup0"
        /\ Local(p, [procs[p] EXCEPT !.at = "runcmd", !.fd0 = TheEnd(p, "r"), !.held = {}])

\* What the parent holds after close(p[0]) and close(p[1]), and how often it waits.
ParentKeepsWriteEnd(p) == {WriteEnd(p)}
ParentHolds(p) == {}
PipeWaits(p) == 2
ClosePipe(p) ==
  /\ Running(p) /\ procs[p].at = "close"
  /\ Local(p, [Waiting(p, PipeWaits(p), "exit") EXCEPT !.held = ParentHolds(p)])

\* wait() takes any zombie child, and does not wait when there is no child.
Reaped(p, c) == [q \in DOMAIN procs \ {c} |-> IF q = p THEN [procs[p] EXCEPT !.waits = @ - 1] ELSE procs[q]]
ShWait(p) ==
  /\ Running(p) /\ procs[p].at = "wait" /\ procs[p].waits > 0
  /\ \/ \E c \in Zombie(p) : procs' = Reaped(p, c)
     \/ Child(p) = {} /\ procs' = [procs EXCEPT ![p].waits = @ - 1]
  /\ UNCHANGED <<line, nline, shpid, shpanic>>

AfterWait(p) ==
  /\ Running(p) /\ procs[p].at = "wait" /\ procs[p].waits = 0
  /\ Local(p, [procs[p] EXCEPT !.at = procs[p].next])

\* exit() at the end of runcmd().
RunEnds(p) == Running(p) /\ procs[p].at = "exit" /\ ShExit(p)

\* A program whose input is a pipe reads it until no one can write to it.
AtEOF(p) == procs[p].fd0[1] # "r" \/ Holders(WriteEnd(procs[p].fd0[2])) = {}
ProgramEnds(p) == Running(p) /\ procs[p].at = "program" /\ AtEOF(p) /\ ShExit(p)

InitReaps ==
  /\ \E c \in Zombie(0) : procs' = [q \in DOMAIN procs \ {c} |-> procs[q]]
  /\ UNCHANGED <<line, nline, shpid, shpanic>>

ShNext ==
  \/ \E t \in Token : TypeToken(t)
  \/ \E l \in RunLine : getcmd(l)
  \/ MainFork \/ InitReaps
  \/ \E p \in DOMAIN procs :
       \/ Parse(p) \/ RunExec(p) \/ RunRedir(p) \/ RunList(p) \/ RunBack(p) \/ RunPipe(p)
       \/ ForkLeft(p) \/ ForkRight(p) \/ Dup(p) \/ ClosePipe(p)
       \/ ShWait(p) \/ AfterWait(p) \/ RunEnds(p) \/ ProgramEnds(p)

-----------------------------------------------------------------------------
(* Properties                                                              *)

\* The grammar that the parser is meant to accept:
\*   line ::= pipe {"&"} [";" line]        pipe ::= exec ["|" pipe]
\*   exec ::= "(" line ")" {redir}  or  {word or redir}, fewer than MAXARGS words
Sub(s, i, j) == SubSeq(s, i, j)
RECURSIVE IsArgs(_, _)
IsArgs(s, n) ==
  \/ s = <<>> /\ n < MAXARGS
  \/ s # <<>> /\ s[1] = "a" /\ IsArgs(Tail(s), n + 1)
  \/ Len(s) > 1 /\ s[1] \in {"<", ">"} /\ s[2] = "a" /\ IsArgs(Sub(s, 3, Len(s)), n)
IsRedirs(s) == Len(s) % 2 = 0 /\ \A i \in 1..Len(s) : s[i] \in (IF i % 2 = 1 THEN {"<", ">"} ELSE {"a"})
RECURSIVE IsLine(_)
IsExec(s) ==
  \/ IsArgs(s, 0)
  \/ \E k \in 2..Len(s) : /\ s[1] = "(" /\ s[k] = ")"
                          /\ IsLine(Sub(s, 2, k - 1)) /\ IsRedirs(Sub(s, k + 1, Len(s)))
RECURSIVE IsPipe(_)
IsPipe(s) ==
  \/ IsExec(s)
  \/ \E k \in 1..Len(s) : s[k] = "|" /\ IsExec(Sub(s, 1, k - 1)) /\ IsPipe(Sub(s, k + 1, Len(s)))
IsLine(s) ==
  \E i \in 0..Len(s) : \E j \in i..Len(s) :
    /\ IsPipe(Sub(s, 1, i)) /\ \A k \in (i + 1)..j : s[k] = "&"
    /\ j = Len(s) \/ (s[j + 1] = ";" /\ IsLine(Sub(s, j + 2, Len(s))))

\* The words and operators of a command in order, without brackets and redirections.
RECURSIVE Yield(_)
Yield(c) ==
  CASE c.type = "EXEC" -> [i \in 1..c.argc |-> "a"]
    [] c.type = "REDIR" -> Yield(c.cmd)
    [] c.type = "PIPE" -> Yield(c.left) \o <<"|">> \o Yield(c.right)
    [] c.type = "LIST" -> Yield(c.left) \o <<";">> \o Yield(c.right)
    [] c.type = "BACK" -> Yield(c.cmd) \o <<"&">>
Bare(l) ==
  LET keep == {i \in 1..Len(l) : l[i] \notin {"<", ">", "(", ")"} /\ (i = 1 \/ l[i - 1] \notin {"<", ">"})}
  IN  [k \in 1..Cardinality(keep) |-> l[CHOOSE i \in keep : Cardinality({j \in keep : j < i}) = k - 1]]

Agrees(r) ==
  /\ r.ok <=> IsLine(line)
  /\ r.ok => Yield(r.cmd) = Bare(line)

\* The parser accepts exactly the lines of the grammar, so that argv[] never
\* overflows, and the command it builds has the line's words and operators in
\* their order (sh.c:338-464).
ParsesGrammar == nline = 0 => Agrees(parsecmd(line))

Blocked(p) ==
  \/ procs[p].at = "wait" /\ procs[p].waits > 0 /\ Zombie(p) = {} /\ Child(p) # {}
  \/ procs[p].at = "program" /\ ~AtEOF(p)

\* Some process can always go on: no reader waits for the end of a pipe whose
\* write end is still open in a process that waits for that reader
\* (sh.c:108-132).
NoHang ==
  LET active == {p \in DOMAIN procs : Running(p) /\ (p = 1 => procs[p].at # "prompt")}
  IN  active # {} => \E p \in active : ~Blocked(p)

\* When the prompt is printed only what was put in the background still runs,
\* unless a fork failed: wait() takes any child, yet every wait of runcmd()
\* and main() ends with the command it is meant for (sh.c:104, 130, 182).
PromptAfterCommand ==
  Running(1) /\ procs[1].at = "prompt" /\ ~shpanic =>
    \A p \in DOMAIN procs \ {1} : Running(p) => procs[p].bg

\* A pipeline ends, and the shell waits for all of it and nothing else.
PipelinesEnd == NoHang /\ PromptAfterCommand
=============================================================================
