------------------------------- MODULE Console -------------------------------
(***************************************************************************)
(* Console input: consoleintr(), called from the serial port's interrupt,  *)
(* edits the line at the end of a ring buffer; consoleread() takes         *)
(* complete lines from its front.  input.r, w and e are uints that only    *)
(* ever grow, modulo UINT, and index the ring modulo INPUT_BUF.  Both      *)
(* functions hold input.lock except in sleep(), so a step is one character *)
(* of the interrupt or one stretch of a read up to sleep() or its return.  *)
(***************************************************************************)
EXTENDS Integers, Sequences

CONSTANTS
  Reader,      \* processes that read the console
  INPUT_BUF,
  UINT,        \* 2^32 in the code, a multiple of INPUT_BUF
  MaxRead      \* bound on the n of read(fd, buf, n)

ASSUME ConsoleAssumption ==
  INPUT_BUF \in Nat \ {0} /\ UINT \in Nat /\ UINT > INPUT_BUF /\ UINT % INPUT_BUF = 0 /\ MaxRead \in Nat

VARIABLES
  input,       \* [r, w, e, buf]
  reading,     \* reader -> [st |-> "idle" | "run" | "sleep", n, target]
  lines,       \* history: the characters committed and not yet read
  edit         \* history: the characters of the line being edited

convars == <<input, reading, lines, edit>>

EOF == "^D"
Chars == {"a", "\n", EOF}
Keys == Chars \cup {"\r", "^U", "^H"}

ConInit ==
  /\ input = [r |-> 0, w |-> 0, e |-> 0, buf |-> [i \in 0 .. INPUT_BUF - 1 |-> "a"]]
  /\ reading = [p \in Reader |-> [st |-> "idle", n |-> 0, target |-> 0]]
  /\ lines = <<>> /\ edit = <<>>

\* uint arithmetic, and the slot of an index.
Plus(i, k) == (i + k) % UINT
InputAt(i) == input.buf[i % INPUT_BUF]

-----------------------------------------------------------------------------
(* consoleintr()                                                           *)

\* Mutant: ^U takes back what is not read yet.
KillLineToRead(i) == input.r

\* ^U: e goes back to w or to just after a newline.
KillLine(i) ==
  LET back[k \in 0 .. UINT - 1] ==
        IF k = input.w \/ InputAt(Plus(k, -1)) = "\n" THEN k ELSE back[Plus(k, -1)]
  IN  back[i]

Room == (input.e - input.r) % UINT < INPUT_BUF
EndsLine(c, e) == c \in {"\n", EOF} \/ e = Plus(input.r, INPUT_BUF)

Wakeup == [p \in Reader |-> IF reading[p].st = "sleep" THEN [reading[p] EXCEPT !.st = "run"]
                                                       ELSE reading[p]]

KillKey ==
  /\ input' = [input EXCEPT !.e = KillLine(input.e)]
  /\ edit' = <<>>
  /\ UNCHANGED <<reading, lines>>

BackspaceKey ==
  /\ input.e # input.w
  /\ input' = [input EXCEPT !.e = Plus(@, -1)]
  /\ edit' = SubSeq(edit, 1, Len(edit) - 1)
  /\ UNCHANGED <<reading, lines>>

CharKey(key) ==
  LET c == IF key = "\r" THEN "\n" ELSE key
      e == Plus(input.e, 1)
      ends == EndsLine(c, e)
  IN  /\ Room
      /\ input' = [input EXCEPT !.buf[input.e % INPUT_BUF] = c, !.e = e,
                                !.w = IF ends THEN e ELSE @]
      /\ reading' = IF ends THEN Wakeup ELSE reading
      /\ lines' = IF ends THEN lines \o Append(edit, c) ELSE lines
      /\ edit' = IF ends THEN <<>> ELSE Append(edit, c)

consoleintr == \E key \in Keys :
  \/ key = "^U" /\ KillKey
  \/ key = "^H" /\ BackspaceKey
  \/ key \notin {"^U", "^H"} /\ CharKey(key)

-----------------------------------------------------------------------------
(* consoleread()                                                           *)

ReadCall(p, n) ==
  /\ reading[p].st = "idle"
  /\ reading' = [reading EXCEPT ![p] = [st |-> "run", n |-> n, target |-> n]]
  /\ UNCHANGED <<input, lines, edit>>

\* The loop from one test of r = w to the next: it ends the read (done), or has
\* taken everything there is and sleeps.
Loop(r0, n0, target) ==
  LET loop[n \in 0 .. n0] ==
        LET r == Plus(r0, n0 - n)
            c == InputAt(r)
        IN  IF n = 0 THEN [r |-> r, n |-> n, done |-> TRUE]
            ELSE IF r = input.w THEN [r |-> r, n |-> n, done |-> FALSE]
            ELSE IF c = EOF THEN [r |-> IF n < target THEN r ELSE Plus(r, 1), n |-> n, done |-> TRUE]
            ELSE IF c = "\n" THEN [r |-> Plus(r, 1), n |-> n - 1, done |-> TRUE]
            ELSE loop[n - 1]
  IN  loop[n0]

consoleread(p) ==
  /\ reading[p].st = "run"
  /\ LET t == Loop(input.r, reading[p].n, reading[p].target)
     IN  /\ input' = [input EXCEPT !.r = t.r]
         /\ reading' = [reading EXCEPT ![p] = IF t.done THEN [st |-> "idle", n |-> 0, target |-> 0]
                                               ELSE [st |-> "sleep", n |-> t.n, target |-> @.target]]
         /\ lines' = SubSeq(lines, 1 + ((t.r - input.r) % UINT), Len(lines))
         /\ UNCHANGED edit

\* kill() wakes the reader, and the read returns -1 if it still finds nothing.
Killed(p) ==
  /\ reading[p].st = "sleep"
  /\ reading' = [reading EXCEPT ![p] = [st |-> "idle", n |-> 0, target |-> 0]]
  /\ UNCHANGED <<input, lines, edit>>

ConNext ==
  \/ consoleintr
  \/ \E p \in Reader : consoleread(p) \/ Killed(p) \/ \E n \in 1 .. MaxRead : ReadCall(p, n)

ConSpec == ConInit /\ [][ConNext]_convars

-----------------------------------------------------------------------------
(* Properties                                                              *)

\* The characters at the indexes i .. j - 1 of the ring.
Content(i, j) == [k \in 1 .. (j - i) % UINT |-> InputAt(Plus(i, k - 1))]

\* The ring holds exactly the committed characters and then the line being
\* edited, in the order typed, through wrap-around of the ring and of the
\* uints, and the keys that take characters back never reach a committed one.
RingHoldsLines ==
  /\ Content(input.r, input.w) = lines
  /\ Content(input.w, input.e) = edit
  /\ Len(lines) + Len(edit) <= INPUT_BUF

\* A reader sleeps only while there is nothing committed to read: neither a
\* wakeup nor a line is lost, whatever the order of interrupts and reads.
NoSleeperWithLine == \A p \in Reader : reading[p].st = "sleep" => lines = <<>>

\* A full buffer can be read.  Otherwise the console would be dead: the typed
\* characters are all refused and the reader waits for the end of the line.
FullIsReadable == Len(lines) + Len(edit) = INPUT_BUF => lines # <<>>

\* What is typed reaches a reader: lines are kept whole in the ring, nobody
\* sleeps over one, and the ring never fills up without one.
LinesReachReaders == RingHoldsLines /\ NoSleeperWithLine /\ FullIsReadable

\* What carries it: the line being edited has no line end in it, where ^U would
\* stop, and it is over when it fills the ring.
ConInv ==
  /\ input \in [r : 0 .. UINT - 1, w : 0 .. UINT - 1, e : 0 .. UINT - 1, buf : [0 .. INPUT_BUF - 1 -> Chars]]
  /\ reading \in [Reader -> [st : {"idle", "run", "sleep"}, n : Nat, target : Nat]]
  /\ lines \in Seq(Chars) /\ edit \in Seq(Chars \ {"\n"})
  /\ RingHoldsLines /\ NoSleeperWithLine
  /\ Len(lines) + Len(edit) = INPUT_BUF => edit = <<>>
=============================================================================
