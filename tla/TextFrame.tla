----------------------------- MODULE TextFrame -----------------------------
(***************************************************************************)
(* The functions of textframe.c on the rows of a text.                     *)
(*                                                                         *)
(* A text is a record [d, r, c]: the rows (data), and the row and column   *)
(* of the cursor, counted from 0 as in the code.  A row is a sequence of   *)
(* bytes: "a" is any ASCII byte, "h" and "k" are bytes from 160 up, and    *)
(* two of those in a row are a Han character.  Nothing tells a first byte  *)
(* from a second one but the number of such bytes before it.               *)
(***************************************************************************)
EXTENDS Integers, Sequences, SequencesExt

IsHan(b) == b \in {"h", "k"}

AtMost(n, max) == IF n > max THEN max ELSE n
AtLeast0(n) == IF n < 0 THEN 0 ELSE n

NRow(t) == Len(t.d)
Row(t, r) == t.d[r + 1]
ByteAt(row, c) == row[c + 1]
LineEdit_set_str(str) == [d |-> <<str>>, r |-> 0, c |-> 0]

\* substr() clips the length to what there is.
substr(s, start, len) ==
  LET n == AtLeast0(AtMost(len, Len(s) - start))
  IN  SubSeq(s, start + 1, start + n)

\* Mutant: a column past the end stays.
AdjustNoClip(t, rc, cc, pos, dir) == <<AtMost(rc, NRow(t) - 1), AtLeast0(cc)>>

\* How many bytes of Han characters end at c.
RECURSIVE HanRun(_, _)
HanRun(row, c) == IF c < 0 \/ ~IsHan(ByteAt(row, c)) THEN 0 ELSE 1 + HanRun(row, c - 1)

\* Into the text, and off the middle of a character: pos = 0 puts c on a first
\* byte, pos = 1 on a second one, by a move of dir.  (The code's r < 0 does not
\* happen: rows come from the mouse and the cursor.)
textframe_adjust_r_c(t, rc, cc, pos, dir) ==
  LET r == AtMost(rc, NRow(t) - 1)
      row == Row(t, r)
      c == AtLeast0(AtMost(cc, Len(row)))
  IN  IF c < Len(row) /\ IsHan(ByteAt(row, c)) /\ HanRun(row, c) % 2 = pos
      THEN <<r, c + dir>> ELSE <<r, c>>

At(t, rc) == [t EXCEPT !.r = rc[1], !.c = rc[2]]
Settle(t, pos, dir) == At(t, textframe_adjust_r_c(t, t.r, t.c, pos, dir))

\* c = -1 is the end of the row.
move_to_pos(t, rr, cc) ==
  LET r == AtMost(rr, NRow(t) - 1)
      c == IF cc = -1 THEN Len(Row(t, r)) ELSE AtMost(cc, Len(Row(t, r)))
  IN  Settle([t EXCEPT !.r = r, !.c = c], 0, 1)

move_to_next_char(t) ==
  Settle(IF t.c < Len(Row(t, t.r)) THEN [t EXCEPT !.c = @ + 1]
         ELSE IF t.r + 1 < NRow(t) THEN [t EXCEPT !.r = @ + 1, !.c = 0]
         ELSE t, 0, 1)

move_to_previous_char(t) ==
  Settle(IF t.c > 0 THEN [t EXCEPT !.c = @ - 1]
         ELSE IF t.r > 0 THEN [t EXCEPT !.r = @ - 1, !.c = Len(Row(t, t.r - 1))]
         ELSE t, 0, -1)

move_to_next_line(t) == Settle([t EXCEPT !.r = IF @ + 1 < NRow(t) THEN @ + 1 ELSE @], 0, 1)
move_to_last_line(t) == Settle([t EXCEPT !.r = IF @ > 0 THEN @ - 1 ELSE @], 0, 1)

putc_to_str(t, b) ==
  LET row == Row(t, t.r)
  IN  [t EXCEPT !.d[t.r + 1] = substr(row, 0, t.c) \o <<b>> \o substr(row, t.c, Len(row))]

\* Puts a string in byte by byte, as the input method and the reader of a file do.
RECURSIVE putstr(_, _)
putstr(t, s) ==
  IF s = <<>> THEN t ELSE putstr(move_to_next_char(putc_to_str(t, Head(s))), Tail(s))

\* Deletes the character at the cursor: two bytes when it is a Han character.
backspace_to_str(t0) ==
  LET t == Settle(t0, 0, 1)
      row == Row(t, t.r)
      n == IF t.c < Len(row) /\ IsHan(ByteAt(row, t.c)) THEN 2 ELSE 1
  IN  [t EXCEPT !.d[t.r + 1] = substr(row, 0, t.c) \o substr(row, t.c + n, Len(row))]

new_line_to_editor(t0) ==
  LET t == Settle(t0, 0, 1)
      row == Row(t, t.r)
      d == SubSeq(t.d, 1, t.r)
             \o <<substr(row, 0, t.c), substr(row, t.c, Len(row) - t.c)>>
             \o SubSeq(t.d, t.r + 2, NRow(t))
  IN  move_to_pos([t EXCEPT !.d = d], t.r + 1, 0)

move_cur_line_to_prev_line(t) ==
  IF t.r = 0 THEN t
  ELSE move_to_pos([t EXCEPT !.d = SubSeq(t.d, 1, t.r - 1) \o <<Row(t, t.r - 1) \o Row(t, t.r)>>
                                     \o SubSeq(t.d, t.r + 2, NRow(t))], t.r - 1, -1)

clear_cur_line(t) == [t EXCEPT !.d[t.r + 1] = <<>>, !.c = 0]

-----------------------------------------------------------------------------
(* Ranges: from s to e, both <<row, column>> and both included             *)

Start(t, s) == textframe_adjust_r_c(t, s[1], s[2], 0, -1)
End(t, e) == textframe_adjust_r_c(t, e[1], e[2], 1, 1)

\* Mutant: the byte at the end stays.
JoinKeepEnd(t, s, e) ==
  substr(Row(t, s[1]), 0, s[2]) \o substr(Row(t, e[1]), e[2], Len(Row(t, s[1])) - e[2] - 1)

\* The row that is left of rows s[1] .. e[1].  Of the end row it keeps at most
\* what the length of the START row allows.
Join(t, s, e) ==
  substr(Row(t, s[1]), 0, s[2]) \o substr(Row(t, e[1]), e[2] + 1, Len(Row(t, s[1])) - e[2] - 1)

\* A range that ends before it starts, in another row, deletes nothing.
textframe_delete(t, s0, e0) ==
  LET s == Start(t, s0)
      e == End(t, e0)
  IN  [d |-> IF s[1] > e[1] THEN t.d
             ELSE SubSeq(t.d, 1, s[1]) \o <<Join(t, s, e)>> \o SubSeq(t.d, e[1] + 2, NRow(t)),
       r |-> 0, c |-> 0]

\* A range that reaches the end of a row takes its newline too, as one more row:
\* zero bytes of substr(data[end_row + 1], 0, 0).
textframe_extract(t, s0, e0) ==
  LET s == Start(t, s0)
      e == End(t, e0)
      toEnd == e[2] >= Len(Row(t, e[1]))
      rows == IF s[1] = e[1]
              THEN << substr(Row(t, s[1]), s[2], e[2] - s[2] + 1) >>
              ELSE <<substr(Row(t, s[1]), s[2], Len(Row(t, s[1])) - s[2])>>
                     \o SubSeq(t.d, s[1] + 2, e[1])
                     \o <<substr(Row(t, e[1]), 0, e[2] + 1)>>
  IN  [d |-> IF toEnd THEN Append(rows, <<>>) ELSE rows, r |-> 0, c |-> 0]

\* substr() calls strlen() on that row all the same; after the last row there is
\* none, and what is read as a pointer may be anything.
ReadsPast(t, s0, e0) ==
  LET e == End(t, e0) IN e[2] >= Len(Row(t, e[1])) /\ e[1] = NRow(t) - 1

textframe_insert(t, in, s0) ==
  LET s == textframe_adjust_r_c(t, s0[1], s0[2], 0, 1)
      left == substr(Row(t, s[1]), 0, s[2])
      right == substr(Row(t, s[1]), s[2], Len(Row(t, s[1])))
      n == NRow(in)
      mid == IF n = 1 THEN <<left \o in.d[1] \o right>>
             ELSE <<left \o in.d[1]>> \o SubSeq(in.d, 2, n - 1) \o <<in.d[n] \o right>>
  IN  [d |-> SubSeq(t.d, 1, s[1]) \o mid \o SubSeq(t.d, s[1] + 2, NRow(t)),
       r |-> s[1] + n - 1,
       c |-> IF n = 1 THEN Len(left \o in.d[1]) ELSE Len(in.d[n])]

-----------------------------------------------------------------------------
(* Files and search                                                        *)

\* The bytes that textframe_write() writes.
textframe_write(t) ==
  LET RECURSIVE bytes(_)
      bytes(i) == Row(t, i) \o (IF i = NRow(t) - 1 THEN <<>> ELSE <<"\n">> \o bytes(i + 1))
  IN  bytes(0)

\* "\r", "\n" and "\r\n" each end a row; last is the byte before.
textframe_read(s) ==
  LET RECURSIVE load(_, _, _)
      load(t, i, last) ==
        IF i > Len(s) THEN t
        ELSE load(IF s[i] = "\r" \/ (s[i] = "\n" /\ last # "\r") THEN new_line_to_editor(t)
                  ELSE IF s[i] = "\n" THEN t
                  ELSE move_to_next_char(putc_to_str(t, s[i])), i + 1, s[i])
  IN  move_to_pos(load(LineEdit_set_str(<<>>), 1, ""), 0, 0)

Matches(row, j, str) == substr(row, j, Len(str)) = str

\* The loops of Search(): the first match from row r, column c on.
HitsIn(row, i, c, str) == {<<i, j>> : j \in {k \in c .. Len(row) - 1 : Matches(row, k, str)}}
FirstHit(hits) ==
  IF hits = {} THEN <<>>
  ELSE CHOOSE h \in hits : \A g \in hits : h[1] < g[1] \/ (h[1] = g[1] /\ h[2] <= g[2])
SearchFrom(t, r, c, str) ==
  FirstHit(HitsIn(Row(t, r), r, c, str) \cup UNION {HitsIn(Row(t, i), i, 0, str) : i \in r + 1 .. NRow(t) - 1})

Hit(t, str, h, res) ==
  IF h = <<>> THEN [res |-> -1, t |-> t]
  ELSE [res |-> res, t |-> [t EXCEPT !.r = h[1], !.c = h[2] + Len(str)]]

\* The first match from the cursor on, then from the beginning; the cursor goes
\* to its end.  The result is -1, 0, or 1 after starting again.
SearchAgain(t, str, s) ==
  IF s.res = 0 \/ (t.r = 0 /\ t.c = 0) THEN s ELSE Hit(t, str, SearchFrom(t, 0, 0, str), 1)
Search(t, str) == SearchAgain(t, str, Hit(t, str, SearchFrom(t, t.r, t.c, str), 0))
=============================================================================
