------------------------------ MODULE TextEdit ------------------------------
(***************************************************************************)
(* The text editing widget: handle_keyboard_TextEdit() and                 *)
(* handle_mouse_TextEdit() of Gui.c, and the two other handlers that reach *)
(* into its text, the input method's and the search frame's.               *)
(***************************************************************************)
EXTENDS TextFrame

CONSTANTS
  MaxRows, MaxChars,   \* bounds on the text: its rows, its characters (and newlines)
  MaxClip,             \* bound on the characters (and newlines) of the clipboard
  Spot,                \* where the mouse can be: <<row, column>>
  Han,                 \* the characters of the input method
  Pattern              \* strings that are searched for

VARIABLES
  text,
  p1, p2,              \* the selection: point1, point2 as <<row, column>>
  selecting,           \* the mouse button is down
  clipBoard,           \* a sequence of rows, NoClip before the first ^C
  garbled,             \* history: bytes were lost or the cursor misplaced, see HanWhole
  killed               \* the program was killed by a trap

textvars == <<text, p1, p2, selecting, clipBoard, garbled, killed>>

NoPoint == <<-1, -1>>
NoClip == <<>>

TextInit ==
  /\ text = LineEdit_set_str(<<>>)
  /\ p1 = NoPoint /\ p2 = NoPoint
  /\ selecting = FALSE /\ clipBoard = NoClip /\ garbled = FALSE /\ killed = FALSE

NChars(d) == LET han == Len(SelectSeq(FlattenSeq(d), IsHan))
             IN  Len(FlattenSeq(d)) - han + (han + 1) \div 2 + Len(d) - 1
Fits(t) == Len(t.d) <= MaxRows /\ NChars(t.d) <= MaxChars

Selected == p2 # NoPoint
Before(a, b) == a[1] < b[1] \/ (a[1] = b[1] /\ a[2] < b[2])

\* TextEdit_adjust_col_row()
From == IF Before(p2, p1) THEN p2 ELSE p1
To == IF Before(p2, p1) THEN p1 ELSE p2

\* The text after the selection is deleted, cursor where it started.
Deleted == move_to_pos(textframe_delete(text, From, To), From[1], From[2])

\* Typing over a selection does not put the points in order first.
DeletedAsIs == move_to_pos(textframe_delete(text, p1, p2), p1[1], p1[2])

Clip(d) == NChars(d) <= MaxClip /\ clipBoard' = d

\* textframe_delete() loses the tail of an end row longer than the start row.
Garbles(s, e) ==
  LET r1 == Start(text, s)[1]
      r2 == End(text, e)[1]
  IN  r1 < r2 /\ Len(Row(text, r2)) > Len(Row(text, r1))
DeleteGarbles == garbled' = (garbled \/ (Selected /\ Garbles(From, To)))

Edit(t) == Fits(t) /\ text' = t

\* point1 without a point2 is read only while the button is down, and forgotten
\* here otherwise.
SetPoints(a, b) == p1' = (IF b = NoPoint /\ ~selecting' THEN NoPoint ELSE a) /\ p2' = b
KeepPoints == SetPoints(p1, p2)
NoSelection == SetPoints(p1, NoPoint)
Ordered == SetPoints(From, NoPoint)

-----------------------------------------------------------------------------
(* handle_keyboard_TextEdit()                                              *)

Enter ==
  /\ UNCHANGED <<selecting, clipBoard>>
  /\ IF Selected THEN Edit(new_line_to_editor(Deleted)) /\ Ordered
                 ELSE Edit(new_line_to_editor(text)) /\ KeepPoints
  /\ DeleteGarbles

LeftArrow ==
  /\ UNCHANGED <<selecting, clipBoard, garbled>>
  /\ text' = IF Selected THEN text ELSE move_to_previous_char(text)
  /\ NoSelection

Backspace ==
  /\ UNCHANGED <<selecting, clipBoard>>
  /\ IF Selected THEN text' = Deleted /\ Ordered
     ELSE /\ text' = IF text.c > 0 THEN backspace_to_str(move_to_previous_char(text))
                     ELSE move_cur_line_to_prev_line(text)
          /\ NoSelection
  /\ DeleteGarbles

RightArrow ==
  /\ UNCHANGED <<selecting, clipBoard, garbled>>
  /\ text' = move_to_next_char(IF Selected THEN move_to_pos(text, p2[1], p2[2]) ELSE text)
  /\ NoSelection

UpDown ==
  /\ UNCHANGED <<selecting, clipBoard, garbled>>
  /\ text' \in {move_to_last_line(text), move_to_next_line(text)}
  /\ NoSelection

Copy ==
  /\ Selected
  /\ Clip(textframe_extract(text, From, To).d)
  /\ p1' = From /\ p2' = To
  /\ UNCHANGED <<text, selecting, garbled>>

Paste ==
  /\ clipBoard # NoClip
  /\ UNCHANGED <<selecting, clipBoard>>
  /\ LET t == IF Selected THEN Deleted ELSE text
     IN  /\ Edit(textframe_insert(t, [d |-> clipBoard, r |-> 0, c |-> 0], <<t.r, t.c>>))
         /\ SetPoints(<<t.r, t.c>>, NoPoint)
  /\ DeleteGarbles

\* ^C and then the backspace key.
Cut ==
  /\ Selected
  /\ UNCHANGED selecting
  /\ Clip(textframe_extract(text, From, To).d)
  /\ text' = Deleted /\ Ordered
  /\ DeleteGarbles

\* ^C or ^X of a range for which textframe_extract() reads past the rows: the
\* pointer it finds there may trap, and nothing is left of the program.
CopyTraps ==
  /\ Selected /\ ReadsPast(text, From, To)
  /\ killed' = TRUE
  /\ text' = LineEdit_set_str(<<>>) /\ p1' = NoPoint /\ p2' = NoPoint
  /\ selecting' = FALSE /\ clipBoard' = NoClip /\ garbled' = FALSE

Type ==
  /\ UNCHANGED <<selecting, clipBoard>>
  /\ Edit(move_to_next_char(putc_to_str(IF Selected THEN DeletedAsIs ELSE text, "a")))
  /\ NoSelection
  /\ garbled' = (garbled \/ (Selected /\ Garbles(p1, p2)))

-----------------------------------------------------------------------------
(* The other handlers                                                      *)

\* handle_keyboard_pinyinInput() puts a Han character at the cursor, byte by
\* byte.  The selection stays.
ImeInsert ==
  LET row == Row(text, text.r)
  IN  /\ \E ch \in Han : Edit(putstr(text, ch))
      /\ garbled' = (garbled \/ (text.c < Len(row) /\ IsHan(ByteAt(row, text.c))))
      /\ UNCHANGED <<p1, p2, selecting, clipBoard>>

\* Every row is made of whole characters.
RECURSIVE Whole(_)
Whole(row) ==
  \/ row = <<>>
  \/ ~IsHan(Head(row)) /\ Whole(Tail(row))
  \/ Len(row) > 1 /\ IsHan(row[1]) /\ IsHan(row[2]) /\ Whole(SubSeq(row, 3, Len(row)))
\* The cursor is not inside a character.
Between(t) == Whole(substr(Row(t, t.r), 0, t.c))

\* handle_keyboard_SearchFrame(): Enter selects what was found, which may be
\* bytes of two characters.
Select(s, str) ==
  /\ s.res >= 0
  /\ text' = s.t
  /\ p1' = <<s.t.r, s.t.c - Len(str)>> /\ p2' = <<s.t.r, s.t.c - 1>>
SearchEnter(str) ==
  /\ Select(Search(text, str), str)
  /\ selecting' = TRUE
  /\ garbled' = ~Between(text')
  /\ UNCHANGED clipBoard

\* handle_mouse_TextEdit() with the mouse on row y, column x of the widget.
ClipRow(p) == IF p[1] >= NRow(text) THEN <<NRow(text) - 1, p[2]>> ELSE p

MousePress(y, x) ==
  /\ text' = move_to_pos(text, y, x)
  /\ p1' = <<y, x>> /\ p2' = NoPoint
  /\ selecting' = TRUE
  /\ UNCHANGED <<clipBoard, garbled>>

MouseMove(y, x, release) ==
  /\ selecting
  /\ selecting' = ~release
  /\ text' = IF release THEN move_to_pos(text, y, x) ELSE text
  /\ IF p1 = <<y, x>> THEN KeepPoints ELSE p1' = ClipRow(p1) /\ p2' = ClipRow(<<y, x>>)
  /\ UNCHANGED <<clipBoard, garbled>>

\* The right button, and a release without a press.
MouseOther(y, x) ==
  /\ text' = move_to_pos(text, y, x)
  /\ selecting' = FALSE
  /\ KeepPoints
  /\ UNCHANGED <<clipBoard, garbled>>

TextStep ==
  \/ Enter \/ LeftArrow \/ Backspace \/ RightArrow \/ UpDown \/ Copy \/ Paste \/ Cut \/ Type
  \/ ImeInsert \/ \E str \in Pattern : SearchEnter(str)
  \/ \E spot \in Spot : LET y == spot[1] x == spot[2] IN
       \/ MousePress(y, x) \/ MouseOther(y, x)
       \/ \E release \in BOOLEAN : MouseMove(y, x, release)

\* A bound: a text is not followed once it is garbled.
TextNext == ~garbled /\ ~killed /\ ((TextStep /\ UNCHANGED killed) \/ CopyTraps)

-----------------------------------------------------------------------------
(* Properties                                                              *)

\* The cursor is in the text: putc_to_str(), backspace_to_str() and
\* new_line_to_editor() index data[cursor_row][cursor_col] without a test.
CursorInText ==
  /\ NRow(text) >= 1
  /\ text.r \in 0 .. NRow(text) - 1
  /\ text.c \in 0 .. Len(Row(text, text.r))

\* No editing step splits a Han character or leaves the cursor inside one, with
\* selections and clicks anywhere, until one of three things happens: the input
\* method puts a character just before another, and move_to_next_char() skips over
\* the second byte's place; a deletion loses the tail of its last row
\* (textframe.c:330); or a search matches the second byte of a character with the
\* first byte of the next, and Search() leaves the cursor there (textframe.c:591).
HanWhole ==
  ~garbled => /\ \A i \in DOMAIN text.d : Whole(text.d[i])
              /\ Between(text)
              /\ \A i \in DOMAIN clipBoard : Whole(clipBoard[i])

\* The properties of a text alone are stated where any text can be brought: the
\* button up, nothing selected, the cursor at the start.
AtRest == ~Selected /\ ~selecting
AtStart == AtRest /\ text.r = 0 /\ text.c = 0

Points == UNION {{<<r, c>> : c \in 0 .. Len(Row(text, r))} : r \in 0 .. NRow(text) - 1}

\* The text after s .. e is cut and pasted back.
PutBack(s, e) ==
  textframe_insert(textframe_delete(text, s, e), textframe_extract(text, s, e), Start(text, s)).d

\* What the code makes of it: the end row is cut off at the length of the start
\* row (or the end of the range), and gets a second newline if the range reached
\* its end.
Expected(s, e) ==
  LET r == e[1] + 1
      end == text.d[r]
      c == End(text, e)[2]
      keep == IF c < Len(Row(text, s[1])) THEN Len(Row(text, s[1])) ELSE c + 1
  IN  SubSeq(text.d, 1, r - 1) \o <<substr(end, 0, keep)>>
        \o (IF c >= Len(end) THEN <<<<>>>> ELSE <<>>) \o SubSeq(text.d, r + 1, NRow(text))

\* Cutting any range and pasting it back where it was restores the text: delete,
\* extract and insert agree on what a range is, but for two things.  A range up to
\* the end of a row is copied with its newline (textframe.c:246) and deleted
\* without.  And of an end row that is longer than the start row, what is past the
\* length of the start row is lost (textframe.c:330).
CutPasteRestores ==
  ~garbled /\ AtStart => \A s, e \in Points : ~Before(e, s) => PutBack(s, e) = Expected(s, e)

\* A text that is saved and opened again is the same, row for row.
SaveOpenSame == ~garbled /\ AtStart => textframe_read(textframe_write(text)).d = text.d

Occurs(str) == \E i \in DOMAIN text.d : \E j \in 0 .. Len(text.d[i]) - 1 : Matches(text.d[i], j, str)
Finds(s, str) == (s.res >= 0 <=> Occurs(str)) /\ (s.res >= 0 => Matches(Row(s.t, s.t.r), s.t.c - Len(str), str))

\* A search finds a string exactly when some row contains it, wherever the
\* cursor is, and leaves the cursor at the end of a match.
SearchComplete == AtRest => \A str \in Pattern : Finds(Search(text, str), str)

\* Cursor, rows and clipboard stay well formed through every edit.
TextWhole == CursorInText /\ HanWhole

\* The operations on a text agree with each other on what a text is: cut and
\* paste, save and open, and the search.
EditsAgree == CutPasteRestores /\ SaveOpenSame /\ SearchComplete
=============================================================================
