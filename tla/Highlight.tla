------------------------------ MODULE Highlight -----------------------------
(***************************************************************************)
(* The colouring of a row: the keyword trie of highlight.c and the loop of *)
(* draw_TextEdit() that runs it ahead of the characters it draws.  A       *)
(* colour is the class of the keyword: "type", "reserve", "special".       *)
(***************************************************************************)
EXTENDS Trie, SequencesExt, FiniteSets

CONSTANTS
  HChar, WordChar,     \* characters; those of words ('a'..'z', digits, '_')
  KeyWord,             \* a sequence of [s, color]
  MaxHRow              \* bound on the row

VARIABLE hrow

NUL == "NUL"
NoColor == "none"

\* insert() with include_any: every character leads back to the node.
Closed(r) == [r.t EXCEPT !.ch = [x \in {<<r.u, c>> : c \in HChar \cup {NUL}} |-> r.u] @@ @]

\* highlight_init()
AddWord(h, k) ==
  LET r == insert(h.t, k.s)
  IN  [t |-> IF k.color = "special" THEN Closed(r) ELSE r.t,
       colors |-> (r.u :> k.color) @@ h.colors,
       all |-> IF k.color = "special" THEN h.all \cup {r.u} ELSE h.all]
highlight_init == FoldLeft(AddWord, [t |-> EmptyTrie, colors |-> <<>>, all |-> {}], KeyWord)
ColorOf(h, u) == IF u \in DOMAIN h.colors THEN h.colors[u] ELSE NoColor

WordEndsAny(h, u, next, c) == ColorOf(h, u) # NoColor /\ next = 0
WordEnds(h, u, next, c) == ColorOf(h, u) # NoColor /\ next = 0 /\ c \notin WordChar

\* highlight_update(): the new status, and the colour and number of the
\* characters before c (and of c, in a comment) if it found any.
Found(u, col, n) == [u |-> u, color |-> col, count |-> n, res |-> TRUE]
Updated(h, c, st, u, next) ==
  CASE WordEnds(h, u, next, c) -> Found(next, ColorOf(h, u), h.t.deep[u])
    [] ColorOf(h, u) # NoColor /\ next = u -> Found(next, ColorOf(h, u), 1)
    [] ColorOf(h, next) # NoColor /\ next \in h.all -> Found(next, ColorOf(h, next), h.t.deep[next] - 1)
    [] OTHER -> [st EXCEPT !.u = next, !.res = FALSE]
highlight_update(h, c, st) == Updated(h, c, st, st.u, ch(h.t, st.u, c))

\* The inner loop, from hc on; the character after the last is NUL.
RECURSIVE RunAhead(_, _, _, _)
RunOn(h, row, hc, st) ==
  CASE st.res -> [st |-> st, hc |-> hc + 1]
    [] ~st.res /\ hc = Len(row) -> [st |-> [st EXCEPT !.color = NoColor, !.count = 0], hc |-> hc + 1]
    [] OTHER -> RunAhead(h, row, hc + 1, st)
RunAhead(h, row, hc, st) ==
  IF hc > Len(row) THEN [st |-> st, hc |-> hc]
  ELSE RunOn(h, row, hc, highlight_update(h, IF hc = Len(row) THEN NUL ELSE row[hc + 1], st))

\* The colours of the row, from column col on; `ahead` is how far it has run.
RECURSIVE Colors(_, _, _, _)
ColorsFrom(h, row, col, ahead) ==
  <<IF col + ahead.st.count + 1 >= ahead.hc THEN ahead.st.color ELSE NoColor>>
  \o Colors(h, row, col + 1, ahead)
Colors(h, row, col, ahead) ==
  IF col = Len(row) THEN <<>>
  ELSE ColorsFrom(h, row, col, IF ahead.hc <= col THEN RunAhead(h, row, ahead.hc, ahead.st) ELSE ahead)
RowColors(h, row) ==
  Colors(h, row, 0, [st |-> [u |-> 0, color |-> NoColor, count |-> 0, res |-> FALSE], hc |-> 0])

HlInit == hrow = <<>>
TypeChar(c) == Len(hrow) < MaxHRow /\ hrow' = Append(hrow, c)
HlNext == \E c \in HChar : TypeChar(c)

-----------------------------------------------------------------------------
(* Properties                                                              *)

\* Keyword k stands at columns i to j of the row, and no character of a word follows.
WordAt(k, i, j) ==
  /\ SubSeq(hrow, i, j) = KeyWord[k].s
  /\ j < Len(hrow) => hrow[j + 1] \notin WordChar
CommentBefore(k, i) == \E a \in 1..i : \E b \in a..Len(hrow) : SubSeq(hrow, a, b) = KeyWord[k].s

Justified(colors) ==
  \A i \in {n \in 1..Len(hrow) : colors[n] # NoColor} :
    \E k \in 1..Len(KeyWord) :
      /\ KeyWord[k].color = colors[i]
      /\ IF KeyWord[k].color = "special" THEN CommentBefore(k, i)
         ELSE \E a \in 1..i : \E b \in (i - 1)..Len(hrow) : WordAt(k, a, b)

\* A character is given a colour only if it belongs to a keyword of that colour
\* after which the word ends, or is the one character after it (the loop's
\* test colours that one too), or comes after what starts a comment: the
\* colours, found by running ahead of the drawing, are never put on other
\* characters (Gui.c:231-246, highlight.c:23).
ColorsAreKeywords == Justified(RowColors(highlight_init, hrow))
=============================================================================
