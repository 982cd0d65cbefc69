------------------------------- MODULE MCUser -------------------------------
(* The programs of the user, for TLC: malloc(), the shell, and the parts   *)
(* of the editor.  They share no variable: part says which one a behaviour *)
(* is of, and the others stay at their initial states.                     *)
EXTENDS Heap, RowTable, TextEdit, Editor, Shell, InputMethod, Highlight, Screen

VARIABLE part

\* In the first row, and past the end of the text.
Spots == {<<0, 1>>, <<2, 3>>}
Hanzi == {<<"h", "k">>}
\* The last is in two characters.
Patterns == {<<"a", "a">>, <<"h", "k">>, <<"k", "h">>}

Files == {<<"d", "a">>}

RunLines ==
  {<<"a", "|", "a", "|", "a">>, <<"a", "&", ";", "a">>, <<"(", "a", ";", "a", ")", "|", "a">>,
   <<"a", "<", "a">>, <<"|", "|">>, <<"(">>}

\* Dictionaries of three lines, with one, two and three Han characters.
Hans(k) == [i \in 1 .. 2 * k |-> IF i = k THEN "h2" ELSE "h1"]
Pinyins == {<<"a">>, <<"a", "b">>, <<"b", "a">>}
LineEnds == {<<"\n">>, <<"\r", "\n">>}
DictLine(pinyins, k, e) == [py |-> pinyins, han |-> Hans(k), end |-> e]
Dicts == {<<DictLine(p, 2, e), DictLine(q, 3, e), DictLine(r, 1, e)>> :
            p \in Pinyins, q \in Pinyins, r \in Pinyins, e \in LineEnds}

\* A keyword that ends in another one, and one that is no word.
KeyWords == <<[s |-> <<"i", "f">>, color |-> "reserve"], [s |-> <<"f">>, color |-> "type"],
              [s |-> <<"/", "/">>, color |-> "special"]>>

\* Inside, across an edge, above the top; scrolled and not.
Widgets == {[x |-> x, y |-> y, width |-> w, height |-> 3, offset_x |-> ox, offset_y |-> oy] :
              x \in {0, 2}, y \in {-1, 1}, w \in {2, 5}, ox \in {0, 1}, oy \in {0, 2}}

-----------------------------------------------------------------------------
uservars == <<part, heapvars, rowvars, textvars, ed, shvars,
              imevars, hrow, geovars, caretvars>>

UserInit ==
  /\ part \in {"heap", "rows", "text", "editor", "shell",
               "ime", "highlight", "widgets", "caret"}
  /\ HeapInit /\ RowInit /\ TextInit /\ EdInit /\ ShInit
  /\ ImeInit /\ (part # "ime" => dict = CHOOSE d \in DictFile : TRUE)
  /\ HlInit /\ CaretInit
  /\ GeoInit /\ (part # "widgets" => px = 0 /\ py = 0)

Keep(vs) == part' = part /\ UNCHANGED vs

UserNext ==
  \/ (part = "heap" /\ HeapNext /\ Keep(<<rowvars, textvars, ed, shvars, imevars, hrow, geovars, caretvars>>))
  \/ (part = "rows" /\ RowNext /\ Keep(<<heapvars, textvars, ed, shvars, imevars, hrow, geovars, caretvars>>))
  \/ (part = "text" /\ TextNext /\ Keep(<<heapvars, rowvars, ed, shvars, imevars, hrow, geovars, caretvars>>))
  \/ (part = "editor" /\ EdNext /\ Keep(<<heapvars, rowvars, textvars, shvars, imevars, hrow, geovars, caretvars>>))
  \/ (part = "shell" /\ ShNext /\ Keep(<<heapvars, rowvars, textvars, ed, imevars, hrow, geovars, caretvars>>))
  \/ (part = "ime" /\ ImeNext /\ Keep(<<heapvars, rowvars, textvars, ed, shvars, hrow, geovars, caretvars>>))
  \/ (part = "highlight" /\ HlNext /\ Keep(<<heapvars, rowvars, textvars, ed, shvars, imevars, geovars, caretvars>>))
  \/ (part = "widgets" /\ GeoNext /\ Keep(<<heapvars, rowvars, textvars, ed, shvars, imevars, hrow, caretvars>>))
  \/ (part = "caret" /\ CaretNext /\ Keep(<<heapvars, rowvars, textvars, ed, shvars, imevars, hrow, geovars>>))

UserSpec == UserInit /\ [][UserNext]_uservars
=============================================================================
