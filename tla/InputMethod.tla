---------------------------- MODULE InputMethod -----------------------------
(***************************************************************************)
(* The pinyin input method: the loading of pinyin.txt and the lookup       *)
(* (init_ascii_gbk_pinyin.c), and the keys that the input line takes       *)
(* (pinyinInput in Gui.c).  A Han character is two bytes of HanByte.       *)
(***************************************************************************)
EXTENDS Trie, SequencesExt, FiniteSets

CONSTANTS
  Letter, HanByte,
  DictFile,            \* dictionaries: sequences of lines [py, han, end]
  ITEM_EVERY_PAGE,
  MaxPinyin, MaxPage   \* bounds on the input line and on the page

VARIABLES
  dict,                \* the dictionary, as it was written
  loaded,              \* the trie and hans[]
  pinyin,              \* the input line
  page,
  shown                \* the Han characters of the second line

imevars == <<dict, loaded, pinyin, page, shown>>

-----------------------------------------------------------------------------
(* pinyin_init()                                                           *)

FileByte(f, i, stale) == IF i <= Len(f) THEN f[i] ELSE stale
HanPair(c1, c2) == c1 \in HanByte /\ c2 \in HanByte

\* handle_pinyin_hans()
Entered(d, py, han) ==
  LET r == insert(d.t, py) IN [t |-> r.t, hans |-> (r.u :> han) @@ d.hans]

LettersOf(c1, c2) ==
  (IF c1 \in Letter THEN <<c1, c2>> ELSE <<>>) \o (IF c2 \in Letter THEN <<c2>> ELSE <<>>)
StartsKept(py, c1, c2) == py \o LettersOf(c1, c2)

\* The letters of the two bytes that end a line begin the next one.
StartsNext(py, c1, c2) == LettersOf(c1, c2)

RECURSIVE LoadPinyin(_, _, _, _)
RECURSIVE LoadHans(_, _, _, _, _)
LoadPinyin(f, i, py, d) ==
  CASE i > Len(f) -> d
    [] i <= Len(f) /\ f[i] \in Letter -> LoadPinyin(f, i + 1, Append(py, f[i]), d)
    [] i <= Len(f) /\ f[i] = ":" -> LoadHans(f, i + 1, py, <<>>, d)
    [] OTHER -> LoadPinyin(f, i + 1, IF f[i] \in {"\r", "\n"} THEN <<>> ELSE py, d)

\* Two bytes at a time; of a last single byte the second is the one before.
LoadHans(f, i, py, han, d) ==
  LET c1 == f[i]
      c2 == FileByte(f, i + 1, f[i - 1])
  IN  CASE i > Len(f) -> d
        [] i <= Len(f) /\ HanPair(c1, c2) -> LoadHans(f, i + 2, py, han \o <<c1, c2>>, d)
        [] OTHER -> LoadPinyin(f, i + 2, StartsNext(py, c1, c2), Entered(d, py, han))

pinyin_init(f) == LoadPinyin(f, 1, <<>>, [t |-> EmptyTrie, hans |-> <<>>])

NoHan == <<>>

\* get_pinyin_ith_han(): the character and the letters it stands for.
get_pinyin_ith_han(d, s, i) ==
  LET w == getnode(d.t, s)
      han == IF w.u \in DOMAIN d.hans THEN d.hans[w.u] ELSE <<>>
  IN  IF w.u > 0 /\ 2 * i + 1 < Len(han)
      THEN [han |-> <<han[2 * i + 1], han[2 * i + 2]>>, deep |-> w.deep]
      ELSE [han |-> NoHan, deep |-> w.deep]

-----------------------------------------------------------------------------
(* The keys                                                                *)

HanList(s, pg) ==
  SelectSeq([k \in 1..ITEM_EVERY_PAGE |-> get_pinyin_ith_han(loaded, s, pg * ITEM_EVERY_PAGE + k - 1).han],
            LAMBDA h : h # NoHan)

\* pinyin_updateHanList()
pinyin_updateHanList(s, pg) == HanList(s, pg)

Line(s, pg) ==
  /\ Len(s) <= MaxPinyin /\ pg <= MaxPage
  /\ pinyin' = s /\ page' = pg
  /\ shown' = pinyin_updateHanList(s, pg)
  /\ UNCHANGED <<dict, loaded>>

BytesOf(ls) == FlattenSeq([k \in 1..Len(ls) |-> ls[k].py \o <<":">> \o ls[k].han \o ls[k].end])
ImeInit ==
  /\ dict \in DictFile
  /\ loaded = pinyin_init(BytesOf(dict))
  /\ pinyin = <<>> /\ page = 0 /\ shown = <<>>

\* A letter; with something in the line also the quote and backspace.
LetterKey(c) == (c = "'" => pinyin # <<>>) /\ Line(Append(pinyin, c), 0)
EraseKey == pinyin # <<>> /\ Line(Front(pinyin), 0)
PageKey == pinyin # <<>> /\ (Line(pinyin, page + 1) \/ Line(pinyin, IF page > 0 THEN page - 1 ELSE 0))

RECURSIVE SkipQuotes(_)
SkipQuotes(s) == IF s # <<>> /\ Head(s) = "'" THEN SkipQuotes(Tail(s)) ELSE s
RestOf(s, count) == SkipQuotes(SubSeq(s, count + 1, Len(s)))

\* A digit puts a character into the text at the caret; the page stays.
DigitKey(k) ==
  LET r == get_pinyin_ith_han(loaded, pinyin, k - 1 + page * ITEM_EVERY_PAGE)
  IN  /\ pinyin # <<>> /\ r.han # NoHan
      /\ Line(RestOf(pinyin, r.deep), page)

\* Enter puts the letters themselves there.
EnterKey == pinyin # <<>> /\ Line(<<>>, page)

ImeNext ==
  \/ \E c \in Letter \cup {"'"} : LetterKey(c)
  \/ EraseKey \/ PageKey \/ EnterKey
  \/ \E k \in 1..ITEM_EVERY_PAGE : DigitKey(k)

-----------------------------------------------------------------------------
(* Properties                                                              *)

IsPrefixOf(s, w) == Len(s) <= Len(w) /\ SubSeq(w, 1, Len(s)) = s
Known(s) == \E k \in 1..Len(dict) : IsPrefixOf(s, dict[k].py)
Longest(s) == CHOOSE m \in 0..Len(s) : Known(SubSeq(s, 1, m)) /\ \A j \in (m + 1)..Len(s) : ~Known(SubSeq(s, 1, j))
HansOf(s) == LET ks == {k \in 1..Len(dict) : dict[k].py = s}
             IN  IF ks = {} THEN <<>> ELSE dict[CHOOSE k \in ks : \A j \in ks : j <= k].han

\* The lookup gives, for the longest beginning of the input line that begins a
\* line of pinyin.txt, the i-th Han character of the last such line, whichever
\* way the lines end: the loader reads the Han characters two bytes at a time
\* and swallows the first letter of the next line with the line end
\* (init_ascii_gbk_pinyin.c:166, 199).
LooksUpDictionary ==
  \A i \in 0..2 :
    LET m == Longest(pinyin)
        r == get_pinyin_ith_han(loaded, pinyin, i)
        han == HansOf(SubSeq(pinyin, 1, m))
    IN  /\ r.deep = m
        /\ r.han = IF m > 0 /\ 2 * i + 1 < Len(han) THEN <<han[2 * i + 1], han[2 * i + 2]>> ELSE NoHan

\* The k-th character shown is the one the digit k puts into the text: the
\* second line is brought up to date by every key that changes the input line
\* or the page (Gui.c:1480, 1507).
DigitPicksShown ==
  pinyin # <<>> =>
    \A k \in 1..ITEM_EVERY_PAGE :
      get_pinyin_ith_han(loaded, pinyin, k - 1 + page * ITEM_EVERY_PAGE).han
        = IF k <= Len(shown) THEN shown[k] ELSE NoHan

\* What the user picks is what is shown, and that is what the dictionary says.
PicksFromDictionary == LooksUpDictionary /\ DigitPicksShown
=============================================================================
