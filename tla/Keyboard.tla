------------------------------ MODULE Keyboard ------------------------------
(***************************************************************************)
(* kbdgetc(): from scan codes to characters.  A key sends its make code    *)
(* when pressed and its break code (0x80 added) when released; the keys of *)
(* the right-hand blocks send 0xE0 first.                                  *)
(***************************************************************************)
EXTENDS Naturals, Sequences, FiniteSets

CONSTANTS
  Key,         \* the keys used, among the domain of KeyCode
  MaxHeld      \* bound on the keys held down together

ASSUME KeyAssumption == Key \subseteq {"a", "ctl", "rctl", "shift", "rshift", "ralt", "caps", "up"}

VARIABLES
  shift,       \* SHIFT, CTL, ALT, CAPSLOCK and E0ESC bits
  held,        \* keys held down
  bytes,       \* scan codes not yet read
  typed        \* what the last kbdgetc() returned

kbdvars == <<shift, held, bytes, typed>>

\* e0: the key sends 0xE0 first.
KeyCode(k) ==
  CASE k = "a"      -> [e0 |-> FALSE, code |-> "1E"]
    [] k = "ctl"    -> [e0 |-> FALSE, code |-> "1D"]
    [] k = "rctl"   -> [e0 |-> TRUE,  code |-> "1D"]
    [] k = "shift"  -> [e0 |-> FALSE, code |-> "2A"]
    [] k = "rshift" -> [e0 |-> FALSE, code |-> "36"]
    [] k = "ralt"   -> [e0 |-> TRUE,  code |-> "38"]
    [] k = "caps"   -> [e0 |-> FALSE, code |-> "3A"]
    [] k = "up"     -> [e0 |-> TRUE,  code |-> "48"]

\* shiftcode[], togglecode[]: high is the index with 0x80 added.
shiftcode(code, high) ==
  CASE code = "1D"                 -> {"CTL"}
    [] code = "38"                 -> {"ALT"}
    [] code \in {"2A", "36"} /\ ~high -> {"SHIFT"}
    [] OTHER                       -> {}
togglecode(code, high) == IF code = "3A" /\ ~high THEN {"CAPSLOCK"} ELSE {}

Xor(A, B) == (A \ B) \cup (B \ A)

\* normalmap[], shiftmap[], ctlmap[] by the bits CTL and SHIFT, then CAPSLOCK.
Char(code, high, s) ==
  CASE code = "1E" /\ ~high /\ "CTL" \in s -> "C('A')"
    [] code = "1E" /\ ~high -> IF ("SHIFT" \in s) # ("CAPSLOCK" \in s) THEN "A" ELSE "a"
    [] code = "48" /\ high -> "KEY_UP"
    [] OTHER -> "0"

KbdInit == shift = {} /\ held = {} /\ bytes = <<>> /\ typed = "0"

Codes(k, kind) ==
  LET last == [kind |-> kind, code |-> KeyCode(k).code]
  IN  IF KeyCode(k).e0 THEN <<[kind |-> "E0", code |-> "E0"], last>> ELSE <<last>>

PressKey(k) ==
  /\ k \notin held /\ bytes = <<>> /\ Cardinality(held) < MaxHeld
  /\ held' = held \cup {k}
  /\ bytes' = Codes(k, "make")
  /\ UNCHANGED <<shift, typed>>

Release(k) ==
  /\ k \in held /\ bytes = <<>>
  /\ held' = held \ {k}
  /\ bytes' = Codes(k, "break")
  /\ UNCHANGED <<shift, typed>>

\* Mutant: the break code indexes the tables as it is.
BreakHigh(b) == TRUE

\* A break code indexes the tables with 0x80 only after 0xE0.
BreakIndex(b) == "E0ESC" \in shift
BreakShift(b) == shift \ (shiftcode(b.code, BreakIndex(b)) \cup {"E0ESC"})

kbdgetc ==
  /\ bytes # <<>>
  /\ LET b == Head(bytes)
         high == "E0ESC" \in shift
     IN  CASE b.kind = "E0"    -> shift' = shift \cup {"E0ESC"} /\ typed' = "0"
           [] b.kind = "break" -> shift' = BreakShift(b) /\ typed' = "0"
           [] b.kind = "make"  ->
                /\ shift' = Xor((shift \ {"E0ESC"}) \cup shiftcode(b.code, high), togglecode(b.code, high))
                /\ typed' = Char(b.code, high, shift')
  /\ bytes' = Tail(bytes)
  /\ UNCHANGED held

KbdNext == kbdgetc \/ \E k \in Key : PressKey(k) \/ Release(k)

KbdSpec == KbdInit /\ [][KbdNext]_kbdvars

-----------------------------------------------------------------------------
(* Properties                                                              *)

\* The bits that a key sets, and those that may be set while the keys s are held.
BitOf(k) == shiftcode(KeyCode(k).code, KeyCode(k).e0)
Mods(s) == {"CAPSLOCK"} \cup UNION {BitOf(k) : k \in s}

\* No modifier is stuck: once the codes are read, a SHIFT, CTL or ALT bit belongs
\* to a key that is held, and no E0 prefix is left over for the next key.
NoStuckModifier ==
  bytes = <<>> => shift \subseteq Mods(held)

\* What carries it: between the codes of a key, E0ESC says whether its 0xE0 was
\* read, and the other bits are of the keys held and of this one.
KbdInv ==
  /\ held \subseteq Key
  /\ \/ bytes = <<>> /\ shift \subseteq Mods(held)
     \/ \E k \in Key, kind \in {"make", "break"} :
          /\ kind = "make" => k \in held
          /\ shift \ {"E0ESC"} \subseteq Mods(held \cup {k})
          /\ \/ bytes = Codes(k, kind) /\ "E0ESC" \notin shift
             \/ /\ KeyCode(k).e0 /\ "E0ESC" \in shift
                /\ bytes = <<[kind |-> kind, code |-> KeyCode(k).code]>>
=============================================================================
