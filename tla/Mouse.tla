------------------------------- MODULE Mouse -------------------------------
(***************************************************************************)
(* mouseintr(): the mouse sends packets of three bytes, one interrupt      *)
(* each.  Bytes may be lost and interrupts may come without a byte; count  *)
(* is then out of step and a movement byte is taken for a first byte.      *)
(***************************************************************************)
EXTENDS Integers, Sequences

CONSTANTS
  Move,        \* movements <<x, y>> the mouse reports, each in -256 .. 255
  XMax, YMax,  \* MOUSE_X_MAX, MOUSE_Y_MAX
  TooFar       \* a movement above it is dropped (100 in the code)

ASSUME MouseAssumption == Move \subseteq (-256 .. 255) \X (-256 .. 255)

VARIABLES
  count, btn, sign,    \* the packet being decoded: [l, r] and [x, y]
  x_delta, pos,
  down,                \* btn_left_down, btn_right_down
  msg,                 \* the type of the last message, "" for none by this interrupt
  real,                \* the buttons themselves
  packet,              \* bytes of the packet not yet read
  lost,                \* history: a byte was lost, or an interrupt came without one
  leftOn, rightOn,     \* history: the last message about the button said it is down
  both,                \* history: a packet changed both buttons
  dropped              \* history: the last packet was dropped

mousevars == <<count, btn, sign, x_delta, pos, down, msg, real, packet, lost, leftOn, rightOn, both, dropped>>

Up == [l |-> FALSE, r |-> FALSE]
NoSign == [x |-> 0, y |-> 0]

\* The next byte is a first one.  The code keeps what it decoded of the packet,
\* but does not read it again before it decodes the next: it is forgotten here.
Forget == count' = 0 /\ btn' = Up /\ sign' = NoSign /\ x_delta' = 0

MouseInit ==
  /\ count = 0 /\ btn = Up /\ sign = NoSign /\ x_delta = 0
  /\ pos = <<XMax \div 2, YMax \div 2>>
  /\ down = Up /\ msg = "" /\ real = Up /\ packet = <<>>
  /\ lost = FALSE /\ leftOn = FALSE /\ rightOn = FALSE /\ both = FALSE /\ dropped = FALSE

\* b & w, for w a power of 2.
Bit(b, w) == (b \div w) % 2
Num(b) == IF b THEN 1 ELSE 0

FirstCode(now, mid, m) ==
  Num(now.l) + 2 * Num(now.r) + 4 * mid + 8 + 16 * Num(m[1] < 0) + 32 * Num(m[2] < 0)

\* The histories but leftOn end with the first lost byte.
LoseTrack == lost' = TRUE /\ real' = Up /\ rightOn' = FALSE /\ both' = FALSE /\ dropped' = FALSE

\* The mouse sends its state: the three buttons, the signs, and the movements
\* modulo 256.  The driver refuses a first byte with the middle button down, and
\* so is out of step like after a lost byte.
Send ==
  /\ packet = <<>>
  /\ \E now \in [l : BOOLEAN, r : BOOLEAN], m \in Move, mid \in {0, 1} :
       /\ packet' = <<FirstCode(now, mid, m), m[1] % 256, m[2] % 256>>
       /\ IF lost \/ mid = 1 THEN LoseTrack
          ELSE real' = now /\ UNCHANGED <<lost, rightOn, both, dropped>>
  /\ msg' = ""
  /\ UNCHANGED <<count, btn, sign, x_delta, pos, down, leftOn>>

\* A byte is lost.
Lose ==
  /\ packet # <<>>
  /\ packet' = Tail(packet)
  /\ LoseTrack /\ msg' = ""
  /\ UNCHANGED <<count, btn, sign, x_delta, pos, down, leftOn>>

\* An interrupt without a byte.
Spurious ==
  /\ Forget
  /\ LoseTrack /\ msg' = ""
  /\ UNCHANGED <<pos, down, packet, leftOn>>

Clamp(v, max) == IF v < 0 THEN 0 ELSE IF v >= max THEN max - 1 ELSE v
Abs(v) == IF v > -v THEN v ELSE -v

\* Mutant: a button that is down is a press.
EdgeNoDown == IF btn.l THEN "LEFT_PRESS" ELSE IF btn.r THEN "RIGHT_PRESS" ELSE "MOVE"

\* The first of the four that applies: one message for a packet.
Edge ==
  IF btn.l /\ ~down.l THEN "LEFT_PRESS"
  ELSE IF ~btn.l /\ down.l THEN "LEFT_RELEASE"
  ELSE IF btn.r /\ ~down.r THEN "RIGHT_PRESS"
  ELSE IF ~btn.r /\ down.r THEN "RIGHT_RELEASE"
  ELSE "MOVE"

DownDropped == down
FirstOK(b) == Bit(b, 8) = 1 /\ Bit(b, 4) = 0

FirstByte(b) ==
  /\ count = 0
  /\ IF FirstOK(b)
     THEN /\ btn' = [l |-> Bit(b, 1) = 1, r |-> Bit(b, 2) = 1]
          /\ sign' = [x |-> Bit(b, 16), y |-> Bit(b, 32)]
          /\ count' = 1
     ELSE UNCHANGED <<btn, sign, count>>
  /\ msg' = ""
  /\ UNCHANGED <<x_delta, pos, down, leftOn, rightOn, both, dropped>>

SecondByte(b) ==
  /\ count = 1
  /\ count' = 2
  /\ x_delta' = b - sign.x * 256
  /\ msg' = ""
  /\ UNCHANGED <<btn, sign, pos, down, leftOn, rightOn, both, dropped>>

ThirdByte(b) ==
  /\ count = 2
  /\ LET y_delta == b - sign.y * 256
     IN  IF Abs(x_delta) > TooFar \/ Abs(y_delta) > TooFar
         THEN /\ dropped' = ~lost /\ msg' = ""
              /\ down' = DownDropped
              /\ UNCHANGED <<pos, leftOn, rightOn, both>>
         ELSE /\ pos' = <<Clamp(pos[1] + x_delta, XMax), Clamp(pos[2] - y_delta, YMax)>>
              /\ msg' = Edge
              /\ down' = btn
              /\ leftOn' = (msg' = "LEFT_PRESS" \/ (leftOn /\ msg' # "LEFT_RELEASE"))
              /\ rightOn' = (~lost /\ (msg' = "RIGHT_PRESS" \/ (rightOn /\ msg' # "RIGHT_RELEASE")))
              /\ both' = (~lost /\ (both \/ (btn.l # down.l /\ btn.r # down.r)))
              /\ dropped' = FALSE
  /\ Forget

mouseintr ==
  /\ packet # <<>>
  /\ FirstByte(Head(packet)) \/ SecondByte(Head(packet)) \/ ThirdByte(Head(packet))
  /\ packet' = Tail(packet)
  /\ UNCHANGED <<real, lost>>

MouseNext == Send \/ Lose \/ Spurious \/ mouseintr

MouseSpec == MouseInit /\ [][MouseNext]_mousevars

-----------------------------------------------------------------------------
(* Properties                                                              *)

\* Presses and releases of the left button alternate, also when bytes are lost
\* and when a packet is dropped, so that a widget never sees a second press.
LeftAlternates ==
  /\ msg' = "LEFT_PRESS" => ~leftOn
  /\ msg' = "LEFT_RELEASE" => leftOn

\* What carries it: btn_left_down is what the messages have told.
LeftInv ==
  /\ btn \in [l : BOOLEAN, r : BOOLEAN] /\ down \in [l : BOOLEAN, r : BOOLEAN]
  /\ leftOn \in BOOLEAN /\ leftOn = down.l

\* Without lost bytes, the state that the messages tell is the state of the
\* buttons at every packet boundary, except after a dropped packet, and for the
\* right button as long as no packet changed both (mouse.c:107 reports one).
ButtonsTold ==
  ~lost /\ packet = <<>> /\ count = 0 /\ ~dropped =>
    leftOn = real.l /\ (~both => rightOn = real.r)

\* What carries it: without lost bytes count is in step with the packet, what is
\* decoded of it is the state of the buttons, and down is what was told last.
InStep ==
  \/ packet = <<>> /\ count = 0 /\ (dropped \/ down = real)
  \/ Len(packet) = 3 /\ count = 0 /\ \E m \in Move : Head(packet) = FirstCode(real, 0, m)
  \/ Len(packet) = 2 /\ count = 1 /\ btn = real
  \/ Len(packet) = 1 /\ count = 2 /\ btn = real

MouseInv ==
  /\ LeftInv
  /\ packet \in Seq(Int) /\ real \in [l : BOOLEAN, r : BOOLEAN]
  /\ {lost, rightOn, both, dropped} \subseteq BOOLEAN
  /\ ~lost => InStep /\ (both \/ rightOn = down.r)

\* The editor learns the buttons from messages alone: presses and releases
\* alternate, and they tell the state of the buttons.
ButtonMessages == [][LeftAlternates /\ ButtonsTold']_mousevars
=============================================================================
