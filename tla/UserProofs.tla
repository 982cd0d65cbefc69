----------------------------- MODULE UserProofs -----------------------------
(***************************************************************************)
(* What the user types and sees.  The rows of a text stay inside their     *)
(* array, drawing stays on the screen, the mouse finds what is drawn, and  *)
(* the caret is seen, for every screen, every tree of widgets and texts of *)
(* any size.  A line typed at the console reaches a reader, for any ring,  *)
(* any readers and any width of the indexes, which wrap: first remainders  *)
(* and loops, then the cells of the ring, then what the loops of ^U and of *)
(* consoleread() compute, then the steps.                                  *)
(***************************************************************************)
EXTENDS RowTable, Screen, Console, SequenceTheorems, WellFoundedInduction, TLAPS

-----------------------------------------------------------------------------
(* The array of rows                                                       *)

\* RowInv holds of a new text.
LEMMA RowInvInit == RowInit => RowInv
BY DEF RowInit, RowInv, RowsInArray

\* Every operation on a text keeps RowInv: new_line_to_editor() either finds
\* two free places behind the rows or doubles an array of at least one row.
LEMMA RowInvNext == RowInv /\ [RowNext]_rowvars => RowInv'
<1> SUFFICES ASSUME RowInv, [RowNext]_rowvars PROVE RowInv'
  OBVIOUS
<1> USE RowTableAssumption DEF RowInv, RowsInArray, Table, Wrote
<1>1. CASE SetStr
  BY <1>1 DEF SetStr
<1>2. CASE NewLine
  <2>1. CASE Grows(maxrow, maxrow_capacity)
    BY <1>2, <2>1 DEF NewLine, Grows
  <2>2. CASE ~Grows(maxrow, maxrow_capacity)
    BY <1>2, <2>2 DEF NewLine, Grows
  <2> QED
    BY <2>1, <2>2
<1>3. CASE JoinRows
  BY <1>3 DEF JoinRows
<1>4. CASE ResetCapacity
  BY <1>4 DEF ResetCapacity
<1>5. ASSUME NEW k \in 0..MaxRow, DeleteRows(k) PROVE RowInv'
  BY <1>5 DEF DeleteRows
<1>6. ASSUME NEW k \in 0..MaxRow, InsertRows(k) PROVE RowInv'
  BY <1>6 DEF InsertRows
<1>7. CASE UNCHANGED rowvars
  BY <1>7 DEF rowvars
<1> QED
  BY <1>1, <1>2, <1>3, <1>4, <1>5, <1>6, <1>7 DEF RowNext

\* No operation of textframe.c writes a row pointer beyond data[].
THEOREM RowsStayInArray == RowSpec => []RowsInArray
<1>1. RowInv => RowsInArray
  BY DEF RowInv
<1> QED
  BY RowInvInit, RowInvNext, <1>1, PTL DEF RowSpec

-----------------------------------------------------------------------------
(* calc_current_area()                                                     *)

\* What calc_current_area() returns is an area.
LEMMA CalcType ==
  ASSUME NEW p \in Area, NEW a \in Area
  PROVE  calc_current_area(p, a) \in Area
BY DEF Area, calc_current_area, min

\* A widget that is drawn at all lies in its parent's area, and is no larger
\* than its own.
LEMMA CalcInside ==
  ASSUME NEW p \in Area, NEW a \in Area, ~Empty(calc_current_area(p, a))
  PROVE  LET c == calc_current_area(p, a)
         IN  /\ p.x <= c.x /\ c.x + c.width <= p.x + p.width /\ c.width <= a.width
             /\ p.y <= c.y /\ c.y + c.height <= p.y + p.height /\ c.height <= a.height
             /\ ~Empty(p)
BY DEF Area, calc_current_area, min, Empty

-----------------------------------------------------------------------------
(* Down the tree                                                           *)

\* The inductive invariant of the walk: what is drawn is on the screen, the
\* local coordinates of the mouse are those of the pixel seen from the
\* widget, and a pixel that the widget is drawn on is one the event reached.
GeoInv ==
  /\ px \in Int /\ py \in Int /\ lx \in Int /\ ly \in Int /\ hit \in BOOLEAN
  /\ area \in Area
  /\ lx = px - area.x + area.offset_x
  /\ ly = py - area.y + area.offset_y
  /\ DrawnOnScreen
  /\ MouseFindsDrawn

\* GeoInv holds at the root of the tree, which is the screen.
LEMMA GeoInvInit == GeoInit => GeoInv
BY ScreenAssumption DEF GeoInit, GeoInv, Place, Area, DrawnOnScreen, MouseFindsDrawn, Empty, is_pos_in_area

\* GeoInv goes from a widget to any widget in it.
LEMMA GeoInvNext == GeoInv /\ [GeoNext]_geovars => GeoInv'
<1> SUFFICES ASSUME GeoInv, [GeoNext]_geovars PROVE GeoInv'
  OBVIOUS
<1>1. ASSUME NEW a \in Widget, Descend(a) PROVE GeoInv'
  <2>1. a \in Area /\ area \in Area /\ area' = calc_current_area(area, a)
    BY <1>1, ScreenAssumption DEF Descend, GeoInv
  <2>2. area' \in Area
    BY <2>1, CalcType
  <2>3. /\ px' = px /\ py' = py /\ px \in Int /\ py \in Int
        /\ lx' = lx - (a.x - a.offset_x) /\ ly' = ly - (a.y - a.offset_y)
    BY <1>1 DEF Descend, GeoInv
  <2>4. /\ area'.x = area.x + (a.x - area.offset_x) /\ area'.y = area.y + (a.y - area.offset_y)
        /\ area'.offset_x = a.offset_x /\ area'.offset_y = a.offset_y
    BY <2>1 DEF calc_current_area
  <2>5. lx' \in Int /\ ly' \in Int /\ lx' = px' - area'.x + area'.offset_x /\ ly' = py' - area'.y + area'.offset_y
    BY <2>1, <2>3, <2>4 DEF GeoInv, Area
  <2>6. hit' \in BOOLEAN
    BY <1>1 DEF Descend
  <2>7. DrawnOnScreen'
    BY <2>1, <2>2, CalcInside, ScreenAssumption DEF GeoInv, DrawnOnScreen, Area
  <2>8. MouseFindsDrawn'
    <3> SUFFICES ASSUME ~Empty(area'), is_pos_in_area(area', px, py) PROVE hit'
      BY <2>3 DEF MouseFindsDrawn
    <3>1. /\ area.x <= area'.x /\ area'.x + area'.width <= area.x + area.width /\ area'.width <= a.width
          /\ area.y <= area'.y /\ area'.y + area'.height <= area.y + area.height /\ area'.height <= a.height
          /\ ~Empty(area)
      BY <2>1, CalcInside
    <3>2. is_pos_in_area(area, px, py)
      BY <2>1, <2>2, <2>3, <3>1 DEF is_pos_in_area, Area
    <3>3. hit
      BY <3>1, <3>2 DEF GeoInv, MouseFindsDrawn
    <3>4. is_pos_in_area(a, lx, ly)
      BY <2>1, <2>2, <2>3, <2>4, <3>1 DEF is_pos_in_area, Area, GeoInv
    <3> QED
      BY <1>1, <3>3, <3>4 DEF Descend
  <2> QED
    BY <2>2, <2>3, <2>5, <2>6, <2>7, <2>8 DEF GeoInv
<1>2. CASE UNCHANGED geovars
  BY <1>2 DEF geovars, GeoInv, DrawnOnScreen, MouseFindsDrawn, Empty, is_pos_in_area
<1> QED
  BY <1>1, <1>2 DEF GeoNext

\* Nothing is drawn outside the screen, and the mouse reaches the widget whose
\* pixel it is on.
THEOREM WidgetsDrawnAndFound == GeoSpec => []WidgetsAgree
<1>1. GeoInv => WidgetsAgree
  BY DEF GeoInv, WidgetsAgree
<1> QED
  BY GeoInvInit, GeoInvNext, <1>1, PTL DEF GeoSpec

-----------------------------------------------------------------------------
(* The caret                                                               *)

\* The place of the caret in the text, in pixels.
CaretX == col * font_width(scale)
CaretY == row * font_height(scale)

\* A bar of height h at x, y of a text is seen when it is not before the
\* offset and not past the area.
LEMMA SeenInArea ==
  ASSUME NEW x \in Nat, NEW y \in Nat, NEW ox \in Nat, NEW oy \in Nat, NEW h \in Nat, h > 0,
         ox <= x, x - ox < AreaW, oy <= y, y - oy < AreaH
  PROVE  LET a == calc_current_area([Place(0, 0, AreaW, AreaH) EXCEPT !.offset_x = ox, !.offset_y = oy],
                                    Place(x, y, 1, h))
         IN  a.height > 0 /\ a.width > 0 /\ a.x >= 0 /\ a.y >= 0
BY ScreenAssumption DEF Place, calc_current_area, min

\* The inductive invariant of the drawing: after one adjustment the caret is
\* seen, so that there is never a second one.
CaretInv ==
  /\ scale \in MIN_SCALE..MAX_SCALE /\ col \in Nat /\ row \in Nat
  /\ offset_x \in Nat /\ offset_y \in Nat
  /\ tries \in {-1, 0, 1}
  /\ tries # 0 => Visible

\* Rows and columns are pixels.
LEMMA CaretPlace == CaretInv => CaretX \in Nat /\ CaretY \in Nat
BY DEF CaretInv, CaretX, CaretY, font_width, font_height, MIN_SCALE, MAX_SCALE

\* CaretInv holds before the first drawing.
LEMMA CaretInvInit == CaretInit => CaretInv
BY DEF CaretInit, CaretInv, MIN_SCALE, MAX_SCALE

\* Every step of the drawing, and every move of the caret, keeps CaretInv.
LEMMA CaretInvNext == CaretInv /\ [CaretNext]_caretvars => CaretInv'
<1> SUFFICES ASSUME CaretInv, [CaretNext]_caretvars PROVE CaretInv'
  OBVIOUS
<1>1. ASSUME NEW c \in Caret, NEW r \in Caret, MoveCaret(c, r) PROVE CaretInv'
  BY <1>1, ScreenAssumption DEF MoveCaret, CaretInv
<1>2. ASSUME NEW s \in MIN_SCALE..MAX_SCALE, Zoom(s) PROVE CaretInv'
  BY <1>2 DEF Zoom, CaretInv
<1>3. CASE AdjustOffset
  <2>1. /\ scale' = scale /\ col' = col /\ row' = row
        /\ offset_x' = Adjust(CaretX, AreaW, font_width(scale))
        /\ offset_y' = Adjust(CaretY, AreaH, font_height(scale))
    BY <1>3 DEF AdjustOffset, CaretX, CaretY
  <2>2. CaretX \in Nat /\ CaretY \in Nat /\ CaretX' = CaretX /\ CaretY' = CaretY
    BY <2>1, CaretPlace DEF CaretX, CaretY, font_width, font_height
  <2>3. /\ font_width(scale) \in 1..AreaW /\ font_height(scale) \in 1..AreaH
    BY ScreenAssumption DEF CaretInv, font_width, font_height, MIN_SCALE, MAX_SCALE
  <2>4. /\ offset_x' \in Nat /\ offset_x' <= CaretX' /\ CaretX' - offset_x' < AreaW
        /\ offset_y' \in Nat /\ offset_y' <= CaretY' /\ CaretY' - offset_y' < AreaH
    BY <2>1, <2>2, <2>3, ScreenAssumption DEF Adjust, max0
  <2>5. Visible'
    <3>1. cursor_area' = calc_current_area([Place(0, 0, AreaW, AreaH) EXCEPT !.offset_x = offset_x', !.offset_y = offset_y'],
                                           Place(CaretX, CaretY, 1, font_height(scale)))
      BY <2>1 DEF cursor_area, CaretX, CaretY
    <3>2. font_height(scale) \in Nat /\ font_height(scale) > 0
      BY <2>3, ScreenAssumption
    <3>3. cursor_area'.height > 0 /\ cursor_area'.width > 0 /\ cursor_area'.x >= 0 /\ cursor_area'.y >= 0
      BY <2>2, <2>4, <3>1, <3>2, SeenInArea
    <3> QED
      BY <3>3 DEF Visible
  <2>6. tries' = 1
    BY <1>3 DEF AdjustOffset, CaretInv
  <2> QED
    BY <2>1, <2>4, <2>5, <2>6 DEF CaretInv
<1>4. CASE DrawCaret
  <2>1. UNCHANGED <<scale, col, row, offset_x, offset_y>> /\ tries' = -1
    BY <1>4 DEF DrawCaret
  <2>2. Visible
    BY <1>4 DEF DrawCaret, CaretInv
  <2>3. Visible'
    BY <2>1, <2>2 DEF Visible, cursor_area
  <2> QED
    BY <2>1, <2>3 DEF CaretInv
<1>5. CASE UNCHANGED caretvars
  BY <1>5 DEF caretvars, CaretInv, Visible, cursor_area
<1> QED
  BY <1>1, <1>2, <1>3, <1>4, <1>5 DEF CaretNext

\* A text is never drawn with its caret out of sight.
THEOREM CaretIsSeen == CaretSpec => []CaretSeen
<1>1. CaretInv => CaretSeen
  BY DEF CaretInv, CaretSeen
<1> QED
  BY CaretInvInit, CaretInvNext, <1>1, PTL DEF CaretSpec

-----------------------------------------------------------------------------
(* Glyphs                                                                  *)

\* The 32 bytes of every glyph, of whatever two bytes, lie in the table: an
\* offset is a multiple of 32, and so is the size of the table.
THEOREM GlyphInTable ==
  \A c1, c2 \in 0..255 :
    get_gbk_point(c1, c2) \in Nat /\ get_gbk_point(c1, c2) + 32 <= GbkSize
BY DEF get_gbk_point, GlyphOffset, GbkSize
-----------------------------------------------------------------------------
(* Remainders, and loops                                                   *)

\* Multiples of m are at least m apart.
LEMMA MulGap ==
  ASSUME NEW m \in Nat, m > 0, NEW a \in Int, NEW b \in Int, a > b
  PROVE  m * a >= m * b + m
<1>1. PICK d \in Nat : a = b + 1 + d
  <2>1. a - b - 1 \in Nat
    OBVIOUS
  <2> QED BY <2>1
<1>2. m * a = m * b + m + m * d
  BY <1>1
<1>3. m * d >= 0
  OBVIOUS
<1>4. m * b \in Int /\ m * d \in Int
  OBVIOUS
<1> QED BY <1>2, <1>3, <1>4

\* Division with remainder.
LEMMA DivMod ==
  ASSUME NEW m \in Nat, m > 0, NEW x \in Int
  PROVE  x \div m \in Int /\ x % m \in 0 .. m - 1 /\ x = m * (x \div m) + (x % m)
OBVIOUS

\* The remainder is the only one.
LEMMA ModIs ==
  ASSUME NEW m \in Nat, m > 0, NEW x \in Int, NEW q \in Int, NEW r \in 0 .. m - 1, x = m * q + r
  PROVE  x % m = r
<1> DEFINE q2 == x \div m
           r2 == x % m
<1>1. q2 \in Int /\ r2 \in 0 .. m - 1 /\ x = m * q2 + r2
  BY DivMod
<1> HIDE DEF q2, r2
<1>2. m * q \in Int /\ m * q2 \in Int
  BY <1>1
<1>3. ~(q > q2)
  <2> SUFFICES ASSUME q > q2 PROVE FALSE
    OBVIOUS
  <2>1. m * q >= m * q2 + m
    BY <1>1, MulGap
  <2> QED BY <1>1, <1>2, <2>1
<1>4. ~(q2 > q)
  <2> SUFFICES ASSUME q2 > q PROVE FALSE
    OBVIOUS
  <2>1. m * q2 >= m * q + m
    BY <1>1, MulGap
  <2> QED BY <1>1, <1>2, <2>1
<1>5. q = q2
  BY <1>1, <1>3, <1>4
<1>6. r = r2
  BY <1>1, <1>2, <1>5
<1> QED BY <1>6 DEF r2

\* The remainder of a number below 2 * m: what adding two indexes does.
LEMMA ModSmall ==
  ASSUME NEW m \in Nat, m > 0, NEW x \in Nat, x < 2 * m
  PROVE  x % m = IF x < m THEN x ELSE x - m
<1>1. CASE x < m
  <2>1. x = m * 0 + x /\ x \in 0 .. m - 1
    BY <1>1
  <2> QED BY <1>1, <2>1, ModIs
<1>2. CASE x >= m
  <2>1. x = m * 1 + (x - m) /\ x - m \in 0 .. m - 1
    BY <1>2
  <2> QED BY <1>2, <2>1, ModIs
<1> QED BY <1>1, <1>2

\* Multiples of m do not change a remainder.
LEMMA ModShift ==
  ASSUME NEW m \in Nat, m > 0, NEW x \in Int, NEW k \in Int
  PROVE  (x + m * k) % m = x % m
<1> DEFINE q == x \div m
           r == x % m
<1>1. q \in Int /\ r \in 0 .. m - 1 /\ x = m * q + r
  BY DivMod
<1> HIDE DEF q, r
<1>2. x + m * k = m * (q + k) + r
  BY <1>1
<1>3. x + m * k \in Int /\ q + k \in Int
  BY <1>1
<1>4. (x + m * k) % m = r
  BY <1>1, <1>2, <1>3, ModIs
<1> QED BY <1>4 DEF r

\* Different numbers with one remainder are at least m apart.
LEMMA ModDistinct ==
  ASSUME NEW m \in Nat, m > 0, NEW x \in Int, NEW y \in Int, x % m = y % m, x < y
  PROVE  y >= x + m
<1> DEFINE a == x \div m
           b == y \div m
           r == x % m
<1>1. a \in Int /\ b \in Int /\ r \in 0 .. m - 1 /\ x = m * a + r /\ y = m * b + r
  BY DivMod
<1> HIDE DEF a, b, r
<1>2. m * a \in Int /\ m * b \in Int
  BY <1>1
<1>3. m * a < m * b
  BY <1>1, <1>2
<1>4. b > a
  <2> SUFFICES ASSUME ~(b > a) PROVE FALSE
    OBVIOUS
  <2>1. a > b \/ a = b
    BY <1>1
  <2>2. CASE a > b
    <3>1. m * a >= m * b + m
      BY <1>1, <2>2, MulGap
    <3> QED BY <1>2, <1>3, <3>1
  <2>3. CASE a = b
    BY <1>2, <1>3, <2>3
  <2> QED BY <2>1, <2>2, <2>3
<1>5. m * b >= m * a + m
  BY <1>1, <1>4, MulGap
<1> QED BY <1>1, <1>2, <1>5

\* A set of numbers has a least one.
LEMMA LeastNat ==
  ASSUME NEW T, T \subseteq Nat, T # {}
  PROVE  \E x \in T : \A y \in T : x <= y
<1>1. PICK x \in T : \A y \in T : ~(<<y, x>> \in OpToRel(<, Nat))
  BY NatLessThanWellFounded, WFMin, Zenon
<1>2. ASSUME NEW y \in T PROVE x <= y
  <2>1. x \in Nat /\ y \in Nat
    OBVIOUS
  <2>2. ~(y < x)
    BY <1>1, <2>1 DEF OpToRel
  <2> QED BY <2>1, <2>2
<1> QED BY <1>2

\* A loop that goes from x to step[x] until it comes to a place in S has a value
\* at each place.
HasValues(D, S, V, base, step) ==
  \E f \in [D -> V] : \A x \in D : f[x] = IF x \in S THEN base[x] ELSE f[step[x]]

\* It has if the way to S is never longer than top.
LEMMA LoopExists ==
  ASSUME NEW D, NEW S, NEW V, NEW base \in [D -> V], NEW step \in [D -> D],
         NEW top \in Nat, NEW m \in [D -> 0 .. top],
         \A x \in D : x \notin S => m[step[x]] < m[x]
  PROVE  HasValues(D, S, V, base, step)
<1> DEFINE Upto(f, k) == \A x \in D : m[x] <= k => f[x] = IF x \in S THEN base[x] ELSE f[step[x]]
           Bad == {k \in Nat : ~ \E f \in [D -> V] : Upto(f, k)}
<1>1. Bad = {}
  <2> SUFFICES ASSUME Bad # {} PROVE FALSE
    OBVIOUS
  <2>1. PICK k \in Bad : \A j \in Bad : k <= j
    <3>1. Bad \subseteq Nat
      OBVIOUS
    <3> HIDE DEF Bad
    <3> QED BY <3>1, LeastNat, Zenon
  <2>2. k \in Nat /\ ~ \E f \in [D -> V] : Upto(f, k)
    OBVIOUS
  <2>3. PICK g \in [D -> V] : \A x \in D : m[x] < k => g[x] = IF x \in S THEN base[x] ELSE g[step[x]]
    <3>1. CASE k = 0
      <4>1. \A x \in D : ~(m[x] < k)
        BY <3>1
      <4> QED BY <4>1
    <3>2. CASE k # 0
      <4>1. k - 1 \in Nat /\ k - 1 \notin Bad
        BY <2>1, <2>2, <3>2
      <4>2. PICK g \in [D -> V] : Upto(g, k - 1)
        BY <4>1
      <4>3. \A x \in D : m[x] < k => m[x] <= k - 1
        BY <2>2
      <4> QED BY <4>2, <4>3
    <3> QED BY <3>1, <3>2
  <2> DEFINE h == [x \in D |-> IF m[x] < k THEN g[x] ELSE IF x \in S THEN base[x] ELSE g[step[x]]]
  <2>4. h \in [D -> V]
    OBVIOUS
  <2>5. ASSUME NEW x \in D, m[x] <= k PROVE h[x] = IF x \in S THEN base[x] ELSE h[step[x]]
    <3>1. h[x] = IF x \in S THEN base[x] ELSE g[step[x]]
      BY <2>3
    <3>2. CASE x \in S
      BY <3>1, <3>2
    <3>3. CASE x \notin S
      <4>1. step[x] \in D /\ m[step[x]] < m[x] /\ m[x] \in Nat /\ m[step[x]] \in Nat
        BY <3>3
      <4>2. m[step[x]] < k
        BY <2>2, <2>5, <4>1
      <4>3. h[step[x]] = g[step[x]]
        BY <4>1, <4>2
      <4> HIDE DEF h
      <4> QED BY <3>1, <3>3, <4>3
    <3> QED BY <3>2, <3>3
  <2>6. Upto(h, k)
    <3> HIDE DEF h
    <3> QED BY <2>5
  <2> QED BY <2>2, <2>4, <2>6
<1>2. top \notin Bad
  BY <1>1
<1>3. PICK f \in [D -> V] : Upto(f, top)
  BY <1>2
<1>4. \A x \in D : m[x] <= top
  OBVIOUS
<1> QED BY <1>3, <1>4 DEF HasValues

-----------------------------------------------------------------------------
(* The ring of the console                                                 *)

\* The slot of an index, and what ConInv says of the variables by themselves.
Cell(x) == x % INPUT_BUF

ConTypeOK ==
  /\ input \in [r : 0 .. UINT - 1, w : 0 .. UINT - 1, e : 0 .. UINT - 1, buf : [0 .. INPUT_BUF - 1 -> Chars]]
  /\ reading \in [Reader -> [st : {"idle", "run", "sleep"}, n : Nat, target : Nat]]
  /\ lines \in Seq(Chars) /\ edit \in Seq(Chars \ {"\n"})

\* RingHoldsLines with the indexes counted from r on.
Ring(in, l, d) ==
  /\ in.w = Plus(in.r, Len(l)) /\ in.e = Plus(in.r, Len(l) + Len(d))
  /\ Len(l) + Len(d) <= INPUT_BUF
  /\ \A k \in 1 .. Len(l) : in.buf[Cell(in.r + k - 1)] = l[k]
  /\ \A k \in 1 .. Len(d) : in.buf[Cell(in.r + Len(l) + k - 1)] = d[k]

\* The constants.
LEMMA ConNumbers ==
  /\ INPUT_BUF \in Nat /\ INPUT_BUF > 0 /\ UINT \in Nat /\ UINT > INPUT_BUF /\ UINT > 0
  /\ UINT % INPUT_BUF = 0
BY ConsoleAssumption

\* Adding to a uint.
LEMMA PlusIs ==
  ASSUME NEW u \in 0 .. UINT - 1, NEW k \in 0 .. UINT
  PROVE  /\ Plus(u, k) = IF u + k < UINT THEN u + k ELSE u + k - UINT
         /\ Plus(u, k) \in 0 .. UINT - 1
<1>1. u + k \in Nat /\ u + k < 2 * UINT /\ UINT \in Nat /\ UINT > 0
  BY ConNumbers
<1>2. Plus(u, k) = IF u + k < UINT THEN u + k ELSE u + k - UINT
  BY <1>1, ModSmall DEF Plus
<1> QED BY <1>1, <1>2

\* Adding any number stays a uint.
LEMMA PlusIn ==
  ASSUME NEW u \in Int, NEW k \in Int
  PROVE  Plus(u, k) \in 0 .. UINT - 1
BY ConNumbers, DivMod DEF Plus

\* One back.
LEMMA MinusOne ==
  ASSUME NEW u \in 0 .. UINT - 1
  PROVE  Plus(u, -1) = IF u = 0 THEN UINT - 1 ELSE u - 1
<1>1. UINT \in Nat /\ UINT > 0
  BY ConNumbers
<1>2. CASE u = 0
  <2>1. u + -1 = UINT * (-1) + (UINT - 1) /\ UINT - 1 \in 0 .. UINT - 1 /\ u + -1 \in Int /\ -1 \in Int
    BY <1>1, <1>2
  <2> QED BY <1>1, <1>2, <2>1, ModIs DEF Plus
<1>3. CASE u # 0
  <2>1. u + -1 = UINT * 0 + (u - 1) /\ u - 1 \in 0 .. UINT - 1 /\ u + -1 \in Int
    BY <1>1, <1>3
  <2> QED BY <1>1, <1>3, <2>1, ModIs DEF Plus
<1> QED BY <1>2, <1>3

\* The distance of two uints.
LEMMA UintDiff ==
  ASSUME NEW i \in 0 .. UINT - 1, NEW j \in 0 .. UINT - 1
  PROVE  /\ (j - i) % UINT = IF i <= j THEN j - i ELSE j - i + UINT
         /\ (j - i) % UINT \in 0 .. UINT - 1
<1>1. UINT \in Nat /\ UINT > 0 /\ j - i \in Int
  BY ConNumbers
<1>2. CASE i <= j
  <2>1. j - i = UINT * 0 + (j - i) /\ j - i \in 0 .. UINT - 1
    BY <1>1, <1>2
  <2> QED BY <1>1, <1>2, <2>1, ModIs
<1>3. CASE ~(i <= j)
  <2>1. j - i = UINT * (-1) + (j - i + UINT) /\ j - i + UINT \in 0 .. UINT - 1 /\ -1 \in Int
    BY <1>1, <1>3
  <2> QED BY <1>1, <1>3, <2>1, ModIs
<1> QED BY <1>2, <1>3

\* A distance added to the start gives the end, and back.
LEMMA PlusDiff ==
  ASSUME NEW i \in 0 .. UINT - 1, NEW j \in 0 .. UINT - 1, NEW n \in 0 .. UINT - 1
  PROVE  j = Plus(i, n) <=> (j - i) % UINT = n
<1>1. UINT \in Nat /\ n \in 0 .. UINT
  BY ConNumbers
<1>2. Plus(i, n) = IF i + n < UINT THEN i + n ELSE i + n - UINT
  BY <1>1, PlusIs
<1>3. (j - i) % UINT = IF i <= j THEN j - i ELSE j - i + UINT
  BY UintDiff
<1> QED BY <1>1, <1>2, <1>3

\* Two additions are one.
LEMMA PlusPlus ==
  ASSUME NEW u \in 0 .. UINT - 1, NEW a \in Nat, NEW b \in Nat, a + b <= INPUT_BUF
  PROVE  Plus(Plus(u, a), b) = Plus(u, a + b)
<1> DEFINE v == Plus(u, a)
<1>1. UINT \in Nat /\ INPUT_BUF \in Nat /\ UINT > INPUT_BUF
  BY ConNumbers
<1>2. a \in 0 .. UINT /\ b \in 0 .. UINT /\ a + b \in 0 .. UINT
  BY <1>1
<1>3. v = (IF u + a < UINT THEN u + a ELSE u + a - UINT) /\ v \in 0 .. UINT - 1
  BY <1>2, PlusIs
<1>4. Plus(u, a + b) = IF u + (a + b) < UINT THEN u + (a + b) ELSE u + (a + b) - UINT
  BY <1>2, PlusIs
<1> HIDE DEF v
<1>5. Plus(v, b) = IF v + b < UINT THEN v + b ELSE v + b - UINT
  BY <1>2, <1>3, PlusIs
<1>6. Plus(v, b) = Plus(u, a + b)
  BY <1>1, <1>2, <1>3, <1>4, <1>5
<1> QED BY <1>6 DEF v

\* Different distances lead to different indexes.
LEMMA PlusInj ==
  ASSUME NEW u \in 0 .. UINT - 1, NEW a \in 0 .. INPUT_BUF, NEW b \in 0 .. INPUT_BUF
  PROVE  Plus(u, a) = Plus(u, b) <=> a = b
<1>1. UINT \in Nat /\ INPUT_BUF \in Nat /\ UINT > INPUT_BUF /\ a \in 0 .. UINT /\ b \in 0 .. UINT
  BY ConNumbers
<1>2. Plus(u, a) = IF u + a < UINT THEN u + a ELSE u + a - UINT
  BY <1>1, PlusIs
<1>3. Plus(u, b) = IF u + b < UINT THEN u + b ELSE u + b - UINT
  BY <1>1, PlusIs
<1> QED BY <1>1, <1>2, <1>3

\* A slot is in the ring, and the wrap of the uint is not seen: the ring divides
\* its range.
LEMMA CellIn ==
  ASSUME NEW x \in Int
  PROVE  Cell(x) \in 0 .. INPUT_BUF - 1
BY ConNumbers, DivMod DEF Cell

LEMMA CellWraps ==
  ASSUME NEW x \in Int
  PROVE  Cell(x - UINT) = Cell(x)
<1>1. UINT \in Nat /\ INPUT_BUF \in Nat /\ INPUT_BUF > 0 /\ UINT % INPUT_BUF = 0
  BY ConNumbers
<1> DEFINE m == UINT \div INPUT_BUF
<1>2. m \in Int /\ UINT = INPUT_BUF * m
  BY <1>1, DivMod
<1> HIDE DEF m
<1>3. -m \in Int /\ x - UINT = x + INPUT_BUF * (-m)
  BY <1>1, <1>2
<1>4. (x + INPUT_BUF * (-m)) % INPUT_BUF = x % INPUT_BUF
  BY <1>1, <1>3, ModShift, Zenon
<1> QED BY <1>3, <1>4 DEF Cell

\* The slot after an addition.
LEMMA CellPlus ==
  ASSUME NEW u \in 0 .. UINT - 1, NEW a \in 0 .. INPUT_BUF, NEW x \in Int
  PROVE  Cell(Plus(u, a) + x) = Cell(u + a + x)
<1>1. UINT \in Nat /\ INPUT_BUF \in Nat /\ UINT > INPUT_BUF /\ a \in 0 .. UINT
  BY ConNumbers
<1>2. Plus(u, a) = u + a \/ Plus(u, a) = u + a - UINT
  BY <1>1, PlusIs
<1>3. u + a + x \in Int /\ (u + a - UINT) + x = (u + a + x) - UINT
  BY <1>1
<1>4. Cell((u + a + x) - UINT) = Cell(u + a + x)
  BY <1>3, CellWraps
<1>5. CASE Plus(u, a) = u + a
  BY <1>5
<1>6. CASE Plus(u, a) = u + a - UINT
  BY <1>3, <1>4, <1>6
<1> QED BY <1>2, <1>5, <1>6

\* The same for one index.
LEMMA CellAt ==
  ASSUME NEW u \in 0 .. UINT - 1, NEW a \in 0 .. INPUT_BUF
  PROVE  Cell(Plus(u, a)) = Cell(u + a)
<1>1. UINT \in Nat /\ INPUT_BUF \in Nat /\ UINT > INPUT_BUF /\ a \in 0 .. UINT
  BY ConNumbers
<1>2. Plus(u, a) \in Int
  BY <1>1, PlusIs
<1>3. Plus(u, a) + 0 = Plus(u, a) /\ u + a + 0 = u + a
  BY <1>1, <1>2
<1>4. Cell(Plus(u, a) + 0) = Cell(u + a + 0)
  BY CellPlus
<1> QED BY <1>3, <1>4

\* Less than INPUT_BUF apart, characters have slots of their own.
LEMMA CellsDiffer ==
  ASSUME NEW x \in Int, NEW y \in Int, x < y, y < x + INPUT_BUF
  PROVE  Cell(x) # Cell(y)
<1>1. INPUT_BUF \in Nat /\ INPUT_BUF > 0
  BY ConNumbers
<1>2. x % INPUT_BUF = y % INPUT_BUF => y >= x + INPUT_BUF
  BY <1>1, ModDistinct, Zenon
<1> QED BY <1>1, <1>2 DEF Cell

\* A piece of the ring.
LEMMA ContentIs ==
  ASSUME NEW i \in 0 .. UINT - 1, NEW j \in 0 .. UINT - 1, NEW n \in 0 .. INPUT_BUF, j = Plus(i, n)
  PROVE  Content(i, j) = [k \in 1 .. n |-> input.buf[Cell(i + k - 1)]]
<1>1. UINT \in Nat /\ INPUT_BUF \in Nat /\ UINT > INPUT_BUF /\ n \in 0 .. UINT - 1
  BY ConNumbers
<1>2. (j - i) % UINT = n
  BY <1>1, PlusDiff
<1>3. \A k \in 1 .. n : InputAt(Plus(i, k - 1)) = input.buf[Cell(i + k - 1)]
  <2> TAKE k \in 1 .. n
  <2>1. k - 1 \in 0 .. INPUT_BUF
    BY <1>1
  <2>2. Cell(Plus(i, k - 1)) = Cell(i + (k - 1))
    BY <2>1, CellAt
  <2>3. i + (k - 1) = i + k - 1
    BY <1>1
  <2>4. Cell(Plus(i, k - 1)) = Cell(i + k - 1)
    BY <2>2, <2>3
  <2> QED BY <2>4 DEF InputAt, Cell
<1>4. Content(i, j) = [k \in 1 .. n |-> InputAt(Plus(i, k - 1))]
  BY <1>2 DEF Content
<1> QED BY <1>3, <1>4

\* The ranges of the fields of input.
LEMMA InputTypes ==
  ASSUME ConTypeOK
  PROVE  /\ input.r \in 0 .. UINT - 1 /\ input.w \in 0 .. UINT - 1 /\ input.e \in 0 .. UINT - 1
         /\ input.buf \in [0 .. INPUT_BUF - 1 -> Chars]
         /\ lines \in Seq(Chars) /\ edit \in Seq(Chars)
         /\ Len(lines) \in Nat /\ Len(edit) \in Nat
<1>1. lines \in Seq(Chars) /\ edit \in Seq(Chars \ {"\n"})
  BY DEF ConTypeOK
<1>2. edit \in Seq(Chars)
  <2>1. Len(edit) \in Nat /\ edit \in [1 .. Len(edit) -> Chars]
    BY <1>1
  <2> QED BY <2>1, SeqDef
<1> QED BY <1>1, <1>2 DEF ConTypeOK

\* A piece of the ring is a sequence as long as the distance of its ends.
LEMMA ContentSeq ==
  ASSUME ConTypeOK, NEW i \in 0 .. UINT - 1, NEW j \in 0 .. UINT - 1, NEW s \in Seq(Chars), Len(s) <= INPUT_BUF
  PROVE  Content(i, j) = s <=> /\ j = Plus(i, Len(s))
                               /\ \A k \in 1 .. Len(s) : input.buf[Cell(i + k - 1)] = s[k]
<1>1. /\ UINT \in Nat /\ INPUT_BUF \in Nat /\ UINT > INPUT_BUF
      /\ Len(s) \in 0 .. INPUT_BUF /\ Len(s) \in 0 .. UINT - 1 /\ Len(s) \in Nat
  BY ConNumbers
<1>2. ASSUME Content(i, j) = s PROVE j = Plus(i, Len(s))
  <2>1. DOMAIN s = 1 .. Len(s) /\ DOMAIN Content(i, j) = 1 .. (j - i) % UINT
    BY DEF Content
  <2>2. (j - i) % UINT \in 0 .. UINT - 1
    BY UintDiff
  <2>3. (j - i) % UINT = Len(s)
    <3> DEFINE n == (j - i) % UINT
    <3>1. 1 .. n = 1 .. Len(s)
      BY <1>2, <2>1, Zenon
    <3>2. n \in 0 .. UINT - 1
      BY <2>2, Zenon
    <3> HIDE DEF n
    <3>3. n = Len(s)
      BY <1>1, <3>1, <3>2
    <3> QED BY <3>3 DEF n
  <2> QED BY <1>1, <2>3, PlusDiff
<1>3. ASSUME j = Plus(i, Len(s))
      PROVE  Content(i, j) = s <=> \A k \in 1 .. Len(s) : input.buf[Cell(i + k - 1)] = s[k]
  <2>1. Content(i, j) = [k \in 1 .. Len(s) |-> input.buf[Cell(i + k - 1)]]
    BY <1>1, <1>3, ContentIs
  <2>2. s = [k \in 1 .. Len(s) |-> s[k]]
    OBVIOUS
  <2> QED BY <2>1, <2>2
<1> QED BY <1>2, <1>3

\* The two ways to say what is in the ring.
LEMMA RingIs ==
  ASSUME ConTypeOK
  PROVE  RingHoldsLines <=> Ring(input, lines, edit)
<1> DEFINE L == Len(lines)
           E == Len(edit)
<1>1. /\ input.r \in 0 .. UINT - 1 /\ input.w \in 0 .. UINT - 1 /\ input.e \in 0 .. UINT - 1
      /\ lines \in Seq(Chars) /\ edit \in Seq(Chars) /\ L \in Nat /\ E \in Nat
  BY InputTypes
<1>2. INPUT_BUF \in Nat /\ UINT \in Nat
  BY ConNumbers
<1> SUFFICES ASSUME L + E <= INPUT_BUF
             PROVE  Content(input.r, input.w) = lines /\ Content(input.w, input.e) = edit
                      <=> Ring(input, lines, edit)
  BY DEF RingHoldsLines, Ring
<1>3. L <= INPUT_BUF /\ E <= INPUT_BUF /\ L \in 0 .. INPUT_BUF
  BY <1>1, <1>2
<1>4. Content(input.r, input.w) = lines <=>
        /\ input.w = Plus(input.r, L)
        /\ \A k \in 1 .. L : input.buf[Cell(input.r + k - 1)] = lines[k]
  BY <1>1, <1>3, ContentSeq
<1>5. Content(input.w, input.e) = edit <=>
        /\ input.e = Plus(input.w, E)
        /\ \A k \in 1 .. E : input.buf[Cell(input.w + k - 1)] = edit[k]
  BY <1>1, <1>3, ContentSeq
<1>6. ASSUME input.w = Plus(input.r, L)
      PROVE  /\ Plus(input.w, E) = Plus(input.r, L + E)
             /\ \A k \in 1 .. E : Cell(input.w + k - 1) = Cell(input.r + L + k - 1)
  <2>1. Plus(input.w, E) = Plus(input.r, L + E)
    BY <1>1, <1>6, PlusPlus
  <2>2. ASSUME NEW k \in 1 .. E PROVE Cell(input.w + k - 1) = Cell(input.r + L + k - 1)
    <3>1. k - 1 \in Int /\ input.w + k - 1 = input.w + (k - 1) /\ input.r + L + k - 1 = input.r + L + (k - 1)
      BY <1>1, <1>2
    <3>2. Cell(Plus(input.r, L) + (k - 1)) = Cell(input.r + L + (k - 1))
      BY <1>1, <1>3, <3>1, CellPlus
    <3> QED BY <1>6, <3>1, <3>2
  <2> QED BY <2>1, <2>2
<1> QED BY <1>4, <1>5, <1>6 DEF Ring

\* The same one step later.
LEMMA RingIsNext == ConTypeOK' => (RingHoldsLines' <=> Ring(input', lines', edit'))
<1>1. ConTypeOK => (RingHoldsLines <=> Ring(input, lines, edit))
  BY RingIs
<1>2. ConTypeOK' => (RingHoldsLines' <=> Ring(input, lines, edit)')
  BY <1>1, PTL
<1>3. Ring(input, lines, edit)' <=> Ring(input', lines', edit')
  BY Zenon DEF Ring
<1> QED BY <1>2, <1>3, Zenon

-----------------------------------------------------------------------------
(* The loops of the console                                                *)

\* ^U takes back the whole line being edited and no more.
LEMMA KillLineIs ==
  ASSUME ConTypeOK, Ring(input, lines, edit)
  PROVE  KillLine(input.e) = input.w
<1> DEFINE D == 0 .. UINT - 1
           w == input.w
           E == Len(edit)
           Stop(k) == k = w \/ InputAt(Plus(k, -1)) = "\n"
           Is(f) == f = [k \in D |-> IF Stop(k) THEN k ELSE f[Plus(k, -1)]]
           back == CHOOSE f : Is(f)
<1>0. UINT \in Nat /\ UINT > 0 /\ INPUT_BUF \in Nat /\ UINT > INPUT_BUF
  BY ConNumbers
<1>1. /\ input.r \in D /\ w \in D /\ input.e \in D /\ Len(lines) \in Nat /\ E \in Nat
      /\ edit \in Seq(Chars \ {"\n"})
  BY InputTypes DEF ConTypeOK
<1>2. \A k \in D : Plus(k, -1) \in D
  <2> TAKE k \in D
  <2>1. k \in Int /\ -1 \in Int
    BY <1>0
  <2> QED BY <2>1, PlusIn, Zenon
<1>3. \E f : Is(f)
  <2> DEFINE S == {k \in D : Stop(k)}
             base == [k \in D |-> k]
             step == [k \in D |-> Plus(k, -1)]
             m == [k \in D |-> (k - w) % UINT]
  <2>1. base \in [D -> D] /\ step \in [D -> D]
    BY <1>2
  <2>2. m \in [D -> 0 .. UINT - 1]
    BY <1>1, UintDiff
  <2>3. ASSUME NEW k \in D, k \notin S PROVE m[step[k]] < m[k]
    <3>1. k # w
      BY <2>3
    <3>2. Plus(k, -1) = IF k = 0 THEN UINT - 1 ELSE k - 1
      BY MinusOne
    <3>3. (k - w) % UINT = IF w <= k THEN k - w ELSE k - w + UINT
      BY <1>1, UintDiff
    <3>4. (Plus(k, -1) - w) % UINT = IF w <= Plus(k, -1) THEN Plus(k, -1) - w ELSE Plus(k, -1) - w + UINT
      BY <1>1, <1>2, UintDiff
    <3>5. (Plus(k, -1) - w) % UINT < (k - w) % UINT
      <4> DEFINE a == (k - w) % UINT
                 b == (Plus(k, -1) - w) % UINT
                 c == Plus(k, -1)
      <4>1. c = (IF k = 0 THEN UINT - 1 ELSE k - 1) /\ a = (IF w <= k THEN k - w ELSE k - w + UINT)
            /\ b = (IF w <= c THEN c - w ELSE c - w + UINT)
        BY <3>2, <3>3, <3>4, Zenon
      <4>2. k \in 0 .. UINT - 1 /\ w \in 0 .. UINT - 1 /\ k # w
        BY <1>1, <3>1
      <4> HIDE DEF a, b, c, w, D
      <4>3. b < a
        BY <1>0, <4>1, <4>2
      <4> QED BY <4>3 DEF a, b, c
    <3> QED BY <1>2, <3>5
  <2>4. UINT - 1 \in Nat
    BY <1>0
  <2>5. HasValues(D, S, D, base, step)
    <3>1. \A k \in D : k \notin S => m[step[k]] < m[k]
      BY <2>3
    <3>2. base \in [D -> D]
      BY <2>1
    <3>3. step \in [D -> D]
      BY <2>1
    <3> HIDE DEF S, base, step, m, D
    <3> QED BY <3>1, <3>2, <3>3, <2>2, <2>4, LoopExists, Zenon
  <2> HIDE DEF S, base, step, m
  <2>5a. PICK f \in [D -> D] : \A k \in D : f[k] = IF k \in S THEN base[k] ELSE f[step[k]]
    BY <2>5, Zenon DEF HasValues
  <2>6. \A k \in D : f[k] = IF Stop(k) THEN k ELSE f[Plus(k, -1)]
    BY <2>5a DEF S, base, step
  <2>7. Is(f)
    BY <2>6
  <2> QED BY <2>7
<1>4. KillLine(input.e) = back[input.e]
  BY Zenon DEF KillLine
<1>5. Is(back)
  BY <1>3, Zenon
<1>6. \A k \in D : back[k] = IF Stop(k) THEN k ELSE back[Plus(k, -1)]
  BY <1>5
<1> HIDE DEF back
<1>7. /\ E <= INPUT_BUF /\ input.e = Plus(w, E)
      /\ \A j \in 1 .. E : InputAt(Plus(w, j - 1)) = edit[j]
  <2>1. RingHoldsLines
    BY RingIs
  <2>2. Content(w, input.e) = edit /\ E <= INPUT_BUF
    BY <1>0, <1>1, <2>1 DEF RingHoldsLines
  <2>3. input.e = Plus(w, E)
    BY <1>1, <2>2, ContentSeq, InputTypes
  <2>4. DOMAIN edit = 1 .. E
    BY <1>1
  <2> QED BY <2>2, <2>3, <2>4 DEF Content
<1>8. ASSUME NEW j \in 0 .. E PROVE back[Plus(w, j)] = w
  <2> DEFINE Bad == {i \in 0 .. E : back[Plus(w, i)] # w}
  <2> SUFFICES ASSUME Bad # {} PROVE FALSE
    OBVIOUS
  <2>1. PICK i \in Bad : \A h \in Bad : i <= h
    <3>1. Bad \subseteq Nat
      BY <1>1
    <3> HIDE DEF Bad
    <3> QED BY <3>1, LeastNat, Zenon
  <2>2. i \in 0 .. E /\ back[Plus(w, i)] # w /\ i \in 0 .. INPUT_BUF /\ i \in 0 .. UINT
    BY <1>0, <1>1, <1>7
  <2>3. CASE i = 0
    <3>1. Plus(w, 0) = w
      <4>1. 0 \in 0 .. UINT /\ w \in 0 .. UINT - 1
        BY <1>0, <1>1
      <4>2. Plus(w, 0) = IF w + 0 < UINT THEN w + 0 ELSE w + 0 - UINT
        BY <4>1, PlusIs
      <4> HIDE DEF w
      <4> QED BY <1>0, <4>1, <4>2
    <3>2. back[w] = w
      BY <1>1, <1>6
    <3> QED BY <2>2, <2>3, <3>1, <3>2
  <2>4. CASE i # 0
    <3>1. i - 1 \in 0 .. E /\ i - 1 \in 0 .. UINT /\ i \in 1 .. E
      BY <1>0, <1>1, <2>2, <2>4
    <3>2. Plus(w, i) \in D /\ Plus(w, i) # w /\ Plus(Plus(w, i), -1) = Plus(w, i - 1)
      <4>1. Plus(w, i) = (IF w + i < UINT THEN w + i ELSE w + i - UINT) /\ Plus(w, i) \in D
        BY <1>1, <2>2, PlusIs
      <4>2. Plus(w, i - 1) = (IF w + (i - 1) < UINT THEN w + (i - 1) ELSE w + (i - 1) - UINT)
        BY <1>1, <3>1, PlusIs
      <4>3. Plus(Plus(w, i), -1) = IF Plus(w, i) = 0 THEN UINT - 1 ELSE Plus(w, i) - 1
        BY <4>1, MinusOne
      <4>4. i < UINT
        BY <1>0, <2>2
      <4> DEFINE c == Plus(w, i)
                 d == Plus(w, i - 1)
                 b == Plus(Plus(w, i), -1)
      <4>5. /\ c = (IF w + i < UINT THEN w + i ELSE w + i - UINT)
            /\ d = (IF w + (i - 1) < UINT THEN w + (i - 1) ELSE w + (i - 1) - UINT)
            /\ b = (IF c = 0 THEN UINT - 1 ELSE c - 1)
        BY <4>1, <4>2, <4>3, Zenon
      <4>6. w \in 0 .. UINT - 1 /\ i \in Nat /\ i # 0
        BY <1>1, <2>2, <2>4
      <4> HIDE DEF b, c, d, w
      <4>7. c # w /\ b = d
        BY <1>0, <4>4, <4>5, <4>6
      <4> QED BY <4>1, <4>7 DEF b, c, d
    <3>3. InputAt(Plus(Plus(w, i), -1)) # "\n"
      <4>1. InputAt(Plus(w, i - 1)) = edit[i]
        BY <1>7, <3>1
      <4>2. edit[i] \in Chars \ {"\n"}
        BY <1>1, <3>1
      <4> QED BY <3>2, <4>1, <4>2
    <3>4. back[Plus(w, i)] = back[Plus(w, i - 1)]
      BY <1>6, <3>2, <3>3
    <3>5. back[Plus(w, i - 1)] = w
      <4> SUFFICES ASSUME back[Plus(w, i - 1)] # w PROVE FALSE
        OBVIOUS
      <4>1. i - 1 \in Bad
        BY <3>1
      <4>2. i <= i - 1
        BY <2>1, <4>1
      <4> QED BY <2>2, <4>2
    <3> QED BY <2>2, <3>4, <3>5
  <2> QED BY <2>3, <2>4
<1> QED BY <1>1, <1>4, <1>7, <1>8

\* What consoleread() may have done when it sleeps or returns: it took j
\* characters, all of them if it sleeps.
Took(t, j) ==
  /\ j \in 0 .. Len(lines) /\ t.r = Plus(input.r, j) /\ t.n \in Nat /\ t.done \in BOOLEAN
  /\ ~t.done => j = Len(lines)

\* The loop of consoleread() takes committed characters only.
LEMMA LoopTakes ==
  ASSUME ConTypeOK, Ring(input, lines, edit), NEW n0 \in Nat, NEW target \in Nat
  PROVE  \E j \in 0 .. Len(lines) : Took(Loop(input.r, n0, target), j)
<1> DEFINE D == 0 .. n0
           L == Len(lines)
           R(n) == Plus(input.r, n0 - n)
           Ends(n) == n = 0 \/ R(n) = input.w \/ InputAt(R(n)) = EOF \/ InputAt(R(n)) = "\n"
           End(n) == IF n = 0 THEN [r |-> R(n), n |-> n, done |-> TRUE]
                     ELSE IF R(n) = input.w THEN [r |-> R(n), n |-> n, done |-> FALSE]
                     ELSE IF InputAt(R(n)) = EOF
                       THEN [r |-> IF n < target THEN R(n) ELSE Plus(R(n), 1), n |-> n, done |-> TRUE]
                     ELSE [r |-> Plus(R(n), 1), n |-> n - 1, done |-> TRUE]
           Turn(n, f) == IF n = 0 THEN [r |-> R(n), n |-> n, done |-> TRUE]
                         ELSE IF R(n) = input.w THEN [r |-> R(n), n |-> n, done |-> FALSE]
                         ELSE IF InputAt(R(n)) = EOF
                           THEN [r |-> IF n < target THEN R(n) ELSE Plus(R(n), 1), n |-> n, done |-> TRUE]
                         ELSE IF InputAt(R(n)) = "\n" THEN [r |-> Plus(R(n), 1), n |-> n - 1, done |-> TRUE]
                         ELSE f[n - 1]
           Is(f) == f = [n \in D |-> Turn(n, f)]
           loop == CHOOSE f : Is(f)
<1>0. UINT \in Nat /\ UINT > 0 /\ INPUT_BUF \in Nat /\ INPUT_BUF > 0 /\ UINT > INPUT_BUF
  BY ConNumbers
<1>1. /\ input.r \in 0 .. UINT - 1 /\ input.w \in 0 .. UINT - 1 /\ L \in Nat /\ L <= INPUT_BUF
      /\ input.w = Plus(input.r, L)
  BY InputTypes, <1>0 DEF Ring
<1>2. \A f : \A n \in D : Turn(n, f) = IF Ends(n) THEN End(n) ELSE f[n - 1]
  OBVIOUS
<1>3. \E f : Is(f)
  <2> DEFINE S == {n \in D : Ends(n)}
             V == {End(n) : n \in D}
             base == [n \in D |-> End(n)]
             step == [n \in D |-> IF n = 0 THEN 0 ELSE n - 1]
             m == [n \in D |-> n]
  <2>1. base \in [D -> V]
    <3> HIDE DEF End
    <3> QED OBVIOUS
  <2>2. step \in [D -> D] /\ m \in [D -> 0 .. n0]
    OBVIOUS
  <2>3. \A n \in D : n \notin S => m[step[n]] < m[n]
    <3> SUFFICES ASSUME NEW n \in D, n \notin S PROVE m[step[n]] < m[n]
      OBVIOUS
    <3>1. n # 0
      OBVIOUS
    <3>2. n \in Nat /\ n - 1 \in D /\ n - 1 < n
      BY <3>1
    <3> QED BY <3>1, <3>2
  <2>4. HasValues(D, S, V, base, step)
    <3>1. step \in [D -> D]
      BY <2>2
    <3>2. m \in [D -> 0 .. n0]
      BY <2>2
    <3> HIDE DEF S, V, base, step, m, D
    <3> QED BY <2>1, <2>3, <3>1, <3>2, LoopExists, Zenon
  <2>5. PICK f \in [D -> V] : \A n \in D : f[n] = IF n \in S THEN base[n] ELSE f[step[n]]
    <3> HIDE DEF S, V, base, step, m, D
    <3> QED BY <2>4, Zenon DEF HasValues
  <2>6. ASSUME NEW n \in D PROVE f[n] = IF Ends(n) THEN End(n) ELSE f[n - 1]
    <3>1. n \in S <=> Ends(n)
      OBVIOUS
    <3>2. base[n] = End(n)
      BY Zenon
    <3>3. ~Ends(n) => step[n] = n - 1
      OBVIOUS
    <3> HIDE DEF S, base, step, Ends, End
    <3> QED BY <2>5, <3>1, <3>2, <3>3
  <2>7. \A n \in D : f[n] = Turn(n, f)
    <3> HIDE DEF Turn, Ends, End, D
    <3> QED BY <1>2, <2>6, Zenon
  <2>8. Is(f)
    <3> HIDE DEF Turn
    <3> QED BY <2>7
  <2> QED BY <2>8
<1>4. Loop(input.r, n0, target) = loop[n0]
  BY Zenon DEF Loop
<1>5. Is(loop)
  BY <1>3, Zenon
<1>6. \A n \in D : loop[n] = IF Ends(n) THEN End(n) ELSE loop[n - 1]
  <2> HIDE DEF Turn, loop, Ends, End
  <2>1. \A n \in D : loop[n] = Turn(n, loop)
    BY <1>5
  <2> QED BY <1>2, <2>1
<1> HIDE DEF loop, Turn
<1>7. ASSUME NEW n \in D, n0 - n <= L PROVE \E j \in 0 .. L : Took(loop[n], j)
  <2> DEFINE Bad == {k \in D : n0 - k <= L /\ ~ \E j \in 0 .. L : Took(loop[k], j)}
  <2> SUFFICES ASSUME Bad # {} PROVE FALSE
    BY <1>7
  <2>1. PICK k \in Bad : \A h \in Bad : k <= h
    <3>1. Bad \subseteq Nat
      OBVIOUS
    <3> HIDE DEF Bad
    <3> QED BY <3>1, LeastNat, Zenon
  <2> DEFINE a == n0 - k
  <2>2. k \in D /\ a \in 0 .. L /\ ~ \E j \in 0 .. L : Took(loop[k], j)
    OBVIOUS
  <2>3. a \in 0 .. INPUT_BUF /\ L \in 0 .. INPUT_BUF /\ k \in Nat
    BY <1>0, <1>1, <2>2
  <2>4. R(k) = input.w <=> a = L
    BY <1>1, <2>3, PlusInj
  <2>5. CASE k = 0
    <3>1. loop[k] = [r |-> R(k), n |-> k, done |-> TRUE]
      BY <1>6, <2>2, <2>5
    <3>2. Took(loop[k], a)
      BY <2>2, <2>3, <3>1 DEF Took
    <3> QED BY <2>2, <3>2
  <2>6. CASE k # 0 /\ a = L
    <3>1. loop[k] = [r |-> R(k), n |-> k, done |-> FALSE]
      BY <1>6, <2>2, <2>4, <2>6
    <3>2. Took(loop[k], a)
      BY <2>2, <2>3, <2>6, <3>1 DEF Took
    <3> QED BY <2>2, <3>2
  <2>7. CASE k # 0 /\ a # L
    <3>1. a + 1 \in 0 .. L /\ a + 1 \in Nat /\ Plus(R(k), 1) = Plus(input.r, a + 1) /\ k - 1 \in Nat /\ k - 1 \in D
      <4>1. a + 1 \in 0 .. L /\ a \in Nat /\ 1 \in Nat /\ a + 1 <= INPUT_BUF /\ k - 1 \in Nat /\ k - 1 \in D
        BY <1>1, <2>2, <2>3, <2>7, <1>0
      <4>2. Plus(Plus(input.r, a), 1) = Plus(input.r, a + 1)
        <5> HIDE DEF a
        <5> QED BY <1>1, <4>1, PlusPlus
      <4> QED BY <4>1, <4>2
    <3>2. CASE InputAt(R(k)) = EOF
      <4>1. loop[k] = [r |-> IF k < target THEN R(k) ELSE Plus(R(k), 1), n |-> k, done |-> TRUE]
        BY <1>6, <2>2, <2>4, <2>7, <3>2
      <4>2. CASE k < target
        <5>1. loop[k] = [r |-> R(k), n |-> k, done |-> TRUE]
          BY <4>1, <4>2
        <5>2. Took(loop[k], a)
          BY <2>2, <2>3, <5>1 DEF Took
        <5> QED BY <2>2, <5>2
      <4>3. CASE ~(k < target)
        <5>1. loop[k] = [r |-> Plus(R(k), 1), n |-> k, done |-> TRUE]
          BY <4>1, <4>3
        <5>2. Took(loop[k], a + 1)
          BY <2>3, <3>1, <5>1 DEF Took
        <5> QED BY <2>2, <3>1, <5>2
      <4> QED BY <4>2, <4>3
    <3>3. CASE InputAt(R(k)) # EOF /\ InputAt(R(k)) = "\n"
      <4>1. loop[k] = [r |-> Plus(R(k), 1), n |-> k - 1, done |-> TRUE]
        BY <1>6, <2>2, <2>4, <2>7, <3>3
      <4>2. Took(loop[k], a + 1)
        BY <3>1, <4>1 DEF Took
      <4> QED BY <2>2, <3>1, <4>2
    <3>4. CASE InputAt(R(k)) # EOF /\ InputAt(R(k)) # "\n"
      <4>1. loop[k] = loop[k - 1]
        BY <1>6, <2>2, <2>4, <2>7, <3>4
      <4>2. k - 1 \notin Bad
        <5> SUFFICES ASSUME k - 1 \in Bad PROVE FALSE
          OBVIOUS
        <5>1. k <= k - 1
          BY <2>1
        <5> QED BY <2>3, <5>1
      <4>3. n0 - (k - 1) <= L
        BY <2>3, <3>1
      <4>4. \E j \in 0 .. L : Took(loop[k - 1], j)
        BY <3>1, <4>2, <4>3
      <4> QED BY <2>2, <4>1, <4>4
    <3> QED BY <3>2, <3>3, <3>4
  <2> QED BY <2>5, <2>6, <2>7
<1>8. n0 \in D /\ n0 - n0 <= L
  BY <1>1
<1>9. \E j \in 0 .. L : Took(loop[n0], j)
  BY <1>7, <1>8
<1> QED BY <1>4, <1>9

-----------------------------------------------------------------------------
(* The steps of the console                                                *)

\* The invariant in the form the steps use.
LEMMA ConInvIs ==
  ConInv <=> /\ ConTypeOK /\ Ring(input, lines, edit) /\ NoSleeperWithLine
             /\ Len(lines) + Len(edit) = INPUT_BUF => edit = <<>>
<1>1. ConInv <=> /\ ConTypeOK /\ RingHoldsLines /\ NoSleeperWithLine
                 /\ Len(lines) + Len(edit) = INPUT_BUF => edit = <<>>
  BY Zenon DEF ConInv, ConTypeOK
<1> QED BY <1>1, RingIs, Zenon

\* What a step has to keep.
LEMMA ConKeeps ==
  ASSUME ConTypeOK', Ring(input', lines', edit'),
         \A p \in Reader : reading'[p].st = "sleep" => lines' = <<>>,
         Len(lines') + Len(edit') = INPUT_BUF => edit' = <<>>
  PROVE  ConInv'
<1>1. RingHoldsLines'
  BY RingIsNext, Zenon
<1>2. NoSleeperWithLine'
  BY Zenon DEF NoSleeperWithLine
<1> QED BY <1>1, <1>2, Zenon DEF ConInv, ConTypeOK

\* The console starts empty.
LEMMA ConInitInv == ConInit => ConInv
<1> SUFFICES ASSUME ConInit PROVE ConInv
  OBVIOUS
<1>0. UINT \in Nat /\ UINT > 0 /\ INPUT_BUF \in Nat /\ INPUT_BUF > 0
  BY ConNumbers
<1>1. ConTypeOK
  BY <1>0 DEF ConInit, ConTypeOK, Chars
<1>2. Plus(0, 0) = 0
  <2>1. 0 \in 0 .. UINT - 1 /\ 0 \in 0 .. UINT
    BY <1>0
  <2>2. Plus(0, 0) = IF 0 + 0 < UINT THEN 0 + 0 ELSE 0 + 0 - UINT
    BY <2>1, PlusIs, Zenon
  <2> QED BY <1>0, <2>2
<1>3. Ring(input, lines, edit)
  BY <1>0, <1>2 DEF ConInit, Ring
<1>4. NoSleeperWithLine /\ edit = <<>>
  BY DEF ConInit, NoSleeperWithLine
<1> QED BY <1>1, <1>3, <1>4, ConInvIs, Zenon

\* ^U.
LEMMA KillKeyInv == ConInv /\ KillKey => ConInv'
<1> SUFFICES ASSUME ConInv, KillKey PROVE ConInv'
  OBVIOUS
<1>1. ConTypeOK /\ Ring(input, lines, edit) /\ NoSleeperWithLine
  BY ConInvIs, Zenon
<1>2. input' = [input EXCEPT !.e = input.w] /\ edit' = <<>> /\ lines' = lines /\ reading' = reading
  <2>1. KillLine(input.e) = input.w
    BY <1>1, KillLineIs, Zenon
  <2> QED BY <2>1 DEF KillKey
<1>3. /\ input'.r = input.r /\ input'.w = input.w /\ input'.e = input.w /\ input'.buf = input.buf
      /\ Len(lines) \in Nat /\ input.w = Plus(input.r, Len(lines))
  BY <1>1, <1>2, InputTypes DEF ConTypeOK, Ring
<1>4. ConTypeOK'
  <2>1. edit' \in Seq(Chars \ {"\n"})
    BY <1>2
  <2>2. input' \in [r : 0 .. UINT - 1, w : 0 .. UINT - 1, e : 0 .. UINT - 1, buf : [0 .. INPUT_BUF - 1 -> Chars]]
    BY <1>1, <1>2 DEF ConTypeOK
  <2> QED BY <1>1, <1>2, <2>1, <2>2, Zenon DEF ConTypeOK
<1>5. Len(edit') = 0 /\ Len(lines) + 0 = Len(lines) /\ Len(lines) <= INPUT_BUF
  BY <1>1, <1>2, <1>3, ConNumbers, InputTypes DEF Ring
<1>6. Ring(input', lines', edit')
  BY <1>1, <1>2, <1>3, <1>5 DEF Ring
<1>7. \A p \in Reader : reading'[p].st = "sleep" => lines' = <<>>
  BY <1>1, <1>2 DEF NoSleeperWithLine
<1> QED BY <1>2, <1>4, <1>6, <1>7, ConKeeps, Zenon

\* ^H.
LEMMA BackspaceKeyInv == ConInv /\ BackspaceKey => ConInv'
<1> SUFFICES ASSUME ConInv, BackspaceKey PROVE ConInv'
  OBVIOUS
<1> DEFINE L == Len(lines)
           E == Len(edit)
<1>0. UINT \in Nat /\ UINT > 0 /\ INPUT_BUF \in Nat /\ INPUT_BUF > 0 /\ UINT > INPUT_BUF
  BY ConNumbers
<1>1. ConTypeOK /\ Ring(input, lines, edit) /\ NoSleeperWithLine
  BY ConInvIs, Zenon
<1>2. /\ input.e # input.w /\ input' = [input EXCEPT !.e = Plus(input.e, -1)]
      /\ edit' = SubSeq(edit, 1, Len(edit) - 1) /\ lines' = lines /\ reading' = reading
  BY DEF BackspaceKey
<1>3. /\ input.r \in 0 .. UINT - 1 /\ input.w = Plus(input.r, L) /\ input.e = Plus(input.r, L + E)
      /\ input.e \in 0 .. UINT - 1 /\ L \in Nat /\ E \in Nat /\ L + E <= INPUT_BUF
      /\ edit \in Seq(Chars \ {"\n"})
  BY <1>1, InputTypes DEF ConTypeOK, Ring
<1>4. E # 0
  <2> SUFFICES ASSUME E = 0 PROVE FALSE
    OBVIOUS
  <2>1. L + E = L
    BY <1>3
  <2> QED BY <1>2, <1>3, <2>1
<1>5. Plus(input.e, -1) = Plus(input.r, L + (E - 1))
  <2> DEFINE n == L + E
  <2>1. n \in 0 .. UINT /\ n # 0 /\ n - 1 \in 0 .. UINT /\ n < UINT /\ L + (E - 1) = n - 1
    BY <1>0, <1>3, <1>4
  <2>2. input.e = (IF input.r + n < UINT THEN input.r + n ELSE input.r + n - UINT)
    BY <1>3, <2>1, PlusIs
  <2>3. Plus(input.r, n - 1) = (IF input.r + (n - 1) < UINT THEN input.r + (n - 1) ELSE input.r + (n - 1) - UINT)
    BY <1>3, <2>1, PlusIs
  <2>4. Plus(input.e, -1) = IF input.e = 0 THEN UINT - 1 ELSE input.e - 1
    BY <1>3, MinusOne
  <2>5. Plus(input.e, -1) = Plus(input.r, n - 1)
    <3> DEFINE r == input.r
               e == input.e
               a == Plus(input.e, -1)
               b == Plus(input.r, n - 1)
    <3>1. /\ e = (IF r + n < UINT THEN r + n ELSE r + n - UINT)
          /\ b = (IF r + (n - 1) < UINT THEN r + (n - 1) ELSE r + (n - 1) - UINT)
          /\ a = (IF e = 0 THEN UINT - 1 ELSE e - 1)
          /\ r \in 0 .. UINT - 1
      BY <1>3, <2>2, <2>3, <2>4, Zenon
    <3>2. n \in 0 .. UINT /\ n # 0 /\ n < UINT
      BY <2>1
    <3> HIDE DEF r, e, a, b, n
    <3>3. a = b
      BY <1>0, <3>1, <3>2
    <3> QED BY <3>3 DEF a, b
  <2> QED BY <2>1, <2>5
<1>6. /\ edit' \in Seq(Chars \ {"\n"}) /\ Len(edit') = E - 1
      /\ \A k \in 1 .. E - 1 : edit'[k] = edit[k]
  <2>1. edit' = SubSeq(edit, 1, E - 1)
    BY <1>2
  <2>2. \A k \in 1 .. E - 1 : edit[k] \in Chars \ {"\n"}
    BY <1>3
  <2>3. 1 \in Int /\ E - 1 \in Int /\ E - 1 \in Nat
    BY <1>3, <1>4
  <2>4. /\ SubSeq(edit, 1, E - 1) \in Seq(Chars \ {"\n"})
        /\ Len(SubSeq(edit, 1, E - 1)) = IF 1 <= E - 1 THEN E - 1 - 1 + 1 ELSE 0
        /\ \A k \in 1 .. E - 1 - 1 + 1 : SubSeq(edit, 1, E - 1)[k] = edit[1 + k - 1]
    BY <2>2, <2>3, SubSeqProperties
  <2>5. \A k \in 1 .. E - 1 : k \in 1 .. E - 1 - 1 + 1 /\ 1 + k - 1 = k
    BY <2>3
  <2>6. (IF 1 <= E - 1 THEN E - 1 - 1 + 1 ELSE 0) = E - 1
    BY <2>3
  <2> QED BY <2>1, <2>4, <2>5, <2>6
<1>7. /\ input'.r = input.r /\ input'.w = input.w /\ input'.e = Plus(input.r, L + (E - 1)) /\ input'.buf = input.buf
      /\ input'.e \in 0 .. UINT - 1
  <2>1. Plus(input.e, -1) \in 0 .. UINT - 1
    <3>1. input.e \in Int /\ -1 \in Int
      BY <1>0, <1>3
    <3> QED BY <3>1, PlusIn, Zenon
  <2> QED BY <1>1, <1>2, <1>5, <2>1 DEF ConTypeOK
<1>8. ConTypeOK'
  BY <1>1, <1>2, <1>6, <1>7 DEF ConTypeOK
<1>9. Ring(input', lines', edit')
  <2>1. L + Len(edit') <= INPUT_BUF /\ 1 .. E - 1 \subseteq 1 .. E
    BY <1>0, <1>3, <1>6
  <2> QED BY <1>1, <1>2, <1>3, <1>6, <1>7, <2>1 DEF Ring
<1>10. \A p \in Reader : reading'[p].st = "sleep" => lines' = <<>>
  BY <1>1, <1>2 DEF NoSleeperWithLine
<1>11. Len(lines') + Len(edit') # INPUT_BUF
  BY <1>0, <1>2, <1>3, <1>4, <1>6
<1> QED BY <1>8, <1>9, <1>10, <1>11, ConKeeps, Zenon

\* A character.
LEMMA CharKeyInv ==
  ASSUME ConInv, NEW key \in Keys, key \notin {"^U", "^H"}, CharKey(key)
  PROVE  ConInv'
<1> DEFINE c == IF key = "\r" THEN "\n" ELSE key
           L == Len(lines)
           E == Len(edit)
           ends == EndsLine(c, Plus(input.e, 1))
<1>0. UINT \in Nat /\ UINT > 0 /\ INPUT_BUF \in Nat /\ INPUT_BUF > 0 /\ UINT > INPUT_BUF
  BY ConNumbers
<1>1. ConTypeOK /\ Ring(input, lines, edit) /\ NoSleeperWithLine
  BY ConInvIs, Zenon
<1>2. c \in Chars
  BY DEF Keys, Chars
<1>3. /\ Room
      /\ input' = [input EXCEPT !.buf[input.e % INPUT_BUF] = c, !.e = Plus(input.e, 1),
                                !.w = IF ends THEN Plus(input.e, 1) ELSE @]
      /\ reading' = (IF ends THEN Wakeup ELSE reading)
      /\ lines' = (IF ends THEN lines \o Append(edit, c) ELSE lines)
      /\ edit' = (IF ends THEN <<>> ELSE Append(edit, c))
  BY Zenon DEF CharKey
<1> HIDE DEF c
<1>4. /\ input.r \in 0 .. UINT - 1 /\ input.w = Plus(input.r, L) /\ input.e = Plus(input.r, L + E)
      /\ input.e \in 0 .. UINT - 1 /\ input.w \in 0 .. UINT - 1 /\ input.buf \in [0 .. INPUT_BUF - 1 -> Chars]
      /\ L \in Nat /\ E \in Nat /\ L + E <= INPUT_BUF
      /\ lines \in Seq(Chars) /\ edit \in Seq(Chars) /\ edit \in Seq(Chars \ {"\n"})
  BY <1>1, InputTypes DEF ConTypeOK, Ring
<1>5. L + E < INPUT_BUF
  <2>1. L + E \in 0 .. UINT - 1
    BY <1>0, <1>4
  <2>2. (input.e - input.r) % UINT = L + E
    BY <1>4, <2>1, PlusDiff
  <2> QED BY <1>3, <2>2 DEF Room
<1>6. Plus(input.e, 1) = Plus(input.r, L + E + 1) /\ Plus(input.e, 1) \in 0 .. UINT - 1
  <2>1. L + E \in Nat /\ 1 \in Nat /\ L + E + 1 <= INPUT_BUF /\ 1 \in 0 .. UINT
    BY <1>0, <1>4, <1>5
  <2>2. Plus(Plus(input.r, L + E), 1) = Plus(input.r, (L + E) + 1)
    <3> DEFINE n == L + E
    <3>1. n \in Nat /\ n + 1 <= INPUT_BUF
      BY <2>1
    <3> HIDE DEF n
    <3>2. Plus(Plus(input.r, n), 1) = Plus(input.r, n + 1)
      BY <1>4, <2>1, <3>1, PlusPlus
    <3> QED BY <3>2 DEF n
  <2> QED BY <1>4, <2>1, <2>2, PlusIs
<1>7. ends <=> c \in {"\n", EOF} \/ L + E + 1 = INPUT_BUF
  <2>1. L + E + 1 \in 0 .. INPUT_BUF /\ INPUT_BUF \in 0 .. INPUT_BUF
    BY <1>0, <1>4, <1>5
  <2>2. Plus(input.r, L + E + 1) = Plus(input.r, INPUT_BUF) <=> L + E + 1 = INPUT_BUF
    BY <1>4, <2>1, PlusInj
  <2> QED BY <1>6, <2>2 DEF EndsLine
<1>8. /\ input.e % INPUT_BUF = Cell(input.r + L + E) /\ Cell(input.r + L + E) \in 0 .. INPUT_BUF - 1
  <2>1. L + E \in 0 .. INPUT_BUF /\ input.r + L + E \in Int /\ input.r + (L + E) = input.r + L + E
    BY <1>0, <1>4
  <2>2. Cell(Plus(input.r, L + E)) = Cell(input.r + (L + E))
    BY <1>4, <2>1, CellAt
  <2>3. Cell(input.e) = Cell(input.r + L + E)
    BY <1>4, <2>1, <2>2
  <2>4. Cell(input.r + L + E) \in 0 .. INPUT_BUF - 1
    BY <2>1, CellIn
  <2> QED BY <2>3, <2>4 DEF Cell
<1> HIDE DEF ends
<1>9. /\ input'.r = input.r /\ input'.w = (IF ends THEN Plus(input.e, 1) ELSE input.w)
      /\ input'.e = Plus(input.e, 1) /\ input'.buf = [input.buf EXCEPT ![input.e % INPUT_BUF] = c]
      /\ input' \in [r : 0 .. UINT - 1, w : 0 .. UINT - 1, e : 0 .. UINT - 1, buf : [0 .. INPUT_BUF - 1 -> Chars]]
  BY <1>1, <1>2, <1>3, <1>4, <1>6 DEF ConTypeOK
<1>10. /\ input'.buf[Cell(input.r + L + E)] = c
       /\ \A k \in 1 .. L + E : input'.buf[Cell(input.r + k - 1)] = input.buf[Cell(input.r + k - 1)]
  <2>1. input'.buf = [input.buf EXCEPT ![Cell(input.r + L + E)] = c]
    BY <1>8, <1>9, Zenon
  <2>2. input'.buf[Cell(input.r + L + E)] = c
    BY <1>4, <1>8, <2>1
  <2>3. ASSUME NEW k \in 1 .. L + E PROVE input'.buf[Cell(input.r + k - 1)] = input.buf[Cell(input.r + k - 1)]
    <3>1. /\ input.r + k - 1 \in Int /\ input.r + L + E \in Int /\ input.r + k - 1 < input.r + L + E
          /\ input.r + L + E < input.r + k - 1 + INPUT_BUF
      <4> DEFINE r == input.r
      <4>1. r \in Int /\ L \in Nat /\ E \in Nat /\ L + E < INPUT_BUF /\ INPUT_BUF \in Nat
        BY <1>0, <1>4, <1>5
      <4> HIDE DEF r, L, E
      <4>2. /\ r + k - 1 \in Int /\ r + L + E \in Int /\ r + k - 1 < r + L + E
            /\ r + L + E < r + k - 1 + INPUT_BUF
        BY <4>1
      <4> QED BY <4>2 DEF r
    <3>2. Cell(input.r + k - 1) # Cell(input.r + L + E)
      BY <3>1, CellsDiffer
    <3>3. Cell(input.r + k - 1) \in 0 .. INPUT_BUF - 1
      BY <3>1, CellIn
    <3> QED BY <1>4, <2>1, <3>2, <3>3
  <2> QED BY <2>2, <2>3
<1>11. /\ \A k \in 1 .. L : input'.buf[Cell(input.r + k - 1)] = lines[k]
       /\ \A k \in 1 .. E : input'.buf[Cell(input.r + L + k - 1)] = edit[k]
  <2>1. ASSUME NEW k \in 1 .. L PROVE input'.buf[Cell(input.r + k - 1)] = lines[k]
    <3>1. k \in 1 .. L + E
      BY <1>4
    <3> QED BY <1>1, <1>10, <3>1 DEF Ring
  <2>2. ASSUME NEW k \in 1 .. E PROVE input'.buf[Cell(input.r + L + k - 1)] = edit[k]
    <3>1. L + k \in 1 .. L + E /\ input.r + (L + k) - 1 = input.r + L + k - 1
      BY <1>4
    <3>2. input'.buf[Cell(input.r + (L + k) - 1)] = input.buf[Cell(input.r + (L + k) - 1)]
      BY <1>10, <3>1
    <3> QED BY <1>1, <3>1, <3>2 DEF Ring
  <2> QED BY <2>1, <2>2
<1>12. CASE ends
  <2>1. lines' = lines \o Append(edit, c) /\ edit' = <<>> /\ input'.w = Plus(input.e, 1) /\ reading' = Wakeup
    BY <1>3, <1>9, <1>12
  <2>2. /\ lines' \in Seq(Chars) /\ Len(lines') = L + E + 1 /\ Len(edit') = 0
        /\ edit' \in Seq(Chars \ {"\n"})
    BY <1>2, <1>4, <2>1
  <2>3. /\ \A k \in 1 .. L : lines'[k] = lines[k]
        /\ \A k \in L + 1 .. L + E : lines'[k] = edit[k - L]
        /\ lines'[L + E + 1] = c
    BY <1>2, <1>4, <2>1
  <2>4. ASSUME NEW k \in 1 .. L + E + 1 PROVE input'.buf[Cell(input'.r + k - 1)] = lines'[k]
    <3>1. CASE k \in 1 .. L
      BY <1>9, <1>11, <2>3, <3>1
    <3>2. CASE k \in L + 1 .. L + E
      <4>1. k - L \in 1 .. E /\ input.r + L + (k - L) - 1 = input.r + k - 1
        BY <1>4, <3>2
      <4>2. input'.buf[Cell(input.r + L + (k - L) - 1)] = edit[k - L]
        BY <1>11, <4>1
      <4> QED BY <1>9, <2>3, <3>2, <4>1, <4>2
    <3>3. CASE k = L + E + 1
      <4>1. input.r + k - 1 = input.r + L + E
        BY <1>4, <3>3
      <4> QED BY <1>9, <1>10, <2>3, <3>3, <4>1
    <3>4. k \in 1 .. L \/ k \in L + 1 .. L + E \/ k = L + E + 1
      BY <1>4
    <3> QED BY <3>1, <3>2, <3>3, <3>4
  <2>5. L + E + 1 <= INPUT_BUF /\ L + E + 1 + 0 = L + E + 1
    BY <1>0, <1>4, <1>5
  <2>6. Ring(input', lines', edit')
    BY <1>6, <1>9, <2>1, <2>2, <2>4, <2>5 DEF Ring
  <2>7. /\ reading' \in [Reader -> [st : {"idle", "run", "sleep"}, n : Nat, target : Nat]]
        /\ \A p \in Reader : reading'[p].st # "sleep"
    BY <1>1, <2>1 DEF ConTypeOK, Wakeup
  <2>8. ConTypeOK'
    BY <1>9, <2>2, <2>7, Zenon DEF ConTypeOK
  <2> QED BY <2>1, <2>6, <2>7, <2>8, ConKeeps, Zenon
<1>13. CASE ~ends
  <2>1. lines' = lines /\ edit' = Append(edit, c) /\ input'.w = input.w /\ reading' = reading
    BY <1>3, <1>9, <1>13
  <2>2. c \in Chars \ {"\n"} /\ L + E + 1 # INPUT_BUF
    BY <1>2, <1>7, <1>13
  <2>3. /\ edit' \in Seq(Chars \ {"\n"}) /\ Len(edit') = E + 1
        /\ edit'[E + 1] = c /\ \A k \in 1 .. E : edit'[k] = edit[k]
    BY <1>4, <2>1, <2>2
  <2>4. ASSUME NEW k \in 1 .. E + 1 PROVE input'.buf[Cell(input'.r + L + k - 1)] = edit'[k]
    <3>1. CASE k \in 1 .. E
      BY <1>9, <1>11, <2>3, <3>1
    <3>2. CASE k = E + 1
      <4>1. input.r + L + k - 1 = input.r + L + E
        BY <1>4, <3>2
      <4> QED BY <1>9, <1>10, <2>3, <3>2, <4>1
    <3>3. k \in 1 .. E \/ k = E + 1
      BY <1>4
    <3> QED BY <3>1, <3>2, <3>3
  <2>5. L + (E + 1) <= INPUT_BUF /\ L + (E + 1) = L + E + 1 /\ L + (E + 1) # INPUT_BUF
    BY <1>0, <1>4, <1>5, <2>2
  <2>6. Ring(input', lines', edit')
    BY <1>4, <1>6, <1>9, <1>11, <2>1, <2>3, <2>4, <2>5 DEF Ring
  <2>7. ConTypeOK'
    BY <1>1, <1>9, <2>1, <2>3, Zenon DEF ConTypeOK
  <2>8. \A p \in Reader : reading'[p].st = "sleep" => lines' = <<>>
    BY <1>1, <2>1 DEF NoSleeperWithLine
  <2>9. Len(lines') + Len(edit') # INPUT_BUF
    BY <2>1, <2>3, <2>5
  <2> QED BY <2>6, <2>7, <2>8, <2>9, ConKeeps, Zenon
<1> QED BY <1>12, <1>13

\* A turn of consoleread().
LEMMA ReadInv ==
  ASSUME ConInv, NEW p \in Reader, consoleread(p)
  PROVE  ConInv'
<1> DEFINE L == Len(lines)
           E == Len(edit)
           n == reading[p].n
           target == reading[p].target
           t == Loop(input.r, n, target)
<1>0. UINT \in Nat /\ UINT > 0 /\ INPUT_BUF \in Nat /\ INPUT_BUF > 0 /\ UINT > INPUT_BUF
  BY ConNumbers
<1>1. ConTypeOK /\ Ring(input, lines, edit) /\ NoSleeperWithLine
      /\ (L + E = INPUT_BUF => edit = <<>>)
  BY ConInvIs, Zenon
<1>2. n \in Nat /\ target \in Nat
  BY <1>1 DEF ConTypeOK
<1>3. PICK j \in 0 .. L : Took(t, j)
  BY <1>1, <1>2, LoopTakes, Zenon
<1>4. /\ input' = [input EXCEPT !.r = t.r]
      /\ reading' = [reading EXCEPT ![p] = IF t.done THEN [st |-> "idle", n |-> 0, target |-> 0]
                                           ELSE [st |-> "sleep", n |-> t.n, target |-> target]]
      /\ lines' = SubSeq(lines, 1 + ((t.r - input.r) % UINT), L)
      /\ edit' = edit
  BY Zenon DEF consoleread
<1> HIDE DEF t
<1>5. /\ input.r \in 0 .. UINT - 1 /\ input.w = Plus(input.r, L) /\ input.e = Plus(input.r, L + E)
      /\ L \in Nat /\ E \in Nat /\ L + E <= INPUT_BUF /\ lines \in Seq(Chars) /\ j \in Nat /\ j <= L
  BY <1>1, InputTypes DEF ConTypeOK, Ring
<1>6. /\ t.r = Plus(input.r, j) /\ t.n \in Nat /\ t.done \in BOOLEAN /\ (~t.done => j = L)
      /\ t.r \in 0 .. UINT - 1 /\ (t.r - input.r) % UINT = j
  <2>1. j \in 0 .. UINT - 1 /\ j \in 0 .. UINT
    BY <1>0, <1>5
  <2>2. t.r = Plus(input.r, j) /\ t.r \in 0 .. UINT - 1
    BY <1>3, <1>5, <2>1, PlusIs DEF Took
  <2>3. (t.r - input.r) % UINT = j
    BY <1>5, <2>1, <2>2, PlusDiff
  <2> QED BY <1>3, <2>2, <2>3 DEF Took
<1>7. /\ input'.r = Plus(input.r, j) /\ input'.w = input.w /\ input'.e = input.e /\ input'.buf = input.buf
      /\ input' \in [r : 0 .. UINT - 1, w : 0 .. UINT - 1, e : 0 .. UINT - 1, buf : [0 .. INPUT_BUF - 1 -> Chars]]
  BY <1>1, <1>4, <1>6 DEF ConTypeOK
<1>8. /\ lines' \in Seq(Chars) /\ Len(lines') = L - j
      /\ \A k \in 1 .. L - j : lines'[k] = lines[j + k]
  <2>1. lines' = SubSeq(lines, 1 + j, L)
    BY <1>4, <1>6
  <2>2. \A k \in 1 + j .. L : lines[k] \in Chars
    BY <1>5
  <2>3. 1 + j \in Int /\ L \in Int
    BY <1>5
  <2>4. /\ SubSeq(lines, 1 + j, L) \in Seq(Chars)
        /\ Len(SubSeq(lines, 1 + j, L)) = IF 1 + j <= L THEN L - (1 + j) + 1 ELSE 0
        /\ \A k \in 1 .. L - (1 + j) + 1 : SubSeq(lines, 1 + j, L)[k] = lines[1 + j + k - 1]
    BY <2>2, <2>3, SubSeqProperties
  <2>5. \A k \in 1 .. L - j : k \in 1 .. L - (1 + j) + 1 /\ 1 + j + k - 1 = j + k
    BY <1>5
  <2>6. (IF 1 + j <= L THEN L - (1 + j) + 1 ELSE 0) = L - j
    BY <1>5
  <2> QED BY <2>1, <2>4, <2>5, <2>6
<1>9. /\ Plus(input'.r, L - j) = input.w /\ Plus(input'.r, L - j + E) = input.e
  <2>1. /\ L - j \in Nat /\ L - j + E \in Nat /\ j + (L - j) = L /\ j + (L - j + E) = L + E
        /\ j + (L - j) <= INPUT_BUF /\ j + (L - j + E) <= INPUT_BUF
    BY <1>0, <1>5
  <2>2. Plus(Plus(input.r, j), L - j) = Plus(input.r, j + (L - j))
    BY <1>5, <2>1, PlusPlus
  <2>3. Plus(Plus(input.r, j), L - j + E) = Plus(input.r, j + (L - j + E))
    BY <1>5, <2>1, PlusPlus
  <2> QED BY <1>5, <1>7, <2>1, <2>2, <2>3
<1>10. ASSUME NEW x \in Int PROVE Cell(input'.r + x) = Cell(input.r + j + x)
  <2>1. j \in 0 .. INPUT_BUF
    BY <1>0, <1>5
  <2> QED BY <1>5, <1>7, <2>1, CellPlus
<1>11. ASSUME NEW k \in 1 .. L - j PROVE input'.buf[Cell(input'.r + k - 1)] = lines'[k]
  <2>1. /\ k - 1 \in Int /\ input'.r + k - 1 = input'.r + (k - 1) /\ j + k \in 1 .. L
        /\ input.r + j + (k - 1) = input.r + (j + k) - 1
    BY <1>5, <1>7
  <2>2. Cell(input'.r + k - 1) = Cell(input.r + (j + k) - 1)
    BY <1>10, <2>1
  <2>3. input.buf[Cell(input.r + (j + k) - 1)] = lines[j + k]
    BY <1>1, <2>1 DEF Ring
  <2> QED BY <1>7, <1>8, <2>2, <2>3
<1>12. ASSUME NEW k \in 1 .. E PROVE input'.buf[Cell(input'.r + (L - j) + k - 1)] = edit[k]
  <2>1. /\ (L - j) + k - 1 \in Int /\ input'.r + (L - j) + k - 1 = input'.r + ((L - j) + k - 1)
        /\ input.r + j + ((L - j) + k - 1) = input.r + L + k - 1
    BY <1>5, <1>7
  <2>2. Cell(input'.r + (L - j) + k - 1) = Cell(input.r + L + k - 1)
    BY <1>10, <2>1
  <2>3. input.buf[Cell(input.r + L + k - 1)] = edit[k]
    BY <1>1 DEF Ring
  <2> QED BY <1>7, <2>2, <2>3
<1>13. L - j + E <= INPUT_BUF
  BY <1>0, <1>5
<1>14. Ring(input', lines', edit')
  BY <1>4, <1>7, <1>8, <1>9, <1>11, <1>12, <1>13 DEF Ring
<1>15. reading' \in [Reader -> [st : {"idle", "run", "sleep"}, n : Nat, target : Nat]]
  <2>1. reading \in [Reader -> [st : {"idle", "run", "sleep"}, n : Nat, target : Nat]]
    BY <1>1 DEF ConTypeOK
  <2>2. CASE t.done
    BY <1>4, <2>1, <2>2
  <2>3. CASE ~t.done
    BY <1>2, <1>4, <1>6, <2>1, <2>3
  <2> QED BY <1>6, <2>2, <2>3
<1>16. ConTypeOK'
  BY <1>1, <1>4, <1>7, <1>8, <1>15, Zenon DEF ConTypeOK
<1>17. ASSUME NEW q \in Reader, reading'[q].st = "sleep" PROVE lines' = <<>>
  <2>1. L = 0 \/ j = L
    <3>1. CASE q = p
      <4>1. ~t.done
        BY <1>1, <1>4, <1>17, <3>1 DEF ConTypeOK
      <4> QED BY <1>6, <4>1
    <3>2. CASE q # p
      <4>1. reading[q].st = "sleep"
        BY <1>1, <1>4, <1>17, <3>2 DEF ConTypeOK
      <4> QED BY <1>1, <4>1 DEF NoSleeperWithLine
    <3> QED BY <3>1, <3>2
  <2>2. Len(lines') = 0
    BY <1>5, <1>8, <2>1
  <2> QED BY <1>8, <2>2
<1>18. Len(lines') + Len(edit') = INPUT_BUF => edit' = <<>>
  <2> SUFFICES ASSUME Len(lines') + Len(edit') = INPUT_BUF PROVE edit' = <<>>
    OBVIOUS
  <2>1. L + E = INPUT_BUF
    BY <1>0, <1>4, <1>5, <1>8
  <2> QED BY <1>1, <1>4, <2>1
<1> QED BY <1>14, <1>16, <1>17, <1>18, ConKeeps, Zenon

\* A reader that is killed, and one that calls read().
LEMMA IdleInv ==
  ASSUME ConInv, NEW p \in Reader, Killed(p) \/ \E n \in 1 .. MaxRead : ReadCall(p, n)
  PROVE  ConInv'
<1>1. ConTypeOK /\ Ring(input, lines, edit) /\ NoSleeperWithLine
      /\ (Len(lines) + Len(edit) = INPUT_BUF => edit = <<>>)
  BY ConInvIs, Zenon
<1>2. PICK s \in {"idle", "run"}, n \in Nat :
        reading' = [reading EXCEPT ![p] = [st |-> s, n |-> n, target |-> n]]
  <2>1. MaxRead \in Nat
    BY ConsoleAssumption
  <2>2. CASE Killed(p)
    BY <2>2 DEF Killed
  <2>3. CASE \E n \in 1 .. MaxRead : ReadCall(p, n)
    <3>1. PICK n \in 1 .. MaxRead : ReadCall(p, n)
      BY <2>3
    <3>2. n \in Nat
      BY <2>1
    <3> QED BY <3>1, <3>2, Zenon DEF ReadCall
  <2> QED BY <2>2, <2>3
<1>3. input' = input /\ lines' = lines /\ edit' = edit
  BY Zenon DEF Killed, ReadCall
<1>4. ConTypeOK'
  <2>1. reading' \in [Reader -> [st : {"idle", "run", "sleep"}, n : Nat, target : Nat]]
    BY <1>1, <1>2 DEF ConTypeOK
  <2> QED BY <1>1, <1>3, <2>1, Zenon DEF ConTypeOK
<1>5. \A q \in Reader : reading'[q].st = "sleep" => lines' = <<>>
  <2> SUFFICES ASSUME NEW q \in Reader, reading'[q].st = "sleep" PROVE lines' = <<>>
    OBVIOUS
  <2>1. q # p /\ reading[q].st = "sleep"
    BY <1>1, <1>2 DEF ConTypeOK
  <2> QED BY <1>1, <1>3, <2>1 DEF NoSleeperWithLine
<1>6. Ring(input', lines', edit') /\ (Len(lines') + Len(edit') = INPUT_BUF => edit' = <<>>)
  BY <1>1, <1>3, Zenon
<1> QED BY <1>4, <1>5, <1>6, ConKeeps, Zenon

\* ConInv is an invariant of the console, whatever the readers ask for, however large
\* the ring, and with the three indexes wrapping at UINT: the committed characters
\* and then the line being edited are what the ring holds from r on, no reader sleeps
\* with a committed character, and a full ring holds no uncommitted one.
THEOREM ConInvariant == ConSpec => []ConInv
<1>1. ConInit => ConInv
  BY ConInitInv
<1>2. ConInv /\ [ConNext]_convars => ConInv'
  <2> SUFFICES ASSUME ConInv, [ConNext]_convars PROVE ConInv'
    OBVIOUS
  <2>1. CASE consoleintr
    <3>1. PICK key \in Keys : \/ key = "^U" /\ KillKey
                              \/ key = "^H" /\ BackspaceKey
                              \/ key \notin {"^U", "^H"} /\ CharKey(key)
      BY <2>1, Zenon DEF consoleintr
    <3>2. CASE KillKey
      BY <3>2, KillKeyInv, Zenon
    <3>3. CASE BackspaceKey
      BY <3>3, BackspaceKeyInv, Zenon
    <3>4. CASE key \notin {"^U", "^H"} /\ CharKey(key)
      BY <3>4, CharKeyInv, Zenon
    <3> QED BY <3>1, <3>2, <3>3, <3>4, Zenon
  <2>2. ASSUME NEW p \in Reader, consoleread(p) PROVE ConInv'
    BY <2>2, ReadInv, Zenon
  <2>3. ASSUME NEW p \in Reader, Killed(p) \/ \E n \in 1 .. MaxRead : ReadCall(p, n) PROVE ConInv'
    BY <2>3, IdleInv, Zenon
  <2>4. CASE UNCHANGED convars
    <3>1. /\ input' = input /\ lines' = lines /\ edit' = edit /\ reading' = reading
      BY <2>4, Zenon DEF convars
    <3>2. RingHoldsLines <=> RingHoldsLines'
      BY <3>1, Zenon DEF RingHoldsLines, Content, InputAt
    <3> QED BY <3>1, <3>2, Zenon DEF ConInv, NoSleeperWithLine
  <2> QED BY <2>1, <2>2, <2>3, <2>4, Zenon DEF ConNext
<1> QED BY <1>1, <1>2, PTL DEF ConSpec

\* What a line the user ended becomes: it reaches a reader. The ring holds the committed
\* lines in the order they were typed and then the line being edited; no reader sleeps
\* while a committed character waits; a full ring always has one for a reader to take,
\* so typing into a full ring never wedges the console.
THEOREM ConLines == ConSpec => []LinesReachReaders
<1>1. ConInv => LinesReachReaders
  <2> SUFFICES ASSUME ConInv PROVE LinesReachReaders
    OBVIOUS
  <2>1. RingHoldsLines /\ NoSleeperWithLine /\ (Len(lines) + Len(edit) = INPUT_BUF => edit = <<>>)
    BY Zenon DEF ConInv
  <2>2. FullIsReadable
    <3> SUFFICES ASSUME Len(lines) + Len(edit) = INPUT_BUF PROVE lines # <<>>
      BY DEF FullIsReadable
    <3>1. INPUT_BUF > 0 /\ INPUT_BUF \in Nat
      BY ConNumbers
    <3>2. Len(edit) = 0
      BY <2>1
    <3>3. lines = <<>> => Len(lines) = 0
      OBVIOUS
    <3> QED BY <3>1, <3>2, <3>3
  <2> QED BY <2>1, <2>2, Zenon DEF LinesReachReaders
<1> QED BY <1>1, ConInvariant, PTL
=============================================================================
