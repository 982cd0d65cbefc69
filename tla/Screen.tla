------------------------------- MODULE Screen -------------------------------
(***************************************************************************)
(* Where things are on the screen.  Drawing goes down the tree of widgets: *)
(* calc_current_area() places each one in what is left of its parent.  The *)
(* mouse goes down the same tree: is_pos_in_area() and then                *)
(* mouse_pos_transform().  A text scrolls so that its caret can be seen    *)
(* (draw_TextEdit()), and its glyphs come from a table.                    *)
(***************************************************************************)
EXTENDS Integers

CONSTANTS
  Width, Height,       \* the screen
  Widget,              \* the areas that widgets have in their parents
  AreaW, AreaH,        \* the size of a text's area
  MaxDown,             \* bound on the depth of the tree
  Caret                \* the rows and columns where the caret can be

MIN_SCALE == 0
MAX_SCALE == 2
font_width(scale) == CASE scale = 0 -> 8 [] scale = 1 -> 16 [] OTHER -> 32
font_height(scale) == 2 * font_width(scale)

Area == [x : Int, y : Int, width : Int, height : Int, offset_x : Int, offset_y : Int]
Place(x, y, w, h) == [x |-> x, y |-> y, width |-> w, height |-> h, offset_x |-> 0, offset_y |-> 0]

\* A widget may be put anywhere in its parent; a text's area has room for the
\* largest glyph.
ASSUME ScreenAssumption ==
  /\ Width \in Nat /\ Height \in Nat /\ MaxDown \in Nat
  /\ Widget \subseteq Area
  /\ AreaW \in Nat /\ AreaH \in Nat /\ AreaW >= 32 /\ AreaH >= 64
  /\ Caret \subseteq Nat

VARIABLES
  px, py,              \* a pixel, where the mouse is
  area,                \* the widget being drawn
  lx, ly,              \* the mouse, in the widget's coordinates
  hit,                 \* the mouse event reached this widget
  depth,               \* its depth
  scale, col, row,     \* a text: its zoom and the place of its caret
  offset_x, offset_y,  \* how far it is scrolled
  tries                \* adjustments of the offset in this drawing; -1 when drawn

geovars == <<px, py, area, lx, ly, hit, depth>>
caretvars == <<scale, col, row, offset_x, offset_y, tries>>

min(a, b) == IF a < b THEN a ELSE b

CalcNoClip(p, a) ==
  [x |-> p.x + a.x - p.offset_x, y |-> p.y + a.y - p.offset_y,
   width |-> a.width, height |-> a.height, offset_x |-> a.offset_x, offset_y |-> a.offset_y]
calc_current_area(p, a) ==
  LET dx == a.x - p.offset_x
      dy == a.y - p.offset_y
  IN  [x |-> p.x + dx, y |-> p.y + dy,
       width |-> IF dx < 0 THEN 0 ELSE min(p.width - dx, a.width),
       height |-> min(IF dy < 0 THEN 0 ELSE p.height - dy, a.height),
       offset_x |-> a.offset_x, offset_y |-> a.offset_y]

is_pos_in_area(a, x, y) == x >= a.x /\ y >= a.y /\ x < a.x + a.width /\ y < a.y + a.height

-----------------------------------------------------------------------------
(* Down the tree                                                           *)

\* A handler that tests the place of the mouse and hands it on.  Those of
\* FileNameControl and SearchFrame do neither: they give their one-line text the
\* place in their parent, and are not part of the tree here.
Descend(a) ==
  /\ depth < MaxDown
  /\ area' = calc_current_area(area, a)
  /\ hit' = (hit /\ is_pos_in_area(a, lx, ly))
  /\ lx' = lx - (a.x - a.offset_x) /\ ly' = ly - (a.y - a.offset_y)      \* mouse_pos_transform()
  /\ depth' = depth + 1
  /\ UNCHANGED <<px, py>>

-----------------------------------------------------------------------------
(* The caret                                                               *)

cursor_area ==
  calc_current_area([Place(0, 0, AreaW, AreaH) EXCEPT !.offset_x = offset_x, !.offset_y = offset_y],
                    Place(col * font_width(scale), row * font_height(scale), 1, font_height(scale)))
Visible == cursor_area.height > 0 /\ cursor_area.width > 0 /\ cursor_area.x >= 0 /\ cursor_area.y >= 0

max0(a) == IF a > 0 THEN a ELSE 0
AdjustShort(pos, len, font) == max0(pos - len)
Adjust(pos, len, font) == max0(pos - len + font)

\* The caret is moved or the text zoomed, and the window is to be drawn again.
MoveCaret(c, r) ==
  /\ tries = -1
  /\ col' = c /\ row' = r /\ tries' = 0
  /\ UNCHANGED <<scale, offset_x, offset_y>>
Zoom(s) ==
  /\ tries = -1
  /\ s \in {scale - 1, scale + 1} \cap MIN_SCALE..MAX_SCALE
  /\ scale' = s /\ tries' = 0
  /\ UNCHANGED <<col, row, offset_x, offset_y>>

\* The loop of draw_TextEdit(): at most ten times.
AdjustOffset ==
  /\ tries \in 0..9 /\ ~Visible
  /\ offset_x' = Adjust(col * font_width(scale), AreaW, font_width(scale))
  /\ offset_y' = Adjust(row * font_height(scale), AreaH, font_height(scale))
  /\ tries' = tries + 1
  /\ UNCHANGED <<scale, col, row>>
DrawCaret ==
  /\ tries >= 0 /\ (Visible \/ tries = 10)
  /\ tries' = -1
  /\ UNCHANGED <<scale, col, row, offset_x, offset_y>>

-----------------------------------------------------------------------------
(* Glyphs: get_gbk_point_by_c1_c2(), 32 bytes of a table of 320000         *)

GbkSize == 320000
GlyphOffset(c1, c2) == (94 * (c1 - 160 - 1) + (c2 - 160 - 1)) * 32
get_gbk_point(c1, c2) == LET o == GlyphOffset(c1, c2) IN IF o < 0 \/ o >= GbkSize THEN 0 ELSE o

-----------------------------------------------------------------------------
(* The two walks and the caret share no state.                             *)

GeoInit ==
  /\ px \in 0..(Width - 1) /\ py \in 0..(Height - 1)
  /\ area = Place(0, 0, Width, Height)
  /\ lx = px /\ ly = py /\ hit = TRUE /\ depth = 0
GeoNext == \E a \in Widget : Descend(a)
GeoSpec == GeoInit /\ [][GeoNext]_geovars

CaretInit == scale = MIN_SCALE /\ col = 0 /\ row = 0 /\ offset_x = 0 /\ offset_y = 0 /\ tries = 0
CaretNext ==
  \/ \E c, r \in Caret : MoveCaret(c, r)
  \/ \E s \in MIN_SCALE..MAX_SCALE : Zoom(s)
  \/ AdjustOffset \/ DrawCaret
CaretSpec == CaretInit /\ [][CaretNext]_caretvars

-----------------------------------------------------------------------------
(* Properties                                                              *)

Empty(a) == a.width <= 0 \/ a.height <= 0

\* What is drawn of a widget lies on the screen, however deep it is, wherever
\* it is put and however it is scrolled: set_color() has no test for x < 0 or
\* y < 0 and relies on this (Gui.c:33, sysdraw.c:69).
DrawnOnScreen ==
  ~Empty(area) => /\ 0 <= area.x /\ area.x + area.width <= Width
                  /\ 0 <= area.y /\ area.y + area.height <= Height

\* A mouse event on a pixel that a widget is drawn on reaches that widget: the
\* two walks, with their different arithmetic, agree (Gui.c:19-49).
MouseFindsDrawn ==
  ~Empty(area) /\ is_pos_in_area(area, px, py) => hit

\* When the text is drawn its caret can be seen, after at most one adjustment
\* of the ten that are tried: a step that ends the drawing ends it with the
\* caret in sight (Gui.c:113-133).
CaretSeen ==
  /\ tries = -1 => Visible
  /\ tries <= 1

\* Drawing and the mouse agree on where a widget is.
WidgetsAgree == DrawnOnScreen /\ MouseFindsDrawn
=============================================================================
