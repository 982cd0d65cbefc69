------------------------------ MODULE RowTable ------------------------------
(***************************************************************************)
(* The array of row pointers of a text, data[] in textframe.c: how many    *)
(* rows there are, what maxrow_capacity says, and how many pointers the    *)
(* array was really allocated for.  The operations disagree on the         *)
(* capacity: textframe_insert() leaves it 0, textframe_delete() sets it to *)
(* the rows that are left, move_cur_line_to_prev_line() does not touch it. *)
(***************************************************************************)
EXTENDS Naturals

CONSTANT MaxRow        \* bound on the rows of a text

ASSUME RowTableAssumption == MaxRow \in Nat /\ MaxRow >= 1

VARIABLES
  maxrow, maxrow_capacity,
  allocated,           \* pointers that data[] has room for
  last, lastRoom       \* the highest index the last operation wrote, and the room there

rowvars == <<maxrow, maxrow_capacity, allocated, last, lastRoom>>

Table(rows, capacity, room) == maxrow' = rows /\ maxrow_capacity' = capacity /\ allocated' = room
Wrote(index, room) == last' = index /\ lastRoom' = room

RowInit == maxrow = 1 /\ maxrow_capacity = 1 /\ allocated = 1 /\ last = 0 /\ lastRoom = 1

\* LineEdit_set_str()
SetStr == Table(1, 1, 1) /\ Wrote(0, 1)

GrowsLate(rows, capacity) == rows > capacity
Grows(rows, capacity) == rows + 1 >= capacity

\* new_line_to_editor() with the caret in any row: it writes data[maxrow], or
\* the row after the caret's when that is the last.
NewLine ==
  LET grow == Grows(maxrow, maxrow_capacity)
      room == IF grow THEN 2 * maxrow ELSE allocated
  IN  /\ maxrow < MaxRow
      /\ Table(maxrow + 1, IF grow THEN 2 * maxrow ELSE maxrow_capacity, room)
      /\ Wrote(maxrow, room)

\* move_cur_line_to_prev_line(), from a row other than the first.
JoinRows ==
  /\ maxrow > 1
  /\ Table(maxrow - 1, maxrow_capacity, allocated)
  /\ Wrote(maxrow - 2, allocated)

\* textframe_delete() takes `gone` rows away; the new array has room for all.
DeleteRows(gone) ==
  /\ gone < maxrow
  /\ Table(maxrow - gone, maxrow - gone, maxrow)
  /\ Wrote(maxrow - gone - 1, maxrow)

\* textframe_insert() of a text of n rows.
InsertRows(n) ==
  LET rows == maxrow + n - 1
  IN  /\ n >= 1 /\ rows <= MaxRow
      /\ Table(rows, 0, rows)
      /\ Wrote(rows - 1, rows)

\* The end of textframe_read() and textframe_write().
ResetCapacity == Table(maxrow, maxrow, allocated) /\ UNCHANGED <<last, lastRoom>>

RowNext ==
  \/ SetStr \/ NewLine \/ JoinRows \/ ResetCapacity
  \/ \E k \in 0..MaxRow : DeleteRows(k) \/ InsertRows(k)

RowSpec == RowInit /\ [][RowNext]_rowvars

-----------------------------------------------------------------------------
(* Properties                                                              *)

\* No operation writes a row pointer beyond the array, in whatever order the
\* operations come and whatever maxrow_capacity was left at, and there is
\* always a row for the caret to be in (textframe.c:484).
RowsInArray ==
  /\ last < lastRoom
  /\ 1 <= maxrow /\ maxrow <= allocated

\* The invariant that carries it: the capacity never promises room there is not.
RowInv ==
  /\ maxrow \in Nat /\ maxrow_capacity \in Nat /\ allocated \in Nat /\ last \in Nat /\ lastRoom \in Nat
  /\ RowsInArray
  /\ maxrow_capacity <= allocated
=============================================================================
