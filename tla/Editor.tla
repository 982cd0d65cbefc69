------------------------------- MODULE Editor -------------------------------
(***************************************************************************)
(* The editor's window manager (Gui.c from FileListBuffer to ToolBar): the *)
(* list of files of a directory, renaming in place, the tabs, the current  *)
(* tab, and the two notions of focus, manager->focus for the keyboard and  *)
(* cursor_focus for the caret and the input method.  What the files and    *)
(* the buffers contain is the matter of TextEdit.                          *)
(*                                                                         *)
(* The handlers call one another on one structure, so they are operators   *)
(* on its state `ed`.  The disk has a root and one directory, DirName; a   *)
(* path is a sequence of names.  The directory is not empty, and nothing   *)
(* here empties it, so unlink() of it fails.  The entry "." of the list    *)
(* only reads the list again, as the New Folder tool does, and is left out.*)
(* So is the empty name, for which link() fails as for an astray one.      *)
(***************************************************************************)
EXTENDS Naturals, Sequences, SequencesExt, FiniteSets

CONSTANTS
  FILESWITCH_MAX_FILES,
  NewName,             \* what the New File button creates
  DirName,             \* the directory of the root
  FirstFiles,          \* the files there are at the start
  TypedName,           \* names that are typed over a selected one
  AstrayName           \* those that begin with a directory that does not exist
ASSUME DirNotEmpty == \E p \in FirstFiles : p # <<>> /\ Front(p) = <<DirName>>

VARIABLE ed

NoTab == 0
NoSel == [old |-> "", edit |-> "", live |-> FALSE]
On(w) == [w |-> w, id |-> NoTab]           \* cursor_focus on a widget, or on a tab's text
OnTab(id) == [w |-> "tab", id |-> id]
IsDirPath(p) == p \in {<<>>, <<DirName>>}
Exists(s, p) == p \in s.disk \/ IsDirPath(p)
\* nameiparent() finds a directory.
HasParent(p) == IsDirPath(Front(p)) /\ Last(p) \notin AstrayName
ListNames(s) ==
  IF IsDirPath(s.path)
  THEN {".."} \cup {Last(p) : p \in {q \in s.disk : Front(q) = s.path}}
       \cup (IF s.path = <<>> THEN {DirName} ELSE {})
  ELSE {}

\* FileListBuffer_update_FileList(): new entries, so the selected one is stale.
\* Only a rename reads its old name.
update_FileList(s) ==
  [s EXCEPT !.list = [n \in ListNames(s) |-> n],
            !.sel = [old |-> IF s.isRename THEN @.old ELSE "", edit |-> @.edit, live |-> FALSE]]

EdInit ==
  ed = update_FileList(
    [disk |-> FirstFiles, path |-> <<>>, list |-> <<>>, sel |-> NoSel, isRename |-> FALSE,
     files |-> <<>>, buttons |-> <<>>, current |-> NoTab, cursor |-> On("none"), focus |-> "none"])

-----------------------------------------------------------------------------
(* Files                                                                   *)

\* The bare name is looked up in the root.  When it is not there st is not
\* initialised: the answer is `ub`.
File_isDir(s, name, ub) ==
  \/ name \in {DirName, ".."}
  \/ <<name>> \notin s.disk /\ ub

\* textframe_write() to the path of the tab, then the list is read again.
save_file(s, p) ==
  update_FileList([s EXCEPT !.disk = IF HasParent(p) /\ ~IsDirPath(p)
                                     THEN @ \cup {p} ELSE @])

\* sys_link() and sys_unlink(): the disk after.  link() fails when the old name is
\* none of a file, when the new one has no directory and when it is taken.
link(s, from, to) ==
  IF from \in s.disk /\ HasParent(to) /\ ~Exists(s, to) THEN s.disk \cup {to} ELSE s.disk
unlink(disk, p) == disk \ {p}

\* chdir() to a path that is not a directory fails and leaves the root.
RenameDir(s) == IF IsDirPath(s.path) THEN s.path ELSE <<>>

UnlinkFirst(s, from, to) == link([s EXCEPT !.disk = unlink(@, from)], from, to)
\* The old name is unlinked whatever link() returned.
Moved(s, from, to) == unlink(link(s, from, to), from)

rename_FileNameControl(s, ub) ==
  LET old == s.sel.old
      new == s.sel.edit
      from == Append(RenameDir(s), old)
      to == Append(RenameDir(s), new)
      hit(i) == s.buttons[i] = old /\ s.files[i].path = Append(s.path, old)
      done == [s EXCEPT !.isRename = FALSE]
  IN  IF old = new \/ File_isDir(s, old, ub) THEN done
      ELSE update_FileList(
             [done EXCEPT
                !.disk = Moved(s, from, to),
                !.buttons = [i \in DOMAIN @ |-> IF hit(i) THEN new ELSE @[i]],
                !.files = [i \in DOMAIN @ |->
                            IF hit(i) THEN [@[i] EXCEPT !.path = Append(s.path, new)] ELSE @[i]]])

-----------------------------------------------------------------------------
(* Tabs                                                                    *)

NTab(s) == Len(s.files)
TabIds(s) == {s.files[i].id : i \in 1..NTab(s)}
FreshId(s) == CHOOSE id \in 1..(FILESWITCH_MAX_FILES + 1) : id \notin TabIds(s) \cup {s.cursor.id}

\* FileSwitchBar_find_file() compares names only.
find_file(s, name) == {i \in 1..NTab(s) : s.buttons[i] = name}

Least(S) == CHOOSE i \in S : \A j \in S : i <= j

AddTab(s, name) ==
  [s EXCEPT !.files = Append(@, [id |-> FreshId(s), path |-> Append(s.path, name)]),
            !.buttons = Append(@, name), !.current = FreshId(s)]
NewTab(s, name) == [AddTab(s, name) EXCEPT !.cursor = OnTab(FreshId(s))]

EnterDir(s, name) ==
  update_FileList([s EXCEPT !.path = IF name = ".." THEN <<>> ELSE Append(@, name)])

FileSwitchBar_open_file(s, name, ub) ==
  LET found == find_file(s, name)
      dir == File_isDir(s, name, ub)
  IN  CASE found # {} -> [s EXCEPT !.current = s.files[Least(found)].id]
        [] found = {} /\ NTab(s) < FILESWITCH_MAX_FILES /\ ~dir -> NewTab(s, name)
        [] found = {} /\ dir -> EnterDir(s, name)
        [] OTHER -> s

AfterCloseSame(s, i) == IF NTab(s) = 1 THEN NoTab ELSE s.current

\* The tab after the closed one becomes current, or the one before the last.
AfterClose(s, i) ==
  CASE i < NTab(s) -> s.files[i + 1].id
    [] i = NTab(s) /\ i > 1 -> s.files[i - 1].id
    [] OTHER -> NoTab
ClosedButtons(s, i) == RemoveAt(s.buttons, i)
handle_close_Button(s, i) ==
  [s EXCEPT !.files = RemoveAt(@, i), !.buttons = ClosedButtons(s, i), !.current = AfterClose(s, i)]

Button_exec_switch_to_file(s, i) == [s EXCEPT !.current = s.files[i].id, !.cursor = OnTab(s.files[i].id)]

FileSwitchBar_handle_tab(s) ==
  LET at == {i \in 1..NTab(s) : s.files[i].id = s.current}
  IN  IF at = {} THEN s ELSE [s EXCEPT !.current = s.files[(Least(at) % NTab(s)) + 1].id]

CurrentPath(s) == LET i == CHOOSE k \in 1..NTab(s) : s.files[k].id = s.current IN s.files[i].path

-----------------------------------------------------------------------------
(* The mouse: what handle_mouse_BufferManager() does before it hands the   *)
(* event `opt` to the part the mouse is on.  `inSel`: the mouse is on the  *)
(* selected name.                                                          *)

\* An event is enumerated once for all those that do the same: "release" on the
\* list is also a move, "right" on a tool is any event but a press of the left
\* button, and "left" on the text is any but a move.
TextCursor(s) == s.cursor.w = "tab"      \* cursor_focus_type is 1
Direct(opt) == opt = "move" /\ TextCursor(ed)

\* Only a rename tells these apart.
WhenRenaming == IF ed.isRename THEN BOOLEAN ELSE {FALSE}

Arrive(opt, inSel, ub) ==
  IF ~Direct(opt) /\ ed.isRename /\ ed.sel # NoSel /\ ~inSel
  THEN rename_FileNameControl(ed, ub) ELSE ed

\* On the name n of the list.  The bound: an astray name is typed for a rename and
\* not opened before.
MouseFile(opt, ub) ==
  /\ \E inSel \in WhenRenaming :
       LET s0 == Arrive(opt, inSel, ub)
       IN  \E n \in DOMAIN s0.list :
             LET s == [s0 EXCEPT !.focus = "list",
                                 !.sel = [old |-> n, edit |-> s0.list[n], live |-> TRUE]]
             IN  /\ opt = "left" => s0.list[n] \notin AstrayName
                 /\ inSel => s0.sel # NoSel /\ s0.sel.old = n
                 /\ ed' = CASE opt = "left" -> FileSwitchBar_open_file(s, s0.list[n], ub)
                            [] opt = "right" -> [s EXCEPT !.isRename = TRUE, !.cursor = On("line")]
                            [] OTHER -> s

\* On a tab's button.
MouseTab(opt, ub) ==
  /\ opt \in {"left", "right"}
  /\ LET s == [Arrive(opt, FALSE, ub) EXCEPT !.focus = "switch"]
     IN  \E i \in 1..NTab(s) :
           ed' = IF opt = "left" THEN Button_exec_switch_to_file(s, i) ELSE handle_close_Button(s, i)

\* On the text.
MouseText(opt, ub) ==
  LET s0 == Arrive(opt, FALSE, ub)
      s == IF Direct(opt) THEN s0 ELSE [s0 EXCEPT !.focus = "switch"]
  IN  /\ s.current # NoTab
      /\ ed' = IF opt = "move" THEN s ELSE [s EXCEPT !.cursor = OnTab(s.current)]

\* On a tool: New File, New Folder (which only reads the list again), Save.
Tools(s) ==
  {update_FileList([s EXCEPT !.disk = IF IsDirPath(s.path) THEN @ \cup {Append(s.path, NewName)} ELSE @]),
   update_FileList(s)}
  \cup (IF s.current = NoTab THEN {s} ELSE {save_file(s, CurrentPath(s))})
MouseTool(opt, ub) ==
  /\ LET s == [Arrive(opt, FALSE, ub) EXCEPT !.focus = "tool"]
     IN  ed' \in IF opt = "left" THEN Tools(s) ELSE {s}

-----------------------------------------------------------------------------
(* The keyboard: handle_keyboard_BufferManager().  The keys that the input *)
(* method takes first are none of these.                                   *)

Renaming == ed.isRename /\ ed.focus = "list"

\* A name typed over the selected one.  The bound: an astray one only while no
\* tab is open.
KeyName(new) ==
  /\ Renaming /\ ed.sel # NoSel
  /\ new \in AstrayName => ed.files = <<>>
  /\ ed' = [ed EXCEPT !.sel.edit = new,
                      !.list = IF ed.sel.live THEN [@ EXCEPT ![ed.sel.old] = new] ELSE @]

KeyTab == ed.focus = "switch" /\ ed' = FileSwitchBar_handle_tab(ed)

\* ^F moves the caret to the search frame, whose own text and flags are left
\* out, and Enter there back to the text, when the string is found.
KeyFind == ed.focus = "switch" /\ ed' = [ed EXCEPT !.cursor = On("line")]
KeySearch == ed.focus = "switch" /\ ed.current # NoTab /\ ed' = [ed EXCEPT !.cursor = OnTab(ed.current)]

KeySave == ed.focus = "switch" /\ ed.current # NoTab /\ ed' = save_file(ed, CurrentPath(ed))

\* unlink() of the bare name, in the root, then the list is read again.
KeyDelete ==
  /\ ~Renaming /\ ed.focus # "switch" /\ ed.sel # NoSel
  /\ ed' = update_FileList([ed EXCEPT !.disk = unlink(@, <<ed.sel.edit>>)])

EdNext ==
  \/ \E ub \in BOOLEAN : MouseFile("left", ub)
  \/ \E ub \in WhenRenaming :
       \/ MouseFile("right", ub) \/ MouseFile("release", ub)
       \/ \E opt \in {"left", "right"} : MouseTab(opt, ub) \/ MouseTool(opt, ub)
       \/ \E opt \in {"left", "move"} : MouseText(opt, ub)
  \/ \E new \in TypedName : KeyName(new)
  \/ KeyTab \/ KeyFind \/ KeySave \/ KeySearch \/ KeyDelete

-----------------------------------------------------------------------------
(* Properties                                                              *)

\* The current buffer is that of an open tab, and there is none only when no
\* tab is open: however tabs are opened, closed, switched and renamed, no
\* handler saves or draws a buffer that was closed (Gui.c:1114).
CurrentOpen ==
  IF ed.files = <<>> THEN ed.current = NoTab ELSE ed.current \in TabIds(ed)

\* buttons[] and files[] stay parallel: the name on a tab is the last name of
\* the path its buffer is saved to, through closes that shift both arrays and
\* renames that change both (Gui.c:849, 1129).
TabNames ==
  /\ Len(ed.buttons) = NTab(ed)
  /\ \A i \in 1..NTab(ed) : ed.buttons[i] = Last(ed.files[i].path)

\* The list shows exactly what the directory holds: every handler that can
\* change the disk reads the list again (Gui.c:717).
ListFresh == DOMAIN ed.list = ListNames(ed)

Distinct(s) == \A i, j \in 1..NTab(s) : s.files[i].path = s.files[j].path => i = j

\* Opening never gives a file a second tab, in which edits of the first would
\* be overwritten, if no file had two before (Gui.c:1319).
OpenOnce == [][Distinct(ed) /\ Len(ed'.files) > NTab(ed) => Distinct(ed')]_ed

\* A rename never loses another file than the one that is renamed; that one is
\* under its new name when the old one is gone, except that it is lost when link()
\* fails, because the new name is taken or has no directory: the old name is
\* unlinked all the same (Gui.c:842).
RenameKeepsFiles ==
  [][ed.isRename /\ ~ed'.isRename =>
       LET from == Append(RenameDir(ed), ed.sel.old)
           to == Append(RenameDir(ed), ed.sel.edit)
       IN  /\ ed.disk \ {from} \subseteq ed'.disk
           /\ from \in ed.disk \ ed'.disk =>
                (to \in ed'.disk \ ed.disk <=> HasParent(to) /\ ~Exists(ed, to))]_ed

OnCurrent(s) == s.cursor.w = "tab" => s.cursor.id = s.current

\* The caret, and with it the input method, falls behind the shown buffer only
\* where a handler sets the current tab to one that was open already, or to none,
\* and not cursor_focus: a file of the list that has a tab, the TAB key, and
\* closing a tab (Gui.c:1320, 1745, 1124-1133).  A new tab, a click on the text or
\* on a tab, and a rename never leave it behind.
CaretFollows ==
  [][OnCurrent(ed) /\ ~OnCurrent(ed') => ed'.current # ed.current /\ ed'.current \in TabIds(ed) \cup {NoTab}]_ed

\* The arrays of the editor and the list agree with each other and the disk.
TabsConsistent == CurrentOpen /\ TabNames /\ ListFresh

\* What a handler may do to files, tabs and the caret: it gives no file a second
\* tab, loses a file only when a rename's link() fails, and leaves the caret
\* behind only on the way to a tab that is open.
HandlersKeep == OpenOnce /\ RenameKeepsFiles /\ CaretFollows
=============================================================================
