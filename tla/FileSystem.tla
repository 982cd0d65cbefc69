----------------------------- MODULE FileSystem -----------------------------
(***************************************************************************)
(* Inodes, directories, blocks and open files: fs.c, file.c and the file   *)
(* system calls of sysfile.c, with fork() and exit() where they copy and   *)
(* drop references.                                                        *)
(*                                                                         *)
(* An inode is used between ilock() and iunlock(), so one action is what a *)
(* call does from an ilock() to the next place where it may wait (another  *)
(* ilock(), begin_trans(), each log_write() of an iput() that frees).      *)
(* iget() keeps one slot of icache per inode, so the slot of inode i is    *)
(* inode[i].  A block is the unit of file offsets; a directory has one.    *)
(***************************************************************************)
EXTENDS Integers, Sequences, FiniteSets

CONSTANTS
  Proc,
  initproc,  \* the process that never exits
  NInum,     \* inodes on disk, 1 is the root
  NINODE,    \* slots of icache
  NBlock,    \* data blocks
  NFILE,     \* slots of ftable
  NOFILE,    \* descriptors of a process
  MAXFILE,   \* blocks of a file
  MaxChunk,  \* bound on the transactions of one write()
  Name,
  Calls,     \* the path calls of each process: [op, path] or, for link, [op, path, new]
  NoProc

\* The elements of a path, after "/" if it is absolute: what skipelem() cuts off.
Elem == Name \cup {".", ".."}
IsPath(s) == /\ s \in Seq(Elem \cup {"/"})
             /\ s \in Seq(Elem) \/ (s # <<>> /\ Head(s) = "/" /\ Tail(s) \in Seq(Elem))

ASSUME FileSystemAssumption ==
  /\ NInum \in Nat \ {0} /\ NINODE \in Nat \ {0} /\ NBlock \in Nat \ {0}
  /\ NFILE \in Nat /\ NOFILE \in Nat /\ MAXFILE \in Nat \ {0} /\ MaxChunk \in Nat \ {0}
  /\ IsFiniteSet(Proc) /\ initproc \in Proc /\ NoProc \notin Proc
  /\ IsFiniteSet(Name)
  /\ \A p \in Proc : \A c \in Calls[p] :
       /\ c.op \in {"open", "chdir", "exec", "create", "mkdir", "unlink", "link"}
       /\ IsPath(c.path) /\ (c.op = "link" => IsPath(c.new))

Inum == 1 .. NInum
ROOTINO == 1
Block == 1 .. NBlock
File == 1 .. NFILE
Fd == 1 .. NOFILE
First(S) == CHOOSE x \in S : \A y \in S : x <= y

VARIABLES
  dinode,  \* the inodes on disk with the entries of a directory (up: its "..")
  used,    \* the bitmap
  inode,   \* icache: I_BUSY names its owner, I_VALID, and the copied fields; left
           \* has what iput() has still to free of ip->addrs
  trans,   \* who is between begin_trans() and commit_trans()
  file,    \* ftable
  ofile, cwd,
  call,    \* what each process is doing; ip and dp are counted references, puts
           \* the iput() calls that come next, put where it is in the first of them
  panic,
  stray    \* history: the inodes that have got a name in a removed directory, with the
           \* directory if it was a subdirectory, or were gone when its ".." led there

vars == <<dinode, used, inode, trans, file, ofile, cwd, call, panic, stray>>
disk == <<dinode, used>>
files == <<file, ofile, cwd>>

NoEnts == [n \in Name |-> 0]
FreeInode == [type |-> "FREE", nlink |-> 0, addrs |-> {}, ents |-> NoEnts, up |-> 0]
Uncached == [ref |-> 0, busy |-> NoProc, valid |-> FALSE, type |-> "FREE", nlink |-> 0,
             left |-> {}]
Idle == [op |-> "none", at |-> "idle", path |-> <<>>, new |-> <<>>, ip |-> 0, dp |-> 0,
         f |-> 0, n |-> 0, puts |-> <<>>, put |-> "ref"]

\* mkfs.c: a root directory.  Every process starts there (userinit(), fork()).
Init ==
  /\ dinode = [i \in Inum |-> IF i = ROOTINO
                 THEN [FreeInode EXCEPT !.type = "DIR", !.nlink = 1, !.addrs = {1}, !.up = 1]
                 ELSE FreeInode]
  /\ used = {1}
  /\ inode = [i \in Inum |-> IF i = ROOTINO THEN [Uncached EXCEPT !.ref = Cardinality(Proc)]
                                            ELSE Uncached]
  /\ trans = NoProc
  /\ file = [f \in File |-> [ref |-> 0, ip |-> 0, off |-> 0]]
  /\ ofile = [p \in Proc |-> [d \in Fd |-> 0]]
  /\ cwd = [p \in Proc |-> ROOTINO]
  /\ call = [p \in Proc |-> Idle]
  /\ panic = ""
  /\ stray = {}

-----------------------------------------------------------------------------

At(p, l) == panic = "" /\ call[p].at = l /\ call[p].puts = <<>>

\* call[p] goes on at l with the inodes i and d, after the iput()s of ps.
Go(p, l, i, d, ps) == call' = [call EXCEPT ![p].at = l, ![p].ip = i, ![p].dp = d,
                                           ![p].puts = ps]
Return(p, ps) == call' = [call EXCEPT ![p] = [Idle EXCEPT !.puts = ps]]

Halt(reason) == panic' = reason /\ UNCHANGED <<disk, inode, trans, files, call, stray>>

\* Mutant: iget() finds the slot but does not count the reference.
IgetNoCount(ic, i) == IF ic[i].ref = 0 THEN [ic EXCEPT ![i] = [Uncached EXCEPT !.ref = 1]]
                      ELSE ic
\* iget() of i: one more reference, in a fresh slot if i has none; it needs one.
iget(ic, i) == IF ic[i].ref = 0 THEN [ic EXCEPT ![i] = [Uncached EXCEPT !.ref = 1]]
                                ELSE [ic EXCEPT ![i].ref = @ + 1]
NoSlot(i) == inode[i].ref = 0 /\ Cardinality({j \in Inum : inode[j].ref > 0}) >= NINODE

\* ilock(): waits for I_BUSY, reads the inode if it is not I_VALID, and panics
\* if it is free on disk.
Free(i) == inode[i].busy = NoProc
NoType(i) == ~inode[i].valid /\ dinode[i].type = "FREE"
ilock(ic, i) == IF ic[i].valid THEN ic
                ELSE [ic EXCEPT ![i].valid = TRUE, ![i].type = dinode[i].type,
                                ![i].nlink = dinode[i].nlink]
Locked(i) == Free(i) /\ ~NoType(i)

\* The inode that a process waits to lock.
Wants(p) == LET c == call[p] IN IF c.at \in {"write", "read"} THEN file[c.f].ip ELSE c.ip
Locking == {"walk", "use", "create", "exists", "fill", "unlink", "victim", "link", "enter",
            "undo", "write", "read"}

PanicNoType(p) ==
  /\ call[p].at \in Locking /\ At(p, call[p].at)
  /\ call[p].at = "walk" => call[p].path # <<>>
  /\ Free(Wants(p)) /\ NoType(Wants(p))
  /\ Halt("ilock: no type")

\* nlink changes by d in memory, and by iupdate() on disk.
AddLink(f, i, d) == [f EXCEPT ![i].nlink = @ + d]

\* balloc(): the first free block.
balloc == First(Block \ used)
Full == used = Block
\* bmap(): a block past the end is allocated.
bmap(di, i, b) == [di EXCEPT ![i].addrs = @ \cup {b}]

ialloc(i, type) == [dinode EXCEPT ![i] = [FreeInode EXCEPT !.type = type]]
idup(i) == [inode EXCEPT ![i].ref = @ + 1]

\* dirlink() of a name that is not there; "." and ".." are not in ents.
dirlink(di, d, name, i) == [di EXCEPT ![d].ents[name] = i]
isdirempty(i) == dinode[i].ents = NoEnts

-----------------------------------------------------------------------------
(* namex(): one turn of the loop is one action.                            *)

WantsParent(c) == c.op \in {"create", "mkdir", "unlink"} \/ (c.op = "link" /\ c.dp # 0)
InTrans(c) == c.op \in {"create", "mkdir"}

\* Where a call is when its lookup has found an inode, and when it has not.
Found(c) == CASE InTrans(c) -> "create"
              [] c.op = "unlink" -> "begin"
              [] c.op = "link" -> IF c.dp = 0 THEN "begin" ELSE "enter"
              [] OTHER -> "use"
Missing(c) == CASE InTrans(c) -> "commit"
                [] c.op = "link" /\ c.dp # 0 -> "undo"
                [] OTHER -> "idle"

\* The start of namex(): the root for an absolute path, else the cwd.
StartAt(p, path) == IF path # <<>> /\ Head(path) = "/" THEN ROOTINO ELSE cwd[p]
Elems(path) == IF path # <<>> /\ Head(path) = "/" THEN Tail(path) ELSE path

\* Mutant: the inode is not put back.
FailsNoPut(c) == IF Missing(c) = "idle" THEN Idle
                 ELSE [c EXCEPT !.at = Missing(c), !.ip = c.dp, !.dp = 0]
Fails(c) == IF Missing(c) = "idle" THEN [Idle EXCEPT !.puts = <<c.ip>>]
            ELSE [c EXCEPT !.at = Missing(c), !.ip = c.dp, !.dp = 0, !.puts = <<c.ip>>]

\* dirlookup(): "." and ".." are entries of every directory.
Target(i, name) == IF name = "." THEN i ELSE IF name = ".." THEN dinode[i].up
                   ELSE dinode[i].ents[name]
\* iput() is freeing the inode.
Freeing(i) == \E p \in Proc : /\ call[p].puts # <<>> /\ Head(call[p].puts) = i
                              /\ call[p].put \in {"itrunc", "iupdate"}
\* The inode is gone to which the ".." of a removed directory leads.
Gone(ic, d, name, i) ==
  IF name = ".." /\ ic[d].nlink = 0 /\ (dinode[i].type = "FREE" \/ Freeing(i)) THEN {i} ELSE {}

\* The path is used up: namei() returns the inode, nameiparent() fails.
WalkEnd(p) ==
  LET c == call[p]
  IN  /\ At(p, "walk") /\ c.path = <<>>
      /\ call' = [call EXCEPT ![p] = IF WantsParent(c) THEN Fails(c)
                                     ELSE [c EXCEPT !.at = Found(c)]]
      /\ UNCHANGED <<disk, inode, trans, files, panic, stray>>

\* ilock(); not a directory: fail; the parent of the last element: iunlock() and
\* return it; else dirlookup(), iunlockput().
Walk(p) ==
  LET c == call[p]
      i == c.ip
      ic == ilock(inode, i)
      dir == ic[i].type = "DIR"
      parent == WantsParent(c) /\ Len(c.path) = 1
      next == IF dir THEN Target(i, Head(c.path)) ELSE 0
  IN  /\ At(p, "walk") /\ c.path # <<>> /\ Locked(i)
      /\ \/ /\ ~dir \/ (~parent /\ next = 0)
            /\ inode' = ic /\ call' = [call EXCEPT ![p] = Fails(c)]
            /\ UNCHANGED <<stray, panic>>
         \/ /\ dir /\ parent
            /\ inode' = ic /\ call' = [call EXCEPT ![p].at = Found(c)]
            /\ UNCHANGED <<stray, panic>>
         \/ /\ ~parent /\ next # 0
            /\ IF NoSlot(next) THEN Halt("iget: no inodes")
               ELSE /\ inode' = iget(ic, next)
                    /\ call' = [call EXCEPT ![p].path = Tail(@), ![p].ip = next,
                                            ![p].puts = <<i>>]
                    /\ stray' = stray \cup Gone(ic, i, Head(c.path), next)
                    /\ UNCHANGED panic
      /\ UNCHANGED <<disk, trans, files>>

\* A path call: create(), mkdir() begin a transaction before the lookup.
Start(p) ==
  /\ At(p, "idle") /\ cwd[p] # 0
  /\ \E c \in Calls[p] :
       LET s == StartAt(p, c.path)
           k == [Idle EXCEPT !.op = c.op, !.path = Elems(c.path),
                             !.new = IF c.op = "link" THEN c.new ELSE <<>>]
       IN  /\ InTrans(c) => trans = NoProc
           /\ IF NoSlot(s) THEN Halt("iget: no inodes")
              ELSE /\ trans' = IF InTrans(c) THEN p ELSE trans
                   /\ inode' = iget(inode, s)
                   /\ call' = [call EXCEPT ![p] = [k EXCEPT !.at = "walk", !.ip = s]]
                   /\ UNCHANGED <<disk, files, panic, stray>>

-----------------------------------------------------------------------------
(* iput()                                                                  *)

\* The last reference to an inode without links frees it, with I_BUSY set and
\* icache.lock released: each log_write() is a step of its own, and panics when
\* nobody, neither p nor another process, is in a transaction then.
Frees(i) == inode[i].ref = 1 /\ inode[i].valid /\ inode[i].nlink = 0
InPut(p, l) == panic = "" /\ call[p].puts # <<>> /\ call[p].put = l

iput(p) ==
  LET i == Head(call[p].puts)
  IN  /\ InPut(p, "ref")
      /\ IF ~Frees(i)
         THEN /\ inode' = [inode EXCEPT ![i] = IF inode[i].ref = 1 THEN Uncached
                                               ELSE [inode[i] EXCEPT !.ref = @ - 1]]
              /\ call' = [call EXCEPT ![p].puts = Tail(@)]
              /\ UNCHANGED <<disk, trans, files, panic, stray>>
         ELSE IF ~Free(i) THEN Halt("iput busy")
         ELSE /\ inode' = [inode EXCEPT ![i].busy = p, ![i].left = dinode[i].addrs]
              /\ call' = [call EXCEPT ![p].put = "itrunc"]
              /\ UNCHANGED <<disk, trans, files, panic, stray>>

\* bfree() of one block of the inode.
bfree(p) ==
  LET i == Head(call[p].puts)
  IN  /\ InPut(p, "itrunc")
      /\ \E b \in inode[i].left :
           IF b \notin used THEN Halt("freeing free block")
           ELSE IF trans = NoProc THEN Halt("write outside of trans")
           ELSE /\ used' = used \ {b}
                /\ inode' = [inode EXCEPT ![i].left = @ \ {b}]
                /\ UNCHANGED <<dinode, trans, files, call, panic, stray>>

\* The end of itrunc(): size = 0 and iupdate(); then type = 0 in memory.
itrunc(p) ==
  LET i == Head(call[p].puts)
  IN  /\ InPut(p, "itrunc") /\ inode[i].left = {}
      /\ IF trans = NoProc THEN Halt("write outside of trans")
         ELSE /\ dinode' = [dinode EXCEPT ![i].addrs = {}, ![i].ents = NoEnts, ![i].up = 0]
              /\ inode' = [inode EXCEPT ![i].type = "FREE"]
              /\ call' = [call EXCEPT ![p].put = "iupdate"]
              /\ UNCHANGED <<used, trans, files, panic, stray>>

\* iupdate() of the type.
iputFree(p) ==
  LET i == Head(call[p].puts)
  IN  /\ InPut(p, "iupdate")
      /\ IF trans = NoProc THEN Halt("write outside of trans")
         ELSE /\ dinode' = [dinode EXCEPT ![i] = FreeInode]
              /\ call' = [call EXCEPT ![p].put = "end"]
              /\ UNCHANGED <<used, inode, trans, files, panic, stray>>

\* The end of iput(): flags = 0, wakeup(), ref--.
iputEnd(p) ==
  LET i == Head(call[p].puts)
  IN  /\ InPut(p, "end")
      /\ inode' = [inode EXCEPT ![i] = [Uncached EXCEPT !.ref = inode[i].ref - 1]]
      /\ call' = [call EXCEPT ![p].puts = Tail(@), ![p].put = "ref"]
      /\ UNCHANGED <<disk, trans, files, panic, stray>>

-----------------------------------------------------------------------------
(* Transactions                                                            *)

Begin(p) ==
  /\ At(p, "begin") /\ trans = NoProc
  /\ trans' = p
  /\ LET c == call[p]
     IN  call' = [call EXCEPT ![p] =
                    IF c.op = "close"
                    THEN [c EXCEPT !.at = "commit", !.puts = <<c.ip>>, !.ip = 0]
                    ELSE [c EXCEPT !.at = c.op]]
  /\ UNCHANGED <<disk, inode, files, panic, stray>>

\* Mutant: a second transaction, to truncate the file, with the inode locked.
CommitAgain(p) ==
  /\ At(p, "commit")
  /\ trans' = NoProc
  /\ LET c == call[p]
     IN  call' = [call EXCEPT ![p] = IF c.ip # 0 THEN [c EXCEPT !.at = "begin"] ELSE Idle]
  /\ UNCHANGED <<disk, inode, files, panic, stray>>
Commit(p) ==
  /\ At(p, "commit")
  /\ trans' = NoProc
  /\ LET c == call[p]
     IN  call' = [call EXCEPT ![p] =
                    CASE c.op = "create" /\ c.ip # 0 -> [c EXCEPT !.at = "fd"]
                      [] c.op = "write" /\ c.n > 0 -> [c EXCEPT !.at = "begin"]
                      [] c.op = "close" /\ c.n = 1 -> [Idle EXCEPT !.at = "exit"]
                      [] OTHER -> Idle]
  /\ UNCHANGED <<disk, inode, files, panic, stray>>

-----------------------------------------------------------------------------
(* open(), chdir(), exec()                                                 *)

FreeFile == {f \in File : file[f].ref = 0}
FreeFd(p) == {d \in Fd : ofile[p][d] = 0}

\* filealloc() and fdalloc(), then iunlock(); without either, iunlockput().
OpenFd(p, ic, i) ==
  IF FreeFile # {} /\ FreeFd(p) # {}
  THEN LET f == First(FreeFile)
       IN  /\ file' = [file EXCEPT ![f] = [ref |-> 1, ip |-> i, off |-> 0]]
           /\ ofile' = [ofile EXCEPT ![p][First(FreeFd(p))] = f]
           /\ inode' = [ic EXCEPT ![i].busy = NoProc]
           /\ Return(p, <<>>)
  ELSE /\ inode' = [ic EXCEPT ![i].busy = NoProc]
       /\ Return(p, <<i>>)
       /\ UNCHANGED <<file, ofile>>

\* A file that open() has created is still locked after commit_trans().
OpenCreated(p) ==
  /\ At(p, "fd")
  /\ OpenFd(p, inode, call[p].ip)
  /\ UNCHANGED <<disk, trans, cwd, panic, stray>>

\* A directory can only be opened for reading.
Open(p) ==
  LET i == call[p].ip
      ic == ilock(inode, i)
  IN  /\ At(p, "use") /\ call[p].op = "open" /\ Locked(i)
      /\ \/ OpenFd(p, ic, i)
         \/ /\ ic[i].type = "DIR"
            /\ inode' = ic /\ Return(p, <<i>>) /\ UNCHANGED <<file, ofile>>
      /\ UNCHANGED <<disk, trans, cwd, panic, stray>>

\* chdir(): iunlock(), iput() of the old directory.
Chdir(p) ==
  LET i == call[p].ip
      ic == ilock(inode, i)
  IN  /\ At(p, "use") /\ call[p].op = "chdir" /\ Locked(i)
      /\ inode' = ic
      /\ IF ic[i].type = "DIR" THEN cwd' = [cwd EXCEPT ![p] = i] /\ Return(p, <<cwd[p]>>)
                               ELSE Return(p, <<i>>) /\ UNCHANGED cwd
      /\ UNCHANGED <<disk, trans, file, ofile, panic, stray>>

\* exec(): reads the program, iunlockput(), outside any transaction.
Exec(p) ==
  LET i == call[p].ip
  IN  /\ At(p, "use") /\ call[p].op = "exec" /\ Locked(i)
      /\ inode' = ilock(inode, i)
      /\ Return(p, <<i>>)
      /\ UNCHANGED <<disk, trans, files, panic, stray>>

-----------------------------------------------------------------------------
(* create(): open() with O_CREATE, mkdir()                                 *)

\* The name exists, or ialloc() takes the first free inode; dp stays locked.
Create(p) ==
  LET c == call[p]
      d == c.ip
      ic == ilock(inode, d)
      i == Target(d, Head(c.path))
      unused == {j \in Inum : dinode[j].type = "FREE"}
      new == First(unused)
  IN  /\ At(p, "create") /\ Locked(d)
      /\ IF i # 0
         THEN IF NoSlot(i) THEN Halt("iget: no inodes")
              ELSE /\ inode' = iget(ic, i)
                   /\ Go(p, "exists", i, 0, <<d>>)
                   /\ stray' = stray \cup Gone(ic, d, Head(c.path), i)
                   /\ UNCHANGED <<dinode, panic>>
         ELSE IF unused = {} THEN Halt("ialloc: no inodes")
         ELSE IF NoSlot(new) THEN Halt("iget: no inodes")
         ELSE /\ inode' = iget([ic EXCEPT ![d].busy = p], new)
              /\ dinode' = ialloc(new, IF c.op = "mkdir" THEN "DIR" ELSE "FILE")
              /\ Go(p, "fill", new, d, <<>>)
              /\ stray' = stray \ {new}
              /\ UNCHANGED panic
      /\ UNCHANGED <<used, trans, files>>

\* create() returns an existing file locked, and fails for anything else.
Exists(p) ==
  LET c == call[p]
      i == c.ip
      ic == ilock(inode, i)
  IN  /\ At(p, "exists") /\ Locked(i)
      /\ IF c.op = "create" /\ ic[i].type = "FILE"
         THEN inode' = [ic EXCEPT ![i].busy = p] /\ Go(p, "commit", i, 0, <<>>)
         ELSE inode' = ic /\ Go(p, "commit", 0, 0, <<i>>)
      /\ UNCHANGED <<disk, trans, files, panic, stray>>

\* ilock() of the new inode, nlink = 1; a directory gets "." and "..", and its
\* parent a link; then the entry.  iunlockput(dp).
Fill(p) ==
  LET c == call[p]
      i == c.ip
      d == c.dp
      ic == [ilock(inode, i) EXCEPT ![i].nlink = 1, ![d].busy = NoProc]
      di == dirlink([dinode EXCEPT ![i].nlink = 1], d, Head(c.path), i)
  IN  /\ At(p, "fill") /\ Locked(i)
      /\ stray' = IF inode[d].nlink = 0 THEN stray \cup (IF c.op = "mkdir" THEN {i, d} ELSE {i})
                  ELSE stray
      /\ IF c.op = "create"
         THEN /\ inode' = [ic EXCEPT ![i].busy = p]
              /\ dinode' = di
              /\ Go(p, "commit", i, 0, <<d>>)
              /\ UNCHANGED <<used, panic>>
         ELSE IF Full THEN /\ panic' = "balloc: out of blocks"
                           /\ UNCHANGED <<disk, inode, call>>
         ELSE /\ inode' = AddLink(ic, d, 1)
              /\ used' = used \cup {balloc}
              /\ dinode' = bmap([AddLink(di, d, 1) EXCEPT ![i].up = d], i, balloc)
              /\ Go(p, "commit", 0, 0, <<d, i>>)
              /\ UNCHANGED panic
      /\ UNCHANGED <<trans, files>>

-----------------------------------------------------------------------------
(* unlink() and link()                                                     *)

Unlink(p) ==
  LET c == call[p]
      d == c.ip
      ic == ilock(inode, d)
      i == dinode[d].ents[Head(c.path)]
  IN  /\ At(p, "unlink") /\ Locked(d)
      /\ IF Head(c.path) \in {".", ".."} \/ i = 0
         THEN inode' = ic /\ Go(p, "commit", 0, 0, <<d>>) /\ UNCHANGED panic
         ELSE IF NoSlot(i) THEN Halt("iget: no inodes")
         ELSE /\ inode' = iget([ic EXCEPT ![d].busy = p], i)
              /\ Go(p, "victim", i, d, <<>>)
              /\ UNCHANGED panic
      /\ UNCHANGED <<disk, trans, files, stray>>

\* ilock(ip) with dp locked: erase the entry, take the link of ".." from dp and
\* one from ip; a directory that is not empty stays.
Victim(p) ==
  LET c == call[p]
      i == c.ip
      d == c.dp
      ic == [ilock(inode, i) EXCEPT ![d].busy = NoProc]
      dir == ic[i].type = "DIR"
      di == [dinode EXCEPT ![d].ents[Head(c.path)] = 0]
  IN  /\ At(p, "victim") /\ Locked(i)
      /\ IF ic[i].nlink < 1 THEN Halt("unlink: nlink < 1")
         ELSE IF dir /\ ~isdirempty(i)
         THEN inode' = ic /\ Go(p, "commit", 0, 0, <<i, d>>) /\ UNCHANGED <<dinode, panic>>
         ELSE /\ inode' = AddLink(IF dir THEN AddLink(ic, d, -1) ELSE ic, i, -1)
              /\ dinode' = AddLink(IF dir THEN AddLink(di, d, -1) ELSE di, i, -1)
              /\ Go(p, "commit", 0, 0, <<d, i>>)
              /\ UNCHANGED panic
      /\ UNCHANGED <<used, trans, files, stray>>

\* link(): nlink++ first, then the lookup of the new parent.
Link(p) ==
  LET c == call[p]
      i == c.ip
      ic == ilock(inode, i)
      s == StartAt(p, c.new)
  IN  /\ At(p, "link") /\ Locked(i)
      /\ IF ic[i].type = "DIR"
         THEN inode' = ic /\ Go(p, "commit", 0, 0, <<i>>) /\ UNCHANGED <<dinode, panic>>
         ELSE IF NoSlot(s) THEN Halt("iget: no inodes")
         ELSE /\ inode' = iget(AddLink(ic, i, 1), s)
              /\ dinode' = AddLink(dinode, i, 1)
              /\ call' = [call EXCEPT ![p].at = "walk", ![p].ip = s, ![p].dp = i,
                                      ![p].path = Elems(c.new)]
              /\ UNCHANGED panic
      /\ UNCHANGED <<used, trans, files, stray>>

\* dirlink() of the new name, which must not exist.
Enter(p) ==
  LET c == call[p]
      d == c.ip
      ic == ilock(inode, d)
      name == Head(c.path)
      i == Target(d, name)
  IN  /\ At(p, "enter") /\ Locked(d)
      /\ IF i # 0
         THEN IF NoSlot(i) THEN Halt("iget: no inodes")
              ELSE /\ inode' = ic
                   /\ Go(p, "undo", c.dp, 0, <<d>>)
                   /\ UNCHANGED <<dinode, panic, stray>>
         ELSE /\ inode' = ic
              /\ dinode' = dirlink(dinode, d, name, c.dp)
              /\ Go(p, "commit", 0, 0, <<d, c.dp>>)
              /\ stray' = IF ic[d].nlink = 0 THEN stray \cup {c.dp} ELSE stray
              /\ UNCHANGED panic
      /\ UNCHANGED <<used, trans, files>>

\* Mutant: without iupdate().
UndoInMemory(p) ==
  LET i == call[p].ip
  IN  /\ At(p, "undo") /\ Locked(i)
      /\ inode' = AddLink(ilock(inode, i), i, -1)
      /\ Go(p, "commit", 0, 0, <<i>>)
      /\ UNCHANGED <<disk, trans, files, panic, stray>>

\* bad: of link().
Undo(p) ==
  LET i == call[p].ip
  IN  /\ At(p, "undo") /\ Locked(i)
      /\ inode' = AddLink(ilock(inode, i), i, -1)
      /\ dinode' = AddLink(dinode, i, -1)
      /\ Go(p, "commit", 0, 0, <<i>>)
      /\ UNCHANGED <<used, trans, files, panic, stray>>

-----------------------------------------------------------------------------
(* Descriptors: read(), write(), close(), fork(), exit()                   *)

Open1(p) == {d \in Fd : ofile[p][d] # 0}

\* read() and write() of n chunks (filewrite(): a transaction each); a directory
\* is not writable.
ReadWrite(p) ==
  /\ At(p, "idle")
  /\ \E d \in Open1(p) :
       \/ call' = [call EXCEPT ![p] = [Idle EXCEPT !.op = "read", !.at = "read",
                                                   !.f = ofile[p][d]]]
       \/ \E n \in 1 .. MaxChunk :
            /\ dinode[file[ofile[p][d]].ip].type = "FILE"
            /\ call' = [call EXCEPT ![p] = [Idle EXCEPT !.op = "write", !.at = "begin",
                                                     !.f = ofile[p][d], !.n = n]]
  /\ UNCHANGED <<disk, inode, trans, files, panic, stray>>

Size(i) == Cardinality(dinode[i].addrs)

AfterRead(f) == file[f].off + (IF file[f].off < Size(file[f].ip) THEN 1 ELSE 0)

Read(p) ==
  LET f == call[p].f
      i == file[f].ip
  IN  /\ At(p, "read") /\ Locked(i)
      /\ inode' = ilock(inode, i)
      /\ file' = [file EXCEPT ![f].off = AfterRead(f)]
      /\ Return(p, <<>>)
      /\ UNCHANGED <<disk, trans, ofile, cwd, panic, stray>>

Fits(f) == file[f].off < MAXFILE /\ file[f].off <= Size(file[f].ip)

\* writei() of one chunk: over the old block, or in a new one at the end; a
\* full file ends the loop.
Write(p) ==
  LET c == call[p]
      f == c.f
      i == file[f].ip
      ic == ilock(inode, i)
      fits == Fits(f)
  IN  /\ At(p, "write") /\ Locked(i)
      /\ inode' = ic
      /\ IF fits /\ file[f].off = Size(i) /\ Full
         THEN panic' = "balloc: out of blocks" /\ UNCHANGED <<disk, file, call>>
         ELSE /\ call' = [call EXCEPT ![p].at = "commit", ![p].n = IF fits THEN @ - 1 ELSE 0]
              /\ file' = [file EXCEPT ![f].off = IF fits THEN @ + 1 ELSE @]
              /\ IF fits /\ file[f].off = Size(i)
                 THEN /\ used' = used \cup {balloc}
                      /\ dinode' = bmap(dinode, i, balloc)
                 ELSE UNCHANGED disk
              /\ UNCHANGED panic
      /\ UNCHANGED <<trans, ofile, cwd, stray>>

\* fileclose(): the last reference drops the inode in a transaction.
CloseFd(p, d, exiting) ==
  LET f == ofile[p][d]
  IN  /\ ofile' = [ofile EXCEPT ![p][d] = 0]
      /\ file' = [file EXCEPT ![f] = IF file[f].ref = 1 THEN [ref |-> 0, ip |-> 0, off |-> 0]
                                     ELSE [file[f] EXCEPT !.ref = @ - 1]]
      /\ IF file[f].ref = 1
         THEN call' = [call EXCEPT ![p] = [Idle EXCEPT !.op = "close", !.at = "begin",
                                                       !.ip = file[f].ip,
                                                       !.n = exiting]]
         ELSE call' = [call EXCEPT ![p].at = IF exiting = 1 THEN "exit" ELSE "idle"]

Close(p) ==
  /\ At(p, "idle")
  /\ \E d \in Open1(p) : CloseFd(p, d, 0)
  /\ UNCHANGED <<disk, inode, trans, cwd, panic, stray>>

\* exit(): closes the files in order, then iput(proc->cwd).
Exit(p) ==
  /\ At(p, "idle") \/ At(p, "exit")
  /\ cwd[p] # 0 /\ p # initproc
  /\ IF Open1(p) # {}
     THEN CloseFd(p, First(Open1(p)), 1) /\ UNCHANGED cwd
     ELSE /\ cwd' = [cwd EXCEPT ![p] = 0]
          /\ Return(p, <<cwd[p]>>)
          /\ UNCHANGED <<file, ofile>>
  /\ UNCHANGED <<disk, inode, trans, panic, stray>>

filedup(f, n) == [file[f] EXCEPT !.ref = @ + n]

\* fork(): the child q has no files yet.
Fork(p, q) ==
  /\ At(p, "idle") /\ cwd[p] # 0
  /\ At(q, "idle") /\ cwd[q] = 0
  /\ ofile' = [ofile EXCEPT ![q] = ofile[p]]
  /\ file' = [f \in File |-> filedup(f, Cardinality({d \in Fd : ofile[p][d] = f}))]
  /\ cwd' = [cwd EXCEPT ![q] = cwd[p]]
  /\ inode' = idup(cwd[p])
  /\ UNCHANGED <<disk, trans, call, panic, stray>>

-----------------------------------------------------------------------------

\* The steps of a call that has begun, and the calls.
Step(p) == \/ PanicNoType(p) \/ WalkEnd(p) \/ Walk(p) \/ iput(p) \/ bfree(p) \/ itrunc(p)
           \/ iputFree(p) \/ iputEnd(p) \/ Begin(p) \/ Commit(p)
           \/ OpenCreated(p) \/ Open(p) \/ Chdir(p) \/ Exec(p) \/ Create(p) \/ Exists(p)
           \/ Fill(p) \/ Unlink(p) \/ Victim(p) \/ Link(p) \/ Enter(p) \/ Undo(p)
           \/ Read(p) \/ Write(p) \/ (call[p].at = "exit" /\ Exit(p))
Invoke(p) == Start(p) \/ ReadWrite(p) \/ Close(p) \/ Exit(p)
             \/ \E q \in Proc : Fork(p, q)

Next == \E p \in Proc : Step(p) \/ Invoke(p)

Spec == Init /\ [][Next]_vars

-----------------------------------------------------------------------------
(* Properties                                                              *)

\* The disk, the inode cache and the file table keep their types; no offset is
\* past MAXFILE.
TypeOK ==
  /\ dinode \in [Inum -> [type : {"FREE", "DIR", "FILE"}, nlink : Nat,
                          addrs : SUBSET Block, ents : [Name -> Inum \cup {0}],
                          up : Inum \cup {0}]]
  /\ used \subseteq Block
  /\ inode \in [Inum -> [ref : Nat, busy : Proc \cup {NoProc}, valid : BOOLEAN,
                         type : {"FREE", "DIR", "FILE"}, nlink : Nat,
                         left : SUBSET Block]]
  /\ trans \in Proc \cup {NoProc}
  /\ file \in [File -> [ref : Nat, ip : Inum \cup {0}, off : 0 .. MAXFILE]]
  /\ ofile \in [Proc -> [Fd -> File \cup {0}]]
  /\ cwd \in [Proc -> Inum \cup {0}]

\* ip->ref of fs.c counts exactly the pointers to the inode: current
\* directories, open files and the variables of calls under way; f->ref of file.c
\* counts the descriptors across fork() and exit().  With one too few an
\* inode in use is freed, with one too many it is never freed.
RefCounts ==
  /\ \A f \in File :
       file[f].ref = Cardinality({x \in Proc \X Fd : ofile[x[1]][x[2]] = f})
  /\ \A i \in Inum : inode[i].ref =
      Cardinality({p \in Proc : cwd[p] = i}) + Cardinality({f \in File : file[f].ip = i})
    + Cardinality({p \in Proc : call[p].ip = i}) + Cardinality({p \in Proc : call[p].dp = i})
    + Cardinality({x \in Proc \X (1 .. 2) : x[2] <= Len(call[x[1]].puts)
                                          /\ call[x[1]].puts[x[2]] = i})

\* A valid cached inode is the inode on disk, unless iput() is freeing it.
CacheCoherent ==
  \A i \in Inum : inode[i].valid /\ inode[i].type # "FREE" =>
    /\ inode[i].type = dinode[i].type
    /\ inode[i].nlink = dinode[i].nlink

Entries(i) == {x \in Inum \X Name : dinode[x[1]].ents[x[2]] = i}
Subdirs(i) == {j \in Inum : dinode[j].type = "DIR" /\ dinode[j].nlink > 0
                            /\ dinode[j].up = i /\ j # ROOTINO}

\* Between transactions the link count of an inode is the number of its names
\* and of the ".." entries that lead to it: an inode is freed when and only when
\* it has no name left.  Only an inode that got a name in a removed directory, or
\* a removed directory that got a subdirectory, is excepted (unlink() leaves an
\* open directory usable, and create() and link() do not look at its nlink).
LinkCounts ==
  trans = NoProc => \A i \in Inum \ stray : dinode[i].type # "FREE" =>
    dinode[i].nlink = Cardinality(Entries(i)) + Cardinality(Subdirs(i))
                    + (IF i = ROOTINO THEN 1 ELSE 0)

\* The blocks of ip->addrs, as the process that frees the inode sees them.
addrs(i) == IF Freeing(i) THEN inode[i].left ELSE dinode[i].addrs

\* The bitmap marks exactly the blocks of the inodes, and no block has two
\* owners: balloc(), bfree() and itrunc() neither lose nor share a block.  While
\* iput() frees an inode its blocks are those of ip->addrs; the inode on disk
\* still lists the others until iupdate(), and when iput() runs inside another
\* process's transaction they may be in use or committed again by then.
BlocksOwned ==
  /\ used = UNION {addrs(i) : i \in Inum}
  /\ \A i, j \in Inum : i # j => addrs(i) \cap addrs(j) = {}

\* What is in use is not freed: the inodes of names, open files and current
\* directories.
NoDangling ==
  \A i \in Inum : dinode[i].type = "FREE" =>
    /\ Entries(i) = {}
    /\ \A p \in Proc : cwd[p] # i
    /\ \A f \in File : file[f].ip # i

\* f->off moves under the lock of the inode, so two processes that share it
\* cannot push it past the end (readi() and writei() would fail).
OffsetInFile == \A f \in File : file[f].ref > 0 => file[f].off <= Size(file[f].ip)

\* The panics that calls in any order, number and interleaving may reach: a full
\* disk or icache, a free by a call that is in no transaction while nobody else is
\* in one (NoWriteOutside), and the lock of an inode that was freed, by a process
\* that left a removed directory through "..".  So no inode in use is freed
\* ("ilock: no type"), no inode is freed while it is locked ("iput busy"), no block
\* is freed twice ("freeing free block") and no name leads to an inode without
\* links ("unlink: nlink < 1").
Panics ==
  \/ panic \in {"", "ialloc: no inodes", "iget: no inodes", "balloc: out of blocks",
                "write outside of trans"}
  \/ /\ panic = "ilock: no type"
     /\ \E p \in Proc : call[p].at \in Locking /\ Wants(p) \in stray /\ NoType(Wants(p))

\* log.c:8: "Each system call that might write the file system should be
\* surrounded with begin_trans() and commit_trans() calls."
NoWriteOutside ==
  \A p \in Proc : call[p].puts # <<>> /\ call[p].put \in {"itrunc", "iupdate"} => trans = p

\* p waits for q: for an inode that q has locked, or for q's transaction.
WaitsFor(p, q) == /\ call[p].puts = <<>>
                  /\ \/ call[p].at \in Locking /\ inode[Wants(p)].busy = q
                     \/ call[p].at = "begin" /\ trans = q

\* No processes wait for each other in a circle: unlink() locks a directory and
\* then the entry, writers lock an inode inside a transaction, and no call asks
\* for the log with an inode locked.
NoCircularWait ==
  \A S \in (SUBSET Proc) \ {{}} : \E p \in S : \A q \in S : ~WaitsFor(p, q)

\* What is in order whatever calls, error paths and half-finished iput()s there
\* are: the cache agrees with the disk, names and link counts agree between
\* transactions, every block has one owner, nothing in use is freed, and open files
\* stand inside their inode.
Consistent == TypeOK /\ CacheCoherent /\ LinkCounts /\ BlocksOwned /\ NoDangling /\ OffsetInFile
=============================================================================
