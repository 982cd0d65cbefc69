-------------------------------- MODULE Trie --------------------------------
(***************************************************************************)
(* The tries that init_ascii_gbk_pinyin.c and highlight.c build in static  *)
(* arrays: n nodes besides the root 0, ch[u][c] (absent is 0) and the      *)
(* depth of each node.                                                     *)
(***************************************************************************)
EXTENDS Naturals, Sequences, TLC

EmptyTrie == [n |-> 0, ch |-> <<>>, deep |-> 0 :> 0]
ch(t, u, c) == IF <<u, c>> \in DOMAIN t.ch THEN t.ch[<<u, c>>] ELSE 0

Grown(t, u, c) ==
  IF ch(t, u, c) # 0 THEN t
  ELSE [n |-> t.n + 1, ch |-> (<<u, c>> :> t.n + 1) @@ t.ch, deep |-> (t.n + 1 :> t.deep[u] + 1) @@ t.deep]

\* insert(): the trie with s in it, and the node of s.
RECURSIVE InsertFrom(_, _, _)
InsertFrom(t, s, u) ==
  IF s = <<>> THEN [t |-> t, u |-> u]
  ELSE LET g == Grown(t, u, Head(s)) IN InsertFrom(g, Tail(s), ch(g, u, Head(s)))
insert(t, s) == InsertFrom(t, s, 0)

\* getnode(): the deepest node on the way of s, and its depth.
RECURSIVE Walked(_, _, _, _)
Walked(t, s, u, deep) ==
  IF s = <<>> \/ ch(t, u, Head(s)) = 0 THEN [u |-> u, deep |-> deep]
  ELSE Walked(t, Tail(s), ch(t, u, Head(s)), deep + 1)
getnode(t, s) == Walked(t, s, 0, 0)
=============================================================================
