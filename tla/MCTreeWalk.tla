----------------------------- MODULE MCTreeWalk -----------------------------
(***************************************************************************)
(* A share with three trees: "s" with the file "s/f" and the directories     *)
(* "s/d", which holds a file, and "s/e", which is empty; "h" holds a file    *)
(* that has a second name in it; "l" holds a symlink and "p" a fifo.  Paths  *)
(* have at most three names.                                                 *)
(***************************************************************************)
EXTENDS TreeWalk, TLC

CONSTANTS NULL, g1

MCName == {"d", "e", "f", "g", "h", "l", "p", "s", "t"}
MCNameOrder == [n \in MCName |->
  CASE n = "d" -> 1 [] n = "e" -> 2 [] n = "f" -> 3 [] n = "g" -> 4
    [] n = "h" -> 5 [] n = "l" -> 6 [] n = "p" -> 7 [] n = "s" -> 8
    [] n = "t" -> 9]

Inside == {<< >>, <<"d">>, <<"d", "f">>, <<"e">>, <<"f">>}
Copies == {<<"t">>, <<"s", "t">>}
Old == {<<"s">> \o q : q \in Inside}
       \cup {<<"h">>, <<"h", "f">>, <<"h", "g">>, <<"l">>, <<"l", "f">>, <<"f">>,
           <<"p">>, <<"p", "f">>}

MCPath == Old \cup {c \o q : c \in Copies, q \in Inside \cup {<<"t">>}} \cup {<<"t", "g">>}

InodeOf == (<<"s">> :> 1) @@ (<<"s", "d">> :> 2) @@ (<<"s", "d", "f">> :> 3)
           @@ (<<"s", "e">> :> 4) @@ (<<"s", "f">> :> 5) @@ (<<"h">> :> 6)
           @@ (<<"h", "f">> :> 7) @@ (<<"h", "g">> :> 7) @@ (<<"l">> :> 8)
           @@ (<<"l", "f">> :> 9) @@ (<<"f">> :> 10)
           @@ (<<"p">> :> 19) @@ (<<"p", "f">> :> 20)

MCNew == 11 .. 18
MCInode == 1 .. 20 \cup {g1}
MCNoInode == NULL
MCInitEntry == [p \in Path |-> IF p \in DOMAIN InodeOf THEN InodeOf[p] ELSE NoInode]

N(kind, content, mode, target) ==
  [kind |-> kind, content |-> content, mode |-> mode, target |-> target]

MCInitInode ==
  [i \in Inode |->
    CASE i \in {1, 4, 6, 8, 19} -> N("dir", "", "0755", << >>)
      [] i = 2              -> N("dir", "", "2775", << >>)
      [] i \in {3, 7}       -> N("file", "A", "0644", << >>)
      [] i \in {5, 10}      -> N("file", "B", "0600", << >>)
      [] i = 9              -> N("symlink", "", "0644", <<"f">>)
      [] i = 20             -> N("other", "", "0644", << >>)
      [] OTHER              -> N("free", "", "0644", << >>)]

MCMode == {"0600", "0644", "0700", "0755", "2775"}
MCMasked == [m \in MCMode |-> m]
MCLinkTarget == {<<"f">>}
MCRequest ==
  {<<s, d>> : s \in {<<"s">>, <<"s", "d">>, <<"s", "e">>, <<"h">>, <<"l">>, <<"p">>, <<"f">>, <<"g">>, <<"l", "f">>},
              d \in {<<"t">>, <<"s", "t">>, <<"f">>, << >>}} \cup {<< << >>, <<"t">> >>}
=============================================================================
