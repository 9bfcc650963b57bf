--------------------------- MODULE MCFileReflink ---------------------------
(***************************************************************************)
(* Small shares for FileReflink.  Inodes 1..5 are there from the start:      *)
(* a regular file "a" (mode 0666, which the umask cuts to 0644), the         *)
(* directory "d", the symlink "l" to "a", the file "h" that has a second     *)
(* name "d/h", and the FIFO "p".  "b" and "d/b" are free.                    *)
(***************************************************************************)
EXTENDS FileReflink, TLC

CONSTANTS w1, w2, w3, g1, g2, NULL

MCName == {"a", "b", "d", "h", "l", "p", "x"}
MCNoInode == NULL
MCGuestInode == {g1, g2}
OneGuest == {g1}
MCInode == {1, 2, 3, 4, 5, g1, g2} \cup Worker

\* The full share, and the part of it that concurrent runs work on.
SmallPath == {<<"a">>, <<"b">>, <<"d">>, <<"d", "b">>}
FifoPath == SmallPath \cup {<<"p">>}
FullPath == FifoPath \cup {<<"l">>, <<"h">>, <<"d", "h">>}

MCLinkTarget == {<<"a">>, <<"d">>}

MCContent == {"A", "B"}
MCMode == {"0666", "0644"}
MCMasked == [m \in MCMode |-> "0644"]

InodeOf == (<<"a">> :> 1) @@ (<<"d">> :> 2) @@ (<<"l">> :> 3)
           @@ (<<"h">> :> 4) @@ (<<"d", "h">> :> 4) @@ (<<"p">> :> 5)

MCInitEntry == [p \in Path |-> IF p \in DOMAIN InodeOf THEN InodeOf[p] ELSE NoInode]

N(kind, content, mode, target) ==
  [kind |-> kind, content |-> content, mode |-> mode, target |-> target]

MCInitInode ==
  [i \in Inode |->
    CASE i = 1 -> N("file", "A", "0666", << >>)
      [] i = 2 -> N("dir", "", "0644", << >>)
      [] i = 3 -> N("symlink", "", "0644", <<"a">>)
      [] i = 4 -> N("file", "A", "0644", << >>)
      [] i = 5 -> N("other", "", "0644", << >>)
      [] OTHER -> N("free", "", "0644", << >>)]

Req(src, dst) ==
  [version |-> 1, op |-> "reflink", recursive |-> FALSE, src |-> src, dst |-> dst,
   token |-> ""]

\* Two sources for one destination, and the destination of one as the source of
\* another; one path is not spelled clean.
RaceRequest == {Req(<<".", "a">>, <<"b">>), Req(<<"b">>, <<"d", "b">>), Req(<<"a">>, <<"d", "b">>)}

\* One request that every worker repeats: the retries of an impatient client.
RetryRequest == {Req(<<"a">>, <<"d", "b">>)}

\* The same next to one that names the FIFO as its source.
FifoRequest == RetryRequest \cup {Req(<<"p">>, <<"b">>)}

\* Every spelling and every refusal: the sources and destinations a guest can
\* name, among them a path that escapes, an absolute one and ones that end in a
\* missing directory, below a file and below a symlink.
SomePath == {<<"a">>, <<".", "a">>, <<"d", "..", "b">>, <<"d", "b">>, <<"d">>, <<"l">>,
             <<"h">>, <<"p">>, <<"x">>, <<"x", "b">>, <<"a", "x">>, <<"l", "x">>, <<".">>,
             <<"..", "x">>, <<"", "a">>, <<"">>}
AnyRequest == {Req(s, t) : s \in SomePath, t \in SomePath}

Symmetry == Permutations(Worker) \cup Permutations(GuestInode)
=============================================================================
