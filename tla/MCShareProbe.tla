---------------------------- MODULE MCShareProbe ----------------------------
(***************************************************************************)
(* The share "s" with a user's file and what a killed probe has left, a file *)
(* "f" next to it; two names for each temporary file.                        *)
(***************************************************************************)
EXTENDS ShareProbe, TLC

CONSTANTS d1, d2, g1, NULL

MCName == {"s", "f", "x", "u", "src1", "src2", "dst1", "dst2"}
MCSrcName == {"src1", "src2"}
MCDstName == {"dst1", "dst2"}
MCPath == {<<"s">>, <<"f">>} \cup {<<"s", n>> : n \in {"u"} \cup MCSrcName \cup MCDstName}
MCInode == 1 .. 10 \cup {g1}
MCNew == 5 .. 10
MCNoInode == NULL

InodeOf == (<<"s">> :> 1) @@ (<<"f">> :> 2) @@ (<<"s", "u">> :> 3) @@ (<<"s", "dst1">> :> 4)
MCInitEntry == [p \in Path |-> IF p \in DOMAIN InodeOf THEN InodeOf[p] ELSE NoInode]
MCInitInode ==
  [i \in Inode |-> [kind |-> IF i = 1 THEN "dir" ELSE IF i \in 2 .. 4 THEN "file" ELSE "free",
                    content |-> IF i \in 2 .. 3 THEN "user" ELSE "", mode |-> "0600",
                    target |-> << >>]]

MCMasked == [m \in {"0600"} |-> m]
MCCwd == <<"", "">>

\* The share, spelled in three ways, a file, a missing path and none.
MCShareRoot == {<<"", "s">>, <<"s">>, <<"", "x", "..", "s", "">>, <<"", "f">>, <<"", "x">>, <<"">>}

Symmetry == Permutations(Daemon)
=============================================================================
