---------------------------- MODULE HostFSProofs ----------------------------
(***************************************************************************)
(* What the proofs about the components on the share have in common: the     *)
(* share as a tree, what the errnos say of it, and what a guest does to it.  *)
(***************************************************************************)
EXTENDS HostFS, SequencesExt, SequenceTheorems, FiniteSetTheorems, TLAPS

-----------------------------------------------------------------------------
(* The share as a tree, and the steps that keep it one.                     *)

\* Entries name inodes in use, and what is above an entry is a directory.
Tree ==
  \A p \in Path : entry[p] # NoInode =>
    /\ inode[entry[p]].kind # "free"
    /\ \A n \in 1 .. Len(p) - 1 : KindAt(Prefix(p, n)) = "dir"

KindsKept == \A i \in Inode : inode[i].kind # "free" => inode'[i].kind = inode[i].kind

Grows(p, i) ==
  /\ p \in Path /\ i \in Inode
  /\ entry[p] = NoInode /\ entry' = [entry EXCEPT ![p] = i]
  /\ inode'[i].kind # "free"
  /\ \A n \in 1 .. Len(p) - 1 : KindAt(Prefix(p, n)) = "dir"

Shrinks(p) ==
  /\ p \in Path /\ Children(p) = {}
  /\ entry' = [entry EXCEPT ![p] = NoInode]

TreeStep ==
  /\ KindsKept
  /\ entry' = entry \/ (\E p, i : Grows(p, i)) \/ \E p : Shrinks(p)

\* Paths: the one above, and one name more.
LEMMA PrefixOfDir ==
  ASSUME NEW p \in Seq(Name), p # << >>
  PROVE  /\ Len(p) \in Nat \ {0} /\ Dir(p) \in Seq(Name) /\ Len(Dir(p)) = Len(p) - 1
         /\ \A n \in 1 .. Len(p) - 1 : Prefix(Dir(p), n) = Prefix(p, n)
         /\ \A n \in 1 .. Len(p) - 1 : Dir(Prefix(p, n + 1)) = Prefix(p, n)
         /\ Prefix(p, Len(p)) = p
<1>1. Len(p) \in Nat \ {0}
  BY EmptySeq
<1>2. ASSUME NEW m \in 0 .. Len(p)
      PROVE  Prefix(p, m) \in Seq(Name) /\ Len(Prefix(p, m)) = m
  BY <1>1 DEF Prefix
<1>3. Len(p) - 1 \in 0 .. Len(p)
  BY <1>1
<1>4. Dir(p) \in Seq(Name) /\ Len(Dir(p)) = Len(p) - 1
  BY <1>2, <1>3 DEF Dir
<1>5. ASSUME NEW m \in 0 .. Len(p), NEW n \in 1 .. m PROVE Prefix(Prefix(p, m), n) = Prefix(p, n)
  BY <1>1, SubSeqOfSubSeq DEF Prefix
<1>6. ASSUME NEW n \in 1 .. Len(p) - 1 PROVE Prefix(Dir(p), n) = Prefix(p, n)
  BY <1>3, <1>5 DEF Dir
<1>7. ASSUME NEW n \in 1 .. Len(p) - 1 PROVE Dir(Prefix(p, n + 1)) = Prefix(p, n)
  <2>1. n + 1 \in 0 .. Len(p) /\ n \in 1 .. (n + 1)
    BY <1>1
  <2>2. Len(Prefix(p, n + 1)) = n + 1 /\ Prefix(Prefix(p, n + 1), n) = Prefix(p, n)
    BY <1>2, <1>5, <2>1
  <2> QED
    BY <2>2 DEF Dir
<1>8. Prefix(p, Len(p)) = p
  BY SubSeqFull DEF Prefix
<1> QED
  BY <1>1, <1>4, <1>6, <1>7, <1>8

LEMMA OneNameMore ==
  ASSUME NEW r \in Seq(Name), NEW x \in Name
  PROVE  /\ Append(r, x) \in Seq(Name) /\ Append(r, x) # << >>
         /\ Dir(Append(r, x)) = r /\ Len(Append(r, x)) = Len(r) + 1
         /\ Last(Append(r, x)) = x
<1> DEFINE p == Append(r, x)
<1>1. p \in Seq(Name) /\ Len(p) = Len(r) + 1 /\ Len(r) \in Nat
  OBVIOUS
<1>2. p # << >>
  BY <1>1
<1>3. SubSeq(p, 1, Len(r)) = r
  OBVIOUS
<1>4. Dir(p) = r
  BY <1>1, <1>3 DEF Dir, Prefix
<1>5. Last(p) = x
  BY <1>1 DEF Last
<1> QED
  BY <1>1, <1>2, <1>4, <1>5

LEMMA KindAtEntry ==
  ASSUME FSTypeOK, NEW p, p # << >>, KindAt(p) # "none"
  PROVE  p \in Path /\ entry[p] \in Inode /\ inode[entry[p]] \in Node /\ entry[p] # NoInode
         /\ KindAt(p) = inode[entry[p]].kind
BY DEF FSTypeOK, KindAt

\* What is there stays what it is while its name does.
LEMMA KindStays ==
  ASSUME FSTypeOK, KindsKept, Tree, NEW q, KindAt(q) # "none", q # << >> => entry'[q] = entry[q]
  PROVE  KindAt(q)' = KindAt(q)
<1>1. CASE q = << >>
  BY <1>1 DEF KindAt
<1>2. CASE q # << >>
  BY <1>2, KindAtEntry DEF KindAt, KindsKept, Tree
<1> QED
  BY <1>1, <1>2

LEMMA TreeKept ==
  ASSUME FSTypeOK, Tree, TreeStep
  PROVE  Tree'
<1> SUFFICES ASSUME NEW p \in Path, entry'[p] # NoInode
             PROVE  /\ inode'[entry'[p]].kind # "free"
                    /\ \A n \in 1 .. Len(p) - 1 : KindAt(Prefix(p, n))' = "dir"
  BY DEF Tree
<1>1. KindsKept /\ entry \in [Path -> Inode \cup {NoInode}]
  BY DEF TreeStep, FSTypeOK
<1>2. ASSUME NEW q, KindAt(q) = "dir", q # << >> => entry'[q] = entry[q]
      PROVE  KindAt(q)' = "dir"
  BY <1>1, <1>2, KindStays
<1>3. CASE entry' = entry
  BY <1>1, <1>2, <1>3 DEF Tree, KindsKept
<1>4. ASSUME NEW r, NEW i, Grows(r, i)
      PROVE  /\ inode'[entry'[p]].kind # "free"
             /\ \A n \in 1 .. Len(p) - 1 : KindAt(Prefix(p, n))' = "dir"
  <2>1. KindAt(r) = "none"
    BY <1>4, PathAssumption DEF Grows, KindAt
  <2>2. \A n \in 1 .. Len(p) - 1 : KindAt(Prefix(p, n)) = "dir"
    BY <1>1, <1>4 DEF Grows, Tree
  <2>3. ASSUME NEW n \in 1 .. Len(p) - 1 PROVE KindAt(Prefix(p, n))' = "dir"
    <3>1. KindAt(Prefix(p, n)) = "dir" /\ Prefix(p, n) # r
      BY <2>1, <2>2
    <3>2. entry'[Prefix(p, n)] = entry[Prefix(p, n)] \/ Prefix(p, n) = << >>
      BY <1>1, <1>4, <3>1 DEF Grows, KindAt
    <3> QED
      BY <1>2, <3>1, <3>2
  <2>4. inode'[entry'[p]].kind # "free"
    BY <1>1, <1>4 DEF Grows, Tree, KindsKept
  <2> QED
    BY <2>3, <2>4
<1>5. ASSUME NEW r, Shrinks(r)
      PROVE  /\ inode'[entry'[p]].kind # "free"
             /\ \A n \in 1 .. Len(p) - 1 : KindAt(Prefix(p, n))' = "dir"
  <2>1. r \in Path /\ p # r /\ entry'[p] = entry[p]
    BY <1>1, <1>5 DEF Shrinks
  <2>2. \A n \in 1 .. Len(p) - 1 : KindAt(Prefix(p, n)) = "dir"
    BY <2>1 DEF Tree
  <2>3. ASSUME NEW n \in 1 .. Len(p) - 1 PROVE Prefix(p, n) # r
    <3> DEFINE c == Prefix(p, n + 1)
    <3>1. Dir(c) = Prefix(p, n) /\ Prefix(p, Len(p)) = p /\ Len(p) \in Nat \ {0}
      BY PrefixOfDir, PathAssumption
    <3>2. CASE n + 1 = Len(p)
      BY <1>5, <2>1, <3>1, <3>2 DEF Shrinks, Children
    <3>3. CASE n + 1 # Len(p)
      <4>1. n + 1 \in 1 .. Len(p) - 1
        BY <3>1, <3>3
      <4>2. KindAt(c) = "dir"
        BY <2>2, <4>1
      <4>3. c # << >>
        <5>1. p \in Seq(Name) /\ n + 1 \in 1 .. Len(p)
          BY <3>1, <4>1, PathAssumption
        <5>2. Len(c) = n + 1
          BY <5>1 DEF Prefix
        <5> QED
          BY <5>2
      <4> HIDE DEF c
      <4>4. c \in Path /\ entry[c] # NoInode
        BY <4>2, <4>3, KindAtEntry
      <4> QED
        BY <1>5, <3>1, <4>4 DEF Shrinks, Children
    <3> QED
      BY <3>2, <3>3
  <2>4. ASSUME NEW n \in 1 .. Len(p) - 1 PROVE KindAt(Prefix(p, n))' = "dir"
    <3>1. KindAt(Prefix(p, n)) = "dir" /\ Prefix(p, n) # r
      BY <2>2, <2>3
    <3>2. entry'[Prefix(p, n)] = entry[Prefix(p, n)] \/ Prefix(p, n) = << >>
      BY <1>1, <1>5, <3>1 DEF Shrinks, KindAt
    <3> QED
      BY <1>2, <3>1, <3>2
  <2>5. inode'[entry'[p]].kind # "free"
    BY <1>1, <2>1 DEF Tree, KindsKept
  <2> QED
    BY <2>4, <2>5
<1> QED
  BY <1>3, <1>4, <1>5 DEF TreeStep

\* What the errnos say about the tree.
LEMMA ErrnoFacts ==
  ASSUME NEW p
  PROVE  /\ WalkErrno(p) = "ok" <=> \A n \in 1 .. Len(p) - 1 : KindAt(Prefix(p, n)) = "dir"
         /\ LstatErrno(p) = "ok" <=> WalkErrno(p) = "ok" /\ KindAt(p) # "none"
         /\ CreateErrno(p) = "ok" <=> WalkErrno(p) = "ok" /\ KindAt(p) = "none" /\ p \in Path
<1>1. WalkErrno(p) = "ok" <=> \A n \in 1 .. Len(p) - 1 : KindAt(Prefix(p, n)) = "dir"
  BY DEF WalkErrno
<1>2. LstatErrno(p) = "ok" <=> WalkErrno(p) = "ok" /\ KindAt(p) # "none"
  BY DEF LstatErrno
<1>3. CreateErrno(p) = "ok" <=> WalkErrno(p) = "ok" /\ KindAt(p) = "none" /\ p \in Path
  BY DEF CreateErrno
<1> QED
  BY <1>1, <1>2, <1>3
-----------------------------------------------------------------------------
(* The guests.                                                              *)

LEMMA GuestType ==
  ASSUME FSTypeOK, GuestNext
  PROVE  FSTypeOK' /\ guestOps' # guestOps
<1>1. entry \in [Path -> Inode \cup {NoInode}] /\ inode \in [Inode -> Node] /\ guestOps \in Nat
  BY DEF FSTypeOK
<1>2. ASSUME NEW op, GuestStep(op) PROVE guestOps' \in Nat /\ guestOps' # guestOps
  BY <1>1, <1>2 DEF GuestStep
<1>3. ASSUME NEW p \in Path, NEW i \in GuestInode, NEW k \in Kind, NEW c \in Content, NEW m \in Mode,
             GuestCreate(p, i, k, c, m)
      PROVE  FSTypeOK' /\ guestOps' # guestOps
  <2>1. PICK t \in IF k = "symlink" THEN LinkTarget ELSE {<< >>} :
          inode' = [inode EXCEPT ![i] =
            [kind |-> k, content |-> IF k = "file" THEN c ELSE Empty, mode |-> m, target |-> t]]
    BY <1>3 DEF GuestCreate
  <2> DEFINE node == [kind |-> k, content |-> IF k = "file" THEN c ELSE Empty,
                      mode |-> m, target |-> t]
  <2>2. t \in Path \cup {<< >>}
    BY PathAssumption
  <2>3. node \in Node
    BY <2>2 DEF Node
  <2> HIDE DEF node
  <2>4. i \in Inode /\ inode' = [inode EXCEPT ![i] = node]
    BY <2>1, InodeAssumption DEF node
  <2>5. entry' = [entry EXCEPT ![p] = i]
    BY <1>3 DEF GuestCreate
  <2>6. guestOps' \in Nat /\ guestOps' # guestOps
    BY <1>2, <1>3 DEF GuestCreate
  <2> QED
    BY <1>1, <2>3, <2>4, <2>5, <2>6 DEF FSTypeOK
<1>4. ASSUME NEW p \in Path, NEW c \in Content, GuestWrite(p, c)
      PROVE  FSTypeOK' /\ guestOps' # guestOps
  <2>1. p # << >> /\ KindAt(p) # "none"
    BY <1>4, PathAssumption DEF GuestWrite
  <2>2. entry[p] \in Inode /\ inode[entry[p]] \in Node
    BY <2>1, KindAtEntry
  <2> DEFINE node == [inode[entry[p]] EXCEPT !.content = c]
  <2>3. node \in Node
    BY <2>2 DEF Node
  <2>4. inode' = [inode EXCEPT ![entry[p]] = node] /\ entry' = entry
    BY <1>4 DEF GuestWrite
  <2> HIDE DEF node
  <2>5. guestOps' \in Nat /\ guestOps' # guestOps
    BY <1>2, <1>4 DEF GuestWrite
  <2> QED
    BY <1>1, <2>2, <2>3, <2>4, <2>5 DEF FSTypeOK
<1>5. ASSUME NEW p \in Path, GuestUnlink(p) PROVE FSTypeOK' /\ guestOps' # guestOps
  <2>1. guestOps' \in Nat /\ guestOps' # guestOps
    BY <1>2, <1>5 DEF GuestUnlink
  <2> QED
    BY <1>1, <1>5, <2>1 DEF GuestUnlink, FSTypeOK
<1>6. ASSUME NEW p \in Path, NEW q \in Path, GuestRename(p, q)
      PROVE  FSTypeOK' /\ guestOps' # guestOps
  <2>1. guestOps' \in Nat /\ guestOps' # guestOps
    BY <1>2, <1>6 DEF GuestRename
  <2>2. entry' = [entry EXCEPT ![q] = entry[p], ![p] = NoInode] /\ inode' = inode
    BY <1>6 DEF GuestRename
  <2> QED
    BY <1>1, <2>1, <2>2 DEF FSTypeOK
<1>7. ASSUME NEW p \in Path, NEW q \in Path, GuestLink(p, q)
      PROVE  FSTypeOK' /\ guestOps' # guestOps
  <2>1. guestOps' \in Nat /\ guestOps' # guestOps
    BY <1>2, <1>7 DEF GuestLink
  <2>2. entry' = [entry EXCEPT ![q] = entry[p]] /\ inode' = inode
    BY <1>7 DEF GuestLink
  <2> QED
    BY <1>1, <2>1, <2>2 DEF FSTypeOK
<1> QED
  BY <1>3, <1>4, <1>5, <1>6, <1>7 DEF GuestNext


\* An entry is right above or is the root: all that is above it is a directory.
LEMMA WalkBelowDir ==
  ASSUME FSTypeOK, Tree, NEW p \in Seq(Name), p # << >>, KindAt(Dir(p)) = "dir"
  PROVE  \A n \in 1 .. Len(p) - 1 : KindAt(Prefix(p, n)) = "dir"
<1> SUFFICES ASSUME NEW n \in 1 .. Len(p) - 1 PROVE KindAt(Prefix(p, n)) = "dir"
  OBVIOUS
<1>1. /\ Len(p) \in Nat \ {0} /\ Len(Dir(p)) = Len(p) - 1 /\ Prefix(Dir(p), n) = Prefix(p, n)
      /\ Dir(p) \in Seq(Name)
  BY PrefixOfDir
<1>2. CASE n = Len(p) - 1
  BY <1>2 DEF Dir
<1>3. CASE n # Len(p) - 1
  <2>1. n \in 1 .. Len(Dir(p)) - 1
    BY <1>1, <1>3
  <2>2. Dir(p) # << >>
    BY <1>1, <2>1
  <2>3. Dir(p) \in Path /\ entry[Dir(p)] # NoInode
    BY <2>2, KindAtEntry
  <2> QED
    BY <1>1, <2>1, <2>3 DEF Tree
<1> QED
  BY <1>2, <1>3

\* A guest changes one entry.
GuestKeeps ==
  /\ \A i \in Inode : i \notin GuestInode => inode'[i].kind = inode[i].kind
  /\ \A p \in Path :
       \/ entry'[p] = entry[p]
       \/ entry[p] = NoInode /\ entry'[p] \in GuestInode
       \/ "unlink" \in GuestOps /\ entry'[p] = NoInode
       \/ "link" \in GuestOps /\ entry[p] = NoInode

LEMMA GuestShape ==
  ASSUME FSTypeOK, Tree, GuestNext, "rename" \notin GuestOps
  PROVE  TreeStep /\ GuestKeeps
<1>1. entry \in [Path -> Inode \cup {NoInode}] /\ inode \in [Inode -> Node]
  BY DEF FSTypeOK
<1>2. ASSUME NEW p \in Path, NEW i \in GuestInode, NEW k \in Kind, NEW c \in Content, NEW m \in Mode,
             GuestCreate(p, i, k, c, m)
      PROVE  TreeStep /\ GuestKeeps
  <2>1. PICK t \in IF k = "symlink" THEN LinkTarget ELSE {<< >>} :
          inode' = [inode EXCEPT ![i] =
            [kind |-> k, content |-> IF k = "file" THEN c ELSE Empty, mode |-> m, target |-> t]]
    BY <1>2 DEF GuestCreate
  <2>2. k # "free" /\ inode[i].kind = "free" /\ entry[p] = NoInode /\ KindAt(Dir(p)) = "dir"
        /\ entry' = [entry EXCEPT ![p] = i] /\ i \in Inode
    BY <1>2, InodeAssumption DEF GuestCreate
  <2>3. inode'[i].kind = k /\ \A j \in Inode \ {i} : inode'[j] = inode[j]
    BY <1>1, <2>1, <2>2
  <2>4. KindsKept
    BY <2>2, <2>3 DEF KindsKept
  <2>5. Grows(p, i)
    BY <2>2, <2>3, WalkBelowDir, PathAssumption DEF Grows
  <2>6. GuestKeeps
    BY <1>1, <2>2, <2>3 DEF GuestKeeps
  <2> QED
    BY <2>4, <2>5, <2>6 DEF TreeStep
<1>3. ASSUME NEW p \in Path, NEW c \in Content, GuestWrite(p, c)
      PROVE  TreeStep /\ GuestKeeps
  <2>1. p # << >> /\ KindAt(p) # "none"
    BY <1>3, PathAssumption DEF GuestWrite
  <2>2. entry[p] \in Inode /\ inode[entry[p]] \in Node
    BY <2>1, KindAtEntry
  <2>3. \A i \in Inode : inode'[i].kind = inode[i].kind
    BY <1>1, <1>3, <2>2 DEF GuestWrite, Node
  <2> QED
    BY <1>3, <2>3 DEF GuestWrite, TreeStep, KindsKept, GuestKeeps
<1>4. ASSUME NEW p \in Path, GuestUnlink(p) PROVE TreeStep /\ GuestKeeps
  <2>1. "unlink" \in GuestOps /\ entry' = [entry EXCEPT ![p] = NoInode] /\ inode' = inode
        /\ Children(p) = {}
    BY <1>4 DEF GuestUnlink, GuestStep
  <2> QED
    BY <1>1, <2>1 DEF TreeStep, KindsKept, GuestKeeps, Shrinks
<1>5. ASSUME NEW p \in Path, NEW q \in Path, GuestRename(p, q) PROVE TreeStep /\ GuestKeeps
  BY <1>5 DEF GuestRename, GuestStep
<1>6. ASSUME NEW p \in Path, NEW q \in Path, GuestLink(p, q) PROVE TreeStep /\ GuestKeeps
  <2>1. /\ "link" \in GuestOps /\ entry[q] = NoInode /\ KindAt(Dir(q)) = "dir"
        /\ entry' = [entry EXCEPT ![q] = entry[p]] /\ inode' = inode /\ KindAt(p) = "file"
    BY <1>6 DEF GuestLink, GuestStep
  <2>2. entry[p] \in Inode /\ inode[entry[p]].kind # "free"
    <3>1. p # << >> /\ KindAt(p) # "none"
      BY <2>1, PathAssumption
    <3> QED
      BY <2>1, <3>1, KindAtEntry
  <2>3. Grows(q, entry[p])
    BY <2>1, <2>2, WalkBelowDir, PathAssumption DEF Grows
  <2>4. KindsKept /\ GuestKeeps
    BY <1>1, <2>1 DEF KindsKept, GuestKeeps
  <2> QED
    BY <2>3, <2>4 DEF TreeStep
<1> QED
  BY <1>2, <1>3, <1>4, <1>5, <1>6 DEF GuestNext

\* What any guest can do: to an inode, and to an entry.
GuestEffect ==
  /\ guestOps < MaxGuestOps /\ guestOps' = guestOps + 1
  /\ KindsKept
  /\ \A i \in Inode \ GuestInode :
       /\ inode'[i].kind = inode[i].kind /\ inode'[i].mode = inode[i].mode
       /\ inode'[i].target = inode[i].target
       /\ "write" \notin GuestOps => inode'[i] = inode[i]
  /\ \A p \in Path :
       \/ entry'[p] = entry[p]
       \/ /\ "create" \in GuestOps /\ entry[p] = NoInode
          /\ entry'[p] \in GuestInode /\ inode'[entry'[p]].kind # "free"
       \/ /\ "link" \in GuestOps /\ entry[p] = NoInode
          /\ \E q \in Path : KindAt(q) = "file" /\ entry'[p] = entry[q]
       \/ "unlink" \in GuestOps /\ entry'[p] = NoInode
       \/ /\ "rename" \in GuestOps /\ KindAt(p) # "dir"
          /\ \/ entry'[p] = NoInode
             \/ \E q \in Path : KindAt(q) \in {"file", "symlink", "other"} /\ entry'[p] = entry[q]

LEMMA GuestEffects ==
  ASSUME FSTypeOK, GuestNext
  PROVE  GuestEffect
<1>1. entry \in [Path -> Inode \cup {NoInode}] /\ inode \in [Inode -> Node]
  BY DEF FSTypeOK
<1>2. ASSUME NEW p \in Path, NEW i \in GuestInode, NEW k \in Kind, NEW c \in Content, NEW m \in Mode,
             GuestCreate(p, i, k, c, m)
      PROVE  GuestEffect
  <2>1. PICK t \in IF k = "symlink" THEN LinkTarget ELSE {<< >>} :
          inode' = [inode EXCEPT ![i] =
            [kind |-> k, content |-> IF k = "file" THEN c ELSE Empty, mode |-> m, target |-> t]]
    BY <1>2 DEF GuestCreate
  <2>2. k # "free" /\ inode[i].kind = "free" /\ entry[p] = NoInode
        /\ entry' = [entry EXCEPT ![p] = i] /\ i \in Inode /\ "create" \in GuestOps
    BY <1>2, InodeAssumption DEF GuestCreate, GuestStep
  <2>3. inode'[i].kind = k /\ \A j \in Inode \ {i} : inode'[j] = inode[j]
    BY <1>1, <2>1, <2>2
  <2>4. guestOps < MaxGuestOps /\ guestOps' = guestOps + 1
    BY <1>2 DEF GuestCreate, GuestStep
  <2>5. KindsKept
    BY <2>2, <2>3 DEF KindsKept
  <2>6. \A q \in Path : q # p => entry'[q] = entry[q]
    BY <1>1, <2>2
  <2>7. entry'[p] = i
    BY <1>1, <2>2
  <2> QED
    BY <2>2, <2>3, <2>4, <2>5, <2>6, <2>7 DEF GuestEffect
<1>3. ASSUME NEW p \in Path, NEW c \in Content, GuestWrite(p, c)
      PROVE  GuestEffect
  <2>1. p # << >> /\ KindAt(p) # "none"
    BY <1>3, PathAssumption DEF GuestWrite
  <2>2. entry[p] \in Inode /\ inode[entry[p]] \in Node
    BY <2>1, KindAtEntry
  <2> DEFINE node == [inode[entry[p]] EXCEPT !.content = c]
  <2>3. /\ node.kind = inode[entry[p]].kind /\ node.mode = inode[entry[p]].mode
        /\ node.target = inode[entry[p]].target
    BY <2>2 DEF Node
  <2>4. inode' = [inode EXCEPT ![entry[p]] = node] /\ entry' = entry /\ "write" \in GuestOps
        /\ guestOps < MaxGuestOps /\ guestOps' = guestOps + 1
    BY <1>3 DEF GuestWrite, GuestStep
  <2> HIDE DEF node
  <2>5. \A i \in Inode : /\ inode'[i].kind = inode[i].kind /\ inode'[i].mode = inode[i].mode
                         /\ inode'[i].target = inode[i].target
    BY <1>1, <2>2, <2>3, <2>4
  <2> QED
    BY <2>4, <2>5 DEF GuestEffect, KindsKept
<1>4. ASSUME NEW p \in Path, GuestUnlink(p) PROVE GuestEffect
  <2>1. "unlink" \in GuestOps /\ entry' = [entry EXCEPT ![p] = NoInode] /\ inode' = inode
        /\ guestOps < MaxGuestOps /\ guestOps' = guestOps + 1
    BY <1>4 DEF GuestUnlink, GuestStep
  <2>2. \A q \in Path : entry'[q] = entry[q] \/ entry'[q] = NoInode
    BY <1>1, <2>1
  <2> QED
    BY <2>1, <2>2 DEF GuestEffect, KindsKept
<1>5. ASSUME NEW p \in Path, NEW q \in Path, GuestRename(p, q) PROVE GuestEffect
  <2>1. /\ "rename" \in GuestOps /\ inode' = inode /\ guestOps < MaxGuestOps /\ guestOps' = guestOps + 1
        /\ entry' = [entry EXCEPT ![q] = entry[p], ![p] = NoInode]
        /\ KindAt(p) \in {"file", "symlink", "other"} /\ KindAt(q) # "dir"
    BY <1>5 DEF GuestRename, GuestStep
  <2>2. \A r \in Path : r \notin {p, q} => entry'[r] = entry[r]
    BY <1>1, <2>1
  <2>3. entry'[p] = NoInode /\ KindAt(p) # "dir"
    BY <1>1, <2>1
  <2>4. entry'[q] \in {entry[p], NoInode}
    BY <1>1, <2>1
  <2> QED
    BY <2>1, <2>2, <2>3, <2>4 DEF GuestEffect, KindsKept
<1>6. ASSUME NEW p \in Path, NEW q \in Path, GuestLink(p, q) PROVE GuestEffect
  <2>1. /\ "link" \in GuestOps /\ entry[q] = NoInode /\ guestOps < MaxGuestOps
        /\ guestOps' = guestOps + 1
        /\ entry' = [entry EXCEPT ![q] = entry[p]] /\ inode' = inode /\ KindAt(p) = "file"
    BY <1>6 DEF GuestLink, GuestStep
  <2>2. \A r \in Path : r # q => entry'[r] = entry[r]
    BY <1>1, <2>1
  <2>3. entry'[q] = entry[p]
    BY <1>1, <2>1
  <2> QED
    BY <2>1, <2>2, <2>3 DEF GuestEffect, KindsKept
<1> QED
  BY <1>2, <1>3, <1>4, <1>5, <1>6 DEF GuestNext
-----------------------------------------------------------------------------
(* Paths below one another.                                                 *)

LEMMA PrefixIs ==
  ASSUME NEW s \in Seq(Name), NEW p \in Seq(Name)
  PROVE  IsPrefix(s, p) <=> Len(s) <= Len(p) /\ \A n \in 1 .. Len(s) : s[n] = p[n]
<1>1. Len(s) \in Nat /\ Len(p) \in Nat
  OBVIOUS
<1>2. ASSUME Len(s) <= Len(p)
      PROVE  SubSeq(s, 1, Len(s)) = SubSeq(p, 1, Len(s)) <=> \A n \in 1 .. Len(s) : s[n] = p[n]
  <2>1. SubSeq(s, 1, Len(s)) = s
    BY SubSeqFull
  <2>2. /\ SubSeq(p, 1, Len(s)) \in Seq(Name) /\ Len(SubSeq(p, 1, Len(s))) = Len(s)
        /\ \A n \in 1 .. Len(s) : SubSeq(p, 1, Len(s))[n] = p[n]
    BY <1>1, <1>2
  <2>3. ASSUME \A n \in 1 .. Len(s) : s[n] = p[n] PROVE s = SubSeq(p, 1, Len(s))
    BY <2>2, <2>3, SeqEqual
  <2> QED
    BY <2>1, <2>2, <2>3
<1> QED
  BY <1>1, <1>2 DEF IsPrefix

LEMMA PrefixRefl ==
  ASSUME NEW p \in Seq(Name)
  PROVE  IsPrefix(p, p)
<1>1. Len(p) \in Nat
  OBVIOUS
<1> QED
  BY <1>1, PrefixIs

LEMMA PrefixTrans ==
  ASSUME NEW p \in Seq(Name), NEW q \in Seq(Name), NEW r \in Seq(Name),
         IsPrefix(p, q), IsPrefix(q, r)
  PROVE  IsPrefix(p, r)
<1>1. /\ Len(p) \in Nat /\ Len(q) \in Nat /\ Len(r) \in Nat
      /\ Len(p) <= Len(q) /\ \A n \in 1 .. Len(p) : p[n] = q[n]
      /\ Len(q) <= Len(r) /\ \A n \in 1 .. Len(q) : q[n] = r[n]
  BY PrefixIs
<1>2. Len(p) <= Len(r) /\ \A n \in 1 .. Len(p) : p[n] = r[n]
  BY <1>1
<1> QED
  BY <1>2, PrefixIs

LEMMA PrefixAppend ==
  ASSUME NEW p \in Seq(Name), NEW x \in Name
  PROVE  IsPrefix(p, Append(p, x))
<1> DEFINE a == Append(p, x)
<1>1. a \in Seq(Name) /\ Len(p) \in Nat /\ Len(a) = Len(p) + 1
  OBVIOUS
<1>2. \A n \in 1 .. Len(p) : a[n] = p[n]
  OBVIOUS
<1> HIDE DEF a
<1>3. IsPrefix(p, a)
  BY <1>1, <1>2, PrefixIs
<1> QED
  BY <1>3 DEF a

LEMMA PrefixSame ==
  ASSUME NEW p \in Seq(Name), NEW q \in Seq(Name), IsPrefix(p, q), Len(q) <= Len(p)
  PROVE  p = q
<1>1. /\ Len(p) \in Nat /\ Len(q) \in Nat
      /\ Len(p) <= Len(q) /\ \A n \in 1 .. Len(p) : p[n] = q[n]
  BY PrefixIs
<1> QED
  BY <1>1, SeqEqual

LEMMA PrefixesNest ==
  ASSUME NEW p \in Seq(Name), NEW q \in Seq(Name), NEW r \in Seq(Name),
         IsPrefix(p, r), IsPrefix(q, r), Len(p) <= Len(q)
  PROVE  IsPrefix(p, q)
<1>1. /\ Len(p) \in Nat /\ Len(q) \in Nat /\ Len(r) \in Nat
      /\ Len(p) <= Len(r) /\ \A n \in 1 .. Len(p) : p[n] = r[n]
      /\ Len(q) <= Len(r) /\ \A n \in 1 .. Len(q) : q[n] = r[n]
  BY PrefixIs
<1>2. \A n \in 1 .. Len(p) : p[n] = q[n]
  BY <1>1
<1> QED
  BY <1>2, PrefixIs

\* What is below a path is below one of the names in it.
LEMMA PrefixStep ==
  ASSUME NEW q \in Seq(Name), NEW p \in Seq(Name), IsPrefix(q, p), q # p
  PROVE  \E x \in Name : /\ IsPrefix(Append(q, x), p) /\ Append(q, x) \in Seq(Name)
                         /\ Len(q) < Len(p) /\ Append(q, x) = Prefix(p, Len(q) + 1)
<1>1. /\ Len(p) \in Nat /\ Len(q) \in Nat
      /\ Len(q) <= Len(p) /\ \A n \in 1 .. Len(q) : q[n] = p[n]
  BY PrefixIs
<1>2. Len(q) < Len(p)
  <2>1. CASE Len(p) <= Len(q)
    BY <2>1, PrefixSame
  <2> QED
    BY <1>1, <2>1
<1> DEFINE x == p[Len(q) + 1]
           a == Append(q, x)
           k == Len(q) + 1
<1>3. x \in Name /\ k \in 1 .. Len(p)
  BY <1>1, <1>2
<1>4. a \in Seq(Name) /\ Len(a) = k /\ k \in Nat
  BY <1>1, <1>3
<1>5. \A n \in 1 .. k : a[n] = p[n]
  BY <1>1, <1>3
<1>6. /\ Prefix(p, k) \in Seq(Name) /\ Len(Prefix(p, k)) = k
      /\ \A n \in 1 .. k : Prefix(p, k)[n] = p[n]
  BY <1>1, <1>3 DEF Prefix
<1> HIDE DEF x, a, k
<1>7. IsPrefix(a, p)
  BY <1>1, <1>3, <1>4, <1>5, PrefixIs
<1>8. a = Prefix(p, k)
  BY <1>4, <1>5, <1>6, SeqEqual
<1> QED
  BY <1>2, <1>3, <1>4, <1>7, <1>8 DEF a, k

LEMMA PrefixOfAppend ==
  ASSUME NEW r \in Seq(Name), NEW q \in Seq(Name), NEW x \in Name, IsPrefix(r, Append(q, x))
  PROVE  IsPrefix(r, q) \/ r = Append(q, x)
<1> DEFINE a == Append(q, x)
<1>1. a \in Seq(Name) /\ Len(a) = Len(q) + 1 /\ Len(q) \in Nat /\ Len(r) \in Nat
  OBVIOUS
<1>2. IsPrefix(r, a) /\ IsPrefix(q, a)
  BY PrefixAppend
<1> HIDE DEF a
<1>3. CASE Len(r) <= Len(q)
  BY <1>1, <1>2, <1>3, PrefixesNest
<1>4. CASE Len(a) <= Len(r)
  BY <1>1, <1>2, <1>4, PrefixSame DEF a
<1> QED
  BY <1>1, <1>3, <1>4

\* The prefixes of a path are below one another.
LEMMA PrefixOf ==
  ASSUME NEW p \in Seq(Name), NEW n \in 0 .. Len(p)
  PROVE  Prefix(p, n) \in Seq(Name) /\ Len(Prefix(p, n)) = n /\ IsPrefix(Prefix(p, n), p)
<1> DEFINE q == Prefix(p, n)
<1>1. q \in Seq(Name) /\ Len(q) = n /\ \A k \in 1 .. n : q[k] = p[k]
  BY DEF Prefix
<1>2. n \in Nat /\ n <= Len(p)
  OBVIOUS
<1> HIDE DEF q
<1>3. IsPrefix(q, p)
  BY <1>1, <1>2, PrefixIs
<1> QED
  BY <1>1, <1>3 DEF q

LEMMA PrefixIsPrefix ==
  ASSUME NEW q \in Seq(Name), NEW p \in Seq(Name), IsPrefix(q, p)
  PROVE  q = Prefix(p, Len(q)) /\ Len(q) \in 0 .. Len(p)
<1>1. Len(q) \in Nat /\ Len(p) \in Nat /\ Len(q) <= Len(p)
  BY PrefixIs
<1>2. SubSeq(q, 1, Len(q)) = q
  BY SubSeqFull
<1> QED
  BY <1>1, <1>2 DEF IsPrefix, Prefix

\* Who takes a name away takes only that one, where nothing is renamed.
LEMMA GuestUnlinks ==
  ASSUME FSTypeOK, GuestNext, "rename" \notin GuestOps, NEW t \in Path, entry[t] # NoInode
  PROVE  entry'[t] = entry[t] \/ ("unlink" \in GuestOps /\ entry' = [entry EXCEPT ![t] = NoInode])
<1>1. entry \in [Path -> Inode \cup {NoInode}]
  BY DEF FSTypeOK
<1>2. ASSUME NEW p \in Path, NEW i \in GuestInode, NEW k \in Kind, NEW c \in Content, NEW m \in Mode,
             GuestCreate(p, i, k, c, m)
      PROVE  entry'[t] = entry[t]
  BY <1>1, <1>2 DEF GuestCreate
<1>3. ASSUME NEW p \in Path, NEW c \in Content, GuestWrite(p, c) PROVE entry'[t] = entry[t]
  BY <1>3 DEF GuestWrite
<1>4. ASSUME NEW p \in Path, GuestUnlink(p)
      PROVE  entry'[t] = entry[t] \/ ("unlink" \in GuestOps /\ entry' = [entry EXCEPT ![t] = NoInode])
  BY <1>1, <1>4 DEF GuestUnlink, GuestStep
<1>5. ASSUME NEW p \in Path, NEW q \in Path, GuestLink(p, q) PROVE entry'[t] = entry[t]
  BY <1>1, <1>5 DEF GuestLink
<1>6. ASSUME NEW p \in Path, NEW q \in Path, GuestRename(p, q) PROVE FALSE
  BY <1>6 DEF GuestRename, GuestStep
<1> QED
  BY <1>2, <1>3, <1>4, <1>5, <1>6 DEF GuestNext
=============================================================================
