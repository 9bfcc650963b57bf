-------------------------- MODULE ShareProbeProofs --------------------------
(***************************************************************************)
(* Proofs about ShareProbe, for any share, any number of daemons that start  *)
(* on it at once and any names of temporary files.                           *)
(***************************************************************************)
EXTENDS ShareProbe, HostFSProofs, Induction

-----------------------------------------------------------------------------
(* A share root, once absolute and clean, consists of names.                *)

Segment == Name \cup {"", ".", ".."}

LEMMA PushNames ==
  ASSUME NEW acc \in Seq(Name), NEW s \in Segment, NEW abs, abs
  PROVE  Push(abs, acc, s) \in Seq(Name)
<1>1. acc # << >> => Len(acc) \in Nat \ {0} /\ Last(acc) \in Name
  <2> SUFFICES ASSUME acc # << >> PROVE Len(acc) \in Nat \ {0} /\ Last(acc) \in Name
    OBVIOUS
  <2>1. Len(acc) \in Nat \ {0}
    BY EmptySeq
  <2> QED
    BY <2>1 DEF Last
<1>2. CASE s \in {"", "."}
  BY <1>2 DEF Push
<1>3. CASE s \notin {"", "."} /\ s = ".." /\ acc # << >> /\ Last(acc) # ".."
  <2>1. Push(abs, acc, s) = Front(acc)
    BY <1>3 DEF Push
  <2>2. Front(acc) \in Seq(Name)
    BY <1>1, <1>3 DEF Front
  <2> QED
    BY <2>1, <2>2
<1>4. CASE s = ".." /\ acc = << >>
  BY <1>4 DEF Push
<1>5. CASE s \notin {"", "."} /\ (s # ".." \/ (acc # << >> /\ Last(acc) = ".."))
  <2>1. s \in Name
    BY <1>1, <1>5 DEF Segment
  <2>2. Push(abs, acc, s) = Append(acc, s)
    BY <1>5 DEF Push
  <2>3. Append(acc, s) \in Seq(Name)
    BY <2>1
  <2> QED
    BY <2>2, <2>3, Zenon
<1> QED
  BY <1>2, <1>3, <1>4, <1>5

LEMMA CleanNames ==
  ASSUME NEW p \in Seq(Segment), IsAbs(p)
  PROVE  Clean(p).abs /\ Clean(p).parts \in Seq(Name)
<1> DEFINE n == Len(p)
           A == Seq(Name)
           St == [z \in A \X (1 .. n) |-> Push(IsAbs(p), z[1], p[z[2]])]
           base == << >>
           F == CHOOSE iter : iter = [s \in SUBSET DOMAIN p |->
                  IF s = {} THEN base ELSE Push(IsAbs(p), iter[s \ {Max(s)}], p[Max(s)])]
<1>1. n \in Nat /\ DOMAIN p = 1 .. n /\ base \in A
  OBVIOUS
<1>2. ASSUME NEW a \in A, NEW k \in 1 .. n
      PROVE  St[<<a, k>>] = Push(IsAbs(p), a, p[k]) /\ Push(IsAbs(p), a, p[k]) \in A
  <2>1. p[k] \in Segment
    BY <1>1
  <2>2. Push(IsAbs(p), a, p[k]) \in A
    BY <2>1, PushNames, Zenon
  <2>3. <<a, k>> \in A \X (1 .. n) /\ <<a, k>>[1] = a /\ <<a, k>>[2] = k
    OBVIOUS
  <2>4. St[<<a, k>>] = Push(IsAbs(p), a, p[k])
    BY <2>3, Zenon
  <2> QED
    BY <2>2, <2>4
<1>3. Clean(p).abs /\ Clean(p).parts = F[DOMAIN p]
  BY DEF Clean, FoldLeft, MapThenFoldSet
<1>4. PICK G \in [SUBSET (1 .. n) -> A] : IsFold(G, n, base, St)
  <2>1. \A a \in A, k \in 1 .. n : St[<<a, k>>] \in A
    BY <1>2
  <2>2. n \in Nat /\ base \in A
    BY <1>1
  <2> HIDE DEF St, A, n, base
  <2> QED
    BY <2>1, <2>2, FoldExists
<1> HIDE DEF St, base
<1>5. G = [s \in SUBSET DOMAIN p |->
             IF s = {} THEN base ELSE Push(IsAbs(p), G[s \ {Max(s)}], p[Max(s)])]
  <2>1. ASSUME NEW s \in SUBSET (1 .. n), s # {}
        PROVE  St[<<G[s \ {Max(s)}], Max(s)>>] = Push(IsAbs(p), G[s \ {Max(s)}], p[Max(s)])
    <3>1. Max(s) \in 1 .. n
      BY <1>1, <2>1, MaxFacts
    <3>2. G[s \ {Max(s)}] \in A
      BY <2>1
    <3> QED
      BY <1>2, <3>1, <3>2
  <2> QED
    BY <1>1, <1>4, <2>1 DEF IsFold
<1>6. F = [s \in SUBSET DOMAIN p |->
             IF s = {} THEN base ELSE Push(IsAbs(p), F[s \ {Max(s)}], p[Max(s)])]
  BY <1>5
<1> HIDE DEF F
<1>7. F[{}] = G[{}] /\ \A s \in SUBSET (1 .. n) :
        s # {} /\ F[s \ {Max(s)}] = G[s \ {Max(s)}] => F[s] = G[s]
  BY <1>1, <1>5, <1>6
<1>8. F[1 .. n] = G[1 .. n]
  BY <1>1, <1>7, FoldInduction
<1> QED
  BY <1>1, <1>3, <1>8

LEMMA ConcatHead ==
  ASSUME NEW S, NEW a \in Seq(S), NEW b \in Seq(S), Len(a) > 0
  PROVE  a \o b \in Seq(S) /\ Len(a \o b) = Len(a) + Len(b) /\ Head(a \o b) = Head(a)
<1>1. Len(a) \in Nat /\ Len(b) \in Nat /\ Head(a) = a[1]
  OBVIOUS
<1>2. a \o b \in Seq(S) /\ Len(a \o b) = Len(a) + Len(b)
  OBVIOUS
<1>3. (a \o b)[1] = a[1]
  BY <1>1
<1>4. Len(a \o b) > 0
  BY <1>1, <1>2
<1>5. Head(a \o b) = (a \o b)[1]
  BY <1>2, <1>4
<1> QED
  BY <1>1, <1>2, <1>3, <1>5

LEMMA AbsAppend ==
  ASSUME NEW S, NEW a \in Seq(S), NEW b \in Seq(S), IsAbs(a)
  PROVE  a \o b \in Seq(S) /\ IsAbs(a \o b)
<1>1. Len(a) > 1
  BY Zenon DEF IsAbs
<1>2. Head(a) = ""
  BY Zenon DEF IsAbs
<1>3. a \o b \in Seq(S) /\ Len(a \o b) > 1 /\ Head(a \o b) = Head(a)
  <2>1. Len(a) \in Nat /\ Len(b) \in Nat /\ Len(a) > 0
    BY <1>1
  <2> QED
    BY <1>1, <2>1, ConcatHead
<1> QED
  BY <1>2, <1>3, Zenon DEF IsAbs

LEMMA TextNames ==
  ASSUME NEW c, c.abs, c.parts \in Seq(Name)
  PROVE  Text(c) \in Seq(Segment) /\ IsAbs(Text(c))
<1>1. CASE c.parts = << >>
  <2> DEFINE e == <<"", "">>
  <2>1. Text(c) = e
    BY <1>1 DEF Text
  <2>2. e \in Seq(Segment) /\ Len(e) > 1
    BY DEF Segment
  <2>3. Head(e) = ""
    OBVIOUS
  <2> HIDE DEF e
  <2> QED
    BY <2>1, <2>2, <2>3, Zenon DEF IsAbs
<1>2. CASE c.parts # << >>
  <2> DEFINE e == <<"">>
             q == c.parts
  <2>1. Text(c) = e \o q
    BY <1>2 DEF Text
  <2>2. q \in Seq(Segment) /\ q # << >>
    <3>1. Name \subseteq Segment
      BY DEF Segment
    <3> HIDE DEF q
    <3>2. q \in Seq(Name) /\ q # << >>
      BY <1>2 DEF q
    <3> QED
      BY <3>1, <3>2
  <2>3. e \in Seq(Segment) /\ Len(e) = 1
    BY DEF Segment
  <2>4. Head(e) = ""
    OBVIOUS
  <2> HIDE DEF e, q
  <2>5. e \o q \in Seq(Segment) /\ Len(e \o q) > 1 /\ Head(e \o q) = Head(e)
    <3>1. Len(q) \in Nat \ {0} /\ Len(e) > 0
      BY <2>2, <2>3, EmptySeq
    <3>2. /\ e \o q \in Seq(Segment) /\ Len(e \o q) = Len(e) + Len(q)
          /\ Head(e \o q) = Head(e)
      BY <2>2, <2>3, <3>1, ConcatHead, Zenon
    <3>3. Len(e \o q) > 1
      <4>1. ASSUME NEW m, NEW k \in Nat \ {0}, m = 1 + k PROVE m > 1
        BY <4>1
      <4> QED
        BY <2>3, <3>1, <3>2, <4>1
    <3> QED
      BY <3>2, <3>3, Zenon
  <2> QED
    BY <2>1, <2>4, <2>5, Zenon DEF IsAbs
<1> QED
  BY <1>1, <1>2

LEMMA RootNames ==
  ASSUME NEW r \in ShareRoot, r # EmptyPath
  PROVE  NormalizeRoot(Cwd, r).parts \in Seq(Name)
<1>1. r \in Seq(Segment) /\ Cwd \in Seq(Segment) /\ IsAbs(Cwd)
  BY ProbeAssumption DEF Segment
<1>2. CASE IsAbs(r)
  BY <1>1, <1>2, CleanNames DEF NormalizeRoot
<1>3. CASE ~IsAbs(r)
  <2> DEFINE c == Clean(Cwd \o r)
  <2>1. Cwd \o r \in Seq(Segment) /\ IsAbs(Cwd \o r)
    BY <1>1, AbsAppend
  <2>2. c.abs /\ c.parts \in Seq(Name)
    BY <2>1, CleanNames
  <2>3. NormalizeRoot(Cwd, r) = Clean(Text(c))
    BY <1>3 DEF NormalizeRoot, Join
  <2> HIDE DEF c
  <2>4. Text(c) \in Seq(Segment) /\ IsAbs(Text(c))
    BY <2>2, TextNames
  <2> QED
    BY <2>3, <2>4, CleanNames
<1> QED
  BY <1>2, <1>3
-----------------------------------------------------------------------------
(* Type correctness.                                                        *)

Pcs == {"idle", "stat", "createSrc", "write", "createDst", "closeDst", "removeDst", "reflink",
        "cleanSrc", "cleanDst", "done", "dead"}

LEMMA TypeParts ==
  ASSUME TypeOK
  PROVE  /\ FSTypeOK /\ pc \in [Daemon -> Pcs]
         /\ root \in [Daemon -> Seq(Name)] /\ srcPath \in [Daemon -> Seq(Name)]
         /\ dstPath \in [Daemon -> Seq(Name)]
         /\ err \in [Daemon -> Failure \cup {"nil"}]
         /\ made \in [Daemon -> SUBSET NewInode]
         /\ supported \in BOOLEAN /\ faults \in 0 .. MaxFaults
BY DEF TypeOK, Pcs

LEMMA GotoType ==
  ASSUME TypeOK, NEW d \in Daemon, NEW to \in Pcs, Goto(d, to)
  PROVE  /\ pc' \in [Daemon -> Pcs] /\ pc'[d] = to
         /\ \A e \in Daemon \ {d} : pc'[e] = pc[e]
BY TypeParts DEF Goto

LEMMA FailsType ==
  ASSUME TypeOK, NEW what, Fails(what)
  PROVE  faults' \in 0 .. MaxFaults /\ faults' = faults + 1
<1>1. faults \in 0 .. MaxFaults /\ MaxFaults \in Nat /\ faults < MaxFaults /\ faults' = faults + 1
  BY TypeParts, ProbeAssumption DEF Fails
<1> QED
  BY <1>1

\* Where a step leaves the share: as it is, with one file more, or with one name less.
Puts(d, p, i) ==
  /\ p \in Path /\ i \in NewInode /\ inode[i].kind = "free"
  /\ CreateErrno(p) = "ok"
  /\ entry' = [entry EXCEPT ![p] = i]
  /\ inode'[i] \in Node /\ inode'[i].kind = "file"
  /\ \A j \in Inode \ {i} : inode'[j] = inode[j]
  /\ inode' \in [Inode -> Node]
  /\ made' = [made EXCEPT ![d] = @ \cup {i}]
  /\ guestOps' = guestOps

LEMMA PutFacts ==
  ASSUME TypeOK, NEW d \in Daemon, NEW p, CreateErrno(p) = "ok",
         NEW content \in Content \cup {Empty}, Put(d, p, content)
  PROVE  \E i \in NewInode : Puts(d, p, i)
<1> DEFINE i == CHOOSE i \in NewInode : inode[i].kind = "free"
           node == [kind |-> "file", content |-> content,
                    mode |-> Masked[TempMode], target |-> << >>]
<1>1. i \in NewInode /\ inode[i].kind = "free"
  BY DEF Put
<1>2. p \in Path
  BY ErrnoFacts
<1>3. node \in Node /\ node.kind = "file"
  <2>1. Masked[TempMode] \in Mode
    BY ProbeAssumption, InitAssumption
  <2> QED
    BY <2>1 DEF Node, Kind
<1>4. /\ entry' = [entry EXCEPT ![p] = i] /\ inode' = [inode EXCEPT ![i] = node]
      /\ made' = [made EXCEPT ![d] = @ \cup {i}] /\ guestOps' = guestOps
  BY DEF Put
<1>5. i \in Inode /\ inode \in [Inode -> Node]
  BY <1>1, ProbeAssumption, TypeParts DEF FSTypeOK
<1> HIDE DEF i, node
<1>6. inode'[i] = node /\ inode' \in [Inode -> Node] /\ \A j \in Inode \ {i} : inode'[j] = inode[j]
  BY <1>3, <1>4, <1>5
<1> QED
  BY <1>1, <1>2, <1>3, <1>4, <1>6 DEF Puts

LEMMA PutsType ==
  ASSUME TypeOK, NEW d \in Daemon, NEW p, NEW i, Puts(d, p, i)
  PROVE  /\ FSTypeOK' /\ made' \in [Daemon -> SUBSET NewInode]
         /\ made'[d] = made[d] \cup {i} /\ \A e \in Daemon \ {d} : made'[e] = made[e]
<1>1. i \in Inode /\ i \in NewInode /\ p \in Path
  BY ProbeAssumption DEF Puts
<1>2. /\ entry' = [entry EXCEPT ![p] = i] /\ guestOps' = guestOps
      /\ inode' \in [Inode -> Node] /\ made' = [made EXCEPT ![d] = @ \cup {i}]
  BY DEF Puts
<1>3. FSTypeOK'
  BY <1>1, <1>2, TypeParts DEF FSTypeOK
<1> QED
  BY <1>1, <1>2, <1>3, TypeParts

\* What an open source holds is a content.
LEMMA SourceContent ==
  ASSUME TypeOK, NEW p, Openable(p)
  PROVE  inode[entry[Follow(p)]].content \in Content \cup {Empty}
<1> DEFINE q == Follow(p)
<1>1. CASE q = << >>
  BY <1>1 DEF Openable, KindAt
<1>2. CASE q # << >>
  <2>1. KindAt(q) # "none" /\ FSTypeOK
    BY TypeParts DEF Openable
  <2> HIDE DEF q
  <2>2. inode[entry[q]] \in Node
    BY <1>2, <2>1, KindAtEntry
  <2> QED
    BY <2>2 DEF Node, q
<1> QED
  BY <1>1, <1>2

\* The steps of one daemon, as the others and the share see them.
Same(e) ==
  /\ pc'[e] = pc[e] /\ root'[e] = root[e] /\ srcPath'[e] = srcPath[e]
  /\ dstPath'[e] = dstPath[e] /\ err'[e] = err[e]

Rests ==
  /\ entry' = entry /\ made' = made /\ guestOps' = guestOps
  /\ \A i \in Inode : inode'[i].kind = inode[i].kind /\ (i \notin NewInode => inode'[i] = inode[i])

Removes(d, p) ==
  /\ p \in {srcPath[d], dstPath[d]} /\ p \in Path /\ CanRemove(p) /\ RemoveName(p)
  /\ made' = made

Shape(d) ==
  /\ \A e \in Daemon \ {d} : Same(e)
  /\ supported' = supported /\ faults' \in {faults, faults + 1}
  /\ \/ Rests
     \/ \E p \in {srcPath'[d], dstPath'[d]} : \E i \in NewInode : Puts(d, p, i)
     \/ \E p : Removes(d, p)

LEMMA FailShape ==
  ASSUME TypeOK, NEW d \in Daemon, NEW e \in Failure, NEW to \in Pcs, Fail(d, e, to),
         faults' \in 0 .. MaxFaults, faults' \in {faults, faults + 1}
  PROVE  TypeOK' /\ Shape(d) /\ Rests
<1>1. /\ pc' \in [Daemon -> Pcs] /\ \A o \in Daemon \ {d} : pc'[o] = pc[o]
  BY GotoType DEF Fail
<1>2. /\ err' = [err EXCEPT ![d] = e] /\ entry' = entry /\ inode' = inode /\ guestOps' = guestOps
      /\ root' = root /\ srcPath' = srcPath /\ dstPath' = dstPath /\ made' = made
      /\ supported' = supported
  BY DEF Fail, fsvars
<1>3. TypeOK'
  BY <1>1, <1>2, TypeParts DEF TypeOK, Pcs, FSTypeOK
<1>4. Rests
  BY <1>2 DEF Rests
<1> QED
  BY <1>1, <1>2, <1>3, <1>4, TypeParts DEF Shape, Same

\* A step that changes nothing of its locals but the program counter.
LEMMA MoveShape ==
  ASSUME TypeOK, NEW d \in Daemon, NEW to \in Pcs, Goto(d, to), FSTypeOK',
         UNCHANGED <<local, supported, faults>>
  PROVE  TypeOK' /\ \A e \in Daemon \ {d} : Same(e)
<1>1. /\ pc' \in [Daemon -> Pcs] /\ \A o \in Daemon \ {d} : pc'[o] = pc[o]
  BY GotoType
<1>2. /\ err' = err /\ root' = root /\ srcPath' = srcPath /\ dstPath' = dstPath
      /\ made' = made /\ supported' = supported /\ faults' = faults
  BY DEF local
<1> QED
  BY <1>1, <1>2, TypeParts DEF TypeOK, Pcs, Same

LEMMA QuietShape ==
  ASSUME TypeOK, NEW d \in Daemon, NEW to \in Pcs, Goto(d, to),
         UNCHANGED <<fsvars, local, supported, faults>>
  PROVE  TypeOK' /\ Shape(d) /\ Rests
<1>1. FSTypeOK' /\ Rests
  BY TypeParts DEF FSTypeOK, fsvars, local, Rests
<1>2. TypeOK' /\ \A e \in Daemon \ {d} : Same(e)
  BY <1>1, MoveShape
<1> QED
  BY <1>1, <1>2 DEF Shape

\* os.Remove of one of the two names.
LEMMA RemoveShape ==
  ASSUME TypeOK, NEW d \in Daemon, NEW to \in Pcs, Goto(d, to),
         NEW p \in {srcPath[d], dstPath[d]}, CanRemove(p), RemoveName(p),
         UNCHANGED <<local, supported, faults>>
  PROVE  TypeOK' /\ Shape(d)
<1>1. entry \in [Path -> Inode \cup {NoInode}] /\ FSTypeOK
  BY TypeParts DEF FSTypeOK
<1>2. entry' = [entry EXCEPT ![p] = NoInode] /\ inode' = inode /\ guestOps' = guestOps /\ made' = made
  BY DEF RemoveName, local
<1>3. FSTypeOK'
  BY <1>1, <1>2 DEF FSTypeOK
<1>4. TypeOK' /\ \A e \in Daemon \ {d} : Same(e)
  BY <1>3, MoveShape
<1>5. CASE p \in Path
  BY <1>2, <1>4, <1>5 DEF Shape, Removes
<1>6. CASE p \notin Path
  <2>1. entry' = entry
    BY <1>1, <1>2, <1>6
  <2>2. Rests
    BY <1>2, <2>1 DEF Rests
  <2> QED
    BY <1>4, <2>2 DEF Shape
<1> QED
  BY <1>5, <1>6

LEMMA StartShape ==
  ASSUME TypeOK, NEW d \in Daemon, Start(d)
  PROVE  TypeOK' /\ Shape(d) /\ Rests
<1>1. PICK r \in ShareRoot :
        \/ r = EmptyPath /\ Fail(d, "no root", "done") /\ UNCHANGED faults
        \/ /\ r # EmptyPath /\ Goto(d, "stat")
           /\ root' = [root EXCEPT ![d] = NormalizeRoot(Cwd, r).parts]
           /\ UNCHANGED <<fsvars, srcPath, dstPath, err, made, supported, faults>>
  BY DEF Start
<1>2. CASE r = EmptyPath /\ Fail(d, "no root", "done") /\ UNCHANGED faults
  <2>1. "no root" \in Failure /\ "done" \in Pcs /\ faults' = faults /\ faults \in 0 .. MaxFaults
    BY <1>2, TypeParts DEF Failure, Pcs
  <2> QED
    BY <1>2, <2>1, FailShape
<1>3. CASE /\ r # EmptyPath /\ Goto(d, "stat")
           /\ root' = [root EXCEPT ![d] = NormalizeRoot(Cwd, r).parts]
           /\ UNCHANGED <<fsvars, srcPath, dstPath, err, made, supported, faults>>
  <2>1. NormalizeRoot(Cwd, r).parts \in Seq(Name)
    BY <1>3, RootNames
  <2>2. "stat" \in Pcs
    BY DEF Pcs
  <2>3. /\ pc' \in [Daemon -> Pcs] /\ \A o \in Daemon \ {d} : pc'[o] = pc[o]
    BY <1>3, <2>2, GotoType
  <2>4. /\ root' \in [Daemon -> Seq(Name)] /\ \A o \in Daemon \ {d} : root'[o] = root[o]
    BY <1>3, <2>1, TypeParts
  <2>5. /\ entry' = entry /\ inode' = inode /\ guestOps' = guestOps
        /\ srcPath' = srcPath /\ dstPath' = dstPath /\ made' = made /\ err' = err
        /\ supported' = supported /\ faults' = faults
    BY <1>3 DEF fsvars
  <2>6. TypeOK'
    BY <2>3, <2>4, <2>5, TypeParts DEF TypeOK, Pcs, FSTypeOK
  <2>7. Rests
    BY <2>5 DEF Rests
  <2> QED
    BY <2>3, <2>4, <2>5, <2>6, <2>7 DEF Shape, Same
<1> QED
  BY <1>1, <1>2, <1>3

LEMMA StatShape ==
  ASSUME TypeOK, NEW d \in Daemon, Stat(d)
  PROVE  TypeOK' /\ Shape(d) /\ Rests
<1>1. {"stat", "not a directory"} \subseteq Failure /\ {"done", "createSrc"} \subseteq Pcs
  BY DEF Failure, Pcs
<1>2. faults' = faults /\ faults \in 0 .. MaxFaults
  BY TypeParts DEF Stat
<1>3. \/ Fail(d, "stat", "done") \/ Fail(d, "not a directory", "done")
      \/ Goto(d, "createSrc") /\ UNCHANGED <<fsvars, local, supported, faults>>
  BY DEF Stat
<1>4. ASSUME NEW e \in Failure, Fail(d, e, "done") PROVE TypeOK' /\ Shape(d) /\ Rests
  BY <1>1, <1>2, <1>4, FailShape
<1>5. CASE Goto(d, "createSrc") /\ UNCHANGED <<fsvars, local, supported, faults>>
  BY <1>1, <1>5, QuietShape
<1> QED
  BY <1>1, <1>3, <1>4, <1>5

\* A return with an error, after a failure that is counted or one that is not.
LEMMA FailureShape ==
  ASSUME TypeOK, NEW d \in Daemon, NEW e \in Failure, NEW to \in Pcs, Fail(d, e, to),
         UNCHANGED faults \/ \E what \in Faults : Fails(what)
  PROVE  TypeOK' /\ Shape(d) /\ Rests
<1>1. CASE UNCHANGED faults
  BY <1>1, FailShape, TypeParts
<1>2. CASE \E what \in Faults : Fails(what)
  BY <1>2, FailShape, FailsType
<1> QED
  BY <1>1, <1>2

LEMMA FreeFacts ==
  ASSUME TypeOK, NEW d \in Daemon, NEW names, names \subseteq Name, NEW n \in Free(d, names)
  PROVE  /\ n \in names /\ CreateErrno(Append(root[d], n)) = "ok"
         /\ Append(root[d], n) \in Path
<1>1. n \in names /\ CreateErrno(Append(root[d], n)) = "ok"
  BY DEF Free
<1> QED
  BY <1>1, ErrnoFacts

LEMMA CreateSrcShape ==
  ASSUME TypeOK, NEW d \in Daemon, CreateSrc(d)
  PROVE  /\ TypeOK' /\ Shape(d)
         /\ \/ Rests /\ Goto(d, "done") /\ srcPath' = srcPath /\ dstPath' = dstPath
            \/ /\ \E n \in SrcName : srcPath'[d] = Append(root[d], n)
               /\ \E i \in NewInode : Puts(d, srcPath'[d], i)
               /\ Goto(d, "write") /\ dstPath' = dstPath /\ root' = root /\ err' = err
<1>1. "not writable" \in Failure /\ {"done", "write"} \subseteq Pcs
  BY DEF Failure, Pcs
<1>2. CASE \E n \in Free(d, SrcName) :
          /\ Put(d, Append(root[d], n), Empty)
          /\ srcPath' = [srcPath EXCEPT ![d] = Append(root[d], n)]
          /\ Goto(d, "write")
          /\ UNCHANGED <<root, dstPath, err, supported, faults>>
  <2>1. PICK n \in Free(d, SrcName) :
          /\ Put(d, Append(root[d], n), Empty)
          /\ srcPath' = [srcPath EXCEPT ![d] = Append(root[d], n)]
          /\ Goto(d, "write")
          /\ UNCHANGED <<root, dstPath, err, supported, faults>>
    BY <1>2
  <2> DEFINE p == Append(root[d], n)
  <2>2. n \in SrcName /\ CreateErrno(p) = "ok" /\ p \in Path
    BY ProbeAssumption, FreeFacts
  <2> HIDE DEF p
  <2>3. PICK i \in NewInode : Puts(d, p, i)
    BY <2>1, <2>2, PutFacts DEF p
  <2>4. /\ FSTypeOK' /\ made' \in [Daemon -> SUBSET NewInode]
    BY <2>3, PutsType
  <2>5. /\ pc' \in [Daemon -> Pcs] /\ \A o \in Daemon \ {d} : pc'[o] = pc[o]
    BY <1>1, <2>1, GotoType
  <2>6. /\ srcPath' \in [Daemon -> Seq(Name)] /\ srcPath'[d] = p
        /\ \A o \in Daemon \ {d} : srcPath'[o] = srcPath[o]
    <3>1. p \in Seq(Name) /\ srcPath' = [srcPath EXCEPT ![d] = p]
      BY <2>1, <2>2, PathAssumption DEF p
    <3> QED
      BY <3>1, TypeParts
  <2>7. UNCHANGED <<root, dstPath, err, supported, faults>>
    BY <2>1
  <2>8. TypeOK'
    BY <2>4, <2>5, <2>6, <2>7, TypeParts DEF TypeOK, Pcs
  <2>9. Shape(d)
    BY <2>3, <2>5, <2>6, <2>7 DEF Shape, Same
  <2>10. srcPath'[d] = Append(root[d], n) /\ Goto(d, "write")
    BY <2>1, <2>6 DEF p
  <2>11. \E j \in NewInode : Puts(d, srcPath'[d], j)
    BY <2>3, <2>6
  <2> QED
    BY <2>2, <2>7, <2>8, <2>9, <2>10, <2>11
<1>3. CASE /\ Fail(d, "not writable", "done")
           /\ UNCHANGED faults \/ Fails("createTemp")
  <2>1. UNCHANGED faults \/ \E what \in Faults : Fails(what)
    BY <1>3 DEF Fails
  <2>2. TypeOK' /\ Shape(d) /\ Rests
    BY <1>1, <1>3, <2>1, FailureShape
  <2> QED
    BY <1>3, <2>2 DEF Fail
<1> QED
  BY <1>2, <1>3 DEF CreateSrc

LEMMA CreateDstShape ==
  ASSUME TypeOK, NEW d \in Daemon, CreateDst(d)
  PROVE  /\ TypeOK' /\ Shape(d)
         /\ \/ Rests /\ Goto(d, "cleanSrc") /\ srcPath' = srcPath /\ dstPath' = dstPath
            \/ /\ \E n \in DstName : dstPath'[d] = Append(root[d], n)
               /\ \E i \in NewInode : Puts(d, dstPath'[d], i)
               /\ Goto(d, "closeDst") /\ srcPath' = srcPath /\ root' = root /\ err' = err
<1>1. "not writable" \in Failure /\ {"cleanSrc", "closeDst"} \subseteq Pcs
  BY DEF Failure, Pcs
<1>2. CASE \E n \in Free(d, DstName) :
          /\ Put(d, Append(root[d], n), Empty)
          /\ dstPath' = [dstPath EXCEPT ![d] = Append(root[d], n)]
          /\ Goto(d, "closeDst")
          /\ UNCHANGED <<root, srcPath, err, supported, faults>>
  <2>1. PICK n \in Free(d, DstName) :
          /\ Put(d, Append(root[d], n), Empty)
          /\ dstPath' = [dstPath EXCEPT ![d] = Append(root[d], n)]
          /\ Goto(d, "closeDst")
          /\ UNCHANGED <<root, srcPath, err, supported, faults>>
    BY <1>2
  <2> DEFINE p == Append(root[d], n)
  <2>2. n \in DstName /\ CreateErrno(p) = "ok" /\ p \in Path
    BY ProbeAssumption, FreeFacts
  <2> HIDE DEF p
  <2>3. PICK i \in NewInode : Puts(d, p, i)
    BY <2>1, <2>2, PutFacts DEF p
  <2>4. /\ FSTypeOK' /\ made' \in [Daemon -> SUBSET NewInode]
    BY <2>3, PutsType
  <2>5. /\ pc' \in [Daemon -> Pcs] /\ \A o \in Daemon \ {d} : pc'[o] = pc[o]
    BY <1>1, <2>1, GotoType
  <2>6. /\ dstPath' \in [Daemon -> Seq(Name)] /\ dstPath'[d] = p
        /\ \A o \in Daemon \ {d} : dstPath'[o] = dstPath[o]
    <3>1. p \in Seq(Name) /\ dstPath' = [dstPath EXCEPT ![d] = p]
      BY <2>1, <2>2, PathAssumption DEF p
    <3> QED
      BY <3>1, TypeParts
  <2>7. UNCHANGED <<root, srcPath, err, supported, faults>>
    BY <2>1
  <2>8. TypeOK'
    BY <2>4, <2>5, <2>6, <2>7, TypeParts DEF TypeOK, Pcs
  <2>9. Shape(d)
    BY <2>3, <2>5, <2>6, <2>7 DEF Shape, Same
  <2>10. dstPath'[d] = Append(root[d], n) /\ Goto(d, "closeDst")
    BY <2>1, <2>6 DEF p
  <2>11. \E j \in NewInode : Puts(d, dstPath'[d], j)
    BY <2>3, <2>6
  <2> QED
    BY <2>2, <2>7, <2>8, <2>9, <2>10, <2>11
<1>3. CASE /\ Fail(d, "not writable", "cleanSrc")
           /\ UNCHANGED faults \/ Fails("createTemp")
  <2>1. UNCHANGED faults \/ \E what \in Faults : Fails(what)
    BY <1>3 DEF Fails
  <2>2. TypeOK' /\ Shape(d) /\ Rests
    BY <1>1, <1>3, <2>1, FailureShape
  <2> QED
    BY <1>3, <2>2 DEF Fail
<1> QED
  BY <1>2, <1>3 DEF CreateDst

LEMMA WriteSrcShape ==
  ASSUME TypeOK, NEW d \in Daemon, WriteSrc(d)
  PROVE  /\ TypeOK' /\ Shape(d) /\ Rests /\ srcPath' = srcPath /\ dstPath' = dstPath
         /\ Goto(d, "createDst") \/ Goto(d, "cleanSrc")
<1>1. "prepare" \in Failure /\ {"cleanSrc", "createDst"} \subseteq Pcs
  BY DEF Failure, Pcs
<1>2. CASE /\ Goto(d, "createDst")
           /\ inode' = [i \in Inode |-> IF i \in made[d] THEN [inode[i] EXCEPT !.content = Probe]
                                        ELSE inode[i]]
           /\ UNCHANGED <<entry, guestOps, local, supported, faults>>
  <2>1. \A i \in Inode : inode[i] \in Node
    BY TypeParts DEF FSTypeOK
  <2>2. ASSUME NEW i \in Inode
        PROVE  /\ inode'[i] \in Node /\ inode'[i].kind = inode[i].kind
               /\ i \notin NewInode => inode'[i] = inode[i]
    <3>1. made[d] \subseteq NewInode /\ Probe \in Content
      BY TypeParts, ProbeAssumption
    <3>2. [inode[i] EXCEPT !.content = Probe] \in Node
          /\ [inode[i] EXCEPT !.content = Probe].kind = inode[i].kind
      BY <2>1, <3>1 DEF Node
    <3> QED
      BY <1>2, <2>1, <3>1, <3>2
  <2>3. FSTypeOK'
    BY <1>2, <2>2, TypeParts DEF FSTypeOK
  <2>4. TypeOK' /\ \A e \in Daemon \ {d} : Same(e)
    BY <1>1, <1>2, <2>3, MoveShape
  <2>5. Rests
    BY <1>2, <2>2 DEF Rests, local
  <2> QED
    BY <1>2, <2>4, <2>5 DEF Shape, local
<1>3. CASE Fails("write") /\ Fail(d, "prepare", "cleanSrc")
  <2>1. \E what \in Faults : Fails(what)
    BY <1>3 DEF Fails
  <2> QED
    BY <1>1, <1>3, <2>1, FailureShape DEF Fail
<1> QED
  BY <1>2, <1>3 DEF WriteSrc

LEMMA CloseDstShape ==
  ASSUME TypeOK, NEW d \in Daemon, CloseDst(d)
  PROVE  /\ TypeOK' /\ Shape(d) /\ Rests /\ srcPath' = srcPath /\ dstPath' = dstPath
         /\ Goto(d, "removeDst") \/ Goto(d, "cleanSrc")
<1>1. "prepare" \in Failure /\ {"cleanSrc", "removeDst"} \subseteq Pcs
  BY DEF Failure, Pcs
<1>2. CASE Goto(d, "removeDst") /\ UNCHANGED <<fsvars, local, supported, faults>>
  BY <1>1, <1>2, QuietShape DEF local
<1>3. CASE Fails("close") /\ Fail(d, "prepare", "cleanSrc")
  <2>1. \E what \in Faults : Fails(what)
    BY <1>3 DEF Fails
  <2> QED
    BY <1>1, <1>3, <2>1, FailureShape DEF Fail
<1> QED
  BY <1>2, <1>3 DEF CloseDst

LEMMA RemoveDstShape ==
  ASSUME TypeOK, NEW d \in Daemon, RemoveDst(d)
  PROVE  /\ TypeOK' /\ Shape(d) /\ srcPath' = srcPath /\ dstPath' = dstPath /\ made' = made
         /\ \/ CanRemove(dstPath[d]) /\ RemoveName(dstPath[d]) /\ Goto(d, "reflink")
            \/ Rests /\ Goto(d, "cleanSrc")
<1>1. "prepare" \in Failure /\ {"cleanSrc", "reflink"} \subseteq Pcs
  BY DEF Failure, Pcs
<1>2. CASE /\ CanRemove(dstPath[d]) /\ RemoveName(dstPath[d]) /\ Goto(d, "reflink")
           /\ UNCHANGED <<local, supported, faults>>
  BY <1>1, <1>2, RemoveShape DEF local
<1>3. CASE Fail(d, "prepare", "cleanSrc") /\ UNCHANGED faults
  BY <1>1, <1>3, FailureShape DEF Fail
<1> QED
  BY <1>2, <1>3 DEF RemoveDst

LEMMA ReflinkShape ==
  ASSUME TypeOK, NEW d \in Daemon, Reflink(d)
  PROVE  /\ TypeOK' /\ Shape(d) /\ srcPath' = srcPath /\ dstPath' = dstPath
         /\ Goto(d, "cleanSrc")
         /\ Rests \/ \E i \in NewInode : Puts(d, dstPath[d], i)
<1>1. {"unsupported", "failed probe"} \subseteq Failure /\ "cleanSrc" \in Pcs
  BY DEF Failure, Pcs
<1>2. CASE /\ Openable(srcPath[d]) /\ CreateErrno(dstPath[d]) = "ok" /\ Copy(d)
           /\ Goto(d, "cleanSrc")
           /\ UNCHANGED <<root, srcPath, dstPath, err, supported, faults>>
  <2> DEFINE c == inode[entry[Follow(srcPath[d])]].content
             p == dstPath[d]
  <2>1. c \in Content \cup {Empty} /\ Put(d, p, c) /\ CreateErrno(p) = "ok"
    BY <1>2, SourceContent DEF Copy
  <2> HIDE DEF c
  <2>2. PICK i \in NewInode : Puts(d, p, i)
    BY <2>1, PutFacts
  <2>3. /\ FSTypeOK' /\ made' \in [Daemon -> SUBSET NewInode]
    BY <2>2, PutsType
  <2>4. /\ pc' \in [Daemon -> Pcs] /\ \A o \in Daemon \ {d} : pc'[o] = pc[o]
    BY <1>1, <1>2, GotoType
  <2>5. TypeOK'
    BY <1>2, <2>3, <2>4, TypeParts DEF TypeOK, Pcs
  <2>6. Shape(d)
    BY <1>2, <2>2, <2>4 DEF Shape, Same
  <2> QED
    BY <1>2, <2>2, <2>5, <2>6
<1>3. CASE /\ Fail(d, "unsupported", "cleanSrc") \/ Fail(d, "failed probe", "cleanSrc")
           /\ UNCHANGED faults \/ Fails("reflink")
  <2>1. UNCHANGED faults \/ \E what \in Faults : Fails(what)
    BY <1>3 DEF Fails
  <2>2. PICK e \in Failure : Fail(d, e, "cleanSrc")
    BY <1>1, <1>3
  <2>3. TypeOK' /\ Shape(d) /\ Rests
    BY <1>1, <2>1, <2>2, FailureShape
  <2> QED
    BY <2>2, <2>3 DEF Fail
<1> QED
  BY <1>2, <1>3 DEF Reflink

\* The deferred function: what can be removed is removed, at both names.
LEMMA CleanShape ==
  ASSUME TypeOK, NEW d \in Daemon, NEW to \in Pcs, Goto(d, to),
         NEW p \in {srcPath[d], dstPath[d]}, RemoveIfThere(p),
         UNCHANGED <<local, supported, faults>>
  PROVE  /\ TypeOK' /\ Shape(d) /\ srcPath' = srcPath /\ dstPath' = dstPath /\ made' = made
         /\ (CanRemove(p) /\ RemoveName(p)) \/ (~CanRemove(p) /\ Rests)
<1>1. CASE CanRemove(p)
  <2>1. RemoveName(p)
    BY <1>1 DEF RemoveIfThere
  <2>2. TypeOK' /\ Shape(d)
    BY <1>1, <2>1, RemoveShape
  <2> QED
    BY <1>1, <2>1, <2>2 DEF local
<1>2. CASE ~CanRemove(p)
  BY <1>2, QuietShape DEF RemoveIfThere, local
<1> QED
  BY <1>1, <1>2

LEMMA CleanSrcShape ==
  ASSUME TypeOK, NEW d \in Daemon, CleanSrc(d)
  PROVE  /\ TypeOK' /\ Shape(d) /\ srcPath' = srcPath /\ dstPath' = dstPath /\ made' = made
         /\ \/ CanRemove(srcPath[d]) /\ RemoveName(srcPath[d])
            \/ ~CanRemove(srcPath[d]) /\ Rests
<1>1. "cleanDst" \in Pcs
  BY DEF Pcs
<1> QED
  BY <1>1, CleanShape DEF CleanSrc

LEMMA CleanDstShape ==
  ASSUME TypeOK, NEW d \in Daemon, CleanDst(d)
  PROVE  /\ TypeOK' /\ Shape(d) /\ srcPath' = srcPath /\ dstPath' = dstPath /\ made' = made
         /\ \/ CanRemove(dstPath[d]) /\ RemoveName(dstPath[d])
            \/ (dstPath[d] = << >> \/ ~CanRemove(dstPath[d])) /\ Rests
<1>1. "done" \in Pcs
  BY DEF Pcs
<1>2. CASE dstPath[d] # << >>
  BY <1>1, <1>2, CleanShape DEF CleanDst
<1>3. CASE dstPath[d] = << >>
  BY <1>1, <1>3, QuietShape DEF CleanDst, local
<1> QED
  BY <1>2, <1>3

LEMMA DieShape ==
  ASSUME TypeOK, NEW d \in Daemon, Die(d)
  PROVE  TypeOK' /\ Shape(d) /\ Rests /\ Goto(d, "dead") /\ UNCHANGED local
<1>1. "dead" \in Pcs
  BY DEF Pcs
<1> QED
  BY <1>1, QuietShape DEF Die

LEMMA StepShape ==
  ASSUME TypeOK, NEW d \in Daemon, ProbeStep(d) \/ Die(d)
  PROVE  TypeOK' /\ Shape(d)
BY StartShape, StatShape, CreateSrcShape, WriteSrcShape, CreateDstShape, CloseDstShape,
   RemoveDstShape, ReflinkShape, CleanSrcShape, CleanDstShape, DieShape DEF ProbeStep

\* The guests leave the daemons' locals alone.
LEMMA GuestsType ==
  ASSUME TypeOK, Guests
  PROVE  TypeOK' /\ guestOps' # guestOps
<1>1. FSTypeOK' /\ guestOps' # guestOps
  BY TypeParts, GuestType DEF Guests
<1>2. UNCHANGED <<pc, local, supported, faults>>
  BY DEF Guests
<1> QED
  BY <1>1, <1>2, TypeParts DEF TypeOK, Pcs, local

LEMMA StutterType ==
  ASSUME TypeOK, UNCHANGED vars
  PROVE  TypeOK'
<1>1. FSTypeOK'
  BY TypeParts DEF FSTypeOK, vars, fsvars
<1> QED
  BY <1>1 DEF TypeOK, vars, local

LEMMA InitType == Init => TypeOK
<1> SUFFICES ASSUME Init PROVE TypeOK
  OBVIOUS
<1>1. FSTypeOK
  BY InitAssumption DEF Init, FSInit, FSTypeOK
<1>2. 0 \in 0 .. MaxFaults
  <2>1. MaxFaults \in Nat
    BY ProbeAssumption
  <2> QED
    BY <2>1
<1>3. << >> \in Seq(Name)
  OBVIOUS
<1> QED
  BY <1>1, <1>2, <1>3 DEF Init, TypeOK

\* The locals of ValidateShareRoot, the share and what a probe has created always have
\* their types: a share root, however it is spelled, is a sequence of names once it is
\* normalized, and what the destination is filled with is a content of the share.
THEOREM TypeCorrect == Spec => []TypeOK
<1>1. Init => TypeOK
  BY InitType
<1>2. TypeOK /\ [Next]_vars => TypeOK'
  BY StepShape, GuestsType, StutterType DEF Next, Finished
<1> QED
  BY <1>1, <1>2, PTL DEF Spec
-----------------------------------------------------------------------------
(* The share stays a tree, as long as no guest renames.                     *)

LEMMA PutsGrow ==
  ASSUME TypeOK, NEW d \in Daemon, NEW p, NEW i, Puts(d, p, i)
  PROVE  KindsKept /\ Grows(p, i)
<1>1. KindsKept
  BY DEF Puts, KindsKept
<1>2. p \in Path /\ i \in Inode /\ inode'[i].kind # "free" /\ entry' = [entry EXCEPT ![p] = i]
  BY ProbeAssumption DEF Puts
<1>3. WalkErrno(p) = "ok" /\ KindAt(p) = "none"
  BY ErrnoFacts DEF Puts
<1>4. entry[p] = NoInode
  <2>1. p # << >>
    BY <1>2, PathAssumption
  <2>2. entry[p] \in Inode => inode[entry[p]].kind # "none"
    BY TypeParts DEF FSTypeOK, Node, Kind
  <2> QED
    BY <1>2, <1>3, <2>1, <2>2, TypeParts DEF FSTypeOK, KindAt
<1> QED
  BY <1>1, <1>2, <1>3, <1>4, ErrnoFacts DEF Grows

LEMMA ShapeTree ==
  ASSUME TypeOK, NEW d \in Daemon, Shape(d)
  PROVE  TreeStep
<1>1. CASE Rests
  BY <1>1 DEF Rests, TreeStep, KindsKept
<1>2. CASE \E p \in {srcPath'[d], dstPath'[d]} : \E i \in NewInode : Puts(d, p, i)
  BY <1>2, PutsGrow DEF TreeStep
<1>3. CASE \E p : Removes(d, p)
  <2>1. PICK p : Removes(d, p)
    BY <1>3
  <2>2. KindsKept /\ Shrinks(p)
    BY <2>1 DEF Removes, RemoveName, CanRemove, Shrinks, KindsKept
  <2> QED
    BY <2>2 DEF TreeStep
<1> QED
  BY <1>1, <1>2, <1>3 DEF Shape

LEMMA InitTree == Init => Tree
<1> SUFFICES ASSUME Init, NEW p \in Path, entry[p] # NoInode
             PROVE  /\ inode[entry[p]].kind # "free"
                    /\ \A n \in 1 .. Len(p) - 1 : KindAt(Prefix(p, n)) = "dir"
  BY DEF Tree
<1>1. entry = InitEntry /\ inode = InitInode
  BY DEF Init, FSInit
<1> QED
  BY <1>1, InitAssumption DEF KindAt

LEMMA NextTree ==
  ASSUME "rename" \notin GuestOps, TypeOK, Tree, [Next]_vars
  PROVE  Tree'
<1>1. CASE \E d \in Daemon : ProbeStep(d) \/ Die(d)
  BY <1>1, StepShape, ShapeTree, TreeKept, TypeParts
<1>2. CASE Guests
  BY <1>2, GuestShape, TreeKept, TypeParts DEF Guests
<1>3. CASE UNCHANGED vars
  <2>1. TreeStep
    BY <1>3 DEF TreeStep, KindsKept, vars, fsvars
  <2> QED
    BY <2>1, TreeKept, TypeParts
<1> QED
  BY <1>1, <1>2, <1>3 DEF Next, Finished
-----------------------------------------------------------------------------
(* What a probe has made is at the names it remembers, until it is removed.  *)

WithSrc == {"write", "createDst", "closeDst", "removeDst", "reflink", "cleanSrc", "dead"}
WithDst == {"closeDst", "removeDst", "reflink", "cleanSrc", "cleanDst", "dead"}

MadeFiles == \A d \in Daemon : \A i \in made[d] : inode[i].kind = "file"

Own(d) ==
  \A p \in Path : entry[p] \in made[d] =>
    \/ p = srcPath[d] /\ pc[d] \in WithSrc
    \/ p = dstPath[d] /\ pc[d] \in WithDst
    \/ pc[d] = "dead"

LEMMA StepMadeFiles ==
  ASSUME TypeOK, MadeFiles, NEW d \in Daemon, Shape(d)
  PROVE  MadeFiles'
<1> SUFFICES ASSUME NEW e \in Daemon, NEW i \in made'[e] PROVE inode'[i].kind = "file"
  BY DEF MadeFiles
<1>1. \A o \in Daemon : made[o] \subseteq Inode
  BY TypeParts, ProbeAssumption
<1>2. CASE Rests
  BY <1>1, <1>2 DEF Rests, MadeFiles
<1>3. ASSUME NEW p, NEW j, Puts(d, p, j) PROVE inode'[i].kind = "file"
  <2>1. made'[e] \subseteq made[e] \cup {j}
    BY <1>3, PutsType
  <2> QED
    BY <1>1, <1>3, <2>1 DEF Puts, MadeFiles
<1>4. CASE \E p : Removes(d, p)
  BY <1>4 DEF Removes, RemoveName, MadeFiles
<1> QED
  BY <1>2, <1>3, <1>4 DEF Shape

LEMMA GuestMadeFiles ==
  ASSUME TypeOK, MadeFiles, GuestKeeps, made' = made
  PROVE  MadeFiles'
<1>1. \A d \in Daemon : made[d] \subseteq Inode \ GuestInode
  BY TypeParts, ProbeAssumption
<1> QED
  BY <1>1 DEF MadeFiles, GuestKeeps

\* The files of a probe are told apart from everybody else's.
LEMMA OthersOwn ==
  ASSUME TypeOK, MadeFiles, NEW d \in Daemon, Shape(d), NEW e \in Daemon \ {d}, Own(e)
  PROVE  Own(e)'
<1> SUFFICES ASSUME NEW p \in Path, entry'[p] \in made'[e] PROVE entry[p] \in made[e]
  BY DEF Own, Shape, Same
<1>1. entry \in [Path -> Inode \cup {NoInode}] /\ made[e] \subseteq Inode
  BY TypeParts, ProbeAssumption DEF FSTypeOK
<1>2. CASE Rests
  BY <1>2 DEF Rests
<1>3. ASSUME NEW q, NEW i, Puts(d, q, i) PROVE entry[p] \in made[e]
  <2>1. made'[e] = made[e] /\ i \notin made[e]
    BY <1>3, PutsType DEF Puts, MadeFiles
  <2> QED
    BY <1>1, <1>3, <2>1 DEF Puts
<1>4. ASSUME NEW q, Removes(d, q) PROVE entry[p] \in made[e]
  BY <1>1, <1>4, InodeAssumption DEF Removes, RemoveName
<1> QED
  BY <1>2, <1>3, <1>4 DEF Shape

\* A file of a probe's own can always be removed: it has nothing below it.
LEMMA OwnRemovable ==
  ASSUME TypeOK, Tree, MadeFiles, NEW d \in Daemon, NEW p \in Path, entry[p] \in made[d]
  PROVE  CanRemove(p) /\ WalkErrno(p) = "ok" /\ KindAt(p) = "file" /\ p # << >>
<1>1. p \in Seq(Name) /\ p # << >>
  BY PathAssumption
<1>2. entry[p] \in Inode /\ entry[p] # NoInode /\ inode[entry[p]].kind = "file"
  BY TypeParts, ProbeAssumption, InodeAssumption DEF MadeFiles
<1>3. KindAt(p) = "file"
  BY <1>1, <1>2 DEF KindAt
<1>4. WalkErrno(p) = "ok"
  BY <1>2, ErrnoFacts DEF Tree
<1>5. LstatErrno(p) = "ok"
  BY <1>3, <1>4, ErrnoFacts
<1>6. ASSUME NEW q \in Path, Dir(q) = p, entry[q] # NoInode PROVE FALSE
  <2>1. q \in Seq(Name) /\ q # << >>
    BY PathAssumption
  <2>2. Len(q) \in Nat \ {0} /\ Len(p) = Len(q) - 1 /\ Len(p) \in Nat \ {0}
    BY <1>1, <1>6, <2>1, PrefixOfDir
  <2>3. Len(q) - 1 \in 1 .. Len(q) - 1
    BY <2>2
  <2>4. KindAt(Prefix(q, Len(q) - 1)) = "dir"
    BY <1>6, <2>3 DEF Tree
  <2> QED
    BY <1>3, <1>6, <2>4 DEF Dir
<1> QED
  BY <1>1, <1>3, <1>4, <1>5, <1>6 DEF CanRemove, Children

\* A step that leaves the share alone moves from a point where the names are
\* remembered to another such point.
LEMMA RestOwn ==
  ASSUME TypeOK, NEW d \in Daemon, Own(d), Rests, NEW to \in Pcs, Goto(d, to),
         srcPath' = srcPath, dstPath' = dstPath,
         pc[d] \in WithSrc => to \in WithSrc, pc[d] \in WithDst => to \in WithDst,
         pc[d] # "dead"
  PROVE  Own(d)'
<1>1. pc'[d] = to
  BY GotoType
<1> QED
  BY <1>1 DEF Own, Rests

LEMMA NothingYet ==
  ASSUME NEW d \in Daemon, Own(d), pc[d] \in {"idle", "stat", "createSrc", "done"},
         NEW p \in Path
  PROVE  entry[p] \notin made[d]
BY DEF Own, WithSrc, WithDst

LEMMA StepOwn ==
  ASSUME TypeOK, Tree, MadeFiles, NEW d \in Daemon, Own(d), ProbeStep(d) \/ Die(d)
  PROVE  Own(d)'
<1>1. entry \in [Path -> Inode \cup {NoInode}] /\ made[d] \subseteq Inode /\ NoInode \notin Inode
  BY TypeParts, ProbeAssumption, InodeAssumption DEF FSTypeOK
<1>2. CASE Start(d) \/ Stat(d)
  <2>1. Rests /\ pc[d] \in {"idle", "stat"}
    BY <1>2, StartShape, StatShape DEF Start, Stat
  <2> QED
    BY <2>1, NothingYet DEF Rests, Own
<1>3. CASE CreateSrc(d)
  <2>1. \A p \in Path : entry[p] \notin made[d]
    BY <1>3, NothingYet DEF CreateSrc
  <2>2. CASE Rests
    BY <2>1, <2>2 DEF Rests, Own
  <2>3. CASE (\E i \in NewInode : Puts(d, srcPath'[d], i)) /\ Goto(d, "write")
    <3>1. PICK i \in NewInode : Puts(d, srcPath'[d], i)
      BY <2>3
    <3>2. made'[d] = made[d] \cup {i} /\ i \notin made[d] /\ \A p \in Path : entry[p] # i
      <4>1. made'[d] = made[d] \cup {i} /\ i \notin made[d] /\ inode[i].kind = "free"
        BY <3>1, PutsType DEF Puts, MadeFiles
      <4>2. i # NoInode
        BY ProbeAssumption, InodeAssumption
      <4> QED
        BY <4>1, <4>2 DEF Tree
    <3>3. pc'[d] = "write"
      BY <2>3, GotoType DEF Pcs
    <3> QED
      BY <1>1, <2>1, <3>1, <3>2, <3>3 DEF Puts, Own, WithSrc
  <2> QED
    BY <1>3, <2>2, <2>3, CreateSrcShape
<1>4. CASE WriteSrc(d)
  <2>1. pc[d] = "write"
    BY <1>4 DEF WriteSrc
  <2>2. "createDst" \in Pcs /\ "cleanSrc" \in Pcs
    BY DEF Pcs
  <2>3. pc[d] \in WithSrc => "createDst" \in WithSrc /\ "cleanSrc" \in WithSrc
    BY DEF WithSrc
  <2>4. pc[d] \notin WithDst /\ pc[d] # "dead"
    BY <2>1 DEF WithDst
  <2> QED
    BY <1>4, <2>2, <2>3, <2>4, WriteSrcShape, RestOwn
<1>5. CASE CreateDst(d)
  <2>1. \A p \in Path : entry[p] \in made[d] => p = srcPath[d]
    BY <1>5 DEF CreateDst, Own, WithSrc, WithDst
  <2>2. CASE Rests /\ Goto(d, "cleanSrc") /\ srcPath' = srcPath
    <3>1. pc'[d] = "cleanSrc"
      BY <2>2, GotoType DEF Pcs
    <3> QED
      BY <2>1, <2>2, <3>1 DEF Rests, Own, WithSrc
  <2>3. CASE (\E i \in NewInode : Puts(d, dstPath'[d], i)) /\ Goto(d, "closeDst")
             /\ srcPath' = srcPath
    <3>1. PICK i \in NewInode : Puts(d, dstPath'[d], i)
      BY <2>3
    <3>2. made'[d] = made[d] \cup {i} /\ i \notin made[d] /\ \A p \in Path : entry[p] # i
      <4>1. made'[d] = made[d] \cup {i} /\ i \notin made[d] /\ inode[i].kind = "free"
        BY <3>1, PutsType DEF Puts, MadeFiles
      <4>2. i # NoInode
        BY ProbeAssumption, InodeAssumption
      <4> QED
        BY <4>1, <4>2 DEF Tree
    <3>3. pc'[d] = "closeDst"
      BY <2>3, GotoType DEF Pcs
    <3> QED
      BY <1>1, <2>1, <2>3, <3>1, <3>2, <3>3 DEF Puts, Own, WithSrc, WithDst
  <2> QED
    BY <1>5, <2>2, <2>3, CreateDstShape
<1>6. CASE CloseDst(d)
  <2>1. pc[d] # "dead"
    BY <1>6 DEF CloseDst
  <2>2. "removeDst" \in Pcs /\ "cleanSrc" \in Pcs
    BY DEF Pcs
  <2>3. {"removeDst", "cleanSrc"} \subseteq WithSrc /\ {"removeDst", "cleanSrc"} \subseteq WithDst
    BY DEF WithSrc, WithDst
  <2> QED
    BY <1>6, <2>1, <2>2, <2>3, CloseDstShape, RestOwn
<1>7. CASE RemoveDst(d)
  <2>1. \A p \in Path : entry[p] \in made[d] => p = srcPath[d] \/ p = dstPath[d]
    BY <1>7 DEF RemoveDst, Own
  <2>2. pc'[d] \in {"reflink", "cleanSrc"}
    BY <1>7, RemoveDstShape, GotoType DEF Pcs
  <2>3. \A p \in Path : entry'[p] \in {entry[p], NoInode}
    BY <1>1, <1>7, RemoveDstShape DEF RemoveName, Rests
  <2>4. srcPath' = srcPath /\ dstPath' = dstPath /\ made' = made
    BY <1>7, RemoveDstShape
  <2> QED
    BY <1>1, <2>1, <2>2, <2>3, <2>4 DEF Own, WithSrc, WithDst
<1>8. CASE Reflink(d)
  <2>1. \A p \in Path : entry[p] \in made[d] => p = srcPath[d] \/ p = dstPath[d]
    BY <1>8 DEF Reflink, Own
  <2>2. pc'[d] = "cleanSrc" /\ srcPath' = srcPath /\ dstPath' = dstPath
    BY <1>8, ReflinkShape, GotoType DEF Pcs
  <2>3. \A p \in Path : entry'[p] \in made'[d] => p = srcPath[d] \/ p = dstPath[d]
    <3>1. CASE Rests
      BY <2>1, <3>1 DEF Rests
    <3>2. ASSUME NEW i \in NewInode, Puts(d, dstPath[d], i)
          PROVE  \A p \in Path : entry'[p] \in made'[d] => p = srcPath[d] \/ p = dstPath[d]
      <4>1. made'[d] = made[d] \cup {i} /\ inode[i].kind = "free" /\ i # NoInode
        BY <3>2, PutsType, ProbeAssumption, InodeAssumption DEF Puts
      <4>2. \A p \in Path : entry[p] # i
        BY <4>1 DEF Tree
      <4> QED
        BY <1>1, <2>1, <3>2, <4>1, <4>2 DEF Puts
    <3> QED
      BY <1>8, <3>1, <3>2, ReflinkShape
  <2> QED
    BY <2>2, <2>3 DEF Own, WithSrc, WithDst
<1>9. CASE CleanSrc(d)
  <2>1. \A p \in Path : entry[p] \in made[d] => p = srcPath[d] \/ p = dstPath[d]
    BY <1>9 DEF CleanSrc, Own
  <2>2. pc'[d] = "cleanDst" /\ srcPath' = srcPath /\ dstPath' = dstPath /\ made' = made
    BY <1>9, CleanSrcShape, GotoType DEF Pcs, CleanSrc
  <2>3. ASSUME NEW p \in Path, entry'[p] \in made[d] PROVE p = dstPath[d]
    <3>1. CASE CanRemove(srcPath[d]) /\ RemoveName(srcPath[d])
      BY <1>1, <2>1, <2>3, <3>1 DEF RemoveName
    <3>2. CASE ~CanRemove(srcPath[d]) /\ Rests
      BY <2>1, <2>3, <3>2, OwnRemovable DEF Rests
    <3> QED
      BY <1>9, <3>1, <3>2, CleanSrcShape
  <2> QED
    BY <2>2, <2>3 DEF Own, WithDst
<1>10. CASE CleanDst(d)
  <2>1. \A p \in Path : entry[p] \in made[d] => p = dstPath[d]
    BY <1>10 DEF CleanDst, Own, WithSrc
  <2>2. made' = made
    BY <1>10, CleanDstShape
  <2>3. ASSUME NEW p \in Path, entry'[p] \in made[d] PROVE FALSE
    <3>1. CASE CanRemove(dstPath[d]) /\ RemoveName(dstPath[d])
      BY <1>1, <2>1, <2>3, <3>1 DEF RemoveName
    <3>2. CASE (dstPath[d] = << >> \/ ~CanRemove(dstPath[d])) /\ Rests
      BY <2>1, <2>3, <3>2, OwnRemovable DEF Rests
    <3> QED
      BY <1>10, <3>1, <3>2, CleanDstShape
  <2> QED
    BY <2>2, <2>3 DEF Own
<1>11. CASE Die(d)
  <2>1. pc'[d] = "dead"
    BY <1>11, DieShape, GotoType DEF Pcs
  <2> QED
    BY <2>1 DEF Own
<1> QED
  BY <1>2, <1>3, <1>4, <1>5, <1>6, <1>7, <1>8, <1>9, <1>10, <1>11 DEF ProbeStep

LEMMA GuestOwn ==
  ASSUME TypeOK, GuestKeeps, "link" \notin GuestOps, UNCHANGED <<pc, local>>,
         NEW d \in Daemon, Own(d)
  PROVE  Own(d)'
<1> SUFFICES ASSUME NEW p \in Path, entry'[p] \in made[d] PROVE entry[p] \in made[d]
  BY DEF Own, local
<1>1. made[d] \subseteq Inode \ GuestInode /\ NoInode \notin Inode
  BY TypeParts, ProbeAssumption, InodeAssumption
<1> QED
  BY <1>1 DEF GuestKeeps

OwnInv == TypeOK /\ Tree /\ MadeFiles /\ \A d \in Daemon : Own(d)

LEMMA InitOwn == Init => OwnInv
BY InitType, InitTree DEF Init, OwnInv, MadeFiles, Own

LEMMA NextOwn ==
  ASSUME GuestOps \cap {"rename", "link"} = {}, OwnInv, [Next]_vars
  PROVE  OwnInv'
<1>1. TypeOK /\ Tree /\ MadeFiles /\ \A d \in Daemon : Own(d)
  BY DEF OwnInv
<1>2. CASE \E d \in Daemon : ProbeStep(d) \/ Die(d)
  <2>1. PICK d \in Daemon : ProbeStep(d) \/ Die(d)
    BY <1>2
  <2>2. TypeOK' /\ Shape(d)
    BY <1>1, <2>1, StepShape
  <2>3. Tree' /\ MadeFiles'
    BY <1>1, <2>2, ShapeTree, TreeKept, StepMadeFiles, TypeParts
  <2>4. ASSUME NEW e \in Daemon PROVE Own(e)'
    <3>1. CASE e = d
      BY <1>1, <2>1, <3>1, StepOwn
    <3>2. CASE e # d
      BY <1>1, <2>2, <3>2, OthersOwn
    <3> QED
      BY <3>1, <3>2
  <2> QED
    BY <2>2, <2>3, <2>4 DEF OwnInv
<1>3. CASE Guests
  <2>1. FSTypeOK /\ GuestNext /\ UNCHANGED <<pc, local>>
    BY <1>1, <1>3, TypeParts DEF Guests
  <2>2. TreeStep /\ GuestKeeps
    BY <1>1, <2>1, GuestShape
  <2>3. TypeOK' /\ Tree' /\ MadeFiles'
    BY <1>1, <1>3, <2>1, <2>2, GuestsType, TreeKept, GuestMadeFiles DEF local
  <2>4. \A e \in Daemon : Own(e)'
    BY <1>1, <2>1, <2>2, GuestOwn
  <2> QED
    BY <2>3, <2>4 DEF OwnInv
<1>4. CASE UNCHANGED vars
  <2>1. TypeOK' /\ Tree'
    BY <1>1, <1>4, StutterType, NextTree
  <2>2. MadeFiles' /\ \A e \in Daemon : Own(e)'
    BY <1>1, <1>4 DEF vars, fsvars, local, MadeFiles, Own
  <2> QED
    BY <2>1, <2>2 DEF OwnInv
<1> QED
  BY <1>2, <1>3, <1>4 DEF Next, Finished

\* However many daemons probe one share at once, whatever fails on the way and whatever
\* guests create, write or unlink there, a call of ValidateShareRoot that returns has
\* left none of its files behind, whether or not it came to choose a destination.
\* Guests that rename or link are left out: a probe's file can be moved to a name that
\* the deferred function does not know.
THEOREM ProbesCleanUp ==
  ASSUME GuestOps \cap {"rename", "link"} = {}
  PROVE  Spec => []LeavesNothing
<1>1. Init => OwnInv
  BY InitOwn
<1>2. OwnInv /\ [Next]_vars => OwnInv'
  BY NextOwn
<1>3. OwnInv => LeavesNothing
  BY NothingYet DEF OwnInv, LeavesNothing
<1> QED
  BY <1>1, <1>2, <1>3, PTL DEF Spec
-----------------------------------------------------------------------------
(* A probe removes by name, but never what was there before.                *)

\* What the share began with is not at p (any more).
Gone(p) == entry[p] # InitEntry[p] \/ InitEntry[p] = NoInode

Names(d) == {srcPath[d], dstPath[d]} \ {<< >>}

NamesGone == \A d \in Daemon : \A p \in Names(d) : p \in Path /\ Gone(p)

LEMMA InitIsOld ==
  ASSUME NEW p \in Path, InitEntry[p] # NoInode
  PROVE  InitEntry[p] \notin NewInode /\ InitEntry[p] \notin GuestInode
BY InitAssumption, ProbeAssumption

\* What is gone does not come back: whoever makes an entry makes it of an inode of
\* his own.
LEMMA ShapeGone ==
  ASSUME TypeOK, NEW d \in Daemon, Shape(d), NEW p \in Path, Gone(p)
  PROVE  Gone(p)'
<1>1. entry \in [Path -> Inode \cup {NoInode}]
  BY TypeParts DEF FSTypeOK
<1>2. CASE Rests
  BY <1>2 DEF Rests, Gone
<1>3. ASSUME NEW q, NEW i, Puts(d, q, i) PROVE Gone(p)'
  BY <1>1, <1>3, InitIsOld DEF Puts, Gone
<1>4. ASSUME NEW q, Removes(d, q) PROVE Gone(p)'
  BY <1>1, <1>4 DEF Removes, RemoveName, Gone
<1> QED
  BY <1>2, <1>3, <1>4 DEF Shape

LEMMA GuestGone ==
  ASSUME GuestKeeps, "link" \notin GuestOps, NEW p \in Path, Gone(p)
  PROVE  Gone(p)'
BY InitIsOld DEF GuestKeeps, Gone

LEMMA StepNames ==
  ASSUME TypeOK, NamesGone, NEW d \in Daemon, ProbeStep(d) \/ Die(d)
  PROVE  \A p \in (Names(d))' : p \in Path /\ Gone(p)'
<1>1. Shape(d) /\ entry \in [Path -> Inode \cup {NoInode}]
  BY StepShape, TypeParts DEF FSTypeOK
<1>2. \A p \in Names(d) : p \in Path /\ Gone(p)'
  BY <1>1, ShapeGone DEF NamesGone
<1>3. ASSUME NEW p, NEW i, Puts(d, p, i) PROVE p \in Path /\ Gone(p)'
  BY <1>1, <1>3, InitIsOld DEF Puts, Gone
<1>4. CASE CreateSrc(d)
  <2>1. \/ srcPath' = srcPath /\ dstPath' = dstPath
        \/ (\E i \in NewInode : Puts(d, srcPath'[d], i)) /\ dstPath' = dstPath
    BY <1>4, CreateSrcShape
  <2> QED
    BY <1>2, <1>3, <2>1 DEF Names
<1>5. CASE CreateDst(d)
  <2>1. \/ srcPath' = srcPath /\ dstPath' = dstPath
        \/ (\E i \in NewInode : Puts(d, dstPath'[d], i)) /\ srcPath' = srcPath
    BY <1>5, CreateDstShape
  <2> QED
    BY <1>2, <1>3, <2>1 DEF Names
<1>6. CASE ~(CreateSrc(d) \/ CreateDst(d))
  <2>1. srcPath' = srcPath /\ dstPath' = dstPath
    <3>1. CASE Start(d) \/ Stat(d) \/ Die(d)
      BY <3>1 DEF Start, Stat, Die, Fail, local
    <3> QED
      BY <1>6, <3>1, WriteSrcShape, CloseDstShape, RemoveDstShape, ReflinkShape, CleanSrcShape,
         CleanDstShape DEF ProbeStep
  <2> QED
    BY <1>2, <2>1 DEF Names
<1> QED
  BY <1>4, <1>5, <1>6

NamesInv == TypeOK /\ Tree /\ NamesGone

LEMMA NextNames ==
  ASSUME GuestOps \cap {"rename", "link"} = {}, NamesInv, [Next]_vars
  PROVE  NamesInv'
<1>1. TypeOK /\ Tree /\ NamesGone
  BY DEF NamesInv
<1>2. TypeOK' /\ Tree'
  BY <1>1, NextTree, StepShape, GuestsType, StutterType DEF Next, Finished
<1>3. CASE \E d \in Daemon : ProbeStep(d) \/ Die(d)
  <2>1. PICK d \in Daemon : ProbeStep(d) \/ Die(d)
    BY <1>3
  <2>2. Shape(d)
    BY <1>1, <2>1, StepShape
  <2>3. ASSUME NEW e \in Daemon, NEW p \in (Names(e))' PROVE p \in Path /\ Gone(p)'
    <3>1. CASE e = d
      BY <1>1, <2>1, <2>3, <3>1, StepNames
    <3>2. CASE e # d
      <4>1. p \in Names(e)
        BY <2>2, <2>3, <3>2 DEF Shape, Same, Names
      <4> QED
        BY <1>1, <2>2, <4>1, ShapeGone DEF NamesGone
    <3> QED
      BY <3>1, <3>2
  <2> QED
    BY <1>2, <2>3 DEF NamesInv, NamesGone
<1>4. CASE Guests
  <2>1. FSTypeOK /\ GuestNext /\ UNCHANGED <<pc, local>>
    BY <1>1, <1>4, TypeParts DEF Guests
  <2>2. GuestKeeps
    BY <1>1, <2>1, GuestShape
  <2> QED
    BY <1>1, <1>2, <2>1, <2>2, GuestGone DEF NamesInv, NamesGone, Names, local
<1>5. CASE UNCHANGED vars
  BY <1>1, <1>2, <1>5 DEF vars, fsvars, local, NamesInv, NamesGone, Names, Gone
<1> QED
  BY <1>3, <1>4, <1>5 DEF Next, Finished

\* One step: the daemons' steps are the ones that take no guest step.
LEMMA StepKeeps ==
  ASSUME NamesInv, [Next]_vars, guestOps' = guestOps
  PROVE  /\ \A i \in Inode \ NewInode : inode'[i] = inode[i]
         /\ \A p \in Path : entry[p] # NoInode /\ entry[p] = InitEntry[p] => entry'[p] = entry[p]
<1> DEFINE Keeps ==
      /\ \A i \in Inode \ NewInode : inode'[i] = inode[i]
      /\ \A p \in Path : entry[p] # NoInode /\ entry[p] = InitEntry[p] => entry'[p] = entry[p]
<1>1. TypeOK /\ NamesGone /\ entry \in [Path -> Inode \cup {NoInode}]
  BY TypeParts DEF NamesInv, FSTypeOK
<1>2. ASSUME NEW d \in Daemon, ProbeStep(d) \/ Die(d) PROVE Keeps
  <2>1. Shape(d)
    BY <1>1, <1>2, StepShape
  <2>2. CASE Rests
    BY <2>2 DEF Rests
  <2>3. ASSUME NEW p, NEW i, Puts(d, p, i) PROVE Keeps
    <3>1. entry[p] = NoInode
      BY <1>1, <2>3, PutsGrow DEF Grows
    <3> QED
      BY <1>1, <2>3, <3>1 DEF Puts
  <2>4. ASSUME NEW p, Removes(d, p) PROVE Keeps
    <3>1. p \in Names(d) /\ p \in Path
      BY <2>4, PathAssumption DEF Removes, Names
    <3>2. Gone(p)
      BY <1>1, <3>1 DEF NamesGone
    <3> QED
      BY <1>1, <2>4, <3>2 DEF Removes, RemoveName, Gone
  <2> QED
    BY <2>1, <2>2, <2>3, <2>4 DEF Shape
<1>3. ~Guests
  BY <1>1, GuestsType
<1>4. CASE UNCHANGED vars
  BY <1>4 DEF vars, fsvars
<1> QED
  BY <1>2, <1>3, <1>4 DEF Next, Finished

\* No step of a daemon changes a file that was on the share before the daemons started
\* or takes away its name, the leftovers of a killed probe included, although the
\* deferred function and the os.Remove before Reflink remove whatever is at the name
\* when they run: a name that CreateTemp has found free never again holds what was there
\* at the start, as long as guests do not rename or link.
THEOREM KeepsOldFiles ==
  ASSUME GuestOps \cap {"rename", "link"} = {}
  PROVE  Spec => KeepsWhatWasThere
<1>1. Init => NamesInv
  BY InitType, InitTree DEF Init, NamesInv, NamesGone, Names
<1>2. NamesInv /\ [Next]_vars => NamesInv'
  BY NextNames
<1>3. NamesInv /\ [Next]_vars =>
        [guestOps' = guestOps =>
           /\ \A i \in Inode \ NewInode : inode'[i] = inode[i]
           /\ \A p \in Path : entry[p] # NoInode /\ entry[p] = InitEntry[p] =>
                entry'[p] = entry[p]]_vars
  BY StepKeeps
<1> QED
  BY <1>1, <1>2, <1>3, PTL DEF Spec, KeepsWhatWasThere
-----------------------------------------------------------------------------
(* The verdict: where the temporary names are.                              *)

\* No share root is itself named like a temporary file of a probe.
RootsApart ==
  \A r \in ShareRoot \ {EmptyPath} :
    LET parts == NormalizeRoot(Cwd, r).parts
    IN  parts = << >> \/ Last(parts) \notin SrcName \cup DstName

Temporary(p) == p # << >> /\ Last(p) \in SrcName \cup DstName

NotYetSrc == {"idle", "stat", "createSrc"}
NotYetDst == NotYetSrc \cup {"write", "createDst"}
Unfailed == NotYetDst \cup {"closeDst", "removeDst", "reflink"}

Placed(d) ==
  /\ ~Temporary(root[d])
  /\ srcPath[d] # << >> =>
       \E n \in SrcName : srcPath[d] = Append(root[d], n) /\ srcPath[d] \in Path
  /\ dstPath[d] # << >> =>
       \E n \in DstName : dstPath[d] = Append(root[d], n) /\ dstPath[d] \in Path
  /\ pc[d] \in NotYetSrc => srcPath[d] = << >>
  /\ pc[d] \in NotYetDst => dstPath[d] = << >>
  /\ pc[d] \in Unfailed => err[d] = "nil"

LEMMA PlacedNames ==
  ASSUME TypeOK, NEW d \in Daemon, Placed(d), NEW p \in Names(d)
  PROVE  Temporary(p) /\ p \in Path /\ p # << >>
<1>1. PICK n \in SrcName \cup DstName : p = Append(root[d], n) /\ p \in Path
  BY DEF Placed, Names
<1>2. n \in Name /\ root[d] \in Seq(Name)
  BY ProbeAssumption, TypeParts
<1> QED
  BY <1>1, <1>2, OneNameMore DEF Temporary

\* Which counter each step moves to.
LEMMA StepMoves ==
  ASSUME TypeOK, NEW d \in Daemon, ProbeStep(d) \/ Die(d)
  PROVE  \E to \in Pcs \ {"idle"} : Goto(d, to)
<1>1. Pcs = {"idle", "stat", "createSrc", "write", "createDst", "closeDst", "removeDst", "reflink",
             "cleanSrc", "cleanDst", "done", "dead"}
  BY DEF Pcs
<1>2. CASE Start(d) \/ Stat(d) \/ CreateSrc(d) \/ Die(d)
  BY <1>1, <1>2 DEF Start, Stat, CreateSrc, Die, Fail
<1>3. CASE WriteSrc(d) \/ CreateDst(d) \/ CloseDst(d) \/ RemoveDst(d)
  BY <1>1, <1>3 DEF WriteSrc, CreateDst, CloseDst, RemoveDst, Fail
<1>4. CASE Reflink(d) \/ CleanSrc(d) \/ CleanDst(d)
  BY <1>1, <1>4 DEF Reflink, CleanSrc, CleanDst, Fail
<1> QED
  BY <1>2, <1>3, <1>4 DEF ProbeStep

LEMMA StepPlaced ==
  ASSUME RootsApart, TypeOK, NEW d \in Daemon, Placed(d), ProbeStep(d) \/ Die(d)
  PROVE  Placed(d)'
<1>1. /\ pc \in [Daemon -> Pcs] /\ root \in [Daemon -> Seq(Name)]
      /\ err \in [Daemon -> Failure \cup {"nil"}]
  BY TypeParts
<1>2. /\ "stat" \in NotYetSrc /\ "createSrc" \in NotYetSrc /\ NotYetSrc \subseteq NotYetDst
      /\ NotYetDst \subseteq Unfailed
      /\ {"write", "createDst"} \cap NotYetSrc = {} /\ {"write", "createDst"} \subseteq NotYetDst
      /\ {"closeDst", "removeDst", "reflink"} \cap NotYetDst = {}
      /\ {"closeDst", "removeDst", "reflink"} \subseteq Unfailed
      /\ {"cleanSrc", "cleanDst", "done", "dead"} \cap Unfailed = {} /\ "idle" \in NotYetSrc
  BY DEF NotYetSrc, NotYetDst, Unfailed
<1>3. {"stat", "createSrc", "write", "createDst", "closeDst", "removeDst", "reflink",
       "cleanSrc", "cleanDst", "done", "dead"} \subseteq Pcs
  BY DEF Pcs
<1>4. CASE Start(d)
  <2>1. PICK r \in ShareRoot :
          \/ Fail(d, "no root", "done")
          \/ /\ r # EmptyPath /\ Goto(d, "stat")
             /\ root' = [root EXCEPT ![d] = NormalizeRoot(Cwd, r).parts]
             /\ UNCHANGED <<srcPath, dstPath, err>>
    BY <1>4 DEF Start
  <2>2. CASE Fail(d, "no root", "done")
    <3>1. pc'[d] = "done" /\ root' = root /\ srcPath' = srcPath /\ dstPath' = dstPath
      BY <1>3, <2>2, GotoType DEF Fail
    <3> QED
      BY <1>2, <3>1 DEF Placed, Temporary
  <2>3. CASE /\ r # EmptyPath /\ Goto(d, "stat")
             /\ root' = [root EXCEPT ![d] = NormalizeRoot(Cwd, r).parts]
             /\ UNCHANGED <<srcPath, dstPath, err>>
    <3>1. pc'[d] = "stat" /\ root'[d] = NormalizeRoot(Cwd, r).parts
      BY <1>1, <1>3, <2>3, GotoType
    <3>2. ~Temporary(root'[d])
      BY <2>3, <3>1 DEF RootsApart, Temporary
    <3>3. srcPath[d] = << >> /\ dstPath[d] = << >> /\ err[d] = "nil"
      BY <1>2, <1>4 DEF Placed, Start
    <3> QED
      BY <1>2, <2>3, <3>1, <3>2, <3>3 DEF Placed, Temporary
  <2> QED
    BY <2>1, <2>2, <2>3
<1>5. ASSUME NEW to \in Pcs, Goto(d, to), to \notin Unfailed, UNCHANGED <<root, srcPath, dstPath>>
      PROVE  Placed(d)'
  <2>1. pc'[d] = to
    BY <1>5, GotoType
  <2> QED
    BY <1>2, <1>5, <2>1 DEF Placed, Temporary
<1>6. ASSUME NEW to \in Pcs, Goto(d, to), UNCHANGED <<root, srcPath, dstPath, err>>,
             to \in NotYetSrc => pc[d] \in NotYetSrc, to \in NotYetDst => pc[d] \in NotYetDst,
             pc[d] \in Unfailed
      PROVE  Placed(d)'
  <2>1. pc'[d] = to
    BY <1>6, GotoType
  <2> QED
    BY <1>2, <1>6, <2>1 DEF Placed, Temporary
<1>7. ASSUME NEW e, NEW to \in Pcs, Fail(d, e, to), to \notin Unfailed PROVE Placed(d)'
  BY <1>5, <1>7 DEF Fail
<1>8. CASE Stat(d)
  <2>1. CASE Goto(d, "createSrc") /\ UNCHANGED local
    BY <1>2, <1>3, <1>6, <1>8, <2>1 DEF Stat, local
  <2> QED
    BY <1>2, <1>3, <1>7, <1>8, <2>1 DEF Stat
<1>9. CASE CreateSrc(d)
  <2>1. CASE /\ \E n \in SrcName : srcPath'[d] = Append(root[d], n)
             /\ \E i \in NewInode : Puts(d, srcPath'[d], i)
             /\ Goto(d, "write") /\ dstPath' = dstPath /\ root' = root /\ err' = err
    <3>1. pc'[d] = "write" /\ pc[d] = "createSrc" /\ srcPath'[d] \in Path
      BY <1>3, <1>9, <2>1, GotoType DEF CreateSrc, Puts
    <3> QED
      BY <1>2, <2>1, <3>1 DEF Placed, Temporary
  <2>2. CASE Fail(d, "not writable", "done")
    BY <1>2, <1>3, <1>7, <2>2
  <2>3. CASE \E n \in Free(d, SrcName) : Goto(d, "write")
    <3>1. pc'[d] # "done"
      BY <1>3, <2>3, GotoType
    <3>2. ~Goto(d, "done")
      BY <1>3, <3>1, GotoType
    <3> QED
      BY <1>9, <2>1, <3>2, CreateSrcShape
  <2> QED
    BY <1>9, <2>2, <2>3 DEF CreateSrc
<1>10. CASE WriteSrc(d)
  <2>1. CASE Goto(d, "createDst") /\ UNCHANGED local
    BY <1>2, <1>3, <1>6, <1>10, <2>1 DEF WriteSrc, local
  <2> QED
    BY <1>2, <1>3, <1>7, <1>10, <2>1 DEF WriteSrc
<1>11. CASE CreateDst(d)
  <2>1. CASE /\ \E n \in DstName : dstPath'[d] = Append(root[d], n)
             /\ \E i \in NewInode : Puts(d, dstPath'[d], i)
             /\ Goto(d, "closeDst") /\ srcPath' = srcPath /\ root' = root /\ err' = err
    <3>1. pc'[d] = "closeDst" /\ pc[d] = "createDst" /\ dstPath'[d] \in Path
      BY <1>3, <1>11, <2>1, GotoType DEF CreateDst, Puts
    <3> QED
      BY <1>2, <2>1, <3>1 DEF Placed, Temporary
  <2>2. CASE Fail(d, "not writable", "cleanSrc")
    BY <1>2, <1>3, <1>7, <2>2
  <2>3. CASE \E n \in Free(d, DstName) : Goto(d, "closeDst")
    <3>1. pc'[d] # "cleanSrc"
      BY <1>3, <2>3, GotoType
    <3>2. ~Goto(d, "cleanSrc")
      BY <1>3, <3>1, GotoType
    <3> QED
      BY <1>11, <2>1, <3>2, CreateDstShape
  <2> QED
    BY <1>11, <2>2, <2>3 DEF CreateDst
<1>12. CASE CloseDst(d)
  <2>1. CASE Goto(d, "removeDst") /\ UNCHANGED local
    BY <1>2, <1>3, <1>6, <1>12, <2>1 DEF CloseDst, local
  <2> QED
    BY <1>2, <1>3, <1>7, <1>12, <2>1 DEF CloseDst
<1>13. CASE RemoveDst(d)
  <2>1. CASE Goto(d, "reflink") /\ UNCHANGED local
    BY <1>2, <1>3, <1>6, <1>13, <2>1 DEF RemoveDst, local
  <2> QED
    BY <1>2, <1>3, <1>7, <1>13, <2>1 DEF RemoveDst
<1>14. CASE Reflink(d)
  <2>1. Goto(d, "cleanSrc") /\ UNCHANGED <<root, srcPath, dstPath>>
    BY <1>14 DEF Reflink, Fail
  <2> QED
    BY <1>2, <1>3, <1>5, <2>1
<1>15. CASE CleanSrc(d) \/ CleanDst(d) \/ Die(d)
  <2>1. /\ Goto(d, "cleanDst") \/ Goto(d, "done") \/ Goto(d, "dead")
        /\ UNCHANGED <<root, srcPath, dstPath>>
    BY <1>15 DEF CleanSrc, CleanDst, Die, local
  <2> QED
    BY <1>2, <1>3, <1>5, <2>1
<1> QED
  BY <1>4, <1>8, <1>9, <1>10, <1>11, <1>12, <1>13, <1>14, <1>15 DEF ProbeStep

LEMMA SamePlaced ==
  ASSUME NEW d \in Daemon, Placed(d), Same(d)
  PROVE  Placed(d)'
BY DEF Placed, Same, Temporary

-----------------------------------------------------------------------------
(* The verdict: a root that is a directory stays one.                       *)

LEMMA KindSame ==
  ASSUME TypeOK, Tree, KindsKept, NEW r, r \in Path => entry'[r] = entry[r]
  PROVE  KindAt(r)' = KindAt(r)
<1>1. CASE r = << >>
  BY <1>1 DEF KindAt
<1>2. CASE r # << >> /\ r \in Path /\ entry[r] # NoInode
  <2>1. entry[r] \in Inode /\ inode[entry[r]].kind # "free"
    BY <1>2, TypeParts DEF FSTypeOK, Tree
  <2> QED
    BY <1>2, <2>1 DEF KindAt, KindsKept
<1>3. CASE r # << >> /\ ~(r \in Path /\ entry[r] # NoInode)
  BY <1>3 DEF KindAt
<1> QED
  BY <1>1, <1>2, <1>3

\* A daemon's step touches temporary names only.
LEMMA ShapeEntries ==
  ASSUME TypeOK, NEW d \in Daemon, Shape(d), Placed(d), Placed(d)', TypeOK',
         NEW p \in Path, ~Temporary(p)
  PROVE  entry'[p] = entry[p]
<1>1. entry \in [Path -> Inode \cup {NoInode}]
  BY TypeParts DEF FSTypeOK
<1>2. ASSUME NEW q \in Names(d) PROVE Temporary(q)
  BY PlacedNames
<1>3. ASSUME NEW q \in {srcPath'[d], dstPath'[d]}, q # << >> PROVE Temporary(q)
  <2>1. PICK n \in SrcName \cup DstName : q = Append(root'[d], n)
    BY <1>3 DEF Placed
  <2>2. n \in Name /\ root'[d] \in Seq(Name)
    BY ProbeAssumption DEF TypeOK
  <2> QED
    BY <2>1, <2>2, OneNameMore DEF Temporary
<1>4. CASE Rests
  BY <1>4 DEF Rests
<1>5. ASSUME NEW q \in {srcPath'[d], dstPath'[d]}, NEW i, Puts(d, q, i) PROVE entry'[p] = entry[p]
  <2>1. Temporary(q)
    BY <1>3, <1>5, PathAssumption DEF Puts
  <2> QED
    BY <1>1, <1>5, <2>1 DEF Puts
<1>6. ASSUME NEW q, Removes(d, q) PROVE entry'[p] = entry[p]
  <2>1. Temporary(q)
    BY <1>2, <1>6, PathAssumption DEF Removes, Names
  <2> QED
    BY <1>1, <1>6, <2>1 DEF Removes, RemoveName
<1> QED
  BY <1>4, <1>5, <1>6 DEF Shape

LEMMA ShapeKind ==
  ASSUME TypeOK, Tree, NEW d \in Daemon, Shape(d), Placed(d), Placed(d)', TypeOK',
         NEW r, ~Temporary(r)
  PROVE  KindAt(r)' = KindAt(r)
<1>1. KindsKept
  BY ShapeTree DEF TreeStep
<1> QED
  BY <1>1, ShapeEntries, KindSame

\* What a created name tells about the directory it is in, and the reverse.
LEMMA CreateBelow ==
  ASSUME TypeOK, Tree, NEW r \in Seq(Name), NEW n \in Name
  PROVE  CreateErrno(Append(r, n)) = "ok" <=>
           KindAt(r) = "dir" /\ Append(r, n) \in Path /\ entry[Append(r, n)] = NoInode
<1> DEFINE p == Append(r, n)
<1>1. p \in Seq(Name) /\ p # << >> /\ Dir(p) = r /\ Len(p) = Len(r) + 1 /\ Len(r) \in Nat
  BY OneNameMore
<1> HIDE DEF p
<1>2. ASSUME p \in Path PROVE KindAt(p) = "none" <=> entry[p] = NoInode
  <2>1. entry[p] \in Inode => inode[entry[p]].kind # "none"
    BY TypeParts DEF FSTypeOK, Node, Kind
  <2> QED
    BY <1>1, <1>2, <2>1, TypeParts DEF KindAt, FSTypeOK
<1>3. ASSUME WalkErrno(p) = "ok" PROVE KindAt(r) = "dir"
  <2>1. CASE r = << >>
    BY <2>1 DEF KindAt
  <2>2. CASE r # << >>
    <3>1. Len(r) # 0
      BY <2>2, EmptySeq
    <3>2. Len(p) - 1 \in 1 .. Len(p) - 1
      BY <1>1, <3>1
    <3>3. KindAt(Prefix(p, Len(p) - 1)) = "dir"
      BY <1>3, <3>2, ErrnoFacts
    <3> QED
      BY <1>1, <3>3 DEF Dir
  <2> QED
    BY <2>1, <2>2
<1>4. ASSUME KindAt(r) = "dir" PROVE WalkErrno(p) = "ok"
  BY <1>1, <1>4, WalkBelowDir, ErrnoFacts, TypeParts
<1>5. CreateErrno(p) = "ok" <=> KindAt(r) = "dir" /\ p \in Path /\ entry[p] = NoInode
  BY <1>2, <1>3, <1>4, ErrnoFacts
<1> QED
  BY <1>5 DEF p

\* A directory can be opened, and is no link.
LEMMA DirOpens ==
  ASSUME TypeOK, Tree, NEW r \in Seq(Name), KindAt(r) = "dir"
  PROVE  OpenErrno(r) = "ok" /\ Follow(r) = r
<1>1. Follow(r) = r
  BY DEF Follow
<1>2. WalkErrno(r) = "ok"
  <2>1. CASE r = << >>
    BY <2>1, ErrnoFacts
  <2>2. CASE r # << >>
    <3>1. r \in Path /\ entry[r] # NoInode
      BY <2>2, KindAtEntry, TypeParts
    <3> QED
      BY <3>1, ErrnoFacts DEF Tree
  <2> QED
    BY <2>1, <2>2
<1>3. LstatErrno(r) = "ok"
  BY <1>2, ErrnoFacts
<1> QED
  BY <1>1, <1>3 DEF OpenErrno

Working == {"write", "createDst", "closeDst", "removeDst", "reflink"}
Returning == {"cleanSrc", "cleanDst", "done"}

\* A probe that works in its root has found it a directory, and one that returns no
\* error has cloned there.
Passed(d) ==
  /\ pc[d] \in Working => KindAt(root[d]) = "dir"
  /\ pc[d] \in Returning /\ err[d] = "nil" => supported /\ KindAt(root[d]) = "dir"

LEMMA RootKind ==
  ASSUME TypeOK, Tree, NEW d \in Daemon, Shape(d), Placed(d), Placed(d)', TypeOK',
         NEW o \in Daemon, Placed(o), root'[o] = root[o]
  PROVE  KindAt(root[o])' = KindAt(root[o])
<1>1. PICK r : r = root[o]
  OBVIOUS
<1>2. ~Temporary(r)
  BY <1>1 DEF Placed
<1>3. KindAt(r)' = KindAt(r)
  BY <1>2, ShapeKind
<1> QED
  BY <1>1, <1>3 DEF KindAt

\* The root is chosen once.
LEMMA RootFixed ==
  ASSUME TypeOK, NEW d \in Daemon, ProbeStep(d) \/ Die(d)
  PROVE  pc[d] # "idle" => root' = root
BY DEF ProbeStep, Start, Stat, CreateSrc, WriteSrc, CreateDst, CloseDst, RemoveDst, Reflink,
       CleanSrc, CleanDst, Die, Fail, local

LEMMA StepPassed ==
  ASSUME TypeOK, TypeOK', Tree, NEW d \in Daemon, Placed(d), Placed(d)', Passed(d), Shape(d),
         ProbeStep(d) \/ Die(d)
  PROVE  Passed(d)'
<1>1. pc[d] # "idle" => root' = root /\ KindAt(root[d])' = KindAt(root[d])
  BY RootFixed, RootKind
<1>2. supported' = supported /\ root[d] \in Seq(Name)
  BY TypeParts DEF Shape
<1>3. {"stat", "createSrc", "write", "createDst", "closeDst", "removeDst", "reflink",
       "cleanSrc", "cleanDst", "done", "dead"} \subseteq Pcs
  BY DEF Pcs
<1>4. ASSUME NEW e \in Failure, NEW to \in Returning, Fail(d, e, to) PROVE Passed(d)'
  <2>1. to \in Pcs /\ to \notin Working
    BY <1>3 DEF Returning, Working
  <2>2. pc'[d] = to
    BY <1>4, <2>1, GotoType DEF Fail
  <2>3. err'[d] = e /\ e # "nil"
    BY <1>4, TypeParts DEF Fail, Failure
  <2> QED
    BY <2>1, <2>2, <2>3 DEF Passed
<1>5. ASSUME NEW to \in Pcs, Goto(d, to), to \notin Working \cup Returning PROVE Passed(d)'
  <2>1. pc'[d] = to
    BY <1>5, GotoType
  <2> QED
    BY <1>5, <2>1 DEF Passed
<1>6. ASSUME NEW to \in Working, Goto(d, to), KindAt(root[d]) = "dir", pc[d] # "idle"
      PROVE  Passed(d)'
  <2>1. to \in Pcs /\ to \notin Returning
    BY <1>3 DEF Returning, Working
  <2>2. pc'[d] = to
    BY <1>6, <2>1, GotoType
  <2> QED
    BY <1>1, <1>6, <2>1, <2>2 DEF Passed
<1>7. /\ {"cleanSrc", "cleanDst", "done"} \subseteq Returning
      /\ {"no root", "stat", "not a directory", "not writable", "prepare", "unsupported",
          "failed probe"} \subseteq Failure
      /\ {"stat", "createSrc", "dead"} \cap (Working \cup Returning) = {}
      /\ {"write", "createDst", "closeDst", "removeDst", "reflink"} \subseteq Working
  BY DEF Returning, Failure, Working
<1>8. CASE Start(d)
  BY <1>3, <1>4, <1>5, <1>7, <1>8 DEF Start
<1>9. CASE Stat(d)
  BY <1>3, <1>4, <1>5, <1>7, <1>9 DEF Stat
<1>10. CASE CreateSrc(d)
  <2>1. CASE \E n \in Free(d, SrcName) : Goto(d, "write")
    <3>1. PICK n \in Free(d, SrcName) : Goto(d, "write")
      BY <2>1
    <3>2. n \in Name /\ CreateErrno(Append(root[d], n)) = "ok"
      BY ProbeAssumption, FreeFacts
    <3>3. KindAt(root[d]) = "dir" /\ pc[d] # "idle"
      BY <1>2, <1>10, <3>2, CreateBelow DEF CreateSrc
    <3> QED
      BY <1>6, <1>7, <3>1, <3>3
  <2> QED
    BY <1>4, <1>7, <1>10, <2>1 DEF CreateSrc
<1>11. CASE WriteSrc(d)
  <2>1. KindAt(root[d]) = "dir" /\ pc[d] # "idle"
    BY <1>7, <1>11 DEF WriteSrc, Passed
  <2> QED
    BY <1>4, <1>6, <1>7, <1>11, <2>1 DEF WriteSrc
<1>12. CASE CreateDst(d)
  <2>1. KindAt(root[d]) = "dir" /\ pc[d] # "idle"
    BY <1>7, <1>12 DEF CreateDst, Passed
  <2> QED
    BY <1>4, <1>6, <1>7, <1>12, <2>1 DEF CreateDst
<1>13. CASE CloseDst(d)
  <2>1. KindAt(root[d]) = "dir" /\ pc[d] # "idle"
    BY <1>7, <1>13 DEF CloseDst, Passed
  <2> QED
    BY <1>4, <1>6, <1>7, <1>13, <2>1 DEF CloseDst
<1>14. CASE RemoveDst(d)
  <2>1. KindAt(root[d]) = "dir" /\ pc[d] # "idle"
    BY <1>7, <1>14 DEF RemoveDst, Passed
  <2> QED
    BY <1>4, <1>6, <1>7, <1>14, <2>1 DEF RemoveDst
<1>15. CASE Reflink(d)
  <2>1. KindAt(root[d]) = "dir" /\ pc[d] # "idle"
    BY <1>7, <1>15 DEF Reflink, Passed
  <2>2. CASE supported
    <3>1. pc'[d] = "cleanSrc"
      BY <1>3, <1>15, ReflinkShape, GotoType
    <3>2. pc'[d] \notin Working
      BY <3>1 DEF Working
    <3> QED
      BY <1>1, <1>2, <2>1, <2>2, <3>2 DEF Passed
  <2>3. CASE ~supported
    BY <1>4, <1>7, <1>15, <2>3 DEF Reflink
  <2> QED
    BY <2>2, <2>3
<1>16. CASE CleanSrc(d) \/ CleanDst(d)
  <2>1. pc[d] \in Returning /\ pc[d] # "idle" /\ err' = err
    BY <1>7, <1>16 DEF CleanSrc, CleanDst, local
  <2>2. pc'[d] \in {"cleanDst", "done"}
    BY <1>3, <1>16, GotoType DEF CleanSrc, CleanDst
  <2>3. pc'[d] \notin Working
    BY <2>2 DEF Working
  <2> QED
    BY <1>1, <1>2, <2>1, <2>3 DEF Passed
<1>17. CASE Die(d)
  BY <1>3, <1>5, <1>7, <1>17 DEF Die
<1> QED
  BY <1>8, <1>9, <1>10, <1>11, <1>12, <1>13, <1>14, <1>15, <1>16, <1>17 DEF ProbeStep

LEMMA OthersPassed ==
  ASSUME TypeOK, TypeOK', Tree, NEW d \in Daemon, Placed(d), Placed(d)', Shape(d),
         NEW o \in Daemon \ {d}, Placed(o), Passed(o)
  PROVE  Passed(o)'
<1>1. Same(o) /\ supported' = supported
  BY DEF Shape
<1>2. KindAt(root[o])' = KindAt(root[o])
  BY <1>1, RootKind DEF Same
<1> QED
  BY <1>1, <1>2 DEF Passed, Same

\* Guests that only create, write and link take no directory away.
LEMMA GuestsPassed ==
  ASSUME TypeOK, Tree, TreeStep, GuestKeeps, "unlink" \notin GuestOps,
         UNCHANGED <<pc, local, supported>>, NEW o \in Daemon, Passed(o)
  PROVE  Passed(o)'
<1>1. root' = root /\ pc' = pc /\ err' = err /\ supported' = supported /\ KindsKept
  BY DEF local, TreeStep
<1>2. ASSUME KindAt(root[o]) = "dir" PROVE KindAt(root[o])' = "dir"
  <2>1. PICK r : r = root[o]
    OBVIOUS
  <2>2. KindAt(r) = "dir" /\ (r # << >> => r \in Path /\ entry[r] # NoInode)
    BY <1>2, <2>1, KindAtEntry, TypeParts
  <2>3. r # << >> => entry'[r] = entry[r]
    BY <2>2 DEF GuestKeeps
  <2>4. KindAt(r)' = KindAt(r)
    BY <1>1, <2>2, <2>3, KindStays, TypeParts
  <2> QED
    BY <1>1, <2>1, <2>2, <2>4 DEF KindAt
<1> QED
  BY <1>1, <1>2 DEF Passed
-----------------------------------------------------------------------------
(* The verdict of a probe that is alone.                                    *)

Alone(d) == guestOps = 0 /\ faults = 0 /\ \A o \in Daemon \ {d} : pc[o] = "idle"

\* What is free in the root before anybody has created anything.
FreeAtStart(d, names) ==
  {n \in names : Append(root[d], n) \in Path /\ InitEntry[Append(root[d], n)] = NoInode}

Good(d) ==
  /\ KindAt(root[d]) = "dir"
  /\ FreeAtStart(d, SrcName) # {} /\ FreeAtStart(d, DstName) # {}

\* The share is as it was, the two names apart; and what these hold at each point.
Undisturbed(d) ==
  /\ \A p \in Path : p \notin Names(d) => entry[p] = InitEntry[p]
  /\ \A p \in Names(d) : InitEntry[p] = NoInode /\ entry[p] \in made[d] \cup {NoInode}
  /\ pc[d] \in Working => srcPath[d] # << >> /\ entry[srcPath[d]] \in made[d]
  /\ pc[d] \in {"closeDst", "removeDst"} => dstPath[d] # << >> /\ entry[dstPath[d]] \in made[d]
  /\ pc[d] = "reflink" => dstPath[d] # << >> /\ entry[dstPath[d]] = NoInode
  /\ pc[d] \in {"cleanDst", "done"} /\ srcPath[d] # << >> => entry[srcPath[d]] = NoInode
  /\ pc[d] = "done" /\ dstPath[d] # << >> => entry[dstPath[d]] = NoInode

Judged(d) ==
  pc[d] \in Returning /\ err[d] # "no root" => (err[d] = "nil" <=> supported /\ Good(d))

LEMMA FaultsNat == TypeOK => faults \in Nat
<1> SUFFICES ASSUME TypeOK PROVE faults \in Nat
  OBVIOUS
<1>1. MaxFaults \in Nat
  BY ProbeAssumption
<1>2. faults \in 0 .. MaxFaults
  BY TypeParts
<1> QED
  BY <1>1, <1>2

LEMMA AloneBefore ==
  ASSUME TypeOK, NEW d \in Daemon, NEW e \in Daemon, ProbeStep(e) \/ Die(e), Alone(d)'
  PROVE  e = d /\ Alone(d) /\ faults' = faults
<1>1. Shape(e)
  BY StepShape
<1>2. PICK to \in Pcs \ {"idle"} : Goto(e, to)
  BY StepMoves
<1>3. pc'[e] = to /\ \A o \in Daemon \ {e} : pc'[o] = pc[o]
  BY <1>2, GotoType
<1>4. e = d
  BY <1>3 DEF Alone
<1>5. faults' = faults
  <2>1. faults \in Nat /\ faults' \in {faults, faults + 1} /\ faults' = 0
    BY <1>1, FaultsNat DEF Shape, Alone
  <2> QED
    BY <2>1
<1>6. guestOps' = guestOps
  BY <1>1 DEF Shape, Rests, Puts, Removes, RemoveName
<1> QED
  BY <1>3, <1>4, <1>5, <1>6 DEF Alone

LEMMA NoFault ==
  ASSUME TypeOK, faults' = faults, NEW what
  PROVE  ~Fails(what)
<1>1. faults \in Nat
  BY FaultsNat
<1> QED
  BY <1>1 DEF Fails

\* The two names differ from each other, and from whatever the other pattern gives.
LEMMA NamesDiffer ==
  ASSUME TypeOK, NEW d \in Daemon, NEW n \in SrcName, NEW m \in DstName
  PROVE  Append(root[d], n) # Append(root[d], m)
<1>1. n \in Name /\ m \in Name /\ n # m /\ root[d] \in Seq(Name)
  BY ProbeAssumption, TypeParts
<1> QED
  BY <1>1, OneNameMore

\* In a root that is a directory, Free says what no entry has.
LEMMA FreeIs ==
  ASSUME TypeOK, Tree, NEW d \in Daemon, NEW names \in {SrcName, DstName}
  PROVE  /\ KindAt(root[d]) # "dir" => Free(d, names) = {}
         /\ KindAt(root[d]) = "dir" => \A n \in names :
              n \in Free(d, names) <=>
                Append(root[d], n) \in Path /\ entry[Append(root[d], n)] = NoInode
<1>1. names \subseteq Name /\ root[d] \in Seq(Name)
  BY ProbeAssumption, TypeParts
<1>2. \A n \in names : CreateErrno(Append(root[d], n)) = "ok" <=>
        /\ KindAt(root[d]) = "dir" /\ Append(root[d], n) \in Path
        /\ entry[Append(root[d], n)] = NoInode
  BY <1>1, CreateBelow
<1> QED
  BY <1>2 DEF Free

\* The names not chosen yet are free if they were free at the start.
LEMMA FreeStays ==
  ASSUME TypeOK, Tree, NEW d \in Daemon, Placed(d), Undisturbed(d), NEW names \in {SrcName, DstName},
         KindAt(root[d]) = "dir",
         \A n \in names : Append(root[d], n) \in Names(d) => entry[Append(root[d], n)] = NoInode
  PROVE  Free(d, names) = FreeAtStart(d, names)
<1>1. ASSUME NEW n \in names
      PROVE  n \in Free(d, names) <=> n \in FreeAtStart(d, names)
  <2>1. n \in Free(d, names) <=>
          Append(root[d], n) \in Path /\ entry[Append(root[d], n)] = NoInode
    BY FreeIs
  <2>2. Append(root[d], n) \in Path =>
          (entry[Append(root[d], n)] = NoInode <=> InitEntry[Append(root[d], n)] = NoInode)
    BY DEF Undisturbed
  <2> QED
    BY <2>1, <2>2 DEF FreeAtStart
<1>2. Free(d, names) \subseteq names /\ FreeAtStart(d, names) \subseteq names
  BY DEF Free, FreeAtStart
<1> QED
  BY <1>1, <1>2

\* Good depends on the root alone.
LEMMA GoodStays ==
  ASSUME NEW d \in Daemon, root' = root, KindAt(root[d])' = KindAt(root[d])
  PROVE  Good(d)' <=> Good(d)
BY DEF Good, FreeAtStart

\* The names the daemon remembers are of the root.
LEMMA ChosenFree ==
  ASSUME TypeOK, NEW d \in Daemon, Placed(d), Undisturbed(d)
  PROVE  /\ srcPath[d] # << >> => FreeAtStart(d, SrcName) # {}
         /\ dstPath[d] # << >> => FreeAtStart(d, DstName) # {}
BY DEF Placed, Undisturbed, Names, FreeAtStart

LEMMA RestUndisturbed ==
  ASSUME TypeOK, NEW d \in Daemon, Undisturbed(d), Rests, NEW to \in Pcs, Goto(d, to),
         srcPath' = srcPath, dstPath' = dstPath,
         to \in Working => pc[d] \in Working,
         to \in {"closeDst", "removeDst"} => pc[d] \in {"closeDst", "removeDst"},
         to # "reflink",
         to \in {"cleanDst", "done"} => srcPath[d] = << >> /\ dstPath[d] = << >>
  PROVE  Undisturbed(d)'
<1>1. pc'[d] = to
  BY GotoType
<1>2. entry' = entry /\ made' = made
  BY DEF Rests
<1> QED
  BY <1>1, <1>2 DEF Undisturbed, Names

\* A file of the daemon's at a new name.
LEMMA PutUndisturbed ==
  ASSUME TypeOK, NEW d \in Daemon, Undisturbed(d), NEW p, NEW i, Puts(d, p, i)
  PROVE  /\ entry'[p] = i /\ i \in made'[d] /\ p \in Path /\ made[d] \subseteq made'[d]
         /\ p \notin Names(d) => InitEntry[p] = NoInode
         /\ \A q \in Path : q # p => entry'[q] = entry[q]
<1>1. entry \in [Path -> Inode \cup {NoInode}]
  BY TypeParts DEF FSTypeOK
<1>2. entry[p] = NoInode /\ p \in Path /\ entry' = [entry EXCEPT ![p] = i]
  BY PutsGrow DEF Grows
<1>3. made'[d] = made[d] \cup {i}
  BY PutsType
<1> QED
  BY <1>1, <1>2, <1>3 DEF Undisturbed

LEMMA StepUndisturbed ==
  ASSUME TypeOK, Tree, MadeFiles, NEW d \in Daemon, Placed(d), Placed(d)', Undisturbed(d),
         faults' = faults, ProbeStep(d) \/ Die(d)
  PROVE  Undisturbed(d)'
<1>1. /\ entry \in [Path -> Inode \cup {NoInode}] /\ NoInode \notin made[d]
      /\ made[d] \subseteq Inode
  BY TypeParts, ProbeAssumption, InodeAssumption DEF FSTypeOK
<1>2. {"stat", "createSrc", "write", "createDst", "closeDst", "removeDst", "reflink",
       "cleanSrc", "cleanDst", "done", "dead"} \subseteq Pcs
  BY DEF Pcs
<1>3. /\ {"write", "createDst", "closeDst", "removeDst", "reflink"} = Working
      /\ {"idle", "stat", "createSrc"} = NotYetSrc
      /\ {"idle", "stat", "createSrc", "write", "createDst"} = NotYetDst
  BY DEF Working, NotYetSrc, NotYetDst
<1>4. CASE Start(d) \/ Stat(d)
  <2>1. /\ pc[d] \in {"idle", "stat"} /\ srcPath' = srcPath /\ dstPath' = dstPath
        /\ Goto(d, "stat") \/ Goto(d, "createSrc") \/ Goto(d, "done")
    BY <1>4 DEF Start, Stat, Fail, local
  <2>2. srcPath[d] = << >> /\ dstPath[d] = << >>
    BY <1>3, <2>1 DEF Placed
  <2>3. Rests
    BY <1>4, StartShape, StatShape
  <2> QED
    BY <1>2, <1>3, <2>1, <2>2, <2>3, RestUndisturbed
<1>5. CASE CreateSrc(d)
  <2>1. srcPath[d] = << >> /\ dstPath[d] = << >>
    BY <1>3, <1>5 DEF Placed, CreateSrc
  <2>2. CASE Rests /\ Goto(d, "done") /\ srcPath' = srcPath /\ dstPath' = dstPath
    BY <1>2, <1>3, <2>1, <2>2, RestUndisturbed
  <2>3. CASE /\ \E i \in NewInode : Puts(d, srcPath'[d], i)
             /\ Goto(d, "write") /\ dstPath' = dstPath
    <3>1. PICK i \in NewInode : Puts(d, srcPath'[d], i)
      BY <2>3
    <3>2. pc'[d] = "write"
      BY <1>2, <2>3, GotoType
    <3>3. Names(d) = {} /\ dstPath'[d] = << >>
      BY <2>1, <2>3 DEF Names
    <3>4. PICK p : p = srcPath'[d]
      OBVIOUS
    <3>5. /\ entry'[p] = i /\ i \in made'[d] /\ p \in Path
          /\ InitEntry[p] = NoInode /\ \A q \in Path : q # p => entry'[q] = entry[q]
      BY <3>1, <3>3, <3>4, PutUndisturbed
    <3>6. p # << >> /\ (Names(d))' = {p}
      BY <3>3, <3>4, <3>5, PathAssumption DEF Names
    <3> QED
      BY <3>2, <3>3, <3>4, <3>5, <3>6 DEF Undisturbed
  <2> QED
    BY <1>5, <2>2, <2>3, CreateSrcShape
<1>6. CASE WriteSrc(d)
  <2>1. pc[d] = "write" /\ Rests /\ srcPath' = srcPath /\ dstPath' = dstPath
        /\ (Goto(d, "createDst") \/ Goto(d, "cleanSrc"))
    BY <1>6, WriteSrcShape DEF WriteSrc
  <2> QED
    BY <1>2, <1>3, <2>1, RestUndisturbed
<1>7. CASE CreateDst(d)
  <2>1. dstPath[d] = << >> /\ pc[d] = "createDst" /\ srcPath[d] # << >>
        /\ entry[srcPath[d]] \in made[d]
    BY <1>3, <1>7 DEF Placed, CreateDst, Undisturbed
  <2>2. CASE Rests /\ Goto(d, "cleanSrc") /\ srcPath' = srcPath /\ dstPath' = dstPath
    BY <1>2, <1>3, <2>1, <2>2, RestUndisturbed
  <2>3. CASE /\ \E n \in DstName : dstPath'[d] = Append(root[d], n)
             /\ \E i \in NewInode : Puts(d, dstPath'[d], i)
             /\ Goto(d, "closeDst") /\ srcPath' = srcPath
    <3>1. PICK i \in NewInode : Puts(d, dstPath'[d], i)
      BY <2>3
    <3>2. pc'[d] = "closeDst"
      BY <1>2, <2>3, GotoType
    <3>3. PICK p : p = dstPath'[d]
      OBVIOUS
    <3>4. srcPath[d] # p /\ srcPath[d] \in Path
      <4>1. PICK n \in DstName : p = Append(root[d], n)
        BY <2>3, <3>3
      <4>2. PICK m \in SrcName : srcPath[d] = Append(root[d], m) /\ srcPath[d] \in Path
        BY <2>1 DEF Placed
      <4> QED
        BY <4>1, <4>2, NamesDiffer
    <3>5. Names(d) = {srcPath[d]}
      BY <2>1 DEF Names
    <3>6. /\ entry'[p] = i /\ i \in made'[d] /\ p \in Path /\ made[d] \subseteq made'[d]
          /\ InitEntry[p] = NoInode /\ \A q \in Path : q # p => entry'[q] = entry[q]
      BY <3>1, <3>3, <3>4, <3>5, PutUndisturbed
    <3>7. p # << >> /\ (Names(d))' = {srcPath[d], p}
      BY <2>1, <2>3, <3>3, <3>6, PathAssumption DEF Names
    <3>8. entry'[srcPath[d]] \in made'[d] /\ InitEntry[srcPath[d]] = NoInode
      BY <2>1, <3>4, <3>5, <3>6 DEF Undisturbed
    <3>9. \A q \in Path : q \notin (Names(d))' => entry'[q] = InitEntry[q]
      BY <3>5, <3>6, <3>7 DEF Undisturbed
    <3> QED
      BY <2>1, <2>3, <3>2, <3>3, <3>6, <3>7, <3>8, <3>9 DEF Undisturbed
  <2> QED
    BY <1>7, <2>2, <2>3, CreateDstShape
<1>8. CASE CloseDst(d)
  <2>1. pc[d] = "closeDst" /\ Rests /\ srcPath' = srcPath /\ dstPath' = dstPath
        /\ (Goto(d, "removeDst") \/ Goto(d, "cleanSrc"))
    BY <1>8, CloseDstShape DEF CloseDst
  <2> QED
    BY <1>2, <1>3, <2>1, RestUndisturbed
<1>9. CASE RemoveDst(d)
  <2>1. pc[d] = "removeDst" /\ srcPath' = srcPath /\ dstPath' = dstPath /\ made' = made
    BY <1>9, RemoveDstShape DEF RemoveDst
  <2>2. CASE Rests /\ Goto(d, "cleanSrc")
    BY <1>2, <1>3, <2>1, <2>2, RestUndisturbed
  <2>3. CASE RemoveName(dstPath[d]) /\ Goto(d, "reflink")
    <3>1. pc'[d] = "reflink" /\ entry' = [entry EXCEPT ![dstPath[d]] = NoInode]
      BY <1>2, <2>3, GotoType DEF RemoveName
    <3>2. /\ dstPath[d] # << >> /\ dstPath[d] \in Path /\ dstPath[d] \in Names(d)
          /\ srcPath[d] # << >> /\ entry[srcPath[d]] \in made[d]
      BY <1>3, <2>1 DEF Undisturbed, Names, Placed
    <3>3. srcPath[d] # dstPath[d] /\ srcPath[d] \in Path
      BY <3>2, NamesDiffer DEF Placed
    <3>4. (Names(d))' = Names(d)
      BY <2>1 DEF Names
    <3> QED
      BY <1>1, <1>3, <2>1, <3>1, <3>2, <3>3, <3>4 DEF Undisturbed
  <2> QED
    BY <1>9, <2>2, <2>3, RemoveDstShape
<1>10. CASE Reflink(d)
  <2>1. /\ pc[d] = "reflink" /\ srcPath' = srcPath /\ dstPath' = dstPath
        /\ Goto(d, "cleanSrc")
    BY <1>10, ReflinkShape DEF Reflink
  <2>2. CASE Rests
    BY <1>2, <1>3, <2>1, <2>2, RestUndisturbed
  <2>3. ASSUME NEW i \in NewInode, Puts(d, dstPath[d], i) PROVE Undisturbed(d)'
    <3>1. /\ entry'[dstPath[d]] = i /\ i \in made'[d] /\ made[d] \subseteq made'[d]
          /\ \A q \in Path : q # dstPath[d] => entry'[q] = entry[q]
      BY <2>3, PutUndisturbed
    <3>2. pc'[d] = "cleanSrc"
      BY <1>2, <2>1, GotoType
    <3>3. (Names(d))' = Names(d) /\ dstPath[d] \in Names(d)
      BY <2>1 DEF Names, Undisturbed
    <3>4. \A q \in Names(d) : q \in Path
      BY PlacedNames
    <3> QED
      BY <1>3, <3>1, <3>2, <3>3, <3>4 DEF Undisturbed
  <2> QED
    BY <1>10, <2>2, <2>3, ReflinkShape
<1>11. CASE CleanSrc(d)
  <2>1. /\ srcPath' = srcPath /\ dstPath' = dstPath /\ made' = made
        /\ Goto(d, "cleanDst")
    BY <1>11, CleanSrcShape DEF CleanSrc
  <2>2. pc'[d] = "cleanDst" /\ (Names(d))' = Names(d)
    BY <1>2, <2>1, GotoType DEF Names
  <2>3. \A q \in Names(d) : q \in Path
    BY PlacedNames
  <2>4. CASE RemoveName(srcPath[d])
    <3>1. entry' = [entry EXCEPT ![srcPath[d]] = NoInode]
      BY <2>4 DEF RemoveName
    <3>2. \A q \in Path : q # srcPath[d] => entry'[q] = entry[q]
      BY <1>1, <3>1
    <3>3. srcPath[d] # << >> => srcPath[d] \in Names(d) /\ entry'[srcPath[d]] = NoInode
      BY <1>1, <2>3, <3>1 DEF Names
    <3>4. \A q \in Path : q \notin Names(d) => q # srcPath[d]
      BY <3>3, PathAssumption
    <3>5. \A q \in Path : q \notin Names(d) => entry'[q] = InitEntry[q]
      BY <3>2, <3>4 DEF Undisturbed
    <3>6. \A q \in Names(d) : InitEntry[q] = NoInode /\ entry'[q] \in made[d] \cup {NoInode}
      BY <2>3, <3>2, <3>3 DEF Undisturbed, Names
    <3> QED
      BY <1>3, <2>1, <2>2, <3>3, <3>5, <3>6 DEF Undisturbed
  <2>5. CASE ~CanRemove(srcPath[d]) /\ Rests
    <3>1. srcPath[d] # << >> => entry[srcPath[d]] = NoInode
      BY <2>3, <2>5, OwnRemovable DEF Undisturbed, Names
    <3>2. entry' = entry
      BY <2>5 DEF Rests
    <3> QED
      BY <1>3, <2>1, <2>2, <3>1, <3>2 DEF Undisturbed
  <2> QED
    BY <1>11, <2>4, <2>5, CleanSrcShape
<1>12. CASE CleanDst(d)
  <2>1. /\ srcPath' = srcPath /\ dstPath' = dstPath /\ made' = made /\ pc[d] = "cleanDst"
        /\ Goto(d, "done")
    BY <1>12, CleanDstShape DEF CleanDst
  <2>2. pc'[d] = "done" /\ (Names(d))' = Names(d)
    BY <1>2, <2>1, GotoType DEF Names
  <2>3. (\A q \in Names(d) : q \in Path) /\ (srcPath[d] # << >> => entry[srcPath[d]] = NoInode)
    BY <2>1, PlacedNames DEF Undisturbed
  <2>4. CASE RemoveName(dstPath[d])
    <3>1. entry' = [entry EXCEPT ![dstPath[d]] = NoInode]
      BY <2>4 DEF RemoveName
    <3>2. \A q \in Path : q # dstPath[d] => entry'[q] = entry[q]
      BY <1>1, <3>1
    <3>3. dstPath[d] # << >> => dstPath[d] \in Names(d) /\ entry'[dstPath[d]] = NoInode
      BY <1>1, <2>3, <3>1 DEF Names
    <3>4. \A q \in Path : q \notin Names(d) => q # dstPath[d]
      BY <3>3, PathAssumption
    <3>5. \A q \in Path : q \notin Names(d) => entry'[q] = InitEntry[q]
      BY <3>2, <3>4 DEF Undisturbed
    <3>6. \A q \in Names(d) : InitEntry[q] = NoInode /\ entry'[q] \in made[d] \cup {NoInode}
      BY <2>3, <3>2, <3>3 DEF Undisturbed, Names
    <3>7. srcPath[d] # << >> => entry'[srcPath[d]] = NoInode
      BY <2>3, <3>2, <3>3 DEF Names
    <3> QED
      BY <1>3, <2>1, <2>2, <3>3, <3>5, <3>6, <3>7 DEF Undisturbed
  <2>5. CASE (dstPath[d] = << >> \/ ~CanRemove(dstPath[d])) /\ Rests
    <3>1. dstPath[d] # << >> => entry[dstPath[d]] = NoInode
      BY <2>3, <2>5, OwnRemovable DEF Undisturbed, Names
    <3>2. entry' = entry
      BY <2>5 DEF Rests
    <3> QED
      BY <1>3, <2>1, <2>2, <2>3, <3>1, <3>2 DEF Undisturbed
  <2> QED
    BY <1>12, <2>4, <2>5, CleanDstShape
<1>13. CASE Die(d)
  <2>1. Rests /\ Goto(d, "dead") /\ srcPath' = srcPath /\ dstPath' = dstPath
    BY <1>13, DieShape DEF local
  <2> QED
    BY <1>2, <1>3, <2>1, RestUndisturbed
<1> QED
  BY <1>4, <1>5, <1>6, <1>7, <1>8, <1>9, <1>10, <1>11, <1>12, <1>13 DEF ProbeStep

LEMMA StepJudged ==
  ASSUME TypeOK, TypeOK', Tree, MadeFiles, NEW d \in Daemon, Placed(d), Placed(d)', Passed(d),
         Undisturbed(d), Judged(d), Shape(d), faults' = faults, ProbeStep(d) \/ Die(d)
  PROVE  Judged(d)'
<1>1. supported' = supported /\ root[d] \in Seq(Name)
  BY TypeParts DEF Shape
<1>2. pc[d] # "idle" => (Good(d)' <=> Good(d))
  BY RootFixed, RootKind, GoodStays
<1>3. {"stat", "createSrc", "write", "createDst", "closeDst", "removeDst", "reflink",
       "cleanSrc", "cleanDst", "done", "dead"} \subseteq Pcs
  BY DEF Pcs
<1>4. /\ {"cleanSrc", "cleanDst", "done"} = Returning
      /\ {"write", "createDst", "closeDst", "removeDst", "reflink"} = Working
      /\ {"stat", "not a directory", "not writable", "prepare", "unsupported",
          "failed probe"} \subseteq Failure
  BY DEF Returning, Failure, Working
<1>5. \A what : ~Fails(what)
  BY NoFault
<1>6. ASSUME NEW to \in Pcs, Goto(d, to), to \notin Returning PROVE Judged(d)'
  BY <1>6, GotoType DEF Judged
<1>7. ASSUME NEW e \in Failure, NEW to \in Pcs, Fail(d, e, to), pc[d] # "idle",
             ~(supported /\ Good(d))
      PROVE  Judged(d)'
  <2>1. err'[d] = e /\ e # "nil"
    BY <1>7, TypeParts DEF Fail, Failure
  <2> QED
    BY <1>1, <1>2, <1>7, <2>1 DEF Judged
<1>8. CASE Start(d)
  <2>1. CASE Fail(d, "no root", "done")
    <3>1. err'[d] = "no root"
      BY <2>1, TypeParts DEF Fail
    <3> QED
      BY <3>1 DEF Judged
  <2>2. CASE Goto(d, "stat")
    BY <1>3, <1>4, <1>6, <2>2
  <2> QED
    BY <1>8, <2>1, <2>2 DEF Start
<1>9. CASE Stat(d)
  <2>1. CASE Goto(d, "createSrc")
    BY <1>3, <1>4, <1>6, <2>1
  <2>2. ASSUME OpenErrno(root[d]) # "ok" \/ KindAt(Follow(root[d])) # "dir" PROVE ~Good(d)
    BY <1>1, <2>2, DirOpens DEF Good
  <2> QED
    BY <1>3, <1>4, <1>7, <1>9, <2>1, <2>2 DEF Stat
<1>10. CASE CreateSrc(d)
  <2>1. CASE \E n \in Free(d, SrcName) : Goto(d, "write")
    BY <1>3, <1>4, <1>6, <2>1
  <2>2. CASE Free(d, SrcName) = {} /\ Fail(d, "not writable", "done")
    <3>1. Names(d) = {} /\ pc[d] # "idle"
      BY <1>10 DEF Placed, Names, CreateSrc, NotYetSrc, NotYetDst
    <3>2. KindAt(root[d]) = "dir" => Free(d, SrcName) = FreeAtStart(d, SrcName)
      BY <3>1, FreeStays
    <3>3. ~Good(d)
      BY <2>2, <3>2 DEF Good
    <3> QED
      BY <1>3, <1>4, <1>7, <2>2, <3>1, <3>3
  <2> QED
    BY <1>5, <1>10, <2>1, <2>2 DEF CreateSrc
<1>11. CASE WriteSrc(d)
  BY <1>3, <1>4, <1>5, <1>6, <1>11 DEF WriteSrc
<1>12. CASE CreateDst(d)
  <2>1. CASE \E n \in Free(d, DstName) : Goto(d, "closeDst")
    BY <1>3, <1>4, <1>6, <2>1
  <2>2. CASE Free(d, DstName) = {} /\ Fail(d, "not writable", "cleanSrc")
    <3>1. /\ pc[d] = "createDst" /\ srcPath[d] # << >> /\ dstPath[d] = << >>
          /\ KindAt(root[d]) = "dir"
      BY <1>4, <1>12 DEF CreateDst, Undisturbed, Passed, Placed, NotYetDst
    <3>2. ASSUME NEW n \in DstName PROVE Append(root[d], n) \notin Names(d)
      <4>1. PICK m \in SrcName : srcPath[d] = Append(root[d], m)
        BY <3>1 DEF Placed
      <4>2. Names(d) = {srcPath[d]}
        BY <3>1 DEF Names
      <4> QED
        BY <4>1, <4>2, NamesDiffer
    <3>3. Free(d, DstName) = FreeAtStart(d, DstName)
      BY <3>1, <3>2, FreeStays
    <3>4. ~Good(d)
      BY <2>2, <3>3 DEF Good
    <3> QED
      BY <1>3, <1>4, <1>7, <2>2, <3>1, <3>4
  <2> QED
    BY <1>5, <1>12, <2>1, <2>2 DEF CreateDst
<1>13. CASE CloseDst(d)
  BY <1>3, <1>4, <1>5, <1>6, <1>13 DEF CloseDst
<1>14. CASE RemoveDst(d)
  <2>1. pc[d] = "removeDst" /\ dstPath[d] # << >> /\ entry[dstPath[d]] \in made[d]
    BY <1>14 DEF RemoveDst, Undisturbed
  <2>2. dstPath[d] \in Path
    BY <2>1 DEF Placed
  <2>3. CanRemove(dstPath[d])
    BY <2>1, <2>2, OwnRemovable
  <2> QED
    BY <1>3, <1>4, <1>6, <1>14, <2>3 DEF RemoveDst
<1>15. CASE Reflink(d)
  <2>1. /\ pc[d] = "reflink" /\ srcPath[d] # << >> /\ entry[srcPath[d]] \in made[d]
        /\ dstPath[d] # << >> /\ entry[dstPath[d]] = NoInode /\ KindAt(root[d]) = "dir"
    BY <1>4, <1>15 DEF Reflink, Undisturbed, Passed
  <2>2. Good(d)
    BY <2>1, ChosenFree DEF Good
  <2>3. Openable(srcPath[d])
    <3>1. srcPath[d] \in Path
      BY <2>1 DEF Placed
    <3>2. KindAt(srcPath[d]) = "file" /\ WalkErrno(srcPath[d]) = "ok"
      BY <2>1, <3>1, OwnRemovable
    <3>3. Follow(srcPath[d]) = srcPath[d]
      BY <3>2 DEF Follow
    <3>4. LstatErrno(srcPath[d]) = "ok"
      BY <3>2, ErrnoFacts
    <3> QED
      BY <3>2, <3>3, <3>4 DEF Openable, OpenErrno
  <2>4. CreateErrno(dstPath[d]) = "ok"
    <3>1. PICK n \in DstName : dstPath[d] = Append(root[d], n) /\ dstPath[d] \in Path
      BY <2>1 DEF Placed
    <3>2. n \in Name
      BY ProbeAssumption
    <3> QED
      BY <1>1, <2>1, <3>1, <3>2, CreateBelow
  <2>5. CASE supported /\ err' = err
    <3>1. err[d] = "nil"
      BY <2>1 DEF Placed, Unfailed
    <3> QED
      BY <1>1, <1>2, <2>1, <2>2, <2>5, <3>1 DEF Judged
  <2>6. CASE ~supported /\ Fail(d, "unsupported", "cleanSrc")
    BY <1>3, <1>4, <1>7, <2>1, <2>6
  <2> QED
    BY <1>5, <1>15, <2>3, <2>4, <2>5, <2>6 DEF Reflink
<1>16. CASE CleanSrc(d) \/ CleanDst(d)
  <2>1. pc[d] \in Returning /\ pc[d] # "idle" /\ err' = err
    BY <1>4, <1>16 DEF CleanSrc, CleanDst, local
  <2> QED
    BY <1>1, <1>2, <2>1 DEF Judged
<1>17. CASE Die(d)
  BY <1>3, <1>4, <1>6, <1>17 DEF Die
<1> QED
  BY <1>8, <1>9, <1>10, <1>11, <1>12, <1>13, <1>14, <1>15, <1>16, <1>17 DEF ProbeStep

VerdictInv ==
  /\ TypeOK /\ Tree /\ MadeFiles
  /\ \A d \in Daemon : /\ Placed(d) /\ Passed(d)
                       /\ Alone(d) => Undisturbed(d) /\ Judged(d)

LEMMA InitVerdict == Init => VerdictInv
<1> SUFFICES ASSUME Init PROVE VerdictInv
  OBVIOUS
<1>1. TypeOK /\ Tree /\ MadeFiles
  BY InitType, InitTree DEF Init, MadeFiles
<1>2. ASSUME NEW d \in Daemon PROVE Placed(d) /\ Passed(d) /\ Undisturbed(d) /\ Judged(d)
  <2>1. /\ pc[d] = "idle" /\ root[d] = << >> /\ srcPath[d] = << >> /\ dstPath[d] = << >>
        /\ err[d] = "nil" /\ entry = InitEntry
    BY DEF Init, FSInit
  <2>2. Names(d) = {}
    BY <2>1 DEF Names
  <2>3. Placed(d)
    BY <2>1 DEF Placed, Temporary
  <2>4. Passed(d) /\ Judged(d)
    BY <2>1 DEF Passed, Judged, Working, Returning
  <2>5. Undisturbed(d)
    BY <2>1, <2>2 DEF Undisturbed, Working
  <2> QED
    BY <2>3, <2>4, <2>5
<1> QED
  BY <1>1, <1>2 DEF VerdictInv

LEMMA NextVerdict ==
  ASSUME RootsApart, GuestOps \cap {"unlink", "rename"} = {}, VerdictInv, [Next]_vars
  PROVE  VerdictInv'
<1>1. /\ TypeOK /\ Tree /\ MadeFiles
      /\ \A d \in Daemon : Placed(d) /\ Passed(d) /\ (Alone(d) => Undisturbed(d) /\ Judged(d))
  BY DEF VerdictInv
<1>2. CASE \E d \in Daemon : ProbeStep(d) \/ Die(d)
  <2>1. PICK d \in Daemon : ProbeStep(d) \/ Die(d)
    BY <1>2
  <2>2. TypeOK' /\ Shape(d)
    BY <1>1, <2>1, StepShape
  <2>3. Tree' /\ MadeFiles'
    BY <1>1, <2>2, ShapeTree, TreeKept, StepMadeFiles, TypeParts
  <2>4. Placed(d)' /\ Passed(d)'
    BY <1>1, <2>1, <2>2, StepPlaced, StepPassed
  <2>5. ASSUME NEW e \in Daemon \ {d} PROVE Placed(e)' /\ Passed(e)' /\ ~Alone(e)'
    BY <1>1, <2>1, <2>2, <2>4, SamePlaced, OthersPassed, AloneBefore DEF Shape
  <2>6. ASSUME Alone(d)' PROVE Undisturbed(d)' /\ Judged(d)'
    <3>1. Alone(d) /\ faults' = faults
      BY <1>1, <2>1, <2>6, AloneBefore
    <3>2. Undisturbed(d) /\ Judged(d)
      BY <1>1, <3>1
    <3> QED
      BY <1>1, <2>1, <2>2, <2>4, <3>1, <3>2, StepUndisturbed, StepJudged
  <2> QED
    BY <2>2, <2>3, <2>4, <2>5, <2>6 DEF VerdictInv
<1>3. CASE Guests
  <2>1. FSTypeOK /\ GuestNext /\ UNCHANGED <<pc, local, supported>>
    BY <1>1, <1>3, TypeParts DEF Guests
  <2>2. TreeStep /\ GuestKeeps
    BY <1>1, <2>1, GuestShape
  <2>3. TypeOK' /\ Tree' /\ MadeFiles'
    BY <1>1, <1>3, <2>1, <2>2, GuestsType, TreeKept, GuestMadeFiles DEF local
  <2>4. ASSUME NEW e \in Daemon PROVE Placed(e)' /\ Passed(e)'
    <3>1. Same(e)
      BY <2>1 DEF Same, local
    <3> QED
      BY <1>1, <2>1, <2>2, <3>1, SamePlaced, GuestsPassed
  <2>5. guestOps' # 0
    <3>1. guestOps \in Nat /\ \E op : GuestStep(op)
      BY <2>1 DEF FSTypeOK, GuestNext, GuestCreate, GuestWrite, GuestUnlink, GuestRename, GuestLink
    <3>2. guestOps' = guestOps + 1
      BY <3>1 DEF GuestStep
    <3> QED
      BY <3>1, <3>2
  <2> QED
    BY <2>3, <2>4, <2>5 DEF VerdictInv, Alone
<1>4. CASE UNCHANGED vars
  <2>1. TypeOK' /\ Tree'
    BY <1>1, <1>4, StutterType, NextTree
  <2>2. UNCHANGED <<entry, inode, guestOps, pc, root, srcPath, dstPath, err, made, supported, faults>>
    BY <1>4 DEF vars, fsvars, local
  <2>3. MadeFiles'
    BY <1>1, <2>2 DEF MadeFiles
  <2>4. ASSUME NEW d \in Daemon
        PROVE  /\ Placed(d)' /\ Passed(d)' /\ (Alone(d)' <=> Alone(d))
               /\ Undisturbed(d)' <=> Undisturbed(d)
               /\ Judged(d)' <=> Judged(d)
    <3>1. Placed(d)' /\ (Alone(d)' <=> Alone(d))
      BY <1>1, <2>2 DEF Placed, Temporary, Alone
    <3>2. KindAt(root[d])' = KindAt(root[d])
      BY <2>2 DEF KindAt
    <3>3. Passed(d)'
      BY <1>1, <2>2, <3>2 DEF Passed
    <3>4. Undisturbed(d)' <=> Undisturbed(d)
      BY <2>2 DEF Undisturbed, Names
    <3>5. Good(d)' <=> Good(d)
      BY <2>2, <3>2, GoodStays
    <3>6. Judged(d)' <=> Judged(d)
      BY <2>2, <3>5 DEF Judged
    <3> QED
      BY <3>1, <3>3, <3>4, <3>6
  <2> QED
    BY <1>1, <2>1, <2>3, <2>4 DEF VerdictInv
<1> QED
  BY <1>2, <1>3, <1>4 DEF Next, Finished

LEMMA VerdictFollows ==
  ASSUME VerdictInv
  PROVE  ProbeVerdictIsRight
<1> SUFFICES ASSUME NEW d \in Daemon, pc[d] = "done"
             PROVE  /\ err[d] = "nil" => supported /\ KindAt(root[d]) = "dir"
                    /\ Alone(d) =>
                         (err[d] = "nil" <=>
                            /\ supported /\ err[d] # "no root" /\ KindAt(root[d]) = "dir"
                            /\ \A names \in {SrcName, DstName} : Free(d, names) # {})
  BY DEF ProbeVerdictIsRight, Alone
<1>1. pc[d] \in Returning
  BY DEF Returning
<1>2. TypeOK /\ Tree /\ Placed(d) /\ Passed(d) /\ (Alone(d) => Undisturbed(d) /\ Judged(d))
  BY DEF VerdictInv
<1>3. err[d] = "nil" => supported /\ KindAt(root[d]) = "dir"
  BY <1>1, <1>2 DEF Passed
<1>4. ASSUME Alone(d), KindAt(root[d]) = "dir", NEW names \in {SrcName, DstName}
      PROVE  Free(d, names) = FreeAtStart(d, names)
  <2>1. \A p \in Names(d) : entry[p] = NoInode
    BY <1>2, <1>4 DEF Undisturbed, Names
  <2> QED
    BY <1>2, <1>4, <2>1, FreeStays
<1>5. ASSUME Alone(d)
      PROVE  err[d] = "nil" <=>
               /\ supported /\ err[d] # "no root" /\ KindAt(root[d]) = "dir"
               /\ \A names \in {SrcName, DstName} : Free(d, names) # {}
  <2>1. err[d] # "no root" => (err[d] = "nil" <=> supported /\ Good(d))
    BY <1>1, <1>2, <1>5 DEF Judged
  <2>2. Good(d) <=> /\ KindAt(root[d]) = "dir"
                    /\ \A names \in {SrcName, DstName} : Free(d, names) # {}
    BY <1>4, <1>5 DEF Good
  <2> QED
    BY <2>1, <2>2
<1> QED
  BY <1>3, <1>5

\* A probe that returns no error has cloned in a root that is a directory still,
\* whatever other daemons and guests that create, write or link do; and a probe that was
\* alone, with nothing failing, returns no error exactly if it should (every early return
\* of ValidateShareRoot).  Guests that unlink or rename are left out: the directory can be
\* gone when the probe returns.  So are roots named like a temporary file: the deferred
\* function of another probe can remove such a directory.
THEOREM VerdictAlways ==
  ASSUME RootsApart, GuestOps \cap {"unlink", "rename"} = {}
  PROVE  Spec => []ProbeVerdictIsRight
<1>1. Init => VerdictInv
  BY InitVerdict
<1>2. VerdictInv /\ [Next]_vars => VerdictInv'
  BY NextVerdict
<1>3. VerdictInv => ProbeVerdictIsRight
  BY VerdictFollows
<1> QED
  BY <1>1, <1>2, <1>3, PTL DEF Spec
=============================================================================
