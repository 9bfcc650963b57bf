--------------------------- MODULE TreeWalkProofs ---------------------------
(***************************************************************************)
(* Proofs about TreeWalk, for any share, any requests and any guests within  *)
(* the hypotheses of a theorem.                                              *)
(***************************************************************************)
EXTENDS TreeWalk, HostFSProofs

-----------------------------------------------------------------------------
(* A listing has every entry of the directory, once.                        *)

LEMMA ChildFacts ==
  ASSUME NEW d, NEW q \in Children(d)
  PROVE  /\ q \in Path /\ q \in Seq(Name) /\ q # << >> /\ Dir(q) = d /\ entry[q] # NoInode
         /\ Last(q) \in Name /\ q = Append(d, Last(q))
<1>1. q \in Path /\ q \in Seq(Name) /\ q # << >> /\ Dir(q) = d /\ entry[q] # NoInode
  BY PathAssumption DEF Children
<1>2. Len(q) \in Nat \ {0}
  BY <1>1, EmptySeq
<1>3. Last(q) \in Name
  BY <1>1, <1>2 DEF Last
<1>4. q = Append(d, Last(q))
  <2>1. d = SubSeq(q, 1, Len(q) - 1)
    BY <1>1 DEF Dir, Prefix
  <2>2. d \in Seq(Name) /\ Len(d) = Len(q) - 1
    BY <1>1, PrefixOfDir
  <2>3. \A n \in 1 .. Len(d) : d[n] = q[n]
    BY <1>1, <1>2, <2>1, <2>2
  <2>4. Append(d, Last(q)) \in Seq(Name) /\ Len(Append(d, Last(q))) = Len(q)
    BY <1>2, <1>3, <2>2
  <2>5. ASSUME NEW n \in 1 .. Len(q) PROVE Append(d, Last(q))[n] = q[n]
    BY <1>2, <1>3, <2>2, <2>3 DEF Last
  <2> QED
    BY <1>1, <2>4, <2>5, SeqEqual
<1> QED
  BY <1>1, <1>3, <1>4

LEMMA ChildrenFinite ==
  ASSUME NEW d
  PROVE  IsFiniteSet(Children(d)) /\ Cardinality(Children(d)) \in Nat
<1>1. Children(d) \in SUBSET Path
  BY DEF Children
<1> QED
  BY <1>1, FinitePath, FS_Subset, FS_CardinalityType

\* By rank, the entries of a directory and the places of the listing correspond.
LEMMA RankBijects ==
  ASSUME NEW d
  PROVE  LET C == Children(d)
             rank == [q \in C |-> Rank(q)]
         IN  rank \in Bijection(C, 1 .. Cardinality(C))
<1> DEFINE C == Children(d)
           N == Cardinality(C)
           low(q) == {r \in C : NameOrder[Last(r)] <= NameOrder[Last(q)]}
           rank == [q \in C |-> Rank(q)]
<1>1. IsFiniteSet(C) /\ N \in Nat
  BY ChildrenFinite
<1>2. ASSUME NEW q \in C PROVE Rank(q) = Cardinality(low(q)) /\ NameOrder[Last(q)] \in Nat
  BY ChildFacts, WalkAssumption DEF Rank
<1>3. ASSUME NEW q \in C
      PROVE  low(q) \in SUBSET C /\ IsFiniteSet(low(q)) /\ q \in low(q)
  <2>1. low(q) \in SUBSET C /\ q \in low(q)
    <3>1. NameOrder[Last(q)] \in Nat
      BY <1>2
    <3>2. NameOrder[Last(q)] <= NameOrder[Last(q)]
      BY <3>1
    <3> QED
      BY <3>2
  <2> QED
    BY <1>1, <2>1, FS_Subset
<1>4. ASSUME NEW q \in C PROVE Rank(q) \in 1 .. N
  <2>1. Cardinality(low(q)) <= N /\ Cardinality(low(q)) \in Nat
    BY <1>1, <1>3, FS_Subset, FS_CardinalityType
  <2>2. Cardinality(low(q)) # 0
    BY <1>3, FS_EmptySet
  <2> QED
    BY <1>1, <1>2, <2>1, <2>2
<1>5. ASSUME NEW q \in C, NEW r \in C, Rank(q) = Rank(r) PROVE q = r
  <2> DEFINE a == NameOrder[Last(q)]
             b == NameOrder[Last(r)]
  <2>1. a \in Nat /\ b \in Nat /\ Cardinality(low(q)) = Cardinality(low(r))
    BY <1>2, <1>5
  <2>2. low(q) = low(r)
    <3>1. low(q) \in SUBSET low(r) \/ low(r) \in SUBSET low(q)
      <4> HIDE DEF C
      <4>1. ASSUME NEW x \in C, NEW y \in C, NameOrder[Last(x)] <= NameOrder[Last(y)]
            PROVE  low(x) \in SUBSET low(y)
        <5>1. ASSUME NEW z \in C, NameOrder[Last(z)] <= NameOrder[Last(x)]
              PROVE  NameOrder[Last(z)] <= NameOrder[Last(y)]
          <6>1. /\ NameOrder[Last(x)] \in Nat /\ NameOrder[Last(y)] \in Nat
                /\ NameOrder[Last(z)] \in Nat
            BY <1>2
          <6> QED
            BY <4>1, <5>1, <6>1
        <5> QED
          BY <5>1
      <4>2. a <= b \/ b <= a
        BY <2>1
      <4> QED
        BY <2>1, <4>1, <4>2
    <3> QED
      BY <1>3, <2>1, <3>1, FS_Subset
  <2>3. a <= b /\ b <= a
    BY <1>3, <2>2
  <2>4. a = b
    BY <2>1, <2>3
  <2>5. Last(q) = Last(r)
    BY <2>4, ChildFacts, WalkAssumption
  <2> QED
    BY <2>5, ChildFacts
<1>6. rank \in Injection(C, 1 .. N)
  BY <1>4, <1>5 DEF Injection, IsInjective
<1>7. IsFiniteSet(1 .. N) /\ Cardinality(1 .. N) = N
  BY <1>1, FS_Interval
<1>8. rank \in Surjection(C, 1 .. N)
  BY <1>6, <1>7, FS_Injection
<1> QED
  BY <1>6, <1>8 DEF Bijection

LEMMA ListingFacts ==
  ASSUME NEW d
  PROVE  /\ Listing(d) \in Seq(Children(d))
         /\ \A q \in Children(d) : \E n \in DOMAIN Listing(d) : Listing(d)[n] = q
         /\ \A m, n \in DOMAIN Listing(d) : Listing(d)[m] = Listing(d)[n] => m = n
<1> DEFINE C == Children(d)
           N == Cardinality(C)
           rank == [q \in C |-> Rank(q)]
<1>1. N \in Nat /\ rank \in Bijection(C, 1 .. N)
  BY ChildrenFinite, RankBijects
<1>2. /\ rank \in [C -> 1 .. N] /\ \A q, r \in C : rank[q] = rank[r] => q = r
      /\ \A n \in 1 .. N : \E q \in C : rank[q] = n
  BY <1>1 DEF Bijection, Injection, Surjection, IsInjective
<1>3. Listing(d) = [n \in 1 .. N |-> CHOOSE q \in C : Rank(q) = n]
  BY DEF Listing
<1>4. ASSUME NEW n \in 1 .. N PROVE Listing(d)[n] \in C /\ Rank(Listing(d)[n]) = n
  <2>1. \E q \in C : Rank(q) = n
    BY <1>2
  <2> QED
    BY <1>3, <2>1
<1>5. DOMAIN Listing(d) = 1 .. N
  BY <1>3
<1>6. Listing(d) \in Seq(C)
  BY <1>1, <1>3, <1>4
<1>7. ASSUME NEW q \in C PROVE \E n \in 1 .. N : Listing(d)[n] = q
  <2>1. Rank(q) \in 1 .. N
    BY <1>2
  <2>2. Listing(d)[Rank(q)] \in C /\ Rank(Listing(d)[Rank(q)]) = Rank(q)
    BY <1>4, <2>1
  <2> QED
    BY <1>2, <2>1, <2>2
<1>8. ASSUME NEW m \in 1 .. N, NEW n \in 1 .. N, Listing(d)[m] = Listing(d)[n] PROVE m = n
  BY <1>4, <1>8
<1> QED
  BY <1>5, <1>6, <1>7, <1>8
-----------------------------------------------------------------------------
(* Type correctness.                                                        *)

Pcs == {"idle", "lstatRoot", "mkdirRoot", "walkRoot", "walk", "make", "waiting", "restore", "done"}
Item == [op : {"visit", "list"}, path : Seq(Name), isDir : BOOLEAN]
Chmod == [path : Seq(Name), mode : Mode]
Err == [kind : {"nil", "coded", "raw"}, code : Code \cup Errno \cup {""},
        msg : Message \cup {"", "unsupported file type"}]

LEMMA TypeParts ==
  TypeOK <=> /\ FSTypeOK /\ pc \in Pcs /\ src \in Seq(Name) /\ dst \in Seq(Name)
             /\ todo \in Seq(Item) /\ seen \in [kind : Kind, mode : Mode]
             /\ pending \in Seq(Chmod) /\ walkErr \in Err /\ chmodErr \in Err
             /\ faults \in 0 .. MaxFaults
BY DEF TypeOK, Pcs, Item, Chmod, Err

LEMMA TypePartsNext ==
  /\ FSTypeOK' /\ pc' \in Pcs /\ src' \in Seq(Name) /\ dst' \in Seq(Name)
  /\ todo' \in Seq(Item) /\ seen' \in [kind : Kind, mode : Mode]
  /\ pending' \in Seq(Chmod) /\ walkErr' \in Err /\ chmodErr' \in Err
  /\ faults' \in 0 .. MaxFaults
  => TypeOK'
BY DEF TypeOK, Pcs, Item, Chmod, Err

LEMMA RawType ==
  ASSUME NEW e \in Errno
  PROVE  Raw(e) \in Err /\ Raw(e) # nil
BY DEF Raw, nil, Err

LEMMA CodedType ==
  ASSUME NEW c \in Code, NEW m \in Message \cup {"unsupported file type"}
  PROVE  NewError(c, m) \in Err /\ NewError(c, m) # nil
BY DEF NewError, nil, Err

LEMMA ErrnoTypes ==
  ASSUME NEW p
  PROVE  /\ WalkErrno(p) \in Errno \cup {"ok"}
         /\ LstatErrno(p) \in Errno \cup {"ok"}
         /\ OpenErrno(p) \in Errno \cup {"ok"}
         /\ CreateErrno(p) \in Errno \cup {"ok"}
<1>1. WalkErrno(p) \in Errno \cup {"ok"}
  BY DEF WalkErrno, Errno
<1>2. ASSUME NEW q PROVE LstatErrno(q) \in Errno \cup {"ok"}
  BY DEF LstatErrno, WalkErrno, Errno
<1>3. OpenErrno(p) \in Errno \cup {"ok"}
  BY <1>2 DEF OpenErrno
<1>4. CreateErrno(p) \in Errno \cup {"ok"}
  BY <1>1 DEF CreateErrno, Errno
<1> QED
  BY <1>1, <1>2, <1>3, <1>4

LEMMA ItemTypes ==
  ASSUME NEW p \in Seq(Name), NEW b \in BOOLEAN
  PROVE  /\ Visit(p, b) \in Item /\ Visit(p, b).op = "visit" /\ Visit(p, b).path = p
         /\ Visit(p, b).isDir = b
         /\ List(p) \in Item /\ List(p).op = "list" /\ List(p).path = p /\ List(p).isDir
BY DEF Visit, List, Item

LEMMA ListType ==
  ASSUME NEW p \in Seq(Name)
  PROVE  List(p) \in Item /\ List(p).op = "list" /\ List(p).path = p /\ List(p).isDir
BY DEF List, Item

LEMMA FollowType ==
  ASSUME FSTypeOK, NEW p \in Seq(Name)
  PROVE  Follow(p) \in Seq(Name)
<1>1. CASE KindAt(p) = "symlink"
  <2>1. p # << >>
    BY <1>1 DEF KindAt
  <2>2. inode[entry[p]] \in Node
    BY <1>1, <2>1, KindAtEntry
  <2>3. inode[entry[p]].target \in Path \cup {<< >>}
    BY <2>2 DEF Node
  <2>4. Follow(p) = inode[entry[p]].target
    BY <1>1 DEF Follow
  <2>5. Path \cup {<< >>} \subseteq Seq(Name)
    <3>1. << >> \in Seq(Name)
      OBVIOUS
    <3>2. Path \subseteq Seq(Name)
      BY PathAssumption
    <3> QED
      BY <3>1, <3>2, Zenon
  <2> QED
    BY <2>3, <2>4, <2>5
<1>2. CASE KindAt(p) # "symlink"
  BY <1>2 DEF Follow
<1> QED
  BY <1>1, <1>2

\* What ReadDir puts in front of the rest: one visit per entry.
LEMMA VisitsFacts ==
  ASSUME FSTypeOK, NEW p \in Seq(Name)
  PROVE  LET at == Listing(Follow(p))
         IN  /\ Visits(p) \in Seq(Item) /\ DOMAIN Visits(p) = DOMAIN at
             /\ \A n \in DOMAIN at :
                  /\ at[n] \in Children(Follow(p))
                  /\ Visits(p)[n].op = "visit"
                  /\ Visits(p)[n].path = Append(p, Last(at[n]))
                  /\ Visits(p)[n].isDir <=> KindAt(at[n]) = "dir"
<1> DEFINE at == Listing(Follow(p))
           N == Len(at)
           b(n) == KindAt(at[n]) = "dir"
<1>1. at \in Seq(Children(Follow(p)))
  BY ListingFacts
<1>2. N \in Nat /\ DOMAIN at = 1 .. N
  BY <1>1
<1>3. Visits(p) = [n \in 1 .. N |-> Visit(Append(p, Last(at[n])), b(n))]
  BY <1>2 DEF Visits
<1>4. ASSUME NEW n \in 1 .. N
      PROVE  /\ at[n] \in Children(Follow(p)) /\ Append(p, Last(at[n])) \in Seq(Name)
             /\ Visits(p)[n] = Visit(Append(p, Last(at[n])), b(n))
  <2>1. at[n] \in Children(Follow(p))
    BY <1>1, <1>2
  <2>2. Last(at[n]) \in Name
    BY <2>1, ChildFacts
  <2> QED
    BY <1>3, <2>1, <2>2
<1>5. ASSUME NEW n \in 1 .. N PROVE b(n) \in BOOLEAN
  OBVIOUS
<1>6. ASSUME NEW n \in 1 .. N
      PROVE  /\ Visits(p)[n] \in Item /\ Visits(p)[n].op = "visit"
             /\ Visits(p)[n].path = Append(p, Last(at[n]))
             /\ Visits(p)[n].isDir <=> b(n)
  <2>1. PICK v : v = b(n)
    OBVIOUS
  <2>2. v \in BOOLEAN
    BY <1>5, <2>1
  <2>3. PICK q : q = Append(p, Last(at[n]))
    OBVIOUS
  <2>4. Visits(p)[n] = Visit(q, v) /\ q \in Seq(Name)
    BY <1>4, <2>1, <2>3, Zenon
  <2>5. Visit(q, v) \in Item /\ Visit(q, v).op = "visit" /\ Visit(q, v).path = q /\ Visit(q, v).isDir = v
    BY <2>2, <2>4, ItemTypes, Zenon
  <2> QED
    BY <2>1, <2>3, <2>4, <2>5, Zenon
<1>7. Visits(p) \in Seq(Item)
  BY <1>2, <1>3, <1>6
<1>8. DOMAIN Visits(p) = 1 .. N
  BY <1>3
<1> QED
  BY <1>2, <1>4, <1>6, <1>7, <1>8

LEMMA HeadTypes ==
  ASSUME TypeOK, todo # << >>
  PROVE  /\ Head(todo) \in Item /\ Head(todo).path \in Seq(Name) /\ Tail(todo) \in Seq(Item)
         /\ Head(todo).op \in {"visit", "list"} /\ Head(todo).isDir \in BOOLEAN
<1>1. todo \in Seq(Item)
  BY TypeParts
<1>2. Head(todo) \in Item /\ Tail(todo) \in Seq(Item)
  BY <1>1
<1> QED
  BY <1>2 DEF Item

LEMMA FaultTypes ==
  ASSUME TypeOK
  PROVE  /\ faults' = faults => faults' \in 0 .. MaxFaults
         /\ \A what : Fails(what) => faults' \in 0 .. MaxFaults /\ faults' # 0
<1>1. MaxFaults \in Nat
  BY WalkAssumption
<1>2. faults \in 0 .. MaxFaults
  BY TypeParts
<1>3. ASSUME NEW what, Fails(what) PROVE faults' \in 0 .. MaxFaults /\ faults' # 0
  <2>1. faults < MaxFaults /\ faults' = faults + 1
    BY <1>3 DEF Fails
  <2> QED
    BY <1>1, <1>2, <2>1
<1> QED
  BY <1>2, <1>3

\* What a step of the walk can do to the share.
Rests == UNCHANGED fsvars

Puts(t, node, i) ==
  /\ CreateErrno(t) = "ok" /\ i \in NewInode /\ inode[i].kind = "free"
  /\ node \in Node /\ node.kind \in {"dir", "file"} /\ node.target = << >>
  /\ entry' = [entry EXCEPT ![t] = i] /\ inode' = [inode EXCEPT ![i] = node]
  /\ guestOps' = guestOps

LEMMA PutFacts ==
  ASSUME FSTypeOK, NEW t, NEW node \in Node, Put(t, node), CreateErrno(t) = "ok",
         node.kind \in {"dir", "file"}, node.target = << >>
  PROVE  FSTypeOK' /\ \E i \in NewInode : Puts(t, node, i)
<1> DEFINE free == {j \in NewInode : inode[j].kind = "free"}
           i == CHOOSE j \in free : TRUE
<1>1. i \in free
  BY DEF Put
<1>2. entry' = [entry EXCEPT ![t] = i] /\ inode' = [inode EXCEPT ![i] = node] /\ guestOps' = guestOps
  BY DEF Put
<1> HIDE DEF i
<1>3. i \in NewInode /\ i \in Inode /\ inode[i].kind = "free"
  BY <1>1, WalkAssumption
<1>4. FSTypeOK'
  BY <1>2, <1>3 DEF FSTypeOK
<1> QED
  BY <1>2, <1>3, <1>4 DEF Puts

LEMMA RestsType ==
  ASSUME FSTypeOK, Rests
  PROVE  FSTypeOK'
BY DEF Rests, fsvars, FSTypeOK

LEMMA StopShape ==
  ASSUME TypeOK, NEW e \in Err, StopWalk(e), faults' \in 0 .. MaxFaults
  PROVE  TypeOK' /\ Rests
<1>1. FSTypeOK' /\ Rests
  BY TypeParts, RestsType DEF StopWalk, Rests
<1> QED
  BY <1>1, TypeParts, TypePartsNext DEF StopWalk, Pcs

LEMMA ReturnShape ==
  ASSUME TypeOK, NEW e \in Err, Return(e), faults' \in 0 .. MaxFaults
  PROVE  TypeOK' /\ Rests
<1>1. FSTypeOK' /\ Rests
  BY TypeParts, RestsType DEF Return, Rests
<1> QED
  BY <1>1, TypeParts, TypePartsNext DEF Return, Pcs

LEMMA LookShape ==
  ASSUME TypeOK, NEW p \in Seq(Name), KindAt(p) # "none", NEW to \in Pcs, Look(p, to), todo' = todo
  PROVE  TypeOK' /\ Rests
<1>1. FSTypeOK' /\ Rests
  BY TypeParts, RestsType DEF Look, Rests
<1>2. seen' \in [kind : Kind, mode : Mode]
  <2>1. CASE p = << >>
    BY <2>1, WalkAssumption DEF Look, KindAt, Kind
  <2>2. CASE p # << >>
    <3>1. inode[entry[p]] \in Node /\ KindAt(p) = inode[entry[p]].kind
      BY <2>2, KindAtEntry, TypeParts
    <3>2. KindAt(p) \in Kind /\ inode[entry[p]].mode \in Mode
      BY <3>1 DEF Node
    <3>3. seen' = [kind |-> KindAt(p), mode |-> inode[entry[p]].mode]
      BY <2>2 DEF Look
    <3> QED
      BY <3>2, <3>3
  <2> QED
    BY <2>1, <2>2
<1> QED
  BY <1>1, <1>2, TypeParts, TypePartsNext DEF Look

LEMMA UnresolvedType ==
  ASSUME NEW p, NEW msg \in Message, LstatErrno(p) # "ok" \/ KindAt(p) = "symlink"
  PROVE  Unresolved(p, msg) \in Err /\ Unresolved(p, msg) # nil
<1>1. CASE LstatErrno(p) = "ELOOP" \/ KindAt(p) = "symlink"
  <2>1. NewError("EINVAL", "symlinks are not supported") \in Err
        /\ NewError("EINVAL", "symlinks are not supported") # nil
    BY CodedType DEF Code, Message
  <2>2. Unresolved(p, msg) = NewError("EINVAL", "symlinks are not supported")
    BY <1>1 DEF Unresolved
  <2> QED
    BY <2>1, <2>2
<1>2. CASE ~(LstatErrno(p) = "ELOOP" \/ KindAt(p) = "symlink") /\ LstatErrno(p) = "ENOENT"
  <2>1. NewError("ENOENT", msg) \in Err /\ NewError("ENOENT", msg) # nil
    BY CodedType DEF Code
  <2> QED
    BY <1>2, <2>1 DEF Unresolved
<1>3. CASE ~(LstatErrno(p) = "ELOOP" \/ KindAt(p) = "symlink") /\ LstatErrno(p) # "ENOENT"
  <2>1. Raw(LstatErrno(p)) \in Err /\ Raw(LstatErrno(p)) # nil
    BY <1>3, RawType, ErrnoTypes
  <2> QED
    BY <1>3, <2>1 DEF Unresolved
<1> QED
  BY <1>1, <1>2, <1>3

\* A request gets past the resolution of its paths exactly if the source is a
\* directory and the destination free below one.
LEMMA ResolveFacts ==
  ASSUME NEW s, NEW d
  PROVE  /\ ResolveError(s, d) \in Err
         /\ ResolveError(s, d) = nil <=>
              /\ LstatErrno(s) = "ok" /\ KindAt(s) = "dir"
              /\ ~(LstatErrno(d) = "ok" /\ KindAt(d) # "symlink")
              /\ CreateErrno(d) \in {"ok", "ENAMETOOLONG"}
<1>1. CASE LstatErrno(s) # "ok" \/ KindAt(s) = "symlink"
  <2>1. /\ Unresolved(s, "source not found") \in Err
        /\ Unresolved(s, "source not found") # nil
    BY <1>1, UnresolvedType DEF Message
  <2>2. ResolveError(s, d) = Unresolved(s, "source not found")
    BY <1>1 DEF ResolveError
  <2> QED
    BY <1>1, <2>1, <2>2
<1>2. CASE LstatErrno(s) = "ok" /\ KindAt(s) \notin {"symlink", "dir"}
  <2>1. KindAt(s) # "none"
    BY <1>2, ErrnoFacts
  <2>2. ResolveError(s, d) = NewError("EINVAL", "source must be a directory")
    BY <1>2, <2>1 DEF ResolveError
  <2>3. /\ NewError("EINVAL", "source must be a directory") \in Err
        /\ NewError("EINVAL", "source must be a directory") # nil
    BY CodedType DEF Code, Message
  <2> QED
    BY <1>2, <2>2, <2>3
<1>3. CASE LstatErrno(s) = "ok" /\ KindAt(s) = "dir"
  <2>1. CASE LstatErrno(d) = "ok" /\ KindAt(d) # "symlink"
    <3>1. ResolveError(s, d) = NewError("EEXIST", "destination already exists")
      BY <1>3, <2>1 DEF ResolveError
    <3>2. /\ NewError("EEXIST", "destination already exists") \in Err
          /\ NewError("EEXIST", "destination already exists") # nil
      BY CodedType DEF Code, Message
    <3> QED
      BY <2>1, <3>1, <3>2
  <2>2. CASE ~(LstatErrno(d) = "ok" /\ KindAt(d) # "symlink") /\ CreateErrno(d) \in {"ok", "ENAMETOOLONG"}
    BY <1>3, <2>2 DEF ResolveError, nil, Err
  <2>3. CASE ~(LstatErrno(d) = "ok" /\ KindAt(d) # "symlink") /\ CreateErrno(d) \notin {"ok", "ENAMETOOLONG"}
    <3>1. ResolveError(s, d) = Unresolved(d, "destination parent does not exist")
      BY <1>3, <2>3 DEF ResolveError
    <3>2. LstatErrno(d) # "ok" \/ KindAt(d) = "symlink"
      BY <2>3
    <3>3. /\ Unresolved(d, "destination parent does not exist") \in Err
          /\ Unresolved(d, "destination parent does not exist") # nil
      BY <3>2, UnresolvedType DEF Message
    <3> QED
      BY <2>3, <3>1, <3>3
  <2> QED
    BY <2>1, <2>2, <2>3
<1> QED
  BY <1>1, <1>2, <1>3

LEMMA MakeDirectoryShape ==
  ASSUME TypeOK, NEW t \in Seq(Name), CreateErrno(t) = "ok", MakeDirectory(t)
  PROVE  /\ FSTypeOK' /\ pending' \in Seq(Chmod)
         /\ pending' = Append(pending, [path |-> t, mode |-> seen.mode])
         /\ \E i \in NewInode : \E node \in Node :
              node = [kind |-> "dir", content |-> Empty, mode |-> Masked[TempMode], target |-> << >>]
              /\ Puts(t, node, i)
<1> DEFINE node == [kind |-> "dir", content |-> Empty, mode |-> Masked[TempMode], target |-> << >>]
<1>1. Masked[TempMode] \in Mode /\ seen.mode \in Mode
  BY WalkAssumption, InitAssumption, TypeParts
<1>2. node \in Node /\ node.kind = "dir" /\ node.target = << >>
  BY <1>1 DEF Node, Kind
<1>3. Put(t, node) /\ pending' = Append(pending, [path |-> t, mode |-> seen.mode])
  BY DEF MakeDirectory
<1> HIDE DEF node
<1>4. FSTypeOK' /\ \E i \in NewInode : Puts(t, node, i)
  BY <1>2, <1>3, PutFacts, TypeParts
<1>5. [path |-> t, mode |-> seen.mode] \in Chmod
  BY <1>1 DEF Chmod
<1>6. pending' \in Seq(Chmod)
  BY <1>3, <1>5, TypeParts
<1> QED
  BY <1>2, <1>3, <1>4, <1>6 DEF node

\* A step of the walk leaves the share alone, makes an entry or changes the mode of
\* what a path in the list names.
Chmods(r) ==
  /\ OpenErrno(r.path) = "ok" /\ entry' = entry /\ guestOps' = guestOps
  /\ inode' = [inode EXCEPT ![entry[Follow(r.path)]].mode = r.mode]

Shape ==
  \/ Rests
  \/ \E t \in Path, node \in Node : \E i \in NewInode : Puts(t, node, i)
  \/ pc = "restore" /\ pending # << >> /\ Chmods(Last(pending))

\* What the first step makes of a request.
StartOn(r) ==
  /\ src' = r[1] /\ dst' = r[2]
  /\ \/ walkErr' = ResolveError(r[1], r[2]) /\ UNCHANGED faults
     \/ /\ Fails("lstat")
        /\ walkErr' \in {Raw("EACCES"), NewError("EPERM", "path must stay within the shared root")}
  /\ pc' = IF walkErr' = nil THEN "lstatRoot" ELSE "done"

LEMMA StartCases ==
  ASSUME Start
  PROVE  /\ pc = "idle" /\ \E r \in Request : StartOn(r)
         /\ UNCHANGED <<fsvars, todo, seen, pending, chmodErr>>
BY DEF Start, StartOn

LEMMA StartShape ==
  ASSUME TypeOK, Start
  PROVE  TypeOK' /\ Rests
<1>1. PICK r \in Request : StartOn(r)
  BY StartCases
<1>2. src' \in Seq(Name) /\ dst' \in Seq(Name)
  BY <1>1, WalkAssumption DEF StartOn
<1>3. Raw("EACCES") \in Err /\ NewError("EPERM", "path must stay within the shared root") \in Err
  BY RawType, CodedType DEF Errno, Code, Message
<1>4. walkErr' \in Err /\ pc' \in Pcs /\ faults' \in 0 .. MaxFaults
  BY <1>1, <1>3, ResolveFacts, FaultTypes DEF Pcs, StartOn
<1>5. Rests /\ FSTypeOK'
  BY TypeParts, RestsType DEF Start, Rests
<1>6. UNCHANGED <<todo, seen, pending, chmodErr>>
  BY DEF Start
<1> QED
  BY <1>2, <1>4, <1>5, <1>6, TypeParts, TypePartsNext

LEMMA LstatRootShape ==
  ASSUME TypeOK, LstatRoot
  PROVE  TypeOK' /\ Rests
<1> DEFINE errno == LstatErrno(src)
<1>1. CASE Fails("lstat") /\ Return(Raw("EACCES"))
  <2>1. Raw("EACCES") \in Err
    BY RawType DEF Errno
  <2> QED
    BY <1>1, <2>1, ReturnShape, FaultTypes
<1>2. CASE errno # "ok" /\ Return(Raw(errno)) /\ UNCHANGED faults
  BY <1>2, ReturnShape, RawType, ErrnoTypes, FaultTypes
<1>3. CASE Return(NewError("EINVAL", "source must be a directory")) /\ UNCHANGED faults
  <2>1. NewError("EINVAL", "source must be a directory") \in Err
    BY CodedType DEF Code, Message
  <2> QED
    BY <1>3, <2>1, ReturnShape, FaultTypes
<1>4. CASE KindAt(src) = "dir" /\ Look(src, "mkdirRoot") /\ todo' = todo
  <2>1. "mkdirRoot" \in Pcs /\ KindAt(src) # "none"
    BY <1>4 DEF Pcs
  <2> QED
    BY <1>4, <2>1, LookShape, TypeParts
<1> QED
  BY <1>1, <1>2, <1>3, <1>4 DEF LstatRoot

LEMMA MkdirRootShape ==
  ASSUME TypeOK, MkdirRoot
  PROVE  TypeOK' /\ Shape
<1>1. CASE CreateErrno(dst) = "ok" /\ MakeDirectory(dst) /\ pc' = "walkRoot"
           /\ UNCHANGED <<src, dst, todo, seen, walkErr, chmodErr, faults>>
  <2>1. dst \in Path
    BY <1>1, ErrnoFacts
  <2>2. /\ FSTypeOK' /\ pending' \in Seq(Chmod)
        /\ \E i \in NewInode, node \in Node : Puts(dst, node, i)
    BY <1>1, MakeDirectoryShape, TypeParts
  <2> QED
    BY <1>1, <2>1, <2>2, TypeParts, TypePartsNext DEF Shape, Pcs
<1>2. CASE CreateErrno(dst) # "ok" /\ Return(Raw(CreateErrno(dst))) /\ UNCHANGED faults
  BY <1>2, ReturnShape, RawType, ErrnoTypes, FaultTypes DEF Shape
<1>3. CASE Fails("mkdir") /\ Return(Raw("EACCES"))
  <2>1. Raw("EACCES") \in Err
    BY RawType DEF Errno
  <2> QED
    BY <1>3, <2>1, ReturnShape, FaultTypes DEF Shape
<1> QED
  BY <1>1, <1>2, <1>3 DEF MkdirRoot

LEMMA WalkRootShape ==
  ASSUME TypeOK, WalkRoot
  PROVE  TypeOK' /\ Rests
<1>1. CASE LstatErrno(src) # "ok" /\ StopWalk(Raw(LstatErrno(src))) /\ UNCHANGED faults
  BY <1>1, StopShape, RawType, ErrnoTypes, FaultTypes
<1>2. CASE /\ pc' = "walk" /\ todo' = IF KindAt(src) = "dir" THEN <<List(src)>> ELSE << >>
           /\ UNCHANGED <<fsvars, src, dst, seen, pending, walkErr, chmodErr, faults>>
  <2>1. FSTypeOK' /\ Rests
    BY <1>2, TypeParts, RestsType DEF Rests
  <2>2. List(src) \in Item
    BY ItemTypes, TypeParts
  <2>3. <<List(src)>> \in Seq(Item) /\ << >> \in Seq(Item)
    BY <2>2
  <2>4. todo' \in Seq(Item)
    BY <1>2, <2>3
  <2> QED
    BY <1>2, <2>1, <2>4, TypeParts, TypePartsNext DEF Pcs
<1>3. CASE Fails("lstat") /\ StopWalk(Raw("EACCES"))
  <2>1. Raw("EACCES") \in Err
    BY RawType DEF Errno
  <2> QED
    BY <1>3, <2>1, StopShape, FaultTypes
<1> QED
  BY <1>1, <1>2, <1>3 DEF WalkRoot

LEMMA ReadDirShape ==
  ASSUME TypeOK, ReadDir
  PROVE  TypeOK' /\ Rests
<1> DEFINE p == Head(todo).path
<1>1. todo # << >>
  BY DEF ReadDir
<1>2. p \in Seq(Name) /\ Tail(todo) \in Seq(Item)
  BY <1>1, HeadTypes
<1>3. CASE OpenErrno(p) # "ok" /\ StopWalk(Raw(OpenErrno(p))) /\ UNCHANGED faults
  BY <1>3, StopShape, RawType, ErrnoTypes, FaultTypes
<1>4. CASE StopWalk(Raw("ENOTDIR")) /\ UNCHANGED faults
  <2>1. Raw("ENOTDIR") \in Err
    BY RawType DEF Errno
  <2> QED
    BY <1>4, <2>1, StopShape, FaultTypes
<1>5. CASE Fails("readdir") /\ StopWalk(Raw("EIO"))
  <2>1. Raw("EIO") \in Err
    BY RawType DEF Errno
  <2> QED
    BY <1>5, <2>1, StopShape, FaultTypes
<1>6. CASE /\ todo' = Visits(p) \o Tail(todo)
           /\ UNCHANGED <<fsvars, pc, src, dst, seen, pending, walkErr, chmodErr, faults>>
  <2>1. FSTypeOK' /\ Rests
    BY <1>6, TypeParts, RestsType DEF Rests
  <2>2. Visits(p) \in Seq(Item)
    BY <1>2, VisitsFacts, TypeParts
  <2> HIDE DEF p
  <2>3. todo' \in Seq(Item)
    BY <1>2, <1>6, <2>2
  <2> QED
    BY <1>6, <2>1, <2>3, TypeParts, TypePartsNext
<1> QED
  BY <1>3, <1>4, <1>5, <1>6 DEF ReadDir

LEMMA LstatEntryShape ==
  ASSUME TypeOK, LstatEntry
  PROVE  TypeOK' /\ Rests
<1> DEFINE p == Head(todo).path
<1>1. todo # << >>
  BY DEF LstatEntry
<1>2. p \in Seq(Name)
  BY <1>1, HeadTypes
<1>3. CASE LstatErrno(p) # "ok" /\ StopWalk(Raw(LstatErrno(p))) /\ UNCHANGED faults
  BY <1>3, StopShape, RawType, ErrnoTypes, FaultTypes
<1>4. CASE /\ \E m \in {"symlinks are not supported", "hard links are not supported",
                        "unsupported file type"} : StopWalk(NewError("EINVAL", m))
           /\ UNCHANGED faults
  <2>1. ASSUME NEW m \in {"symlinks are not supported", "hard links are not supported",
                          "unsupported file type"}
        PROVE  NewError("EINVAL", m) \in Err
    BY CodedType DEF Code, Message
  <2> QED
    BY <1>1, <1>4, <2>1, StopShape, FaultTypes
<1>5. CASE KindAt(p) \in {"dir", "file"} /\ Look(p, "make") /\ todo' = todo
  <2>1. "make" \in Pcs /\ KindAt(p) # "none"
    BY <1>5 DEF Pcs
  <2> QED
    BY <1>2, <1>5, <2>1, LookShape
<1>6. CASE Fails("lstat") /\ StopWalk(Raw("EACCES"))
  <2>1. Raw("EACCES") \in Err
    BY RawType DEF Errno
  <2> QED
    BY <1>6, <2>1, StopShape, FaultTypes
<1> QED
  BY <1>3, <1>4, <1>5, <1>6 DEF LstatEntry

LEMMA TargetType ==
  ASSUME TypeOK, NEW p \in Seq(Name)
  PROVE  TargetOf(p) \in Seq(Name)
<1>1. src \in Seq(Name) /\ dst \in Seq(Name)
  BY TypeParts
<1>2. Len(src) + 1 \in Nat \ {0} /\ Len(p) \in Nat
  BY <1>1
<1>3. SubSeq(p, Len(src) + 1, Len(p)) \in Seq(Name)
  BY <1>2, SubSeqProperties
<1> QED
  BY <1>1, <1>3 DEF TargetOf

LEMMA DescendType ==
  ASSUME TypeOK, todo # << >>, Descend
  PROVE  /\ todo' \in Seq(Item) /\ pc' \in Pcs
         /\ src' \in Seq(Name) /\ dst' \in Seq(Name) /\ seen' \in [kind : Kind, mode : Mode]
         /\ walkErr' \in Err /\ chmodErr' \in Err /\ faults' \in 0 .. MaxFaults
<1> DEFINE l == List(Head(todo).path)
           front == IF Head(todo).isDir THEN <<l>> ELSE << >>
<1>1. l \in Item /\ Tail(todo) \in Seq(Item)
  BY HeadTypes, ItemTypes
<1> HIDE DEF l
<1>2. front \in Seq(Item)
  BY <1>1
<1>3. todo' = front \o Tail(todo)
  BY DEF Descend, l
<1> HIDE DEF front
<1>4. todo' \in Seq(Item)
  BY <1>1, <1>2, <1>3
<1> QED
  BY <1>4, TypeParts DEF Descend, Pcs

LEMMA MakeDirShape ==
  ASSUME TypeOK, MakeDir, todo # << >>
  PROVE  TypeOK' /\ Shape
<1> DEFINE t == TargetOf(Head(todo).path)
<1>1. t \in Seq(Name)
  BY HeadTypes, TargetType
<1>2. CASE CreateErrno(t) = "ok" /\ MakeDirectory(t) /\ Descend
  <2>1. t \in Path
    BY <1>2, ErrnoFacts
  <2>2. /\ FSTypeOK' /\ pending' \in Seq(Chmod)
        /\ \E i \in NewInode, node \in Node : Puts(t, node, i)
    BY <1>1, <1>2, MakeDirectoryShape
  <2> QED
    BY <1>2, <2>1, <2>2, DescendType, TypePartsNext DEF Shape
<1>3. CASE CreateErrno(t) # "ok" /\ StopWalk(Raw(CreateErrno(t))) /\ UNCHANGED faults
  BY <1>3, StopShape, RawType, ErrnoTypes, FaultTypes DEF Shape
<1>4. CASE Fails("mkdir") /\ StopWalk(Raw("EACCES"))
  <2>1. Raw("EACCES") \in Err
    BY RawType DEF Errno
  <2> QED
    BY <1>4, <2>1, StopShape, FaultTypes DEF Shape
<1> QED
  BY <1>2, <1>3, <1>4 DEF MakeDir

FileCopy(p) ==
  [kind |-> "file", content |-> inode[entry[Follow(p)]].content, mode |-> seen.mode, target |-> << >>]

\* The ways MakeFile can go.
LEMMA MakeFileCases ==
  ASSUME MakeFile
  PROVE  LET p == Head(todo).path
         IN  \/ /\ FileErrno(p) = "ok" /\ Descend /\ UNCHANGED pending
                /\ Put(TargetOf(p), FileCopy(p))
             \/ FileErrno(p) # "ok" /\ StopWalk(Raw(FileErrno(p))) /\ UNCHANGED faults
             \/ StopWalk(Raw("ENXIO")) /\ UNCHANGED faults
             \/ /\ KindAt(Follow(p)) = "other" /\ pc' = "waiting"
                /\ UNCHANGED <<fsvars, walkvars, faults>>
             \/ Fails("reflink") /\ \E e \in {Raw("EIO"), NewError("EOPNOTSUPP",
                  "reflink is not supported for this source and destination")} : StopWalk(e)
BY DEF MakeFile, FileCopy

LEMMA FileCopyFacts ==
  ASSUME TypeOK, NEW p \in Seq(Name), FileErrno(p) = "ok"
  PROVE  /\ FileCopy(p) \in Node /\ FileCopy(p).kind = "file" /\ FileCopy(p).target = << >>
         /\ CreateErrno(TargetOf(p)) = "ok" /\ OpenErrno(p) = "ok" /\ KindAt(Follow(p)) = "file"
         /\ TargetOf(p) \in Path
<1>1. CreateErrno(TargetOf(p)) = "ok" /\ OpenErrno(p) = "ok" /\ KindAt(Follow(p)) = "file"
  BY DEF FileErrno
<1>2. Follow(p) # << >>
  BY <1>1 DEF KindAt
<1>3. inode[entry[Follow(p)]] \in Node
  BY <1>1, <1>2, KindAtEntry, TypeParts
<1>4. inode[entry[Follow(p)]].content \in Content \cup {Empty} /\ seen.mode \in Mode
  BY <1>3, TypeParts DEF Node
<1>5. FileCopy(p) \in Node /\ FileCopy(p).kind = "file" /\ FileCopy(p).target = << >>
  BY <1>4 DEF FileCopy, Node, Kind
<1> QED
  BY <1>1, <1>5, ErrnoFacts

LEMMA FileErrnoType ==
  ASSUME NEW p
  PROVE  FileErrno(p) \in Errno \cup {"ok"}
<1>1. OpenErrno(p) \in Errno \cup {"ok"} /\ CreateErrno(TargetOf(p)) \in Errno \cup {"ok"}
  BY ErrnoTypes
<1>2. "EISDIR" \in Errno /\ "EINVAL" \in Errno
  BY DEF Errno
<1>3. FileErrno(p) \in {OpenErrno(p), CreateErrno(TargetOf(p)), "ok", "EISDIR", "EINVAL"}
  BY DEF FileErrno
<1> QED
  BY <1>1, <1>2, <1>3

LEMMA MakeFileShape ==
  ASSUME TypeOK, MakeFile, todo # << >>
  PROVE  TypeOK' /\ Shape
<1> DEFINE p == Head(todo).path
           refused == NewError("EOPNOTSUPP", "reflink is not supported for this source and destination")
<1>1. p \in Seq(Name)
  BY HeadTypes
<1>2. CASE FileErrno(p) = "ok" /\ Descend /\ UNCHANGED pending /\ Put(TargetOf(p), FileCopy(p))
  <2>1. FSTypeOK' /\ \E i \in NewInode : Puts(TargetOf(p), FileCopy(p), i)
    BY <1>1, <1>2, FileCopyFacts, PutFacts, TypeParts
  <2>2. TargetOf(p) \in Path /\ FileCopy(p) \in Node
    BY <1>1, <1>2, FileCopyFacts
  <2>3. pending' \in Seq(Chmod)
    BY <1>2, TypeParts
  <2>4. Shape
    BY <2>1, <2>2 DEF Shape
  <2> QED
    BY <1>2, <2>1, <2>3, <2>4, DescendType, TypePartsNext
<1>3. CASE FileErrno(p) # "ok" /\ StopWalk(Raw(FileErrno(p))) /\ UNCHANGED faults
  <2>1. FileErrno(p) \in Errno
    BY <1>3, FileErrnoType
  <2> QED
    BY <1>3, <2>1, StopShape, RawType, FaultTypes DEF Shape
<1>4. CASE Fails("reflink") /\ \E e \in {Raw("EIO"), refused} : StopWalk(e)
  <2>1. Raw("EIO") \in Err /\ refused \in Err
    BY RawType, CodedType DEF Errno, Code, Message
  <2> QED
    BY <1>4, <2>1, StopShape, FaultTypes DEF Shape
<1>5. CASE StopWalk(Raw("ENXIO")) /\ UNCHANGED faults
  <2>1. Raw("ENXIO") \in Err
    BY RawType DEF Errno
  <2> QED
    BY <1>5, <2>1, StopShape, FaultTypes DEF Shape
<1>6. CASE pc' = "waiting" /\ UNCHANGED <<fsvars, walkvars, faults>>
  <2>1. Rests /\ FSTypeOK'
    BY <1>6, TypeParts, RestsType DEF Rests
  <2> QED
    BY <1>6, <2>1, TypeParts, TypePartsNext DEF walkvars, Pcs, Shape
<1> QED
  BY <1>2, <1>3, <1>4, <1>5, <1>6, MakeFileCases

LEMMA WriterComesShape ==
  ASSUME TypeOK, WriterComes
  PROVE  TypeOK' /\ Rests
<1> DEFINE errno == CreateErrno(TargetOf(Head(todo).path))
           e == IF errno = "ok" THEN "EINVAL" ELSE errno
<1>1. e \in Errno /\ e # "ok"
  BY ErrnoTypes DEF Errno
<1>2. StopWalk(Raw(e)) /\ UNCHANGED faults
  BY DEF WriterComes
<1> HIDE DEF e
<1> QED
  BY <1>1, <1>2, StopShape, RawType, FaultTypes

LEMMA WalkEndShape ==
  ASSUME TypeOK, WalkEnd
  PROVE  TypeOK' /\ Rests
<1>1. Rests /\ FSTypeOK'
  BY TypeParts, RestsType DEF WalkEnd, Rests
<1> QED
  BY <1>1, TypeParts, TypePartsNext DEF WalkEnd, walkvars, Pcs

\* The last of the list.
LEMMA PendingFacts ==
  ASSUME TypeOK, pending # << >>
  PROVE  /\ Len(pending) \in Nat \ {0} /\ Last(pending) = pending[Len(pending)]
         /\ Last(pending) \in Chmod /\ Last(pending).path \in Seq(Name) /\ Last(pending).mode \in Mode
         /\ Front(pending) \in Seq(Chmod) /\ Len(Front(pending)) = Len(pending) - 1
         /\ \A n \in 1 .. Len(pending) - 1 : Front(pending)[n] = pending[n]
<1>1. pending \in Seq(Chmod)
  BY TypeParts
<1>2. Len(pending) \in Nat \ {0}
  BY <1>1, EmptySeq
<1>3. Last(pending) = pending[Len(pending)] /\ Last(pending) \in Chmod
  BY <1>1, <1>2 DEF Last
<1>4. Front(pending) = SubSeq(pending, 1, Len(pending) - 1)
  BY DEF Front
<1>5. /\ Front(pending) \in Seq(Chmod) /\ Len(Front(pending)) = Len(pending) - 1
      /\ \A n \in 1 .. Len(pending) - 1 : Front(pending)[n] = pending[n]
  <2> DEFINE k == Len(pending) - 1
  <2>1. k \in Int /\ 1 \in Int /\ \A n \in 1 .. k : pending[n] \in Chmod
    BY <1>1, <1>2
  <2>2. k \in Nat /\ k - 1 + 1 = k /\ \A n \in 1 .. k : 1 + n - 1 = n
    BY <1>2
  <2> HIDE DEF k
  <2>3. /\ SubSeq(pending, 1, k) \in Seq(Chmod)
        /\ Len(SubSeq(pending, 1, k)) = IF 1 <= k THEN k - 1 + 1 ELSE 0
        /\ \A n \in 1 .. k - 1 + 1 : SubSeq(pending, 1, k)[n] = pending[1 + n - 1]
    BY <2>1, SubSeqProperties
  <2>4. Len(SubSeq(pending, 1, k)) = k
    BY <2>2, <2>3
  <2>5. \A n \in 1 .. k : SubSeq(pending, 1, k)[n] = pending[n]
    BY <2>2, <2>3
  <2> QED
    BY <1>4, <2>3, <2>4, <2>5 DEF k
<1> QED
  BY <1>2, <1>3, <1>5 DEF Chmod

LEMMA ChmodsType ==
  ASSUME FSTypeOK, NEW r, r.mode \in Mode, Chmods(r)
  PROVE  FSTypeOK'
<1>1. entry' = entry /\ guestOps' = guestOps /\ inode' = [inode EXCEPT ![entry[Follow(r.path)]].mode = r.mode]
  BY DEF Chmods
<1>2. PICK i : i = entry[Follow(r.path)]
  OBVIOUS
<1>3. inode' = [inode EXCEPT ![i] = [inode[i] EXCEPT !.mode = r.mode]]
  BY <1>1, <1>2
<1>4. i \in Inode => [inode[i] EXCEPT !.mode = r.mode] \in Node
  BY DEF FSTypeOK, Node
<1> QED
  BY <1>1, <1>3, <1>4 DEF FSTypeOK

LEMMA RestoreShape ==
  ASSUME TypeOK, Restore
  PROVE  TypeOK' /\ Shape
<1> DEFINE p == Last(pending).path
<1>1. CASE pending = << >> /\ pc' = "done" /\ UNCHANGED <<fsvars, walkvars, faults>>
  <2>1. Rests /\ FSTypeOK'
    BY <1>1, TypeParts, RestsType DEF Rests
  <2> QED
    BY <1>1, <2>1, TypeParts, TypePartsNext DEF walkvars, Pcs, Shape
<1>2. CASE /\ pending # << >> /\ OpenErrno(p) = "ok" /\ pending' = Front(pending)
           /\ inode' = [inode EXCEPT ![entry[Follow(p)]].mode = Last(pending).mode]
           /\ UNCHANGED <<entry, guestOps, pc, src, dst, todo, seen, walkErr, chmodErr, faults>>
  <2>1. Chmods(Last(pending)) /\ pc = "restore"
    BY <1>2 DEF Chmods, Restore
  <2>2. FSTypeOK' /\ pending' \in Seq(Chmod)
    BY <1>2, <2>1, PendingFacts, ChmodsType, TypeParts
  <2> QED
    BY <1>2, <2>1, <2>2, TypeParts, TypePartsNext DEF Shape
<1>3. ASSUME NEW e \in Err, pc' = "done", chmodErr' = e, faults' \in 0 .. MaxFaults,
             UNCHANGED <<fsvars, src, dst, todo, seen, pending, walkErr>>
      PROVE  TypeOK' /\ Shape
  <2>1. Rests /\ FSTypeOK'
    BY <1>3, TypeParts, RestsType DEF Rests
  <2> QED
    BY <1>3, <2>1, TypeParts, TypePartsNext DEF Pcs, Shape
<1>4. CASE /\ OpenErrno(p) # "ok" /\ UNCHANGED faults /\ pc' = "done" /\ chmodErr' = Raw(OpenErrno(p))
           /\ UNCHANGED <<fsvars, src, dst, todo, seen, pending, walkErr>>
  BY <1>3, <1>4, RawType, ErrnoTypes, FaultTypes
<1>5. CASE /\ Fails("chmod") /\ pc' = "done" /\ chmodErr' = Raw("EPERM")
           /\ UNCHANGED <<fsvars, src, dst, todo, seen, pending, walkErr>>
  <2>1. Raw("EPERM") \in Err
    BY RawType DEF Errno
  <2> QED
    BY <1>3, <1>5, <2>1, FaultTypes
<1> QED
  BY <1>1, <1>2, <1>4, <1>5 DEF Restore

\* Between its Lstat and what comes of it, an entry stays in front.
Looked == pc \in {"make", "waiting"} => todo # << >> /\ Head(todo).op = "visit"
TypeInv == TypeOK /\ Looked

LEMMA InitType == Init => TypeInv
<1> SUFFICES ASSUME Init PROVE TypeInv
  OBVIOUS
<1>1. FSTypeOK
  BY InitAssumption DEF Init, FSInit, FSTypeOK
<1>2. 0 \in 0 .. MaxFaults
  <2>1. MaxFaults \in Nat
    BY WalkAssumption
  <2> QED
    BY <2>1
<1>3. << >> \in Seq(Name) /\ << >> \in Seq(Item) /\ << >> \in Seq(Chmod)
  OBVIOUS
<1>4. nil \in Err /\ "idle" \in Pcs
  BY DEF nil, Err, Pcs
<1>5. [kind |-> "free", mode |-> TempMode] \in [kind : Kind, mode : Mode]
  BY WalkAssumption DEF Kind
<1> QED
  BY <1>1, <1>2, <1>3, <1>4, <1>5, TypeParts DEF Init, TypeInv, Looked

LEMMA WalkShape ==
  ASSUME TypeInv, WalkStep
  PROVE  TypeOK' /\ Shape
<1> USE DEF TypeInv
<1>1. CASE MakeDir
  BY <1>1, MakeDirShape DEF Looked, MakeDir
<1>2. CASE MakeFile
  BY <1>2, MakeFileShape DEF Looked, MakeFile
<1>3. CASE Start \/ LstatRoot \/ WalkRoot \/ ReadDir \/ LstatEntry \/ WriterComes \/ WalkEnd
  BY <1>3, StartShape, LstatRootShape, WalkRootShape, ReadDirShape, LstatEntryShape,
     WriterComesShape, WalkEndShape DEF Shape
<1> QED
  BY <1>1, <1>2, <1>3, MkdirRootShape, RestoreShape DEF WalkStep

LEMMA WalkLooks ==
  ASSUME TypeInv, WalkStep
  PROVE  Looked'
<1>1. CASE LstatEntry
  <2>1. todo # << >> /\ Head(todo).op = "visit"
    BY <1>1 DEF LstatEntry
  <2>2. todo' = todo \/ pc' = "restore"
    BY <1>1 DEF LstatEntry, StopWalk
  <2> QED
    BY <2>1, <2>2 DEF Looked
<1>2. CASE Start
  BY <1>2 DEF Start, Looked
<1>3. CASE LstatRoot
  BY <1>3 DEF LstatRoot, Return, Look, Looked
<1>4. CASE MkdirRoot
  BY <1>4 DEF MkdirRoot, Return, Looked
<1>5. CASE WalkRoot
  BY <1>5 DEF WalkRoot, StopWalk, Looked
<1>6. CASE ReadDir
  BY <1>6 DEF ReadDir, StopWalk, Looked
<1>7. CASE MakeDir
  BY <1>7 DEF MakeDir, Descend, StopWalk, Looked
<1>8. CASE MakeFile
  <2>1. todo # << >> /\ Head(todo).op = "visit"
    BY <1>8 DEF MakeFile, TypeInv, Looked
  <2>2. pc' \notin {"make", "waiting"} \/ todo' = todo
    BY <1>8, MakeFileCases DEF Descend, StopWalk, walkvars
  <2> QED
    BY <2>1, <2>2 DEF Looked
<1>9. CASE WriterComes \/ WalkEnd \/ Restore
  BY <1>9 DEF WriterComes, StopWalk, WalkEnd, Restore, Looked
<1> QED
  BY <1>1, <1>2, <1>3, <1>4, <1>5, <1>6, <1>7, <1>8, <1>9 DEF WalkStep

LEMMA GuestsType ==
  ASSUME TypeInv, Guests
  PROVE  TypeInv' /\ guestOps' # guestOps
<1>1. TypeOK
  BY DEF TypeInv
<1>2. FSTypeOK' /\ guestOps' # guestOps
  BY <1>1, TypeParts, GuestType DEF Guests
<1>3. UNCHANGED <<pc, src, dst, todo, seen, pending, walkErr, chmodErr, faults>>
  BY DEF Guests, walkvars
<1>4. TypeOK'
  BY <1>1, <1>2, <1>3, TypeParts, TypePartsNext
<1> QED
  BY <1>2, <1>3, <1>4 DEF TypeInv, Looked

LEMMA StutterType ==
  ASSUME TypeInv, UNCHANGED vars
  PROVE  TypeInv'
<1>1. TypeOK /\ UNCHANGED <<pc, src, dst, todo, seen, pending, walkErr, chmodErr, faults>> /\ Rests
  BY DEF TypeInv, vars, walkvars, Rests, fsvars
<1>2. TypeOK'
  BY <1>1, TypeParts, TypePartsNext, RestsType
<1> QED
  BY <1>1, <1>2 DEF TypeInv, Looked

LEMMA NextType ==
  ASSUME TypeInv, [Next]_vars
  PROVE  TypeInv'
BY WalkShape, WalkLooks, GuestsType, StutterType DEF Next, Finished, TypeInv

LEMMA AlwaysTyped == Spec => []TypeInv
BY InitType, NextType, PTL DEF Spec

\* The share, what the walk has still to do and the modes it has to restore always
\* have their types, whatever the guests do: every entry of a listing is one, though
\* it is chosen by its rank among the names, and every error comes of a system call
\* or of a check of reflinkTree or ReflinkTree.
THEOREM TypeCorrect == Spec => []TypeOK
BY AlwaysTyped, PTL DEF TypeInv
-----------------------------------------------------------------------------
(* Only what the walk has made is changed.                                  *)

\* No guest puts anything in the place of a directory: none is removed, or nothing
\* appears, or there is one guest step at the most.
NothingReplaced ==
  \/ "unlink" \notin GuestOps
  \/ GuestOps \cap {"create", "link", "rename"} = {}
  \/ MaxGuestOps <= 1

\* A guest has removed something, and nothing can come in its place.
Emptied ==
  /\ "unlink" \in GuestOps
  /\ GuestOps \cap {"create", "link", "rename"} = {} \/ MaxGuestOps <= guestOps

NewKinds == \A i \in NewInode : inode[i].kind \in {"free", "dir", "file"}

OwnAt(t) ==
  /\ t \in Path
  /\ \/ entry[t] \in NewInode /\ inode[entry[t]].kind = "dir"
     \/ Emptied /\ entry[t] \in NewInode \cup {NoInode}

PendingOwn == \A n \in DOMAIN pending : OwnAt(pending[n].path)

OwnInv == TypeInv /\ NewKinds /\ PendingOwn

LEMMA PutsFacts ==
  ASSUME FSTypeOK, NEW t \in Path, NEW node, NEW i, Puts(t, node, i)
  PROVE  /\ t # << >> /\ entry[t] = NoInode /\ KindAt(t) = "none" /\ WalkErrno(t) = "ok"
         /\ i \in Inode /\ i \notin GuestInode /\ InitInode[i].kind = "free"
         /\ entry'[t] = i /\ inode'[i] = node
         /\ \A p \in Path : p # t => entry'[p] = entry[p]
         /\ \A j \in Inode : j # i => inode'[j] = inode[j]
<1>1. t # << >> /\ KindAt(t) = "none" /\ WalkErrno(t) = "ok"
  BY PathAssumption, ErrnoFacts DEF Puts
<1>2. entry[t] = NoInode
  <2>1. entry[t] \in Inode => inode[entry[t]].kind # "none"
    BY DEF FSTypeOK, Node, Kind
  <2> QED
    BY <1>1, <2>1 DEF FSTypeOK, KindAt
<1>3. i \in Inode /\ i \notin GuestInode /\ InitInode[i].kind = "free"
  BY WalkAssumption DEF Puts
<1> QED
  BY <1>1, <1>2, <1>3 DEF Puts, FSTypeOK

\* chmod by name reaches a directory the walk has made.
LEMMA ChmodsOwn ==
  ASSUME OwnInv, pending # << >>, Chmods(Last(pending))
  PROVE  LET t == Last(pending).path
         IN  /\ t \in Path /\ Follow(t) = t /\ entry[t] \in NewInode /\ entry[t] \in Inode
             /\ entry' = entry /\ guestOps' = guestOps
             /\ inode' = [inode EXCEPT ![entry[t]] = [inode[entry[t]] EXCEPT !.mode = Last(pending).mode]]
             /\ inode[entry[t]] \in Node
<1> DEFINE t == Last(pending).path
<1>1. TypeOK
  BY DEF OwnInv, TypeInv
<1>2. Len(pending) \in DOMAIN pending /\ Last(pending) = pending[Len(pending)]
  BY <1>1, PendingFacts, TypeParts
<1>3. t \in Path /\ entry[t] \in NewInode \cup {NoInode}
  BY <1>2 DEF OwnInv, PendingOwn, OwnAt
<1>4. KindAt(t) # "none" /\ t # << >>
  <2>1. LstatErrno(t) = "ok"
    BY DEF Chmods, OpenErrno
  <2> QED
    BY <1>3, <2>1, ErrnoFacts, PathAssumption
<1>5. entry[t] # NoInode /\ KindAt(t) = inode[entry[t]].kind /\ inode[entry[t]] \in Node
  BY <1>1, <1>4, KindAtEntry, TypeParts
<1>6. entry[t] \in NewInode /\ entry[t] \in Inode
  BY <1>3, <1>5, WalkAssumption
<1>7. KindAt(t) # "symlink"
  BY <1>5, <1>6 DEF OwnInv, NewKinds
<1>8. Follow(t) = t
  BY <1>7 DEF Follow
<1> QED
  BY <1>3, <1>5, <1>6, <1>8 DEF Chmods

\* A step of the walk makes at most one entry and takes none away.
Makes(t, i, k) ==
  /\ t \in Path /\ entry[t] = NoInode /\ entry'[t] = i
  /\ i \in NewInode /\ inode[i].kind = "free" /\ inode'[i].kind = k /\ k \in {"dir", "file"}
  /\ \A p \in Path : p # t => entry'[p] = entry[p]

LEMMA WalkEffect ==
  ASSUME OwnInv, WalkStep
  PROVE  /\ guestOps' = guestOps
         /\ \A i \in Inode \ NewInode : inode'[i] = inode[i]
         /\ \A i \in Inode : inode[i].kind # "free" => inode'[i].kind = inode[i].kind
         /\ \A i \in NewInode : inode'[i].kind \in {"free", "dir", "file"}
         /\ entry' = entry \/ \E t, i, k : Makes(t, i, k)
<1>1. TypeOK /\ FSTypeOK /\ Shape
  BY WalkShape, TypeParts DEF OwnInv, TypeInv
<1>2. CASE Rests
  BY <1>2, WalkAssumption DEF Rests, fsvars, OwnInv, NewKinds
<1>3. ASSUME NEW t \in Path, NEW node \in Node, NEW i \in NewInode, Puts(t, node, i)
      PROVE  /\ guestOps' = guestOps
             /\ \A j \in Inode \ NewInode : inode'[j] = inode[j]
             /\ \A j \in Inode : inode[j].kind # "free" => inode'[j].kind = inode[j].kind
             /\ \A j \in NewInode : inode'[j].kind \in {"free", "dir", "file"}
             /\ Makes(t, i, node.kind)
  <2>1. /\ entry[t] = NoInode /\ entry'[t] = i /\ inode'[i] = node
        /\ \A p \in Path : p # t => entry'[p] = entry[p]
        /\ \A j \in Inode : j # i => inode'[j] = inode[j]
    BY <1>1, <1>3, PutsFacts
  <2>2. inode[i].kind = "free" /\ node.kind \in {"dir", "file"} /\ guestOps' = guestOps
    BY <1>3 DEF Puts
  <2>3. NewInode \subseteq Inode
    BY WalkAssumption
  <2> QED
    BY <2>1, <2>2, <2>3 DEF Makes, OwnInv, NewKinds
<1>4. CASE pc = "restore" /\ pending # << >> /\ Chmods(Last(pending))
  <2>1. PICK t : t = Last(pending).path
    OBVIOUS
  <2>2. PICK m : m = Last(pending).mode
    OBVIOUS
  <2>3. /\ entry[t] \in NewInode /\ entry[t] \in Inode /\ entry' = entry /\ guestOps' = guestOps
        /\ inode' = [inode EXCEPT ![entry[t]] = [inode[entry[t]] EXCEPT !.mode = m]]
        /\ inode[entry[t]] \in Node
    BY <1>4, <2>1, <2>2, ChmodsOwn
  <2>4. [inode[entry[t]] EXCEPT !.mode = m].kind = inode[entry[t]].kind
    BY <2>3 DEF Node
  <2>5. inode \in [Inode -> Node] /\ NewInode \subseteq Inode
    BY <1>1, WalkAssumption DEF FSTypeOK
  <2>6. \A j \in Inode : j # entry[t] => inode'[j] = inode[j]
    BY <2>3, <2>5
  <2>7. inode'[entry[t]].kind = inode[entry[t]].kind
    BY <2>3, <2>4, <2>5
  <2> QED
    BY <2>3, <2>5, <2>6, <2>7 DEF OwnInv, NewKinds
<1> QED
  BY <1>1, <1>2, <1>3, <1>4 DEF Shape

\* The steps of the walk by what they do to the share.
Front1 == Head(todo).path
NewDir == [kind |-> "dir", content |-> Empty, mode |-> Masked[TempMode], target |-> << >>]

Quiet == Rests /\ pending' = pending

MadeFile(i) ==
  /\ pc = "make" /\ seen.kind = "file" /\ FileErrno(Front1) = "ok"
  /\ TargetOf(Front1) \in Path /\ FileCopy(Front1) \in Node
  /\ Puts(TargetOf(Front1), FileCopy(Front1), i)
  /\ Descend /\ pending' = pending

MadeDir(t, i) ==
  /\ \/ pc = "mkdirRoot" /\ pc' = "walkRoot" /\ t = dst
        /\ UNCHANGED <<src, dst, todo, seen, walkErr, chmodErr, faults>>
     \/ pc = "make" /\ seen.kind = "dir" /\ t = TargetOf(Front1) /\ Descend
  /\ t \in Path /\ NewDir \in Node /\ Puts(t, NewDir, i)
  /\ pending' = Append(pending, [path |-> t, mode |-> seen.mode])

Restored ==
  /\ pc = "restore" /\ pending # << >> /\ Chmods(Last(pending)) /\ pending' = Front(pending)
  /\ UNCHANGED <<pc, src, dst, todo, seen, walkErr, chmodErr, faults>>

LEMMA StepCases ==
  ASSUME TypeInv, WalkStep
  PROVE  Quiet \/ (\E i \in NewInode : MadeFile(i)) \/ (\E t, i : MadeDir(t, i)) \/ Restored
<1>0. TypeOK /\ (pc \in {"make", "waiting"} => todo # << >>)
  BY DEF TypeInv, Looked
<1>1. CASE Start \/ LstatRoot \/ WalkRoot \/ ReadDir \/ LstatEntry \/ WriterComes \/ WalkEnd
  BY <1>1 DEF Start, LstatRoot, Return, Look, WalkRoot, StopWalk, ReadDir, LstatEntry, WriterComes,
              WalkEnd, walkvars, Quiet, Rests
<1>2. CASE MkdirRoot
  <2>1. CASE CreateErrno(dst) = "ok" /\ MakeDirectory(dst) /\ pc' = "walkRoot"
             /\ UNCHANGED <<src, dst, todo, seen, walkErr, chmodErr, faults>>
    <3>1. /\ pending' = Append(pending, [path |-> dst, mode |-> seen.mode])
          /\ \E i \in NewInode : \E node \in Node : node = NewDir /\ Puts(dst, node, i)
      BY <1>0, <2>1, MakeDirectoryShape, TypeParts DEF NewDir
    <3>2. dst \in Path
      BY <2>1, ErrnoFacts
    <3>3. pc = "mkdirRoot"
      BY <1>2 DEF MkdirRoot
    <3> QED
      BY <2>1, <3>1, <3>2, <3>3 DEF MadeDir
  <2>2. CASE \E e : Return(e)
    BY <2>2 DEF Return, Quiet, Rests
  <2> QED
    BY <1>2, <2>1, <2>2 DEF MkdirRoot
<1>3. CASE MakeDir
  <2> DEFINE t == TargetOf(Head(todo).path)
  <2>1. pc = "make" /\ seen.kind = "dir"
    BY <1>3 DEF MakeDir
  <2>2. CASE CreateErrno(t) = "ok" /\ MakeDirectory(t) /\ Descend
    <3>1. t \in Seq(Name)
      BY <1>0, <2>1, HeadTypes, TargetType
    <3>2. /\ pending' = Append(pending, [path |-> t, mode |-> seen.mode])
          /\ \E i \in NewInode : \E node \in Node : node = NewDir /\ Puts(t, node, i)
      BY <1>0, <2>2, <3>1, MakeDirectoryShape, TypeParts DEF NewDir
    <3>3. t \in Path
      BY <2>2, ErrnoFacts
    <3> QED
      BY <2>1, <2>2, <3>2, <3>3 DEF MadeDir, Front1
  <2>3. CASE \E e : StopWalk(e)
    BY <2>3 DEF StopWalk, Quiet, Rests
  <2> QED
    BY <1>3, <2>2, <2>3 DEF MakeDir
<1>4. CASE MakeFile
  <2> DEFINE p == Head(todo).path
  <2>1. pc = "make" /\ seen.kind = "file"
    BY <1>4 DEF MakeFile
  <2>2. CASE FileErrno(p) = "ok" /\ Descend /\ UNCHANGED pending /\ Put(TargetOf(p), FileCopy(p))
    <3>1. p \in Seq(Name)
      BY <1>0, <2>1, HeadTypes
    <3>2. /\ FileCopy(p) \in Node /\ FileCopy(p).kind = "file" /\ FileCopy(p).target = << >>
          /\ CreateErrno(TargetOf(p)) = "ok" /\ TargetOf(p) \in Path
      BY <1>0, <2>2, <3>1, FileCopyFacts
    <3>3. \E i \in NewInode : Puts(TargetOf(p), FileCopy(p), i)
      BY <1>0, <2>2, <3>2, PutFacts, TypeParts
    <3> QED
      BY <2>1, <2>2, <3>2, <3>3 DEF MadeFile, Front1
  <2>3. CASE \E e : StopWalk(e)
    BY <2>3 DEF StopWalk, Quiet, Rests
  <2>4. CASE pc' = "waiting" /\ UNCHANGED <<fsvars, walkvars, faults>>
    BY <2>1, <2>4 DEF walkvars, Quiet, Rests
  <2> QED
    BY <1>4, <2>2, <2>3, <2>4, MakeFileCases
<1>5. CASE Restore
  BY <1>5 DEF Restore, Restored, Chmods, Quiet, Rests, fsvars, walkvars
<1> QED
  BY <1>1, <1>2, <1>3, <1>4, <1>5 DEF WalkStep

LEMMA MadeMakes ==
  ASSUME TypeInv
  PROVE  /\ \A i : MadeFile(i) => Makes(TargetOf(Front1), i, "file")
         /\ \A t, i : MadeDir(t, i) => Makes(t, i, "dir")
<1>1. FSTypeOK
  BY TypeParts DEF TypeInv
<1>2. ASSUME NEW i, MadeFile(i) PROVE Makes(TargetOf(Front1), i, "file")
  <2>1. TargetOf(Front1) \in Path /\ Puts(TargetOf(Front1), FileCopy(Front1), i)
    BY <1>2 DEF MadeFile
  <2>2. FileCopy(Front1).kind = "file"
    BY DEF FileCopy
  <2>3. PICK t, node : t = TargetOf(Front1) /\ node = FileCopy(Front1)
    OBVIOUS
  <2>4. Makes(t, i, "file")
    <3>1. t \in Path /\ Puts(t, node, i) /\ node.kind = "file"
      BY <2>1, <2>2, <2>3
    <3>2. /\ entry[t] = NoInode /\ entry'[t] = i /\ inode'[i] = node
          /\ \A p \in Path : p # t => entry'[p] = entry[p]
      BY <1>1, <3>1, PutsFacts
    <3> QED
      BY <3>1, <3>2 DEF Makes, Puts
  <2> QED
    BY <2>3, <2>4
<1>3. ASSUME NEW t, NEW i, MadeDir(t, i) PROVE Makes(t, i, "dir")
  <2>1. t \in Path /\ Puts(t, NewDir, i)
    BY <1>3 DEF MadeDir
  <2>2. NewDir.kind = "dir"
    BY DEF NewDir
  <2>3. /\ entry[t] = NoInode /\ entry'[t] = i /\ inode'[i] = NewDir
        /\ \A p \in Path : p # t => entry'[p] = entry[p]
    BY <1>1, <2>1, PutsFacts
  <2> QED
    BY <2>1, <2>2, <2>3 DEF Makes, Puts
<1> QED
  BY <1>2, <1>3

\* What a pending path names when one more entry is made.
LEMMA PendingKept ==
  ASSUME OwnInv, WalkStep, NEW t, OwnAt(t)
  PROVE  OwnAt(t)'
<1>1. /\ guestOps' = guestOps
      /\ \A i \in Inode : inode[i].kind # "free" => inode'[i].kind = inode[i].kind
      /\ entry' = entry \/ \E u, i, k : Makes(u, i, k)
  BY WalkEffect
<1>2. (Emptied' <=> Emptied) /\ t \in Path
  BY <1>1 DEF Emptied, OwnAt
<1>3. NewInode \subseteq Inode /\ NoInode \notin Inode
  BY WalkAssumption, InodeAssumption
<1>4. CASE entry' = entry
  BY <1>1, <1>2, <1>3, <1>4 DEF OwnAt
<1>5. ASSUME NEW u, NEW i, NEW k, Makes(u, i, k) PROVE OwnAt(t)'
  <2>1. CASE t = u
    BY <1>2, <1>3, <1>5, <2>1 DEF Makes, OwnAt
  <2>2. CASE t # u
    BY <1>1, <1>2, <1>3, <1>5, <2>2 DEF Makes, OwnAt
  <2> QED
    BY <2>1, <2>2
<1> QED
  BY <1>1, <1>4, <1>5

\* How the list changes.
LEMMA PendingSteps ==
  ASSUME TypeInv, WalkStep, NEW n \in DOMAIN pending'
  PROVE  \/ n \in DOMAIN pending /\ pending'[n] = pending[n]
         \/ \E t, i : MadeDir(t, i) /\ pending'[n] = [path |-> t, mode |-> seen.mode]
<1>1. pending \in Seq(Chmod) /\ TypeOK
  BY TypeParts DEF TypeInv
<1>2. CASE pending' = pending
  BY <1>2
<1>3. ASSUME NEW t, NEW i, MadeDir(t, i)
      PROVE  \/ n \in DOMAIN pending /\ pending'[n] = pending[n]
             \/ pending'[n] = [path |-> t, mode |-> seen.mode]
  <2> DEFINE c == [path |-> t, mode |-> seen.mode]
  <2>1. pending' = Append(pending, c)
    BY <1>3 DEF MadeDir
  <2> HIDE DEF c
  <2>2. (n \in DOMAIN pending /\ pending'[n] = pending[n]) \/ pending'[n] = c
    BY <1>1, <2>1
  <2> QED
    BY <2>2 DEF c
<1>4. CASE Restored
  <2>1. /\ pending' = Front(pending) /\ Len(Front(pending)) = Len(pending) - 1
        /\ Front(pending) \in Seq(Chmod) /\ Len(pending) \in Nat \ {0}
        /\ \A m \in 1 .. Len(pending) - 1 : Front(pending)[m] = pending[m]
    BY <1>1, <1>4, PendingFacts DEF Restored
  <2>2. DOMAIN pending' = 1 .. Len(pending) - 1 /\ DOMAIN pending = 1 .. Len(pending)
    BY <1>1, <2>1
  <2> QED
    BY <2>1, <2>2
<1> QED
  BY <1>2, <1>3, <1>4, StepCases DEF Quiet, MadeFile

LEMMA WalkOwn ==
  ASSUME OwnInv, WalkStep
  PROVE  OwnInv'
<1>1. TypeInv /\ TypeInv' /\ NewKinds'
  BY NextType, WalkEffect DEF OwnInv, NewKinds, Next
<1>2. ASSUME NEW n \in DOMAIN pending' PROVE OwnAt(pending[n].path)'
  <2>1. PICK t : t = pending'[n].path
    OBVIOUS
  <2>2. CASE n \in DOMAIN pending /\ pending'[n] = pending[n]
    <3>1. OwnAt(t)
      BY <2>1, <2>2 DEF OwnInv, PendingOwn
    <3>2. OwnAt(t)'
      BY <3>1, PendingKept
    <3> QED
      BY <2>1, <3>2 DEF OwnAt
  <2>3. CASE \E u, i : MadeDir(u, i) /\ pending'[n] = [path |-> u, mode |-> seen.mode]
    <3>1. PICK u, i : MadeDir(u, i) /\ pending'[n] = [path |-> u, mode |-> seen.mode]
      BY <2>3
    <3>2. t = u
      BY <2>1, <3>1
    <3>3. Makes(t, i, "dir")
      BY <1>1, <3>1, <3>2, MadeMakes
    <3> QED
      BY <2>1, <3>3 DEF Makes, OwnAt
  <2> QED
    BY <1>1, <2>2, <2>3, PendingSteps
<1>3. PendingOwn'
  BY <1>2 DEF PendingOwn
<1> QED
  BY <1>1, <1>3 DEF OwnInv

LEMMA GuestOwn ==
  ASSUME NothingReplaced, OwnInv, Guests
  PROVE  OwnInv'
<1>1. FSTypeOK /\ GuestNext /\ TypeInv' /\ pending' = pending
  BY TypeParts, GuestsType DEF OwnInv, TypeInv, Guests, walkvars
<1>2. GuestEffect
  BY <1>1, GuestEffects
<1>3. NewInode \subseteq Inode \ GuestInode /\ NoInode \notin Inode
  BY WalkAssumption, InodeAssumption
<1>4. NewKinds'
  BY <1>2, <1>3 DEF OwnInv, NewKinds, GuestEffect
<1>5. guestOps \in Nat /\ MaxGuestOps \in Nat /\ guestOps < MaxGuestOps /\ guestOps' = guestOps + 1
  BY <1>1, <1>2, GuestAssumption DEF FSTypeOK, GuestEffect
<1>6. Emptied => Emptied' /\ GuestOps \cap {"create", "link", "rename"} = {}
  <2>1. MaxGuestOps <= guestOps => FALSE
    BY <1>5
  <2> QED
    BY <2>1 DEF Emptied
<1>7. "unlink" \in GuestOps => Emptied'
  <2>1. MaxGuestOps <= 1 => MaxGuestOps <= guestOps'
    BY <1>5
  <2> QED
    BY <2>1 DEF Emptied, NothingReplaced
<1>8. ASSUME NEW t, OwnAt(t) PROVE OwnAt(t)'
  <2>1. t \in Path /\ t # << >>
    BY <1>8, PathAssumption DEF OwnAt
  <2>2. CASE entry[t] \in NewInode /\ inode[entry[t]].kind = "dir"
    <3>1. entry[t] # NoInode /\ KindAt(t) = "dir"
      BY <1>3, <2>1, <2>2 DEF KindAt
    <3>2. entry'[t] = entry[t] \/ ("unlink" \in GuestOps /\ entry'[t] = NoInode)
      BY <1>2, <2>1, <3>1 DEF GuestEffect
    <3>3. inode'[entry[t]].kind = "dir"
      BY <1>2, <1>3, <2>2 DEF GuestEffect
    <3> QED
      BY <1>7, <2>1, <2>2, <3>2, <3>3 DEF OwnAt
  <2>3. CASE Emptied /\ entry[t] \in NewInode \cup {NoInode}
    <3>1. entry'[t] = entry[t] \/ entry'[t] = NoInode
      BY <1>2, <1>6, <2>1, <2>3 DEF GuestEffect
    <3> QED
      BY <1>6, <2>1, <2>3, <3>1 DEF OwnAt
  <2> QED
    BY <1>8, <2>2, <2>3 DEF OwnAt
<1>9. PendingOwn'
  <2>1. ASSUME NEW n \in DOMAIN pending PROVE OwnAt(pending[n].path)'
    <3>1. PICK t : t = pending[n].path
      OBVIOUS
    <3>2. OwnAt(t)'
      BY <1>8, <3>1 DEF OwnInv, PendingOwn
    <3> QED
      BY <1>1, <3>1, <3>2 DEF OwnAt
  <2> QED
    BY <1>1, <2>1 DEF PendingOwn
<1> QED
  BY <1>1, <1>4, <1>9 DEF OwnInv

LEMMA InitOwn == Init => OwnInv
<1> SUFFICES ASSUME Init PROVE OwnInv
  OBVIOUS
<1>1. TypeInv
  BY InitType
<1>2. NewKinds
  BY WalkAssumption DEF Init, FSInit, NewKinds
<1>3. PendingOwn
  BY DEF Init, PendingOwn
<1> QED
  BY <1>1, <1>2, <1>3 DEF OwnInv

LEMMA OwnStutter ==
  ASSUME OwnInv, UNCHANGED vars
  PROVE  OwnInv'
<1>1. TypeInv'
  BY StutterType DEF OwnInv
<1> QED
  BY <1>1 DEF OwnInv, NewKinds, PendingOwn, OwnAt, Emptied, vars, fsvars, walkvars

LEMMA NextOwn ==
  ASSUME NothingReplaced, OwnInv, [Next]_vars
  PROVE  OwnInv'
BY OwnStutter, WalkOwn, GuestOwn DEF Next, Finished

\* The walk changes nothing but what it has made and takes nothing away, if no guest
\* puts anything in the place of a directory: os.Chmod of restoreDirectoryModes, which
\* goes by name after the whole walk, still reaches the directories that os.Mkdir made.
THEOREM OnlyOwnChanges ==
  NothingReplaced => (Spec => ChangesOnlyOwn)
<1> SUFFICES ASSUME NothingReplaced PROVE Spec => ChangesOnlyOwn
  OBVIOUS
<1>1. Init => OwnInv
  BY InitOwn
<1>2. OwnInv /\ [Next]_vars => OwnInv'
  BY NextOwn
<1>3. OwnInv /\ [Next]_vars =>
        [guestOps' = guestOps =>
           /\ \A i \in Inode : inode'[i] # inode[i] => i \in NewInode
           /\ \A p \in Path : entry'[p] # entry[p] =>
                entry[p] = NoInode /\ entry'[p] \in NewInode]_vars
  <2> SUFFICES ASSUME OwnInv, Next, guestOps' = guestOps
               PROVE  /\ \A i \in Inode : inode'[i] # inode[i] => i \in NewInode
                      /\ \A p \in Path : entry'[p] # entry[p] =>
                           entry[p] = NoInode /\ entry'[p] \in NewInode
    OBVIOUS
  <2>1. CASE WalkStep
    <3>1. /\ \A i \in Inode \ NewInode : inode'[i] = inode[i]
          /\ entry' = entry \/ \E t, i, k : Makes(t, i, k)
      BY <2>1, WalkEffect
    <3> QED
      BY <3>1 DEF Makes
  <2>2. CASE Guests
    BY <2>2, GuestsType DEF OwnInv
  <2>3. CASE Finished
    BY <2>3 DEF Finished, vars, fsvars
  <2> QED
    BY <2>1, <2>2, <2>3 DEF Next
<1> QED
  BY <1>1, <1>2, <1>3, PTL DEF Spec, ChangesOnlyOwn
-----------------------------------------------------------------------------
(* Where things go.                                                         *)

\* The copy's path is dst, and the k names that p has below src.
IsTarget(p, t, k) ==
  /\ t \in Seq(Name) /\ k \in Nat /\ Len(t) = Len(dst) + k /\ Len(p) = Len(src) + k
  /\ Len(dst) \in Nat /\ Len(src) \in Nat /\ Len(p) \in Nat
  /\ \A n \in 1 .. Len(dst) : t[n] = dst[n]
  /\ \A n \in 1 .. k : t[Len(dst) + n] = p[Len(src) + n]
  /\ \A n \in 1 .. Len(src) : p[n] = src[n]

LEMMA TargetParts ==
  ASSUME TypeOK, NEW p \in Seq(Name), IsPrefix(src, p)
  PROVE  \E k \in Nat : IsTarget(p, TargetOf(p), k)
<1>1. src \in Seq(Name) /\ dst \in Seq(Name)
  BY TypeParts
<1>2. Len(src) \in Nat /\ Len(p) \in Nat /\ Len(dst) \in Nat
  BY <1>1
<1>3. Len(src) <= Len(p) /\ \A n \in 1 .. Len(src) : src[n] = p[n]
  BY <1>1, PrefixIs
<1>4. PICK k \in Nat : Len(p) = Len(src) + k
  <2>1. Len(p) - Len(src) \in Nat /\ Len(p) = Len(src) + (Len(p) - Len(src))
    BY <1>2, <1>3
  <2> QED
    BY <2>1
<1>5. PICK u : u = SubSeq(p, Len(src) + 1, Len(p))
  OBVIOUS
<1>6. u \in Seq(Name) /\ Len(u) = k /\ \A n \in 1 .. k : u[n] = p[Len(src) + n]
  <2>1. Len(src) + 1 \in Int /\ Len(p) \in Int /\ \A n \in Len(src) + 1 .. Len(p) : p[n] \in Name
    BY <1>2
  <2>2. /\ u \in Seq(Name) /\ Len(u) = IF Len(src) + 1 <= Len(p) THEN Len(p) - (Len(src) + 1) + 1 ELSE 0
        /\ \A n \in 1 .. Len(p) - (Len(src) + 1) + 1 : u[n] = p[Len(src) + 1 + n - 1]
    BY <1>5, <2>1, SubSeqProperties
  <2>3. Len(p) - (Len(src) + 1) + 1 = k /\ \A n \in 1 .. k : Len(src) + 1 + n - 1 = Len(src) + n
    BY <1>2, <1>4
  <2>4. Len(u) = k
    BY <1>2, <1>3, <1>4, <2>2, <2>3
  <2> QED
    BY <2>2, <2>3, <2>4
<1>7. PICK t : t = TargetOf(p)
  OBVIOUS
<1>8. t = dst \o u
  BY <1>5, <1>7 DEF TargetOf
<1>9. t \in Seq(Name) /\ Len(t) = Len(dst) + k
  BY <1>1, <1>6, <1>8, ConcatProperties
<1>10. \A n \in 1 .. Len(dst) : t[n] = dst[n]
  BY <1>1, <1>2, <1>6, <1>8
<1>11. ASSUME NEW n \in 1 .. k PROVE t[Len(dst) + n] = p[Len(src) + n]
  <2>1. Len(dst) + n \in 1 .. Len(dst) + Len(u) /\ Len(dst) + n > Len(dst) /\ Len(dst) + n - Len(dst) = n
    BY <1>2, <1>4, <1>6
  <2>2. (dst \o u)[Len(dst) + n] = u[n]
    BY <1>1, <1>6, <2>1
  <2> QED
    BY <1>6, <1>8, <2>2
<1> QED
  BY <1>2, <1>3, <1>4, <1>7, <1>9, <1>10, <1>11 DEF IsTarget

LEMMA TargetOfRoot ==
  ASSUME TypeOK
  PROVE  IsPrefix(src, src) /\ TargetOf(src) = dst
<1>1. src \in Seq(Name) /\ dst \in Seq(Name)
  BY TypeParts
<1>2. IsPrefix(src, src)
  BY <1>1, PrefixRefl
<1>3. PICK k \in Nat : IsTarget(src, TargetOf(src), k)
  BY <1>1, <1>2, TargetParts
<1>4. PICK t : t = TargetOf(src)
  OBVIOUS
<1>5. /\ t \in Seq(Name) /\ Len(t) = Len(dst) /\ \A n \in 1 .. Len(dst) : t[n] = dst[n]
  BY <1>3, <1>4 DEF IsTarget
<1>6. t = dst
  BY <1>1, <1>5, SeqEqual
<1> QED
  BY <1>2, <1>4, <1>6

\* A path is below another exactly if its copy is below that one's copy.
LEMMA TargetOrder ==
  ASSUME TypeOK, NEW p \in Seq(Name), NEW q \in Seq(Name), IsPrefix(src, p), IsPrefix(src, q)
  PROVE  IsPrefix(TargetOf(p), TargetOf(q)) <=> IsPrefix(p, q)
<1>0. PICK t : t = TargetOf(p)
  OBVIOUS
<1>u. PICK u : u = TargetOf(q)
  OBVIOUS
<1>a. PICK a : a = Len(src)
  OBVIOUS
<1>b. PICK b : b = Len(dst)
  OBVIOUS
<1>j. PICK j \in Nat : IsTarget(p, t, j)
  BY <1>0, TargetParts
<1>k. PICK k \in Nat : IsTarget(q, u, k)
  BY <1>u, TargetParts
<1>1. /\ t \in Seq(Name) /\ j \in Nat /\ Len(t) = b + j /\ a \in Nat /\ b \in Nat /\ Len(p) = a + j
      /\ \A n \in 1 .. b : t[n] = dst[n]
      /\ \A n \in 1 .. j : t[b + n] = p[a + n]
      /\ \A n \in 1 .. a : p[n] = src[n]
  BY <1>a, <1>b, <1>j DEF IsTarget
<1>2. /\ u \in Seq(Name) /\ k \in Nat /\ Len(u) = b + k /\ Len(q) = a + k
      /\ \A n \in 1 .. b : u[n] = dst[n]
      /\ \A n \in 1 .. k : u[b + n] = q[a + n]
      /\ \A n \in 1 .. a : q[n] = src[n]
  BY <1>a, <1>b, <1>k DEF IsTarget
<1>3. ASSUME IsPrefix(t, u) PROVE IsPrefix(p, q)
  <2>1. Len(t) <= Len(u) /\ \A n \in 1 .. Len(t) : t[n] = u[n]
    BY <1>1, <1>2, <1>3, PrefixIs
  <2>2. j <= k
    BY <1>1, <1>2, <2>1
  <2>3. ASSUME NEW n \in 1 .. j PROVE p[a + n] = q[a + n]
    <3>1. b + n \in 1 .. Len(t) /\ n \in 1 .. k
      BY <1>1, <1>2, <2>2
    <3> QED
      BY <1>1, <1>2, <2>1, <3>1
  <2>4. ASSUME NEW n \in 1 .. Len(p) PROVE p[n] = q[n]
    <3>1. CASE n \in 1 .. a
      BY <1>1, <1>2, <3>1
    <3>2. CASE n \notin 1 .. a
      <4>1. n - a \in 1 .. j /\ a + (n - a) = n
        BY <1>1, <3>2
      <4> QED
        BY <2>3, <4>1
    <3> QED
      BY <3>1, <3>2
  <2>5. Len(p) <= Len(q)
    BY <1>1, <1>2, <2>2
  <2> QED
    BY <2>4, <2>5, PrefixIs
<1>4. ASSUME IsPrefix(p, q) PROVE IsPrefix(t, u)
  <2>1. Len(p) <= Len(q) /\ \A n \in 1 .. Len(p) : p[n] = q[n]
    BY <1>4, PrefixIs
  <2>2. j <= k
    BY <1>1, <1>2, <2>1
  <2>3. ASSUME NEW n \in 1 .. j PROVE t[b + n] = u[b + n]
    <3>1. a + n \in 1 .. Len(p) /\ n \in 1 .. k
      BY <1>1, <1>2, <2>2
    <3> QED
      BY <1>1, <1>2, <2>1, <3>1
  <2>4. ASSUME NEW n \in 1 .. Len(t) PROVE t[n] = u[n]
    <3>1. CASE n \in 1 .. b
      BY <1>1, <1>2, <3>1
    <3>2. CASE n \notin 1 .. b
      <4>1. n - b \in 1 .. j /\ b + (n - b) = n
        BY <1>1, <3>2
      <4> QED
        BY <2>3, <4>1
    <3> QED
      BY <3>1, <3>2
  <2>5. Len(t) <= Len(u)
    BY <1>1, <1>2, <2>2
  <2> QED
    BY <1>1, <1>2, <2>4, <2>5, PrefixIs
<1> QED
  BY <1>0, <1>u, <1>3, <1>4

LEMMA TargetInjective ==
  ASSUME TypeOK, NEW p \in Seq(Name), NEW q \in Seq(Name), IsPrefix(src, p), IsPrefix(src, q),
         TargetOf(p) = TargetOf(q)
  PROVE  p = q
<1>1. TargetOf(p) \in Seq(Name)
  BY TargetType
<1>2. IsPrefix(TargetOf(p), TargetOf(q)) /\ IsPrefix(TargetOf(q), TargetOf(p))
  BY <1>1, PrefixRefl
<1>3. IsPrefix(p, q) /\ IsPrefix(q, p)
  BY <1>2, TargetOrder
<1>4. Len(p) \in Nat /\ Len(q) \in Nat /\ Len(p) <= Len(q) /\ Len(q) <= Len(p)
  BY <1>3, PrefixIs
<1> QED
  BY <1>3, <1>4, PrefixSame

\* The copy of one name more is one name more of the copy.
LEMMA TargetAppend ==
  ASSUME TypeOK, NEW p \in Seq(Name), IsPrefix(src, p), NEW x \in Name
  PROVE  IsPrefix(src, Append(p, x)) /\ TargetOf(Append(p, x)) = Append(TargetOf(p), x)
<1>q. PICK q : q = Append(p, x)
  OBVIOUS
<1>a. PICK a : a = Len(src)
  OBVIOUS
<1>b. PICK b : b = Len(dst)
  OBVIOUS
<1>t. PICK t : t = TargetOf(p)
  OBVIOUS
<1>u. PICK u : u = TargetOf(q)
  OBVIOUS
<1>w. PICK w : w = Append(t, x)
  OBVIOUS
<1>1. q \in Seq(Name) /\ Len(q) = Len(p) + 1 /\ \A n \in 1 .. Len(p) : q[n] = p[n]
  BY <1>q
<1>2. q[Len(p) + 1] = x
  BY <1>q
<1>3. src \in Seq(Name) /\ IsPrefix(src, q)
  BY <1>q, <1>1, TypeParts, PrefixAppend, PrefixTrans
<1>j. PICK j \in Nat : IsTarget(p, t, j)
  BY <1>t, TargetParts
<1>k. PICK k \in Nat : IsTarget(q, u, k)
  BY <1>1, <1>3, <1>u, TargetParts
<1>4. /\ t \in Seq(Name) /\ j \in Nat /\ Len(t) = b + j /\ a \in Nat /\ b \in Nat /\ Len(p) = a + j
      /\ \A n \in 1 .. b : t[n] = dst[n]
      /\ \A n \in 1 .. j : t[b + n] = p[a + n]
  BY <1>a, <1>b, <1>j DEF IsTarget
<1>5. /\ u \in Seq(Name) /\ k \in Nat /\ Len(u) = b + k /\ Len(q) = a + k
      /\ \A n \in 1 .. b : u[n] = dst[n]
      /\ \A n \in 1 .. k : u[b + n] = q[a + n]
  BY <1>a, <1>b, <1>k DEF IsTarget
<1>6. k = j + 1
  BY <1>1, <1>4, <1>5
<1>7. w \in Seq(Name) /\ Len(w) = b + j + 1 /\ w[b + j + 1] = x /\ \A n \in 1 .. b + j : w[n] = t[n]
  BY <1>4, <1>w
<1>8. Len(u) = Len(w)
  BY <1>4, <1>5, <1>6, <1>7
<1>9. ASSUME NEW n \in 1 .. Len(u) PROVE u[n] = w[n]
  <2>1. CASE n \in 1 .. b
    BY <1>4, <1>5, <1>7, <2>1
  <2>2. CASE n = b + j + 1
    <3>1. k \in 1 .. k /\ n = b + k /\ a + k = Len(p) + 1
      BY <1>4, <1>6, <2>2
    <3> QED
      BY <1>2, <1>5, <1>7, <2>2, <3>1
  <2>3. CASE n \notin 1 .. b /\ n # b + j + 1
    <3>1. n - b \in 1 .. j /\ n - b \in 1 .. k /\ b + (n - b) = n /\ n \in 1 .. b + j
      BY <1>4, <1>5, <1>6, <2>3
    <3>2. a + (n - b) \in 1 .. Len(p)
      BY <1>4, <3>1
    <3>3. u[b + (n - b)] = q[a + (n - b)] /\ t[b + (n - b)] = p[a + (n - b)]
      BY <1>4, <1>5, <3>1
    <3>4. q[a + (n - b)] = p[a + (n - b)] /\ w[n] = t[n]
      BY <1>1, <1>7, <3>1, <3>2
    <3> QED
      BY <3>1, <3>3, <3>4
  <2> QED
    BY <2>1, <2>2, <2>3
<1>10. u = w
  BY <1>5, <1>7, <1>8, <1>9, SeqEqual
<1> QED
  BY <1>3, <1>10, <1>q, <1>t, <1>u, <1>w
-----------------------------------------------------------------------------
(* The modes of the directories.                                            *)

Old == Inode \ (NewInode \cup GuestInode)
OldKept == \A i \in Old : inode[i].kind = InitInode[i].kind /\ inode[i].mode = InitInode[i].mode

Used == \A p \in Path : entry[p] # NoInode => inode[entry[p]].kind # "free"

OneName ==
  \A p, q \in Path :
    entry[p] \in NewInode /\ inode[entry[p]].kind = "dir" /\ entry[p] = entry[q] => p = q

\* What is to be done is in the source, and nothing is before a request is.
Below == \A x \in ToSet(todo) : IsPrefix(src, x.path)
NotYet ==
  /\ pc \in {"idle", "lstatRoot", "mkdirRoot"} => pending = << >> /\ todo = << >>
  /\ pc = "idle" => \A p \in Path : entry[p] \notin NewInode

\* What was a directory in the source, and is there still.
OldDir(p) ==
  p \in InitBelow(src) /\ entry[p] = InitEntry[p] /\ InitInode[InitEntry[p]].kind = "dir"

\* m is the mode of the directory that t copies, if that is there still.
Right(t, m) == \A p \in Path : OldDir(p) /\ TargetOf(p) = t => m = InitInode[InitEntry[p]].mode

SeenRight ==
  /\ pc = "mkdirRoot" => Right(dst, seen.mode)
  /\ pc = "make" => Right(TargetOf(Front1), seen.mode)
PendingRight == \A n \in DOMAIN pending : Right(pending[n].path, pending[n].mode)
ToDo(t) == \E n \in DOMAIN pending : pending[n].path = t
DirRight(t) ==
  entry[t] \in NewInode /\ inode[entry[t]].kind = "dir" => ToDo(t) \/ Right(t, inode[entry[t]].mode)
DirsRight == \A t \in Path : DirRight(t)
Ended == pc = "done" /\ chmodErr = nil => pending = << >>

ModeInv ==
  /\ OwnInv /\ OldKept /\ Used /\ OneName /\ Below /\ NotYet
  /\ SeenRight /\ PendingRight /\ DirsRight /\ Ended

LEMMA InitIsOld ==
  ASSUME NEW p \in Path, InitEntry[p] # NoInode
  PROVE  InitEntry[p] \in Old
<1>1. InitEntry[p] \in Inode \ GuestInode /\ InitInode[InitEntry[p]].kind # "free"
  BY InitAssumption
<1> QED
  BY <1>1, WalkAssumption DEF Old

\* What a step can put into an entry: nothing, a new inode, or a file or symlink that
\* has a name.
EntryStep(p) ==
  \/ entry'[p] = entry[p]
  \/ entry'[p] = NoInode
  \/ entry'[p] \in GuestInode \cup NewInode /\ inode'[entry'[p]].kind # "free"
  \/ \E q \in Path : entry[q] # NoInode /\ inode[entry[q]].kind \in {"file", "symlink", "other"}
                     /\ entry'[p] = entry[q]

ShareStep ==
  /\ KindsKept /\ \A p \in Path : EntryStep(p)
  /\ \A i \in Old : inode'[i].kind = inode[i].kind /\ inode'[i].mode = inode[i].mode

LEMMA WalkShare ==
  ASSUME OwnInv, WalkStep
  PROVE  ShareStep
<1>1. /\ KindsKept /\ \A i \in Inode \ NewInode : inode'[i] = inode[i]
      /\ entry' = entry \/ \E t, i, k : Makes(t, i, k)
  BY WalkEffect DEF KindsKept
<1>2. ASSUME NEW p \in Path PROVE EntryStep(p)
  BY <1>1 DEF Makes, EntryStep
<1> QED
  BY <1>1, <1>2 DEF ShareStep, Old

LEMMA GuestShare ==
  ASSUME FSTypeOK, GuestNext
  PROVE  ShareStep
<1>1. GuestEffect
  BY GuestEffects
<1>2. ASSUME NEW p \in Path PROVE EntryStep(p)
  <2>1. ASSUME NEW q \in Path, KindAt(q) \in {"file", "symlink", "other"}
        PROVE  entry[q] # NoInode /\ inode[entry[q]].kind \in {"file", "symlink", "other"}
    <3>1. q # << >> /\ KindAt(q) # "none"
      BY <2>1, PathAssumption
    <3> QED
      BY <2>1, <3>1, KindAtEntry
  <2> QED
    BY <1>1, <2>1 DEF GuestEffect, EntryStep
<1> QED
  BY <1>1, <1>2 DEF ShareStep, GuestEffect, Old

LEMMA OldStep ==
  ASSUME FSTypeOK, FSTypeOK', OldKept, Used, ShareStep
  PROVE  OldKept' /\ Used'
<1>1. OldKept'
  BY DEF OldKept, ShareStep
<1>2. ASSUME NEW p \in Path, entry'[p] # NoInode PROVE inode'[entry'[p]].kind # "free"
  <2>1. EntryStep(p) /\ KindsKept
    BY DEF ShareStep
  <2>2. ASSUME NEW i \in Inode, inode[i].kind # "free" PROVE inode'[i].kind # "free"
    BY <2>1, <2>2 DEF KindsKept
  <2>3. entry'[p] \in Inode
    BY <1>2 DEF FSTypeOK
  <2>4. CASE entry'[p] = entry[p]
    BY <1>2, <2>2, <2>3, <2>4 DEF Used
  <2>5. ASSUME NEW q \in Path, entry[q] # NoInode, entry'[p] = entry[q]
        PROVE  inode'[entry'[p]].kind # "free"
    BY <2>2, <2>3, <2>5 DEF Used
  <2> QED
    BY <1>2, <2>1, <2>4, <2>5 DEF EntryStep
<1> QED
  BY <1>1, <1>2 DEF Used

\* A directory that has left its name does not come back to it.
LEMMA OldDirBack ==
  ASSUME OldKept, ShareStep, src' = src, NEW p, OldDir(p)'
  PROVE  OldDir(p)
<1>1. p \in Path /\ p \in InitBelow(src) /\ InitEntry[p] # NoInode /\ entry'[p] = InitEntry[p]
      /\ InitInode[InitEntry[p]].kind = "dir"
  BY DEF OldDir, InitBelow
<1>2. InitEntry[p] \in Old /\ inode[InitEntry[p]].kind = "dir"
  BY <1>1, InitIsOld DEF OldKept
<1>3. entry[p] = InitEntry[p]
  BY <1>1, <1>2 DEF ShareStep, EntryStep, Old
<1> QED
  BY <1>1, <1>3 DEF OldDir

LEMMA RightKept ==
  ASSUME OldKept, ShareStep, src' = src, dst' = dst, NEW t, NEW m, Right(t, m)
  PROVE  Right(t, m)'
<1> SUFFICES ASSUME NEW p \in Path, OldDir(p)', TargetOf(p)' = t
             PROVE  m = InitInode[InitEntry[p]].mode
  BY DEF Right
<1>1. OldDir(p)
  BY OldDirBack
<1>2. TargetOf(p) = t
  BY DEF TargetOf
<1> QED
  BY <1>1, <1>2 DEF Right

\* Lstat finds the right mode.
LEMMA LookRight ==
  ASSUME TypeOK, OldKept, NEW p \in Seq(Name), IsPrefix(src, p)
  PROVE  Right(TargetOf(p), IF p = << >> THEN RootMode ELSE inode[entry[p]].mode)
<1> SUFFICES ASSUME NEW q \in Path, OldDir(q), TargetOf(q) = TargetOf(p)
             PROVE  (IF p = << >> THEN RootMode ELSE inode[entry[p]].mode) = InitInode[InitEntry[q]].mode
  BY DEF Right
<1>1. q \in Seq(Name) /\ q # << >> /\ IsPrefix(src, q) /\ InitEntry[q] # NoInode
      /\ entry[q] = InitEntry[q]
  BY PathAssumption DEF OldDir, InitBelow
<1>2. p = q
  BY <1>1, TargetInjective
<1>3. InitEntry[q] \in Old
  BY <1>1, InitIsOld
<1> QED
  BY <1>1, <1>2, <1>3 DEF OldKept

\* The steps of the walk by what comes next.
Began ==
  /\ pc = "idle" /\ pc' \in {"lstatRoot", "done"} /\ <<src', dst'>> \in Request
  /\ \/ walkErr' = ResolveError(src', dst') /\ faults' = faults
     \/ walkErr' # nil /\ Fails("lstat")
  /\ pc' = "lstatRoot" <=> walkErr' = nil
  /\ UNCHANGED <<fsvars, todo, seen, pending, chmodErr>>
Returned == pc \in {"lstatRoot", "mkdirRoot"} /\ \E e \in Err : e # nil /\ Return(e)
LookedRoot ==
  /\ pc = "lstatRoot" /\ LstatErrno(src) = "ok" /\ KindAt(src) = "dir"
  /\ Look(src, "mkdirRoot") /\ todo' = todo
Waits ==
  /\ pc = "make" /\ seen.kind = "file" /\ KindAt(Follow(Front1)) = "other"
  /\ pc' = "waiting" /\ UNCHANGED <<fsvars, walkvars, faults>>
Stopped == pc \in {"walkRoot", "walk", "make", "waiting"} /\ \E e \in Err : e # nil /\ StopWalk(e)
Entered ==
  /\ pc = "walkRoot" /\ pc' = "walk" /\ LstatErrno(src) = "ok"
  /\ todo' = IF KindAt(src) = "dir" THEN <<List(src)>> ELSE << >>
  /\ UNCHANGED <<fsvars, src, dst, seen, pending, walkErr, chmodErr, faults>>
Listed ==
  /\ pc = "walk" /\ todo # << >> /\ Head(todo).op = "list"
  /\ OpenErrno(Front1) = "ok" /\ KindAt(Follow(Front1)) = "dir"
  /\ todo' = Visits(Front1) \o Tail(todo)
  /\ UNCHANGED <<fsvars, pc, src, dst, seen, pending, walkErr, chmodErr, faults>>
LookedAt ==
  /\ pc = "walk" /\ todo # << >> /\ Head(todo).op = "visit"
  /\ LstatErrno(Front1) = "ok" /\ KindAt(Front1) \in {"dir", "file"}
  /\ KindAt(Front1) = "file" => ~(Nlink(entry[Front1]) > 1)
  /\ Look(Front1, "make") /\ todo' = todo
Over ==
  pc = "restore" /\ pending = << >> /\ pc' = "done" /\ UNCHANGED <<fsvars, walkvars, faults>>
ChmodFailed ==
  /\ pc = "restore" /\ pc' = "done" /\ chmodErr' # nil
  /\ UNCHANGED <<fsvars, src, dst, todo, seen, pending, walkErr>>

LEMMA Moves ==
  ASSUME TypeInv, WalkStep
  PROVE  \/ Began \/ Returned \/ LookedRoot \/ Stopped \/ Entered \/ Listed \/ LookedAt
         \/ (\E i \in NewInode : MadeFile(i)) \/ (\E t, i : MadeDir(t, i))
         \/ Waits \/ WalkEnd \/ Restored \/ Over \/ ChmodFailed
<1>0. TypeOK /\ (pc \in {"make", "waiting"} => todo # << >>)
  BY DEF TypeInv, Looked
<1>e. ASSUME NEW e \in Errno PROVE Raw(e) \in Err /\ Raw(e) # nil
  BY RawType
<1>c. ASSUME NEW m \in Message \cup {"unsupported file type"}
      PROVE  NewError("EINVAL", m) \in Err /\ NewError("EINVAL", m) # nil
  BY CodedType DEF Code
<1>a. "EACCES" \in Errno
  BY DEF Errno
<1>1. CASE Start
  <2>1. PICK r \in Request : StartOn(r)
    BY <1>1, StartCases
  <2>2. r = <<r[1], r[2]>>
    BY WalkAssumption
  <2>3. pc = "idle" /\ UNCHANGED <<fsvars, todo, seen, pending, chmodErr>>
    BY <1>1, StartCases
  <2>4. Raw("EACCES") # nil /\ NewError("EPERM", "path must stay within the shared root") # nil
    BY DEF Raw, NewError, nil
  <2>5. \/ walkErr' = ResolveError(src', dst') /\ faults' = faults
        \/ walkErr' # nil /\ Fails("lstat")
    BY <2>1, <2>4 DEF StartOn
  <2> QED
    <3>1. src' = r[1] /\ dst' = r[2]
      BY <2>1 DEF StartOn
    <3>2. <<src', dst'>> \in Request
      BY <2>2, <3>1
    <3>3. pc' \in {"lstatRoot", "done"} /\ (pc' = "lstatRoot" <=> walkErr' = nil)
      BY <2>1 DEF StartOn
    <3> QED
      BY <2>3, <2>5, <3>2, <3>3 DEF Began
<1>2. CASE LstatRoot
  <2>1. pc = "lstatRoot"
    BY <1>2 DEF LstatRoot
  <2>2. CASE LstatErrno(src) # "ok" /\ Return(Raw(LstatErrno(src)))
    BY <1>e, <2>1, <2>2, ErrnoTypes DEF Returned
  <2>3. CASE Return(NewError("EINVAL", "source must be a directory"))
    <3>1. "source must be a directory" \in Message
      BY DEF Message
    <3> QED
      BY <1>c, <2>1, <2>3, <3>1 DEF Returned
  <2>4. CASE LstatErrno(src) = "ok" /\ KindAt(src) = "dir" /\ Look(src, "mkdirRoot") /\ UNCHANGED todo
    BY <2>1, <2>4 DEF LookedRoot
  <2>5. CASE Return(Raw("EACCES"))
    BY <1>a, <1>e, <2>1, <2>5 DEF Returned
  <2> QED
    BY <1>2, <2>2, <2>3, <2>4, <2>5 DEF LstatRoot
<1>3. CASE MkdirRoot
  <2>1. pc = "mkdirRoot"
    BY <1>3 DEF MkdirRoot
  <2>2. CASE CreateErrno(dst) # "ok" /\ Return(Raw(CreateErrno(dst)))
    BY <1>e, <2>1, <2>2, ErrnoTypes DEF Returned
  <2>3. CASE Return(Raw("EACCES"))
    BY <1>a, <1>e, <2>1, <2>3 DEF Returned
  <2>4. CASE CreateErrno(dst) = "ok" /\ MakeDirectory(dst) /\ pc' = "walkRoot"
             /\ UNCHANGED <<src, dst, todo, seen, walkErr, chmodErr, faults>>
    <3>1. /\ pending' = Append(pending, [path |-> dst, mode |-> seen.mode])
          /\ \E i \in NewInode : \E node \in Node : node = NewDir /\ Puts(dst, node, i)
      BY <1>0, <2>4, MakeDirectoryShape, TypeParts DEF NewDir
    <3>2. dst \in Path
      BY <2>4, ErrnoFacts
    <3> QED
      BY <2>1, <2>4, <3>1, <3>2 DEF MadeDir
  <2> QED
    BY <1>3, <2>2, <2>3, <2>4 DEF MkdirRoot
<1>4. CASE WalkRoot
  <2>1. pc = "walkRoot"
    BY <1>4 DEF WalkRoot
  <2>2. CASE LstatErrno(src) # "ok" /\ StopWalk(Raw(LstatErrno(src)))
    BY <1>e, <2>1, <2>2, ErrnoTypes DEF Stopped
  <2>3. CASE StopWalk(Raw("EACCES"))
    BY <1>a, <1>e, <2>1, <2>3 DEF Stopped
  <2> QED
    BY <1>4, <2>1, <2>2, <2>3 DEF WalkRoot, Entered
<1>5. CASE ReadDir
  <2>1. pc = "walk" /\ todo # << >> /\ Head(todo).op = "list"
    BY <1>5 DEF ReadDir
  <2>2. CASE OpenErrno(Front1) # "ok" /\ StopWalk(Raw(OpenErrno(Front1)))
    BY <1>e, <2>1, <2>2, ErrnoTypes DEF Stopped
  <2>3. CASE StopWalk(Raw("ENOTDIR")) \/ StopWalk(Raw("EIO"))
    <3>1. "ENOTDIR" \in Errno /\ "EIO" \in Errno
      BY DEF Errno
    <3> QED
      BY <1>e, <2>1, <2>3, <3>1 DEF Stopped
  <2> QED
    BY <1>5, <2>1, <2>2, <2>3 DEF ReadDir, Listed, Front1
<1>6. CASE LstatEntry
  <2>1. pc = "walk" /\ todo # << >> /\ Head(todo).op = "visit"
    BY <1>6 DEF LstatEntry
  <2>2. CASE LstatErrno(Front1) # "ok" /\ StopWalk(Raw(LstatErrno(Front1)))
    BY <1>e, <2>1, <2>2, ErrnoTypes DEF Stopped
  <2>3. CASE \E m \in {"symlinks are not supported", "hard links are not supported",
                       "unsupported file type"} : StopWalk(NewError("EINVAL", m))
    <3>1. {"symlinks are not supported", "hard links are not supported"} \subseteq Message
      BY DEF Message
    <3> QED
      BY <1>c, <2>1, <2>3, <3>1 DEF Stopped
  <2>4. CASE StopWalk(Raw("EACCES"))
    BY <1>a, <1>e, <2>1, <2>4 DEF Stopped
  <2> QED
    BY <1>6, <2>1, <2>2, <2>3, <2>4 DEF LstatEntry, LookedAt, Front1
<1>7. CASE MakeDir
  <2>1. pc = "make"
    BY <1>7 DEF MakeDir
  <2>2. CASE CreateErrno(TargetOf(Front1)) # "ok" /\ StopWalk(Raw(CreateErrno(TargetOf(Front1))))
    BY <1>e, <2>1, <2>2, ErrnoTypes DEF Stopped
  <2>3. CASE StopWalk(Raw("EACCES"))
    BY <1>a, <1>e, <2>1, <2>3 DEF Stopped
  <2>4. CASE MakeDirectory(TargetOf(Front1)) /\ Descend
    <3>1. pending' # pending
      <4>1. pending' = Append(pending, [path |-> TargetOf(Front1), mode |-> seen.mode])
        BY <2>4 DEF MakeDirectory
      <4>2. pending \in Seq(Chmod)
        BY <1>0, TypeParts
      <4>3. PICK c : c = [path |-> TargetOf(Front1), mode |-> seen.mode]
        OBVIOUS
      <4>4. pending' = Append(pending, c)
        BY <4>1, <4>3
      <4>5. Len(pending') = Len(pending) + 1 /\ Len(pending) \in Nat
        BY <4>2, <4>4
      <4> QED
        BY <4>5
    <3> QED
      BY <2>1, <3>1, StepCases DEF Quiet, MadeFile, Restored
  <2> QED
    BY <1>7, <2>2, <2>3, <2>4 DEF MakeDir, Front1
<1>8. CASE MakeFile
  <2>1. pc = "make" /\ seen.kind = "file"
    BY <1>8 DEF MakeFile
  <2>2. CASE FileErrno(Front1) # "ok" /\ StopWalk(Raw(FileErrno(Front1)))
    BY <1>e, <2>1, <2>2, FileErrnoType DEF Stopped
  <2>3. CASE \E e \in {Raw("EIO"), NewError("EOPNOTSUPP",
               "reflink is not supported for this source and destination")} : StopWalk(e)
    <3>1. "EIO" \in Errno
      BY DEF Errno
    <3>2. /\ NewError("EOPNOTSUPP", "reflink is not supported for this source and destination") \in Err
          /\ NewError("EOPNOTSUPP", "reflink is not supported for this source and destination") # nil
      BY CodedType DEF Code, Message
    <3> QED
      BY <1>e, <2>1, <2>3, <3>1, <3>2 DEF Stopped
  <2>4. CASE FileErrno(Front1) = "ok" /\ Descend /\ UNCHANGED pending
             /\ Put(TargetOf(Front1), FileCopy(Front1))
    <3>1. Front1 \in Seq(Name)
      BY <1>0, <2>1, HeadTypes DEF Front1
    <3>2. /\ FileCopy(Front1) \in Node /\ FileCopy(Front1).kind = "file"
          /\ FileCopy(Front1).target = << >>
          /\ CreateErrno(TargetOf(Front1)) = "ok" /\ TargetOf(Front1) \in Path
      BY <1>0, <2>4, <3>1, FileCopyFacts
    <3>3. \E i \in NewInode : Puts(TargetOf(Front1), FileCopy(Front1), i)
      BY <1>0, <2>4, <3>2, PutFacts, TypeParts
    <3> QED
      BY <1>8, <2>1, <2>4, <3>2, <3>3 DEF MakeFile, MadeFile
  <2>5. CASE StopWalk(Raw("ENXIO"))
    <3>1. "ENXIO" \in Errno
      BY DEF Errno
    <3> QED
      BY <1>e, <2>1, <2>5, <3>1 DEF Stopped
  <2>6. CASE /\ KindAt(Follow(Front1)) = "other" /\ pc' = "waiting"
             /\ UNCHANGED <<fsvars, walkvars, faults>>
    BY <2>1, <2>6 DEF Waits
  <2> QED
    BY <1>8, <2>2, <2>3, <2>4, <2>5, <2>6, MakeFileCases DEF Front1
<1>9. CASE Restore
  <2>1. pc = "restore"
    BY <1>9 DEF Restore
  <2>2. ASSUME NEW e \in Errno, pc' = "done", chmodErr' = Raw(e),
               UNCHANGED <<fsvars, src, dst, todo, seen, pending, walkErr>>
        PROVE  ChmodFailed
    BY <1>e, <2>1, <2>2 DEF ChmodFailed
  <2>3. "EPERM" \in Errno
    BY DEF Errno
  <2>4. OpenErrno(Last(pending).path) \in Errno \cup {"ok"}
    BY ErrnoTypes
  <2> QED
    BY <1>9, <2>1, <2>2, <2>3, <2>4 DEF Restore, Restored, Chmods, Over
<1>10. CASE WriterComes
  <2> DEFINE errno == CreateErrno(TargetOf(Front1))
             code == IF errno = "ok" THEN "EINVAL" ELSE errno
  <2>1. code \in Errno
    BY ErrnoTypes DEF Errno
  <2>2. pc = "waiting" /\ StopWalk(Raw(code))
    BY <1>10 DEF WriterComes, Front1
  <2> HIDE DEF code
  <2> QED
    BY <1>e, <2>1, <2>2 DEF Stopped
<1> QED
  BY <1>1, <1>2, <1>3, <1>4, <1>5, <1>6, <1>7, <1>8, <1>9, <1>10 DEF WalkStep

\* What is in a list.
LEMMA InConcat ==
  ASSUME NEW a \in Seq(Item), NEW b \in Seq(Item)
  PROVE  a \o b \in Seq(Item) /\ ToSet(a \o b) = ToSet(a) \cup ToSet(b)
<1>1. PICK c : c = a \o b
  OBVIOUS
<1>2. Len(a) \in Nat /\ Len(b) \in Nat /\ DOMAIN a = 1 .. Len(a) /\ DOMAIN b = 1 .. Len(b)
  OBVIOUS
<1>3. c \in Seq(Item) /\ Len(c) = Len(a) + Len(b) /\ DOMAIN c = 1 .. Len(a) + Len(b)
  BY <1>1
<1>4. \A n \in 1 .. Len(a) : c[n] = a[n]
  BY <1>1, <1>2
<1>5. ASSUME NEW n \in 1 .. Len(b) PROVE c[Len(a) + n] = b[n] /\ Len(a) + n \in DOMAIN c
  <2>1. Len(a) + n \in 1 .. Len(a) + Len(b) /\ Len(a) + n > Len(a) /\ Len(a) + n - Len(a) = n
    BY <1>2
  <2> QED
    BY <1>1, <1>3, <2>1
<1>6. ASSUME NEW n \in DOMAIN c PROVE c[n] \in ToSet(a) \cup ToSet(b)
  <2>1. CASE n \in 1 .. Len(a)
    BY <1>2, <1>4, <2>1 DEF ToSet
  <2>2. CASE n \notin 1 .. Len(a)
    <3>1. n - Len(a) \in 1 .. Len(b) /\ Len(a) + (n - Len(a)) = n
      BY <1>2, <1>3, <2>2
    <3>2. c[n] = b[n - Len(a)]
      BY <1>5, <3>1
    <3> QED
      BY <1>2, <3>1, <3>2 DEF ToSet
  <2> QED
    BY <2>1, <2>2
<1>7. \A n \in 1 .. Len(a) : n \in DOMAIN c
  BY <1>2, <1>3
<1>8. ToSet(c) = ToSet(a) \cup ToSet(b)
  BY <1>2, <1>4, <1>5, <1>6, <1>7 DEF ToSet
<1> QED
  BY <1>1, <1>3, <1>8

LEMMA InNothing == ToSet(<< >>) = {}
BY DEF ToSet

LEMMA InSingle ==
  ASSUME NEW x \in Item
  PROVE  <<x>> \in Seq(Item) /\ ToSet(<<x>>) = {x}
<1>1. <<x>> \in Seq(Item) /\ DOMAIN <<x>> = {1} /\ <<x>>[1] = x
  OBVIOUS
<1> QED
  BY <1>1 DEF ToSet

LEMMA InTodo ==
  ASSUME TypeOK, todo # << >>
  PROVE  /\ ToSet(todo) = {Head(todo)} \cup ToSet(Tail(todo)) /\ ToSet(todo) \subseteq Item
         /\ Front1 \in Seq(Name)
<1>1. todo \in Seq(Item) /\ Head(todo) \in Item /\ Tail(todo) \in Seq(Item) /\ Front1 \in Seq(Name)
  BY HeadTypes, TypeParts DEF Front1
<1>2. todo = <<Head(todo)>> \o Tail(todo)
  BY <1>1
<1>3. ToSet(todo) = ToSet(<<Head(todo)>>) \cup ToSet(Tail(todo))
  BY <1>1, <1>2, InConcat, InSingle
<1>4. ToSet(todo) \subseteq Item
  BY <1>1 DEF ToSet
<1> QED
  BY <1>1, <1>3, <1>4, InSingle

\* What a listing and a descent put there.
VisitOf(x, p) ==
  \E q \in Children(Follow(p)) :
    x \in Item /\ x.op = "visit" /\ x.path = Append(p, Last(q)) /\ (x.isDir <=> KindAt(q) = "dir")

LEMMA InListed ==
  ASSUME TypeOK, Listed
  PROVE  /\ \A x : x \in ToSet(todo') <=> VisitOf(x, Front1) \/ x \in ToSet(Tail(todo))
         /\ \A q \in Children(Follow(Front1)) :
              \E x \in ToSet(todo') : x.op = "visit" /\ x.path = Append(Front1, Last(q))
                                      /\ (x.isDir <=> KindAt(q) = "dir")
<1>1. PICK p : p = Front1
  OBVIOUS
<1>2. p \in Seq(Name) /\ Tail(todo) \in Seq(Item) /\ FSTypeOK
  BY <1>1, InTodo, HeadTypes, TypeParts DEF Listed
<1>3. PICK at : at = Listing(Follow(p))
  OBVIOUS
<1>4. PICK v : v = Visits(p)
  OBVIOUS
<1>5. /\ v \in Seq(Item) /\ DOMAIN v = DOMAIN at
      /\ \A n \in DOMAIN at :
           /\ at[n] \in Children(Follow(p))
           /\ v[n].op = "visit" /\ v[n].path = Append(p, Last(at[n]))
           /\ v[n].isDir <=> KindAt(at[n]) = "dir"
  BY <1>2, <1>3, <1>4, VisitsFacts
<1>6. \A q \in Children(Follow(p)) : \E n \in DOMAIN at : at[n] = q
  BY <1>3, ListingFacts
<1>7. ToSet(todo') = ToSet(v) \cup ToSet(Tail(todo))
  BY <1>1, <1>2, <1>4, <1>5, InConcat DEF Listed
<1>8. ASSUME NEW x \in ToSet(v) PROVE VisitOf(x, p)
  <2>1. PICK n \in DOMAIN v : x = v[n]
    BY DEF ToSet
  <2>2. x \in Item
    BY <1>5, <2>1
  <2> QED
    BY <1>5, <2>1, <2>2 DEF VisitOf
<1>9. ASSUME NEW q \in Children(Follow(p))
      PROVE  \E x \in ToSet(v) : x.op = "visit" /\ x.path = Append(p, Last(q))
                                 /\ (x.isDir <=> KindAt(q) = "dir")
  BY <1>5, <1>6 DEF ToSet
<1>10. ASSUME NEW x, VisitOf(x, p) PROVE x \in ToSet(v)
  <2>1. PICK q \in Children(Follow(p)) :
          x \in Item /\ x.op = "visit" /\ x.path = Append(p, Last(q)) /\ (x.isDir <=> KindAt(q) = "dir")
    BY <1>10 DEF VisitOf
  <2>2. PICK y \in ToSet(v) : y.op = "visit" /\ y.path = Append(p, Last(q))
                              /\ (y.isDir <=> KindAt(q) = "dir")
    BY <1>9
  <2>3. y \in Item
    BY <1>5 DEF ToSet
  <2>4. x = y
    BY <2>1, <2>2, <2>3 DEF Item
  <2> QED
    BY <2>2, <2>4
<1> QED
  BY <1>1, <1>7, <1>8, <1>9, <1>10

LEMMA InDescended ==
  ASSUME TypeOK, todo # << >>, Descend
  PROVE  \A x : x \in ToSet(todo') <=>
           (Head(todo).isDir /\ x = List(Front1)) \/ x \in ToSet(Tail(todo))
<1>1. Front1 \in Seq(Name) /\ Tail(todo) \in Seq(Item) /\ List(Front1) \in Item
  BY InTodo, HeadTypes, ItemTypes
<1>2. CASE Head(todo).isDir
  <2>1. todo' = <<List(Front1)>> \o Tail(todo)
    BY <1>2 DEF Descend, Front1
  <2>2. ToSet(todo') = {List(Front1)} \cup ToSet(Tail(todo))
    BY <1>1, <2>1, InSingle, InConcat
  <2> QED
    BY <1>2, <2>2
<1>3. CASE ~Head(todo).isDir
  <2>1. todo' = << >> \o Tail(todo)
    BY <1>3 DEF Descend
  <2>2. todo' = Tail(todo)
    BY <1>1, <2>1
  <2> QED
    BY <1>3, <2>2
<1> QED
  BY <1>2, <1>3

LEMMA InEntered ==
  ASSUME TypeOK, Entered
  PROVE  ToSet(todo') = IF KindAt(src) = "dir" THEN {List(src)} ELSE {}
<1>1. List(src) \in Item
  BY TypeParts, ItemTypes
<1> QED
  BY <1>1, InSingle, InNothing DEF Entered

LEMMA WalkBelow ==
  ASSUME TypeInv, Below, NotYet, WalkStep
  PROVE  Below'
<1>0. TypeOK /\ (pc \in {"make", "waiting"} => todo # << >>) /\ src \in Seq(Name)
  BY TypeParts DEF TypeInv, Looked
<1>1. CASE Began \/ Returned \/ LookedRoot
  <2>1. todo' = << >>
    BY <1>1 DEF Began, Returned, LookedRoot, Return, NotYet
  <2> QED
    BY <2>1, InNothing DEF Below
<1>2. CASE Stopped
  <2>1. todo' = << >>
    BY <1>2 DEF Stopped, StopWalk
  <2> QED
    BY <2>1, InNothing DEF Below
<1>3. CASE Entered
  <2>0. List(src).path = src
    BY DEF List
  <2>1. \A x \in ToSet(todo') : x.path = src
    BY <1>0, <1>3, <2>0, InEntered
  <2>2. src' = src /\ IsPrefix(src, src)
    BY <1>0, <1>3, PrefixRefl DEF Entered
  <2> QED
    BY <2>1, <2>2 DEF Below
<1>4. ASSUME todo # << >>, src' = src,
             \A x \in ToSet(todo') : IsPrefix(Front1, x.path) \/ x \in ToSet(Tail(todo)),
             ToSet(todo') \subseteq Item
      PROVE  Below'
  <2>1. Front1 \in Seq(Name) /\ IsPrefix(src, Front1) /\ \A x \in ToSet(Tail(todo)) : IsPrefix(src, x.path)
    BY <1>0, <1>4, InTodo DEF Below, Front1
  <2>2. ASSUME NEW x \in ToSet(todo') PROVE IsPrefix(src, x.path)
    <3>1. x.path \in Seq(Name)
      BY <1>4 DEF Item
    <3> QED
      BY <1>0, <1>4, <2>1, <3>1, PrefixTrans
  <2> QED
    BY <1>4, <2>2 DEF Below
<1>5. ToSet(todo') \subseteq Item
  <2>1. todo' \in Seq(Item)
    <3>1. TypeOK'
      BY NextType DEF Next, TypeInv
    <3> QED
      BY <3>1 DEF TypeOK, Item
  <2> QED
    BY <2>1 DEF ToSet
<1>6. CASE Listed
  <2>1. todo # << >> /\ src' = src
    BY <1>6 DEF Listed
  <2>2. ASSUME NEW x, VisitOf(x, Front1) PROVE IsPrefix(Front1, x.path)
    <3>1. PICK q \in Children(Follow(Front1)) : x.path = Append(Front1, Last(q))
      BY <2>2 DEF VisitOf
    <3> QED
      BY <1>0, <2>1, <3>1, ChildFacts, InTodo, PrefixAppend
  <2> QED
    BY <1>0, <1>4, <1>5, <1>6, <2>1, <2>2, InListed
<1>7. CASE LookedAt
  BY <1>7 DEF LookedAt, Look, Below
<1>8. ASSUME todo # << >>, Descend PROVE Below'
  <2>1. IsPrefix(Front1, List(Front1).path)
    BY <1>0, <1>8, InTodo, ItemTypes, PrefixRefl
  <2> QED
    BY <1>0, <1>4, <1>5, <1>8, <2>1, InDescended DEF Descend
<1>9. ASSUME NEW i, MadeFile(i) PROVE Below'
  BY <1>0, <1>8, <1>9 DEF MadeFile
<1>10. ASSUME NEW t, NEW i, MadeDir(t, i) PROVE Below'
  BY <1>0, <1>8, <1>10 DEF MadeDir, Below
<1>11. CASE Waits \/ WalkEnd \/ Restored \/ Over \/ ChmodFailed
  BY <1>11 DEF Waits, WalkEnd, Restored, Over, ChmodFailed, walkvars, Below
<1> QED
  BY <1>1, <1>2, <1>3, <1>6, <1>7, <1>9, <1>10, <1>11, Moves

LEMMA WalkEarly ==
  ASSUME TypeInv, NotYet, Ended, WalkStep
  PROVE  NotYet' /\ Ended' /\ pc' # "idle"
<1>1. CASE Began \/ Returned \/ LookedRoot
  BY <1>1 DEF Began, Returned, LookedRoot, Return, Look, NotYet, Ended
<1>2. CASE Stopped \/ Entered \/ Listed \/ LookedAt
  BY <1>2 DEF Stopped, StopWalk, Entered, Listed, LookedAt, Look, NotYet, Ended
<1>3. CASE (\E i : MadeFile(i)) \/ (\E t, i : MadeDir(t, i))
  BY <1>3 DEF MadeFile, MadeDir, Descend, NotYet, Ended
<1>4. CASE Waits \/ WalkEnd \/ Restored \/ Over \/ ChmodFailed
  BY <1>4 DEF Waits, WalkEnd, Restored, Over, ChmodFailed, walkvars, NotYet, Ended
<1> QED
  BY <1>1, <1>2, <1>3, <1>4, Moves

\* Before the request there is nothing of the walk's, and so nothing to be right.
LEMMA WalkSeen ==
  ASSUME ModeInv, WalkStep
  PROVE  SeenRight'
<1>0. TypeInv /\ TypeOK /\ (pc \in {"make", "waiting"} => todo # << >>) /\ src \in Seq(Name) /\ OldKept
  BY TypeParts DEF ModeInv, OwnInv, TypeInv, Looked
<1>1. CASE LookedRoot
  <2>1. /\ pc' = "mkdirRoot" /\ dst' = dst /\ src' = src
        /\ seen'.mode = IF src = << >> THEN RootMode ELSE inode[entry[src]].mode
    BY <1>1 DEF LookedRoot, Look
  <2>2. PICK m : m = IF src = << >> THEN RootMode ELSE inode[entry[src]].mode
    OBVIOUS
  <2>3. Right(dst, m)
    BY <1>0, <2>2, TargetOfRoot, LookRight
  <2>4. UNCHANGED <<entry, src, dst>>
    BY <1>1 DEF LookedRoot, Look, fsvars
  <2>5. seen'.mode = m
    BY <2>1, <2>2
  <2> HIDE <2>2
  <2>6. Right(dst, m)'
    BY <2>3, <2>4 DEF Right, OldDir, InitBelow, TargetOf
  <2> QED
    BY <2>1, <2>5, <2>6 DEF SeenRight, Right
<1>2. CASE LookedAt
  <2>1. todo # << >> /\ Front1 \in Seq(Name) /\ IsPrefix(src, Front1)
    BY <1>0, <1>2, InTodo DEF LookedAt, ModeInv, Below, Front1
  <2>2. PICK m : m = IF Front1 = << >> THEN RootMode ELSE inode[entry[Front1]].mode
    OBVIOUS
  <2>3. PICK t : t = TargetOf(Front1)
    OBVIOUS
  <2>4. Right(t, m)
    BY <1>0, <2>1, <2>2, <2>3, LookRight
  <2>5. UNCHANGED <<entry, src, dst, todo>> /\ pc' = "make" /\ seen'.mode = m
    BY <1>2, <2>2 DEF LookedAt, Look, fsvars
  <2>6. TargetOf(Front1)' = t
    BY <2>3, <2>5 DEF TargetOf, Front1
  <2> HIDE <2>2, <2>3
  <2>7. Right(t, m)'
    BY <2>4, <2>5 DEF Right, OldDir, InitBelow, TargetOf
  <2> QED
    BY <2>5, <2>6, <2>7 DEF SeenRight, Right
<1>3. CASE pc' \notin {"mkdirRoot", "make"}
  BY <1>3 DEF SeenRight
<1>4. CASE Began \/ Returned \/ Stopped \/ Entered \/ Listed
  BY <1>3, <1>4 DEF Began, Returned, Return, Stopped, StopWalk, Entered, Listed
<1>5. CASE (\E i : MadeFile(i)) \/ (\E t, i : MadeDir(t, i))
  BY <1>3, <1>5 DEF MadeFile, MadeDir, Descend
<1>6. CASE Waits \/ WalkEnd \/ Restored \/ Over \/ ChmodFailed
  BY <1>3, <1>6 DEF Waits, WalkEnd, Restored, Over, ChmodFailed
<1> QED
  BY <1>0, <1>1, <1>2, <1>4, <1>5, <1>6, Moves

LEMMA WalkPendingRight ==
  ASSUME ModeInv, WalkStep
  PROVE  PendingRight'
<1>0. TypeInv /\ OldKept /\ ShareStep /\ PendingRight /\ SeenRight
  BY WalkShare DEF ModeInv, OwnInv
<1>1. CASE Began
  <2>1. pending' = << >>
    BY <1>1 DEF ModeInv, NotYet, Began
  <2> QED
    BY <2>1 DEF PendingRight
<1>2. CASE ~Began
  <2>1. src' = src /\ dst' = dst
    BY <1>0, <1>2, Moves DEF Returned, LookedRoot, Return, Look, Stopped, StopWalk, Entered, Listed,
       LookedAt, MadeFile, MadeDir, Descend, Waits, WalkEnd, Restored, Over, ChmodFailed, walkvars
  <2>2. ASSUME NEW n \in DOMAIN pending' PROVE Right(pending[n].path, pending[n].mode)'
    <3>1. PICK t, m : t = pending'[n].path /\ m = pending'[n].mode
      OBVIOUS
    <3>2. Right(t, m)
      <4>1. CASE n \in DOMAIN pending /\ pending'[n] = pending[n]
        BY <1>0, <3>1, <4>1 DEF PendingRight
      <4>2. ASSUME NEW u, NEW i, MadeDir(u, i), pending'[n] = [path |-> u, mode |-> seen.mode]
            PROVE  Right(t, m)
        <5>1. t = u /\ m = seen.mode
          BY <3>1, <4>2
        <5> QED
          BY <1>0, <4>2, <5>1 DEF MadeDir, SeenRight
      <4> QED
        BY <1>0, <4>1, <4>2, PendingSteps
    <3>3. Right(t, m)'
      BY <1>0, <2>1, <3>2, RightKept
    <3> QED
      BY <3>1, <3>3 DEF Right
  <2> QED
    BY <2>2 DEF PendingRight
<1> QED
  BY <1>1, <1>2

\* What a step of the walk does to an entry that names a directory of its own.
LEMMA WalkDirs ==
  ASSUME ModeInv, WalkStep, NEW t \in Path, entry'[t] \in NewInode, inode'[entry'[t]].kind = "dir"
  PROVE  \/ \E i : MadeDir(t, i)
         \/ /\ entry'[t] = entry[t] /\ inode[entry[t]].kind = "dir"
            /\ \/ inode'[entry[t]] = inode[entry[t]]
               \/ /\ Restored /\ t = Last(pending).path
                  /\ inode'[entry[t]].mode = Last(pending).mode
<1>0. TypeInv /\ TypeOK /\ FSTypeOK /\ OwnInv /\ Used /\ OneName
  BY TypeParts DEF ModeInv, OwnInv, TypeInv
<1>1. NewInode \subseteq Inode /\ NoInode \notin Inode
  BY WalkAssumption, InodeAssumption
<1>2. CASE Quiet
  BY <1>2 DEF Quiet, Rests, fsvars
<1>3. ASSUME NEW u \in Path, NEW node, NEW i, Puts(u, node, i), node.kind = "dir" => \E j : MadeDir(u, j)
      PROVE  \/ \E j : MadeDir(t, j)
             \/ entry'[t] = entry[t] /\ inode[entry[t]].kind = "dir" /\ inode'[entry[t]] = inode[entry[t]]
  <2>1. /\ entry[u] = NoInode /\ entry'[u] = i /\ inode'[i] = node
        /\ \A p \in Path : p # u => entry'[p] = entry[p]
        /\ \A j \in Inode : j # i => inode'[j] = inode[j]
    BY <1>0, <1>3, PutsFacts
  <2>2. CASE t = u
    BY <1>3, <2>1, <2>2
  <2>3. CASE t # u
    <3>1. entry[t] \in Inode /\ entry[t] # NoInode /\ inode[entry[t]].kind # "free"
      BY <1>0, <1>1, <2>1, <2>3 DEF Used
    <3>2. entry[t] # i
      BY <1>3, <3>1 DEF Puts
    <3> QED
      BY <2>1, <2>3, <3>1, <3>2
  <2> QED
    BY <2>2, <2>3
<1>4. ASSUME NEW i, MadeFile(i)
      PROVE  entry'[t] = entry[t] /\ inode[entry[t]].kind = "dir" /\ inode'[entry[t]] = inode[entry[t]]
  <2>1. FileCopy(Front1).kind = "file"
    BY DEF FileCopy
  <2>2. ~\E u, j : MadeDir(u, j)
    BY <1>4 DEF MadeFile, MadeDir
  <2>3. TargetOf(Front1) \in Path /\ Puts(TargetOf(Front1), FileCopy(Front1), i)
    BY <1>4 DEF MadeFile
  <2>4. PICK u, node : u = TargetOf(Front1) /\ node = FileCopy(Front1)
    OBVIOUS
  <2>5. u \in Path /\ Puts(u, node, i) /\ node.kind # "dir"
    BY <2>1, <2>3, <2>4
  <2> QED
    BY <1>3, <2>2, <2>5
<1>5. ASSUME NEW u, NEW i, MadeDir(u, i)
      PROVE  \/ \E j : MadeDir(t, j)
             \/ entry'[t] = entry[t] /\ inode[entry[t]].kind = "dir" /\ inode'[entry[t]] = inode[entry[t]]
  <2>1. u \in Path /\ Puts(u, NewDir, i)
    BY <1>5 DEF MadeDir
  <2> QED
    BY <1>3, <1>5, <2>1
<1>6. CASE Restored
  <2>1. PICK u, m : u = Last(pending).path /\ m = Last(pending).mode
    OBVIOUS
  <2>2. /\ u \in Path /\ entry[u] \in NewInode /\ entry[u] \in Inode /\ entry' = entry
        /\ inode' = [inode EXCEPT ![entry[u]] = [inode[entry[u]] EXCEPT !.mode = m]]
        /\ inode[entry[u]] \in Node
    BY <1>0, <1>6, <2>1, ChmodsOwn DEF Restored
  <2>3. inode \in [Inode -> Node] /\ entry[t] \in Inode
    BY <1>0, <1>1, <2>2 DEF FSTypeOK
  <2>4. CASE entry[t] # entry[u]
    BY <2>2, <2>3, <2>4
  <2>5. CASE entry[t] = entry[u]
    <3>1. inode'[entry[t]] = [inode[entry[u]] EXCEPT !.mode = m]
      BY <2>2, <2>3, <2>5
    <3>2. inode'[entry[t]].mode = m /\ inode'[entry[t]].kind = inode[entry[t]].kind
      BY <2>2, <2>5, <3>1 DEF Node
    <3>3. t = u
      BY <1>0, <2>2, <2>5, <3>2 DEF OneName
    <3> QED
      BY <1>6, <2>1, <2>2, <3>2, <3>3
  <2> QED
    BY <2>4, <2>5
<1> QED
  BY <1>0, <1>2, <1>4, <1>5, <1>6, StepCases

LEMMA WalkOneName ==
  ASSUME ModeInv, WalkStep
  PROVE  OneName'
<1> SUFFICES ASSUME NEW p \in Path, NEW q \in Path, entry'[p] \in NewInode,
                    inode'[entry'[p]].kind = "dir", entry'[p] = entry'[q]
             PROVE  p = q
  BY DEF OneName
<1>0. TypeInv /\ Used /\ OneName /\ FSTypeOK
  BY TypeParts DEF ModeInv, OwnInv, TypeInv
<1>1. CASE entry'[p] = entry[p] /\ entry'[q] = entry[q] /\ inode[entry[p]].kind = "dir"
  BY <1>0, <1>1 DEF OneName
<1>2. ASSUME NEW s \in Path, NEW t \in Path, NEW i, MadeDir(s, i), entry'[s] = entry'[t]
      PROVE  s = t
  <2>1. /\ entry'[s] = i /\ inode[i].kind = "free" /\ i \in NewInode
        /\ \A u \in Path : u # s => entry'[u] = entry[u]
    BY <1>0, <1>2, MadeMakes DEF Makes
  <2>2. NoInode \notin NewInode
    BY WalkAssumption, InodeAssumption
  <2> QED
    BY <1>0, <1>2, <2>1, <2>2 DEF Used
<1> QED
  BY <1>1, <1>2, WalkDirs

LEMMA WalkDirsRight ==
  ASSUME ModeInv, WalkStep
  PROVE  DirsRight'
<1> SUFFICES ASSUME NEW t \in Path, entry'[t] \in NewInode, inode'[entry'[t]].kind = "dir"
             PROVE  ToDo(t)' \/ Right(t, inode[entry[t]].mode)'
  BY DEF DirsRight, DirRight
<1>0. TypeInv /\ TypeOK /\ OldKept /\ ShareStep /\ PendingRight /\ pending \in Seq(Chmod)
  BY TypeParts, WalkShare DEF ModeInv, OwnInv, TypeInv
<1>1. CASE Began
  BY <1>1 DEF Began, fsvars, ModeInv, NotYet
<1>2. CASE ~Began
  <2>1. src' = src /\ dst' = dst
    BY <1>0, <1>2, Moves DEF Returned, LookedRoot, Return, Look, Stopped, StopWalk, Entered, Listed,
       LookedAt, MadeFile, MadeDir, Descend, Waits, WalkEnd, Restored, Over, ChmodFailed, walkvars
  <2>2. PICK m : m = inode'[entry'[t]].mode
    OBVIOUS
  <2>3. ASSUME Right(t, m) PROVE Right(t, inode[entry[t]].mode)'
    <3>1. Right(t, m)'
      BY <1>0, <2>1, <2>3, RightKept
    <3> QED
      BY <2>2, <3>1 DEF Right
  <2>4. ASSUME NEW i, MadeDir(t, i) PROVE ToDo(t)'
    <3>1. PICK c : c = [path |-> t, mode |-> seen.mode]
      OBVIOUS
    <3>2. pending' = Append(pending, c) /\ c.path = t
      BY <2>4, <3>1 DEF MadeDir
    <3>3. Len(pending) + 1 \in DOMAIN pending' /\ pending'[Len(pending) + 1] = c
      BY <1>0, <3>2
    <3> QED
      BY <3>2, <3>3 DEF ToDo
  <2>5. CASE Restored /\ t = Last(pending).path /\ entry'[t] = entry[t]
             /\ inode'[entry[t]].mode = Last(pending).mode
    <3>1. pending # << >>
      BY <2>5 DEF Restored
    <3>2. Len(pending) \in DOMAIN pending /\ Last(pending) = pending[Len(pending)]
      BY <1>0, <3>1, PendingFacts
    <3>3. Right(t, Last(pending).mode)
      BY <1>0, <2>5, <3>2 DEF PendingRight
    <3> QED
      BY <2>2, <2>3, <2>5, <3>3
  <2>6. CASE entry'[t] = entry[t] /\ inode[entry[t]].kind = "dir" /\ inode'[entry[t]] = inode[entry[t]]
    <3>1. DirRight(t)
      BY DEF ModeInv, DirsRight
    <3>2. CASE Right(t, inode[entry[t]].mode)
      BY <2>2, <2>3, <2>6, <3>2
    <3>3. CASE ToDo(t)
      <4>1. PICK n \in DOMAIN pending : pending[n].path = t
        BY <3>3 DEF ToDo
      <4>2. CASE n \in DOMAIN pending' /\ pending'[n] = pending[n]
        BY <4>1, <4>2 DEF ToDo
      <4>3. CASE Restored /\ n = Len(pending)
        <5>1. pending # << >>
          BY <4>3 DEF Restored
        <5>2. Last(pending).path = t
          BY <1>0, <4>1, <4>3, <5>1, PendingFacts
        <5>3. PICK c : c = Last(pending).mode
          OBVIOUS
        <5>4. /\ entry[t] \in Inode /\ inode[entry[t]] \in Node
              /\ inode' = [inode EXCEPT ![entry[t]] = [inode[entry[t]] EXCEPT !.mode = c]]
          BY <4>3, <5>1, <5>2, <5>3, ChmodsOwn DEF ModeInv, Restored
        <5>5. inode \in [Inode -> Node]
          BY <1>0, TypeParts DEF FSTypeOK
        <5>6. inode'[entry[t]].mode = c
          BY <5>4, <5>5 DEF Node
        <5> QED
          BY <2>5, <2>6, <4>3, <5>2, <5>3, <5>6
      <4>4. CASE Restored /\ n # Len(pending)
        <5>1. /\ pending' = Front(pending) /\ Len(Front(pending)) = Len(pending) - 1
              /\ Front(pending) \in Seq(Chmod) /\ Len(pending) \in Nat \ {0}
              /\ \A k \in 1 .. Len(pending) - 1 : Front(pending)[k] = pending[k]
          BY <1>0, <4>4, PendingFacts DEF Restored
        <5>2. DOMAIN pending' = 1 .. Len(pending) - 1 /\ DOMAIN pending = 1 .. Len(pending)
          BY <1>0, <5>1
        <5>3. n \in 1 .. Len(pending) - 1
          BY <4>4, <5>1, <5>2
        <5> QED
          BY <4>2, <5>1, <5>2, <5>3
      <4>5. ASSUME NEW u, NEW i, MadeDir(u, i)
            PROVE  n \in DOMAIN pending' /\ pending'[n] = pending[n]
        <5>1. PICK c : c = [path |-> u, mode |-> seen.mode]
          OBVIOUS
        <5>2. pending' = Append(pending, c)
          BY <4>5, <5>1 DEF MadeDir
        <5> QED
          BY <1>0, <5>2
      <4>6. CASE pending' = pending
        BY <4>1, <4>6 DEF ToDo
      <4> QED
        BY <1>0, <4>2, <4>3, <4>4, <4>5, <4>6, StepCases DEF Quiet, MadeFile
    <3> QED
      BY <2>6, <3>1, <3>2, <3>3 DEF DirRight
  <2> QED
    BY <2>4, <2>5, <2>6, WalkDirs
<1> QED
  BY <1>1, <1>2

\* A guest gives no directory a second name, and makes none of the walk's.
LEMMA GuestDirs ==
  ASSUME ModeInv, Guests, NEW t \in Path, entry'[t] \in NewInode
  PROVE  /\ inode'[entry'[t]].kind = "dir" => entry'[t] = entry[t]
         /\ inode'[entry'[t]].mode = inode[entry'[t]].mode
         /\ inode'[entry'[t]].kind = inode[entry'[t]].kind
         /\ entry'[t] = entry[t] \/ \E q \in Path : entry'[t] = entry[q]
<1>1. FSTypeOK /\ GuestNext
  BY TypeParts DEF ModeInv, OwnInv, TypeInv, Guests
<1>2. GuestEffect
  BY <1>1, GuestEffects
<1>3. NewInode \subseteq Inode \ GuestInode /\ NoInode \notin Inode
  BY WalkAssumption, InodeAssumption
<1>4. inode'[entry'[t]].mode = inode[entry'[t]].mode /\ inode'[entry'[t]].kind = inode[entry'[t]].kind
  BY <1>2, <1>3 DEF GuestEffect
<1>5. ASSUME NEW q \in Path, KindAt(q) \in {"file", "symlink", "other"}
      PROVE  inode[entry[q]].kind \in {"file", "symlink", "other"}
  <2>1. q # << >> /\ KindAt(q) # "none"
    BY <1>5, PathAssumption
  <2> QED
    BY <1>1, <1>5, <2>1, KindAtEntry
<1> QED
  BY <1>2, <1>3, <1>4, <1>5 DEF GuestEffect

LEMMA GuestModes ==
  ASSUME NothingReplaced, ModeInv, Guests
  PROVE  ModeInv'
<1>0. /\ TypeOK /\ FSTypeOK /\ GuestNext /\ OldKept /\ Used /\ OwnInv
      /\ UNCHANGED <<pc, src, dst, todo, seen, pending, walkErr, chmodErr, faults>>
  BY TypeParts DEF ModeInv, OwnInv, TypeInv, Guests, walkvars
<1>1. OwnInv' /\ FSTypeOK'
  <2>1. OwnInv'
    BY <1>0, GuestOwn
  <2> QED
    BY <2>1 DEF OwnInv, TypeInv, TypeOK
<1>2. ShareStep
  BY <1>0, GuestShare
<1>3. OldKept' /\ Used'
  BY <1>0, <1>1, <1>2, OldStep
<1>4. ASSUME NEW t, NEW m, Right(t, m) PROVE Right(t, m)'
  BY <1>0, <1>2, <1>4, RightKept
<1>5. OneName'
  <2> SUFFICES ASSUME NEW p \in Path, NEW q \in Path, entry'[p] \in NewInode,
                      inode'[entry'[p]].kind = "dir", entry'[p] = entry'[q]
               PROVE  p = q
    BY DEF OneName
  <2>1. entry'[p] = entry[p] /\ entry'[q] = entry[q] /\ inode[entry[p]].kind = "dir"
    BY GuestDirs
  <2> QED
    BY <2>1 DEF ModeInv, OneName
<1>6. Below'
  BY <1>0 DEF ModeInv, Below
<1>7. NotYet'
  <2>1. ASSUME pc = "idle", NEW p \in Path PROVE entry'[p] \notin NewInode
    BY <2>1, GuestDirs DEF ModeInv, NotYet
  <2> QED
    BY <1>0, <2>1 DEF ModeInv, NotYet
<1>8. SeenRight'
  <2>1. PICK m, t : m = seen.mode /\ t = TargetOf(Front1)
    OBVIOUS
  <2>2. seen'.mode = m /\ TargetOf(Front1)' = t
    BY <1>0, <2>1 DEF TargetOf, Front1
  <2>3. (pc = "mkdirRoot" => Right(dst, m)) /\ (pc = "make" => Right(t, m))
    BY <2>1 DEF ModeInv, SeenRight
  <2>4. PICK d : d = dst
    OBVIOUS
  <2>5. (pc = "mkdirRoot" => Right(d, m)') /\ (pc = "make" => Right(t, m)')
    BY <1>4, <2>3, <2>4
  <2> QED
    BY <1>0, <2>2, <2>4, <2>5 DEF SeenRight, Right
<1>9. PendingRight'
  <2>1. ASSUME NEW n \in DOMAIN pending' PROVE Right(pending[n].path, pending[n].mode)'
    <3>1. PICK t, m : t = pending[n].path /\ m = pending[n].mode
      OBVIOUS
    <3>2. Right(t, m)
      BY <1>0, <3>1 DEF ModeInv, PendingRight
    <3>3. Right(t, m)'
      BY <1>4, <3>2
    <3> QED
      BY <1>0, <3>1, <3>3 DEF Right
  <2> QED
    BY <2>1 DEF PendingRight
<1>10. DirsRight'
  <2> SUFFICES ASSUME NEW t \in Path, entry'[t] \in NewInode, inode'[entry'[t]].kind = "dir"
               PROVE  ToDo(t)' \/ Right(t, inode[entry[t]].mode)'
    BY DEF DirsRight, DirRight
  <2>1. PICK m : m = inode[entry[t]].mode
    OBVIOUS
  <2>2. entry'[t] = entry[t] /\ inode'[entry'[t]].mode = m /\ inode[entry[t]].kind = "dir"
    BY <2>1, GuestDirs
  <2>3. ToDo(t) \/ Right(t, m)
    BY <2>1, <2>2 DEF ModeInv, DirsRight, DirRight
  <2>4. ToDo(t) => ToDo(t)'
    BY <1>0 DEF ToDo
  <2>5. Right(t, m) => Right(t, inode[entry[t]].mode)'
    <3>1. ASSUME Right(t, m)' PROVE Right(t, inode[entry[t]].mode)'
      BY <2>2, <3>1 DEF Right
    <3> QED
      BY <1>4, <3>1
  <2> QED
    BY <2>3, <2>4, <2>5
<1>11. Ended'
  BY <1>0 DEF ModeInv, Ended
<1> QED
  BY <1>1, <1>3, <1>5, <1>6, <1>7, <1>8, <1>9, <1>10, <1>11 DEF ModeInv

LEMMA WalkModes ==
  ASSUME ModeInv, WalkStep
  PROVE  ModeInv'
<1>0. TypeInv /\ FSTypeOK /\ OwnInv /\ OldKept /\ Used /\ NotYet /\ Ended /\ Below
  BY TypeParts DEF ModeInv, OwnInv, TypeInv
<1>1. OwnInv' /\ FSTypeOK'
  <2>1. OwnInv'
    BY <1>0, WalkOwn
  <2> QED
    BY <2>1 DEF OwnInv, TypeInv, TypeOK
<1>2. OldKept' /\ Used'
  BY <1>0, <1>1, WalkShare, OldStep
<1> QED
  BY <1>0, <1>1, <1>2, WalkOneName, WalkBelow, WalkEarly, WalkSeen, WalkPendingRight, WalkDirsRight
  DEF ModeInv

LEMMA InitModes == Init => ModeInv
<1> SUFFICES ASSUME Init PROVE ModeInv
  OBVIOUS
<1>0. OwnInv /\ entry = InitEntry /\ inode = InitInode /\ pending = << >> /\ todo = << >> /\ pc = "idle"
  BY InitOwn DEF Init, FSInit
<1>1. OldKept /\ Used
  BY <1>0, InitAssumption DEF OldKept, Used
<1>2. \A p \in Path : entry[p] \notin NewInode
  <2>1. NoInode \notin NewInode
    BY WalkAssumption, InodeAssumption
  <2> QED
    BY <1>0, <2>1, InitIsOld DEF Old
<1>3. OneName /\ NotYet /\ DirsRight
  BY <1>0, <1>2 DEF OneName, NotYet, DirsRight, DirRight
<1>4. Below /\ PendingRight
  BY <1>0, InNothing DEF Below, PendingRight
<1>5. SeenRight /\ Ended
  BY <1>0 DEF SeenRight, Ended
<1> QED
  BY <1>0, <1>1, <1>3, <1>4, <1>5 DEF ModeInv

LEMMA ModesStutter ==
  ASSUME ModeInv, UNCHANGED vars
  PROVE  ModeInv'
<1>1. OwnInv'
  BY OwnStutter DEF ModeInv
<1>2. UNCHANGED <<entry, inode, pc, src, dst, todo, seen, pending, chmodErr>>
  BY DEF vars, fsvars, walkvars
<1>3. OldKept' /\ Used' /\ OneName' /\ Below' /\ NotYet' /\ Ended'
  BY <1>2 DEF ModeInv, OldKept, Used, OneName, Below, NotYet, Ended
<1>4. ASSUME NEW t, NEW m PROVE Right(t, m)' <=> Right(t, m)
  BY <1>2 DEF Right, OldDir, InitBelow, TargetOf
<1>5. SeenRight' /\ PendingRight' /\ DirsRight'
  BY <1>2 DEF ModeInv, SeenRight, PendingRight, DirsRight, DirRight, ToDo, Right, OldDir,
              InitBelow, TargetOf, Front1
<1> QED
  BY <1>1, <1>3, <1>5 DEF ModeInv

LEMMA NextModes ==
  ASSUME NothingReplaced, ModeInv, [Next]_vars
  PROVE  ModeInv'
BY ModesStutter, WalkModes, GuestModes DEF Next, Finished

LEMMA EndedRight == ModeInv => ModesRestored
<1> SUFFICES ASSUME ModeInv, pc = "done", NEW p \in InitBelow(src), TargetOf(p) \in Path,
                    entry[TargetOf(p)] \in NewInode, KindAt(TargetOf(p)) = "dir",
                    entry[p] = InitEntry[p], KindAt(p) = "dir",
                    ~(chmodErr # nil /\ ToDo(TargetOf(p)))
             PROVE  inode[entry[TargetOf(p)]].mode = inode[entry[p]].mode
  BY DEF ModesRestored, ToDo
<1>1. PICK t : t = TargetOf(p)
  OBVIOUS
<1>2. t \in Path /\ entry[t] \in NewInode /\ p \in Path /\ InitEntry[p] # NoInode
  BY <1>1 DEF InitBelow
<1>3. p # << >> /\ t # << >> /\ NoInode \notin NewInode
  BY <1>2, PathAssumption, WalkAssumption, InodeAssumption
<1>4. inode[entry[t]].kind = "dir" /\ inode[entry[p]].kind = "dir"
  BY <1>1, <1>2, <1>3 DEF KindAt
<1>5. InitEntry[p] \in Old /\ InitInode[InitEntry[p]].kind = "dir"
      /\ inode[entry[p]].mode = InitInode[InitEntry[p]].mode
  BY <1>2, <1>4, InitIsOld DEF ModeInv, OldKept
<1>6. DirRight(t) /\ (chmodErr = nil => ~ToDo(t))
  BY <1>2 DEF ModeInv, Ended, DirsRight, ToDo
<1>7. Right(t, inode[entry[t]].mode)
  BY <1>1, <1>2, <1>4, <1>6 DEF DirRight
<1>8. OldDir(p)
  BY <1>5 DEF OldDir
<1> QED
  BY <1>1, <1>2, <1>5, <1>7, <1>8 DEF Right

\* Whatever stops the walk, the directories it has made have the modes of those they
\* copy once it is done, but for the one whose chmod failed and those made before it,
\* if no guest puts anything in the place of a directory: a directory is on the list of restoreDirectoryModes as soon as
\* os.Mkdir has made it, with the mode that Lstat found, and leaves the list only when
\* os.Chmod has been done.
THEOREM AlwaysRestored == NothingReplaced => (Spec => []ModesRestored)
<1> SUFFICES ASSUME NothingReplaced PROVE Spec => []ModesRestored
  OBVIOUS
<1>1. Init => ModeInv
  BY InitModes
<1>2. ModeInv /\ [Next]_vars => ModeInv'
  BY NextModes
<1>3. ModeInv => ModesRestored
  BY EndedRight
<1> QED
  BY <1>1, <1>2, <1>3, PTL DEF Spec
-----------------------------------------------------------------------------
(* Every path is come to once.                                              *)

Apart(s) == \A m, n \in DOMAIN s : IsPrefix(s[m].path, s[n].path) => m = n

LEMMA ApartConcat ==
  ASSUME NEW a \in Seq(Item), NEW b \in Seq(Item), Apart(a), Apart(b),
         \A x \in ToSet(a), y \in ToSet(b) : ~IsPrefix(x.path, y.path) /\ ~IsPrefix(y.path, x.path)
  PROVE  Apart(a \o b)
<1>1. PICK c : c = a \o b
  OBVIOUS
<1>2. Len(a) \in Nat /\ Len(b) \in Nat /\ DOMAIN a = 1 .. Len(a) /\ DOMAIN b = 1 .. Len(b)
  OBVIOUS
<1>3. DOMAIN c = 1 .. Len(a) + Len(b)
  BY <1>1
<1>4. \A n \in 1 .. Len(a) : c[n] = a[n]
  BY <1>1, <1>2
<1>5. ASSUME NEW n \in DOMAIN c, n \notin 1 .. Len(a)
      PROVE  n - Len(a) \in DOMAIN b /\ c[n] = b[n - Len(a)]
  BY <1>1, <1>2, <1>3, <1>5
<1>6. ASSUME NEW m \in DOMAIN c, NEW n \in DOMAIN c, IsPrefix(c[m].path, c[n].path) PROVE m = n
  <2>1. CASE m \in 1 .. Len(a) /\ n \in 1 .. Len(a)
    BY <1>2, <1>4, <1>6, <2>1 DEF Apart
  <2>2. CASE m \notin 1 .. Len(a) /\ n \notin 1 .. Len(a)
    <3>1. PICK k, l : k = m - Len(a) /\ l = n - Len(a)
      OBVIOUS
    <3>2. k \in DOMAIN b /\ l \in DOMAIN b /\ c[m] = b[k] /\ c[n] = b[l]
      BY <1>5, <2>2, <3>1
    <3>3. k = l
      BY <1>6, <3>2 DEF Apart
    <3> QED
      BY <1>2, <1>3, <3>1, <3>3
  <2>3. CASE m \in 1 .. Len(a) /\ n \notin 1 .. Len(a)
    <3>1. c[m] \in ToSet(a) /\ c[n] \in ToSet(b)
      BY <1>2, <1>4, <1>5, <2>3 DEF ToSet
    <3> QED
      BY <1>6, <3>1
  <2>4. CASE m \notin 1 .. Len(a) /\ n \in 1 .. Len(a)
    <3>1. c[n] \in ToSet(a) /\ c[m] \in ToSet(b)
      BY <1>2, <1>4, <1>5, <2>4 DEF ToSet
    <3> QED
      BY <1>6, <3>1
  <2> QED
    BY <2>1, <2>2, <2>3, <2>4
<1> QED
  BY <1>1, <1>6 DEF Apart

LEMMA ApartTail ==
  ASSUME TypeOK, todo # << >>, Apart(todo)
  PROVE  /\ Tail(todo) \in Seq(Item) /\ Apart(Tail(todo))
         /\ \A y \in ToSet(Tail(todo)) :
              /\ y \in Item /\ ~IsPrefix(Front1, y.path) /\ ~IsPrefix(y.path, Front1)
<1>1. todo \in Seq(Item) /\ Tail(todo) \in Seq(Item)
  BY HeadTypes, TypeParts
<1>2. PICK b : b = Tail(todo)
  OBVIOUS
<1>3. /\ Len(todo) \in Nat \ {0} /\ DOMAIN todo = 1 .. Len(todo) /\ DOMAIN b = 1 .. Len(todo) - 1
      /\ \A n \in DOMAIN b : b[n] = todo[n + 1] /\ n + 1 \in DOMAIN todo
      /\ Head(todo) = todo[1] /\ 1 \in DOMAIN todo
  BY <1>1, <1>2
<1>4. Apart(b)
  <2> SUFFICES ASSUME NEW m \in DOMAIN b, NEW n \in DOMAIN b, IsPrefix(b[m].path, b[n].path)
               PROVE  m = n
    BY DEF Apart
  <2>1. m + 1 = n + 1
    BY <1>3 DEF Apart
  <2> QED
    BY <1>3, <2>1
<1>5. ASSUME NEW y \in ToSet(b)
      PROVE  y \in Item /\ ~IsPrefix(Front1, y.path) /\ ~IsPrefix(y.path, Front1)
  <2>1. PICK n \in DOMAIN b : y = b[n]
    BY DEF ToSet
  <2>2. n + 1 # 1
    BY <1>3
  <2>3. y = todo[n + 1] /\ n + 1 \in DOMAIN todo /\ y \in Item
    BY <1>1, <1>2, <1>3, <2>1
  <2> QED
    BY <1>3, <2>2, <2>3 DEF Apart, Front1
<1> QED
  BY <1>1, <1>2, <1>4, <1>5

LEMMA ApartSingle ==
  ASSUME NEW x \in Item
  PROVE  Apart(<<x>>)
<1>1. DOMAIN <<x>> = {1}
  OBVIOUS
<1> QED
  BY <1>1 DEF Apart

\* The entries of a listing are side by side.
LEMMA VisitsApart ==
  ASSUME FSTypeOK, NEW p \in Seq(Name)
  PROVE  /\ Visits(p) \in Seq(Item) /\ Apart(Visits(p))
         /\ \A x \in ToSet(Visits(p)) : VisitOf(x, p)
         /\ \A x \in ToSet(Visits(p)) : \E n \in Name : x.path = Append(p, n)
<1>1. PICK at : at = Listing(Follow(p))
  OBVIOUS
<1>2. PICK v : v = Visits(p)
  OBVIOUS
<1>3. /\ v \in Seq(Item) /\ DOMAIN v = DOMAIN at
      /\ \A n \in DOMAIN at :
           /\ at[n] \in Children(Follow(p))
           /\ v[n].op = "visit" /\ v[n].path = Append(p, Last(at[n]))
           /\ v[n].isDir <=> KindAt(at[n]) = "dir"
  BY <1>1, <1>2, VisitsFacts
<1>4. \A m, n \in DOMAIN at : at[m] = at[n] => m = n
  BY <1>1, ListingFacts
<1>5. ASSUME NEW n \in DOMAIN v PROVE Last(at[n]) \in Name /\ at[n] = Append(Follow(p), Last(at[n]))
  BY <1>3, ChildFacts
<1>6. Apart(v)
  <2> SUFFICES ASSUME NEW m \in DOMAIN v, NEW n \in DOMAIN v, IsPrefix(v[m].path, v[n].path)
               PROVE  m = n
    BY DEF Apart
  <2>1. PICK x, y : x = Last(at[m]) /\ y = Last(at[n])
    OBVIOUS
  <2>2. x \in Name /\ y \in Name /\ at[m] = Append(Follow(p), x) /\ at[n] = Append(Follow(p), y)
    BY <1>5, <2>1
  <2>3. PICK a, b : a = Append(p, x) /\ b = Append(p, y)
    OBVIOUS
  <2>4. /\ a \in Seq(Name) /\ b \in Seq(Name) /\ Len(a) = Len(p) + 1 /\ Len(b) = Len(p) + 1
        /\ Len(p) \in Nat /\ a[Len(p) + 1] = x /\ b[Len(p) + 1] = y
    BY <2>2, <2>3
  <2>5. IsPrefix(a, b)
    BY <1>3, <2>1, <2>3
  <2>6. a = b
    BY <2>4, <2>5, PrefixSame
  <2> QED
    BY <1>3, <1>4, <2>2, <2>4, <2>6
<1>7. ASSUME NEW x \in ToSet(v) PROVE VisitOf(x, p) /\ \E n \in Name : x.path = Append(p, n)
  <2>1. PICK n \in DOMAIN v : x = v[n]
    BY DEF ToSet
  <2>2. x \in Item
    BY <1>3, <2>1
  <2> QED
    BY <1>3, <1>5, <2>1, <2>2 DEF VisitOf
<1> QED
  BY <1>2, <1>3, <1>6, <1>7

LEMMA WalkApart ==
  ASSUME TypeInv, NotYet, Apart(todo), WalkStep
  PROVE  Apart(todo')
<1>0. TypeOK /\ FSTypeOK /\ (pc \in {"make", "waiting"} => todo # << >>) /\ src \in Seq(Name)
  BY TypeParts DEF TypeInv, Looked
<1>n. Apart(<< >>)
  BY DEF Apart
<1>1. CASE Began \/ Returned \/ LookedRoot \/ Stopped
  BY <1>n, <1>1 DEF Began, Returned, LookedRoot, Return, Stopped, StopWalk, NotYet
<1>2. CASE Entered
  <2>1. List(src) \in Item
    BY <1>0, ItemTypes
  <2> QED
    BY <1>n, <1>2, <2>1, ApartSingle DEF Entered
<1>3. ASSUME todo # << >>, NEW v \in Seq(Item), Apart(v), todo' = v \o Tail(todo),
             \A x \in ToSet(v) : x.path = Front1 \/ \E n \in Name : x.path = Append(Front1, n)
      PROVE  Apart(todo')
  <2>1. Front1 \in Seq(Name)
    BY <1>0, <1>3, InTodo
  <2>2. ASSUME NEW x \in ToSet(v), NEW y \in ToSet(Tail(todo))
        PROVE  ~IsPrefix(x.path, y.path) /\ ~IsPrefix(y.path, x.path)
    <3>1. y \in Item /\ y.path \in Seq(Name) /\ ~IsPrefix(Front1, y.path) /\ ~IsPrefix(y.path, Front1)
      BY <1>0, <1>3, ApartTail DEF Item
    <3>2. ASSUME NEW n \in Name, x.path = Append(Front1, n)
          PROVE  ~IsPrefix(x.path, y.path) /\ ~IsPrefix(y.path, x.path)
      <4>1. PICK a : a = Append(Front1, n)
        OBVIOUS
      <4>2. a \in Seq(Name) /\ IsPrefix(Front1, a)
        BY <2>1, <4>1, PrefixAppend
      <4>3. ~IsPrefix(a, y.path)
        BY <2>1, <3>1, <4>2, PrefixTrans
      <4>4. ~IsPrefix(y.path, a)
        BY <2>1, <3>1, <4>1, <4>2, PrefixOfAppend
      <4> QED
        BY <3>2, <4>1, <4>3, <4>4
    <3> QED
      BY <1>3, <3>1, <3>2
  <2> QED
    BY <1>0, <1>3, <2>2, ApartTail, ApartConcat
<1>4. CASE Listed
  <2>1. todo # << >> /\ Front1 \in Seq(Name) /\ todo' = Visits(Front1) \o Tail(todo)
    BY <1>0, <1>4, InTodo DEF Listed
  <2> QED
    BY <1>0, <1>3, <2>1, VisitsApart
<1>5. ASSUME todo # << >>, Descend PROVE Apart(todo')
  <2>1. PICK v : v = IF Head(todo).isDir THEN <<List(Front1)>> ELSE << >>
    OBVIOUS
  <2>2. todo' = v \o Tail(todo)
    BY <1>5, <2>1 DEF Descend, Front1
  <2>3. List(Front1) \in Item /\ List(Front1).path = Front1 /\ << >> \in Seq(Item)
    BY <1>0, <1>5, InTodo, ListType
  <2>4. v \in Seq(Item) /\ Apart(v) /\ \A x \in ToSet(v) : x.path = Front1
    BY <1>n, <2>1, <2>3, ApartSingle, InSingle, InNothing
  <2> QED
    BY <1>3, <1>5, <2>2, <2>4
<1>6. ASSUME NEW i, MadeFile(i) PROVE Apart(todo')
  BY <1>0, <1>5, <1>6 DEF MadeFile
<1>7. ASSUME NEW t, NEW i, MadeDir(t, i) PROVE Apart(todo')
  BY <1>0, <1>5, <1>7 DEF MadeDir
<1>8. CASE LookedAt \/ Waits \/ WalkEnd \/ Restored \/ Over \/ ChmodFailed
  BY <1>8 DEF LookedAt, Waits, WalkEnd, Restored, Over, ChmodFailed, walkvars
<1> QED
  BY <1>1, <1>2, <1>4, <1>6, <1>7, <1>8, Moves

\* What has been made at t is behind the walk.
Passed(t) ==
  \A y \in ToSet(todo) :
    LET u == TargetOf(y.path)
    IN  IsPrefix(u, t) => y.op = "list" /\ u = t
AllPassed ==
  /\ \A n \in DOMAIN pending : Passed(pending[n].path)
  /\ pc = "walkRoot" => todo = << >> /\ \A n \in DOMAIN pending : pending[n].path = dst

LEMMA ToDoTypes ==
  ASSUME TypeOK, Below, NEW y \in ToSet(todo)
  PROVE  y \in Item /\ y.path \in Seq(Name) /\ IsPrefix(src, y.path) /\ TargetOf(y.path) \in Seq(Name)
<1>1. y \in Item
  BY TypeParts DEF ToSet
<1> QED
  BY <1>1, TargetType DEF Below, Item

LEMMA PassedListed ==
  ASSUME TypeInv, Below, Listed, NEW t \in Seq(Name), Passed(t)
  PROVE  Passed(t)'
<1>0. TypeOK /\ todo # << >> /\ Head(todo).op = "list" /\ src' = src /\ dst' = dst
  BY DEF TypeInv, Listed
<1>1. Front1 \in Seq(Name) /\ IsPrefix(src, Front1) /\ Head(todo) \in ToSet(todo)
      /\ TargetOf(Front1) \in Seq(Name)
  BY <1>0, InTodo, ToDoTypes DEF Front1
<1>2. ASSUME NEW y \in ToSet(todo'), IsPrefix(TargetOf(y.path), t)
      PROVE  y.op = "list" /\ TargetOf(y.path) = t
  <2>1. CASE y \in ToSet(Tail(todo))
    <3>1. y \in ToSet(todo)
      BY <1>0, <2>1, InTodo
    <3> QED
      BY <1>2, <3>1 DEF Passed
  <2>2. CASE VisitOf(y, Front1)
    <3>1. PICK q \in Children(Follow(Front1)) : y.path = Append(Front1, Last(q))
      BY <2>2 DEF VisitOf
    <3>2. PICK x, u, w : x = Last(q) /\ u = TargetOf(Front1) /\ w = Append(u, x)
      OBVIOUS
    <3>3. x \in Name /\ u \in Seq(Name)
      BY <1>1, <3>2, ChildFacts
    <3>4. TargetOf(y.path) = w
      BY <1>0, <1>1, <3>1, <3>2, <3>3, TargetAppend
    <3>5. w \in Seq(Name) /\ IsPrefix(u, w) /\ Len(w) = Len(u) + 1 /\ Len(u) \in Nat
      BY <3>2, <3>3, PrefixAppend
    <3>6. IsPrefix(w, t)
      BY <1>2, <3>4
    <3>7. IsPrefix(u, t)
      BY <1>2, <3>3, <3>5, <3>6, PrefixTrans
    <3>8. u = t
      BY <1>1, <1>2, <3>2, <3>7 DEF Passed, Front1
    <3>9. Len(w) <= Len(t)
      BY <1>2, <3>5, <3>6, PrefixIs
    <3> QED
      BY <3>5, <3>8, <3>9
  <2> QED
    BY <1>0, <2>1, <2>2, InListed
<1> QED
  BY <1>0, <1>2 DEF Passed, TargetOf

LEMMA PassedDescended ==
  ASSUME TypeInv, Below, Apart(todo), pc = "make", Descend,
         NEW t \in Seq(Name), Passed(t) \/ t = TargetOf(Front1)
  PROVE  Passed(t)'
<1>0. TypeOK /\ (pc \in {"make", "waiting"} => todo # << >>)
  BY DEF TypeInv, Looked
<1> SUFFICES ASSUME NEW y \in ToSet(todo'), IsPrefix(TargetOf(y.path), t)'
             PROVE  (y.op = "list" /\ TargetOf(y.path) = t)'
  BY DEF Passed
<1>1. todo # << >> /\ src' = src /\ dst' = dst
  BY <1>0 DEF Descend
<1>2. /\ Front1 \in Seq(Name) /\ IsPrefix(src, Front1) /\ Head(todo) \in ToSet(todo)
      /\ TargetOf(Front1) \in Seq(Name) /\ Head(todo).op = "visit"
  BY <1>0, <1>1, InTodo, ToDoTypes DEF Front1, TypeInv, Looked
<1>3. IsPrefix(TargetOf(y.path), t)
  BY <1>1 DEF TargetOf
<1>4. y.op = "list" /\ TargetOf(y.path) = t
  <2>1. CASE y \in ToSet(Tail(todo))
    <3>1. y \in ToSet(todo) /\ ~IsPrefix(y.path, Front1)
      BY <1>0, <1>1, <2>1, InTodo, ApartTail
    <3>2. y.path \in Seq(Name) /\ IsPrefix(src, y.path)
      BY <1>0, <3>1, ToDoTypes
    <3>3. ~IsPrefix(TargetOf(y.path), TargetOf(Front1))
      BY <1>0, <1>2, <3>1, <3>2, TargetOrder
    <3> QED
      BY <1>3, <3>1, <3>3 DEF Passed
  <2>2. CASE y = List(Front1)
    <3>1. y.op = "list" /\ y.path = Front1
      BY <1>2, <2>2, ListType
    <3>2. CASE Passed(t)
      BY <1>2, <1>3, <3>1, <3>2 DEF Passed, Front1
    <3>3. CASE t = TargetOf(Front1)
      BY <3>1, <3>3
    <3> QED
      BY <3>2, <3>3
  <2> QED
    BY <1>0, <1>1, <2>1, <2>2, InDescended
<1> QED
  BY <1>1, <1>4 DEF TargetOf

LEMMA WalkPassed ==
  ASSUME TypeInv, NotYet, Below, Apart(todo), AllPassed, WalkStep
  PROVE  AllPassed'
<1>0. TypeOK /\ (pc \in {"make", "waiting"} => todo # << >>) /\ src \in Seq(Name) /\ dst \in Seq(Name)
      /\ pending \in Seq(Chmod)
  BY TypeParts DEF TypeInv, Looked
<1>1. CASE Began \/ Returned \/ LookedRoot
  <2>1. pending' = << >> /\ pc' # "walkRoot"
    BY <1>1 DEF Began, Returned, LookedRoot, Return, Look, NotYet
  <2> QED
    BY <2>1 DEF AllPassed
<1>2. CASE Stopped
  <2>1. todo' = << >> /\ pc' # "walkRoot"
    BY <1>2 DEF Stopped, StopWalk
  <2> QED
    BY <2>1, InNothing DEF AllPassed, Passed
<1>3. CASE Entered
  <2>1. pc' # "walkRoot" /\ pending' = pending /\ src' = src /\ dst' = dst /\ pc = "walkRoot"
    BY <1>3 DEF Entered
  <2>2. \A y \in ToSet(todo') : y = List(src)
    BY <1>0, <1>3, InEntered
  <2>3. List(src).path = src /\ List(src).op = "list" /\ TargetOf(src) = dst
    BY <1>0, ListType, TargetOfRoot
  <2>4. ASSUME NEW y \in ToSet(todo') PROVE y.op = "list" /\ TargetOf(y.path)' = dst
    BY <2>1, <2>2, <2>3 DEF TargetOf
  <2> QED
    BY <2>1, <2>4 DEF AllPassed, Passed
<1>4. CASE Listed
  <2>1. /\ todo # << >> /\ pc' = pc /\ pc = "walk" /\ Head(todo).op = "list"
        /\ pending' = pending /\ src' = src /\ dst' = dst
    BY <1>4 DEF Listed
  <2>2. ASSUME NEW n \in DOMAIN pending PROVE Passed(pending[n].path)'
    <3>1. PICK t : t = pending[n].path
      OBVIOUS
    <3>2. t \in Seq(Name) /\ Passed(t)
      <4>1. pending[n] \in Chmod
        BY <1>0
      <4> QED
        BY <3>1, <4>1 DEF AllPassed, Chmod
    <3>3. Passed(t)'
      BY <1>4, <3>2, PassedListed
    <3> QED
      BY <2>1, <3>1, <3>3 DEF Passed
  <2> QED
    BY <2>1, <2>2 DEF AllPassed
<1>5. CASE LookedAt
  BY <1>5 DEF LookedAt, Look, AllPassed, Passed, TargetOf
<1>6. ASSUME pc = "make", Descend
      PROVE  \A t \in Seq(Name) : Passed(t) \/ t = TargetOf(Front1) => Passed(t)'
  BY <1>6, PassedDescended
<1>7. ASSUME pc = "make", Descend,
             \A n \in DOMAIN pending' :
               \/ n \in DOMAIN pending /\ pending'[n] = pending[n]
               \/ pending'[n].path = TargetOf(Front1)
      PROVE  AllPassed'
  <2>1. pc' # "walkRoot" /\ TargetOf(Front1) \in Seq(Name)
    <3>1. Front1 \in Seq(Name)
      BY <1>0, <1>7, InTodo
    <3> QED
      BY <1>0, <1>7, <3>1, TargetType DEF Descend
  <2>2. ASSUME NEW n \in DOMAIN pending' PROVE Passed(pending[n].path)'
    <3>1. PICK t : t = pending'[n].path
      OBVIOUS
    <3>2. CASE n \in DOMAIN pending /\ pending'[n] = pending[n]
      <4>1. t \in Seq(Name) /\ Passed(t)
        <5>1. pending[n] \in Chmod
          BY <1>0, <3>2
        <5> QED
          BY <3>1, <3>2, <5>1 DEF AllPassed, Chmod
      <4> QED
        BY <1>6, <1>7, <3>1, <4>1 DEF Passed
    <3>3. CASE pending'[n].path = TargetOf(Front1)
      <4>1. t \in Seq(Name) /\ t = TargetOf(Front1)
        BY <2>1, <3>1, <3>3
      <4> QED
        BY <1>6, <1>7, <3>1, <4>1 DEF Passed
    <3> QED
      BY <1>7, <3>2, <3>3
  <2> QED
    BY <2>1, <2>2 DEF AllPassed
<1>8. ASSUME NEW i, MadeFile(i) PROVE AllPassed'
  BY <1>7, <1>8 DEF MadeFile
<1>9. ASSUME NEW t, NEW i, MadeDir(t, i) PROVE AllPassed'
  <2>1. PICK c : c = [path |-> t, mode |-> seen.mode]
    OBVIOUS
  <2>2. c.path = t /\ pending' = Append(pending, c)
    BY <1>9, <2>1 DEF MadeDir
  <2>3. ASSUME NEW n \in DOMAIN pending'
        PROVE  (n \in DOMAIN pending /\ pending'[n] = pending[n]) \/ pending'[n].path = t
    BY <1>0, <2>2
  <2>4. CASE pc = "make"
    <3>1. Descend /\ t = TargetOf(Front1)
      BY <1>9, <2>4 DEF MadeDir
    <3> QED
      BY <1>7, <2>3, <2>4, <3>1
  <2>5. CASE pc = "mkdirRoot"
    <3>1. todo' = << >> /\ pending = << >> /\ t = dst /\ dst' = dst
      BY <1>9, <2>5 DEF MadeDir, NotYet
    <3>2. \A n \in DOMAIN pending' : pending'[n].path = dst
      BY <2>3, <3>1
    <3> QED
      BY <3>1, <3>2, InNothing DEF AllPassed, Passed
  <2> QED
    BY <1>9, <2>4, <2>5 DEF MadeDir
<1>10. CASE Waits \/ WalkEnd \/ Over \/ ChmodFailed
  BY <1>10 DEF Waits, WalkEnd, Over, ChmodFailed, walkvars, AllPassed, Passed, TargetOf
<1>11. CASE Restored
  <2>1. \A n \in DOMAIN pending' : n \in DOMAIN pending /\ pending'[n] = pending[n]
    <3>1. ASSUME NEW n \in DOMAIN pending' PROVE n \in DOMAIN pending /\ pending'[n] = pending[n]
      BY <1>11, PendingSteps DEF Restored, MadeDir
    <3> QED
      BY <3>1
  <2>2. pc' # "walkRoot" /\ UNCHANGED <<src, dst, todo>>
    BY <1>11 DEF Restored
  <2>3. ASSUME NEW n \in DOMAIN pending' PROVE Passed(pending[n].path)'
    BY <2>1, <2>2 DEF AllPassed, Passed, TargetOf
  <2> QED
    BY <2>2, <2>3 DEF AllPassed
<1> QED
  BY <1>1, <1>2, <1>3, <1>4, <1>5, <1>8, <1>9, <1>10, <1>11, Moves
-----------------------------------------------------------------------------
(* What a success has copied.                                               *)

\* Guests neither write nor rename, and put nothing in the place of anything.
Steady == NothingReplaced /\ GuestOps \cap {"write", "rename"} = {}

\* A guest may have removed something, and nothing comes in its place.
Removed == Emptied /\ guestOps # 0

OldSame == \A i \in Old : inode[i] = InitInode[i]

OldStays ==
  \A p \in Path : InitEntry[p] # NoInode =>
    entry[p] = InitEntry[p] \/ (Removed /\ entry[p] \in NewInode \cup {NoInode})

\* What a guest may still remove has one name if the walk has made it.
Single ==
  "unlink" \in GuestOps /\ guestOps < MaxGuestOps =>
    \A p, q \in Path : entry[p] \in NewInode /\ entry[p] = entry[q] => p = q

Left == pc \in {"restore", "done"} => todo = << >>

\* What Lstat has found is still so, or gone for good.
StillSeen(p) ==
  /\ KindAt(p) = seen.kind \/ (Removed /\ KindAt(p) = "none")
  /\ p \in InitBelow(src) /\ entry[p] = InitEntry[p] => seen.mode = InitInode[InitEntry[p]].mode
SeenNow ==
  /\ pc = "mkdirRoot" => seen.kind = "dir" /\ StillSeen(src)
  /\ pc = "make" => seen.kind \in {"dir", "file"} /\ StillSeen(Front1)

\* A file that is copied has one name, as far as only the walk has been at work.
Alone(p) == Cardinality({q \in Path : InitEntry[q] = InitEntry[p]}) = 1
AloneSeen ==
  guestOps = 0 /\ pc = "make" /\ seen.kind = "file" /\ Front1 \in InitBelow(src) => Alone(Front1)

\* i is or was the copy of p; the mode of a directory may still be to do.
CopyOf(p, i) ==
  LET old == InitInode[InitEntry[p]]
      t == TargetOf(p)
  IN  /\ t \in Path /\ old.kind \in {"dir", "file"}
      /\ inode[i].kind = old.kind /\ inode[i].content = old.content /\ inode[i].target = << >>
      /\ inode[i].mode = old.mode \/ (old.kind = "dir" /\ ToDo(t))
      /\ entry[t] = i \/ (Removed /\ entry[t] = NoInode /\ \A q \in Path : entry[q] # i)
      /\ guestOps = 0 /\ old.kind = "file" => Alone(p)
Copied(p) == \E i \in NewInode : CopyOf(p, i)

\* The walk will come to p.
Coming(p) ==
  \E x \in ToSet(todo) :
    \/ x.op = "visit" /\ x.path = p
    \/ x.isDir /\ IsPrefix(x.path, p) /\ x.path # p

Walking == walkErr = nil /\ pc \in {"walkRoot", "walk", "make", "restore", "done"}
Handled(p) == Copied(p) \/ Coming(p) \/ (pc = "walkRoot" /\ p # src)
AllHandled ==
  Walking => \A p \in InitBelow(src) : entry[p] = InitEntry[p] => Handled(p)

\* What is on the list of modes is a directory the walk has made, or gone.
Solid(t) ==
  /\ t \in Path
  /\ \/ entry[t] \in NewInode /\ inode[entry[t]].kind = "dir"
     \/ Removed /\ entry[t] = NoInode
AllSolid == \A n \in DOMAIN pending : Solid(pending[n].path)

CopyInv ==
  /\ ModeInv /\ Tree /\ Apart(todo) /\ AllPassed
  /\ OldSame /\ OldStays /\ Single /\ Left /\ AllSolid /\ SeenNow /\ AloneSeen /\ AllHandled

LEMMA CopyParts ==
  CopyInv => /\ ModeInv /\ OwnInv /\ TypeInv /\ TypeOK /\ FSTypeOK /\ NotYet /\ Below /\ Used /\ Ended
             /\ src \in Seq(Name) /\ dst \in Seq(Name) /\ pending \in Seq(Chmod)
             /\ (pc \in {"make", "waiting"} => todo # << >> /\ Head(todo).op = "visit")
             /\ NewInode \subseteq Inode \ GuestInode /\ NoInode \notin Inode
BY TypeParts, WalkAssumption, InodeAssumption DEF CopyInv, ModeInv, OwnInv, TypeInv, Looked

\* What a steady guest does.
LEMMA GuestSteady ==
  ASSUME Steady, FSTypeOK, GuestNext
  PROVE  /\ \A i \in Inode \ GuestInode : inode'[i] = inode[i]
         /\ guestOps' # 0 /\ guestOps < MaxGuestOps /\ guestOps' = guestOps + 1
         /\ Removed => Removed' /\ \A p \in Path : entry'[p] = entry[p] \/ entry'[p] = NoInode
         /\ \A p \in Path :
              \/ entry'[p] = entry[p]
              \/ entry[p] = NoInode /\ (entry'[p] \in GuestInode \/ "link" \in GuestOps)
              \/ /\ Removed' /\ "unlink" \in GuestOps /\ entry[p] # NoInode
                 /\ entry' = [entry EXCEPT ![p] = NoInode]
<1>1. GuestEffect /\ "rename" \notin GuestOps /\ "write" \notin GuestOps
  BY GuestEffects DEF Steady
<1>2. guestOps \in Nat /\ MaxGuestOps \in Nat /\ guestOps < MaxGuestOps /\ guestOps' = guestOps + 1
      /\ guestOps' # 0
  BY <1>1, GuestAssumption DEF FSTypeOK, GuestEffect
<1>3. Emptied => Emptied' /\ GuestOps \cap {"create", "link", "rename"} = {}
  <2>1. MaxGuestOps <= guestOps => FALSE
    BY <1>2
  <2> QED
    BY <2>1 DEF Emptied
<1>4. "unlink" \in GuestOps => Removed'
  <2>1. MaxGuestOps <= 1 => MaxGuestOps <= guestOps'
    BY <1>2
  <2> QED
    BY <1>2, <2>1 DEF Emptied, Removed, Steady, NothingReplaced
<1>5. Removed => Removed' /\ \A p \in Path : entry'[p] = entry[p] \/ entry'[p] = NoInode
  BY <1>1, <1>2, <1>3 DEF Removed, GuestEffect
<1>6. ASSUME NEW p \in Path
      PROVE  \/ entry'[p] = entry[p]
             \/ entry[p] = NoInode /\ (entry'[p] \in GuestInode \/ "link" \in GuestOps)
             \/ /\ Removed' /\ "unlink" \in GuestOps /\ entry[p] # NoInode
                /\ entry' = [entry EXCEPT ![p] = NoInode]
  <2>1. CASE entry[p] = NoInode
    BY <1>1, <2>1 DEF GuestEffect
  <2>2. CASE entry[p] # NoInode
    BY <1>1, <1>4, <2>2, GuestUnlinks
  <2> QED
    BY <2>1, <2>2
<1> QED
  BY <1>1, <1>2, <1>5, <1>6 DEF GuestEffect

\* What comes back to its name has never left it.
LEMMA GuestBack ==
  ASSUME Steady, CopyInv, GuestNext, NEW p \in Path, InitEntry[p] # NoInode, entry'[p] = InitEntry[p]
  PROVE  entry[p] = InitEntry[p]
<1>1. FSTypeOK /\ OldStays /\ InitEntry[p] \in Old
  BY CopyParts, InitIsOld DEF CopyInv
<1>2. CASE Removed /\ entry[p] \in NewInode \cup {NoInode}
  <2>1. entry'[p] = entry[p] \/ entry'[p] = NoInode
    BY <1>1, <1>2, GuestSteady
  <2>2. InitEntry[p] \notin NewInode \cup {NoInode}
    BY <1>1 DEF Old
  <2> QED
    BY <1>2, <2>1, <2>2
<1> QED
  BY <1>1, <1>2 DEF OldStays

LEMMA GuestSeen ==
  ASSUME Steady, CopyInv, Guests, NEW p \in Seq(Name), StillSeen(p), seen.kind \in {"dir", "file"}
  PROVE  StillSeen(p)'
<1>0. GuestNext /\ FSTypeOK /\ Used /\ seen' = seen /\ src' = src /\ NoInode \notin Inode
  BY CopyParts DEF Guests, walkvars
<1>1. ASSUME p \in InitBelow(src), entry'[p] = InitEntry[p]
      PROVE  seen.mode = InitInode[InitEntry[p]].mode
  <2>1. p \in Path /\ InitEntry[p] # NoInode
    BY <1>1 DEF InitBelow
  <2> QED
    BY <1>0, <1>1, <2>1, GuestBack DEF StillSeen
<1>2. CASE p = << >>
  <2>1. KindAt(p) = "dir" /\ KindAt(p)' = "dir"
    BY <1>2 DEF KindAt
  <2> QED
    BY <1>0, <1>1, <2>1 DEF StillSeen, InitBelow
<1>3. CASE p # << >> /\ KindAt(p) = seen.kind
  <2>1. p \in Path /\ entry[p] \in Inode /\ entry[p] # NoInode /\ KindAt(p) = inode[entry[p]].kind
    <3>1. KindAt(p) # "none"
      BY <1>3
    <3> QED
      BY <1>0, <1>3, <3>1, KindAtEntry
  <2>2. entry'[p] = entry[p] \/ (Removed' /\ entry' = [entry EXCEPT ![p] = NoInode])
    BY <1>0, <2>1, GuestSteady
  <2>3. CASE entry'[p] = entry[p]
    <3>1. inode'[entry[p]].kind = inode[entry[p]].kind
      <4>1. GuestEffect
        BY <1>0, GuestEffects
      <4>2. inode[entry[p]].kind # "free"
        BY <1>3, <2>1
      <4> QED
        BY <2>1, <4>1, <4>2 DEF GuestEffect, KindsKept
    <3>2. KindAt(p)' = KindAt(p)
      BY <1>3, <2>1, <2>3, <3>1 DEF KindAt
    <3> QED
      BY <1>0, <1>1, <1>3, <3>2 DEF StillSeen, InitBelow
  <2>4. CASE Removed' /\ entry' = [entry EXCEPT ![p] = NoInode]
    <3>1. entry'[p] = NoInode
      BY <1>0, <2>1, <2>4 DEF FSTypeOK
    <3>2. KindAt(p)' = "none"
      BY <1>3, <2>1, <3>1 DEF KindAt
    <3> QED
      BY <1>0, <1>1, <2>4, <3>2 DEF StillSeen, InitBelow
  <2> QED
    BY <2>2, <2>3, <2>4
<1>4. CASE p # << >> /\ Removed /\ KindAt(p) = "none"
  <2>1. Removed' /\ \A q \in Path : entry'[q] = entry[q] \/ entry'[q] = NoInode
    BY <1>0, <1>4, GuestSteady
  <2>2. p \in Path => entry[p] = NoInode
    <3>1. ASSUME p \in Path, entry[p] # NoInode
          PROVE  FALSE
      <4>1. inode[entry[p]].kind = "none" /\ entry[p] \in Inode
        BY <1>0, <1>4, <3>1 DEF KindAt, FSTypeOK
      <4> QED
        BY <1>0, <4>1 DEF FSTypeOK, Node, Kind
    <3> QED
      BY <3>1
  <2>3. KindAt(p)' = "none"
    BY <1>4, <2>1, <2>2 DEF KindAt
  <2> QED
    BY <1>0, <1>1, <2>1, <2>3 DEF StillSeen, InitBelow
<1> QED
  BY <1>2, <1>3, <1>4 DEF StillSeen

LEMMA GuestCopied ==
  ASSUME Steady, CopyInv, Guests, NEW p, NEW i \in NewInode, CopyOf(p, i)
  PROVE  CopyOf(p, i)'
<1> DEFINE t == TargetOf(p)
<1>0. /\ GuestNext /\ FSTypeOK /\ Single /\ src' = src /\ dst' = dst /\ pending' = pending
      /\ i \in Inode \ GuestInode /\ NoInode \notin Inode /\ i # NoInode
  BY CopyParts DEF Guests, walkvars, CopyInv
<1>1. TargetOf(p)' = t /\ (ToDo(t)' <=> ToDo(t)) /\ t \in Path
  BY <1>0 DEF TargetOf, ToDo, CopyOf
<1>2. inode'[i] = inode[i] /\ guestOps' # 0
  BY <1>0, GuestSteady
<1>3. entry'[t] = i \/ (Removed' /\ entry'[t] = NoInode /\ \A q \in Path : entry'[q] # i)
  <2>1. CASE entry[t] = i
    <3>1. CASE entry'[t] = entry[t]
      BY <2>1, <3>1
    <3>2. CASE Removed' /\ "unlink" \in GuestOps /\ entry' = [entry EXCEPT ![t] = NoInode]
      <4>1. guestOps < MaxGuestOps
        BY <1>0, GuestSteady
      <4>2. \A q \in Path : entry[q] = i => q = t
        BY <1>0, <1>1, <2>1, <3>2, <4>1 DEF Single
      <4> QED
        BY <1>0, <1>1, <3>2, <4>2 DEF FSTypeOK
    <3> QED
      BY <1>0, <1>1, <2>1, <3>1, <3>2, GuestSteady
  <2>2. CASE Removed /\ entry[t] = NoInode /\ \A q \in Path : entry[q] # i
    <3>1. Removed' /\ \A q \in Path : entry'[q] = entry[q] \/ entry'[q] = NoInode
      BY <1>0, <2>2, GuestSteady
    <3> QED
      BY <1>0, <1>1, <2>2, <3>1
  <2> QED
    BY <2>1, <2>2 DEF CopyOf
<1> HIDE DEF t
<1> QED
  BY <1>1, <1>2, <1>3 DEF CopyOf, t

LEMMA GuestCopy ==
  ASSUME Steady, CopyInv, Guests
  PROVE  CopyInv'
<1>0. /\ GuestNext /\ UNCHANGED <<pc, walkvars, faults>> /\ ModeInv /\ FSTypeOK /\ TypeOK /\ Used
      /\ NewInode \subseteq Inode \ GuestInode /\ NoInode \notin Inode
      /\ MaxGuestOps \in Nat /\ NothingReplaced /\ "rename" \notin GuestOps
  BY CopyParts, GuestAssumption DEF Guests, Steady
<1>1. ModeInv'
  BY <1>0, GuestModes
<1>2. Tree'
  BY <1>0, GuestShape, TreeKept DEF CopyInv
<1>3. Apart(todo)' /\ AllPassed' /\ Left'
  BY <1>0 DEF CopyInv, walkvars, Apart, AllPassed, Passed, TargetOf, Left
<1>4. OldSame'
  BY <1>0, GuestSteady DEF CopyInv, OldSame, Old
<1>5. OldStays'
  <2> SUFFICES ASSUME NEW p \in Path, InitEntry[p] # NoInode
               PROVE  entry'[p] = InitEntry[p] \/ (Removed' /\ entry'[p] \in NewInode \cup {NoInode})
    BY DEF OldStays
  <2>1. CASE entry[p] = InitEntry[p]
    <3>1. entry'[p] = entry[p] \/ (Removed' /\ entry' = [entry EXCEPT ![p] = NoInode])
      BY <1>0, <2>1, GuestSteady
    <3> QED
      BY <1>0, <2>1, <3>1 DEF FSTypeOK
  <2>2. CASE Removed /\ entry[p] \in NewInode \cup {NoInode}
    BY <1>0, <2>2, GuestSteady
  <2> QED
    BY <2>1, <2>2 DEF CopyInv, OldStays
<1>6. Single'
  <2> SUFFICES ASSUME "unlink" \in GuestOps, guestOps' < MaxGuestOps,
                      NEW p \in Path, NEW q \in Path, entry'[p] \in NewInode, entry'[p] = entry'[q]
               PROVE  p = q
    BY DEF Single
  <2>1. guestOps < MaxGuestOps /\ guestOps' = guestOps + 1 /\ guestOps \in Nat
    BY <1>0, GuestSteady DEF FSTypeOK
  <2>2. ~(MaxGuestOps <= 1)
    BY <1>0, <2>1
  <2>3. "link" \notin GuestOps
    BY <1>0, <2>2 DEF NothingReplaced
  <2>4. \A r \in Path : entry'[r] \in NewInode => entry'[r] = entry[r]
    <3> SUFFICES ASSUME NEW r \in Path, entry'[r] \in NewInode, entry'[r] # entry[r]
                 PROVE  FALSE
      OBVIOUS
    <3>1. CASE entry[r] = NoInode /\ entry'[r] \in GuestInode
      BY <1>0, <3>1
    <3>2. CASE entry' = [entry EXCEPT ![r] = NoInode]
      BY <1>0, <3>2 DEF FSTypeOK
    <3> QED
      BY <1>0, <2>3, <3>1, <3>2, GuestSteady
  <2>5. Single
    BY DEF CopyInv
  <2> QED
    BY <2>1, <2>4, <2>5 DEF Single
<1>7. AllSolid'
  <2> SUFFICES ASSUME NEW t, Solid(t)
               PROVE  Solid(t)'
    BY <1>0 DEF CopyInv, AllSolid, walkvars
  <2>1. CASE entry[t] \in NewInode /\ inode[entry[t]].kind = "dir"
    <3>1. t \in Path /\ entry[t] # NoInode /\ inode'[entry[t]] = inode[entry[t]]
      BY <1>0, <2>1, GuestSteady DEF Solid
    <3>2. entry'[t] = entry[t] \/ (Removed' /\ entry' = [entry EXCEPT ![t] = NoInode])
      BY <1>0, <3>1, GuestSteady
    <3> QED
      BY <1>0, <2>1, <3>1, <3>2 DEF Solid, FSTypeOK
  <2>2. CASE Removed /\ entry[t] = NoInode
    BY <1>0, <2>2, GuestSteady DEF Solid
  <2> QED
    BY <2>1, <2>2 DEF Solid
<1>8. SeenNow'
  <2>1. src \in Seq(Name) /\ (pc = "make" => Front1 \in Seq(Name)) /\ Front1' = Front1 /\ src' = src
    BY <1>0, CopyParts, HeadTypes DEF Front1, walkvars
  <2>2. pc = "mkdirRoot" => seen.kind = "dir" /\ StillSeen(src)'
    BY <2>1, GuestSeen DEF CopyInv, SeenNow
  <2>3. pc = "make" => seen.kind \in {"dir", "file"} /\ StillSeen(Front1)'
    BY <2>1, GuestSeen DEF CopyInv, SeenNow
  <2> QED
    BY <1>0, <2>1, <2>2, <2>3 DEF SeenNow, walkvars, StillSeen
<1>9. AloneSeen'
  BY <1>0, GuestSteady DEF AloneSeen
<1>10. AllHandled'
  <2> SUFFICES ASSUME Walking', NEW p \in InitBelow(src)', entry'[p] = InitEntry[p]
               PROVE  Handled(p)'
    BY DEF AllHandled
  <2>1. Walking /\ p \in InitBelow(src) /\ p \in Path /\ InitEntry[p] # NoInode
    BY <1>0 DEF Walking, walkvars, InitBelow
  <2>2. entry[p] = InitEntry[p]
    BY <1>0, <2>1, GuestBack
  <2>3. Handled(p)
    BY <2>1, <2>2 DEF CopyInv, AllHandled
  <2>4. Copied(p) => Copied(p)'
    BY GuestCopied DEF Copied
  <2>5. Coming(p)' <=> Coming(p)
    BY <1>0 DEF Coming, walkvars
  <2> QED
    BY <1>0, <2>3, <2>4, <2>5 DEF Handled, walkvars
<1> QED
  BY <1>1, <1>2, <1>3, <1>4, <1>5, <1>6, <1>7, <1>8, <1>9, <1>10 DEF CopyInv

\* What is found at a path that is there as it was.
LEMMA OldFacts ==
  ASSUME CopyInv, NEW p \in InitBelow(src), entry[p] = InitEntry[p]
  PROVE  /\ p \in Path /\ p \in Seq(Name) /\ p # << >> /\ IsPrefix(src, p) /\ InitEntry[p] # NoInode
         /\ InitEntry[p] \in Old /\ InitEntry[p] \in Inode
         /\ inode[entry[p]] = InitInode[InitEntry[p]]
         /\ KindAt(p) = InitInode[InitEntry[p]].kind /\ InitInode[InitEntry[p]] \in Node
<1>1. p \in Path /\ IsPrefix(src, p) /\ InitEntry[p] # NoInode
  BY DEF InitBelow
<1>2. p \in Seq(Name) /\ p # << >>
  BY <1>1, PathAssumption
<1>3. InitEntry[p] \in Old /\ InitEntry[p] \in Inode
  BY <1>1, InitIsOld DEF Old
<1>4. inode[entry[p]] = InitInode[InitEntry[p]]
  BY <1>3 DEF CopyInv, OldSame
<1>5. KindAt(p) = InitInode[InitEntry[p]].kind
  BY <1>1, <1>2, <1>4 DEF KindAt
<1> QED
  BY <1>1, <1>2, <1>3, <1>4, <1>5, InitAssumption

\* The walk makes nothing at a path of the list.
LEMMA NotAgain ==
  ASSUME CopyInv, NEW t, NEW i, MadeDir(t, i) \/ (MadeFile(i) /\ t = TargetOf(Front1))
  PROVE  ~ToDo(t)
<1>0. TypeOK /\ NotYet /\ AllPassed /\ Below
  BY CopyParts DEF CopyInv
<1>1. CASE pc = "mkdirRoot"
  BY <1>0, <1>1 DEF NotYet, ToDo
<1>2. CASE pc = "make"
  <2>1. t = TargetOf(Front1) /\ todo # << >> /\ Head(todo).op = "visit"
    BY <1>2, CopyParts DEF MadeDir
  <2>2. Head(todo) \in ToSet(todo) /\ Front1 = Head(todo).path
    BY <1>0, <2>1, InTodo DEF Front1
  <2>3. t \in Seq(Name)
    BY <1>0, <2>1, <2>2, ToDoTypes
  <2>4. IsPrefix(t, t)
    BY <2>3, PrefixRefl
  <2>5. ~Passed(t)
    BY <2>1, <2>2, <2>4 DEF Passed
  <2> QED
    BY <1>0, <2>5 DEF AllPassed, ToDo
<1> QED
  BY <1>1, <1>2 DEF MadeDir, MadeFile

\* What a step of the walk makes is the copy of what it has looked at.
LEMMA WalkNewCopy ==
  ASSUME CopyInv, NEW p \in InitBelow(src), entry[p] = InitEntry[p], src' = src, dst' = dst,
         NEW i \in NewInode,
         \/ MadeFile(i) /\ p = Front1
         \/ MadeDir(TargetOf(p), i) /\ StillSeen(p) /\ seen.kind = "dir"
  PROVE  CopyOf(p, i)'
<1> DEFINE t == TargetOf(p)
           old == InitInode[InitEntry[p]]
<1>0. /\ TypeOK /\ FSTypeOK /\ old \in Node /\ inode[entry[p]] = old /\ KindAt(p) = old.kind
      /\ p \in Path /\ InitEntry[p] \in Inode /\ TargetOf(p)' = t /\ old.kind # "none"
  BY OldFacts, CopyParts DEF TargetOf, Node, Kind
<1>1. CASE MadeFile(i) /\ p = Front1
  <2>1. /\ seen.kind = "file" /\ t \in Path /\ FileCopy(p) \in Node /\ Puts(t, FileCopy(p), i)
        /\ pending' = pending /\ pc = "make"
    BY <1>1 DEF MadeFile
  <2>2. StillSeen(p)
    BY <1>1, <2>1 DEF CopyInv, SeenNow
  <2>3. old.kind = "file" /\ seen.mode = old.mode
    BY <1>0, <2>1, <2>2 DEF StillSeen
  <2>4. Follow(p) = p
    BY <1>0, <2>3 DEF Follow
  <2>5. entry'[t] = i /\ inode'[i] = FileCopy(p)
    BY <1>0, <2>1, PutsFacts
  <2>6. old.target = << >>
    BY <1>0, <2>3, InitAssumption
  <2>7. /\ FileCopy(p).kind = old.kind /\ FileCopy(p).content = old.content
        /\ FileCopy(p).target = << >> /\ FileCopy(p).mode = old.mode
    BY <1>0, <2>3, <2>4 DEF FileCopy
  <2>8. guestOps' = 0 => Alone(p)
    <3>1. guestOps' = guestOps
      BY <2>1 DEF Puts
    <3> QED
      BY <1>1, <2>1, <3>1 DEF CopyInv, AloneSeen
  <2> QED
    BY <1>0, <2>1, <2>3, <2>5, <2>7, <2>8 DEF CopyOf, Alone
<1>2. CASE MadeDir(t, i) /\ StillSeen(p) /\ seen.kind = "dir"
  <2>1. /\ t \in Path /\ NewDir \in Node /\ Puts(t, NewDir, i)
        /\ pending' = Append(pending, [path |-> t, mode |-> seen.mode])
    BY <1>2 DEF MadeDir
  <2>2. old.kind = "dir"
    BY <1>0, <1>2 DEF StillSeen
  <2>3. old.content = Empty
    BY <1>0, <2>2, InitAssumption
  <2>4. entry'[t] = i /\ inode'[i] = NewDir
    BY <1>0, <2>1, PutsFacts
  <2>5. ToDo(t)'
    <3>1. pending \in Seq(Chmod)
      BY CopyParts
    <3>2. Len(pending) + 1 \in DOMAIN pending' /\ pending'[Len(pending) + 1] = [path |-> t, mode |-> seen.mode]
      BY <2>1, <3>1
    <3>3. pending'[Len(pending) + 1].path = TargetOf(p)'
      BY <1>0, <3>2
    <3> QED
      BY <3>2, <3>3 DEF ToDo
  <2>6. NewDir.kind = old.kind /\ NewDir.content = old.content /\ NewDir.target = << >>
    BY <2>2, <2>3 DEF NewDir
  <2> HIDE DEF t, old
  <2>7. (TargetOf(p) \in Path)' /\ entry'[TargetOf(p)'] = i /\ ToDo(TargetOf(p))'
    BY <1>0, <2>1, <2>4, <2>5 DEF ToDo
  <2>8. (InitInode[InitEntry[p]])' = old
    BY DEF old
  <2> QED
    BY <2>2, <2>4, <2>6, <2>7, <2>8 DEF CopyOf
<1> QED
  BY <1>1, <1>2

\* A copy stays one, or is made anew.
LEMMA WalkCopied ==
  ASSUME CopyInv, WalkStep, Walking, pc # "done", NEW p \in InitBelow(src), entry[p] = InitEntry[p], Copied(p),
         src' = src, dst' = dst
  PROVE  Copied(p)'
<1> DEFINE t == TargetOf(p)
           old == InitInode[InitEntry[p]]
<1>0. /\ TypeOK /\ TypeInv /\ FSTypeOK /\ OwnInv /\ NewInode \subseteq Inode \ GuestInode /\ NoInode \notin Inode
      /\ p \in Path /\ TargetOf(p)' = t /\ p \in Seq(Name) /\ IsPrefix(src, p)
  BY OldFacts, CopyParts DEF TargetOf
<1>1. PICK i \in NewInode : CopyOf(p, i)
  BY DEF Copied
<1>2. /\ t \in Path /\ old.kind \in {"dir", "file"}
      /\ inode[i].kind = old.kind /\ inode[i].content = old.content /\ inode[i].target = << >>
      /\ inode[i].mode = old.mode \/ (old.kind = "dir" /\ ToDo(t))
      /\ entry[t] = i \/ (Removed /\ entry[t] = NoInode /\ \A q \in Path : entry[q] # i)
      /\ guestOps = 0 /\ old.kind = "file" => Alone(p)
  BY <1>1 DEF CopyOf
<1>3. i \in Inode /\ i # NoInode /\ inode[i].kind # "free"
  BY <1>0, <1>2
<1> HIDE DEF t, old
<1>4. /\ InitInode[InitEntry[p]] = old /\ (InitInode[InitEntry[p]])' = old
  BY DEF old
<1>5. CASE Quiet
  <2>1. inode' = inode /\ entry' = entry /\ guestOps' = guestOps /\ pending' = pending
    BY <1>5 DEF Quiet, Rests, fsvars
  <2>2. Removed' <=> Removed
    BY <2>1 DEF Removed, Emptied
  <2>3. CopyOf(p, i)'
    <3>1. ToDo(t) => ToDo(TargetOf(p))'
      BY <1>0, <2>1 DEF ToDo
    <3> QED
      BY <1>0, <1>2, <1>4, <2>1, <2>2, <3>1 DEF CopyOf, Alone
  <2> QED
    BY <2>3 DEF Copied
<1>6. ASSUME NEW u \in Path, NEW j \in NewInode, NEW node, Puts(u, node, j), u # t,
             \A n \in DOMAIN pending : n \in DOMAIN pending' /\ pending'[n] = pending[n]
      PROVE  Copied(p)'
  <2>1. /\ entry[u] = NoInode /\ inode[j].kind = "free" /\ entry'[u] = j
        /\ \A q \in Path : q # u => entry'[q] = entry[q]
        /\ \A k \in Inode : k # j => inode'[k] = inode[k]
        /\ guestOps' = guestOps
    <3>1. inode[j].kind = "free" /\ guestOps' = guestOps
      BY <1>6 DEF Puts
    <3> QED
      BY <1>0, <1>6, <3>1, PutsFacts
  <2>2. j # i /\ inode'[i] = inode[i] /\ entry'[t] = entry[t] /\ (Removed' <=> Removed)
    <3>1. Removed' <=> Removed
      BY <2>1 DEF Removed, Emptied
    <3> QED
      BY <1>2, <1>3, <1>6, <2>1, <3>1
  <2>3. (\A q \in Path : entry[q] # i) => \A q \in Path : entry'[q] # i
    BY <2>1, <2>2
  <2>4. ToDo(t) => ToDo(TargetOf(p))'
    BY <1>0, <1>6 DEF ToDo
  <2>5. CopyOf(p, i)'
    BY <1>0, <1>2, <1>4, <2>1, <2>2, <2>3, <2>4 DEF CopyOf, Alone
  <2> QED
    BY <2>5 DEF Copied
<1>7. ASSUME pc = "make", TargetOf(Front1) = t
      PROVE  Front1 = p
  <2>1. todo # << >> /\ Below
    BY <1>7, CopyParts
  <2>2. Front1 \in Seq(Name) /\ IsPrefix(src, Front1)
    BY <1>0, <2>1, InTodo, ToDoTypes DEF Front1
  <2> QED
    BY <1>0, <1>7, <2>2, TargetInjective DEF t
<1>8. ASSUME NEW j \in NewInode, MadeFile(j)
      PROVE  Copied(p)'
  <2>1. CASE TargetOf(Front1) = t
    <3>1. Front1 = p
      BY <1>7, <1>8, <2>1 DEF MadeFile
    <3> QED
      BY <1>8, <3>1, WalkNewCopy DEF Copied
  <2>2. CASE TargetOf(Front1) # t
    BY <1>6, <1>8, <2>2 DEF MadeFile
  <2> QED
    BY <2>1, <2>2
<1>9. ASSUME NEW u, NEW j, MadeDir(u, j)
      PROVE  Copied(p)'
  <2>1. pc = "make" /\ seen.kind = "dir" /\ u = TargetOf(Front1) /\ u \in Path /\ j \in NewInode
    BY <1>9 DEF MadeDir, Walking, Puts
  <2>2. CASE u = t
    <3>1. Front1 = p
      BY <1>7, <2>1, <2>2
    <3>2. StillSeen(p)
      BY <2>1, <3>1 DEF CopyInv, SeenNow
    <3> QED
      BY <1>9, <2>1, <2>2, <3>2, WalkNewCopy DEF Copied, t
  <2>3. CASE u # t
    <3>1. pending \in Seq(Chmod) /\ pending' = Append(pending, [path |-> u, mode |-> seen.mode])
      BY <1>9, CopyParts DEF MadeDir
    <3>2. \A n \in DOMAIN pending : n \in DOMAIN pending' /\ pending'[n] = pending[n]
      BY <3>1
    <3> QED
      BY <1>6, <1>9, <2>1, <2>3, <3>2 DEF MadeDir
  <2> QED
    BY <2>2, <2>3
<1>10. CASE Restored
  <2> DEFINE u == Last(pending).path
  <2>1. /\ pending # << >> /\ pending' = Front(pending) /\ Chmods(Last(pending))
    BY <1>10 DEF Restored
  <2>2. /\ u \in Path /\ entry[u] \in NewInode /\ entry[u] \in Inode /\ entry' = entry /\ guestOps' = guestOps
        /\ inode' = [inode EXCEPT ![entry[u]] = [inode[entry[u]] EXCEPT !.mode = Last(pending).mode]]
        /\ inode[entry[u]] \in Node
    BY <1>0, <2>1, ChmodsOwn
  <2>3. /\ Len(pending) \in DOMAIN pending /\ Last(pending) = pending[Len(pending)]
        /\ Front(pending) \in Seq(Chmod) /\ Len(Front(pending)) = Len(pending) - 1
        /\ \A n \in 1 .. Len(pending) - 1 : Front(pending)[n] = pending[n]
        /\ pending \in Seq(Chmod) /\ Len(pending) \in Nat \ {0}
    BY <1>0, <2>1, CopyParts, PendingFacts
  <2>4. (Removed' <=> Removed) /\ (inode[entry[u]].kind = "dir")
    <3>1. Solid(u)
      BY <2>3 DEF CopyInv, AllSolid
    <3> QED
      BY <1>0, <2>2, <3>1 DEF Removed, Emptied, Solid
  <2>5. CASE u = t
    <3>1. entry[t] = i
      BY <1>0, <1>2, <2>2, <2>5
    <3>2. OldDir(p)
      BY <1>2, <1>4, <2>4, <2>5, <3>1 DEF OldDir
    <3>3. Last(pending).mode = old.mode
      <4>1. Right(u, Last(pending).mode)
        BY <2>3 DEF CopyInv, ModeInv, PendingRight
      <4> QED
        BY <1>0, <1>4, <2>5, <3>2, <4>1 DEF Right, t
    <3>4. /\ inode'[i].kind = inode[i].kind /\ inode'[i].content = inode[i].content
          /\ inode'[i].target = inode[i].target /\ inode'[i].mode = old.mode
      BY <1>0, <2>2, <2>5, <3>1, <3>3 DEF FSTypeOK, Node
    <3>5. CopyOf(p, i)'
      BY <1>0, <1>2, <1>4, <2>2, <3>1, <3>4 DEF CopyOf, Alone
    <3> QED
      BY <3>5 DEF Copied
  <2>6. CASE u # t
    <3>1. entry[u] # i
      <4>1. ASSUME entry[u] = i
            PROVE  FALSE
        <5>1. entry[t] = i
          BY <1>2, <2>2, <4>1
        <5> QED
          BY <1>2, <2>2, <2>4, <2>6, <4>1, <5>1 DEF CopyInv, ModeInv, OneName
      <4> QED
        BY <4>1
    <3>2. inode'[i] = inode[i]
      BY <1>3, <2>2, <3>1 DEF FSTypeOK
    <3>3. ToDo(t) => ToDo(TargetOf(p))'
      <4> SUFFICES ASSUME NEW n \in DOMAIN pending, pending[n].path = t
                   PROVE  ToDo(TargetOf(p))'
        BY DEF ToDo
      <4>1. n # Len(pending)
        BY <2>3, <2>6
      <4>2. n \in 1 .. Len(pending) - 1
        BY <2>3, <4>1
      <4>3. n \in DOMAIN pending' /\ pending'[n] = pending[n]
        BY <2>1, <2>3, <4>2
      <4> QED
        BY <1>0, <4>3 DEF ToDo
    <3>4. CopyOf(p, i)'
      BY <1>0, <1>2, <1>4, <2>2, <2>4, <3>2, <3>3 DEF CopyOf, Alone
    <3> QED
      BY <3>4 DEF Copied
  <2> QED
    BY <2>5, <2>6
<1> QED
  BY <1>0, <1>5, <1>8, <1>9, <1>10, StepCases

\* No step of the walk brings an entry back.
LEMMA WalkBack ==
  ASSUME CopyInv, WalkStep, NEW p \in Path, InitEntry[p] # NoInode, entry'[p] = InitEntry[p]
  PROVE  entry[p] = InitEntry[p]
<1>1. InitEntry[p] \notin NewInode /\ OwnInv
  BY InitIsOld, CopyParts DEF Old
<1>2. entry' = entry \/ \E t, i, k : Makes(t, i, k)
  BY <1>1, WalkEffect
<1> QED
  BY <1>1, <1>2 DEF Makes

\* A directory above an entry that is there is listed with the name that leads to it.
LEMMA ListingLeads ==
  ASSUME CopyInv, Listed, NEW p \in Path, p \in Seq(Name), entry[p] # NoInode,
         IsPrefix(Front1, p), Front1 # p
  PROVE  \E n \in Name : \E y \in ToSet(todo') :
           /\ y.op = "visit" /\ y.path = Append(Front1, n) /\ y.path \in Seq(Name) /\ IsPrefix(y.path, p)
           /\ y.path = p \/ KindAt(y.path) = "dir"
           /\ y.isDir <=> KindAt(y.path) = "dir"
<1> DEFINE d == Front1
<1>0. TypeOK /\ FSTypeOK /\ Tree /\ todo # << >> /\ Front1 \in Seq(Name) /\ NoInode \notin Inode
  BY CopyParts, InTodo DEF CopyInv, Listed
<1>1. PICK x \in Name : /\ IsPrefix(Append(d, x), p) /\ Append(d, x) \in Seq(Name)
                        /\ Len(d) < Len(p) /\ Append(d, x) = Prefix(p, Len(d) + 1)
  BY <1>0, PrefixStep
<1> DEFINE c == Append(d, x)
<1>2. /\ c \in Seq(Name) /\ c # << >> /\ Dir(c) = d /\ Len(c) = Len(d) + 1 /\ Last(c) = x
      /\ Len(d) \in Nat /\ Len(p) \in Nat
  BY <1>0, OneNameMore
<1>3. KindAt(d) = "dir"
  <2>1. CASE d = << >>
    BY <2>1 DEF KindAt
  <2>2. CASE d # << >>
    <3>1. Len(d) # 0
      BY <1>0, <2>2
    <3>2. Len(d) \in 1 .. Len(p) - 1
      BY <1>1, <1>2, <3>1
    <3>3. d = Prefix(p, Len(d))
      BY <1>0, PrefixIsPrefix
    <3> QED
      BY <1>0, <3>2, <3>3 DEF Tree
  <2> QED
    BY <2>1, <2>2
<1>4. Follow(d) = d
  BY <1>3 DEF Follow
<1>5. c = p \/ KindAt(c) = "dir"
  <2>1. CASE Len(c) = Len(p)
    BY <1>1, <1>2, <2>1, PrefixSame
  <2>2. CASE Len(c) # Len(p)
    <3>1. Len(d) + 1 \in 1 .. Len(p) - 1
      BY <1>1, <1>2, <2>2
    <3> QED
      BY <1>0, <1>1, <3>1 DEF Tree
  <2> QED
    BY <2>1, <2>2
<1>6. c \in Path /\ entry[c] # NoInode
  BY <1>0, <1>2, <1>5, KindAtEntry
<1>7. c \in Children(Follow(d))
  BY <1>2, <1>4, <1>6 DEF Children
<1> HIDE DEF d, c
<1>8. PICK y \in ToSet(todo') : y.op = "visit" /\ y.path = Append(Front1, Last(c))
                                /\ (y.isDir <=> KindAt(c) = "dir")
  BY <1>0, <1>7, InListed DEF d
<1>9. y.path = c
  BY <1>2, <1>8 DEF c, d
<1> QED
  BY <1>1, <1>5, <1>8, <1>9 DEF c, d

LEMMA WalkHandled ==
  ASSUME CopyInv, WalkStep
  PROVE  AllHandled'
<1>0. /\ TypeOK /\ TypeInv /\ FSTypeOK /\ NotYet /\ AllPassed /\ Tree
      /\ (pc \in {"make", "waiting"} => todo # << >> /\ Head(todo).op = "visit")
      /\ src \in Seq(Name)
  BY CopyParts DEF CopyInv
<1> SUFFICES ASSUME Walking', NEW p \in InitBelow(src)', entry'[p] = InitEntry[p]
             PROVE  Handled(p)'
  BY DEF AllHandled
<1>1. ~Began /\ ~Returned /\ ~LookedRoot /\ ~Stopped /\ ~(ChmodFailed /\ walkErr # nil)
  BY DEF Began, Returned, LookedRoot, Stopped, ChmodFailed, Return, StopWalk, Look, Walking
<1>2. /\ src' = src /\ dst' = dst /\ walkErr = nil
      /\ pc \in {"mkdirRoot", "walkRoot", "walk", "make", "restore"}
  BY <1>0, <1>1, Moves DEF Entered, Listed, LookedAt, MadeFile, MadeDir, Waits, WalkEnd, Restored, Over,
     ChmodFailed, Look, Descend, walkvars, Walking
<1>3. p \in InitBelow(src) /\ p \in Path /\ InitEntry[p] # NoInode /\ IsPrefix(src, p)
  BY <1>2 DEF InitBelow
<1>4. entry[p] = InitEntry[p] /\ p \in Seq(Name)
  BY <1>3, WalkBack, OldFacts
<1>5. ASSUME pc # "mkdirRoot", Copied(p)
      PROVE  Handled(p)'
  <2>1. Walking /\ pc # "done"
    BY <1>2, <1>5 DEF Walking
  <2> QED
    BY <1>2, <1>3, <1>4, <1>5, <2>1, WalkCopied DEF Handled
<1>6. ASSUME pc # "mkdirRoot", ~Copied(p)
      PROVE  Coming(p) \/ (pc = "walkRoot" /\ p # src)
  <2>1. Walking
    BY <1>2, <1>6 DEF Walking
  <2> QED
    BY <1>3, <1>4, <1>6, <2>1 DEF CopyInv, AllHandled, Handled
<1>7. ASSUME todo' = todo, pc \notin {"mkdirRoot", "walkRoot"}
      PROVE  Handled(p)'
  <2>1. Coming(p) => Coming(p)'
    BY <1>7 DEF Coming
  <2> QED
    BY <1>5, <1>6, <1>7, <2>1 DEF Handled
<1>8. CASE Entered
  <2>1. pc = "walkRoot" /\ pc' = "walk"
    BY <1>8 DEF Entered
  <2>2. CASE p # src
    <3>1. KindAt(src) = "dir"
      <4>1. CASE src = << >>
        BY <4>1 DEF KindAt
      <4>2. CASE src # << >>
        <5>1. src = Prefix(p, Len(src)) /\ Len(src) \in 0 .. Len(p) /\ Len(src) # 0 /\ Len(p) \in Nat
          BY <1>0, <1>3, <1>4, <4>2, PrefixIsPrefix
        <5>2. Len(src) # Len(p)
          <6>1. Len(src) = Len(p) => Len(p) <= Len(src)
            BY <5>1
          <6> QED
            BY <1>0, <1>3, <1>4, <2>2, <6>1, PrefixSame
        <5>3. Len(src) \in 1 .. Len(p) - 1
          BY <5>1, <5>2
        <5>4. entry[p] # NoInode
          BY <1>3, <1>4
        <5> QED
          BY <1>0, <1>3, <5>1, <5>3, <5>4 DEF Tree
      <4> QED
        BY <4>1, <4>2
    <3>2. List(src) \in ToSet(todo')
      BY <1>0, <1>8, <3>1, InEntered
    <3>3. List(src).isDir /\ List(src).path = src
      BY DEF List
    <3> QED
      BY <1>3, <2>2, <3>2, <3>3 DEF Handled, Coming
  <2>3. CASE p = src
    <3>1. ~Coming(p)
      BY <1>0, <2>1, InNothing DEF AllPassed, Coming
    <3> QED
      BY <1>5, <1>6, <2>1, <2>3, <3>1
  <2> QED
    BY <2>2, <2>3
<1>9. CASE Listed
  <2>1. pc = "walk" /\ todo # << >> /\ Head(todo).op = "list"
    BY <1>9 DEF Listed
  <2>2. ASSUME Coming(p)
        PROVE  Coming(p)'
    <3>1. PICK x \in ToSet(todo) :
            \/ x.op = "visit" /\ x.path = p
            \/ x.isDir /\ IsPrefix(x.path, p) /\ x.path # p
      BY <2>2 DEF Coming
    <3>2. CASE x = Head(todo)
      <4>1. IsPrefix(Front1, p) /\ Front1 # p /\ entry[p] # NoInode
        BY <1>3, <1>4, <2>1, <3>1, <3>2 DEF Front1
      <4>2. PICK y \in ToSet(todo') :
              /\ y.op = "visit" /\ IsPrefix(y.path, p) /\ (y.path = p \/ KindAt(y.path) = "dir")
              /\ y.isDir <=> KindAt(y.path) = "dir"
        BY <1>3, <1>4, <1>9, <4>1, ListingLeads
      <4> QED
        BY <4>2 DEF Coming
    <3>3. CASE x \in ToSet(Tail(todo))
      <4>1. x \in ToSet(todo')
        BY <1>0, <1>9, <3>3, InListed
      <4> QED
        BY <3>1, <4>1 DEF Coming
    <3> QED
      BY <1>0, <2>1, <3>2, <3>3, InTodo
  <2> QED
    BY <1>5, <1>6, <2>1, <2>2 DEF Handled
<1>10. ASSUME pc = "make", Descend, Front1 = p => Copied(p)'
       PROVE  Handled(p)'
  <2>1. todo # << >> /\ Head(todo).op = "visit"
    BY <1>0, <1>10
  <2>2. ASSUME Coming(p), Front1 # p
        PROVE  Coming(p)'
    <3>1. PICK x \in ToSet(todo) :
            \/ x.op = "visit" /\ x.path = p
            \/ x.isDir /\ IsPrefix(x.path, p) /\ x.path # p
      BY <2>2 DEF Coming
    <3>2. CASE x = Head(todo)
      <4>1. Head(todo).isDir /\ IsPrefix(Front1, p)
        BY <2>2, <3>1, <3>2 DEF Front1
      <4>2. List(Front1) \in ToSet(todo')
        BY <1>0, <1>10, <2>1, <4>1, InDescended
      <4>3. List(Front1).isDir /\ List(Front1).path = Front1
        BY DEF List
      <4> QED
        BY <2>2, <4>1, <4>2, <4>3 DEF Coming
    <3>3. CASE x \in ToSet(Tail(todo))
      <4>1. x \in ToSet(todo')
        BY <1>0, <1>10, <2>1, <3>3, InDescended
      <4> QED
        BY <3>1, <4>1 DEF Coming
    <3> QED
      BY <1>0, <2>1, <3>2, <3>3, InTodo
  <2> QED
    BY <1>5, <1>6, <1>10, <2>2 DEF Handled
<1>11. ASSUME NEW i \in NewInode, MadeFile(i)
       PROVE  Handled(p)'
  <2>1. pc = "make" /\ Descend
    BY <1>11 DEF MadeFile
  <2>2. Front1 = p => Copied(p)'
    BY <1>2, <1>3, <1>4, <1>11, WalkNewCopy DEF Copied
  <2> QED
    BY <1>10, <2>1, <2>2
<1>12. ASSUME NEW t, NEW i, MadeDir(t, i)
       PROVE  Handled(p)'
  <2>0. i \in NewInode
    BY <1>12 DEF MadeDir, Puts
  <2>1. CASE pc = "mkdirRoot"
    <3>1. t = dst /\ pc' = "walkRoot"
      BY <1>12, <2>1 DEF MadeDir
    <3>2. CASE p = src
      <4>1. t = TargetOf(p)
        BY <1>0, <3>1, <3>2, TargetOfRoot
      <4>2. StillSeen(p) /\ seen.kind = "dir"
        BY <2>1, <3>2 DEF CopyInv, SeenNow
      <4> QED
        BY <1>2, <1>3, <1>4, <1>12, <2>0, <4>1, <4>2, WalkNewCopy DEF Handled, Copied
    <3> QED
      BY <1>2, <3>1, <3>2 DEF Handled
  <2>2. CASE pc = "make"
    <3>1. t = TargetOf(Front1) /\ Descend /\ seen.kind = "dir"
      BY <1>12, <2>2 DEF MadeDir
    <3>2. StillSeen(Front1)
      BY <2>2 DEF CopyInv, SeenNow
    <3>3. Front1 = p => Copied(p)'
      BY <1>2, <1>3, <1>4, <1>12, <2>0, <3>1, <3>2, WalkNewCopy DEF Copied
    <3> QED
      BY <1>10, <2>2, <3>1, <3>3
  <2> QED
    BY <1>12, <2>1, <2>2 DEF MadeDir
<1>13. CASE LookedAt \/ Waits \/ WalkEnd \/ Restored \/ Over \/ ChmodFailed
  <2>1. todo' = todo /\ pc \notin {"mkdirRoot", "walkRoot"}
    BY <1>13 DEF LookedAt, Waits, WalkEnd, Restored, Over, ChmodFailed, walkvars
  <2> QED
    BY <1>7, <2>1
<1> QED
  BY <1>0, <1>1, <1>8, <1>9, <1>11, <1>12, <1>13, Moves

\* The walk grows the tree.
LEMMA WalkGrows ==
  ASSUME TypeInv, OwnInv, WalkStep
  PROVE  TreeStep
<1>0. TypeOK /\ FSTypeOK
  BY TypeParts DEF TypeInv
<1>1. KindsKept
  BY WalkEffect DEF KindsKept
<1>2. ASSUME NEW t \in Path, NEW node, NEW i \in NewInode, Puts(t, node, i)
      PROVE  Grows(t, i)
  <2>1. WalkErrno(t) = "ok" /\ entry[t] = NoInode /\ i \in Inode /\ inode'[i] = node
    BY <1>0, <1>2, PutsFacts
  <2>2. node.kind # "free" /\ entry' = [entry EXCEPT ![t] = i]
    BY <1>2 DEF Puts
  <2>3. \A n \in 1 .. Len(t) - 1 : KindAt(Prefix(t, n)) = "dir"
    BY <2>1, ErrnoFacts
  <2> QED
    BY <2>1, <2>2, <2>3 DEF Grows
<1>3. CASE \E i \in NewInode : MadeFile(i)
  BY <1>1, <1>2, <1>3 DEF MadeFile, TreeStep
<1>4. CASE \E t, i : MadeDir(t, i)
  <2>1. \E t, i : t \in Path /\ i \in NewInode /\ Puts(t, NewDir, i)
    BY <1>4 DEF MadeDir, Puts
  <2> QED
    BY <1>1, <1>2, <2>1 DEF TreeStep
<1>5. CASE Quiet \/ Restored
  BY <1>1, <1>5 DEF Quiet, Rests, fsvars, Restored, Chmods, TreeStep
<1> QED
  BY <1>3, <1>4, <1>5, StepCases

LEMMA WalkSolid ==
  ASSUME CopyInv, WalkStep
  PROVE  AllSolid'
<1>0. TypeInv /\ OwnInv /\ FSTypeOK /\ NoInode \notin Inode /\ NewInode \subseteq Inode \ GuestInode
  BY CopyParts
<1>1. ASSUME NEW u, Solid(u), ToDo(u)
      PROVE  Solid(u)'
  <2>1. guestOps' = guestOps /\ (Removed' <=> Removed)
    BY <1>0, WalkEffect DEF Removed, Emptied
  <2>2. u \in Path /\ ToDo(u)
    BY <1>1 DEF Solid
  <2>3. \A t, i, k : Makes(t, i, k) /\ entry[u] # NoInode => entry'[u] = entry[u]
    BY <2>2 DEF Makes
  <2>4. CASE entry[u] \in NewInode /\ inode[entry[u]].kind = "dir"
    <3>1. entry'[u] = entry[u]
      BY <1>0, <2>3, <2>4, WalkEffect
    <3>2. inode'[entry[u]].kind = "dir"
      BY <1>0, <2>4, WalkEffect
    <3> QED
      BY <2>2, <2>4, <3>1, <3>2 DEF Solid
  <2>5. CASE Removed /\ entry[u] = NoInode
    <3>1. entry'[u] = NoInode
      <4>1. CASE \E i \in NewInode : MadeFile(i)
        <5>1. PICK i \in NewInode : MadeFile(i)
          BY <4>1
        <5>2. u # TargetOf(Front1)
          BY <2>2, <5>1, NotAgain
        <5> QED
          BY <1>0, <2>2, <2>5, <5>1, <5>2, MadeMakes DEF Makes
      <4>2. CASE \E t, i : MadeDir(t, i)
        <5>1. PICK t, i : MadeDir(t, i)
          BY <4>2
        <5>2. u # t
          BY <2>2, <5>1, NotAgain
        <5> QED
          BY <1>0, <2>2, <2>5, <5>1, <5>2, MadeMakes DEF Makes
      <4>3. CASE Quiet \/ Restored
        BY <2>5, <4>3 DEF Quiet, Rests, fsvars, Restored, Chmods
      <4> QED
        BY <1>0, <4>1, <4>2, <4>3, StepCases
    <3> QED
      BY <2>1, <2>2, <2>5, <3>1 DEF Solid
  <2> QED
    BY <1>1, <2>4, <2>5 DEF Solid
<1>2. ASSUME NEW t, NEW i, MadeDir(t, i)
      PROVE  Solid(t)'
  <2>1. t \in Path /\ i \in NewInode /\ Puts(t, NewDir, i)
    BY <1>2 DEF MadeDir, Puts
  <2>2. entry'[t] = i /\ inode'[i] = NewDir
    BY <1>0, <2>1, PutsFacts
  <2> QED
    BY <2>1, <2>2 DEF Solid, NewDir
<1> SUFFICES ASSUME NEW n \in DOMAIN pending', NEW w, w = pending'[n].path
             PROVE  Solid(w)'
  BY DEF AllSolid, Solid
<1>3. CASE n \in DOMAIN pending /\ pending'[n] = pending[n]
  <2>1. w = pending[n].path
    BY <1>3
  <2>2. Solid(w) /\ ToDo(w)
    BY <1>3, <2>1 DEF CopyInv, AllSolid, ToDo
  <2> QED
    BY <1>1, <2>2
<1>4. CASE \E t, i : MadeDir(t, i) /\ pending'[n] = [path |-> t, mode |-> seen.mode]
  <2>1. PICK t, i : MadeDir(t, i) /\ pending'[n] = [path |-> t, mode |-> seen.mode]
    BY <1>4
  <2>2. w = t
    BY <2>1
  <2> QED
    BY <1>2, <2>1, <2>2
<1> QED
  BY <1>0, <1>3, <1>4, PendingSteps

\* What Lstat has found is so when it has found it.
LEMMA WalkSeenNow ==
  ASSUME CopyInv, WalkStep
  PROVE  SeenNow'
<1>0. /\ TypeOK /\ TypeInv /\ OldKept /\ src \in Seq(Name)
  BY CopyParts DEF ModeInv
<1>1. ASSUME NEW p \in Seq(Name), NEW to, Look(p, to)
      PROVE  StillSeen(p)' /\ seen'.kind = KindAt(p)
  <2>1. /\ seen' = [kind |-> KindAt(p), mode |-> IF p = << >> THEN RootMode ELSE inode[entry[p]].mode]
        /\ entry' = entry /\ inode' = inode /\ src' = src
    BY <1>1 DEF Look, fsvars
  <2>2. KindAt(p)' = seen'.kind
    BY <2>1 DEF KindAt
  <2>3. ASSUME p \in InitBelow(src), entry[p] = InitEntry[p]
        PROVE  seen'.mode = InitInode[InitEntry[p]].mode
    <3>1. p # << >> /\ InitEntry[p] \in Old /\ inode[entry[p]] = InitInode[InitEntry[p]]
      BY <2>3, OldFacts
    <3> QED
      BY <2>1, <2>3, <3>1
  <2> QED
    BY <2>1, <2>2, <2>3 DEF StillSeen, InitBelow
<1>2. ASSUME pc' = "mkdirRoot"
      PROVE  LookedRoot
  BY <1>0, <1>2, Moves DEF Began, Returned, Return, Stopped, StopWalk, Entered, Listed, LookedAt, Look,
     MadeFile, MadeDir, Descend, Waits, WalkEnd, Restored, Over, ChmodFailed
<1>3. ASSUME pc' = "make"
      PROVE  LookedAt
  BY <1>0, <1>3, Moves DEF Began, Returned, Return, Stopped, StopWalk, Entered, Listed, LookedRoot, Look,
     MadeFile, MadeDir, Descend, Waits, WalkEnd, Restored, Over, ChmodFailed
<1>4. ASSUME pc' = "mkdirRoot"
      PROVE  (seen.kind = "dir" /\ StillSeen(src))'
  <2>1. Look(src, "mkdirRoot") /\ KindAt(src) = "dir" /\ src' = src
    BY <1>2, <1>4 DEF LookedRoot, Look
  <2>2. PICK p \in Seq(Name) : p = src
    BY <1>0
  <2>3. StillSeen(p)' /\ seen'.kind = "dir"
    BY <1>1, <2>1, <2>2
  <2> QED
    BY <2>1, <2>2, <2>3 DEF StillSeen
<1>5. ASSUME pc' = "make"
      PROVE  (seen.kind \in {"dir", "file"} /\ StillSeen(Front1))'
  <2>1. Look(Front1, "make") /\ KindAt(Front1) \in {"dir", "file"} /\ todo # << >> /\ todo' = todo
    BY <1>3, <1>5 DEF LookedAt
  <2>2. Front1 \in Seq(Name) /\ Front1' = Front1
    BY <1>0, <2>1, InTodo DEF Front1
  <2>3. PICK p \in Seq(Name) : p = Front1
    BY <2>2
  <2>4. StillSeen(p)' /\ seen'.kind \in {"dir", "file"}
    BY <1>1, <2>1, <2>3
  <2> QED
    BY <2>2, <2>3, <2>4 DEF StillSeen
<1> QED
  BY <1>4, <1>5 DEF SeenNow

\* LstatEntry has counted the names.
LEMMA WalkAlone ==
  ASSUME CopyInv, WalkStep
  PROVE  AloneSeen'
<1>0. TypeOK /\ TypeInv /\ FSTypeOK
  BY CopyParts
<1> SUFFICES ASSUME guestOps' = 0, pc' = "make", seen'.kind = "file", NEW p, p = Front1', p \in InitBelow(src')
             PROVE  Alone(p)
  BY DEF AloneSeen, Alone
<1>1. LookedAt
  BY <1>0, Moves DEF Began, Returned, Return, Stopped, StopWalk, Entered, Listed, LookedRoot, Look,
     MadeFile, MadeDir, Descend, Waits, WalkEnd, Restored, Over, ChmodFailed
<1>2. /\ p = Front1 /\ p \in InitBelow(src) /\ KindAt(p) = "file" /\ ~(Nlink(entry[p]) > 1) /\ guestOps = 0
  BY <1>1 DEF LookedAt, Look, Front1, fsvars
<1>3. \A q \in Path : InitEntry[q] # NoInode => entry[q] = InitEntry[q]
  BY <1>2 DEF CopyInv, OldStays, Removed
<1>4. p \in Path /\ InitEntry[p] # NoInode
  BY <1>2 DEF InitBelow
<1> DEFINE A == {q \in Path : InitEntry[q] = InitEntry[p]}
           B == {q \in Path : entry[q] = entry[p]}
<1>5. A \subseteq B /\ p \in A /\ {p} \subseteq A
  BY <1>3, <1>4
<1>6. IsFiniteSet(A) /\ IsFiniteSet(B)
  BY FinitePath, FS_Subset
<1>7. /\ Cardinality(A) <= Cardinality(B) /\ Cardinality({p}) <= Cardinality(A)
      /\ Cardinality(A) \in Nat /\ Cardinality(B) \in Nat /\ Cardinality({p}) = 1
  <2>1. Cardinality(A) <= Cardinality(B) /\ Cardinality({p}) <= Cardinality(A)
    BY <1>5, <1>6, FS_Subset
  <2>2. Cardinality(A) \in Nat /\ Cardinality(B) \in Nat
    BY <1>6, FS_CardinalityType
  <2>3. Cardinality({p}) = 1
    BY FS_Singleton
  <2> QED
    BY <2>1, <2>2, <2>3
<1>8. ~(Cardinality(B) > 1)
  BY <1>2 DEF Nlink
<1>9. Cardinality(A) = 1
  <2> HIDE DEF A, B
  <2> QED
    BY <1>7, <1>8
<1> QED
  BY <1>9 DEF Alone

LEMMA WalkCopy ==
  ASSUME CopyInv, WalkStep
  PROVE  CopyInv'
<1>0. /\ TypeOK /\ TypeInv /\ OwnInv /\ FSTypeOK /\ NotYet /\ Below /\ Used /\ ModeInv
      /\ NewInode \subseteq Inode \ GuestInode /\ NoInode \notin Inode
  BY CopyParts
<1>1. ModeInv' /\ Tree' /\ Apart(todo')
  BY <1>0, WalkModes, WalkGrows, TreeKept, WalkApart DEF CopyInv
<1>2. AllPassed'
  BY <1>0, WalkPassed DEF CopyInv
<1>3. OldSame'
  <2>1. \A i \in Old : i \in Inode \ NewInode
    BY DEF Old
  <2> QED
    BY <1>0, <2>1, WalkEffect DEF CopyInv, OldSame
<1>4. entry' = entry \/ \E t, i, k : Makes(t, i, k)
  BY <1>0, WalkEffect
<1>5. Removed' <=> Removed
  <2>1. guestOps' = guestOps
    BY <1>0, WalkEffect
  <2> QED
    BY <2>1 DEF Removed, Emptied
<1>6. OldStays'
  <2> SUFFICES ASSUME NEW p \in Path, InitEntry[p] # NoInode
               PROVE  entry'[p] = InitEntry[p] \/ (Removed' /\ entry'[p] \in NewInode \cup {NoInode})
    BY DEF OldStays
  <2>1. entry[p] = InitEntry[p] \/ (Removed /\ entry[p] \in NewInode \cup {NoInode})
    BY DEF CopyInv, OldStays
  <2>2. CASE entry'[p] = entry[p]
    BY <1>5, <2>1, <2>2
  <2>3. CASE entry'[p] # entry[p]
    BY <1>4, <1>5, <2>1, <2>3 DEF Makes
  <2> QED
    BY <2>2, <2>3
<1>7. Single'
  <2> SUFFICES ASSUME "unlink" \in GuestOps, guestOps' < MaxGuestOps,
                      NEW p \in Path, NEW q \in Path, entry'[p] \in NewInode, entry'[p] = entry'[q]
               PROVE  p = q
    BY DEF Single
  <2>1. \A r, s \in Path : entry[r] \in NewInode /\ entry[r] = entry[s] => r = s
    <3>1. guestOps' = guestOps
      BY <1>0, WalkEffect
    <3> QED
      BY <3>1 DEF CopyInv, Single
  <2>2. CASE entry' = entry
    BY <2>1, <2>2
  <2>3. CASE \E t, i, k : Makes(t, i, k)
    <3>1. PICK t, i, k : Makes(t, i, k)
      BY <2>3
    <3>2. \A r \in Path : entry[r] # i
      <4>1. \A r \in Path : entry[r] # NoInode => inode[entry[r]].kind # "free"
        BY <1>0 DEF Used
      <4> QED
        BY <1>0, <3>1, <4>1 DEF Makes
    <3> QED
      BY <2>1, <3>1, <3>2 DEF Makes
  <2> QED
    BY <1>4, <2>2, <2>3
<1>8. Left'
  BY <1>0, Moves DEF CopyInv, Left, Began, Returned, Return, LookedRoot, Look, Stopped, StopWalk, Entered,
     Listed, LookedAt, MadeFile, MadeDir, Descend, Waits, WalkEnd, Restored, Over, ChmodFailed, walkvars, NotYet
<1> QED
  BY <1>1, <1>2, <1>3, <1>6, <1>7, <1>8, WalkSolid, WalkSeenNow, WalkAlone, WalkHandled
     DEF CopyInv

LEMMA InitCopy == Init => CopyInv
<1> SUFFICES ASSUME Init
             PROVE  CopyInv
  OBVIOUS
<1>1. /\ entry = InitEntry /\ inode = InitInode /\ pc = "idle" /\ todo = << >> /\ pending = << >>
  BY DEF Init, FSInit
<1>2. ModeInv
  BY InitModes
<1>3. Tree
  <2> SUFFICES ASSUME NEW p \in Path, entry[p] # NoInode
               PROVE  /\ inode[entry[p]].kind # "free"
                      /\ \A n \in 1 .. Len(p) - 1 : KindAt(Prefix(p, n)) = "dir"
    BY DEF Tree
  <2>1. inode[entry[p]].kind # "free"
    BY <1>1, InitAssumption
  <2>2. ASSUME NEW n \in 1 .. Len(p) - 1
        PROVE  KindAt(Prefix(p, n)) = "dir"
    <3>1. /\ Prefix(p, n) \in Path /\ InitEntry[Prefix(p, n)] # NoInode
          /\ InitInode[InitEntry[Prefix(p, n)]].kind = "dir"
      BY <1>1, InitAssumption
    <3> QED
      BY <1>1, <3>1 DEF KindAt
  <2> QED
    BY <2>1, <2>2
<1>4. Apart(todo) /\ AllPassed /\ AllSolid /\ Left /\ SeenNow /\ AloneSeen /\ AllHandled
  BY <1>1 DEF AloneSeen, Apart, AllPassed, AllSolid, Left, SeenNow, AllHandled, Walking
<1>5. OldSame /\ OldStays
  BY <1>1 DEF OldSame, OldStays
<1>6. Single
  <2>1. \A p \in Path : entry[p] \notin NewInode
    BY <1>1, <1>2 DEF ModeInv, NotYet
  <2> QED
    BY <2>1 DEF Single
<1> QED
  BY <1>2, <1>3, <1>4, <1>5, <1>6 DEF CopyInv

LEMMA CopyStutter ==
  ASSUME CopyInv, UNCHANGED vars
  PROVE  CopyInv'
<1>1. ModeInv'
  BY ModesStutter DEF CopyInv
<1>2. UNCHANGED <<entry, inode, guestOps, pc, src, dst, todo, seen, pending, walkErr>>
  BY DEF vars, walkvars
<1>3. Tree' /\ Apart(todo)' /\ AllPassed'
  BY <1>2 DEF CopyInv, Tree, KindAt, Apart, AllPassed, Passed, TargetOf
<1>4. OldSame' /\ OldStays' /\ Single' /\ Left'
  BY <1>2 DEF CopyInv, OldSame, OldStays, Removed, Emptied, Single, Left
<1>5. AllSolid'
  BY <1>2 DEF CopyInv, AllSolid, Solid, Removed, Emptied
<1>6. SeenNow'
  BY <1>2 DEF CopyInv, SeenNow, StillSeen, KindAt, InitBelow, Front1, Removed, Emptied
<1>7. AloneSeen'
  BY <1>2 DEF CopyInv, AloneSeen, InitBelow, Front1, Alone
<1>8. ASSUME NEW p
      PROVE  Handled(p)' <=> Handled(p)
  <2>1. Coming(p)' <=> Coming(p)
    BY <1>2 DEF Coming
  <2>2. (Removed' <=> Removed) /\ TargetOf(p)' = TargetOf(p) /\ \A t : ToDo(t)' <=> ToDo(t)
    BY <1>2 DEF Removed, Emptied, TargetOf, ToDo
  <2>3. \A i \in NewInode : CopyOf(p, i)' <=> CopyOf(p, i)
    BY <1>2, <2>2 DEF CopyOf, Alone
  <2> QED
    BY <1>2, <2>1, <2>3 DEF Handled, Copied
<1>9. AllHandled'
  BY <1>2, <1>8 DEF CopyInv, AllHandled, Walking, InitBelow
<1> QED
  BY <1>1, <1>3, <1>4, <1>5, <1>6, <1>9, <1>7 DEF CopyInv

LEMMA NextCopy ==
  ASSUME Steady, CopyInv, [Next]_vars
  PROVE  CopyInv'
BY WalkCopy, GuestCopy, CopyStutter DEF Next, Finished

\* What a success leaves of a path that is there still.
LEMMA EndCopied ==
  ASSUME CopyInv, OK, NEW p \in InitBelow(src), entry[p] = InitEntry[p]
  PROVE  \E i \in NewInode :
           /\ [inode[i] EXCEPT !.target = << >>] = inode[entry[p]]
           /\ entry[TargetOf(p)] = i \/ Nlink(i) = 0
<1> DEFINE old == InitInode[InitEntry[p]]
<1>0. /\ FSTypeOK /\ inode[entry[p]] = old /\ old \in Node /\ InitEntry[p] \in Inode
      /\ NewInode \subseteq Inode
  BY CopyParts, OldFacts
<1>1. pending = << >> /\ todo = << >> /\ Walking
  BY CopyParts DEF OK, Ended, CopyInv, Left, Walking
<1>2. Copied(p)
  <2>1. ~Coming(p)
    BY <1>1, InNothing DEF Coming
  <2> QED
    BY <1>1, <2>1 DEF OK, CopyInv, AllHandled, Handled
<1>3. PICK i \in NewInode : CopyOf(p, i)
  BY <1>2 DEF Copied
<1>4. /\ old.kind \in {"dir", "file"} /\ inode[i].kind = old.kind /\ inode[i].content = old.content
      /\ inode[i].target = << >> /\ inode[i].mode = old.mode
      /\ entry[TargetOf(p)] = i \/ \A q \in Path : entry[q] # i
  BY <1>1, <1>3 DEF CopyOf, ToDo
<1>5. old.target = << >>
  BY <1>0, <1>4, InitAssumption
<1>6. [inode[i] EXCEPT !.target = << >>] = old
  <2>1. inode[i] \in Node
    BY <1>0 DEF FSTypeOK
  <2> HIDE DEF old
  <2> QED
    BY <1>0, <1>4, <1>5, <2>1 DEF Node
<1>7. (\A q \in Path : entry[q] # i) => Nlink(i) = 0
  <2>1. (\A q \in Path : entry[q] # i) => {q \in Path : entry[q] = i} = {}
    OBVIOUS
  <2> QED
    BY <2>1, FS_EmptySet DEF Nlink
<1> QED
  BY <1>0, <1>4, <1>6, <1>7

-----------------------------------------------------------------------------
(* A share that keeps still.                                                *)

NoErrorYet ==
  /\ pc # "waiting"
  /\ pc \notin {"restore", "done"} => walkErr = nil /\ chmodErr = nil

\* All that is new is at or below dst.
NewAt(q) == entry[q] \in NewInode /\ IsPrefix(dst, q) /\ InitEntry[q] = NoInode
OnlyNew == \A q \in Path : entry[q] = InitEntry[q] \/ NewAt(q)
Untouched == pc \in {"idle", "lstatRoot", "mkdirRoot"} => entry = InitEntry

\* Source and destination, before there is a copy and after.
RootsThere ==
  /\ pc = "mkdirRoot" => KindAt(src) = "dir"
  /\ Walking =>
       /\ dst \in Path /\ InitEntry[dst] = NoInode /\ KindAt(dst) = "dir"
       /\ KindAt(src) = "dir" /\ (src = << >> \/ src \in InitBelow(src))

\* What the listings said is so, and there is a place for what is to come.
Ready(x) ==
  LET t == TargetOf(x.path)
  IN  /\ KindAt(x.path) # "none" /\ (x.isDir <=> KindAt(x.path) = "dir")
      /\ x.op = "list" => x.isDir /\ KindAt(t) = "dir"
      /\ x.op = "visit" => t # << >> /\ KindAt(Dir(t)) = "dir"
AllReady == \A x \in ToSet(todo) : Ready(x)

\* A walk into itself does not come to an end without an error.
OnTheWay(x) == x.isDir /\ IsPrefix(x.path, TargetOf(x.path))
Endless ==
  IsPrefix(src, dst) =>
    /\ pc \in {"walk", "make"} => \E x \in ToSet(todo) : OnTheWay(x)
    /\ ~(walkErr = nil /\ pc \in {"restore", "done"})

\* What is made is the copy of what was in the source, and behind the walk.
MadeFrom(q) ==
  /\ Passed(q) /\ (pc = "walkRoot" => q = dst)
  /\ \E p \in InitBelow(src) : q = TargetOf(p)
Sourced ==
  ~IsPrefix(src, dst) =>
    /\ \A x \in ToSet(todo) : x.path \in InitBelow(src)
    /\ \A q \in Path : entry[q] = InitEntry[q] \/ MadeFrom(q)

Still == NoErrorYet /\ OnlyNew /\ Untouched /\ RootsThere /\ AllReady /\ Endless /\ Sourced
StillInv == guestOps = 0 => Still

LEMMA StillParts ==
  ASSUME CopyInv, guestOps = 0
  PROVE  /\ ~Removed /\ \A p \in Path : InitEntry[p] # NoInode => entry[p] = InitEntry[p]
         /\ TypeInv /\ TypeOK /\ FSTypeOK /\ OwnInv /\ Used /\ Tree /\ Below /\ NotYet /\ Apart(todo)
         /\ src \in Seq(Name) /\ dst \in Seq(Name) /\ NoInode \notin Inode
         /\ NewInode \subseteq Inode \ GuestInode
         /\ (pc \in {"make", "waiting"} => todo # << >> /\ Head(todo).op = "visit")
BY CopyParts DEF CopyInv, OldStays, Removed

\* What is there stays.
LEMMA WalkThere ==
  ASSUME CopyInv, WalkStep, NEW q, KindAt(q) # "none"
  PROVE  KindAt(q)' = KindAt(q)
<1>0. FSTypeOK /\ OwnInv /\ Tree
  BY CopyParts DEF CopyInv
<1>1. KindsKept
  BY <1>0, WalkEffect DEF KindsKept
<1>2. q # << >> => entry'[q] = entry[q]
  <2>1. q # << >> => q \in Path /\ entry[q] # NoInode
    BY <1>0, KindAtEntry
  <2> QED
    BY <1>0, <2>1, WalkEffect DEF Makes
<1> QED
  BY <1>0, <1>1, <1>2, KindStays

\* What is new is dst, or the copy of what has been looked at.
LEMMA WalkMakes ==
  ASSUME CopyInv, WalkStep, NEW q \in Path, entry'[q] # entry[q]
  PROVE  /\ entry[q] = NoInode /\ entry'[q] \in NewInode /\ IsPrefix(dst, q) /\ src' = src /\ dst' = dst
         /\ inode'[entry'[q]].kind = seen.kind
         /\ \/ /\ pc = "make" /\ Descend /\ q = TargetOf(Front1) /\ IsPrefix(src, Front1)
               /\ Front1 \in Seq(Name)
            \/ pc = "mkdirRoot" /\ pc' = "walkRoot" /\ q = dst /\ todo' = todo /\ walkErr' = walkErr
<1>0. /\ TypeOK /\ TypeInv /\ FSTypeOK /\ Below /\ (pc \in {"make", "waiting"} => todo # << >>)
      /\ src \in Seq(Name) /\ dst \in Seq(Name) /\ SeenNow
  BY CopyParts DEF CopyInv
<1>1. ASSUME pc = "make"
      PROVE  Front1 \in Seq(Name) /\ IsPrefix(src, Front1) /\ IsPrefix(dst, TargetOf(Front1))
  <2>1. Front1 \in Seq(Name) /\ IsPrefix(src, Front1)
    BY <1>0, <1>1, InTodo, ToDoTypes DEF Front1
  <2>2. IsPrefix(TargetOf(src), TargetOf(Front1))
    BY <1>0, <2>1, TargetOrder, TargetOfRoot
  <2> QED
    BY <1>0, <2>1, <2>2, TargetOfRoot
<1>2. ASSUME NEW i, MadeFile(i)
      PROVE  /\ q = TargetOf(Front1) /\ entry[q] = NoInode /\ entry'[q] = i /\ i \in NewInode /\ pc = "make"
             /\ Descend /\ seen.kind = "file" /\ inode'[i].kind = "file"
  <2>1. Makes(TargetOf(Front1), i, "file")
    BY <1>0, <1>2, MadeMakes
  <2> QED
    BY <1>2, <2>1 DEF Makes, MadeFile
<1>3. ASSUME NEW t, NEW i, MadeDir(t, i)
      PROVE  /\ q = t /\ entry[q] = NoInode /\ entry'[q] = i /\ i \in NewInode
             /\ inode'[i].kind = "dir" /\ seen.kind = "dir"
  <2>1. Makes(t, i, "dir")
    BY <1>0, <1>3, MadeMakes
  <2>2. seen.kind = "dir"
    BY <1>0, <1>3 DEF MadeDir, SeenNow
  <2> QED
    BY <2>1, <2>2 DEF Makes
<1>4. CASE \E i \in NewInode : MadeFile(i)
  BY <1>1, <1>2, <1>4 DEF Descend
<1>5. CASE \E t, i : MadeDir(t, i)
  <2>1. PICK t, i : MadeDir(t, i)
    BY <1>5
  <2>2. CASE pc = "mkdirRoot"
    BY <1>0, <1>3, <2>1, <2>2, PrefixRefl DEF MadeDir
  <2>3. CASE pc = "make"
    BY <1>1, <1>3, <2>1, <2>3 DEF MadeDir, Descend
  <2> QED
    BY <2>1, <2>2, <2>3 DEF MadeDir
<1>6. CASE Quiet \/ Restored
  BY <1>6 DEF Quiet, Rests, fsvars, Restored, Chmods
<1> QED
  BY <1>0, <1>4, <1>5, <1>6, StepCases

LEMMA StillQuiet ==
  ASSUME CopyInv, Still, guestOps = 0, WalkStep
  PROVE  NoErrorYet' /\ Untouched' /\ guestOps' = 0
<1>0. TypeInv /\ NotYet /\ OwnInv
  BY CopyParts
<1>1. guestOps' = 0
  BY <1>0, WalkEffect
<1>w. ~Waits
  <2> SUFFICES ASSUME Waits PROVE FALSE
    OBVIOUS
  <2>1. seen.kind = "file" /\ KindAt(Follow(Front1)) = "other" /\ SeenNow /\ ~Removed /\ pc = "make"
    BY StillParts DEF Waits, CopyInv
  <2>2. KindAt(Front1) = "file"
    BY <2>1 DEF SeenNow, StillSeen
  <2> QED
    BY <2>1, <2>2 DEF Follow
<1>2. NoErrorYet'
  BY <1>0, <1>w, Moves DEF Still, NoErrorYet, Began, Returned, Return, LookedRoot, Look, Stopped, StopWalk, Entered,
     Listed, LookedAt, MadeFile, MadeDir, Descend, WalkEnd, Restored, Over, ChmodFailed, walkvars
<1>3. Untouched'
  <2> SUFFICES ASSUME pc' \in {"idle", "lstatRoot", "mkdirRoot"}
               PROVE  entry' = InitEntry
    BY DEF Untouched
  <2>1. Began \/ LookedRoot
    BY <1>0, Moves DEF Returned, Return, Stopped, StopWalk, Entered, Listed, LookedAt, Look, MadeFile,
       MadeDir, Descend, Waits, WalkEnd, Restored, Over, ChmodFailed
  <2>2. entry' = entry /\ pc \in {"idle", "lstatRoot"}
    BY <2>1 DEF Began, LookedRoot, Look, fsvars
  <2> QED
    BY <2>2 DEF Still, Untouched
<1> QED
  BY <1>1, <1>2, <1>3

LEMMA StillNew ==
  ASSUME CopyInv, Still, guestOps = 0, WalkStep
  PROVE  OnlyNew'
<1> SUFFICES ASSUME NEW q \in Path
             PROVE  entry'[q] = InitEntry[q] \/ NewAt(q)'
  BY DEF OnlyNew
<1>1. CASE entry'[q] = entry[q]
  <2>1. CASE pc = "idle"
    BY <1>1, <2>1 DEF Still, Untouched
  <2>2. CASE pc # "idle"
    <3>1. dst' = dst
      BY <2>2, StillParts, Moves DEF Began, Returned, Return, LookedRoot, Look, Stopped, StopWalk, Entered,
         Listed, LookedAt, MadeFile, MadeDir, Descend, Waits, WalkEnd, Restored, Over, ChmodFailed, walkvars
    <3> QED
      BY <1>1, <3>1 DEF Still, OnlyNew, NewAt
  <2> QED
    BY <2>1, <2>2
<1>2. CASE entry'[q] # entry[q]
  <2>1. InitEntry[q] = NoInode
    BY <1>2, StillParts, WalkMakes
  <2> QED
    BY <1>2, <2>1, WalkMakes DEF NewAt
<1> QED
  BY <1>1, <1>2

LEMMA StillRoots ==
  ASSUME CopyInv, Still, guestOps = 0, WalkStep
  PROVE  RootsThere'
<1>0. TypeInv /\ TypeOK /\ FSTypeOK /\ src \in Seq(Name) /\ dst \in Seq(Name) /\ Used /\ NoErrorYet
  BY StillParts DEF Still
<1>1. ASSUME pc' = "mkdirRoot"
      PROVE  KindAt(src)' = "dir"
  <2>1. LookedRoot
    BY <1>0, <1>1, Moves DEF Began, Returned, Return, Stopped, StopWalk, Entered, Listed, LookedAt, Look,
       MadeFile, MadeDir, Descend, Waits, WalkEnd, Restored, Over, ChmodFailed
  <2> QED
    BY <2>1 DEF LookedRoot, Look, fsvars, KindAt
<1>2. ASSUME Walking'
      PROVE  /\ src' = src /\ dst' = dst
             /\ Walking \/ ((\E t, i : MadeDir(t, i)) /\ pc = "mkdirRoot")
  <2>1. CASE \E t, i : MadeDir(t, i)
    BY <1>0, <1>2, <2>1 DEF NoErrorYet, Walking, MadeDir, Descend
  <2>2. CASE ~\E t, i : MadeDir(t, i)
    BY <1>0, <1>2, <2>2, Moves DEF NoErrorYet, Walking, Began, Returned, Return, LookedRoot, Look, Stopped,
       StopWalk, Entered, Listed, LookedAt, MadeFile, Descend, Waits, WalkEnd, Restored, Over, ChmodFailed, walkvars
  <2> QED
    BY <2>1, <2>2
<1>3. ASSUME Walking'
      PROVE  (/\ dst \in Path /\ InitEntry[dst] = NoInode /\ KindAt(dst) = "dir"
              /\ KindAt(src) = "dir" /\ (src = << >> \/ src \in InitBelow(src)))'
  <2>0. PICK s, d : s = src /\ d = dst
    OBVIOUS
  <2>1. /\ d \in Path /\ InitEntry[d] = NoInode /\ KindAt(d)' = "dir"
        /\ KindAt(s)' = "dir" /\ (s = << >> \/ s \in InitBelow(s))
    <3>1. CASE Walking
      <4>1. /\ d \in Path /\ InitEntry[d] = NoInode /\ KindAt(d) = "dir"
            /\ KindAt(s) = "dir" /\ (s = << >> \/ s \in InitBelow(s))
        BY <2>0, <3>1 DEF Still, RootsThere
      <4>2. KindAt(d)' = KindAt(d) /\ KindAt(s)' = KindAt(s)
        BY <4>1, WalkThere
      <4> QED
        BY <4>1, <4>2
    <3>2. CASE (\E t, i : MadeDir(t, i)) /\ pc = "mkdirRoot"
      <4>1. PICK t, i : MadeDir(t, i)
        BY <3>2
      <4>2. t = dst /\ Makes(t, i, "dir")
        BY <1>0, <3>2, <4>1, MadeMakes DEF MadeDir
      <4>3. d \in Path /\ entry[d] = NoInode /\ entry'[d] = i /\ inode'[i].kind = "dir" /\ i # NoInode
        BY <2>0, <4>2, StillParts DEF Makes
      <4>4. d # << >>
        BY <4>3, PathAssumption
      <4>5. KindAt(d)' = "dir"
        BY <4>3, <4>4 DEF KindAt
      <4>6. InitEntry[d] = NoInode
        BY <4>3, StillParts
      <4>7. KindAt(s) = "dir" /\ entry = InitEntry
        BY <2>0, <3>2 DEF Still, RootsThere, Untouched
      <4>8. KindAt(s)' = "dir"
        BY <4>7, WalkThere
      <4>9. s # << >> => s \in InitBelow(s)
        <5>1. s # << >> => s \in Path /\ entry[s] # NoInode
          BY <1>0, <4>7, KindAtEntry
        <5>2. IsPrefix(s, s)
          BY <1>0, <2>0, PrefixRefl
        <5> QED
          BY <4>7, <5>1, <5>2 DEF InitBelow
      <4> QED
        BY <4>3, <4>5, <4>6, <4>8, <4>9
    <3> QED
      BY <1>2, <1>3, <3>1, <3>2
  <2> QED
    BY <1>2, <1>3, <2>0, <2>1 DEF KindAt
<1> QED
  BY <1>1, <1>3 DEF RootsThere

\* The entries that are listed are ready, those that stay in the list stay so.
LEMMA ReadyKept ==
  ASSUME CopyInv, WalkStep, src' = src, dst' = dst, NEW x, Ready(x), x.op \in {"list", "visit"}
  PROVE  Ready(x)'
<1>1. PICK t, u : t = TargetOf(x.path) /\ u = Dir(t)
  OBVIOUS
<1>2. TargetOf(x.path)' = t /\ Dir(t)' = u
  BY <1>1 DEF TargetOf, Dir, Prefix
<1>3. KindAt(x.path) # "none" /\ KindAt(x.path)' = KindAt(x.path)
  BY WalkThere DEF Ready
<1>4. x.op = "list" => x.isDir /\ KindAt(t)' = "dir"
  BY <1>1, WalkThere DEF Ready
<1>5. x.op = "visit" => t # << >> /\ KindAt(u)' = "dir"
  BY <1>1, WalkThere DEF Ready
<1>6. x.isDir <=> KindAt(x.path)' = "dir"
  BY <1>3 DEF Ready
<1> QED
  BY <1>1, <1>2, <1>3, <1>4, <1>5, <1>6 DEF Ready, KindAt

LEMMA StillReady ==
  ASSUME CopyInv, Still, guestOps = 0, WalkStep
  PROVE  AllReady'
<1>0. /\ TypeInv /\ TypeOK /\ FSTypeOK /\ src \in Seq(Name) /\ dst \in Seq(Name) /\ Used /\ Below /\ NotYet
      /\ (pc \in {"make", "waiting"} => todo # << >> /\ Head(todo).op = "visit") /\ AllReady /\ RootsThere /\ NoErrorYet
      /\ ~Removed
  BY StillParts DEF Still
<1> SUFFICES ASSUME NEW x \in ToSet(todo')
             PROVE  Ready(x)'
  BY DEF AllReady
<1>1. ASSUME src' = src, dst' = dst, x \in ToSet(todo)
      PROVE  Ready(x)'
  BY <1>0, <1>1, ToDoTypes, ReadyKept DEF AllReady, Item
<1>2. ASSUME todo # << >>
      PROVE  /\ Head(todo) \in ToSet(todo) /\ ToSet(Tail(todo)) \subseteq ToSet(todo) /\ Ready(Head(todo))
             /\ Front1 \in Seq(Name) /\ IsPrefix(src, Front1) /\ TargetOf(Front1) \in Seq(Name)
  BY <1>0, <1>2, InTodo, ToDoTypes DEF AllReady, Front1
<1>3. CASE Entered
  <2>1. Walking /\ src' = src /\ dst' = dst
    BY <1>0, <1>3 DEF Entered, Walking, NoErrorYet
  <2>2. KindAt(src) = "dir" /\ KindAt(dst) = "dir" /\ TargetOf(src) = dst
    BY <1>0, <2>1, TargetOfRoot DEF RootsThere
  <2>3. x = List(src)
    BY <1>0, <1>3, InEntered
  <2>4. x.path = src /\ x.op = "list" /\ x.isDir
    BY <1>0, <2>3, ListType
  <2>5. Ready(x)
    BY <2>2, <2>4 DEF Ready
  <2> QED
    BY <2>1, <2>4, <2>5, ReadyKept
<1>4. CASE Listed
  <2>1. todo # << >> /\ Head(todo).op = "list" /\ src' = src /\ dst' = dst
    BY <1>4 DEF Listed
  <2>2. KindAt(Front1) = "dir" /\ KindAt(TargetOf(Front1)) = "dir"
    BY <1>2, <2>1 DEF Ready, Front1
  <2>3. Follow(Front1) = Front1
    BY <2>2 DEF Follow
  <2>4. CASE VisitOf(x, Front1)
    <3>1. PICK q \in Children(Front1) :
            x \in Item /\ x.op = "visit" /\ x.path = Append(Front1, Last(q)) /\ (x.isDir <=> KindAt(q) = "dir")
      BY <2>3, <2>4 DEF VisitOf
    <3>2. q \in Path /\ q # << >> /\ entry[q] # NoInode /\ Last(q) \in Name /\ q = Append(Front1, Last(q))
      BY ChildFacts
    <3>3. KindAt(q) # "none"
      <4>1. entry[q] \in Inode
        BY <1>0, <3>2 DEF FSTypeOK
      <4>2. inode[entry[q]].kind \in Kind
        BY <1>0, <4>1 DEF FSTypeOK, Node
      <4> QED
        BY <3>2, <4>2 DEF KindAt, Kind
    <3>4. PICK u, n : u = TargetOf(Front1) /\ n = Last(q)
      OBVIOUS
    <3>5. TargetOf(q) = Append(u, n) /\ u \in Seq(Name) /\ n \in Name
      BY <1>0, <1>2, <2>1, <3>2, <3>4, TargetAppend
    <3>6. Append(u, n) # << >> /\ Dir(Append(u, n)) = u
      BY <3>5, OneNameMore
    <3>7. x.path = q
      BY <3>1, <3>2
    <3>8. Ready(x)
      BY <2>2, <3>1, <3>3, <3>4, <3>5, <3>6, <3>7 DEF Ready
    <3> QED
      BY <2>1, <3>1, <3>8, ReadyKept
  <2>5. CASE x \in ToSet(Tail(todo))
    BY <1>1, <1>2, <2>1, <2>5
  <2> QED
    BY <1>0, <1>4, <2>4, <2>5, InListed
<1>5. ASSUME pc = "make", Descend, NEW t, t = TargetOf(Front1), KindAt(Front1) = "dir" => KindAt(t)' = "dir"
      PROVE  Ready(x)'
  <2>1. todo # << >> /\ Head(todo).op = "visit" /\ src' = src /\ dst' = dst
    BY <1>0, <1>5 DEF Descend
  <2>2. CASE Head(todo).isDir /\ x = List(Front1)
    <3>1. x.path = Front1 /\ x.op = "list" /\ x.isDir
      BY <1>2, <2>1, <2>2, ListType
    <3>2. KindAt(Front1) = "dir"
      BY <1>2, <2>1, <2>2 DEF Ready, Front1
    <3>3. PICK p : p = Front1
      OBVIOUS
    <3>4. KindAt(p)' = "dir"
      BY <3>2, <3>3, WalkThere
    <3>5. TargetOf(x.path)' = t /\ KindAt(t)' = "dir"
      BY <1>5, <2>1, <3>1, <3>2 DEF TargetOf
    <3> QED
      BY <3>1, <3>3, <3>4, <3>5 DEF Ready, KindAt
  <2>3. CASE x \in ToSet(Tail(todo))
    BY <1>1, <1>2, <2>1, <2>3
  <2> QED
    BY <1>0, <1>5, <2>1, <2>2, <2>3, InDescended
<1>6. ASSUME NEW i \in NewInode, MadeFile(i)
      PROVE  Ready(x)'
  <2>1. pc = "make" /\ Descend /\ seen.kind = "file"
    BY <1>6 DEF MadeFile
  <2>2. KindAt(Front1) = "file" \/ KindAt(Front1) = "none"
    BY <1>0, <2>1 DEF CopyInv, SeenNow, StillSeen
  <2> QED
    BY <1>5, <2>1, <2>2
<1>7. ASSUME NEW t, NEW i, MadeDir(t, i), pc = "make"
      PROVE  Ready(x)'
  <2>1. Descend /\ t = TargetOf(Front1)
    BY <1>7 DEF MadeDir
  <2>2. KindAt(t)' = "dir"
    <3>1. Makes(t, i, "dir")
      BY <1>0, <1>7, MadeMakes
    <3>2. t # << >> /\ i # NoInode
      BY <3>1, PathAssumption, StillParts DEF Makes
    <3> QED
      BY <3>1, <3>2 DEF Makes, KindAt
  <2> QED
    BY <1>5, <1>7, <2>1, <2>2
<1>8. CASE Stopped \/ Began
  BY <1>0, <1>8, InNothing DEF Stopped, StopWalk, Began, NotYet
<1>9. ASSUME src' = src, dst' = dst, todo' = todo
      PROVE  Ready(x)'
  BY <1>1, <1>9
<1>10. CASE Returned \/ LookedRoot \/ LookedAt \/ Waits \/ WalkEnd \/ Restored \/ Over \/ ChmodFailed
  BY <1>9, <1>10 DEF Returned, Return, LookedRoot, LookedAt, Look, Waits, WalkEnd, Restored, Over, ChmodFailed, walkvars
<1>11. ASSUME NEW t, NEW i, MadeDir(t, i), pc = "mkdirRoot"
       PROVE  Ready(x)'
  BY <1>9, <1>11 DEF MadeDir
<1> QED
  BY <1>0, <1>3, <1>4, <1>6, <1>7, <1>8, <1>10, <1>11, Moves DEF MadeDir

\* Listing a directory that lies on the way to its own copy gives another one.
LEMMA EndlessListing ==
  ASSUME CopyInv, Still, guestOps = 0, Listed, IsPrefix(src, dst), OnTheWay(Head(todo))
  PROVE  \E x \in ToSet(todo') : OnTheWay(x)
<1> DEFINE d == Front1
           t == TargetOf(Front1)
<1>0. /\ TypeOK /\ FSTypeOK /\ Tree /\ Below /\ todo # << >> /\ Head(todo).op = "list" /\ AllReady /\ RootsThere
      /\ pc = "walk" /\ NoErrorYet /\ src \in Seq(Name) /\ dst \in Seq(Name) /\ NoInode \notin Inode
  BY StillParts DEF Still, Listed
<1>1. /\ d \in Seq(Name) /\ t \in Seq(Name) /\ IsPrefix(src, d) /\ Head(todo) \in ToSet(todo)
  BY <1>0, InTodo, ToDoTypes DEF Front1
<1>2. KindAt(d) = "dir" /\ KindAt(t) = "dir" /\ IsPrefix(d, t) /\ Follow(d) = d
  <2>1. KindAt(d) = "dir" /\ KindAt(t) = "dir"
    BY <1>0, <1>1 DEF AllReady, Ready, Front1
  <2> QED
    BY <2>1 DEF OnTheWay, Front1, Follow
<1>3. d # t
  <2>1. Walking
    BY <1>0 DEF Walking, NoErrorYet
  <2>2. src # dst
    <3>1. dst \in Path /\ InitEntry[dst] = NoInode /\ (src = << >> \/ src \in InitBelow(src))
      BY <1>0, <2>1 DEF RootsThere
    <3>2. dst # << >>
      BY <3>1, PathAssumption
    <3> QED
      BY <3>1, <3>2 DEF InitBelow
  <2>3. Len(src) # Len(dst)
    <3>1. Len(src) = Len(dst) => Len(dst) <= Len(src)
      BY <1>0
    <3> QED
      BY <1>0, <2>2, <3>1, PrefixSame
  <2>4. PICK k \in Nat : IsTarget(d, t, k)
    BY <1>0, <1>1, TargetParts
  <2>5. Len(t) = Len(dst) + k /\ Len(d) = Len(src) + k /\ Len(dst) \in Nat /\ Len(src) \in Nat
    BY <2>4 DEF IsTarget
  <2>6. Len(t) # Len(d)
    BY <2>3, <2>5
  <2> QED
    BY <2>6
<1> HIDE DEF d, t
<1>4. t # << >> /\ t \in Path /\ entry[t] # NoInode
  <2>1. Len(d) <= Len(t)
    BY <1>1, <1>2, PrefixIs
  <2>2. d = << >> \/ Len(d) > 0
    BY <1>1
  <2>3. t # << >>
    BY <1>1, <1>3, <2>1, <2>2
  <2> QED
    BY <1>0, <1>2, <2>3, KindAtEntry
<1>5. PICK n \in Name : \E y \in ToSet(todo') :
        /\ y.op = "visit" /\ y.path = Append(Front1, n) /\ y.path \in Seq(Name) /\ IsPrefix(y.path, t)
        /\ y.path = t \/ KindAt(y.path) = "dir"
        /\ y.isDir <=> KindAt(y.path) = "dir"
  BY <1>1, <1>2, <1>3, <1>4, ListingLeads DEF d
<1>6. PICK y \in ToSet(todo') :
        y.path = Append(d, n) /\ y.path \in Seq(Name) /\ IsPrefix(y.path, t) /\ y.isDir
  BY <1>2, <1>5 DEF d
<1>7. TargetOf(y.path) = Append(t, n)
  BY <1>0, <1>1, <1>6, TargetAppend DEF d, t
<1>8. IsPrefix(y.path, Append(t, n))
  <2>1. IsPrefix(t, Append(t, n)) /\ Append(t, n) \in Seq(Name)
    BY <1>1, PrefixAppend
  <2> QED
    BY <1>1, <1>6, <2>1, PrefixTrans
<1> QED
  BY <1>6, <1>7, <1>8 DEF OnTheWay

LEMMA StillEndless ==
  ASSUME CopyInv, Still, guestOps = 0, WalkStep
  PROVE  Endless'
<1>0. /\ TypeInv /\ TypeOK /\ FSTypeOK /\ src \in Seq(Name) /\ dst \in Seq(Name) /\ NotYet
      /\ (pc \in {"make", "waiting"} => todo # << >> /\ Head(todo).op = "visit") /\ AllReady /\ RootsThere /\ NoErrorYet
      /\ ~Removed /\ Endless
  BY StillParts DEF Still
<1> SUFFICES ASSUME IsPrefix(src', dst')
             PROVE  /\ pc' \in {"walk", "make"} => \E x \in ToSet(todo') : OnTheWay(x)'
                    /\ ~(walkErr' = nil /\ pc' \in {"restore", "done"})
  BY DEF Endless
<1>1. ASSUME src' = src, dst' = dst, NEW x
      PROVE  OnTheWay(x)' <=> OnTheWay(x)
  BY <1>1 DEF OnTheWay, TargetOf
<1>2. CASE Began \/ Returned \/ LookedRoot \/ Stopped
  BY <1>2 DEF Began, Returned, Return, LookedRoot, Look, Stopped, StopWalk
<1>3. CASE Entered
  <2>1. Walking /\ src' = src /\ dst' = dst /\ pc' = "walk"
    BY <1>0, <1>3 DEF Entered, Walking, NoErrorYet
  <2>2. KindAt(src) = "dir" /\ TargetOf(src) = dst
    BY <1>0, <2>1, TargetOfRoot DEF RootsThere
  <2>3. List(src) \in ToSet(todo')
    BY <1>0, <1>3, <2>2, InEntered
  <2>4. OnTheWay(List(src))
    <3>1. List(src).path = src /\ List(src).isDir
      BY <1>0, ListType
    <3> QED
      BY <2>1, <2>2, <3>1 DEF OnTheWay
  <2>5. PICK x \in ToSet(todo') : OnTheWay(x)
    BY <2>3, <2>4
  <2> QED
    BY <1>1, <2>1, <2>5
<1>4. CASE Listed
  <2>1. todo # << >> /\ src' = src /\ dst' = dst /\ pc = "walk" /\ pc' = "walk"
    BY <1>4 DEF Listed
  <2>2. PICK x \in ToSet(todo) : OnTheWay(x)
    BY <1>0, <2>1 DEF Endless
  <2>3. \E y \in ToSet(todo') : OnTheWay(y)
    <3>1. CASE x = Head(todo)
      BY <1>4, <2>1, <2>2, <3>1, EndlessListing
    <3>2. CASE x \in ToSet(Tail(todo))
      BY <1>0, <1>4, <2>2, <3>2, InListed
    <3> QED
      BY <1>0, <2>1, <3>1, <3>2, InTodo
  <2>4. PICK y \in ToSet(todo') : OnTheWay(y)
    BY <2>3
  <2> QED
    BY <1>1, <2>1, <2>4
<1>5. ASSUME pc = "make", Descend
      PROVE  \E x \in ToSet(todo') : OnTheWay(x)'
  <2>1. todo # << >> /\ src' = src /\ dst' = dst
    BY <1>0, <1>5 DEF Descend
  <2>2. PICK x \in ToSet(todo) : OnTheWay(x)
    BY <1>0, <1>5, <2>1 DEF Endless
  <2>3. CASE x = Head(todo)
    <3>1. List(Front1) \in ToSet(todo')
      BY <1>0, <1>5, <2>1, <2>2, <2>3, InDescended DEF OnTheWay
    <3>2. OnTheWay(List(Front1))
      <4>1. List(Front1).path = Front1 /\ List(Front1).isDir
        BY <1>0, <2>1, InTodo, ListType
      <4> QED
        BY <2>2, <2>3, <4>1 DEF OnTheWay, Front1
    <3>3. PICK y \in ToSet(todo') : OnTheWay(y)
      BY <3>1, <3>2
    <3> QED
      BY <1>1, <2>1, <3>3
  <2>4. CASE x \in ToSet(Tail(todo))
    <3>1. x \in ToSet(todo')
      BY <1>0, <1>5, <2>1, <2>4, InDescended
    <3> QED
      BY <1>1, <2>1, <2>2, <3>1
  <2> QED
    BY <1>0, <2>1, <2>3, <2>4, InTodo
<1>6. CASE \E i \in NewInode : MadeFile(i)
  <2>1. pc = "make" /\ Descend /\ pc' = "walk"
    BY <1>6 DEF MadeFile, Descend
  <2> QED
    BY <1>5, <2>1
<1>7. CASE \E t, i : MadeDir(t, i)
  <2>1. (pc = "make" /\ Descend /\ pc' = "walk") \/ pc' = "walkRoot"
    BY <1>7 DEF MadeDir, Descend
  <2> QED
    BY <1>5, <2>1
<1>8. CASE LookedAt
  <2>1. todo' = todo /\ src' = src /\ dst' = dst /\ pc = "walk" /\ pc' = "make"
    BY <1>8 DEF LookedAt, Look
  <2>2. PICK x \in ToSet(todo) : OnTheWay(x)
    BY <1>0, <2>1 DEF Endless
  <2> QED
    BY <1>1, <2>1, <2>2
<1>9. CASE WalkEnd
  <2>1. todo = << >> /\ src' = src /\ dst' = dst /\ pc = "walk"
    BY <1>9 DEF WalkEnd, walkvars
  <2> QED
    BY <1>0, <2>1, InNothing DEF Endless
<1>w. CASE Waits
  BY <1>w DEF Waits
<1>10. CASE Restored \/ Over \/ ChmodFailed
  <2>1. src' = src /\ dst' = dst /\ pc = "restore" /\ walkErr' = walkErr /\ pc' \in {"restore", "done"}
    BY <1>10 DEF Restored, Over, ChmodFailed, walkvars
  <2> QED
    BY <1>0, <2>1 DEF Endless
<1> QED
  BY <1>0, <1>2, <1>3, <1>4, <1>6, <1>7, <1>8, <1>9, <1>10, <1>w, Moves

LEMMA RootIsPrefix ==
  ASSUME NEW q \in Seq(Name)
  PROVE  IsPrefix(<< >>, q)
<1>1. << >> \in Seq(Name) /\ Len(<< >>) = 0 /\ Len(q) \in Nat
  OBVIOUS
<1>2. PICK e : e = << >>
  OBVIOUS
<1>3. e \in Seq(Name) /\ Len(e) = 0
  BY <1>1, <1>2
<1>4. Len(e) <= Len(q) /\ \A n \in 1 .. Len(e) : e[n] = q[n]
  BY <1>1, <1>3
<1>5. IsPrefix(e, q)
  BY <1>3, <1>4, PrefixIs
<1> QED
  BY <1>2, <1>5

\* What was there had its directories.
LEMMA InitAbove ==
  ASSUME NEW d \in Path, NEW q \in Path, InitEntry[q] # NoInode, IsPrefix(d, q)
  PROVE  InitEntry[d] # NoInode
<1>1. d \in Seq(Name) /\ q \in Seq(Name) /\ d # << >>
  BY PathAssumption
<1>2. d = Prefix(q, Len(d)) /\ Len(d) \in 0 .. Len(q) /\ Len(d) # 0 /\ Len(q) \in Nat
  BY <1>1, PrefixIsPrefix
<1>3. CASE Len(d) = Len(q)
  BY <1>1, <1>2, <1>3, PrefixOfDir
<1>4. CASE Len(d) # Len(q)
  <2>1. Len(d) \in 1 .. Len(q) - 1
    BY <1>2, <1>4
  <2> QED
    BY <1>2, <2>1, InitAssumption
<1> QED
  BY <1>3, <1>4

\* Outside the destination the source is what it was.
LEMMA Separate ==
  ASSUME CopyInv, Still, guestOps = 0, Walking, ~IsPrefix(src, dst), NEW q \in Path, IsPrefix(src, q)
  PROVE  entry[q] = InitEntry[q] /\ src \in InitBelow(src)
<1>0. /\ src \in Seq(Name) /\ dst \in Seq(Name) /\ q \in Seq(Name) /\ dst \in Path /\ InitEntry[dst] = NoInode
      /\ src = << >> \/ src \in InitBelow(src)
  BY StillParts, PathAssumption DEF Still, RootsThere
<1>1. src # << >>
  BY <1>0, PrefixIs
<1>2. src \in Path /\ InitEntry[src] # NoInode
  BY <1>0, <1>1 DEF InitBelow
<1>3. ~IsPrefix(dst, src)
  BY <1>0, <1>2, InitAbove
<1>4. ~IsPrefix(dst, q)
  <2>1. Len(src) <= Len(dst) \/ Len(dst) <= Len(src)
    BY <1>0
  <2> QED
    BY <1>0, <1>3, <2>1, PrefixesNest
<1> QED
  BY <1>0, <1>1, <1>4 DEF Still, OnlyNew, NewAt

LEMMA StillSourced ==
  ASSUME CopyInv, Still, guestOps = 0, WalkStep
  PROVE  Sourced'
<1>0. /\ TypeInv /\ TypeOK /\ FSTypeOK /\ src \in Seq(Name) /\ dst \in Seq(Name) /\ NotYet /\ Below /\ Apart(todo)
      /\ (pc \in {"make", "waiting"} => todo # << >> /\ Head(todo).op = "visit") /\ AllReady /\ RootsThere /\ NoErrorYet
      /\ Sourced /\ AllPassed
  BY StillParts DEF Still, CopyInv
<1> SUFFICES ASSUME ~IsPrefix(src', dst')
             PROVE  /\ \A x \in ToSet(todo') : x.path \in InitBelow(src)'
                    /\ \A q \in Path : entry'[q] = InitEntry[q] \/ MadeFrom(q)'
  BY DEF Sourced
<1>1. CASE Began
  <2>1. todo' = << >> /\ entry' = entry /\ pc = "idle"
    BY <1>0, <1>1 DEF Began, NotYet, fsvars
  <2>2. entry' = InitEntry
    BY <2>1 DEF Still, Untouched
  <2> QED
    BY <2>1, <2>2, InNothing
<1>2. ASSUME ~Began
      PROVE  src' = src /\ dst' = dst /\ pc # "idle"
  BY <1>0, <1>2, Moves DEF Returned, Return, LookedRoot, Look, Stopped, StopWalk, Entered, Listed, LookedAt,
     MadeFile, MadeDir, Descend, Waits, WalkEnd, Restored, Over, ChmodFailed, walkvars
<1>3. ASSUME ~Began, NEW q \in Path, MadeFrom(q), Passed(q)', pc' # "walkRoot"
      PROVE  MadeFrom(q)'
  BY <1>2, <1>3 DEF MadeFrom, InitBelow, TargetOf
<1>4. ASSUME ~Began, entry' = entry, pc' # "walkRoot",
             \A x \in ToSet(todo') : x.path \in InitBelow(src),
             \A q \in Path : MadeFrom(q) => Passed(q)'
      PROVE  /\ \A x \in ToSet(todo') : x.path \in InitBelow(src)'
             /\ \A q \in Path : entry'[q] = InitEntry[q] \/ MadeFrom(q)'
  <2>1. \A q \in Path : entry[q] = InitEntry[q] \/ MadeFrom(q)
    BY <1>0, <1>2, <1>4 DEF Sourced
  <2> QED
    BY <1>2, <1>3, <1>4, <2>1 DEF InitBelow
<1>5. CASE Returned \/ LookedRoot \/ LookedAt \/ Waits \/ WalkEnd \/ Restored \/ Over \/ ChmodFailed
  <2>1. ~Began /\ entry' = entry /\ pc' # "walkRoot" /\ todo' = todo
    BY <1>5 DEF Began, Returned, Return, LookedRoot, LookedAt, Look, Waits, WalkEnd, Restored, Chmods, Over, ChmodFailed,
       walkvars, fsvars
  <2>2. \A x \in ToSet(todo') : x.path \in InitBelow(src)
    BY <1>0, <1>2, <2>1 DEF Sourced
  <2>3. \A q \in Path : MadeFrom(q) => Passed(q)'
    BY <1>2, <2>1 DEF MadeFrom, Passed, TargetOf
  <2> QED
    BY <1>4, <2>1, <2>2, <2>3
<1>6. CASE Stopped
  <2>1. ~Began /\ entry' = entry /\ pc' # "walkRoot" /\ todo' = << >>
    BY <1>6 DEF Began, Stopped, StopWalk, fsvars
  <2> QED
    BY <1>4, <2>1, InNothing DEF Passed
<1>7. CASE Entered
  <2>1. ~Began /\ entry' = entry /\ pc' # "walkRoot" /\ pc = "walkRoot" /\ Walking
    BY <1>0, <1>7 DEF Began, Entered, fsvars, Walking, NoErrorYet
  <2>2. ToSet(todo') \subseteq {List(src)}
    BY <1>0, <1>7, InEntered
  <2>3. List(src).path = src /\ List(src).op = "list"
    BY <1>0, ListType
  <2>4. src \in InitBelow(src)
    <3>1. IsPrefix(<< >>, dst)
      BY <1>0, RootIsPrefix
    <3> QED
      BY <1>0, <1>2, <2>1, <3>1 DEF RootsThere
  <2>5. \A q \in Path : MadeFrom(q) => Passed(q)'
    <3>1. TargetOf(src) = dst
      BY <1>0, TargetOfRoot
    <3>2. \A y \in ToSet(todo') : y.op = "list" /\ TargetOf(y.path)' = dst
      BY <1>2, <2>1, <2>2, <2>3, <3>1 DEF TargetOf
    <3> QED
      BY <2>1, <3>2 DEF MadeFrom, Passed
  <2>6. \A x \in ToSet(todo') : x.path \in InitBelow(src)
    BY <2>2, <2>3, <2>4
  <2> QED
    BY <1>4, <2>1, <2>5, <2>6
<1>8. CASE Listed
  <2>1. /\ ~Began /\ entry' = entry /\ pc' # "walkRoot" /\ Walking /\ todo # << >>
        /\ Head(todo).op = "list" /\ src' = src /\ dst' = dst
    BY <1>0, <1>8 DEF Began, Listed, fsvars, Walking, NoErrorYet
  <2>2. /\ Front1 \in Seq(Name) /\ IsPrefix(src, Front1) /\ Head(todo) \in ToSet(todo)
    BY <1>0, <2>1, InTodo, ToDoTypes DEF Front1
  <2>3. Follow(Front1) = Front1
    BY <1>0, <2>1, <2>2 DEF AllReady, Ready, Follow, Front1
  <2>4. ASSUME NEW x, VisitOf(x, Front1)
        PROVE  x.path \in InitBelow(src)
    <3>1. PICK q \in Children(Front1) : x.path = Append(Front1, Last(q))
      BY <2>3, <2>4 DEF VisitOf
    <3>2. x.path = q /\ q \in Path /\ entry[q] # NoInode /\ Last(q) \in Name /\ q = Append(Front1, Last(q))
      BY <3>1, ChildFacts
    <3>3. IsPrefix(src, q)
      <4>1. PICK n \in Name : q = Append(Front1, n)
        BY <3>2
      <4> QED
        BY <1>0, <2>2, <4>1, TargetAppend
    <3> QED
      BY <2>1, <3>2, <3>3, Separate DEF InitBelow
  <2>5. \A x \in ToSet(todo') : x.path \in InitBelow(src)
    <3>1. \A x \in ToSet(Tail(todo)) : x \in ToSet(todo)
      BY <1>0, <2>1, InTodo
    <3> QED
      BY <1>0, <1>8, <2>1, <2>4, <3>1, InListed DEF Sourced
  <2>6. \A q \in Path : MadeFrom(q) => Passed(q)'
    BY <1>0, <1>8, PassedListed, PathAssumption DEF MadeFrom
  <2> QED
    BY <1>4, <2>1, <2>5, <2>6
<1>9. ASSUME pc = "make", Descend
      PROVE  /\ \A x \in ToSet(todo') : x.path \in InitBelow(src)'
             /\ \A q \in Path : entry'[q] = InitEntry[q] \/ MadeFrom(q)'
  <2>1. /\ src' = src /\ dst' = dst /\ todo # << >> /\ pc' = "walk"
    BY <1>0, <1>9 DEF Descend
  <2>2. /\ Front1 \in Seq(Name) /\ Front1 \in InitBelow(src)
    BY <1>0, <2>1, InTodo DEF Front1, Sourced
  <2>3. \A x \in ToSet(todo') : x.path \in InitBelow(src)
    <3>1. \A x \in ToSet(Tail(todo)) : x.path \in InitBelow(src)
      BY <1>0, <2>1, InTodo DEF Sourced
    <3>2. List(Front1).path = Front1
      BY <2>2, ListType
    <3> QED
      BY <1>0, <1>9, <2>1, <2>2, <3>1, <3>2, InDescended
  <2>4. ASSUME NEW q \in Path, entry'[q] # InitEntry[q]
        PROVE  MadeFrom(q)'
    <3>1. MadeFrom(q) \/ q = TargetOf(Front1)
      <4>1. CASE entry'[q] = entry[q]
        BY <1>0, <2>1, <2>4, <4>1 DEF Sourced
      <4>2. CASE entry'[q] # entry[q]
        BY <1>9, <4>2, WalkMakes
      <4> QED
        BY <4>1, <4>2
    <3>2. Passed(q)'
      BY <1>0, <1>9, <3>1, PassedDescended, PathAssumption DEF MadeFrom
    <3>3. \E p \in InitBelow(src) : q = TargetOf(p)
      BY <2>2, <3>1 DEF MadeFrom
    <3> QED
      BY <2>1, <3>2, <3>3 DEF MadeFrom, InitBelow, TargetOf
  <2> QED
    BY <2>1, <2>3, <2>4 DEF InitBelow
<1>10. CASE \E i \in NewInode : MadeFile(i)
  BY <1>9, <1>10 DEF MadeFile
<1>11. CASE \E t, i : MadeDir(t, i)
  <2>1. PICK t, i : MadeDir(t, i)
    BY <1>11
  <2>2. CASE pc = "make"
    BY <1>9, <2>1, <2>2 DEF MadeDir
  <2>3. CASE pc = "mkdirRoot"
    <3>1. todo' = << >> /\ pc' = "walkRoot" /\ src' = src /\ dst' = dst /\ walkErr' = nil /\ entry = InitEntry
      BY <1>0, <2>1, <2>3 DEF MadeDir, NotYet, NoErrorYet, Still, Untouched
    <3>2. src \in InitBelow(src)
      <4>1. src = << >> \/ src \in InitBelow(src)
        <5>1. Walking' /\ RootsThere'
          BY <3>1, StillRoots DEF Walking
        <5> QED
          BY <3>1, <5>1 DEF RootsThere, InitBelow
      <4>2. IsPrefix(<< >>, dst)
        BY <1>0, RootIsPrefix
      <4> QED
        BY <3>1, <4>1, <4>2
    <3>3. ASSUME NEW q \in Path, entry'[q] # InitEntry[q]
          PROVE  MadeFrom(q)'
      <4>1. q = dst /\ dst = TargetOf(src)
        BY <1>0, <2>3, <3>1, <3>3, WalkMakes, TargetOfRoot
      <4> QED
        BY <3>1, <3>2, <4>1, InNothing DEF MadeFrom, Passed, InitBelow, TargetOf
    <3> QED
      BY <3>1, <3>3, InNothing
  <2> QED
    BY <2>1, <2>2, <2>3 DEF MadeDir
<1> QED
  BY <1>0, <1>1, <1>5, <1>6, <1>7, <1>8, <1>10, <1>11, Moves

LEMMA WalkStill ==
  ASSUME CopyInv, Still, guestOps = 0, WalkStep
  PROVE  Still'
BY StillQuiet, StillNew, StillRoots, StillReady, StillEndless, StillSourced DEF Still

LEMMA StillStutter ==
  ASSUME Still, UNCHANGED vars
  PROVE  Still'
<1>1. UNCHANGED <<entry, inode, pc, src, dst, todo, walkErr, chmodErr>>
  BY DEF vars, walkvars
<1>2. NoErrorYet' /\ OnlyNew' /\ Untouched'
  BY <1>1 DEF Still, NoErrorYet, OnlyNew, NewAt, Untouched
<1>3. RootsThere'
  BY <1>1 DEF Still, RootsThere, Walking, KindAt, InitBelow
<1>4. AllReady'
  BY <1>1 DEF Still, AllReady, Ready, KindAt, TargetOf
<1>5. Endless'
  BY <1>1 DEF Still, Endless, OnTheWay, TargetOf
<1>6. \A q : MadeFrom(q)' <=> MadeFrom(q)
  BY <1>1 DEF MadeFrom, Passed, TargetOf, InitBelow
<1>7. Sourced'
  BY <1>1, <1>6 DEF Still, Sourced, InitBelow
<1> QED
  BY <1>2, <1>3, <1>4, <1>5, <1>7 DEF Still

\* What the walk does is no step of a guest.
LEMMA WalkNoGuest ==
  ASSUME TypeInv, WalkStep
  PROVE  guestOps' = guestOps
BY Moves DEF Began, Returned, Return, LookedRoot, Look, Stopped, StopWalk, Entered, Listed, LookedAt,
   MadeFile, MadeDir, Puts, Waits, WalkEnd, Restored, Chmods, Over, ChmodFailed, fsvars

LEMMA NextStill ==
  ASSUME Steady, CopyInv, StillInv, [Next]_vars
  PROVE  StillInv'
<1>1. TypeInv /\ FSTypeOK
  BY CopyParts
<1>2. CASE WalkStep
  BY <1>1, <1>2, WalkNoGuest, WalkStill DEF StillInv
<1>3. CASE Guests
  BY <1>1, <1>3, GuestSteady DEF Guests, StillInv
<1>4. CASE UNCHANGED vars
  BY <1>4, StillStutter DEF StillInv, vars
<1> QED
  BY <1>2, <1>3, <1>4 DEF Next, Finished

LEMMA InitStill == Init => StillInv
<1> SUFFICES ASSUME Init
             PROVE  Still
  BY DEF StillInv
<1>1. entry = InitEntry /\ pc = "idle" /\ todo = << >> /\ walkErr = nil /\ chmodErr = nil
  BY DEF Init, FSInit
<1>2. \A x \in ToSet(todo) : FALSE
  BY <1>1, InNothing
<1> QED
  BY <1>1, <1>2 DEF Still, NoErrorYet, OnlyNew, Untouched, RootsThere, Walking, AllReady, Endless, Sourced

\* After a success the source does not hold the destination, and nothing is there but the copy.
LEMMA EndStill ==
  ASSUME CopyInv, Still, guestOps = 0, OK
  PROVE  /\ ~IsPrefix(src, dst) /\ Walking
         /\ \A q \in Path : IsPrefix(dst, q) /\ entry[q] # NoInode =>
              \E p \in InitBelow(src) : q = TargetOf(p)
<1>1. ~IsPrefix(src, dst) /\ Walking
  BY DEF Still, Endless, OK, Walking
<1>2. dst \in Path /\ InitEntry[dst] = NoInode
  BY <1>1 DEF Still, RootsThere
<1>3. ASSUME NEW q \in Path, IsPrefix(dst, q), entry[q] # NoInode
      PROVE  \E p \in InitBelow(src) : q = TargetOf(p)
  <2>1. entry[q] # InitEntry[q]
    BY <1>2, <1>3, InitAbove
  <2> QED
    BY <1>1, <2>1 DEF Still, Sourced, MadeFrom
<1> QED
  BY <1>1, <1>3

\* On a share where guests neither write nor rename, and put nothing in the place of
\* what they remove, a success is a copy of the source (reflinkTree, ReflinkTree: every
\* error of the walk comes out, whatever it was that stopped it).
THEOREM OkIsCopied == Steady => (Spec => []OkIsTreeCopy)
<1> SUFFICES ASSUME Steady PROVE Spec => []OkIsTreeCopy
  OBVIOUS
<1>1. Init => CopyInv /\ StillInv
  BY InitCopy, InitStill
<1>2. CopyInv /\ StillInv /\ [Next]_vars => (CopyInv /\ StillInv)'
  BY NextCopy, NextStill
<1>3. CopyInv /\ StillInv => OkIsTreeCopy
  BY EndCopied, EndStill DEF OkIsTreeCopy, StillInv
<1> QED
  BY <1>1, <1>2, <1>3, PTL DEF Spec
-----------------------------------------------------------------------------
(* Why a request fails on a share that keeps still.                         *)

\* What is there is found, and what can be made is made.
LEMMA Found ==
  ASSUME FSTypeOK, Tree, NEW p \in Seq(Name), KindAt(p) # "none"
  PROVE  LstatErrno(p) = "ok" /\ (KindAt(p) # "symlink" => OpenErrno(p) = "ok" /\ Follow(p) = p)
<1>1. ASSUME NEW n \in 1 .. Len(p) - 1
      PROVE  KindAt(Prefix(p, n)) = "dir"
  <2>1. p # << >>
    OBVIOUS
  <2>2. p \in Path /\ entry[p] # NoInode
    BY <2>1, KindAtEntry
  <2> QED
    BY <2>2 DEF Tree
<1>2. LstatErrno(p) = "ok"
  BY <1>1, ErrnoFacts
<1> QED
  BY <1>2 DEF OpenErrno, Follow

LEMMA Creatable ==
  ASSUME FSTypeOK, Tree, NEW p \in Path, KindAt(Dir(p)) = "dir", entry[p] = NoInode
  PROVE  CreateErrno(p) = "ok" /\ LstatErrno(p) # "ok"
<1>1. p \in Seq(Name) /\ p # << >>
  BY PathAssumption
<1>2. \A n \in 1 .. Len(p) - 1 : KindAt(Prefix(p, n)) = "dir"
  BY <1>1, WalkBelowDir
<1>3. KindAt(p) = "none"
  BY <1>1 DEF KindAt
<1> QED
  BY <1>2, <1>3, ErrnoFacts

LEMMA OldKind ==
  ASSUME CopyInv, NEW p \in Path, InitEntry[p] # NoInode, entry[p] = InitEntry[p]
  PROVE  KindAt(p) = InitInode[InitEntry[p]].kind
<1>1. inode[InitEntry[p]] = InitInode[InitEntry[p]]
  BY InitIsOld DEF CopyInv, OldSame
<1>2. p # << >>
  BY PathAssumption
<1> QED
  BY <1>1, <1>2 DEF KindAt

\* The directory d is in was one from the start.
DirStood(d) ==
  \/ Dir(d) = << >>
  \/ /\ Dir(d) \in Path /\ InitEntry[Dir(d)] # NoInode
     /\ InitInode[InitEntry[Dir(d)]].kind = "dir"

LEMMA ParentStands ==
  ASSUME CopyInv, NEW d \in Path, Dir(d) \in Path => entry[Dir(d)] = InitEntry[Dir(d)]
  PROVE  KindAt(Dir(d)) = "dir" <=> DirStood(d)
<1>1. PICK e : e = Dir(d)
  OBVIOUS
<1>2. e \in Path \cup {<< >>}
  BY <1>1, PathAssumption
<1>3. CASE e = << >>
  BY <1>1, <1>3 DEF KindAt, DirStood
<1>4. CASE e \in Path /\ InitEntry[e] # NoInode
  BY <1>1, <1>4, OldKind, PathAssumption DEF DirStood
<1>5. CASE e \in Path /\ InitEntry[e] = NoInode
  <2>1. e # << >> /\ KindAt(e) = "none"
    BY <1>1, <1>5, PathAssumption DEF KindAt
  <2> QED
    BY <1>1, <1>5, <2>1 DEF DirStood
<1> QED
  BY <1>2, <1>3, <1>4, <1>5

\* What TreeVerdictIsRight asks of the request and of the share the daemon found.
Feasible ==
  /\ src \in Path /\ dst \in Path /\ InitEntry[src] # NoInode
  /\ \A p \in InitBelow(src) :
       \/ InitInode[InitEntry[p]].kind = "dir"
       \/ InitInode[InitEntry[p]].kind = "file" /\ p # src /\ Alone(p)
  /\ \A p \in InitBelow(src) : TargetOf(p) \in Path
  /\ InitEntry[dst] = NoInode /\ DirStood(dst)
  /\ ~IsPrefix(src, dst)

LEMMA DstParent ==
  ASSUME CopyInv, Still, guestOps = 0, dst \in Path
  PROVE  KindAt(Dir(dst)) = "dir" <=> DirStood(dst)
<1>1. dst \in Seq(Name) /\ dst # << >>
  BY PathAssumption
<1>2. Len(Dir(dst)) = Len(dst) - 1 /\ Len(dst) \in Nat /\ Dir(dst) \in Seq(Name)
  BY <1>1, PrefixOfDir
<1>3. ~IsPrefix(dst, Dir(dst))
  BY <1>1, <1>2, PrefixIs
<1>4. Dir(dst) \in Path => entry[Dir(dst)] = InitEntry[Dir(dst)]
  BY <1>3 DEF Still, OnlyNew, NewAt
<1> QED
  BY <1>4, ParentStands

LEMMA FeasibleSource ==
  ASSUME CopyInv, guestOps = 0, Feasible
  PROVE  /\ src \in InitBelow(src) /\ KindAt(src) = "dir"
         /\ \A p \in InitBelow(src) :
              /\ p \in Path /\ p \in Seq(Name) /\ entry[p] = InitEntry[p] /\ InitEntry[p] # NoInode
              /\ IsPrefix(src, p) /\ KindAt(p) \in {"dir", "file"} /\ TargetOf(p) \in Path
              /\ KindAt(p) = "file" => Alone(p)
<1>1. src \in Seq(Name)
  BY PathAssumption DEF Feasible
<1>2. src \in InitBelow(src)
  BY <1>1, PrefixRefl DEF Feasible, InitBelow
<1>3. ASSUME NEW p \in InitBelow(src)
      PROVE  /\ p \in Path /\ p \in Seq(Name) /\ entry[p] = InitEntry[p] /\ InitEntry[p] # NoInode
             /\ IsPrefix(src, p) /\ KindAt(p) = InitInode[InitEntry[p]].kind
  <2>1. p \in Path /\ IsPrefix(src, p) /\ InitEntry[p] # NoInode
    BY DEF InitBelow
  <2>2. entry[p] = InitEntry[p]
    BY <2>1, StillParts
  <2> QED
    BY <2>1, <2>2, OldKind, PathAssumption
<1>4. InitInode[InitEntry[src]].kind = "dir"
  BY <1>2 DEF Feasible
<1> QED
  BY <1>2, <1>3, <1>4 DEF Feasible

\* A file of the source with one name has no other now.
LEMMA NoLinks ==
  ASSUME CopyInv, Still, guestOps = 0, NEW p \in Path, InitEntry[p] # NoInode, Alone(p)
  PROVE  ~(Nlink(entry[p]) > 1)
<1>1. entry[p] = InitEntry[p] /\ entry[p] \in Old
  BY StillParts, InitIsOld
<1>2. \A q \in Path : entry[q] = entry[p] <=> InitEntry[q] = InitEntry[p]
  BY <1>1, StillParts DEF Still, OnlyNew, NewAt, Old
<1>3. {q \in Path : entry[q] = entry[p]} = {q \in Path : InitEntry[q] = InitEntry[p]}
  BY <1>2
<1>4. Nlink(entry[p]) = 1
  BY <1>3 DEF Nlink, Alone
<1> QED
  BY <1>4

\* The place of what was looked at is free.
LEMMA TargetFree ==
  ASSUME CopyInv, Still, guestOps = 0, Feasible, pc = "make"
  PROVE  /\ Front1 \in InitBelow(src) /\ CreateErrno(TargetOf(Front1)) = "ok"
         /\ KindAt(Front1) = seen.kind /\ OpenErrno(Front1) = "ok" /\ Follow(Front1) = Front1
<1>0. /\ TypeOK /\ FSTypeOK /\ Tree /\ Below /\ todo # << >> /\ Head(todo).op = "visit"
      /\ src \in Seq(Name) /\ dst \in Seq(Name) /\ ~Removed /\ SeenNow
      /\ ~IsPrefix(src, dst) /\ InitEntry[dst] = NoInode /\ dst \in Path
  BY StillParts DEF CopyInv, Feasible
<1>1. Head(todo) \in ToSet(todo) /\ Front1 \in Seq(Name)
  BY <1>0, InTodo
<1>2. Front1 \in InitBelow(src)
  BY <1>0, <1>1 DEF Still, Sourced, Front1
<1>3. IsPrefix(src, Front1) /\ TargetOf(Front1) \in Path /\ KindAt(Front1) \in {"dir", "file"}
  BY <1>2, FeasibleSource
<1>4. PICK t : t = TargetOf(Front1)
  OBVIOUS
<1>5. IsPrefix(dst, t)
  <2>1. IsPrefix(TargetOf(src), t)
    BY <1>0, <1>1, <1>3, <1>4, TargetOrder, TargetOfRoot
  <2> QED
    BY <1>0, <2>1, TargetOfRoot
<1>6. t # << >> /\ KindAt(Dir(t)) = "dir"
  BY <1>0, <1>1, <1>4 DEF Still, AllReady, Ready, Front1
<1>7. entry[t] = NoInode
  <2>1. InitEntry[t] = NoInode
    BY <1>0, <1>3, <1>4, <1>5, InitAbove
  <2>2. ~Passed(t)
    <3>1. t \in Seq(Name)
      BY <1>3, <1>4, PathAssumption
    <3> QED
      BY <1>0, <1>1, <1>4, <3>1, PrefixRefl DEF Passed, Front1
  <2> QED
    BY <1>0, <1>3, <1>4, <2>1, <2>2 DEF Still, Sourced, MadeFrom
<1>8. CreateErrno(t) = "ok"
  BY <1>0, <1>3, <1>4, <1>6, <1>7, Creatable
<1>9. KindAt(Front1) = seen.kind
  BY <1>0 DEF SeenNow, StillSeen
<1>10. OpenErrno(Front1) = "ok" /\ Follow(Front1) = Front1
  BY <1>0, <1>1, <1>3, Found
<1> QED
  BY <1>2, <1>4, <1>8, <1>9, <1>10

NoError == faults = 0 /\ pc # "idle" /\ Feasible => walkErr = nil /\ chmodErr = nil

LEMMA PendingFound ==
  ASSUME CopyInv, guestOps = 0, pending # << >>
  PROVE  OpenErrno(Last(pending).path) = "ok"
<1>1. /\ FSTypeOK /\ Tree /\ ~Removed /\ AllSolid /\ pending \in Seq(Chmod) /\ NoInode \notin Inode
      /\ NewInode \subseteq Inode
  BY CopyParts, StillParts DEF CopyInv
<1>2. Len(pending) \in DOMAIN pending /\ Last(pending) = pending[Len(pending)]
  BY <1>1 DEF Last
<1>3. PICK t : t = Last(pending).path
  OBVIOUS
<1>4. t \in Path /\ entry[t] \in NewInode /\ inode[entry[t]].kind = "dir"
  BY <1>1, <1>2, <1>3 DEF AllSolid, Solid
<1>5. t \in Seq(Name) /\ t # << >>
  BY <1>4, PathAssumption
<1>6. KindAt(t) = "dir"
  BY <1>1, <1>4, <1>5 DEF KindAt
<1> QED
  BY <1>1, <1>3, <1>5, <1>6, Found

\* A request that can be done is not refused.
LEMMA StartedWell ==
  ASSUME CopyInv, Still, guestOps = 0, pc = "idle", NEW s \in Path, NEW d \in Path,
         InitEntry[s] # NoInode, InitInode[InitEntry[s]].kind = "dir", InitEntry[d] = NoInode, DirStood(d)
  PROVE  ResolveError(s, d) = nil
<1>1. entry = InitEntry /\ FSTypeOK /\ Tree
  BY StillParts DEF Still, Untouched
<1>2. KindAt(s) = "dir"
  BY <1>1, OldKind
<1>3. LstatErrno(s) = "ok"
  BY <1>1, <1>2, Found, PathAssumption
<1>4. KindAt(Dir(d)) = "dir"
  BY <1>1, ParentStands
<1>5. CreateErrno(d) = "ok" /\ LstatErrno(d) # "ok"
  BY <1>1, <1>4, Creatable
<1> QED
  BY <1>2, <1>3, <1>5, ResolveFacts

LEMMA WalkNoError ==
  ASSUME CopyInv, Still, guestOps = 0, NoError, WalkStep
  PROVE  NoError'
<1>0. /\ TypeInv /\ TypeOK /\ FSTypeOK /\ Tree /\ NoErrorYet /\ AllReady /\ faults \in Nat
      /\ (pc \in {"make", "waiting"} => todo # << >> /\ Head(todo).op = "visit")
  <2>1. TypeOK /\ MaxFaults \in Nat
    BY StillParts, WalkAssumption
  <2>2. faults \in Nat
    BY <2>1, TypeParts
  <2> QED
    BY <2>2, StillParts DEF Still, CopyInv
<1> SUFFICES ASSUME faults' = 0, Feasible'
             PROVE  walkErr' = nil /\ chmodErr' = nil
  BY DEF NoError
<1>4. ASSUME NEW what PROVE ~Fails(what)
  BY <1>0 DEF Fails
<1>1. CASE Start
  <2>1. PICK s, d : s = src' /\ d = dst'
    OBVIOUS
  <2>2. /\ s \in Path /\ d \in Path /\ InitEntry[s] # NoInode
        /\ InitEntry[d] = NoInode /\ DirStood(d)
    BY <2>1 DEF Feasible, DirStood
  <2>3. s \in InitBelow(s)
    BY <2>2, PathAssumption, PrefixRefl DEF InitBelow
  <2>4. InitInode[InitEntry[s]].kind = "dir"
    BY <2>1, <2>3 DEF Feasible, InitBelow
  <2>5. walkErr' = ResolveError(s, d) /\ chmodErr' = chmodErr /\ pc = "idle"
    BY <1>1, <1>4, <2>1, StartCases DEF StartOn
  <2>6. ResolveError(s, d) = nil
    BY <2>2, <2>4, <2>5, StartedWell
  <2> QED
    BY <1>0, <2>5, <2>6 DEF NoErrorYet
<1>2. ASSUME ~Start
      PROVE  src' = src /\ dst' = dst /\ pc # "idle" /\ Feasible
  <2>1. pc # "idle"
    BY <1>2 DEF WalkStep, LstatRoot, MkdirRoot, WalkRoot, ReadDir, LstatEntry, MakeDir, MakeFile,
                  WriterComes, WalkEnd, Restore
  <2>2. src' = src /\ dst' = dst
    BY <1>0, <2>1, Moves DEF Began, Returned, Return, LookedRoot, Look, Stopped, StopWalk, Entered, Listed,
       LookedAt, MadeFile, MadeDir, Descend, Waits, WalkEnd, Restored, Over, ChmodFailed, walkvars
  <2> QED
    BY <2>1, <2>2 DEF Feasible, InitBelow, TargetOf
<1>3. ASSUME ~Start, faults' = faults, walkErr' = walkErr, chmodErr' = chmodErr
      PROVE  walkErr' = nil /\ chmodErr' = nil
  BY <1>2, <1>3 DEF NoError
<1>5. CASE LstatRoot
  <2>1. ~Start
    BY <1>5 DEF LstatRoot, Start
  <2>2. LstatErrno(src) = "ok" /\ KindAt(src) = "dir"
    BY <1>0, <1>2, <2>1, FeasibleSource, Found DEF InitBelow
  <2> QED
    BY <1>3, <1>4, <1>5, <2>1, <2>2 DEF LstatRoot, Look
<1>6. CASE MkdirRoot
  <2>1. ~Start
    BY <1>6 DEF MkdirRoot, Start
  <2>2. entry = InitEntry /\ dst \in Path /\ InitEntry[dst] = NoInode /\ DirStood(dst)
    BY <1>2, <1>6, <2>1 DEF MkdirRoot, Still, Untouched, Feasible
  <2>3. CreateErrno(dst) = "ok"
    BY <1>0, <2>2, DstParent, Creatable
  <2> QED
    BY <1>3, <1>4, <1>6, <2>1, <2>3 DEF MkdirRoot
<1>7. CASE WalkRoot
  <2>1. ~Start
    BY <1>7 DEF WalkRoot, Start
  <2>2. LstatErrno(src) = "ok"
    BY <1>0, <1>2, <2>1, FeasibleSource, Found
  <2> QED
    BY <1>3, <1>4, <1>7, <2>1, <2>2 DEF WalkRoot
<1>8. CASE ReadDir
  <2>1. ~Start /\ todo # << >> /\ Head(todo).op = "list"
    BY <1>8 DEF ReadDir, Start
  <2>2. Head(todo) \in ToSet(todo) /\ Front1 \in Seq(Name)
    BY <1>0, <2>1, InTodo
  <2>3. KindAt(Front1) = "dir"
    BY <1>0, <2>1, <2>2 DEF AllReady, Ready, Front1
  <2>4. OpenErrno(Front1) = "ok" /\ Follow(Front1) = Front1
    BY <1>0, <2>2, <2>3, Found
  <2> QED
    BY <1>3, <1>4, <1>8, <2>1, <2>3, <2>4 DEF ReadDir, Front1
<1>9. CASE LstatEntry
  <2>1. ~Start /\ todo # << >> /\ pc = "walk"
    BY <1>9 DEF LstatEntry, Start
  <2>2. Head(todo) \in ToSet(todo) /\ Front1 \in Seq(Name)
    BY <1>0, <2>1, InTodo
  <2>3. Front1 \in InitBelow(src)
    BY <1>2, <2>1, <2>2 DEF Still, Sourced, Feasible, Front1
  <2>4. /\ KindAt(Front1) \in {"dir", "file"} /\ Front1 \in Path /\ InitEntry[Front1] # NoInode
        /\ KindAt(Front1) = "file" => Alone(Front1)
    BY <1>2, <2>1, <2>3, FeasibleSource
  <2>5. LstatErrno(Front1) = "ok"
    BY <1>0, <2>2, <2>4, Found
  <2>6. KindAt(Front1) = "file" => ~(Nlink(entry[Front1]) > 1)
    BY <2>4, NoLinks
  <2>7. Look(Front1, "make")
    BY <1>4, <1>9, <2>4, <2>5, <2>6 DEF LstatEntry, Front1
  <2> QED
    BY <1>3, <2>1, <2>7 DEF Look
<1>10. CASE MakeDir
  <2>1. ~Start /\ pc = "make"
    BY <1>10 DEF MakeDir, Start
  <2>2. CreateErrno(TargetOf(Front1)) = "ok"
    BY <1>2, <2>1, TargetFree
  <2>3. Descend
    BY <1>4, <1>10, <2>2 DEF MakeDir, Front1
  <2> QED
    BY <1>3, <2>1, <2>3 DEF Descend
<1>11. CASE MakeFile
  <2>1. ~Start /\ pc = "make" /\ seen.kind = "file"
    BY <1>11 DEF MakeFile, Start
  <2>2. FileErrno(Front1) = "ok"
    BY <1>2, <2>1, TargetFree DEF FileErrno
  <2>3. Descend
    <3>1. KindAt(Front1) = "file" /\ Follow(Front1) = Front1 /\ OpenErrno(Front1) = "ok"
      BY <1>2, <2>1, TargetFree
    <3> QED
      BY <1>4, <1>11, <2>2, <3>1 DEF MakeFile, Front1
  <2> QED
    BY <1>3, <2>1, <2>3 DEF Descend
<1>w. CASE WriterComes
  BY <1>0, <1>w DEF WriterComes, NoErrorYet
<1>12. CASE WalkEnd
  <2>1. ~Start
    BY <1>12 DEF WalkEnd, Start
  <2> QED
    BY <1>3, <1>12, <2>1 DEF WalkEnd, walkvars
<1>13. CASE Restore
  <2>1. ~Start
    BY <1>13 DEF Restore, Start
  <2>2. pending # << >> => OpenErrno(Last(pending).path) = "ok"
    BY PendingFound
  <2>3. faults' = faults /\ walkErr' = walkErr /\ chmodErr' = chmodErr
    BY <1>4, <1>13, <2>2 DEF Restore, walkvars
  <2> QED
    BY <1>3, <2>1, <2>3
<1> QED
  BY <1>1, <1>5, <1>6, <1>7, <1>8, <1>9, <1>10, <1>11, <1>12, <1>13, <1>w DEF WalkStep

\* What a request that succeeded has found.
LEMMA OnlyFeasible ==
  ASSUME CopyInv, Still, guestOps = 0, OK
  PROVE  Feasible
<1>1. ~IsPrefix(src, dst) /\ Walking /\ src \in Seq(Name) /\ dst \in Seq(Name)
  BY EndStill, StillParts
<1>2. src # << >>
  BY <1>1, RootIsPrefix
<1>3. /\ dst \in Path /\ InitEntry[dst] = NoInode /\ KindAt(dst) = "dir" /\ KindAt(src) = "dir"
      /\ src \in InitBelow(src)
  BY <1>1, <1>2 DEF Still, RootsThere
<1>4. src \in Path /\ InitEntry[src] # NoInode
  BY <1>3 DEF InitBelow
<1>5. DirStood(dst)
  <2>1. dst # << >> /\ Len(dst) \in Nat \ {0} /\ \A n \in 1 .. Len(dst) - 1 : KindAt(Prefix(dst, n)) = "dir"
    <3>1. dst # << >>
      BY <1>3, PathAssumption
    <3>2. entry[dst] # NoInode
      BY <1>3, <3>1 DEF KindAt
    <3> QED
      BY <1>1, <1>3, <3>1, <3>2, PrefixOfDir DEF CopyInv, Tree
  <2>2. KindAt(Dir(dst)) = "dir"
    <3>1. CASE Len(dst) = 1
      <4>1. PICK e : e = Dir(dst)
        OBVIOUS
      <4>2. Len(e) = 0 /\ e \in Seq(Name)
        <5>1. Len(e) = Len(dst) - 1 /\ e \in Seq(Name)
          BY <1>1, <2>1, <4>1, PrefixOfDir
        <5> QED
          BY <3>1, <5>1
      <4>3. e = << >>
        BY <4>2, EmptySeq
      <4> QED
        BY <4>1, <4>3 DEF KindAt
    <3>2. CASE Len(dst) # 1
      <4>1. Len(dst) \in Nat \ {0}
        BY <2>1
      <4>2. Len(dst) - 1 \in 1 .. Len(dst) - 1
        BY <3>2, <4>1
      <4> QED
        BY <2>1, <4>2 DEF Dir
    <3> QED
      BY <3>1, <3>2
  <2> QED
    BY <1>3, <2>2, DstParent
<1>6. ASSUME NEW p \in InitBelow(src)
      PROVE  /\ TargetOf(p) \in Path
             /\ \/ InitInode[InitEntry[p]].kind = "dir"
                \/ InitInode[InitEntry[p]].kind = "file" /\ p # src /\ Alone(p)
  <2>1. p \in Path /\ InitEntry[p] # NoInode
    BY DEF InitBelow
  <2>2. entry[p] = InitEntry[p] /\ KindAt(p) = InitInode[InitEntry[p]].kind
    BY <2>1, StillParts, OldKind
  <2>3. Copied(p)
    <3>1. ~Coming(p)
      BY InNothing DEF OK, CopyInv, Left, Coming
    <3> QED
      BY <1>1, <2>2, <3>1 DEF OK, CopyInv, AllHandled, Handled
  <2> QED
    BY <1>3, <2>2, <2>3 DEF Copied, CopyOf
<1> QED
  BY <1>1, <1>3, <1>4, <1>5, <1>6 DEF Feasible

StillRight == TypeInv /\ (guestOps = 0 => CopyInv /\ Still /\ NoError)

LEMMA StillVerdict == StillRight => TreeVerdictIsRight
<1> SUFFICES ASSUME CopyInv, Still, NoError, pc = "done", guestOps = 0, faults = 0
             PROVE  OK <=> /\ {src, dst} \subseteq Path /\ InitEntry[src] # NoInode
                           /\ \A p \in InitBelow(src) :
                                \/ InitInode[InitEntry[p]].kind = "dir"
                                \/ /\ InitInode[InitEntry[p]].kind = "file" /\ p # src
                                   /\ Cardinality({q \in Path : InitEntry[q] = InitEntry[p]}) = 1
                           /\ \A p \in InitBelow(src) : TargetOf(p) \in Path
                           /\ InitEntry[dst] = NoInode /\ KindAt(Dir(dst)) = "dir"
                           /\ ~IsPrefix(src, dst)
  BY DEF TreeVerdictIsRight, StillRight
<1>1. dst \in Path => (KindAt(Dir(dst)) = "dir" <=> DirStood(dst))
  BY DstParent
<1>2. OK <=> Feasible
  BY OnlyFeasible DEF NoError, OK
<1> QED
  BY <1>1, <1>2 DEF Feasible, Alone

LEMMA NextRight ==
  ASSUME StillRight, [Next]_vars
  PROVE  StillRight'
<1>1. TypeInv /\ TypeInv' /\ FSTypeOK
  BY NextType DEF StillRight, TypeInv, TypeOK
<1> SUFFICES ASSUME guestOps' = 0
             PROVE  CopyInv' /\ Still' /\ NoError'
  BY <1>1 DEF StillRight
<1>2. CASE WalkStep
  <2>1. guestOps = 0
    BY <1>1, <1>2, WalkNoGuest
  <2> QED
    BY <1>2, <2>1, WalkCopy, WalkStill, WalkNoError DEF StillRight
<1>3. CASE Guests
  BY <1>1, <1>3, GuestEffects DEF Guests, GuestEffect, FSTypeOK
<1>4. CASE UNCHANGED vars
  <2>1. NoError => NoError'
    BY <1>4 DEF NoError, Feasible, InitBelow, TargetOf, vars, walkvars
  <2> QED
    BY <1>4, <2>1, CopyStutter, StillStutter DEF StillRight, vars, fsvars
<1> QED
  BY <1>2, <1>3, <1>4 DEF Next, Finished

\* As long as no guest has done anything and nothing has failed for reasons of its own,
\* a request succeeds exactly if it can be done (reflinkTree and ReflinkTree refuse what
\* they must, and nothing else), whatever guests may do later.
THEOREM VerdictIsRight == Spec => []TreeVerdictIsRight
<1>1. Init => StillRight
  BY InitType, InitCopy, InitStill DEF StillRight, StillInv, NoError, Init
<1>2. StillRight /\ [Next]_vars => StillRight'
  BY NextRight
<1> QED
  BY <1>1, <1>2, StillVerdict, PTL DEF Spec
=============================================================================
