------------------------------ MODULE TreeWalk ------------------------------
(***************************************************************************)
(* A recursive request: reflinkTree and Walker.ReflinkTree, with the walk    *)
(* that filepath.WalkDir makes of the source.  A directory is listed once,   *)
(* its entries are looked at one by one, each look and what is made of it    *)
(* are two steps, and guests move in between.  FileReflink shows what a      *)
(* single Reflink and the resolution of the two paths look like system call  *)
(* by system call: here either is one step.                                  *)
(***************************************************************************)
EXTENDS HostFS, Paths

CONSTANTS
  Request,     \* pairs of clean paths
  NameOrder,   \* [Name -> Nat]: the order of a directory listing
  NewInode,    \* the inodes the walk creates
  RootMode,    \* the mode of the share root
  TempMode,    \* temporaryDirectoryMode
  Faults,      \* what may fail for reasons of its own
  MaxFaults    \* bound on the number of such failures

VARIABLES
  pc,
  src, dst,    \* srcRoot and dstRoot
  todo,        \* what WalkDir has still to do, next first
  seen,        \* kind and mode that the last Lstat found
  pending,     \* directories, a list of paths with their modes
  walkErr, chmodErr,
  faults

walkvars == <<src, dst, todo, seen, pending, walkErr, chmodErr>>
vars == <<entry, inode, guestOps, pc, walkvars, faults>>

ASSUME WalkAssumption ==
  /\ Request \subseteq Seq(Name) \X Seq(Name)
  /\ NameOrder \in [Name -> Nat]
  /\ \A m, n \in Name : NameOrder[m] = NameOrder[n] => m = n
  /\ NewInode \subseteq Inode \ GuestInode
  /\ \A i \in NewInode : InitInode[i].kind = "free"
  /\ {RootMode, TempMode} \subseteq Mode /\ MaxFaults \in Nat
  /\ Faults \subseteq {"lstat", "mkdir", "readdir", "reflink", "chmod"}

Visit(p, isDir) == [op |-> "visit", path |-> p, isDir |-> isDir]
List(p) == [op |-> "list", path |-> p, isDir |-> TRUE]

TypeOK ==
  /\ FSTypeOK
  /\ pc \in {"idle", "lstatRoot", "mkdirRoot", "walkRoot", "walk", "make", "waiting", "restore",
            "done"}
  /\ {src, dst} \subseteq Seq(Name)
  /\ todo \in Seq([op : {"visit", "list"}, path : Seq(Name), isDir : BOOLEAN])
  /\ seen \in [kind : Kind, mode : Mode]
  /\ pending \in Seq([path : Seq(Name), mode : Mode])
  /\ {walkErr, chmodErr} \subseteq [kind : {"nil", "coded", "raw"}, code : Code \cup Errno \cup {""},
                                    msg : Message \cup {"", "unsupported file type"}]
  /\ faults \in 0 .. MaxFaults

Init ==
  /\ FSInit
  /\ pc = "idle"
  /\ src = << >> /\ dst = << >>
  /\ todo = << >> /\ pending = << >>
  /\ seen = [kind |-> "free", mode |-> TempMode]
  /\ walkErr = nil /\ chmodErr = nil
  /\ faults = 0
-----------------------------------------------------------------------------
Fails(what) == what \in Faults /\ faults < MaxFaults /\ faults' = faults + 1

\* What resolution says of a path that is not there as a directory entry.
Unresolved(p, msg) ==
  IF LstatErrno(p) = "ELOOP" \/ KindAt(p) = "symlink"
  THEN NewError("EINVAL", "symlinks are not supported")
  ELSE IF LstatErrno(p) = "ENOENT" THEN NewError("ENOENT", msg)
  ELSE Raw(LstatErrno(p))

ResolveError(s, d) ==
  CASE LstatErrno(s) # "ok" \/ KindAt(s) = "symlink" -> Unresolved(s, "source not found")
    [] KindAt(s) \notin {"none", "symlink", "dir"} /\ LstatErrno(s) = "ok" ->
         NewError("EINVAL", "source must be a directory")
    [] OTHER ->
         IF LstatErrno(d) = "ok" /\ KindAt(d) # "symlink"
         THEN NewError("EEXIST", "destination already exists")
         ELSE IF CreateErrno(d) \in {"ok", "ENAMETOOLONG"} THEN nil
         ELSE Unresolved(d, "destination parent does not exist")

\* reflinkTree.
Start ==
  /\ pc = "idle"
  /\ \E r \in Request :
       /\ src' = r[1] /\ dst' = r[2]
       /\ \/ walkErr' = ResolveError(r[1], r[2]) /\ UNCHANGED faults
          \/ /\ Fails("lstat")
             /\ walkErr' \in {Raw("EACCES"),
                             NewError("EPERM", "path must stay within the shared root")}
       /\ pc' = IF walkErr' = nil THEN "lstatRoot" ELSE "done"
  /\ UNCHANGED <<fsvars, todo, seen, pending, chmodErr>>

\* An error before there is anything to restore.
Return(e) ==
  /\ pc' = "done" /\ walkErr' = e
  /\ UNCHANGED <<fsvars, src, dst, todo, seen, pending, chmodErr>>

Look(p, to) ==
  /\ pc' = to
  /\ seen' = [kind |-> KindAt(p), mode |-> IF p = << >> THEN RootMode ELSE inode[entry[p]].mode]
  /\ UNCHANGED <<fsvars, src, dst, pending, walkErr, chmodErr, faults>>

LstatRoot ==
  /\ pc = "lstatRoot"
  /\ LET errno == LstatErrno(src)
     IN  \/ errno # "ok" /\ Return(Raw(errno)) /\ UNCHANGED faults
         \/ /\ errno = "ok" /\ KindAt(src) # "dir"
            /\ Return(NewError("EINVAL", "source must be a directory"))
            /\ UNCHANGED faults
         \/ errno = "ok" /\ KindAt(src) = "dir" /\ Look(src, "mkdirRoot") /\ UNCHANGED todo
         \/ Fails("lstat") /\ Return(Raw("EACCES"))

\* The new entry p, and what it names; NewInode bounds how many a walk can make.
Put(p, node) ==
  LET free == {i \in NewInode : inode[i].kind = "free"}
      i == CHOOSE i \in free : TRUE
  IN  /\ free # {}
      /\ entry' = [entry EXCEPT ![p] = i]
      /\ inode' = [inode EXCEPT ![i] = node]
      /\ UNCHANGED guestOps

MakeDirectory(p) ==
  /\ Put(p, [kind |-> "dir", content |-> Empty, mode |-> Masked[TempMode], target |-> << >>])
  /\ pending' = Append(pending, [path |-> p, mode |-> seen.mode])

\* MkdirRoot, mutated: a directory that is there will do.
MkdirRootIfMissing ==
  /\ pc = "mkdirRoot"
  /\ \/ /\ CreateErrno(dst) = "ok" /\ MakeDirectory(dst) /\ pc' = "walkRoot"
        /\ UNCHANGED <<src, dst, todo, seen, walkErr, chmodErr, faults>>
     \/ /\ KindAt(dst) = "dir" /\ pc' = "walkRoot"
        /\ pending' = <<[path |-> dst, mode |-> seen.mode]>>
        /\ UNCHANGED <<fsvars, src, dst, todo, seen, walkErr, chmodErr, faults>>
     \/ CreateErrno(dst) # "ok" /\ KindAt(dst) # "dir" /\ Return(Raw("EEXIST")) /\ UNCHANGED faults

MkdirRoot ==
  /\ pc = "mkdirRoot"
  /\ \/ /\ CreateErrno(dst) = "ok" /\ MakeDirectory(dst) /\ pc' = "walkRoot"
        /\ UNCHANGED <<src, dst, todo, seen, walkErr, chmodErr, faults>>
     \/ CreateErrno(dst) # "ok" /\ Return(Raw(CreateErrno(dst))) /\ UNCHANGED faults
     \/ Fails("mkdir") /\ Return(Raw("EACCES"))
-----------------------------------------------------------------------------
(* filepath.WalkDir and the function it calls.                              *)

\* StopWalk, mutated: the error is returned as it comes.
StopAtOnce(e) ==
  /\ pc' = "done" /\ walkErr' = e /\ todo' = << >>
  /\ UNCHANGED <<fsvars, src, dst, seen, pending, chmodErr>>

StopWalk(e) ==
  /\ pc' = "restore" /\ walkErr' = e /\ todo' = << >>
  /\ UNCHANGED <<fsvars, src, dst, seen, pending, chmodErr>>

\* WalkDir looks at the root once more; the function has nothing to say of it.
WalkRoot ==
  /\ pc = "walkRoot"
  /\ LET errno == LstatErrno(src)
     IN  \/ errno # "ok" /\ StopWalk(Raw(errno)) /\ UNCHANGED faults
         \/ /\ errno = "ok" /\ pc' = "walk"
            /\ todo' = IF KindAt(src) = "dir" THEN <<List(src)>> ELSE << >>
            /\ UNCHANGED <<fsvars, src, dst, seen, pending, walkErr, chmodErr, faults>>
         \/ Fails("lstat") /\ StopWalk(Raw("EACCES"))

\* The entries of a directory in the order of their names.
Rank(q) ==
  Cardinality({r \in Children(Dir(q)) : NameOrder[Last(r)] <= NameOrder[Last(q)]})
Listing(d) == [n \in 1 .. Cardinality(Children(d)) |-> CHOOSE q \in Children(d) : Rank(q) = n]

\* What each entry is is read with the listing, and believed later.
Visits(p) ==
  LET at == Listing(Follow(p))
  IN  [n \in DOMAIN at |-> Visit(Append(p, Last(at[n])), KindAt(at[n]) = "dir")]

\* ReadDir, mutated: a directory that is gone is waited for.
ReadDirRetry ==
  /\ pc = "walk" /\ todo # << >> /\ Head(todo).op = "list"
  /\ todo' = IF OpenErrno(Head(todo).path) = "ok" THEN Visits(Head(todo).path) \o Tail(todo)
             ELSE todo
  /\ UNCHANGED <<fsvars, pc, src, dst, seen, pending, walkErr, chmodErr, faults>>

ReadDir ==
  /\ pc = "walk" /\ todo # << >> /\ Head(todo).op = "list"
  /\ LET p == Head(todo).path
         errno == OpenErrno(p)
     IN  \/ errno # "ok" /\ StopWalk(Raw(errno)) /\ UNCHANGED faults
         \/ errno = "ok" /\ KindAt(Follow(p)) # "dir" /\ StopWalk(Raw("ENOTDIR")) /\ UNCHANGED faults
         \/ /\ errno = "ok" /\ KindAt(Follow(p)) = "dir"
            /\ todo' = Visits(p) \o Tail(todo)
            /\ UNCHANGED <<fsvars, pc, src, dst, seen, pending, walkErr, chmodErr, faults>>
         \/ Fails("readdir") /\ StopWalk(Raw("EIO"))

\* LstatEntry, mutated: RejectHardlink is forgotten.
LstatAnyLinks ==
  /\ pc = "walk" /\ todo # << >> /\ Head(todo).op = "visit"
  /\ LET p == Head(todo).path
     IN  \/ KindAt(p) \in {"dir", "file"} /\ Look(p, "make") /\ UNCHANGED todo
         \/ KindAt(p) \notin {"dir", "file"} /\ StopWalk(Raw("ENOENT")) /\ UNCHANGED faults

\* LstatEntry, mutated: a plain error for what is neither directory nor file.
LstatUncoded ==
  /\ pc = "walk" /\ todo # << >> /\ Head(todo).op = "visit"
  /\ LET p == Head(todo).path
     IN  \/ KindAt(p) \in {"dir", "file"} /\ Look(p, "make") /\ UNCHANGED todo
         \/ KindAt(p) \notin {"dir", "file"} /\ StopWalk(Raw("unsupported file type"))
            /\ UNCHANGED faults

LstatEntry ==
  /\ pc = "walk" /\ todo # << >> /\ Head(todo).op = "visit"
  /\ LET p == Head(todo).path
         errno == LstatErrno(p)
         stop(e) == StopWalk(e) /\ UNCHANGED faults
         links == KindAt(p) = "file" /\ Nlink(entry[p]) > 1
     IN  \/ errno # "ok" /\ stop(Raw(errno))
         \/ errno = "ok" /\ KindAt(p) = "symlink"
            /\ stop(NewError("EINVAL", "symlinks are not supported"))
         \/ errno = "ok" /\ links /\ stop(NewError("EINVAL", "hard links are not supported"))
         \/ errno = "ok" /\ KindAt(p) = "other" /\ stop(NewError("EINVAL", "unsupported file type"))
         \/ errno = "ok" /\ KindAt(p) \in {"dir", "file"} /\ ~links
            /\ Look(p, "make") /\ UNCHANGED todo
         \/ Fails("lstat") /\ StopWalk(Raw("EACCES"))

\* Where in the destination a path of the source belongs.
TargetOf(p) == dst \o SubSeq(p, Len(src) + 1, Len(p))

\* The function has returned nil: WalkDir goes into what was listed as a directory.
Descend ==
  /\ pc' = "walk"
  /\ todo' = (IF Head(todo).isDir THEN <<List(Head(todo).path)>> ELSE << >>) \o Tail(todo)
  /\ UNCHANGED <<src, dst, seen, walkErr, chmodErr, faults>>

\* MakeDir, mutated: WalkDir is told to skip what was made.
MakeDirOnly ==
  /\ pc = "make" /\ seen.kind = "dir"
  /\ LET t == TargetOf(Head(todo).path)
     IN  \/ /\ CreateErrno(t) = "ok" /\ MakeDirectory(t)
            /\ pc' = "walk" /\ todo' = Tail(todo)
            /\ UNCHANGED <<src, dst, seen, walkErr, chmodErr, faults>>
         \/ CreateErrno(t) # "ok" /\ StopWalk(Raw(CreateErrno(t))) /\ UNCHANGED faults

MakeDir ==
  /\ pc = "make" /\ seen.kind = "dir"
  /\ LET t == TargetOf(Head(todo).path)
     IN  \/ CreateErrno(t) = "ok" /\ MakeDirectory(t) /\ Descend
         \/ CreateErrno(t) # "ok" /\ StopWalk(Raw(CreateErrno(t))) /\ UNCHANGED faults
         \/ Fails("mkdir") /\ StopWalk(Raw("EACCES"))

\* What Reflinker.Reflink finds wrong with the names, in the order of its calls.
FileErrno(p) ==
  LET t == TargetOf(p)
      kind == KindAt(Follow(p))
  IN  IF OpenErrno(p) # "ok" THEN OpenErrno(p)
      ELSE IF CreateErrno(t) # "ok" THEN CreateErrno(t)
      ELSE CASE kind = "file" -> "ok" [] kind = "dir" -> "EISDIR" [] OTHER -> "EINVAL"

\* Reflinker.Reflink.  What was a file when it was looked at may be a FIFO when it is
\* opened, and then os.Open waits for a writer; or a socket, which cannot be opened.
MakeFile ==
  /\ pc = "make" /\ seen.kind = "file"
  /\ LET p == Head(todo).path
         errno == FileErrno(p)
         special == OpenErrno(p) = "ok" /\ KindAt(Follow(p)) = "other"
     IN  \/ /\ errno = "ok" /\ Descend /\ UNCHANGED pending
            /\ Put(TargetOf(p), [kind |-> "file", mode |-> seen.mode, target |-> << >>,
                                 content |-> inode[entry[Follow(p)]].content])
         \/ errno # "ok" /\ StopWalk(Raw(errno)) /\ UNCHANGED faults
         \/ special /\ StopWalk(Raw("ENXIO")) /\ UNCHANGED faults
         \/ special /\ pc' = "waiting" /\ UNCHANGED <<fsvars, walkvars, faults>>
         \/ Fails("reflink") /\ \E e \in {Raw("EIO"), NewError("EOPNOTSUPP",
              "reflink is not supported for this source and destination")} : StopWalk(e)

\* Somebody opens the FIFO for writing, if anybody ever does: it cannot be cloned.
WriterComes ==
  /\ pc = "waiting"
  /\ LET errno == CreateErrno(TargetOf(Head(todo).path))
     IN  StopWalk(Raw(IF errno = "ok" THEN "EINVAL" ELSE errno))
  /\ UNCHANGED faults

WalkEnd ==
  /\ pc = "walk" /\ todo = << >> /\ pc' = "restore"
  /\ UNCHANGED <<fsvars, walkvars, faults>>

\* restoreDirectoryModes: the last one made comes first, an error is the last.
Restore ==
  /\ pc = "restore"
  /\ \/ /\ pending = << >> /\ pc' = "done"
        /\ UNCHANGED <<fsvars, walkvars, faults>>
     \/ /\ pending # << >>
        /\ LET p == Last(pending).path
               errno == OpenErrno(p)
               stop(e) == /\ pc' = "done" /\ chmodErr' = e
                          /\ UNCHANGED <<fsvars, src, dst, todo, seen, pending, walkErr>>
           IN  \/ /\ errno = "ok" /\ pending' = Front(pending)
                  /\ inode' = [inode EXCEPT ![entry[Follow(p)]].mode = Last(pending).mode]
                  /\ UNCHANGED <<entry, guestOps, pc, src, dst, todo, seen, walkErr, chmodErr,
                                faults>>
               \/ errno # "ok" /\ stop(Raw(errno)) /\ UNCHANGED faults
               \/ Fails("chmod") /\ stop(Raw("EPERM"))
-----------------------------------------------------------------------------
WalkStep ==
  \/ Start \/ LstatRoot \/ MkdirRoot \/ WalkRoot \/ ReadDir \/ LstatEntry
  \/ MakeDir \/ MakeFile \/ WriterComes \/ WalkEnd \/ Restore

Guests == pc # "done" /\ GuestNext /\ UNCHANGED <<pc, walkvars, faults>>

Finished == pc = "done" /\ UNCHANGED vars

Next == WalkStep \/ Guests \/ Finished

Spec == Init /\ [][Next]_vars

\* The goroutine of the request is scheduled, and its system calls return, but for an
\* os.Open that waits: nobody owes it a writer.
FairSpec == Spec /\ WF_vars(pc # "waiting" /\ WalkStep)
-----------------------------------------------------------------------------
(* Properties.                                                              *)

OK == pc = "done" /\ walkErr = nil /\ chmodErr = nil

\* What was below p when the daemon started, p included.
InitBelow(p) == {q \in Path : IsPrefix(p, q) /\ InitEntry[q] # NoInode}

\* A success is a copy: all that was in the source, and is there still, has been
\* made in the destination with its kind, content and mode, though guests add to
\* either tree or take away meanwhile (what they took away of the copy is an inode
\* without a name, what they renamed has another one); on a share that keeps still
\* there is nothing else there (ReflinkTree, whose errors on the way must all come
\* out).
OkIsTreeCopy ==
  OK =>
    /\ \A p \in InitBelow(src) : entry[p] = InitEntry[p] =>
         \E i \in NewInode :
           /\ [inode[i] EXCEPT !.target = << >>] = inode[entry[p]]
           /\ \/ entry[TargetOf(p)] = i \/ Nlink(i) = 0
              \/ guestOps > 0 /\ "rename" \in GuestOps
    /\ guestOps = 0 => \A q \in Path : IsPrefix(dst, q) /\ entry[q] # NoInode =>
         \E p \in InitBelow(src) : q = TargetOf(p)

\* On a share that keeps still, and if nothing fails, a request succeeds exactly if
\* the source is a tree of directories and files with one name, the destination is
\* free in an existing directory and lies outside the source, and what goes there
\* gets no path that is too long.  (Inside it, the
\* walk meets what it makes, until a path gets too long.)
TreeVerdictIsRight ==
  pc = "done" /\ guestOps = 0 /\ faults = 0 =>
    (OK <=> /\ {src, dst} \subseteq Path /\ InitEntry[src] # NoInode
            /\ \A p \in InitBelow(src) :
                 \/ InitInode[InitEntry[p]].kind = "dir"
                 \/ /\ InitInode[InitEntry[p]].kind = "file" /\ p # src
                    /\ Cardinality({q \in Path : InitEntry[q] = InitEntry[p]}) = 1
            /\ \A p \in InitBelow(src) : TargetOf(p) \in Path
            /\ InitEntry[dst] = NoInode /\ KindAt(Dir(dst)) = "dir"
            /\ ~IsPrefix(src, dst))

\* Whatever stops the walk, the directories it has made get the modes of those they
\* copy: none is left with the temporary mode, but the one whose chmod failed and
\* those made before it, and then the failure is reported
\* (restoreDirectoryModes, and the order of walkErr and chmodErr).
ModesRestored ==
  pc = "done" =>
    \A p \in InitBelow(src) :
      LET t == TargetOf(p)
      IN  /\ t \in Path /\ entry[t] \in NewInode /\ KindAt(t) = "dir"
          /\ entry[p] = InitEntry[p] /\ KindAt(p) = "dir"
          => \/ inode[entry[t]].mode = inode[entry[p]].mode
             \/ chmodErr # nil /\ \E n \in DOMAIN pending : pending[n].path = t

\* The walk changes nothing but what it has made, and takes nothing away, while
\* guests make what they like in the destination.  Needs guests that put nothing in
\* the place of a directory: os.Chmod of the restored directories goes by name.
ChangesOnlyOwn ==
  [][guestOps' = guestOps =>
       /\ \A i \in Inode : inode'[i] # inode[i] => i \in NewInode
       /\ \A p \in Path : entry'[p] # entry[p] =>
            entry[p] = NoInode /\ entry'[p] \in NewInode]_vars

\* Every walk ends, that of a tree into itself included, unless a guest hangs it on a
\* FIFO that took the place of a file the walk had looked at.
WalkEnds == pc # "idle" ~> pc \in {"done", "waiting"}
=============================================================================
