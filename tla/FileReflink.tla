---------------------------- MODULE FileReflink ----------------------------
(***************************************************************************)
(* Concurrent single-file requests: Service.Execute on a request without    *)
(* recursive, down to the system calls.  server.Serve runs every request in *)
(* a goroutine of its own (or hands it to a process of its own), nothing    *)
(* locks the share, and guests work on the same directory: every system     *)
(* call is an action.  A worker is one call of Execute; the inode it creates *)
(* carries its name.                                                        *)
(***************************************************************************)
EXTENDS HostFS, Paths

CONSTANTS
  Worker,      \* the calls of Execute; each is also an inode number
  Request,     \* the requests they may get
  Faults,      \* the system calls that may fail for reasons of their own
  MaxCrashes   \* bound on the workers that die half-way

VARIABLES
  pc,          \* where each worker is
  job,         \* the local variables of each worker
  crashes

vars == <<entry, inode, guestOps, pc, job, crashes>>

PC == {"idle", "joinSrc", "componentsSrc", "lstatSrc", "joinDst", "componentsDst",
       "lstatDst", "joinParent", "lstatParent", "open", "waiting", "create", "clone",
       "chmod", "close", "remove", "done", "crashed"}

RelPath == Seq(Name)

Job == [src : RelPath, dst : RelPath,  \* the cleaned paths of the request
        k : Nat,                       \* components walked in the current loop
        cur : RelPath,                 \* SecureJoin's path so far
        srcPath : RelPath, dstPath : RelPath,
        mode : Mode,                   \* srcInfo.Mode().Perm()
        fd : Inode \cup {NoInode},     \* the open source
        err : Error]

NoJob == [src |-> << >>, dst |-> << >>, k |-> 0, cur |-> << >>, srcPath |-> << >>,
          dstPath |-> << >>, mode |-> CHOOSE m \in Mode : TRUE, fd |-> NoInode,
          err |-> nil]

ASSUME WorkerAssumption ==
  /\ Worker \subseteq Inode \ GuestInode
  /\ {"nobody", "foreign"} \cap Worker = {}
  /\ \A w \in Worker : InitInode[w].kind = "free"
  /\ Mode # {}

ASSUME RequestAssumption ==
  \A r \in Request : /\ NormalizeRelative(r.src).rel \in RelPath
                     /\ NormalizeRelative(r.dst).rel \in RelPath
                     /\ ValidateRequest(r) \in Error

ASSUME FaultAssumption ==
  /\ Faults \subseteq {"join", "lstat", "open", "create", "clone", "chmod", "close", "remove"}
  /\ MaxCrashes \in Nat

Init ==
  /\ FSInit
  /\ pc = [w \in Worker |-> "idle"]
  /\ job = [w \in Worker |-> NoJob]
  /\ crashes = 0
-----------------------------------------------------------------------------
(* The shape of a step: w moves from one point to another and updates its   *)
(* local variables.                                                         *)

Goto(w, to, j) ==
  /\ pc' = [pc EXCEPT ![w] = to]
  /\ job' = [job EXCEPT ![w] = j]
  /\ UNCHANGED crashes

\* A step that reads the share, or nothing at all.
Step(w, to, j) == Goto(w, to, j) /\ UNCHANGED fsvars

Fail(w, e) == Step(w, "done", [job[w] EXCEPT !.err = e])

\* Start, mutated: the paths are kept as the request spells them.
StartUncleaned(w) ==
  /\ pc[w] = "idle"
  /\ \E r \in Request :
       LET e == ValidateRequest(r)
       IN  Step(w, IF e = nil THEN "joinSrc" ELSE "done",
                [job[w] EXCEPT !.src = r.src, !.dst = r.dst, !.err = e])

Start(w) ==
  /\ pc[w] = "idle"
  /\ \E r \in Request :
       LET e == ValidateRequest(r)
       IN  Step(w, IF e = nil THEN "joinSrc" ELSE "done",
                [job[w] EXCEPT !.src = NormalizeRelative(r.src).rel,
                               !.dst = NormalizeRelative(r.dst).rel, !.err = e])

\* securejoin.SecureJoin: one Lstat per component, following a symlink as soon
\* as it is met; what is missing is appended as it is.  If the Lstat fails for
\* another reason the path is said to leave the share.
JoinStep(w, rel) ==
  /\ job[w].k < Len(rel)
  /\ \/ Step(w, pc[w],
             [job[w] EXCEPT !.k = @ + 1, !.cur = Follow(Append(@, rel[job[w].k + 1]))])
     \/ "join" \in Faults /\ Fail(w, NewError("EPERM", "path must stay within the shared root"))

JoinSrc(w) ==
  /\ pc[w] = "joinSrc"
  /\ \/ JoinStep(w, job[w].src)
     \/ /\ job[w].k = Len(job[w].src)
        /\ Step(w, "componentsSrc",
                [job[w] EXCEPT !.k = 0, !.cur = << >>, !.srcPath = job[w].cur])

JoinDst(w) ==
  /\ pc[w] = "joinDst"
  /\ \/ JoinStep(w, job[w].dst)
     \/ /\ job[w].k = Len(job[w].dst)
        /\ Step(w, "componentsDst",
                [job[w] EXCEPT !.k = 0, !.cur = << >>, !.dstPath = job[w].cur])

\* RejectSymlinkComponents, mutated: the loop looks at the first component for
\* ever.
RejectStuck(w, rel, allowMissingLeaf, msg, to) ==
  IF rel # << >> /\ LstatErrno(Prefix(rel, 1)) = "ok" /\ Len(rel) > 1
  THEN Step(w, pc[w], job[w])
  ELSE Step(w, to, [job[w] EXCEPT !.k = 0])

\* RejectSymlinkComponents, mutated: what is missing is not told apart.
RejectUncoded(w, rel, allowMissingLeaf, msg, to) ==
  LET p == Prefix(rel, job[w].k + 1)
      errno == LstatErrno(p)
      last == job[w].k + 1 = Len(rel)
  IN  IF rel = << >> \/ (errno = "ENOENT" /\ allowMissingLeaf /\ last)
      THEN Step(w, to, [job[w] EXCEPT !.k = 0])
      ELSE IF errno # "ok" THEN Fail(w, Raw(errno))
      ELSE IF KindAt(p) = "symlink" THEN Fail(w, NewError("EINVAL", "symlinks are not supported"))
      ELSE Step(w, IF last THEN to ELSE pc[w], [job[w] EXCEPT !.k = IF last THEN 0 ELSE @ + 1])

\* rejectSymlinkComponents: one Lstat per prefix of the request's own path.  A
\* missing component is coded with msg; ENOTDIR is not IsNotExist and goes out
\* as it is.
RejectSymlinkComponents(w, rel, allowMissingLeaf, msg, to) ==
  LET p == Prefix(rel, job[w].k + 1)
      errno == LstatErrno(p)
      last == job[w].k + 1 = Len(rel)
      next == [job[w] EXCEPT !.k = 0]
  IN  \/ rel = << >> /\ Step(w, to, next)
      \/ /\ rel # << >>
         /\ \/ errno = "ok" /\ KindAt(p) # "symlink" /\ last /\ Step(w, to, next)
            \/ errno = "ok" /\ KindAt(p) # "symlink" /\ ~last
               /\ Step(w, pc[w], [job[w] EXCEPT !.k = @ + 1])
            \/ errno = "ok" /\ KindAt(p) = "symlink"
               /\ Fail(w, NewError("EINVAL", "symlinks are not supported"))
            \/ errno = "ENOENT" /\ allowMissingLeaf /\ last /\ Step(w, to, next)
            \/ errno = "ENOENT" /\ ~(allowMissingLeaf /\ last)
               /\ Fail(w, NewError("ENOENT", msg))
            \/ errno \notin {"ok", "ENOENT"} /\ Fail(w, Raw(errno))
            \/ "lstat" \in Faults /\ Fail(w, Raw("EACCES"))

ComponentsSrc(w) ==
  /\ pc[w] = "componentsSrc"
  /\ RejectSymlinkComponents(w, job[w].src, FALSE, "source not found",
                             "lstatSrc")

ComponentsDst(w) ==
  /\ pc[w] = "componentsDst"
  /\ RejectSymlinkComponents(w, job[w].dst, TRUE,
                             "destination parent does not exist", "lstatDst")

\* LstatSrc, mutated: RejectHardlink is forgotten.
LstatSrcAnyLinks(w) ==
  /\ pc[w] = "lstatSrc"
  /\ LET p == job[w].srcPath
         errno == LstatErrno(p)
     IN  \/ errno # "ok" /\ Fail(w, Raw(errno))
         \/ errno = "ok" /\ KindAt(p) # "file"
            /\ Fail(w, NewError("EINVAL", "source must be a regular file"))
         \/ errno = "ok" /\ KindAt(p) = "file"
            /\ Step(w, "joinDst", [job[w] EXCEPT !.mode = inode[entry[p]].mode])

\* LstatSrc, mutated: RequireRegularFile refuses directories and links only.
LstatSrcNoDirectory(w) ==
  /\ pc[w] = "lstatSrc"
  /\ LET p == job[w].srcPath
         errno == LstatErrno(p)
     IN  \/ errno # "ok" /\ Fail(w, Raw(errno))
         \/ errno = "ok" /\ KindAt(p) \in {"dir", "symlink"}
            /\ Fail(w, NewError("EINVAL", "source must be a regular file"))
         \/ errno = "ok" /\ KindAt(p) \notin {"dir", "symlink"}
            /\ Step(w, "joinDst", [job[w] EXCEPT !.mode = inode[entry[p]].mode])

\* The Lstat that ends ResolveSource, and the two checks reflinkSingle makes of
\* its result.
LstatSrc(w) ==
  /\ pc[w] = "lstatSrc"
  /\ LET p == job[w].srcPath
         errno == LstatErrno(p)
     IN  \/ /\ errno # "ok"
            /\ Fail(w, IF errno = "ENOENT" THEN NewError("ENOENT", "source not found")
                                   ELSE Raw(errno))
         \/ /\ errno = "ok" /\ KindAt(p) # "file"
            /\ Fail(w, NewError("EINVAL", IF KindAt(p) = "symlink" THEN "symlinks are not supported"
                                       ELSE "source must be a regular file"))
         \/ /\ errno = "ok" /\ KindAt(p) = "file" /\ Nlink(entry[p]) > 1
            /\ Fail(w, NewError("EINVAL", "hard links are not supported"))
         \/ /\ errno = "ok" /\ KindAt(p) = "file" /\ Nlink(entry[p]) = 1
            /\ Step(w, "joinDst", [job[w] EXCEPT !.mode = inode[entry[p]].mode])
         \/ "lstat" \in Faults /\ Fail(w, Raw("EACCES"))

LstatDst(w) ==
  /\ pc[w] = "lstatDst"
  /\ LET errno == LstatErrno(job[w].dstPath)
     IN  \/ errno = "ok"
            /\ Fail(w, NewError("EEXIST", "destination already exists"))
         \/ errno = "ENOENT" /\ Step(w, "joinParent", job[w])
         \/ errno \notin {"ok", "ENOENT"} /\ Fail(w, Raw(errno))
         \/ "lstat" \in Faults /\ Fail(w, Raw("EACCES"))

\* The parent is joined again from the request's own path; cur keeps it.
JoinParent(w) ==
  /\ pc[w] = "joinParent"
  /\ \/ JoinStep(w, Dir(job[w].dst))
     \/ /\ job[w].k = Len(Dir(job[w].dst))
        /\ Step(w, "lstatParent", [job[w] EXCEPT !.k = 0])

LstatParent(w) ==
  /\ pc[w] = "lstatParent"
  /\ LET p == job[w].cur
         errno == LstatErrno(p)
     IN  \/ /\ errno = "ENOENT"
            /\ Fail(w, NewError("ENOENT", "destination parent does not exist"))
         \/ errno \notin {"ok", "ENOENT"} /\ Fail(w, Raw(errno))
         \/ /\ errno = "ok" /\ KindAt(p) # "dir"
            /\ Fail(w, NewError("EINVAL", IF KindAt(p) = "symlink" THEN "symlinks are not supported"
                                       ELSE "destination parent must be a directory"))
         \/ errno = "ok" /\ KindAt(p) = "dir" /\ Step(w, "open", job[w])
         \/ "lstat" \in Faults /\ Fail(w, Raw("EACCES"))
-----------------------------------------------------------------------------
(* FileReflinker.Reflink.                                                   *)

\* os.Open.  It returns at once unless the path names a FIFO that nobody has open
\* for writing: then the call waits.  A socket cannot be opened.
Open(w) ==
  /\ pc[w] = "open"
  /\ LET p == Follow(job[w].srcPath)
         errno == OpenErrno(job[w].srcPath)
         opened == [job[w] EXCEPT !.fd = entry[p]]
     IN  \/ errno = "ok" /\ Step(w, "create", opened)
         \/ errno = "ok" /\ KindAt(p) = "other" /\ Step(w, "waiting", opened)
         \/ errno = "ok" /\ KindAt(p) = "other" /\ Fail(w, Raw("ENXIO"))
         \/ errno # "ok" /\ Fail(w, Raw(errno))
         \/ "open" \in Faults /\ Fail(w, Raw("EACCES"))

\* Somebody opens the FIFO for writing, if anybody ever does.
WriterComes(w) == pc[w] = "waiting" /\ Step(w, "create", job[w])

\* The file w creates, empty, under the name p.
NewFile(w, p) ==
  /\ Goto(w, "clone", job[w])
  /\ entry' = [entry EXCEPT ![p] = w]
  /\ inode' = [inode EXCEPT ![w] = [kind |-> "file", content |-> Empty,
                                    mode |-> Masked[job[w].mode], target |-> << >>]]
  /\ UNCHANGED guestOps

\* Create, mutated: the new file replaces one that is there.
CreateReplacing(w) ==
  /\ pc[w] = "create"
  /\ LET p == job[w].dstPath
     IN  \/ CreateErrno(p) \in {"ok", "EEXIST"} /\ KindAt(p) # "dir" /\ NewFile(w, p)
         \/ KindAt(p) = "dir" /\ Fail(w, Raw("EISDIR"))

\* Create, mutated: an empty file is taken for the leftover of a crash.
CreateTakesOver(w) ==
  /\ pc[w] = "create"
  /\ LET p == job[w].dstPath
         leftover == KindAt(p) = "file" /\ inode[entry[p]].content = Empty
         errno == IF leftover THEN "ok" ELSE CreateErrno(p)
     IN  \/ errno = "ok" /\ NewFile(w, p)
         \/ errno # "ok" /\ Fail(w, Raw(errno))

\* Create, mutated: whatever fails is reported as EEXIST.
CreateExists(w) ==
  /\ pc[w] = "create"
  /\ \/ CreateErrno(job[w].dstPath) = "ok" /\ NewFile(w, job[w].dstPath)
     \/ /\ CreateErrno(job[w].dstPath) # "ok" \/ "create" \in Faults
        /\ Fail(w, NewError("EEXIST", "destination already exists"))

\* Create, mutated: the cleanup is deferred before the creation.
CreateCleansUp(w) ==
  /\ pc[w] = "create"
  /\ LET errno == CreateErrno(job[w].dstPath)
     IN  \/ errno = "ok" /\ NewFile(w, job[w].dstPath)
         \/ errno # "ok" /\ Step(w, "remove", [job[w] EXCEPT !.err = Raw(errno)])

\* O_CREATE|O_EXCL: the file is there, empty, from here on.
Create(w) ==
  /\ pc[w] = "create"
  /\ LET p == job[w].dstPath
         errno == CreateErrno(p)
     IN  \/ errno = "ok" /\ NewFile(w, p)
         \/ errno # "ok" /\ Fail(w, Raw(errno))
         \/ "create" \in Faults /\ Fail(w, Raw("EACCES"))

\* mapReflinkError: what the ioctl says when the filesystem cannot reflink.
Unsupported ==
  NewError("EOPNOTSUPP", "reflink is not supported for this source and destination")

\* The clone is one ioctl on two open descriptors: it copies the whole content
\* or fails, whatever happened to the two names.
Clone(w) ==
  /\ pc[w] = "clone"
  /\ \/ /\ inode[job[w].fd].kind = "file"
        /\ Goto(w, "chmod", job[w])
        /\ inode' = [inode EXCEPT ![w].content = inode[job[w].fd].content]
        /\ UNCHANGED <<entry, guestOps>>
     \/ /\ inode[job[w].fd].kind # "file"
        /\ Step(w, "close", [job[w] EXCEPT
             !.err = Raw(IF inode[job[w].fd].kind = "dir" THEN "EISDIR" ELSE "EINVAL")])
     \/ /\ "clone" \in Faults
        /\ \E e \in {Unsupported, Raw("EIO")} :
             Step(w, "close", [job[w] EXCEPT !.err = e])

\* Chmod, mutated: the mode given to open is taken to be enough.
ChmodForgotten(w) == pc[w] = "chmod" /\ Step(w, "close", job[w])

\* Chmod, mutated: os.Chmod(dstPath, mode).
ChmodByName(w) ==
  /\ pc[w] = "chmod"
  /\ LET p == job[w].dstPath
     IN  \/ /\ LstatErrno(p) = "ok" /\ KindAt(p) # "symlink"
            /\ Goto(w, "close", job[w])
            /\ inode' = [inode EXCEPT ![entry[p]].mode = job[w].mode]
            /\ UNCHANGED <<entry, guestOps>>
         \/ /\ LstatErrno(p) # "ok" \/ KindAt(p) = "symlink"
            /\ Step(w, "close", [job[w] EXCEPT !.err = Raw("ENOENT")])

Chmod(w) ==
  /\ pc[w] = "chmod"
  /\ \/ /\ Goto(w, "close", job[w])
        /\ inode' = [inode EXCEPT ![w].mode = job[w].mode]
        /\ UNCHANGED <<entry, guestOps>>
     \/ "chmod" \in Faults /\ Step(w, "close", [job[w] EXCEPT !.err = Raw("EPERM")])

\* Close, mutated: cleanup is cleared after the clone, before the chmod.
CloseKeepingClone(w) ==
  /\ pc[w] = "close"
  /\ LET cleanup == job[w].err \notin {nil, Raw("EPERM")}
     IN  Step(w, IF cleanup THEN "remove" ELSE "done", job[w])

\* The deferred function.  cleanup is still set iff the clone or the chmod
\* failed: an error of Close alone is returned, and the file stays.
Close(w) ==
  /\ pc[w] = "close"
  /\ LET cleanup == job[w].err # nil
         to == IF cleanup THEN "remove" ELSE "done"
     IN  \/ Step(w, to, job[w])
         \/ /\ "close" \in Faults
            /\ Step(w, to, [job[w] EXCEPT !.err = IF cleanup THEN @ ELSE Raw("EIO")])

\* os.Remove(dstPath) removes what the name denotes now, its error is ignored.
CleanupRemove(w) ==
  /\ pc[w] = "remove"
  /\ LET p == job[w].dstPath
         possible == LstatErrno(p) = "ok" /\ Children(p) = {}
     IN  \/ /\ possible
            /\ Goto(w, "done", job[w])
            /\ entry' = [entry EXCEPT ![p] = NoInode]
            /\ UNCHANGED <<inode, guestOps>>
         \/ /\ ~possible \/ "remove" \in Faults
            /\ Step(w, "done", job[w])
-----------------------------------------------------------------------------
Ended(w) == pc[w] \in {"done", "crashed"}

\* The process dies, or is killed when the listener's process exits.
Crash(w) ==
  /\ pc[w] # "idle" /\ ~Ended(w)
  /\ crashes < MaxCrashes
  /\ crashes' = crashes + 1
  /\ pc' = [pc EXCEPT ![w] = "crashed"]
  /\ UNCHANGED <<job, entry, inode, guestOps>>

WorkerStep(w) ==
  \/ Start(w) \/ JoinSrc(w) \/ ComponentsSrc(w) \/ LstatSrc(w)
  \/ JoinDst(w) \/ ComponentsDst(w) \/ LstatDst(w) \/ JoinParent(w) \/ LstatParent(w)
  \/ Open(w) \/ Create(w) \/ Clone(w) \/ Chmod(w) \/ Close(w) \/ CleanupRemove(w)

\* The guests go on as they like until every request has ended.
Guests ==
  /\ \E w \in Worker : ~Ended(w)
  /\ GuestNext
  /\ UNCHANGED <<pc, job, crashes>>

Finished ==
  /\ \A w \in Worker : Ended(w)
  /\ UNCHANGED vars

Next ==
  \/ Guests \/ Finished
  \/ \E w \in Worker : WorkerStep(w) \/ WriterComes(w) \/ Crash(w)

Spec == Init /\ [][Next]_vars

\* A goroutine that can take a step is scheduled, and its system calls return, but
\* for the one that waits: nobody owes it a writer.
FairSpec == Spec /\ \A w \in Worker : WF_vars(WorkerStep(w))
-----------------------------------------------------------------------------
(* Properties.                                                              *)

OK(w) == pc[w] = "done" /\ job[w].err = nil
Failed(w) == pc[w] = "done" /\ job[w].err # nil
Response(w) == ResponseFromError(job[w].err)

\* The variables hold what their declarations say (all of Execute's locals).
TypeOK ==
  /\ FSTypeOK
  /\ pc \in [Worker -> PC]
  /\ job \in [Worker -> Job]
  /\ crashes \in Nat

\* A success is where it was asked for: if Execute returned nil, the request's
\* own destination path names the file this call created, and no other call's.
\* O_EXCL in Reflink, the double join in ResolveDestination and a cleanup by
\* name must all get it right.  Needs guests that leave finished files alone.
OkInPlace ==
  \A w \in Worker : OK(w) => /\ job[w].dstPath = job[w].dst
                            /\ entry[job[w].dst] = w

\* A success is a copy.  A source that has been in its place all along is carried
\* over whole, content and mode, although type, mode, path and content are read by
\* four system calls.  A source that is only being made, by another request or by
\* a guest, may be taken for what its name denoted before: the mode may be that of
\* another file, but the content is nothing or everything of the one that was open.
OkIsCopy ==
  \A w \in Worker : OK(w) =>
    LET s == inode[job[w].fd]
        d == inode[w]
    IN  IF job[w].src \in Path /\ InitEntry[job[w].src] = job[w].fd
        THEN d.content = s.content /\ d.mode = s.mode
        ELSE d.content \in {Empty, s.content}

\* A refused or failed request leaves no file behind, as long as guests keep still
\* (one may have moved or linked it): the deferred cleanup of Reflink, on every
\* error path.
FailLeavesNothing ==
  guestOps = 0 => \A w \in Worker : Failed(w) => \A p \in Path : entry[p] # w

\* A call that failed after it had created its file.
FailedLate(w) ==
  /\ Failed(w)
  /\ job[w].err \in {Unsupported, Raw("EIO"), Raw("EPERM"), Raw("EISDIR"), Raw("EINVAL")}

\* EEXIST is not invented: when Execute reports that the destination exists,
\* it does, or it belonged to a call for the same destination that failed and
\* cleaned up since.  Two racing calls never refuse each other.
EexistIsTruthful ==
  \A w \in Worker :
    Failed(w) /\ Response(w).code = "EEXIST" =>
      \/ KindAt(job[w].dst) # "none"
      \/ \E v \in Worker \ {w} :
           job[v].dst = job[w].dst /\ (FailedLate(v) \/ pc[v] \in {"close", "remove"})

\* What Execute promises about a request on a share that keeps still.
Acceptable(src, dst) ==
  /\ WalkErrno(src) = "ok" /\ KindAt(src) = "file" /\ Nlink(entry[src]) = 1
  /\ WalkErrno(dst) = "ok" /\ dst \in Path

\* With nobody else at work, Execute succeeds on exactly the requests that name
\* a regular file with one link, reached through no symlink, and a free name in
\* an existing directory, however the paths were spelled.
VerdictIsRight ==
  \A w \in Worker : pc[w] = "done" =>
    (job[w].err = nil <=> /\ Acceptable(job[w].src, job[w].dst)
                          /\ entry[job[w].dst] \in {NoInode, w})

\* With nobody else at work, the answer blames the right path, although errors are
\* coded far from where they arise (RejectSymlinkComponents, CodeFromError): the source
\* is missing if that is said, or the destination lies below what is no directory, for
\* ENOTDIR is filed with ENOENT; and the destination is blamed after the source was
\* found good.
BlameIsRight ==
  \A w \in Worker : pc[w] = "done" =>
    LET said == Response(w).msg
        src == job[w].src
        dst == job[w].dst
    IN  /\ said = "source not found" =>
             LstatErrno(src) \in {"ENOENT", "ENOTDIR"} \/ LstatErrno(dst) = "ENOTDIR"
        /\ said = "destination already exists" => KindAt(dst) # "none"
        /\ said = "destination parent does not exist" => LstatErrno(Dir(dst)) = "ENOENT"
        /\ said \in {"destination already exists", "destination parent does not exist"} =>
             WalkErrno(src) = "ok" /\ KindAt(src) = "file" /\ Nlink(entry[src]) = 1

\* The daemon never changes a file it did not create, and each call only its
\* own: a step that is not a guest's leaves every other inode alone, whatever
\* guests do to the names (Reflink writes through descriptors, dst.Chmod too).
WritesOnlyOwnFile ==
  [][guestOps' = guestOps =>
       \A i \in Inode : inode'[i] # inode[i] =>
         i \in Worker /\ pc[i] \in {"create", "clone", "chmod"} /\ pc'[i] # pc[i]]_vars

\* The daemon gives a name only to its own new file and takes away only a name
\* of a file it created and failed to fill (os.Remove(dstPath) in Reflink).
RemovesOnlyOwn ==
  [][guestOps' = guestOps =>
       \A p \in Path : entry'[p] # entry[p] =>
         \/ entry[p] = NoInode /\ entry'[p] \in Worker
         \/ /\ entry[p] \in Worker /\ entry'[p] = NoInode
            /\ pc[entry[p]] = "remove" /\ pc'[entry[p]] = "done"]_vars

\* Every request that was taken up is answered, unless its process dies, or it has come
\* to wait in os.Open, where nothing in the code limits the time it may take.
EveryRequestEnds ==
  \A w \in Worker : pc[w] # "idle" ~> Ended(w) \/ pc[w] = "waiting"

\* What a request can come to wait for was not there to begin with: a FIFO that has
\* been the source all along is refused by RequireRegularFile, three system calls
\* and two walks before os.Open would hang on it.  Needs guests that do not take
\* it away and put it back.
WaitsForNewcomer ==
  \A w \in Worker :
    pc[w] = "waiting" /\ job[w].src \in Path => InitEntry[job[w].src] # job[w].fd
-----------------------------------------------------------------------------
(* The contract of ExclusiveCreate, seen in the share and the workers.      *)

Target == Path \cup {<< >>} \cup {NormalizeRelative(r.dst).rel : r \in Request}

\* A name denotes a call's file if the call created it there.
OwnerOf(t) ==
  IF KindAt(t) = "none" THEN "nobody"
  ELSE IF t # << >> /\ entry[t] \in Worker /\ job[entry[t]].dst = t THEN entry[t]
  ELSE "foreign"

PhaseOf(w) ==
  CASE pc[w] = "idle"    -> "idle"
    [] pc[w] = "crashed" -> "dead"
    [] pc[w] \in {"clone", "chmod", "close", "remove"} -> "holding"
    [] OK(w)             -> "ok"
    [] Failed(w)         -> IF Response(w).code = "EEXIST" THEN "exists" ELSE "failed"
    [] OTHER             -> "busy"

Contract == INSTANCE ExclusiveCreate WITH
  Call <- Worker, Nobody <- "nobody", Foreign <- "foreign",
  owner <- [t \in Target |-> OwnerOf(t)],
  phase <- [w \in Worker |-> PhaseOf(w)],
  goal <- [w \in Worker |-> job[w].dst]

\* Execute keeps the contract of ExclusiveCreate, step by step, whatever fails
\* and however calls and guests interleave: the claim is O_EXCL in Reflink, it
\* is given back only by the cleanup, and "destination already exists" is said
\* at a moment when it does.  Needs guests that take no names away.
ImplementsContract == Contract!ServiceSpec
-----------------------------------------------------------------------------
(* Inductive invariants.                                                    *)

\* What the types rest on: a link names a target, the source path has a last
\* name once it was found to be a regular file, and what is open is an inode.
LocalsOK ==
  /\ \A i \in Inode : inode[i].kind = "symlink" => inode[i].target \in LinkTarget
  /\ \A w \in Worker :
       /\ pc[w] \in {"joinDst", "componentsDst", "lstatDst", "joinParent", "lstatParent",
                    "open"} => job[w].srcPath # << >>
       /\ pc[w] \in {"waiting", "create", "clone"} => job[w].fd \in Inode

TypeInv == TypeOK /\ LocalsOK

\* The share is a tree, entries name inodes in use, workers create files.
TreeOK ==
  /\ \A p \in Path : entry[p] # NoInode =>
       /\ inode[entry[p]].kind # "free"
       /\ \A n \in 1 .. Len(p) - 1 : KindAt(Prefix(p, n)) = "dir"
  /\ \A w \in Worker : inode[w].kind \in {"free", "file"}

\* A symlink among the prefixes of p whose length is in S.
LinkAmong(p, S) == \E n \in S : KindAt(Prefix(p, n)) = "symlink"

\* While a call is on its way to the destination, the path SecureJoin made of it
\* is the request's own, or a symlink that led it astray is still ahead of the
\* loop that rejects symlinks.
OnTheWay(w) ==
  /\ pc[w] \in {"componentsSrc", "lstatSrc"} => job[w].cur = << >>
  /\ pc[w] = "lstatSrc" => job[w].k = 0
  /\ pc[w] = "joinDst" =>
       /\ job[w].k <= Len(job[w].dst)
       /\ \/ job[w].cur = Prefix(job[w].dst, job[w].k)
          \/ LinkAmong(job[w].dst, 1 .. job[w].k)
  /\ pc[w] = "componentsDst" =>
       \/ job[w].dstPath = job[w].dst
       \/ LinkAmong(job[w].dst, job[w].k + 1 .. Len(job[w].dst))

Holding(w) == pc[w] \in {"clone", "chmod", "close", "remove"} \/ OK(w)

\* From there on the path is settled, and from create to the end the name
\* denotes the file this call created.
AtDestination(w) ==
  /\ pc[w] \in {"lstatDst", "joinParent", "lstatParent", "open", "waiting", "create"}
     \/ Holding(w) => job[w].dstPath = job[w].dst
  /\ Holding(w) => job[w].dst \in Path /\ entry[job[w].dst] = w
  /\ pc[w] = "remove" => job[w].err # nil

InPlaceInv == TypeInv /\ TreeOK /\ \A w \in Worker : OnTheWay(w) /\ AtDestination(w)
=============================================================================
