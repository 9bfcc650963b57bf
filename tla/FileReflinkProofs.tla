------------------------- MODULE FileReflinkProofs -------------------------
(***************************************************************************)
(* Proofs about FileReflink, for any share, any number of workers and any    *)
(* requests.  First the invariant of a call and the steps that take nothing  *)
(* away; then that FileReflink implements ExclusiveCreate, tells the truth   *)
(* about EEXIST, leaves nothing behind and copies what it says it copied;    *)
(* and last that a request that is alone gets the verdict and the blame it   *)
(* should.                                                                  *)
(***************************************************************************)
EXTENDS FileReflink, SequenceTheorems, Induction

-----------------------------------------------------------------------------
(* The operators of HostFS and of FileReflink keep to their types.          *)

LEMMA ErrorType ==
  /\ nil \in Error
  /\ \A errno \in Errno : Raw(errno) \in Error
  /\ \A code \in Code, msg \in Message : NewError(code, msg) \in Error
BY DEF nil, Error, Raw, NewError

LEMMA ErrnoType ==
  ASSUME NEW p
  PROVE  /\ LstatErrno(p) \in Errno \cup {"ok"}
         /\ CreateErrno(p) \in Errno \cup {"ok"}
         /\ OpenErrno(p) \in Errno \cup {"ok"}
<1>1. ASSUME NEW q PROVE WalkErrno(q) \in Errno \cup {"ok"}
  BY DEF WalkErrno, Errno
<1>2. ASSUME NEW q PROVE LstatErrno(q) \in Errno \cup {"ok"}
  BY <1>1 DEF LstatErrno, Errno
<1>3. CreateErrno(p) \in Errno \cup {"ok"}
  BY <1>1 DEF CreateErrno, Errno
<1>4. OpenErrno(p) \in Errno \cup {"ok"}
  BY <1>2 DEF OpenErrno
<1> QED
  BY <1>2, <1>3, <1>4

LEMMA PathType ==
  /\ Path \subseteq RelPath
  /\ << >> \in RelPath
  /\ \A p \in RelPath, n \in Nat : n <= Len(p) => Prefix(p, n) \in RelPath
  /\ \A p \in RelPath : Dir(p) \in RelPath
  /\ \A p \in RelPath, n \in Nat : n < Len(p) => p[n + 1] \in Name
  /\ \A p \in RelPath, x \in Name : Append(p, x) \in RelPath
BY PathAssumption DEF RelPath, Prefix, Dir

\* What a name that is there denotes.
LEMMA KindAtPath ==
  ASSUME FSTypeOK, NEW p, p # << >>, KindAt(p) # "none"
  PROVE  /\ p \in Path
         /\ entry[p] \in Inode
         /\ inode[entry[p]] \in Node
         /\ KindAt(p) = inode[entry[p]].kind
BY DEF FSTypeOK, KindAt

LEMMA FollowType ==
  ASSUME FSTypeOK, NEW p \in RelPath
  PROVE  Follow(p) \in RelPath
BY KindAtPath, PathType DEF Follow, KindAt, Node
-----------------------------------------------------------------------------
(* The type invariant.                                                      *)

\* What a worker must respect when it moves to `to` with the variables j.
Fits(to, j) ==
  /\ to \in PC
  /\ j \in Job
  /\ to \in {"joinDst", "componentsDst", "lstatDst", "joinParent", "lstatParent", "open"}
       => j.srcPath # << >>
  /\ to \in {"waiting", "create", "clone"} => j.fd \in Inode

LEMMA GotoType ==
  ASSUME TypeInv, NEW w \in Worker, NEW to, NEW j, Fits(to, j), Goto(w, to, j),
         FSTypeOK',
         \A i \in Inode : inode'[i].kind = "symlink" => inode'[i].target \in LinkTarget
  PROVE  TypeInv'
<1>1. TypeOK'
  BY DEF TypeInv, TypeOK, Goto, Fits
<1>2. LocalsOK'
  <2>. SUFFICES ASSUME NEW v \in Worker
       PROVE  /\ pc'[v] \in {"joinDst", "componentsDst", "lstatDst", "joinParent",
                             "lstatParent", "open"} => job'[v].srcPath # << >>
              /\ pc'[v] \in {"waiting", "create", "clone"} => job'[v].fd \in Inode
    BY DEF LocalsOK
  <2>1. CASE v = w
    BY <2>1 DEF TypeInv, TypeOK, Goto, Fits
  <2>2. CASE v # w
    BY <2>2 DEF TypeInv, TypeOK, LocalsOK, Goto
  <2> QED
    BY <2>1, <2>2
<1> QED
  BY <1>1, <1>2 DEF TypeInv

LEMMA StepType ==
  ASSUME TypeInv, NEW w \in Worker, NEW to, NEW j, Fits(to, j), Step(w, to, j)
  PROVE  TypeInv'
<1>1. FSTypeOK' /\ \A i \in Inode : inode'[i].kind = "symlink" => inode'[i].target \in LinkTarget
  BY DEF TypeInv, TypeOK, LocalsOK, FSTypeOK, Step, fsvars
<1> QED
  BY <1>1, GotoType DEF Step

LEMMA FailType ==
  ASSUME TypeInv, NEW w \in Worker, NEW e \in Error, Fail(w, e)
  PROVE  TypeInv'
<1>1. [job[w] EXCEPT !.err = e] \in Job
  BY DEF TypeInv, TypeOK, Job
<1> QED
  BY <1>1, StepType DEF Fail, Fits, PC

LEMMA JobUpdate ==
  ASSUME NEW x \in Job, NEW k \in Nat, NEW c \in RelPath, NEW p \in RelPath
  PROVE  /\ [x EXCEPT !.k = k, !.cur = c] \in Job
         /\ [x EXCEPT !.k = k, !.cur = c].srcPath = x.srcPath
         /\ [x EXCEPT !.k = k] \in Job
         /\ [x EXCEPT !.k = k].srcPath = x.srcPath
         /\ [x EXCEPT !.k = k, !.cur = c, !.srcPath = p] \in Job
         /\ [x EXCEPT !.k = k, !.cur = c, !.dstPath = p] \in Job
         /\ [x EXCEPT !.k = k, !.cur = c, !.dstPath = p].srcPath = x.srcPath
BY DEF Job

LEMMA JoinStepType ==
  ASSUME TypeInv, NEW w \in Worker, NEW rel \in RelPath, JoinStep(w, rel),
         pc[w] \in {"joinSrc", "joinDst", "joinParent"}
  PROVE  TypeInv'
<1>. DEFINE c == Follow(Append(job[w].cur, rel[job[w].k + 1]))
            j == [job[w] EXCEPT !.k = @ + 1, !.cur = c]
<1>1. job[w] \in Job /\ FSTypeOK
  BY DEF TypeInv, TypeOK
<1>2. c \in RelPath
  <2>1. job[w].k \in Nat /\ job[w].cur \in RelPath /\ job[w].k < Len(rel)
    BY <1>1 DEF JoinStep, Job
  <2>2. rel[job[w].k + 1] \in Name
    BY <2>1, PathType
  <2>3. Append(job[w].cur, rel[job[w].k + 1]) \in RelPath
    BY <2>1, <2>2, PathType
  <2> QED
    BY <1>1, <2>3, FollowType
<1>3. \/ Step(w, pc[w], j)
      \/ Fail(w, NewError("EPERM", "path must stay within the shared root"))
  BY DEF JoinStep
<1>. HIDE DEF c
<1>4. j \in Job /\ j.srcPath = job[w].srcPath
  <2>1. job[w].k + 1 \in Nat
    BY <1>1 DEF Job
  <2> QED
    BY <1>1, <1>2, <2>1, JobUpdate
<1>5. Fits(pc[w], j)
  BY <1>4 DEF Fits, PC, TypeInv, LocalsOK
<1>6. NewError("EPERM", "path must stay within the shared root") \in Error
  BY ErrorType DEF Code, Message
<1>. HIDE DEF j
<1> QED
  BY <1>3, <1>5, <1>6, StepType, FailType

LEMMA ComponentsType ==
  ASSUME TypeInv, NEW w \in Worker, NEW rel \in RelPath, NEW allowMissingLeaf \in BOOLEAN,
         NEW msg \in Message, NEW to,
         RejectSymlinkComponents(w, rel, allowMissingLeaf, msg, to),
         \/ pc[w] = "componentsSrc" /\ to = "lstatSrc"
         \/ pc[w] = "componentsDst" /\ to = "lstatDst"
  PROVE  TypeInv'
<1>. DEFINE p == Prefix(rel, job[w].k + 1)
            next == [job[w] EXCEPT !.k = 0]
            more == [job[w] EXCEPT !.k = @ + 1]
<1>1. job[w] \in Job
  BY DEF TypeInv, TypeOK
<1>2. next \in Job /\ next.srcPath = job[w].srcPath
  BY <1>1 DEF Job
<1>3. more \in Job /\ more.srcPath = job[w].srcPath
  BY <1>1 DEF Job
<1>4. Fits(to, next) /\ Fits(pc[w], more)
  BY <1>2, <1>3 DEF Fits, PC, TypeInv, LocalsOK
<1>5. \/ Step(w, to, next)
      \/ Step(w, pc[w], more)
      \/ Fail(w, NewError("EINVAL", "symlinks are not supported"))
      \/ Fail(w, NewError("ENOENT", msg))
      \/ LstatErrno(p) # "ok" /\ Fail(w, Raw(LstatErrno(p)))
      \/ Fail(w, Raw("EACCES"))
  BY DEF RejectSymlinkComponents
<1>6. (LstatErrno(p) # "ok" => Raw(LstatErrno(p)) \in Error) /\ Raw("EACCES") \in Error
  BY ErrnoType, ErrorType DEF Errno
<1>7. /\ NewError("EINVAL", "symlinks are not supported") \in Error
      /\ NewError("ENOENT", msg) \in Error
  BY ErrorType DEF Code, Message
<1>. HIDE DEF p, next, more
<1> QED
  BY <1>4, <1>5, <1>6, <1>7, StepType, FailType

LEMMA InitType == Init => TypeInv
<1>. SUFFICES ASSUME Init PROVE TypeInv
  OBVIOUS
<1>1. FSTypeOK
  BY InitAssumption DEF Init, FSInit, FSTypeOK
<1>2. NoJob \in Job
  BY WorkerAssumption, PathType, ErrorType DEF NoJob, Job
<1>3. TypeOK
  BY <1>1, <1>2 DEF Init, TypeOK, PC
<1>4. LocalsOK
  BY InitAssumption DEF Init, FSInit, LocalsOK
<1> QED
  BY <1>3, <1>4 DEF TypeInv

LEMMA GuestsType ==
  ASSUME TypeInv, Guests
  PROVE  TypeInv'
<1>. /\ FSTypeOK
     /\ \A i \in Inode : inode[i].kind = "symlink" => inode[i].target \in LinkTarget
  BY DEF TypeInv, TypeOK, LocalsOK
<1>1. FSTypeOK' /\ \A i \in Inode : inode'[i].kind = "symlink" => inode'[i].target \in LinkTarget
  <2>1. ASSUME NEW p \in Path, NEW i \in GuestInode, NEW k \in Kind, NEW c \in Content,
               NEW m \in Mode, GuestCreate(p, i, k, c, m)
        PROVE  /\ FSTypeOK'
               /\ \A j \in Inode : inode'[j].kind = "symlink" => inode'[j].target \in LinkTarget
    BY <2>1, InodeAssumption, PathAssumption DEF GuestCreate, GuestStep, FSTypeOK, Node, Kind
  <2>2. ASSUME NEW p \in Path, NEW c \in Content, GuestWrite(p, c)
        PROVE  /\ FSTypeOK'
               /\ \A j \in Inode : inode'[j].kind = "symlink" => inode'[j].target \in LinkTarget
    <3>1. entry[p] \in Inode
      BY <2>2, PathAssumption, KindAtPath DEF GuestWrite
    <3> QED
      BY <2>2, <3>1 DEF GuestWrite, GuestStep, FSTypeOK, Node
  <2>3. ASSUME NEW p \in Path, GuestUnlink(p)
        PROVE  /\ FSTypeOK'
               /\ \A j \in Inode : inode'[j].kind = "symlink" => inode'[j].target \in LinkTarget
    BY <2>3 DEF GuestUnlink, GuestStep, FSTypeOK
  <2>4. ASSUME NEW p \in Path, NEW q \in Path, GuestRename(p, q)
        PROVE  /\ FSTypeOK'
               /\ \A j \in Inode : inode'[j].kind = "symlink" => inode'[j].target \in LinkTarget
    BY <2>4 DEF GuestRename, GuestStep, FSTypeOK
  <2>5. ASSUME NEW p \in Path, NEW q \in Path, GuestLink(p, q)
        PROVE  /\ FSTypeOK'
               /\ \A j \in Inode : inode'[j].kind = "symlink" => inode'[j].target \in LinkTarget
    BY <2>5 DEF GuestLink, GuestStep, FSTypeOK
  <2> QED
    BY <2>1, <2>2, <2>3, <2>4, <2>5 DEF Guests, GuestNext
<1> QED
  BY <1>1 DEF Guests, TypeInv, TypeOK, LocalsOK

LEMMA StartType ==
  ASSUME TypeInv, NEW w \in Worker, Start(w)
  PROVE  TypeInv'
<1>1. PICK r \in Request :
        Step(w, IF ValidateRequest(r) = nil THEN "joinSrc" ELSE "done",
             [job[w] EXCEPT !.src = NormalizeRelative(r.src).rel,
                            !.dst = NormalizeRelative(r.dst).rel, !.err = ValidateRequest(r)])
  BY DEF Start
<1>2. [job[w] EXCEPT !.src = NormalizeRelative(r.src).rel,
                     !.dst = NormalizeRelative(r.dst).rel, !.err = ValidateRequest(r)] \in Job
  <2>1. ASSUME NEW x \in Job, NEW s \in RelPath, NEW d \in RelPath, NEW e \in Error
        PROVE  [x EXCEPT !.src = s, !.dst = d, !.err = e] \in Job
    BY DEF Job
  <2>2. job[w] \in Job
    BY DEF TypeInv, TypeOK
  <2> QED
    BY <2>1, <2>2, RequestAssumption
<1> QED
  BY <1>1, <1>2, StepType DEF Fits, PC

LEMMA ResolveType ==
  ASSUME TypeInv, NEW w \in Worker,
         \/ JoinSrc(w) \/ ComponentsSrc(w) \/ LstatSrc(w)
         \/ JoinDst(w) \/ ComponentsDst(w) \/ LstatDst(w)
         \/ JoinParent(w) \/ LstatParent(w)
  PROVE  TypeInv'
<1>1. job[w] \in Job /\ FSTypeOK
  BY DEF TypeInv, TypeOK
<1>2. /\ job[w].src \in RelPath /\ job[w].dst \in RelPath /\ job[w].cur \in RelPath
      /\ Dir(job[w].dst) \in RelPath
  BY <1>1, PathType DEF Job
<1>3. ASSUME NEW e \in Errno \cup {"ok"}, e # "ok", Fail(w, Raw(e))
      PROVE  TypeInv'
  BY <1>3, ErrorType, FailType
<1>4. ASSUME NEW code \in Code, NEW msg \in Message, Fail(w, NewError(code, msg))
      PROVE  TypeInv'
  BY <1>4, ErrorType, FailType
<1>13. "EACCES" \in Errno
  BY DEF Errno
<1>5. CASE JoinSrc(w)
  <2>1. CASE JoinStep(w, job[w].src)
    BY <1>2, <1>5, <2>1, JoinStepType DEF JoinSrc
  <2>2. CASE Step(w, "componentsSrc",
                  [job[w] EXCEPT !.k = 0, !.cur = << >>, !.srcPath = job[w].cur])
    BY <1>1, <1>2, <2>2, PathType, JobUpdate, StepType DEF Fits, PC
  <2> QED
    BY <1>5, <2>1, <2>2 DEF JoinSrc
<1>6. CASE JoinDst(w)
  <2>1. CASE JoinStep(w, job[w].dst)
    BY <1>2, <1>6, <2>1, JoinStepType DEF JoinDst
  <2>2. CASE Step(w, "componentsDst",
                  [job[w] EXCEPT !.k = 0, !.cur = << >>, !.dstPath = job[w].cur])
    <3>1. job[w].srcPath # << >>
      BY <1>6 DEF JoinDst, TypeInv, LocalsOK
    <3>. DEFINE j == [job[w] EXCEPT !.k = 0, !.cur = << >>, !.dstPath = job[w].cur]
    <3>2. j \in Job /\ j.srcPath = job[w].srcPath
      BY <1>1, <1>2, PathType DEF Job
    <3>3. Fits("componentsDst", j)
      BY <3>1, <3>2 DEF Fits, PC
    <3> QED
      BY <2>2, <3>3, StepType
  <2> QED
    BY <1>6, <2>1, <2>2 DEF JoinDst
<1>7. CASE ComponentsSrc(w)
  BY <1>2, <1>7, ComponentsType DEF ComponentsSrc, Message
<1>8. CASE ComponentsDst(w)
  BY <1>2, <1>8, ComponentsType DEF ComponentsDst, Message
<1>9. CASE LstatSrc(w)
  <2>1. CASE LstatErrno(job[w].srcPath) # "ok"
    BY <1>3, <1>4, <1>9, <1>13, <2>1, ErrnoType DEF LstatSrc, Code, Message
  <2>2. CASE LstatErrno(job[w].srcPath) = "ok" /\ KindAt(job[w].srcPath) # "file"
    <3>. DEFINE msg == IF KindAt(job[w].srcPath) = "symlink" THEN "symlinks are not supported"
                       ELSE "source must be a regular file"
    <3>1. Fail(w, NewError("EINVAL", msg)) \/ Fail(w, Raw("EACCES"))
      BY <1>9, <2>2 DEF LstatSrc
    <3>2. msg \in Message
      BY DEF Message
    <3> QED
      BY <1>3, <1>4, <1>13, <3>1, <3>2 DEF Code
  <2>3. CASE Fail(w, NewError("EINVAL", "hard links are not supported"))
    BY <1>4, <2>3 DEF Code, Message
  <2>5. CASE Fail(w, Raw("EACCES"))
    BY <1>3, <1>13, <2>5
  <2>4. CASE /\ KindAt(job[w].srcPath) = "file"
             /\ Step(w, "joinDst",
                     [job[w] EXCEPT !.mode = inode[entry[job[w].srcPath]].mode])
    <3>1. job[w].srcPath # << >>
      BY <2>4 DEF KindAt
    <3>2. inode[entry[job[w].srcPath]].mode \in Mode
      BY <1>1, <2>4, <3>1, KindAtPath DEF Node
    <3>3. ASSUME NEW x \in Job, NEW m \in Mode
          PROVE  [x EXCEPT !.mode = m] \in Job /\ [x EXCEPT !.mode = m].srcPath = x.srcPath
      BY DEF Job
    <3> QED
      BY <1>1, <2>4, <3>1, <3>2, <3>3, StepType DEF Fits, PC
  <2> QED
    BY <1>9, <2>1, <2>2, <2>3, <2>4, <2>5 DEF LstatSrc
<1>10. CASE LstatDst(w)
  <2>1. pc[w] = "lstatDst" => Fits("joinParent", job[w])
    BY <1>1 DEF Fits, PC, TypeInv, LocalsOK
  <2> QED
    BY <1>3, <1>4, <1>10, <1>13, <2>1, ErrnoType, StepType DEF LstatDst, Code, Message
<1>11. CASE JoinParent(w)
  <2>1. CASE JoinStep(w, Dir(job[w].dst))
    BY <1>2, <1>11, <2>1, JoinStepType DEF JoinParent
  <2>2. CASE Step(w, "lstatParent", [job[w] EXCEPT !.k = 0])
    <3>1. job[w].srcPath # << >>
      BY <1>11 DEF JoinParent, TypeInv, LocalsOK
    <3> QED
      BY <1>1, <1>2, <2>2, <3>1, JobUpdate, StepType DEF Fits, PC
  <2> QED
    BY <1>11, <2>1, <2>2 DEF JoinParent
<1>12. CASE LstatParent(w)
  <2>1. pc[w] = "lstatParent" => Fits("open", job[w])
    BY <1>1 DEF Fits, PC, TypeInv, LocalsOK
  <2> QED
    BY <1>3, <1>4, <1>12, <1>13, <2>1, ErrnoType, StepType DEF LstatParent, Code, Message
<1> QED
  BY <1>5, <1>6, <1>7, <1>8, <1>9, <1>10, <1>11, <1>12

LEMMA ReflinkType ==
  ASSUME TypeInv, NEW w \in Worker,
         \/ Open(w) \/ WriterComes(w)
         \/ Create(w) \/ Clone(w) \/ Chmod(w) \/ Close(w) \/ CleanupRemove(w)
  PROVE  TypeInv'
<1>1. job[w] \in Job /\ FSTypeOK /\ w \in Inode
  BY WorkerAssumption DEF TypeInv, TypeOK
<1>2. \A i \in Inode : inode[i].kind = "symlink" => inode[i].target \in LinkTarget
  BY DEF TypeInv, LocalsOK
<1>3. ASSUME NEW e \in Error
      PROVE  /\ [job[w] EXCEPT !.err = e] \in Job
             /\ Fits("close", [job[w] EXCEPT !.err = e])
             /\ Fits("done", [job[w] EXCEPT !.err = e])
             /\ Fits("remove", [job[w] EXCEPT !.err = e])
  <2>1. ASSUME NEW x \in Job PROVE [x EXCEPT !.err = e] \in Job
    BY DEF Job
  <2> QED
    BY <1>1, <2>1 DEF Fits, PC
<1>4. Fits("chmod", job[w]) /\ Fits("close", job[w]) /\ Fits("done", job[w])
      /\ Fits("remove", job[w])
  BY <1>1 DEF Fits, PC
<1>5. \A errno \in Errno : Raw(errno) \in Error
  BY ErrorType
<1>6. CASE Open(w)
  <2>1. ASSUME OpenErrno(job[w].srcPath) = "ok", NEW to \in {"waiting", "create"},
               Step(w, to, [job[w] EXCEPT !.fd = entry[Follow(job[w].srcPath)]])
        PROVE  TypeInv'
    <3>. DEFINE p == job[w].srcPath
    <3>1. p # << >> /\ KindAt(p) # "none"
      BY <1>6, <2>1 DEF Open, OpenErrno, LstatErrno, TypeInv, LocalsOK, TypeOK
    <3>2. Follow(p) # << >> /\ KindAt(Follow(p)) # "none"
      BY <1>1, <1>2, <2>1, <3>1, KindAtPath, PathAssumption DEF OpenErrno, LstatErrno, Follow
    <3>3. entry[Follow(p)] \in Inode
      BY <1>1, <3>2, KindAtPath
    <3>4. ASSUME NEW x \in Job, NEW i \in Inode
          PROVE  [x EXCEPT !.fd = i] \in Job /\ [x EXCEPT !.fd = i].fd = i
      BY DEF Job
    <3>5. Fits(to, [job[w] EXCEPT !.fd = entry[Follow(p)]])
      BY <1>1, <3>3, <3>4 DEF Fits, PC
    <3> QED
      BY <2>1, <3>5, StepType
  <2>2. CASE OpenErrno(job[w].srcPath) # "ok" /\ Fail(w, Raw(OpenErrno(job[w].srcPath)))
    BY <1>5, <2>2, ErrnoType, FailType
  <2>3. CASE Fail(w, Raw("EACCES")) \/ Fail(w, Raw("ENXIO"))
    BY <1>5, <2>3, FailType DEF Errno
  <2> QED
    BY <1>6, <2>1, <2>2, <2>3 DEF Open
<1>12. CASE WriterComes(w)
  <2>1. Fits("create", job[w])
    BY <1>1, <1>12 DEF Fits, PC, WriterComes, TypeInv, LocalsOK
  <2> QED
    BY <1>12, <2>1, StepType DEF WriterComes
<1>7. CASE Create(w)
  <2>1. CASE /\ CreateErrno(job[w].dstPath) = "ok"
             /\ Goto(w, "clone", job[w])
             /\ entry' = [entry EXCEPT ![job[w].dstPath] = w]
             /\ inode' = [inode EXCEPT ![w] = [kind |-> "file", content |-> Empty,
                                               mode |-> Masked[job[w].mode], target |-> << >>]]
             /\ UNCHANGED guestOps
    <3>1. Masked[job[w].mode] \in Mode
      BY <1>1, InitAssumption DEF Job
    <3>2. FSTypeOK' /\ \A i \in Inode : inode'[i].kind = "symlink" => inode'[i].target \in LinkTarget
      BY <1>1, <1>2, <2>1, <3>1 DEF FSTypeOK, Node, Kind
    <3>3. Fits("clone", job[w])
      BY <1>1, <1>7 DEF Fits, PC, Create, TypeInv, LocalsOK
    <3> QED
      BY <2>1, <3>2, <3>3, GotoType
  <2>2. CASE CreateErrno(job[w].dstPath) # "ok" /\ Fail(w, Raw(CreateErrno(job[w].dstPath)))
    BY <1>5, <2>2, ErrnoType, FailType
  <2>3. CASE Fail(w, Raw("EACCES"))
    BY <1>5, <2>3, FailType DEF Errno
  <2> QED
    BY <1>7, <2>1, <2>2, <2>3 DEF Create, NewFile
<1>8. CASE Clone(w)
  <2>1. CASE /\ Goto(w, "chmod", job[w])
             /\ inode' = [inode EXCEPT ![w].content = inode[job[w].fd].content]
             /\ UNCHANGED <<entry, guestOps>>
    <3>1. inode[job[w].fd].content \in Content \cup {Empty}
      BY <1>1, <1>8 DEF Clone, TypeInv, LocalsOK, FSTypeOK, Node
    <3>2. FSTypeOK' /\ \A i \in Inode : inode'[i].kind = "symlink" => inode'[i].target \in LinkTarget
      BY <1>1, <1>2, <2>1, <3>1 DEF FSTypeOK, Node
    <3> QED
      BY <1>4, <2>1, <3>2, GotoType
  <2>2. ASSUME NEW e \in {"EISDIR", "EINVAL"},
               Step(w, "close", [job[w] EXCEPT !.err = Raw(e)])
        PROVE  TypeInv'
    BY <1>3, <1>5, <2>2, StepType DEF Errno
  <2>3. ASSUME NEW e \in {Unsupported, Raw("EIO")},
               Step(w, "close", [job[w] EXCEPT !.err = e])
        PROVE  TypeInv'
    BY <1>3, <1>5, <2>3, ErrorType, StepType DEF Unsupported, Code, Message, Errno
  <2> QED
    BY <1>8, <2>1, <2>2, <2>3 DEF Clone
<1>9. CASE Chmod(w)
  <2>1. CASE /\ Goto(w, "close", job[w])
             /\ inode' = [inode EXCEPT ![w].mode = job[w].mode]
             /\ UNCHANGED <<entry, guestOps>>
    <3>1. FSTypeOK' /\ \A i \in Inode : inode'[i].kind = "symlink" => inode'[i].target \in LinkTarget
      BY <1>1, <1>2, <2>1 DEF FSTypeOK, Node, Job
    <3> QED
      BY <1>4, <2>1, <3>1, GotoType
  <2>2. CASE Step(w, "close", [job[w] EXCEPT !.err = Raw("EPERM")])
    BY <1>3, <1>5, <2>2, StepType DEF Errno
  <2> QED
    BY <1>9, <2>1, <2>2 DEF Chmod
<1>10. CASE Close(w)
  <2>1. ASSUME NEW e \in Error, NEW to \in {"remove", "done"},
               Step(w, to, [job[w] EXCEPT !.err = e])
        PROVE  TypeInv'
    BY <1>3, <2>1, StepType
  <2>2. ASSUME NEW to \in {"remove", "done"}, Step(w, to, job[w])
        PROVE  TypeInv'
    BY <1>4, <2>2, StepType
  <2>3. job[w].err \in Error /\ Raw("EIO") \in Error
    BY <1>1, <1>5 DEF Job, Errno
  <2>4. CASE job[w].err = nil
    BY <1>10, <2>1, <2>2, <2>3, <2>4 DEF Close
  <2>5. CASE job[w].err # nil
    BY <1>10, <2>1, <2>2, <2>3, <2>5 DEF Close
  <2> QED
    BY <2>4, <2>5
<1>11. CASE CleanupRemove(w)
  <2>1. CASE /\ Goto(w, "done", job[w])
             /\ entry' = [entry EXCEPT ![job[w].dstPath] = NoInode]
             /\ UNCHANGED <<inode, guestOps>>
    <3>1. FSTypeOK'
      BY <1>1, <2>1 DEF FSTypeOK
    <3> QED
      BY <1>2, <1>4, <2>1, <3>1, GotoType
  <2>2. CASE Step(w, "done", job[w])
    BY <1>4, <2>2, StepType
  <2> QED
    BY <1>11, <2>1, <2>2 DEF CleanupRemove
<1> QED
  BY <1>6, <1>7, <1>8, <1>9, <1>10, <1>11, <1>12

LEMMA CrashType ==
  ASSUME TypeInv, NEW w \in Worker, Crash(w)
  PROVE  TypeInv'
<1>1. TypeOK'
  BY DEF Crash, TypeInv, TypeOK, FSTypeOK, PC
<1>2. LocalsOK'
  BY DEF Crash, TypeInv, TypeOK, LocalsOK
<1> QED
  BY <1>1, <1>2 DEF TypeInv

LEMMA NextType == TypeInv /\ [Next]_vars => TypeInv'
<1>. SUFFICES ASSUME TypeInv, [Next]_vars PROVE TypeInv'
  OBVIOUS
<1>1. CASE Guests
  BY <1>1, GuestsType
<1>2. ASSUME NEW w \in Worker, WorkerStep(w) \/ WriterComes(w) PROVE TypeInv'
  BY <1>2, StartType, ResolveType, ReflinkType DEF WorkerStep
<1>3. ASSUME NEW w \in Worker, Crash(w) PROVE TypeInv'
  BY <1>3, CrashType
<1>4. CASE UNCHANGED vars
  BY <1>4 DEF vars, TypeInv, TypeOK, LocalsOK, FSTypeOK
<1> QED
  BY <1>1, <1>2, <1>3, <1>4 DEF Next, Finished

\* The variables of the share and the locals of Service.Execute keep their types
\* on every path through it, whatever the guests do.
THEOREM TypeCorrect == Spec => []TypeOK
<1>1. TypeInv => TypeOK
  BY DEF TypeInv
<1> QED
  BY <1>1, InitType, NextType, PTL DEF Spec
-----------------------------------------------------------------------------
(* What the daemon writes.                                                  *)

LEMMA WriteStep ==
  ASSUME TypeInv, [Next]_vars, guestOps' = guestOps, NEW i \in Inode, inode'[i] # inode[i]
  PROVE  i \in Worker /\ pc[i] \in {"create", "clone", "chmod"} /\ pc'[i] # pc[i]
<1>. TypeOK /\ FSTypeOK
  BY DEF TypeInv, TypeOK
<1>1. ~Guests
  <2>1. \A op : ~GuestStep(op)
    BY DEF GuestStep, FSTypeOK
  <2> QED
    BY <2>1, Zenon
       DEF Guests, GuestNext, GuestCreate, GuestWrite, GuestUnlink, GuestRename, GuestLink
<1>2. ~UNCHANGED vars /\ \A w \in Worker : ~Crash(w)
  BY DEF vars, Crash
<1>4. \A w \in Worker : \A to, j : ~Step(w, to, j)
  BY DEF Step, fsvars
<1>3. PICK w \in Worker : WorkerStep(w)
  BY <1>1, <1>2, <1>4 DEF Next, Finished, WriterComes
<1>5. Create(w) \/ Clone(w) \/ Chmod(w)
  <2>1. \A e : ~Fail(w, e)
    BY <1>4 DEF Fail
  <2>2. \A rel : ~JoinStep(w, rel)
    BY <1>4, <2>1 DEF JoinStep
  <2>3. \A rel, b, msg, to : ~RejectSymlinkComponents(w, rel, b, msg, to)
    BY <1>4, <2>1, Zenon DEF RejectSymlinkComponents
  <2>4. ~Start(w) /\ ~JoinSrc(w) /\ ~JoinDst(w) /\ ~JoinParent(w)
    BY <1>4, <2>2 DEF Start, JoinSrc, JoinDst, JoinParent
  <2>5. ~ComponentsSrc(w) /\ ~ComponentsDst(w)
    BY <2>3 DEF ComponentsSrc, ComponentsDst
  <2>6. ~LstatSrc(w) /\ ~LstatDst(w) /\ ~LstatParent(w)
    BY <1>4, <2>1, Zenon DEF LstatSrc, LstatDst, LstatParent
  <2>7. ~Open(w) /\ ~Close(w)
    BY <1>4, <2>1, Zenon DEF Open, Close
  <2>8. ~CleanupRemove(w)
    BY <1>4 DEF CleanupRemove
  <2> QED
    BY <1>3, <2>4, <2>5, <2>6, <2>7, <2>8 DEF WorkerStep
<1>6. i = w /\ pc[w] \in {"create", "clone", "chmod"} /\ pc'[w] # pc[w]
  BY <1>4, <1>5 DEF Create, NewFile, Clone, Chmod, Fail, Goto, TypeOK, FSTypeOK
<1> QED
  BY <1>6

\* Reflink writes through the descriptor of the file it created exclusively: no
\* other file is ever changed by the daemon, whatever the guests do to the names
\* and whatever fails.
THEOREM WritesOnlyOwn == Spec => WritesOnlyOwnFile
<1>1. TypeInv /\ [Next]_vars =>
        [guestOps' = guestOps =>
           \A i \in Inode : inode'[i] # inode[i] =>
             i \in Worker /\ pc[i] \in {"create", "clone", "chmod"} /\ pc'[i] # pc[i]]_vars
  BY WriteStep
<1> QED
  BY <1>1, InitType, NextType, PTL DEF Spec, WritesOnlyOwnFile
-----------------------------------------------------------------------------
(* Where a success is.                                                      *)

\* Guests that leave the names they find alone.
NoRemoval == GuestOps \cap {"unlink", "rename"} = {}

\* A step at which no guest takes a name away: guests never do, or this is not a
\* guest's step.
Undisturbed == NoRemoval \/ guestOps' = guestOps

LEMMA PrefixFacts ==
  ASSUME NEW p \in RelPath
  PROVE  /\ Prefix(p, 0) = << >>
         /\ Prefix(p, Len(p)) = p
         /\ \A n \in Nat : n < Len(p) => Append(Prefix(p, n), p[n + 1]) = Prefix(p, n + 1)
         /\ \A n \in Nat : n < Len(p) => Prefix(Dir(p), n) = Prefix(p, n)
         /\ p # << >> => Len(Dir(p)) = Len(p) - 1
<1>. Len(p) \in Nat /\ p \in Seq(Name)
  BY DEF RelPath
<1>1. Prefix(p, 0) = << >>
  BY SubSeqEmpty DEF Prefix
<1>2. Prefix(p, Len(p)) = p
  BY SubSeqFull DEF Prefix
<1>3. ASSUME NEW n \in Nat, n < Len(p)
      PROVE  Append(Prefix(p, n), p[n + 1]) = Prefix(p, n + 1)
  <2>1. Prefix(p, n + 1) = Prefix(p, n) \o << p[n + 1] >>
    BY <1>3, SubSeqRecursiveSecond DEF Prefix
  <2>2. p[n + 1] \in Name /\ Prefix(p, n) \in Seq(Name)
    BY <1>3, PathType DEF RelPath
  <2> QED
    BY <2>1, <2>2, AppendIsConcat
<1>4. ASSUME NEW n \in Nat, n < Len(p)
      PROVE  Prefix(Dir(p), n) = Prefix(p, n)
  <2>1. CASE n = 0
    BY <2>1, <1>1, PathType, SubSeqEmpty DEF Prefix
  <2>2. CASE n # 0
    BY <1>4, <2>2, SubSeqOfSubSeq DEF Prefix, Dir
  <2> QED
    BY <2>1, <2>2
<1>5. p # << >> => Len(Dir(p)) = Len(p) - 1
  <2>. SUFFICES ASSUME p # << >> PROVE Len(Dir(p)) = Len(p) - 1
    OBVIOUS
  <2>1. Len(p) \in Nat \ {0}
    BY EmptySeq
  <2>2. ASSUME NEW m \in Nat, Len(p) = m + 1 PROVE Len(SubSeq(p, 1, m)) = m
    BY <2>2
  <2>3. Len(p) - 1 \in Nat /\ Len(p) = (Len(p) - 1) + 1
    BY <2>1
  <2> QED
    BY <2>2, <2>3 DEF Dir, Prefix
<1> QED
  BY <1>1, <1>2, <1>3, <1>4, <1>5

\* The ways a step can change the share, if guests remove nothing.
KindsKept ==
  /\ \A i \in Inode : inode[i].kind # "free" => inode'[i].kind = inode[i].kind
  /\ \A w \in Worker : inode'[w].kind \in {"free", "file"}

Adds(p, i) ==
  /\ p \in Path /\ i \in Inode
  /\ entry[p] = NoInode
  /\ entry' = [entry EXCEPT ![p] = i]
  /\ inode'[i].kind # "free"
  /\ \A n \in 1 .. Len(p) - 1 : KindAt(Prefix(p, n)) = "dir"
  /\ i \in Worker \/ guestOps' # guestOps

RemovesOwn(w) ==
  /\ pc[w] = "remove" /\ pc'[w] = "done" /\ job'[w] = job[w]
  /\ job[w].dst \in Path /\ entry[job[w].dst] = w
  /\ entry' = [entry EXCEPT ![job[w].dst] = NoInode]

ShareStep ==
  /\ KindsKept
  /\ \/ entry' = entry
     \/ \E p, i : Adds(p, i)
     \/ \E w \in Worker : RemovesOwn(w)

LEMMA TreeAbove ==
  ASSUME TypeInv, TreeOK, NEW p \in Path, KindAt(Dir(p)) = "dir"
  PROVE  \A n \in 1 .. Len(p) - 1 : KindAt(Prefix(p, n)) = "dir"
<1>. SUFFICES ASSUME NEW n \in 1 .. Len(p) - 1 PROVE KindAt(Prefix(p, n)) = "dir"
  OBVIOUS
<1>1. p \in RelPath /\ p # << >> /\ Len(p) \in Nat /\ FSTypeOK
  BY PathType, PathAssumption DEF TypeInv, TypeOK, RelPath
<1>2. CASE n = Len(p) - 1
  BY <1>2 DEF Dir
<1>3. CASE n # Len(p) - 1
  <2>1. n \in 1 .. Len(Dir(p)) - 1 /\ Prefix(Dir(p), n) = Prefix(p, n)
    BY <1>1, <1>3, PrefixFacts
  <2>2. Dir(p) # << >>
    BY <1>1, <1>3, PrefixFacts
  <2>3. Dir(p) \in Path /\ entry[Dir(p)] # NoInode
    BY <1>1, <2>2, KindAtPath DEF KindAt
  <2> QED
    BY <2>1, <2>3 DEF TreeOK
<1> QED
  BY <1>2, <1>3

LEMMA StepShare ==
  ASSUME InPlaceInv, NEW w \in Worker, NEW to, NEW j, Step(w, to, j)
  PROVE  ShareStep
BY DEF Step, fsvars, ShareStep, KindsKept, InPlaceInv, TreeOK

LEMMA GuestsShare ==
  ASSUME Undisturbed, InPlaceInv, Guests
  PROVE  ShareStep
<1>. /\ FSTypeOK /\ TypeInv /\ TreeOK
     /\ \A w \in Worker : inode[w].kind \in {"free", "file"}
     /\ \A w \in Worker : w \in Inode /\ w \notin GuestInode
  BY WorkerAssumption DEF InPlaceInv, TypeInv, TypeOK, TreeOK
<1>1. ASSUME NEW p \in Path, NEW i \in GuestInode, NEW k \in Kind, NEW c \in Content,
             NEW m \in Mode, GuestCreate(p, i, k, c, m)
      PROVE  ShareStep
  <2>1. i \in Inode /\ inode[i].kind = "free" /\ inode'[i].kind = k /\ k # "free"
    BY <1>1, InodeAssumption DEF GuestCreate, FSTypeOK
  <2>2. \A j \in Inode : j # i => inode'[j] = inode[j]
    BY <1>1 DEF GuestCreate, FSTypeOK
  <2>3. KindsKept
    BY <2>1, <2>2 DEF KindsKept
  <2>4. guestOps' # guestOps
    BY <1>1 DEF GuestCreate, GuestStep, FSTypeOK
  <2>5. Adds(p, i)
    BY <1>1, <2>1, <2>4, TreeAbove DEF GuestCreate, Adds
  <2> QED
    BY <2>3, <2>5 DEF ShareStep
<1>2. ASSUME NEW p \in Path, NEW c \in Content, GuestWrite(p, c)
      PROVE  ShareStep
  <2>1. entry[p] \in Inode
    BY <1>2, PathAssumption, KindAtPath DEF GuestWrite
  <2>2. \A j \in Inode : inode'[j].kind = inode[j].kind
    BY <1>2, <2>1 DEF GuestWrite, FSTypeOK, Node
  <2> QED
    BY <1>2, <2>2 DEF GuestWrite, ShareStep, KindsKept
<1>3. ASSUME NEW p \in Path, NEW q \in Path, GuestLink(p, q)
      PROVE  ShareStep
  <2>1. entry[p] \in Inode /\ inode[entry[p]].kind # "free"
    BY <1>3, PathAssumption, KindAtPath DEF GuestLink
  <2>2. KindsKept
    BY <1>3 DEF GuestLink, KindsKept
  <2>3. guestOps' # guestOps
    BY <1>3 DEF GuestLink, GuestStep, FSTypeOK
  <2>4. Adds(q, entry[p])
    BY <1>3, <2>1, <2>3, TreeAbove DEF GuestLink, Adds
  <2> QED
    BY <2>2, <2>4 DEF ShareStep
<1>4. \A p, q \in Path : ~GuestUnlink(p) /\ ~GuestRename(p, q)
  <2>1. CASE NoRemoval
    BY <2>1 DEF NoRemoval, GuestUnlink, GuestRename, GuestStep
  <2>2. CASE guestOps' = guestOps
    BY <2>2 DEF FSTypeOK, GuestUnlink, GuestRename, GuestStep
  <2> QED
    BY <2>1, <2>2 DEF Undisturbed
<1> QED
  BY <1>1, <1>2, <1>3, <1>4 DEF Guests, GuestNext

LEMMA WorkerShare ==
  ASSUME InPlaceInv, NEW w \in Worker, WorkerStep(w) \/ WriterComes(w)
  PROVE  ShareStep
<1>. /\ TypeOK /\ FSTypeOK /\ TypeInv /\ TreeOK /\ AtDestination(w)
     /\ \A v \in Worker : inode[v].kind \in {"free", "file"}
     /\ \A v \in Worker : v \in Inode
  BY WorkerAssumption DEF InPlaceInv, TypeInv, TypeOK, TreeOK
<1>1. ASSUME NEW to, NEW j, Step(w, to, j) PROVE ShareStep
  BY <1>1, StepShare
<1>2. ASSUME NEW e, Fail(w, e) PROVE ShareStep
  BY <1>1, <1>2 DEF Fail
<1>3. CASE /\ Create(w)
           /\ CreateErrno(job[w].dstPath) = "ok"
           /\ entry' = [entry EXCEPT ![job[w].dstPath] = w]
           /\ inode' = [inode EXCEPT ![w] = [kind |-> "file", content |-> Empty,
                                             mode |-> Masked[job[w].mode], target |-> << >>]]
  <2>. DEFINE p == job[w].dstPath
  <2>1. p \in Path /\ KindAt(p) = "none" /\ WalkErrno(p) = "ok"
    BY <1>3 DEF CreateErrno
  <2>2. entry[p] = NoInode
    BY <2>1, PathAssumption DEF KindAt, FSTypeOK, Node, Kind
  <2>3. \A n \in 1 .. Len(p) - 1 : KindAt(Prefix(p, n)) = "dir"
    BY <2>1 DEF WalkErrno
  <2>4. inode'[w].kind = "file" /\ \A i \in Inode : i # w => inode'[i] = inode[i]
    BY <1>3 DEF FSTypeOK
  <2>5. KindsKept
    BY <2>4 DEF KindsKept
  <2>6. Adds(p, w)
    BY <1>3, <2>1, <2>2, <2>3, <2>4 DEF Adds
  <2> QED
    BY <2>5, <2>6 DEF ShareStep
<1>4. ASSUME NEW v \in Inode, NEW x, v \in Worker, UNCHANGED entry,
             \/ inode' = [inode EXCEPT ![v].content = x]
             \/ inode' = [inode EXCEPT ![v].mode = x]
      PROVE  ShareStep
  <2>1. \A i \in Inode : inode'[i].kind = inode[i].kind
    BY <1>4 DEF FSTypeOK, Node
  <2> QED
    BY <1>4, <2>1 DEF ShareStep, KindsKept
<1>5. CASE /\ CleanupRemove(w) /\ Goto(w, "done", job[w])
           /\ entry' = [entry EXCEPT ![job[w].dstPath] = NoInode]
           /\ UNCHANGED inode
  <2>1. RemovesOwn(w)
    BY <1>5 DEF CleanupRemove, Goto, RemovesOwn, TypeOK, AtDestination, Holding
  <2> QED
    BY <1>5, <2>1 DEF ShareStep, KindsKept
<1>6. CASE Create(w)
  BY <1>2, <1>3, <1>6 DEF Create, NewFile
<1>7. CASE Clone(w) \/ Chmod(w)
  BY <1>1, <1>4, <1>7 DEF Clone, Chmod
<1>8. CASE CleanupRemove(w)
  BY <1>1, <1>5, <1>8 DEF CleanupRemove
<1>9. CASE Start(w) \/ JoinSrc(w) \/ JoinDst(w) \/ JoinParent(w) \/ WriterComes(w)
  BY <1>1, <1>2, <1>9 DEF Start, JoinSrc, JoinDst, JoinParent, JoinStep, WriterComes
<1>10. CASE ComponentsSrc(w) \/ ComponentsDst(w)
  <2>1. ASSUME NEW rel, NEW b, NEW msg, NEW to, RejectSymlinkComponents(w, rel, b, msg, to)
        PROVE  ShareStep
    BY <1>1, <1>2, <2>1, Zenon DEF RejectSymlinkComponents
  <2> QED
    BY <1>10, <2>1 DEF ComponentsSrc, ComponentsDst
<1>11. CASE LstatSrc(w) \/ LstatDst(w) \/ LstatParent(w)
  BY <1>1, <1>2, <1>11, Zenon DEF LstatSrc, LstatDst, LstatParent
<1>12. CASE Open(w) \/ Close(w)
  BY <1>1, <1>2, <1>12, Zenon DEF Open, Close
<1> QED
  BY <1>6, <1>7, <1>8, <1>9, <1>10, <1>11, <1>12 DEF WorkerStep

LEMMA NextShare ==
  ASSUME Undisturbed, InPlaceInv, [Next]_vars
  PROVE  ShareStep
<1>1. CASE Guests
  BY <1>1, GuestsShare
<1>2. ASSUME NEW w \in Worker, WorkerStep(w) \/ WriterComes(w) PROVE ShareStep
  BY <1>2, WorkerShare
<1>3. CASE UNCHANGED <<entry, inode>>
  BY <1>3 DEF ShareStep, KindsKept, InPlaceInv, TreeOK
<1> QED
  BY <1>1, <1>2, <1>3 DEF Next, Finished, Crash, vars

LEMMA TreeKept ==
  ASSUME Undisturbed, InPlaceInv, [Next]_vars, TypeInv'
  PROVE  /\ TreeOK'
         /\ \A p : KindAt(p) \in {"dir", "symlink"} => KindAt(p)' = KindAt(p)
<1>. /\ FSTypeOK /\ FSTypeOK' /\ TreeOK /\ KindsKept
     /\ \A w \in Worker : w \in Inode /\ inode[w].kind \in {"free", "file"}
  BY NextShare, WorkerAssumption DEF ShareStep, InPlaceInv, TypeInv, TypeOK, TreeOK
<1>1. ASSUME NEW p, KindAt(p) \in {"dir", "symlink"}
      PROVE  KindAt(p)' = KindAt(p)
  <2>1. CASE p = << >>
    BY <2>1 DEF KindAt
  <2>2. CASE p # << >>
    <3>1. /\ p \in Path /\ entry[p] \in Inode /\ entry[p] # NoInode
          /\ inode[entry[p]].kind = KindAt(p)
      BY <1>1, <2>2, KindAtPath, InodeAssumption
    <3>2. entry'[p] = entry[p]
      <4>1. CASE entry' = entry
        BY <4>1
      <4>2. ASSUME NEW q, NEW i, Adds(q, i) PROVE entry'[p] = entry[p]
        BY <3>1, <4>2 DEF Adds, FSTypeOK
      <4>3. ASSUME NEW w \in Worker, RemovesOwn(w) PROVE entry'[p] = entry[p]
        BY <1>1, <3>1, <4>3 DEF RemovesOwn, FSTypeOK
      <4> QED
        BY <4>1, <4>2, <4>3, NextShare DEF ShareStep
    <3>3. inode'[entry[p]].kind = KindAt(p)
      BY <1>1, <3>1 DEF KindsKept
    <3> QED
      BY <2>2, <3>1, <3>2, <3>3 DEF KindAt
  <2> QED
    BY <2>1, <2>2
<1>2. TreeOK'
  <2>1. ASSUME NEW p \in Path, entry'[p] # NoInode
        PROVE  /\ inode'[entry'[p]].kind # "free"
               /\ \A n \in 1 .. Len(p) - 1 : KindAt(Prefix(p, n))' = "dir"
    <3>1. CASE entry'[p] = entry[p]
      <4>1. entry[p] \in Inode /\ inode[entry[p]].kind # "free"
        BY <2>1, <3>1 DEF TreeOK, FSTypeOK
      <4>2. inode'[entry[p]].kind # "free"
        BY <4>1 DEF KindsKept
      <4>3. \A n \in 1 .. Len(p) - 1 : KindAt(Prefix(p, n)) = "dir"
        BY <2>1, <3>1 DEF TreeOK
      <4> QED
        BY <1>1, <3>1, <4>2, <4>3
    <3>2. CASE entry'[p] # entry[p]
      <4>1. PICK i : Adds(p, i)
        <5>1. ~\E w \in Worker : RemovesOwn(w)
          BY <2>1, <3>2 DEF RemovesOwn, FSTypeOK
        <5>2. PICK q, i : Adds(q, i)
          BY <3>2, <5>1, NextShare DEF ShareStep
        <5>3. q = p
          BY <3>2, <5>2 DEF Adds, FSTypeOK
        <5> QED
          BY <5>2, <5>3
      <4>2. entry'[p] = i /\ inode'[i].kind # "free"
        BY <4>1 DEF Adds, FSTypeOK
      <4>3. \A n \in 1 .. Len(p) - 1 : KindAt(Prefix(p, n)) = "dir"
        BY <4>1 DEF Adds
      <4> QED
        BY <1>1, <4>2, <4>3
    <3> QED
      BY <3>1, <3>2
  <2> QED
    BY <2>1 DEF TreeOK, KindsKept
<1> QED
  BY <1>1, <1>2

\* A name that denotes a call's file goes on denoting it until that call's own
\* cleanup.
LEMMA HeldKept ==
  ASSUME Undisturbed, InPlaceInv, [Next]_vars, NEW v \in Worker, Holding(v),
         ~(pc[v] = "remove" /\ pc'[v] = "done")
  PROVE  job[v].dst \in Path /\ entry'[job[v].dst] = v
<1>. /\ FSTypeOK /\ v # NoInode /\ job[v].dst \in Path /\ entry[job[v].dst] = v
  BY WorkerAssumption, InodeAssumption DEF InPlaceInv, TypeInv, TypeOK, AtDestination
<1>1. CASE entry' = entry
  BY <1>1
<1>2. ASSUME NEW q, NEW i, Adds(q, i) PROVE entry'[job[v].dst] = v
  BY <1>2 DEF Adds, FSTypeOK
<1>3. ASSUME NEW w \in Worker, RemovesOwn(w) PROVE entry'[job[v].dst] = v
  BY <1>3 DEF RemovesOwn, FSTypeOK
<1> QED
  BY <1>1, <1>2, <1>3, NextShare DEF ShareStep

LEMMA LinkKept ==
  ASSUME Undisturbed, InPlaceInv, [Next]_vars, TypeInv', NEW p, NEW S, LinkAmong(p, S)
  PROVE  \E n \in S : KindAt(Prefix(p, n))' = "symlink"
BY TreeKept DEF LinkAmong

\* Who does not move stays where it was.
LEMMA OthersKept ==
  ASSUME Undisturbed, InPlaceInv, [Next]_vars, TypeInv', NEW v \in Worker,
         pc'[v] = pc[v], job'[v] = job[v]
  PROVE  OnTheWay(v)' /\ AtDestination(v)'
<1>. OnTheWay(v) /\ AtDestination(v)
  BY DEF InPlaceInv
<1>1. OnTheWay(v)'
  <2>1. ASSUME NEW S, LinkAmong(job[v].dst, S)
        PROVE  \E n \in S : KindAt(Prefix(job[v].dst, n))' = "symlink"
    BY <2>1, LinkKept
  <2>2. pc[v] = "joinDst" /\ LinkAmong(job[v].dst, 1 .. job[v].k) =>
          LinkAmong(job[v].dst, 1 .. job[v].k)'
    BY <2>1 DEF LinkAmong
  <2>3. LinkAmong(job[v].dst, job[v].k + 1 .. Len(job[v].dst)) =>
          LinkAmong(job[v].dst, job[v].k + 1 .. Len(job[v].dst))'
    BY <2>1 DEF LinkAmong
  <2> QED
    BY <2>2, <2>3 DEF OnTheWay
<1>2. AtDestination(v)'
  <2>1. Holding(v)' => Holding(v)
    BY DEF Holding, OK
  <2> QED
    BY <2>1, HeldKept DEF AtDestination
<1> QED
  BY <1>1, <1>2

LEMMA Moved ==
  ASSUME TypeOK, NEW w \in Worker, NEW to, NEW j, Goto(w, to, j)
  PROVE  /\ pc'[w] = to /\ job'[w] = j
         /\ \A v \in Worker : v # w => pc'[v] = pc[v] /\ job'[v] = job[v]
BY DEF Goto, TypeOK

LEMMA ErrorIsNotNil ==
  /\ \A e : Raw(e) # nil
  /\ \A c, m : NewError(c, m) # nil
BY DEF Raw, NewError, nil

\* A call that has failed claims nothing.
LEMMA FailKept ==
  ASSUME TypeOK, NEW w \in Worker, NEW e, Fail(w, e), e # nil
  PROVE  OnTheWay(w)' /\ AtDestination(w)'
<1>1. job[w] \in Job
  BY DEF TypeOK
<1>2. [job[w] EXCEPT !.err = e].err = e
  BY <1>1 DEF Job
<1>3. pc'[w] = "done" /\ job'[w] = [job[w] EXCEPT !.err = e]
  <2>1. Goto(w, "done", [job[w] EXCEPT !.err = e])
    BY DEF Fail, Step
  <2> QED
    BY <2>1, Moved
<1> QED
  BY <1>2, <1>3 DEF OnTheWay, AtDestination, Holding, OK

LEMMA JoinDstKept ==
  ASSUME InPlaceInv, NEW w \in Worker, JoinDst(w)
  PROVE  OnTheWay(w)' /\ AtDestination(w)'
<1>. DEFINE dst == job[w].dst
            k == job[w].k
            cur == job[w].cur
<1>. /\ TypeOK /\ job[w] \in Job /\ dst \in RelPath /\ k \in Nat /\ Len(dst) \in Nat
     /\ pc[w] = "joinDst" /\ k <= Len(dst)
     /\ cur = Prefix(dst, k) \/ LinkAmong(dst, 1 .. k)
  BY DEF InPlaceInv, TypeInv, TypeOK, OnTheWay, JoinDst, Job, RelPath
<1>3. ASSUME NEW e, e # nil, Fail(w, e)
      PROVE  OnTheWay(w)' /\ AtDestination(w)'
  BY <1>3, FailKept
<1>1. ASSUME k < Len(dst),
             Step(w, "joinDst", [job[w] EXCEPT !.k = @ + 1, !.cur = Follow(Append(@, dst[k + 1]))])
      PROVE  OnTheWay(w)' /\ AtDestination(w)'
  <2>. DEFINE c == Follow(Append(cur, dst[k + 1]))
              j == [job[w] EXCEPT !.k = @ + 1, !.cur = c]
  <2>1. Step(w, "joinDst", j) /\ k < Len(dst)
    BY <1>1
  <2>2. c = Prefix(dst, k + 1) \/ LinkAmong(dst, 1 .. k + 1)
    <3>1. CASE LinkAmong(dst, 1 .. k)
      BY <3>1 DEF LinkAmong
    <3>2. CASE cur = Prefix(dst, k)
      <4>1. Append(cur, dst[k + 1]) = Prefix(dst, k + 1)
        BY <2>1, <3>2, PrefixFacts
      <4>2. CASE KindAt(Prefix(dst, k + 1)) = "symlink"
        BY <4>2 DEF LinkAmong
      <4>3. CASE KindAt(Prefix(dst, k + 1)) # "symlink"
        BY <4>1, <4>3 DEF Follow
      <4> QED
        BY <4>2, <4>3
    <3> QED
      BY <3>1, <3>2
  <2>. HIDE DEF c
  <2>3. j.k = k + 1 /\ j.cur = c /\ j.dst = dst
    BY DEF Job
  <2>4. pc'[w] = "joinDst" /\ job'[w] = j /\ UNCHANGED fsvars
    BY <2>1, Moved DEF Step
  <2>. HIDE DEF j
  <2>5. LinkAmong(dst, 1 .. k + 1) => LinkAmong(job[w].dst, 1 .. job[w].k)'
    BY <2>3, <2>4 DEF LinkAmong, KindAt, fsvars
  <2>6. OnTheWay(w)'
    BY <2>1, <2>2, <2>3, <2>4, <2>5 DEF OnTheWay
  <2> QED
    BY <2>4, <2>6 DEF AtDestination, Holding, OK
<1>2. CASE /\ k = Len(dst)
           /\ Step(w, "componentsDst", [job[w] EXCEPT !.k = 0, !.cur = << >>, !.dstPath = cur])
  <2>. DEFINE j == [job[w] EXCEPT !.k = 0, !.cur = << >>, !.dstPath = cur]
  <2>1. j.k = 0 /\ j.dst = dst /\ j.dstPath = cur
    BY DEF Job
  <2>2. pc'[w] = "componentsDst" /\ job'[w] = j /\ UNCHANGED fsvars
    BY <1>2, Moved DEF Step
  <2>. HIDE DEF j
  <2>3. cur = dst \/ LinkAmong(dst, 1 .. Len(dst))
    BY <1>2, PrefixFacts
  <2>4. LinkAmong(dst, 1 .. Len(dst)) =>
          LinkAmong(job[w].dst, job[w].k + 1 .. Len(job[w].dst))'
    BY <2>1, <2>2 DEF LinkAmong, KindAt, fsvars
  <2>5. OnTheWay(w)'
    BY <2>1, <2>2, <2>3, <2>4 DEF OnTheWay
  <2> QED
    BY <2>2, <2>5 DEF AtDestination, Holding, OK
<1> QED
  BY <1>1, <1>2, <1>3, ErrorIsNotNil DEF JoinDst, JoinStep

LEMMA ComponentsDstKept ==
  ASSUME InPlaceInv, NEW w \in Worker, ComponentsDst(w)
  PROVE  OnTheWay(w)' /\ AtDestination(w)'
<1>. DEFINE dst == job[w].dst
            k == job[w].k
            p == Prefix(dst, k + 1)
            next == [job[w] EXCEPT !.k = 0]
            more == [job[w] EXCEPT !.k = @ + 1]
<1>1. /\ TypeOK /\ job[w] \in Job /\ dst \in RelPath /\ k \in Nat /\ Len(dst) \in Nat
      /\ pc[w] = "componentsDst"
      /\ job[w].dstPath = dst \/ LinkAmong(dst, k + 1 .. Len(dst))
  <2>1. TypeOK /\ job[w] \in Job
    BY DEF InPlaceInv, TypeInv, TypeOK
  <2>2. dst \in RelPath /\ k \in Nat
    BY <2>1 DEF Job
  <2>3. Len(dst) \in Nat
    BY <2>2 DEF RelPath
  <2>4. pc[w] = "componentsDst"
    BY DEF ComponentsDst
  <2>5. job[w].dstPath = dst \/ LinkAmong(dst, k + 1 .. Len(dst))
    BY <2>4 DEF InPlaceInv, OnTheWay
  <2> QED
    BY <2>1, <2>2, <2>3, <2>4, <2>5
<1>2. ASSUME job[w].dstPath = dst, Step(w, "lstatDst", next)
      PROVE  OnTheWay(w)' /\ AtDestination(w)'
  <2>1. next.dst = dst /\ next.dstPath = job[w].dstPath
    BY <1>1 DEF Job
  <2>2. pc'[w] = "lstatDst" /\ job'[w] = next
    BY <1>1, <1>2, Moved DEF Step
  <2> QED
    BY <1>2, <2>1, <2>2 DEF OnTheWay, AtDestination, Holding, OK
<1>3. CASE dst = << >> /\ Step(w, "lstatDst", next)
  <2>1. ~LinkAmong(dst, k + 1 .. Len(dst))
    BY <1>1, <1>3 DEF LinkAmong
  <2> QED
    BY <1>1, <1>2, <1>3, <2>1
<1>4. CASE KindAt(p) # "symlink" /\ k + 1 = Len(dst) /\ Step(w, "lstatDst", next)
  <2>1. ~LinkAmong(dst, k + 1 .. Len(dst))
    BY <1>1, <1>4 DEF LinkAmong
  <2> QED
    BY <1>1, <1>2, <1>4, <2>1
<1>5. CASE LstatErrno(p) = "ENOENT" /\ dst # << >> /\ k + 1 = Len(dst)
           /\ Step(w, "lstatDst", next)
  <2>1. KindAt(p) # "symlink"
    <3>. SUFFICES ASSUME KindAt(p) = "symlink" PROVE FALSE
      OBVIOUS
    <3>1. p = dst
      BY <1>1, <1>5, PrefixFacts
    <3>2. p \in Path /\ entry[p] # NoInode
      BY <1>5, <3>1, KindAtPath, InodeAssumption DEF InPlaceInv, TypeInv, TypeOK
    <3>3. \A n \in 1 .. Len(p) - 1 : KindAt(Prefix(p, n)) = "dir"
      BY <3>2 DEF InPlaceInv, TreeOK
    <3>4. WalkErrno(p) = "ok"
      BY <3>3 DEF WalkErrno
    <3> QED
      BY <1>5, <3>4 DEF LstatErrno
  <2> QED
    BY <1>4, <1>5, <2>1
<1>6. CASE KindAt(p) # "symlink" /\ Step(w, "componentsDst", more)
  <2>1. more.dst = dst /\ more.dstPath = job[w].dstPath /\ more.k = k + 1
    BY <1>1 DEF Job
  <2>2. pc'[w] = "componentsDst" /\ job'[w] = more /\ UNCHANGED fsvars
    BY <1>1, <1>6, Moved DEF Step
  <2>. HIDE DEF more
  <2>3. LinkAmong(dst, k + 1 .. Len(dst)) =>
          LinkAmong(job[w].dst, job[w].k + 1 .. Len(job[w].dst))'
    <3>. SUFFICES ASSUME NEW n \in k + 1 .. Len(dst), KindAt(Prefix(dst, n)) = "symlink"
         PROVE  LinkAmong(job[w].dst, job[w].k + 1 .. Len(job[w].dst))'
      BY DEF LinkAmong
    <3>1. n \in k + 1 + 1 .. Len(dst)
      BY <1>1, <1>6
    <3>2. \A q : KindAt(q)' = KindAt(q)
      BY <2>2 DEF KindAt, fsvars
    <3> QED
      BY <2>1, <2>2, <3>1, <3>2 DEF LinkAmong
  <2>4. OnTheWay(w)'
    BY <1>1, <2>1, <2>2, <2>3 DEF OnTheWay
  <2> QED
    BY <2>2, <2>4 DEF AtDestination, Holding, OK
<1>7. ASSUME NEW e, e # nil, Fail(w, e)
      PROVE  OnTheWay(w)' /\ AtDestination(w)'
  BY <1>1, <1>7, FailKept
<1>8. \/ dst = << >> /\ Step(w, "lstatDst", next)
      \/ KindAt(p) # "symlink" /\ k + 1 = Len(dst) /\ Step(w, "lstatDst", next)
      \/ /\ LstatErrno(p) = "ENOENT" /\ dst # << >> /\ k + 1 = Len(dst)
         /\ Step(w, "lstatDst", next)
      \/ KindAt(p) # "symlink" /\ Step(w, "componentsDst", more)
      \/ \E e : e # nil /\ Fail(w, e)
  BY <1>1, ErrorIsNotNil DEF ComponentsDst, RejectSymlinkComponents
<1> QED
  BY <1>3, <1>4, <1>5, <1>6, <1>7, <1>8

\* Before the destination is looked at, a step only has to leave cur and k clean
\* for the second join.
LEMMA SourceKept ==
  ASSUME InPlaceInv, NEW w \in Worker,
         Start(w) \/ JoinSrc(w) \/ ComponentsSrc(w) \/ LstatSrc(w)
  PROVE  OnTheWay(w)' /\ AtDestination(w)'
<1>1. TypeOK /\ job[w] \in Job /\ OnTheWay(w)
  BY DEF InPlaceInv, TypeInv, TypeOK
<1>2. ASSUME NEW e, e # nil, Fail(w, e)
      PROVE  OnTheWay(w)' /\ AtDestination(w)'
  BY <1>1, <1>2, FailKept
<1>3. CASE Start(w)
  <2>1. PICK r \in Request :
          Step(w, IF ValidateRequest(r) = nil THEN "joinSrc" ELSE "done",
               [job[w] EXCEPT !.src = NormalizeRelative(r.src).rel,
                              !.dst = NormalizeRelative(r.dst).rel,
                              !.err = ValidateRequest(r)])
    BY <1>3 DEF Start
  <2>. DEFINE e == ValidateRequest(r)
              j == [job[w] EXCEPT !.src = NormalizeRelative(r.src).rel,
                                  !.dst = NormalizeRelative(r.dst).rel, !.err = e]
  <2>2. j.err = e
    <3>1. ASSUME NEW x \in Job, NEW s, NEW d, NEW f
          PROVE  [x EXCEPT !.src = s, !.dst = d, !.err = f].err = f
      BY DEF Job
    <3> QED
      BY <1>1, <3>1
  <2>3. pc'[w] = (IF e = nil THEN "joinSrc" ELSE "done") /\ job'[w] = j
    BY <1>1, <2>1, Moved DEF Step
  <2>. HIDE DEF j, e
  <2> QED
    BY <2>2, <2>3 DEF OnTheWay, AtDestination, Holding, OK
<1>4. CASE JoinSrc(w)
  <2>1. CASE JoinStep(w, job[w].src)
    <3>1. ASSUME NEW j, Step(w, "joinSrc", j) PROVE OnTheWay(w)' /\ AtDestination(w)'
      <4>1. pc'[w] = "joinSrc"
        BY <1>1, <3>1, Moved DEF Step
      <4> QED
        BY <4>1 DEF OnTheWay, AtDestination, Holding, OK
    <3>2. (\E j : Step(w, "joinSrc", j)) \/ \E e : e # nil /\ Fail(w, e)
      BY <1>4, <2>1, ErrorIsNotNil DEF JoinSrc, JoinStep
    <3> QED
      BY <1>2, <3>1, <3>2
  <2>2. CASE Step(w, "componentsSrc",
                  [job[w] EXCEPT !.k = 0, !.cur = << >>, !.srcPath = job[w].cur])
    <3>1. [job[w] EXCEPT !.k = 0, !.cur = << >>, !.srcPath = job[w].cur].cur = << >>
      BY <1>1 DEF Job
    <3>2. /\ pc'[w] = "componentsSrc"
          /\ job'[w] = [job[w] EXCEPT !.k = 0, !.cur = << >>, !.srcPath = job[w].cur]
      BY <1>1, <2>2, Moved DEF Step
    <3>3. job'[w].cur = << >>
      BY <3>1, <3>2
    <3> QED
      BY <3>2, <3>3 DEF OnTheWay, AtDestination, Holding, OK
  <2> QED
    BY <1>4, <2>1, <2>2 DEF JoinSrc
<1>5. CASE ComponentsSrc(w)
  <2>. DEFINE next == [job[w] EXCEPT !.k = 0]
              more == [job[w] EXCEPT !.k = @ + 1]
  <2>1. /\ next.k = 0 /\ next.cur = job[w].cur
        /\ more.cur = job[w].cur
        /\ job[w].cur = << >>
    BY <1>1, <1>5 DEF Job, OnTheWay, ComponentsSrc
  <2>2. CASE Step(w, "lstatSrc", next)
    <3>1. pc'[w] = "lstatSrc" /\ job'[w] = next
      BY <1>1, <2>2, Moved DEF Step
    <3> QED
      BY <2>1, <3>1 DEF OnTheWay, AtDestination, Holding, OK
  <2>3. CASE Step(w, "componentsSrc", more)
    <3>1. pc'[w] = "componentsSrc" /\ job'[w] = more
      BY <1>1, <2>3, Moved DEF Step
    <3> QED
      BY <2>1, <3>1 DEF OnTheWay, AtDestination, Holding, OK
  <2>4. \/ Step(w, "lstatSrc", next)
        \/ Step(w, "componentsSrc", more)
        \/ \E e : e # nil /\ Fail(w, e)
    BY <1>5, ErrorIsNotNil DEF ComponentsSrc, RejectSymlinkComponents
  <2> QED
    BY <1>2, <2>2, <2>3, <2>4
<1>6. CASE LstatSrc(w)
  <2>. DEFINE j == [job[w] EXCEPT !.mode = inode[entry[job[w].srcPath]].mode]
  <2>1. CASE Step(w, "joinDst", j)
    <3>1. j.k = job[w].k /\ j.cur = job[w].cur /\ j.dst = job[w].dst
      <4>1. ASSUME NEW x \in Job, NEW m
            PROVE  /\ [x EXCEPT !.mode = m].k = x.k /\ [x EXCEPT !.mode = m].cur = x.cur
                   /\ [x EXCEPT !.mode = m].dst = x.dst
        BY DEF Job
      <4> QED
        BY <1>1, <4>1
    <3>2. job[w].k = 0 /\ job[w].cur = << >>
      BY <1>1, <1>6 DEF LstatSrc, OnTheWay
    <3>3. job[w].dst \in RelPath /\ Len(job[w].dst) \in Nat
      BY <1>1 DEF Job, RelPath
    <3>4. Prefix(job[w].dst, 0) = << >>
      BY <3>3, PrefixFacts
    <3>5. pc'[w] = "joinDst" /\ job'[w] = j
      BY <1>1, <2>1, Moved DEF Step
    <3>. HIDE DEF j
    <3> QED
      BY <3>1, <3>2, <3>3, <3>4, <3>5 DEF OnTheWay, AtDestination, Holding, OK
  <2>2. Step(w, "joinDst", j) \/ \E e : e # nil /\ Fail(w, e)
    BY <1>6, ErrorIsNotNil DEF LstatSrc
  <2> QED
    BY <1>2, <2>1, <2>2
<1> QED
  BY <1>3, <1>4, <1>5, <1>6

\* From the destination check to the creation, a step leaves both paths alone.
LEMMA SettledKept ==
  ASSUME InPlaceInv, NEW w \in Worker,
         LstatDst(w) \/ JoinParent(w) \/ LstatParent(w) \/ Open(w) \/ WriterComes(w)
  PROVE  OnTheWay(w)' /\ AtDestination(w)'
<1>1. TypeOK /\ job[w] \in Job /\ AtDestination(w)
  BY DEF InPlaceInv, TypeInv, TypeOK
<1>2. pc[w] \in {"lstatDst", "joinParent", "lstatParent", "open", "waiting"}
  BY DEF LstatDst, JoinParent, LstatParent, Open, WriterComes
<1>3. job[w].dstPath = job[w].dst
  BY <1>1, <1>2 DEF AtDestination
<1>4. ASSUME NEW e, e # nil, Fail(w, e)
      PROVE  OnTheWay(w)' /\ AtDestination(w)'
  BY <1>1, <1>4, FailKept
<1>5. ASSUME NEW to \in {"joinParent", "lstatParent", "open", "waiting", "create"}, NEW j,
             Step(w, to, j), j.dst = job[w].dst, j.dstPath = job[w].dstPath
      PROVE  OnTheWay(w)' /\ AtDestination(w)'
  <2>1. pc'[w] = to /\ job'[w] = j
    BY <1>1, <1>5, Moved DEF Step
  <2> QED
    BY <1>3, <1>5, <2>1 DEF OnTheWay, AtDestination, Holding, OK
<1>6. CASE LstatDst(w)
  <2>1. Step(w, "joinParent", job[w]) \/ \E e : e # nil /\ Fail(w, e)
    BY <1>6, ErrorIsNotNil DEF LstatDst
  <2> QED
    BY <1>4, <1>5, <2>1
<1>7. CASE JoinParent(w)
  <2>1. ASSUME NEW c
        PROVE  LET j == [job[w] EXCEPT !.k = @ + 1, !.cur = c]
               IN  j.dst = job[w].dst /\ j.dstPath = job[w].dstPath
    BY <1>1 DEF Job
  <2>2. LET j == [job[w] EXCEPT !.k = 0]
        IN  j.dst = job[w].dst /\ j.dstPath = job[w].dstPath
    BY <1>1 DEF Job
  <2>3. \/ Step(w, "lstatParent", [job[w] EXCEPT !.k = 0])
        \/ \E c : Step(w, "joinParent", [job[w] EXCEPT !.k = @ + 1, !.cur = c])
        \/ \E e : e # nil /\ Fail(w, e)
    BY <1>7, ErrorIsNotNil DEF JoinParent, JoinStep
  <2> QED
    BY <1>4, <1>5, <2>1, <2>2, <2>3
<1>8. CASE LstatParent(w)
  <2>1. Step(w, "open", job[w]) \/ \E e : e # nil /\ Fail(w, e)
    BY <1>8, ErrorIsNotNil DEF LstatParent
  <2> QED
    BY <1>4, <1>5, <2>1
<1>9. CASE Open(w)
  <2>1. ASSUME NEW f
        PROVE  LET j == [job[w] EXCEPT !.fd = f]
               IN  j.dst = job[w].dst /\ j.dstPath = job[w].dstPath
    BY <1>1 DEF Job
  <2>2. \/ \E to \in {"waiting", "create"} : \E f : Step(w, to, [job[w] EXCEPT !.fd = f])
        \/ \E e : e # nil /\ Fail(w, e)
    BY <1>9, ErrorIsNotNil DEF Open
  <2> QED
    BY <1>4, <1>5, <2>1, <2>2
<1>10. CASE WriterComes(w)
  BY <1>5, <1>10 DEF WriterComes
<1> QED
  BY <1>6, <1>7, <1>8, <1>9, <1>10

\* From the creation on, the name denotes the file until the cleanup takes it.
LEMMA HoldingKept ==
  ASSUME Undisturbed, InPlaceInv, [Next]_vars, NEW w \in Worker,
         Create(w) \/ Clone(w) \/ Chmod(w) \/ Close(w) \/ CleanupRemove(w)
  PROVE  OnTheWay(w)' /\ AtDestination(w)'
<1>1. TypeOK /\ job[w] \in Job /\ AtDestination(w)
  BY DEF InPlaceInv, TypeInv, TypeOK
<1>2. ASSUME NEW e, e # nil, Fail(w, e)
      PROVE  OnTheWay(w)' /\ AtDestination(w)'
  BY <1>1, <1>2, FailKept
<1>3. ASSUME Holding(w), pc[w] # "remove", NEW to \in {"chmod", "close", "remove", "done"},
             NEW j, Goto(w, to, j), j.dst = job[w].dst, j.dstPath = job[w].dstPath,
             to = "remove" => j.err # nil
      PROVE  OnTheWay(w)' /\ AtDestination(w)'
  <2>1. pc'[w] = to /\ job'[w] = j
    BY <1>1, <1>3, Moved
  <2>2. job[w].dstPath = job[w].dst
    BY <1>1, <1>3 DEF AtDestination
  <2>3. job[w].dst \in Path /\ entry'[job[w].dst] = w
    BY <1>3, HeldKept
  <2> QED
    BY <1>3, <2>1, <2>2, <2>3 DEF OnTheWay, AtDestination
<1>4. ASSUME NEW x
      PROVE  LET j == [job[w] EXCEPT !.err = x]
             IN  j.dst = job[w].dst /\ j.dstPath = job[w].dstPath /\ j.err = x
  BY <1>1 DEF Job
<1>5. CASE Create(w)
  <2>1. job[w].dstPath = job[w].dst
    BY <1>1, <1>5 DEF AtDestination, Create
  <2>2. CASE /\ CreateErrno(job[w].dstPath) = "ok"
             /\ Goto(w, "clone", job[w])
             /\ entry' = [entry EXCEPT ![job[w].dstPath] = w]
    <3>1. job[w].dst \in Path
      BY <2>1, <2>2 DEF CreateErrno
    <3>2. entry'[job[w].dst] = w
      BY <1>1, <2>1, <2>2, <3>1 DEF TypeOK, FSTypeOK
    <3>3. pc'[w] = "clone" /\ job'[w] = job[w]
      BY <1>1, <2>2, Moved
    <3> QED
      BY <2>1, <3>1, <3>2, <3>3 DEF OnTheWay, AtDestination, Holding, OK
  <2>3. \/ /\ CreateErrno(job[w].dstPath) = "ok"
           /\ Goto(w, "clone", job[w])
           /\ entry' = [entry EXCEPT ![job[w].dstPath] = w]
        \/ \E e : e # nil /\ Fail(w, e)
    BY <1>5, ErrorIsNotNil DEF Create, NewFile
  <2> QED
    BY <1>2, <2>2, <2>3
<1>6. CASE Clone(w)
  <2>1. Holding(w) /\ pc[w] # "remove"
    BY <1>6 DEF Clone, Holding
  <2>2. \/ Goto(w, "chmod", job[w])
        \/ \E x : Goto(w, "close", [job[w] EXCEPT !.err = x])
    BY <1>6 DEF Clone, Step
  <2> QED
    BY <1>3, <1>4, <2>1, <2>2
<1>7. CASE Chmod(w)
  <2>1. Holding(w) /\ pc[w] # "remove"
    BY <1>7 DEF Chmod, Holding
  <2>2. \/ Goto(w, "close", job[w])
        \/ \E x : Goto(w, "close", [job[w] EXCEPT !.err = x])
    BY <1>7 DEF Chmod, Step
  <2> QED
    BY <1>3, <1>4, <2>1, <2>2
<1>8. CASE Close(w)
  <2>1. Holding(w) /\ pc[w] # "remove"
    BY <1>8 DEF Close, Holding
  <2>2. \E to \in {"remove", "done"} :
          /\ to = "remove" => job[w].err # nil
          /\ \/ Goto(w, to, job[w])
             \/ \E x : /\ job[w].err # nil => x = job[w].err
                       /\ Goto(w, to, [job[w] EXCEPT !.err = x])
    <3>. DEFINE to == IF job[w].err # nil THEN "remove" ELSE "done"
                x == IF job[w].err # nil THEN job[w].err ELSE Raw("EIO")
    <3>1. Goto(w, to, job[w]) \/ Goto(w, to, [job[w] EXCEPT !.err = x])
      BY <1>8 DEF Close, Step
    <3>2. to \in {"remove", "done"} /\ (to = "remove" => job[w].err # nil)
      OBVIOUS
    <3>3. job[w].err # nil => x = job[w].err
      OBVIOUS
    <3>. HIDE DEF to, x
    <3> QED
      BY <3>1, <3>2, <3>3
  <2> QED
    BY <1>3, <1>4, <2>1, <2>2
<1>9. CASE CleanupRemove(w)
  <2>1. job[w].err # nil
    BY <1>1, <1>9 DEF CleanupRemove, AtDestination
  <2>2. Goto(w, "done", job[w])
    BY <1>9 DEF CleanupRemove, Step
  <2>3. pc'[w] = "done" /\ job'[w] = job[w]
    BY <1>1, <2>2, Moved
  <2> QED
    BY <2>1, <2>3 DEF OnTheWay, AtDestination, Holding, OK
<1> QED
  BY <1>5, <1>6, <1>7, <1>8, <1>9

LEMMA WorkerMoves ==
  ASSUME NEW w \in Worker, WorkerStep(w) \/ WriterComes(w)
  PROVE  \E to, j : Goto(w, to, j)
<1>1. ASSUME NEW to, NEW j, Goto(w, to, j) \/ Step(w, to, j) PROVE \E t, i : Goto(w, t, i)
  BY <1>1 DEF Step
<1>2. ASSUME NEW e, Fail(w, e) PROVE \E t, i : Goto(w, t, i)
  BY <1>1, <1>2 DEF Fail
<1>3. CASE Start(w) \/ JoinSrc(w) \/ JoinDst(w) \/ JoinParent(w) \/ WriterComes(w)
  BY <1>1, <1>2, <1>3 DEF Start, JoinSrc, JoinDst, JoinParent, JoinStep, WriterComes
<1>4. CASE ComponentsSrc(w) \/ ComponentsDst(w)
  <2>1. ASSUME NEW rel, NEW b, NEW msg, NEW to, RejectSymlinkComponents(w, rel, b, msg, to)
        PROVE  \E t, i : Goto(w, t, i)
    BY <1>1, <1>2, <2>1, Zenon DEF RejectSymlinkComponents
  <2> QED
    BY <1>4, <2>1 DEF ComponentsSrc, ComponentsDst
<1>5. CASE LstatSrc(w) \/ LstatDst(w) \/ LstatParent(w)
  BY <1>1, <1>2, <1>5, Zenon DEF LstatSrc, LstatDst, LstatParent
<1>6. CASE Open(w) \/ Create(w)
  BY <1>1, <1>2, <1>6, Zenon DEF Open, Create, NewFile
<1>7. CASE Clone(w) \/ Chmod(w)
  BY <1>1, <1>7, Zenon DEF Clone, Chmod
<1>8. CASE Close(w) \/ CleanupRemove(w)
  BY <1>1, <1>8, Zenon DEF Close, CleanupRemove
<1> QED
  BY <1>3, <1>4, <1>5, <1>6, <1>7, <1>8 DEF WorkerStep

LEMMA WorkerKept ==
  ASSUME Undisturbed, InPlaceInv, [Next]_vars, TypeInv',
         NEW w \in Worker, WorkerStep(w) \/ WriterComes(w), NEW v \in Worker
  PROVE  OnTheWay(v)' /\ AtDestination(v)'
<1>1. CASE v = w
  BY <1>1, SourceKept, JoinDstKept, ComponentsDstKept, SettledKept, HoldingKept
     DEF WorkerStep
<1>2. CASE v # w
  <2>1. PICK to, j : Goto(w, to, j)
    BY WorkerMoves
  <2>2. pc'[v] = pc[v] /\ job'[v] = job[v]
    BY <1>2, <2>1, Moved DEF InPlaceInv, TypeInv
  <2> QED
    BY <2>2, OthersKept
<1> QED
  BY <1>1, <1>2

LEMMA CrashKept ==
  ASSUME Undisturbed, InPlaceInv, [Next]_vars, TypeInv',
         NEW w \in Worker, Crash(w), NEW v \in Worker
  PROVE  OnTheWay(v)' /\ AtDestination(v)'
<1>1. TypeOK
  BY DEF InPlaceInv, TypeInv
<1>2. CASE v = w
  BY <1>1, <1>2 DEF Crash, TypeOK, OnTheWay, AtDestination, Holding, OK
<1>3. CASE v # w
  <2>1. pc'[v] = pc[v] /\ job'[v] = job[v]
    BY <1>1, <1>3 DEF Crash, TypeOK
  <2> QED
    BY <2>1, OthersKept
<1> QED
  BY <1>2, <1>3

LEMMA InitInPlace == Init => InPlaceInv
<1>. SUFFICES ASSUME Init PROVE InPlaceInv
  OBVIOUS
<1>1. TypeInv
  BY InitType
<1>2. TreeOK
  <2>1. ASSUME NEW p \in Path, entry[p] # NoInode
        PROVE  /\ inode[entry[p]].kind # "free"
               /\ \A n \in 1 .. Len(p) - 1 : KindAt(Prefix(p, n)) = "dir"
    <3>1. entry = InitEntry /\ inode = InitInode
      BY DEF Init, FSInit
    <3>2. inode[entry[p]].kind # "free"
      BY <2>1, <3>1, InitAssumption
    <3>3. ASSUME NEW n \in 1 .. Len(p) - 1 PROVE KindAt(Prefix(p, n)) = "dir"
      <4>. DEFINE q == Prefix(p, n)
      <4>1. /\ q \in Path /\ InitEntry[q] # NoInode
            /\ InitInode[InitEntry[q]].kind = "dir"
        BY <2>1, <3>1, <3>3, InitAssumption
      <4>2. KindAt(q) = "dir"
        <5>. HIDE DEF q
        <5> QED
          BY <3>1, <4>1 DEF KindAt
      <4> QED
        BY <4>2
    <3> QED
      BY <3>2, <3>3
  <2>2. \A w \in Worker : inode[w].kind \in {"free", "file"}
    BY WorkerAssumption DEF Init, FSInit
  <2> QED
    BY <2>1, <2>2 DEF TreeOK
<1>3. \A w \in Worker : pc[w] = "idle"
  BY DEF Init
<1>4. \A w \in Worker : OnTheWay(w) /\ AtDestination(w)
  BY <1>3 DEF OnTheWay, AtDestination, Holding, OK
<1> QED
  BY <1>1, <1>2, <1>4 DEF InPlaceInv

LEMMA NextInPlace ==
  ASSUME Undisturbed, InPlaceInv, [Next]_vars
  PROVE  InPlaceInv'
<1>1. TypeInv'
  BY NextType DEF InPlaceInv
<1>2. TreeOK'
  BY <1>1, TreeKept
<1>3. ASSUME NEW v \in Worker PROVE OnTheWay(v)' /\ AtDestination(v)'
  <2>1. CASE Guests \/ Finished \/ UNCHANGED vars
    <3>1. pc'[v] = pc[v] /\ job'[v] = job[v]
      BY <2>1 DEF Guests, Finished, vars
    <3> QED
      BY <1>1, <3>1, OthersKept
  <2>2. ASSUME NEW w \in Worker, WorkerStep(w) \/ WriterComes(w)
        PROVE  OnTheWay(v)' /\ AtDestination(v)'
    BY <1>1, <2>2, WorkerKept
  <2>3. ASSUME NEW w \in Worker, Crash(w) PROVE OnTheWay(v)' /\ AtDestination(v)'
    BY <1>1, <2>3, CrashKept
  <2> QED
    BY <2>1, <2>2, <2>3 DEF Next
<1> QED
  BY <1>1, <1>2, <1>3 DEF InPlaceInv

\* A success is where it was asked for, as long as guests take no name away:
\* however many calls race, whatever fails, and whatever symlinks guests plant.
THEOREM OkIsInPlace ==
  ASSUME NoRemoval
  PROVE  Spec => []OkInPlace
<1>1. Init => InPlaceInv
  BY InitInPlace
<1>2. InPlaceInv /\ [Next]_vars => InPlaceInv'
  BY NextInPlace DEF Undisturbed
<1>3. InPlaceInv => OkInPlace
  BY DEF InPlaceInv, AtDestination, Holding, OK, OkInPlace
<1> QED
  BY <1>1, <1>2, <1>3, PTL DEF Spec

\* The daemon's steps take away no name but a call's own, as long as guests do
\* not: the cleanup finds under its name what the call put there.
THEOREM RemovesOnlyItsOwn ==
  ASSUME NoRemoval
  PROVE  Spec => RemovesOnlyOwn
<1>1. ASSUME InPlaceInv, [Next]_vars, guestOps' = guestOps, NEW p \in Path,
             entry'[p] # entry[p]
      PROVE  \/ entry[p] = NoInode /\ entry'[p] \in Worker
             \/ /\ entry[p] \in Worker /\ entry'[p] = NoInode
                /\ pc[entry[p]] = "remove" /\ pc'[entry[p]] = "done"
  <2>. FSTypeOK
    BY <1>1 DEF InPlaceInv, TypeInv, TypeOK
  <2>1. ASSUME NEW q, NEW i, Adds(q, i) PROVE entry[p] = NoInode /\ entry'[p] \in Worker
    BY <1>1, <2>1 DEF Adds, FSTypeOK
  <2>2. ASSUME NEW w \in Worker, RemovesOwn(w)
        PROVE  /\ entry[p] \in Worker /\ entry'[p] = NoInode
               /\ pc[entry[p]] = "remove" /\ pc'[entry[p]] = "done"
    BY <1>1, <2>2 DEF RemovesOwn, FSTypeOK
  <2> QED
    BY <1>1, <2>1, <2>2, NextShare DEF ShareStep, Undisturbed
<1>2. InPlaceInv /\ [Next]_vars =>
        [guestOps' = guestOps =>
           \A p \in Path : entry'[p] # entry[p] =>
             \/ entry[p] = NoInode /\ entry'[p] \in Worker
             \/ /\ entry[p] \in Worker /\ entry'[p] = NoInode
                /\ pc[entry[p]] = "remove" /\ pc'[entry[p]] = "done"]_vars
  BY <1>1
<1>3. Init => InPlaceInv
  BY InitInPlace
<1>4. InPlaceInv /\ [Next]_vars => InPlaceInv'
  BY NextInPlace DEF Undisturbed
<1> QED
  BY <1>2, <1>3, <1>4, PTL DEF Spec, RemovesOnlyOwn

-----------------------------------------------------------------------------
(* What a call has made, and what it says of it: the contract.              *)

Early == {"joinSrc", "componentsSrc", "lstatSrc", "joinDst", "componentsDst", "lstatDst",
          "joinParent", "lstatParent", "open", "waiting", "create"}

LateError == {Unsupported, Raw("EIO"), Raw("EPERM"), Raw("EISDIR"), Raw("EINVAL")}

CodeOf(e) == ResponseFromError(e).code

\* What a call has made: nothing before its creation; then a file, and whatever
\* fails afterwards has another code than EEXIST.  A call that dies leaves its file.
Making(w) ==
  /\ job[w].dst \in Target
  /\ pc[w] \in {"idle"} \cup Early => inode[w].kind = "free"
  /\ pc[w] \in {"idle", "clone", "chmod"} \cup Early => job[w].err = nil
  /\ pc[w] \in {"close", "remove"} => job[w].err \in {nil} \cup LateError
  /\ pc[w] = "done" /\ inode[w].kind # "free" => job[w].err \in {nil} \cup LateError
  /\ pc[w] = "crashed" /\ inode[w].kind # "free" =>
       job[w].dst \in Path /\ entry[job[w].dst] = w

\* Why a destination that was said to exist did: it is still there, or another
\* call for it has failed late.
Excused(w) ==
  \/ KindAt(job[w].dst) # "none"
  \/ \E v \in Worker \ {w} : job[v].dst = job[w].dst /\ FailedLate(v)

Truthful(w) == Failed(w) /\ CodeOf(job[w].err) = "EEXIST" => Excused(w)

ContractInv ==
  /\ InPlaceInv
  /\ \A w \in Worker : Making(w)
-----------------------------------------------------------------------------
(* Codes.                                                                   *)

LEMMA Codes ==
  /\ CodeOf(nil) = ""
  /\ \A code, msg : CodeOf(NewError(code, msg)) = code
  /\ \A errno : CodeOf(Raw(errno)) = CodeFromError(errno)
<1>1. CodeOf(nil) = ""
  BY DEF CodeOf, ResponseFromError, nil, SuccessResponse
<1>2. ASSUME NEW code, NEW msg PROVE CodeOf(NewError(code, msg)) = code
  BY DEF CodeOf, ResponseFromError, NewError, FailureResponse
<1>3. ASSUME NEW errno PROVE CodeOf(Raw(errno)) = CodeFromError(errno)
  BY DEF CodeOf, ResponseFromError, Raw, FailureResponse
<1> QED
  BY <1>1, <1>2, <1>3

LEMMA RawCodes ==
  ASSUME NEW errno, errno # "EEXIST"
  PROVE  CodeOf(Raw(errno)) # "EEXIST" /\ Raw(errno) # nil
<1>1. CodeFromError(errno) # "EEXIST"
  BY DEF CodeFromError
<1> QED
  BY <1>1, Codes, ErrorIsNotNil, Zenon

LEMMA LateCodes ==
  ASSUME NEW e \in LateError
  PROVE  e # nil /\ CodeOf(e) # "EEXIST"
<1>1. CASE e = Unsupported
  BY <1>1, Codes, ErrorIsNotNil DEF Unsupported
<1>2. ASSUME NEW errno \in {"EIO", "EPERM", "EISDIR", "EINVAL"}, e = Raw(errno)
      PROVE  e # nil /\ CodeOf(e) # "EEXIST"
  <2>1. errno # "EEXIST"
    BY <1>2
  <2> QED
    BY <1>2, <2>1, RawCodes
<1> QED
  BY <1>1, <1>2 DEF LateError

LEMMA ErrnoOfWalk ==
  ASSUME NEW p
  PROVE  /\ LstatErrno(p) # "EEXIST" /\ OpenErrno(p) # "EEXIST"
         /\ LstatErrno(p) = "ok" => KindAt(p) # "none"
         /\ CreateErrno(p) = "EEXIST" => KindAt(p) # "none"
<1>1. ASSUME NEW q PROVE WalkErrno(q) # "EEXIST"
  BY DEF WalkErrno
<1>2. ASSUME NEW q PROVE LstatErrno(q) # "EEXIST" /\ (LstatErrno(q) = "ok" => KindAt(q) # "none")
  BY <1>1 DEF LstatErrno
<1>3. OpenErrno(p) # "EEXIST"
  BY <1>2 DEF OpenErrno
<1>4. CreateErrno(p) = "EEXIST" => KindAt(p) # "none"
  BY <1>1 DEF CreateErrno
<1> QED
  BY <1>2, <1>3, <1>4

\* validate.Request never says that something exists.
LEMMA RequestCode ==
  ASSUME NEW r
  PROVE  CodeOf(ValidateRequest(r)) # "EEXIST"
<1>1. ASSUME NEW cases PROVE CodeOf(FirstError(cases)) # "EEXIST"
  BY Codes DEF FirstError
<1>2. CodeOf(Validate(r)) # "EEXIST"
  BY <1>1 DEF Validate
<1>3. ASSUME NEW p PROVE CodeOf(NormalizeRelative(p).err) # "EEXIST"
  <2>1. \/ NormalizeRelative(p) = Refuse("EINVAL", "path is required")
        \/ NormalizeRelative(p) = Refuse("EPERM", "absolute paths are not allowed")
        \/ NormalizeRelative(p) = Refuse("EPERM", "path must stay within the shared root")
        \/ NormalizeRelative(p) = Accept(Clean(p).parts)
    BY DEF NormalizeRelative
  <2>2. ASSUME NEW x PROVE CodeOf(Accept(x).err) = ""
    BY Codes DEF Accept
  <2>3. ASSUME NEW code, NEW msg PROVE CodeOf(Refuse(code, msg).err) = code
    BY Codes DEF Refuse
  <2>4. "EINVAL" # "EEXIST" /\ "EPERM" # "EEXIST" /\ "" # "EEXIST"
    OBVIOUS
  <2> QED
    BY <2>1, <2>2, <2>3, <2>4, Zenon
<1> QED
  BY <1>2, <1>3 DEF ValidateRequest
-----------------------------------------------------------------------------
(* What a worker's step comes to.                                           *)

Others(w) == \A v \in Worker : v # w => pc'[v] = pc[v] /\ job'[v] = job[v]

Begins(w) ==
  /\ pc[w] = "idle" /\ job'[w].dst \in Target
  /\ \/ pc'[w] = "joinSrc" /\ job'[w].err = nil
     \/ pc'[w] = "done" /\ job'[w].err # nil /\ CodeOf(job'[w].err) # "EEXIST"
  /\ UNCHANGED <<entry, inode>>

Walks(w) ==
  /\ pc[w] \in Early /\ pc'[w] \in Early
  /\ job'[w].dst = job[w].dst /\ job'[w].err = job[w].err
  /\ UNCHANGED <<entry, inode>>

Refuses(w) ==
  /\ pc[w] \in Early /\ pc'[w] = "done"
  /\ job'[w].dst = job[w].dst /\ job'[w].err # nil
  /\ CodeOf(job'[w].err) = "EEXIST" => KindAt(job[w].dst) # "none"
  /\ UNCHANGED <<entry, inode>>

Creates(w) ==
  /\ pc[w] = "create" /\ pc'[w] = "clone" /\ job'[w] = job[w]
  /\ job[w].dst \in Path /\ entry[job[w].dst] = NoInode
  /\ entry' = [entry EXCEPT ![job[w].dst] = w]

Works(w) ==
  /\ pc[w] \in {"clone", "chmod", "close"} /\ pc'[w] \in {"chmod", "close", "remove"}
  /\ job'[w].dst = job[w].dst
  /\ job'[w].err \in {nil} \cup LateError
  /\ pc'[w] = "chmod" => job'[w].err = nil
  /\ UNCHANGED entry

Closes(w) ==
  /\ pc[w] = "close" /\ pc'[w] = "done"
  /\ job'[w].dst = job[w].dst
  /\ job'[w].err = nil \/ (job'[w].err = Raw("EIO") /\ "close" \in Faults)
  /\ UNCHANGED entry

Possible(p) == LstatErrno(p) = "ok" /\ Children(p) = {}

Cleans(w) ==
  /\ pc[w] = "remove" /\ pc'[w] = "done" /\ job'[w] = job[w]
  /\ \/ Possible(job[w].dst) /\ entry' = [entry EXCEPT ![job[w].dst] = NoInode]
     \/ (~Possible(job[w].dst) \/ "remove" \in Faults) /\ UNCHANGED entry

Progress(w) ==
  \/ Begins(w) \/ Walks(w) \/ Refuses(w) \/ Creates(w) \/ Works(w) \/ Closes(w) \/ Cleans(w)

LEMMA StepWalks ==
  ASSUME TypeOK, NEW w \in Worker, pc[w] \in Early, NEW to \in Early, NEW j, Step(w, to, j),
         j.dst = job[w].dst, j.err = job[w].err
  PROVE  Progress(w)
<1>1. pc'[w] = to /\ job'[w] = j /\ UNCHANGED <<entry, inode>>
  BY Moved DEF Step, fsvars
<1> QED
  BY <1>1 DEF Progress, Walks

LEMMA FailRefuses ==
  ASSUME TypeOK, NEW w \in Worker, pc[w] \in Early, NEW e, e # nil, Fail(w, e),
         CodeOf(e) = "EEXIST" => KindAt(job[w].dst) # "none"
  PROVE  Progress(w)
<1>1. job[w] \in Job
  BY DEF TypeOK
<1>2. [job[w] EXCEPT !.err = e].err = e /\ [job[w] EXCEPT !.err = e].dst = job[w].dst
  BY <1>1 DEF Job
<1>3. pc'[w] = "done" /\ job'[w] = [job[w] EXCEPT !.err = e] /\ UNCHANGED <<entry, inode>>
  BY Moved DEF Fail, Step, fsvars
<1> QED
  BY <1>2, <1>3 DEF Progress, Refuses

LEMMA StartProgress ==
  ASSUME TypeOK, NEW w \in Worker, Start(w)
  PROVE  Progress(w)
<1>1. PICK r \in Request :
        Step(w, IF ValidateRequest(r) = nil THEN "joinSrc" ELSE "done",
             [job[w] EXCEPT !.src = NormalizeRelative(r.src).rel,
                            !.dst = NormalizeRelative(r.dst).rel, !.err = ValidateRequest(r)])
  BY DEF Start
<1>. DEFINE e == ValidateRequest(r)
            d == NormalizeRelative(r.dst).rel
            s == NormalizeRelative(r.src).rel
            j == [job[w] EXCEPT !.src = s, !.dst = d, !.err = e]
            to == IF e = nil THEN "joinSrc" ELSE "done"
<1>2. d \in Target /\ CodeOf(e) # "EEXIST" /\ pc[w] = "idle"
  BY RequestCode DEF Target, Start
<1>3. j.dst = d /\ j.err = e
  <2>. HIDE DEF d, e, s
  <2>1. job[w] \in Job
    BY DEF TypeOK
  <2> QED
    BY <2>1 DEF Job
<1>4. pc'[w] = to /\ job'[w] = j /\ UNCHANGED <<entry, inode>>
  <2>1. Step(w, to, j)
    BY <1>1
  <2>. HIDE DEF to, j
  <2> QED
    BY <2>1, Moved DEF Step, fsvars
<1>5. (to = "joinSrc" /\ e = nil) \/ (to = "done" /\ e # nil)
  OBVIOUS
<1>. HIDE DEF to, j, d, e
<1> QED
  BY <1>2, <1>3, <1>4, <1>5 DEF Progress, Begins

LEMMA JoinProgress ==
  ASSUME TypeOK, NEW w \in Worker, JoinSrc(w) \/ JoinDst(w) \/ JoinParent(w)
  PROVE  Progress(w)
<1>1. job[w] \in Job /\ pc[w] \in Early
  BY DEF TypeOK, JoinSrc, JoinDst, JoinParent, Early
<1>. DEFINE astray == NewError("EPERM", "path must stay within the shared root")
<1>2. \/ Fail(w, astray)
      \/ \E to \in Early : \E j : Step(w, to, j) /\ j.dst = job[w].dst /\ j.err = job[w].err
  <2>1. ASSUME NEW rel, JoinStep(w, rel)
        PROVE  \/ Fail(w, astray)
               \/ \E j : Step(w, pc[w], j) /\ j.dst = job[w].dst /\ j.err = job[w].err
    <3>1. ASSUME NEW k, NEW cur
          PROVE  LET j == [job[w] EXCEPT !.k = k, !.cur = cur]
                 IN  j.dst = job[w].dst /\ j.err = job[w].err
      BY <1>1 DEF Job
    <3>2. \/ Fail(w, astray)
          \/ \E k, cur : Step(w, pc[w], [job[w] EXCEPT !.k = k, !.cur = cur])
      BY <2>1 DEF JoinStep
    <3> QED
      BY <3>1, <3>2
  <2>2. ASSUME NEW k, NEW cur, NEW x
        PROVE  /\ [job[w] EXCEPT !.k = k, !.cur = cur, !.srcPath = x].dst = job[w].dst
               /\ [job[w] EXCEPT !.k = k, !.cur = cur, !.srcPath = x].err = job[w].err
               /\ [job[w] EXCEPT !.k = k, !.cur = cur, !.dstPath = x].dst = job[w].dst
               /\ [job[w] EXCEPT !.k = k, !.cur = cur, !.dstPath = x].err = job[w].err
               /\ [job[w] EXCEPT !.k = k].dst = job[w].dst
               /\ [job[w] EXCEPT !.k = k].err = job[w].err
    BY <1>1 DEF Job
  <2>3. {"componentsSrc", "componentsDst", "lstatParent"} \subseteq Early
    BY DEF Early
  <2>4. CASE JoinSrc(w)
    <3>. DEFINE j == [job[w] EXCEPT !.k = 0, !.cur = << >>, !.srcPath = job[w].cur]
    <3>1. JoinStep(w, job[w].src) \/ Step(w, "componentsSrc", j)
      BY <2>4 DEF JoinSrc
    <3>2. j.dst = job[w].dst /\ j.err = job[w].err
      BY <2>2
    <3>. HIDE DEF j
    <3> QED
      BY <1>1, <2>1, <2>3, <3>1, <3>2
  <2>5. CASE JoinDst(w)
    <3>. DEFINE j == [job[w] EXCEPT !.k = 0, !.cur = << >>, !.dstPath = job[w].cur]
    <3>1. JoinStep(w, job[w].dst) \/ Step(w, "componentsDst", j)
      BY <2>5 DEF JoinDst
    <3>2. j.dst = job[w].dst /\ j.err = job[w].err
      BY <2>2
    <3>. HIDE DEF j
    <3> QED
      BY <1>1, <2>1, <2>3, <3>1, <3>2
  <2>6. CASE JoinParent(w)
    BY <1>1, <2>1, <2>2, <2>3, <2>6 DEF JoinParent
  <2> QED
    BY <2>4, <2>5, <2>6
<1>3. astray # nil /\ CodeOf(astray) # "EEXIST"
  BY Codes, ErrorIsNotNil
<1>. HIDE DEF astray
<1> QED
  BY <1>1, <1>2, <1>3, StepWalks, FailRefuses

LEMMA ComponentsProgress ==
  ASSUME TypeOK, NEW w \in Worker, ComponentsSrc(w) \/ ComponentsDst(w)
  PROVE  Progress(w)
<1>1. job[w] \in Job /\ pc[w] \in Early
  BY DEF TypeOK, ComponentsSrc, ComponentsDst, Early
<1>2. \A k : [job[w] EXCEPT !.k = k].dst = job[w].dst /\ [job[w] EXCEPT !.k = k].err = job[w].err
  BY <1>1 DEF Job
<1>3. ASSUME NEW rel, NEW b, NEW msg, NEW to \in Early,
             RejectSymlinkComponents(w, rel, b, msg, to)
      PROVE  Progress(w)
  <2>. DEFINE errno == LstatErrno(Prefix(rel, job[w].k + 1))
  <2>1. \/ \E t \in Early : \E k : Step(w, t, [job[w] EXCEPT !.k = k])
        \/ Fail(w, NewError("EINVAL", "symlinks are not supported"))
        \/ Fail(w, NewError("ENOENT", msg))
        \/ Fail(w, Raw(errno)) \/ Fail(w, Raw("EACCES"))
    BY <1>1, <1>3, Zenon DEF RejectSymlinkComponents
  <2>2. /\ CodeOf(Raw(errno)) # "EEXIST" /\ Raw(errno) # nil
        /\ CodeOf(Raw("EACCES")) # "EEXIST" /\ Raw("EACCES") # nil
    BY ErrnoOfWalk, RawCodes
  <2>3. /\ CodeOf(NewError("EINVAL", "symlinks are not supported")) # "EEXIST"
        /\ CodeOf(NewError("ENOENT", msg)) # "EEXIST"
    BY Codes
  <2>4. CASE \E t \in Early : \E k : Step(w, t, [job[w] EXCEPT !.k = k])
    BY <1>1, <1>2, <2>4, StepWalks
  <2>5. ASSUME NEW e, e # nil, CodeOf(e) # "EEXIST", Fail(w, e) PROVE Progress(w)
    BY <1>1, <2>5, FailRefuses
  <2>. HIDE DEF errno
  <2> QED
    BY <2>1, <2>2, <2>3, <2>4, <2>5, ErrorIsNotNil, Zenon
<1>4. "lstatSrc" \in Early /\ "lstatDst" \in Early
  BY DEF Early
<1> QED
  BY <1>3, <1>4 DEF ComponentsSrc, ComponentsDst

LEMMA LstatProgress ==
  ASSUME InPlaceInv, NEW w \in Worker,
         LstatSrc(w) \/ LstatDst(w) \/ LstatParent(w) \/ Open(w) \/ WriterComes(w)
  PROVE  Progress(w)
<1>1. TypeOK /\ job[w] \in Job /\ AtDestination(w)
  BY DEF InPlaceInv, TypeInv, TypeOK
<1>2. pc[w] \in Early
  BY DEF LstatSrc, LstatDst, LstatParent, Open, WriterComes, Early
<1>3. ASSUME NEW e, e # nil, Fail(w, e),
             CodeOf(e) = "EEXIST" => KindAt(job[w].dst) # "none"
      PROVE  Progress(w)
  BY <1>1, <1>2, <1>3, FailRefuses
<1>4. ASSUME NEW errno, errno # "EEXIST", Fail(w, Raw(errno)) PROVE Progress(w)
  BY <1>3, <1>4, RawCodes
<1>5. ASSUME NEW code \in {"ENOENT", "EINVAL"}, NEW msg, Fail(w, NewError(code, msg))
      PROVE  Progress(w)
  <2>1. code # "EEXIST"
    BY <1>5
  <2> QED
    BY <1>3, <1>5, <2>1, Codes, ErrorIsNotNil
<1>6. ASSUME NEW to \in Early, NEW j, Step(w, to, j), j.dst = job[w].dst, j.err = job[w].err
      PROVE  Progress(w)
  BY <1>1, <1>2, <1>6, StepWalks
<1>7. \A x : /\ [job[w] EXCEPT !.mode = x].dst = job[w].dst
             /\ [job[w] EXCEPT !.mode = x].err = job[w].err
             /\ [job[w] EXCEPT !.fd = x].dst = job[w].dst
             /\ [job[w] EXCEPT !.fd = x].err = job[w].err
  BY <1>1 DEF Job
<1>8. {"joinDst", "joinParent", "open", "waiting", "create"} \subseteq Early
  BY DEF Early
<1>13. ~Fail(w, Raw("EACCES")) \/ Progress(w)
  BY <1>4
<1>9. CASE LstatSrc(w)
  <2>. DEFINE errno == LstatErrno(job[w].srcPath)
  <2>1. \/ Fail(w, Raw(errno)) \/ Fail(w, Raw("EACCES"))
        \/ \E code \in {"ENOENT", "EINVAL"} : \E msg : Fail(w, NewError(code, msg))
        \/ \E x : Step(w, "joinDst", [job[w] EXCEPT !.mode = x])
    BY <1>9 DEF LstatSrc
  <2>2. errno # "EEXIST"
    BY ErrnoOfWalk
  <2>. HIDE DEF errno
  <2> QED
    BY <1>4, <1>5, <1>6, <1>7, <1>8, <1>13, <2>1, <2>2
<1>10. CASE LstatDst(w)
  <2>. DEFINE errno == LstatErrno(job[w].dstPath)
  <2>1. \/ errno = "ok" /\ Fail(w, NewError("EEXIST", "destination already exists"))
        \/ Fail(w, Raw(errno)) \/ Fail(w, Raw("EACCES"))
        \/ Step(w, "joinParent", job[w])
    BY <1>10 DEF LstatDst
  <2>2. errno # "EEXIST" /\ (errno = "ok" => KindAt(job[w].dst) # "none")
    <3>1. job[w].dstPath = job[w].dst
      BY <1>1, <1>10 DEF AtDestination, LstatDst
    <3> QED
      BY <3>1, ErrnoOfWalk
  <2>. HIDE DEF errno
  <2> QED
    BY <1>3, <1>4, <1>6, <1>8, <1>13, <2>1, <2>2, ErrorIsNotNil
<1>11. CASE LstatParent(w)
  <2>. DEFINE errno == LstatErrno(job[w].cur)
  <2>1. \/ Fail(w, Raw(errno)) \/ Fail(w, Raw("EACCES"))
        \/ \E code \in {"ENOENT", "EINVAL"} : \E msg : Fail(w, NewError(code, msg))
        \/ Step(w, "open", job[w])
    BY <1>11 DEF LstatParent
  <2>2. errno # "EEXIST"
    BY ErrnoOfWalk
  <2>. HIDE DEF errno
  <2> QED
    BY <1>4, <1>5, <1>6, <1>8, <1>13, <2>1, <2>2
<1>12. CASE Open(w)
  <2>. DEFINE errno == OpenErrno(job[w].srcPath)
  <2>1. \/ Fail(w, Raw(errno))
        \/ Fail(w, Raw("EACCES")) \/ Fail(w, Raw("ENXIO"))
        \/ \E to \in {"waiting", "create"} : \E x : Step(w, to, [job[w] EXCEPT !.fd = x])
    BY <1>12 DEF Open
  <2>2. errno # "EEXIST" /\ "EACCES" # "EEXIST" /\ "ENXIO" # "EEXIST"
    BY ErrnoOfWalk
  <2>. HIDE DEF errno
  <2> QED
    BY <1>4, <1>6, <1>7, <1>8, <2>1, <2>2
<1>14. CASE WriterComes(w)
  BY <1>6, <1>8, <1>14 DEF WriterComes
<1> QED
  BY <1>9, <1>10, <1>11, <1>12, <1>14

LEMMA CreateProgress ==
  ASSUME InPlaceInv, NEW w \in Worker, Create(w)
  PROVE  Progress(w)
<1>1. TypeOK /\ AtDestination(w) /\ pc[w] = "create" /\ "create" \in Early
  BY DEF InPlaceInv, TypeInv, Create, Early
<1>2. job[w].dstPath = job[w].dst
  BY <1>1 DEF AtDestination
<1>3. CASE CreateErrno(job[w].dstPath) = "ok" /\ NewFile(w, job[w].dstPath)
  <2>1. job[w].dst \in Path /\ KindAt(job[w].dst) = "none"
    BY <1>2, <1>3 DEF CreateErrno
  <2>2. entry[job[w].dst] = NoInode
    BY <1>1, <2>1, PathAssumption DEF KindAt, TypeOK, FSTypeOK, Node, Kind
  <2>3. pc'[w] = "clone" /\ job'[w] = job[w]
    BY <1>1, <1>3, Moved DEF NewFile
  <2> QED
    BY <1>1, <1>2, <1>3, <2>1, <2>2, <2>3 DEF NewFile, Progress, Creates
<1>4. ASSUME NEW errno, errno = "EEXIST" => KindAt(job[w].dst) # "none", Fail(w, Raw(errno))
      PROVE  Progress(w)
  BY <1>1, <1>4, FailRefuses, RawCodes, ErrorIsNotNil
<1>5. CreateErrno(job[w].dstPath) = "EEXIST" => KindAt(job[w].dst) # "none"
  BY <1>2, ErrnoOfWalk
<1> QED
  BY <1>3, <1>4, <1>5 DEF Create

LEMMA FinishProgress ==
  ASSUME InPlaceInv, NEW w \in Worker, Making(w),
         Clone(w) \/ Chmod(w) \/ Close(w) \/ CleanupRemove(w)
  PROVE  Progress(w)
<1>1. TypeOK /\ job[w] \in Job /\ AtDestination(w)
  BY DEF InPlaceInv, TypeInv, TypeOK
<1>2. \A x : [job[w] EXCEPT !.err = x].dst = job[w].dst /\ [job[w] EXCEPT !.err = x].err = x
  BY <1>1 DEF Job
<1>3. ASSUME NEW to, NEW j, Goto(w, to, j) PROVE pc'[w] = to /\ job'[w] = j
  BY <1>1, <1>3, Moved
<1>4. ASSUME NEW to, NEW x, Goto(w, to, [job[w] EXCEPT !.err = x])
      PROVE  pc'[w] = to /\ job'[w].dst = job[w].dst /\ job'[w].err = x
  <2>. DEFINE j == [job[w] EXCEPT !.err = x]
  <2>1. j.dst = job[w].dst /\ j.err = x
    BY <1>2
  <2>2. Goto(w, to, j)
    BY <1>4
  <2>. HIDE DEF j
  <2> QED
    BY <1>3, <2>1, <2>2
<1>5. CASE Clone(w)
  <2>1. /\ entry' = entry
        /\ \/ Goto(w, "chmod", job[w])
           \/ \E e \in LateError : Goto(w, "close", [job[w] EXCEPT !.err = e])
    BY <1>5 DEF Clone, Step, fsvars, LateError
  <2>2. pc[w] = "clone" /\ job[w].err = nil
    BY <1>5 DEF Clone, Making
  <2>3. CASE Goto(w, "chmod", job[w])
    BY <1>3, <2>1, <2>2, <2>3 DEF Progress, Works
  <2>4. CASE \E e \in LateError : Goto(w, "close", [job[w] EXCEPT !.err = e])
    BY <1>4, <2>1, <2>2, <2>4 DEF Progress, Works
  <2> QED
    BY <2>1, <2>3, <2>4
<1>6. CASE Chmod(w)
  <2>1. /\ entry' = entry
        /\ \/ Goto(w, "close", job[w])
           \/ \E e \in LateError : Goto(w, "close", [job[w] EXCEPT !.err = e])
    BY <1>6 DEF Chmod, Step, fsvars, LateError
  <2>2. pc[w] = "chmod" /\ job[w].err = nil
    BY <1>6 DEF Chmod, Making
  <2>3. CASE Goto(w, "close", job[w])
    BY <1>3, <2>1, <2>2, <2>3 DEF Progress, Works
  <2>4. CASE \E e \in LateError : Goto(w, "close", [job[w] EXCEPT !.err = e])
    BY <1>4, <2>1, <2>2, <2>4 DEF Progress, Works
  <2> QED
    BY <2>1, <2>3, <2>4
<1>7. CASE Close(w)
  <2>1. pc[w] = "close" /\ job[w].err \in {nil} \cup LateError /\ entry' = entry
    BY <1>7 DEF Close, Making, Step, fsvars
  <2>2. CASE job[w].err # nil
    <3>1. \/ Goto(w, "remove", job[w])
          \/ Goto(w, "remove", [job[w] EXCEPT !.err = job[w].err])
      BY <1>7, <2>2 DEF Close, Step
    <3>2. pc'[w] = "remove" /\ job'[w].dst = job[w].dst /\ job'[w].err = job[w].err
      BY <1>3, <1>4, <3>1
    <3> QED
      BY <2>1, <3>2 DEF Progress, Works
  <2>3. CASE job[w].err = nil
    <3>1. \/ Goto(w, "done", job[w])
          \/ "close" \in Faults /\ Goto(w, "done", [job[w] EXCEPT !.err = Raw("EIO")])
      BY <1>7, <2>3 DEF Close, Step
    <3>2. CASE Goto(w, "done", job[w])
      BY <1>3, <2>1, <2>3, <3>2 DEF Progress, Closes
    <3>3. CASE "close" \in Faults /\ Goto(w, "done", [job[w] EXCEPT !.err = Raw("EIO")])
      BY <1>4, <2>1, <3>3 DEF Progress, Closes
    <3> QED
      BY <3>1, <3>2, <3>3
  <2> QED
    BY <2>2, <2>3
<1>8. CASE CleanupRemove(w)
  <2>1. pc[w] = "remove" /\ job[w].dstPath = job[w].dst
    BY <1>1, <1>8 DEF CleanupRemove, AtDestination, Holding
  <2>2. Goto(w, "done", job[w])
    BY <1>8 DEF CleanupRemove, Step
  <2>3. \/ Possible(job[w].dst) /\ entry' = [entry EXCEPT ![job[w].dst] = NoInode]
        \/ (~Possible(job[w].dst) \/ "remove" \in Faults) /\ UNCHANGED entry
    BY <1>8, <2>1 DEF CleanupRemove, Step, fsvars, Possible
  <2> QED
    BY <1>3, <2>1, <2>2, <2>3 DEF Progress, Cleans
<1> QED
  BY <1>5, <1>6, <1>7, <1>8

\* Workers are no guests.
LEMMA WorkerGuests ==
  ASSUME NEW w \in Worker, WorkerStep(w) \/ WriterComes(w)
  PROVE  guestOps' = guestOps
<1>1. ASSUME NEW to, NEW j, Step(w, to, j) PROVE guestOps' = guestOps
  BY <1>1 DEF Step, fsvars
<1>2. ASSUME NEW e, Fail(w, e) PROVE guestOps' = guestOps
  BY <1>1, <1>2 DEF Fail
<1>3. ASSUME NEW rel, NEW b, NEW msg, NEW to, RejectSymlinkComponents(w, rel, b, msg, to)
      PROVE  guestOps' = guestOps
  BY <1>1, <1>2, <1>3, Zenon DEF RejectSymlinkComponents
<1>4. CASE Start(w) \/ JoinSrc(w) \/ JoinDst(w) \/ JoinParent(w) \/ WriterComes(w)
  BY <1>1, <1>2, <1>4 DEF Start, JoinSrc, JoinDst, JoinParent, JoinStep, WriterComes
<1>5. CASE ComponentsSrc(w) \/ ComponentsDst(w)
  BY <1>3, <1>5 DEF ComponentsSrc, ComponentsDst
<1>6. CASE LstatSrc(w) \/ LstatDst(w) \/ LstatParent(w)
  BY <1>1, <1>2, <1>6, Zenon DEF LstatSrc, LstatDst, LstatParent
<1>7. CASE Open(w) \/ Create(w)
  BY <1>1, <1>2, <1>7 DEF Open, Create, NewFile
<1>8. CASE Clone(w) \/ Chmod(w) \/ Close(w) \/ CleanupRemove(w)
  BY <1>1, <1>8 DEF Clone, Chmod, Close, CleanupRemove
<1> QED
  BY <1>4, <1>5, <1>6, <1>7, <1>8 DEF WorkerStep

LEMMA WorkerProgress ==
  ASSUME InPlaceInv, NEW w \in Worker, Making(w), WorkerStep(w) \/ WriterComes(w)
  PROVE  Progress(w) /\ Others(w)
<1>1. TypeOK
  BY DEF InPlaceInv, TypeInv
<1>2. Others(w)
  BY <1>1, WorkerMoves, Moved DEF Others
<1>3. Progress(w)
  BY <1>1, StartProgress, JoinProgress, ComponentsProgress, LstatProgress, CreateProgress,
     FinishProgress DEF WorkerStep
<1> QED
  BY <1>2, <1>3
-----------------------------------------------------------------------------
(* What the calls have made, step by step.                                  *)

\* A step is one of a guest, or of one worker, or nothing happens.
LEMMA StepCases ==
  ASSUME ContractInv, [Next]_vars
  PROVE  \/ \A v \in Worker : pc'[v] = pc[v] /\ job'[v] = job[v]
         \/ \E w \in Worker : /\ WorkerStep(w) \/ WriterComes(w)
                              /\ Progress(w) /\ Others(w) /\ guestOps' = guestOps
         \/ \E w \in Worker : Crash(w) /\ pc'[w] = "crashed" /\ job'[w] = job[w] /\ Others(w)
<1>1. CASE Guests \/ Finished \/ UNCHANGED vars
  BY <1>1 DEF Guests, Finished, vars
<1>2. ASSUME NEW w \in Worker, WorkerStep(w) \/ WriterComes(w)
      PROVE  Progress(w) /\ Others(w) /\ guestOps' = guestOps
  <2>1. Progress(w) /\ Others(w)
    BY <1>2, WorkerProgress DEF ContractInv
  <2>2. guestOps' = guestOps
    BY <1>2, WorkerGuests
  <2> QED
    BY <2>1, <2>2
<1>3. ASSUME NEW w \in Worker, Crash(w)
      PROVE  pc'[w] = "crashed" /\ job'[w] = job[w] /\ Others(w)
  BY <1>3 DEF Crash, Others, ContractInv, InPlaceInv, TypeInv, TypeOK
<1> QED
  BY <1>1, <1>2, <1>3 DEF Next

\* A call that has ended stays as it is.
LEMMA DoneStays ==
  ASSUME ContractInv, [Next]_vars, NEW v \in Worker, Ended(v)
  PROVE  pc'[v] = pc[v] /\ job'[v] = job[v]
<1>1. ASSUME NEW w \in Worker, Progress(w) PROVE w # v
  BY <1>1 DEF Progress, Begins, Walks, Refuses, Creates, Works, Closes, Cleans, Ended, Early
<1>2. ASSUME NEW w \in Worker, Crash(w) PROVE w # v
  BY <1>2 DEF Crash
<1> QED
  BY <1>1, <1>2, StepCases DEF Others

\* A call's inode is taken when the call creates its file, and then for good.
LEMMA KindStep ==
  ASSUME Undisturbed, ContractInv, [Next]_vars, NEW v \in Worker
  PROVE  \/ inode'[v].kind = inode[v].kind
         \/ pc[v] = "create" /\ pc'[v] = "clone"
<1>. /\ TypeInv /\ TypeOK /\ FSTypeOK /\ TreeOK /\ InPlaceInv /\ AtDestination(v)
     /\ v \in Inode /\ v \notin GuestInode
  BY WorkerAssumption DEF ContractInv, InPlaceInv, TypeInv, TypeOK
<1>1. CASE Guests
  <2>1. ASSUME NEW p \in Path, NEW i \in GuestInode, NEW k \in Kind, NEW c \in Content,
               NEW m \in Mode, GuestCreate(p, i, k, c, m)
        PROVE  inode'[v] = inode[v]
    BY <2>1 DEF GuestCreate, FSTypeOK
  <2>2. ASSUME NEW p \in Path, NEW c \in Content, GuestWrite(p, c)
        PROVE  inode'[v].kind = inode[v].kind
    BY <2>2 DEF GuestWrite, FSTypeOK, Node
  <2>3. ASSUME NEW p \in Path, NEW q \in Path, GuestUnlink(p) \/ GuestRename(p, q) \/ GuestLink(p, q)
        PROVE  inode' = inode
    BY <2>3 DEF GuestUnlink, GuestRename, GuestLink
  <2> QED
    BY <1>1, <2>1, <2>2, <2>3 DEF Guests, GuestNext
<1>2. CASE UNCHANGED inode
  BY <1>2
<1>3. ASSUME NEW w \in Worker, WorkerStep(w) \/ WriterComes(w),
             inode'[v].kind # inode[v].kind
      PROVE  pc[v] = "create" /\ pc'[v] = "clone"
  <2>1. Progress(w) /\ Others(w) /\ guestOps' = guestOps
    BY <1>3, WorkerProgress, WorkerGuests DEF ContractInv
  <2>2. pc[v] \in {"create", "clone", "chmod"} /\ pc'[v] # pc[v]
    BY <1>3, <2>1, WriteStep
  <2>3. v = w
    BY <2>1, <2>2 DEF Others
  <2>4. inode[v].kind = "free"
    BY <1>3, NextShare DEF ShareStep, KindsKept
  <2>5. pc[v] = "create"
    BY <2>2, <2>4, PathAssumption, InodeAssumption DEF AtDestination, Holding, TreeOK
  <2>6. ~Begins(w) /\ ~Walks(w) /\ ~Refuses(w)
    BY <1>3 DEF Begins, Walks, Refuses
  <2> QED
    BY <2>1, <2>3, <2>5, <2>6 DEF Progress, Creates, Works, Closes, Cleans
<1> QED
  BY <1>1, <1>2, <1>3 DEF Next, Finished, Crash, vars

LEMMA StillMaking ==
  ASSUME Undisturbed, ContractInv, [Next]_vars, NEW v \in Worker,
         pc'[v] = pc[v], job'[v] = job[v]
  PROVE  Making(v)'
<1>. /\ FSTypeOK /\ Making(v) /\ v \in Inode /\ v # NoInode /\ InPlaceInv
  BY WorkerAssumption, InodeAssumption DEF ContractInv, InPlaceInv, TypeInv, TypeOK
<1>1. inode'[v].kind = inode[v].kind
  BY KindStep
<1>2. ASSUME pc[v] = "crashed", job[v].dst \in Path, entry[job[v].dst] = v
      PROVE  entry'[job[v].dst] = v
  <2>1. ASSUME NEW q, NEW i, Adds(q, i) PROVE entry'[job[v].dst] = v
    BY <1>2, <2>1 DEF Adds, FSTypeOK
  <2>2. ASSUME NEW w \in Worker, RemovesOwn(w) PROVE entry'[job[v].dst] = v
    BY <1>2, <2>2 DEF RemovesOwn, FSTypeOK
  <2> QED
    BY <1>2, <2>1, <2>2, NextShare DEF ShareStep
<1> QED
  BY <1>1, <1>2 DEF Making

LEMMA ProgressMaking ==
  ASSUME Undisturbed, ContractInv, [Next]_vars, NEW w \in Worker, Progress(w)
  PROVE  Making(w)'
<1>. Making(w)
  BY DEF ContractInv
<1>1. CASE Begins(w)
  BY <1>1 DEF Begins, Making, Early
<1>2. CASE Walks(w) \/ Refuses(w)
  BY <1>2 DEF Walks, Refuses, Making, Early
<1>3. CASE Creates(w)
  BY <1>3 DEF Creates, Making, Early
<1>4. CASE Works(w)
  BY <1>4 DEF Works, Making, Early
<1>5. CASE Closes(w)
  BY <1>5 DEF Closes, Making, Early, LateError
<1>6. CASE Cleans(w)
  BY <1>6 DEF Cleans, Making, Early
<1> QED
  BY <1>1, <1>2, <1>3, <1>4, <1>5, <1>6 DEF Progress

LEMMA CrashMaking ==
  ASSUME ContractInv, NEW w \in Worker, Crash(w), pc'[w] = "crashed", job'[w] = job[w]
  PROVE  Making(w)'
<1>1. /\ Making(w) /\ AtDestination(w) /\ pc[w] \in PC
      /\ UNCHANGED <<entry, inode>> /\ pc[w] # "idle" /\ ~Ended(w)
  BY DEF ContractInv, InPlaceInv, TypeInv, TypeOK, Crash
<1>2. inode[w].kind # "free" => Holding(w)
  BY <1>1 DEF Making, Early, PC, Ended, Holding
<1> QED
  BY <1>1, <1>2 DEF Making, AtDestination, Early

LEMMA NextContract ==
  ASSUME Undisturbed, ContractInv, [Next]_vars
  PROVE  ContractInv'
<1>1. InPlaceInv'
  BY NextInPlace DEF ContractInv
<1>2. ASSUME NEW v \in Worker PROVE Making(v)'
  BY StepCases, StillMaking, ProgressMaking, CrashMaking DEF Others
<1> QED
  BY <1>1, <1>2 DEF ContractInv

LEMMA InitContract == Init => ContractInv
<1>. SUFFICES ASSUME Init PROVE ContractInv
  OBVIOUS
<1>1. InPlaceInv
  BY InitInPlace
<1>2. ASSUME NEW w \in Worker PROVE Making(w)
  BY WorkerAssumption DEF Init, FSInit, NoJob, Making, Early, Target
<1> QED
  BY <1>1, <1>2 DEF ContractInv
-----------------------------------------------------------------------------
(* EEXIST is not invented.                                                  *)

\* The excuse of a call that has ended outlives every step.
LEMMA StillExcused ==
  ASSUME NoRemoval, ContractInv, [Next]_vars, NEW v \in Worker, pc[v] = "done",
         job'[v] = job[v], Excused(v)
  PROVE  Excused(v)'
<1>. /\ FSTypeOK /\ Undisturbed /\ FSTypeOK'
  <2>1. Undisturbed
    BY DEF Undisturbed
  <2>2. InPlaceInv /\ InPlaceInv'
    BY <2>1, NextContract DEF ContractInv
  <2> QED
    BY <2>1, <2>2 DEF InPlaceInv, TypeInv, TypeOK
<1>1. CASE \E u \in Worker \ {v} : job[u].dst = job[v].dst /\ FailedLate(u)
  <2>1. PICK u \in Worker \ {v} : job[u].dst = job[v].dst /\ FailedLate(u)
    BY <1>1
  <2>2. pc'[u] = pc[u] /\ job'[u] = job[u]
    BY <2>1, DoneStays DEF FailedLate, Failed, Ended
  <2>3. FailedLate(u)'
    BY <2>1, <2>2 DEF FailedLate, Failed
  <2> QED
    BY <2>1, <2>2, <2>3 DEF Excused
<1>2. CASE KindAt(job[v].dst) # "none"
  <2>1. CASE job[v].dst = << >>
    BY <2>1 DEF Excused, KindAt
  <2>2. CASE job[v].dst # << >>
    <3>. DEFINE d == job[v].dst
    <3>1. d \in Path /\ entry[d] # NoInode
      BY <1>2, <2>2 DEF KindAt
    <3>2. CASE entry'[d] # NoInode
      BY <2>2, <3>1, <3>2, InodeAssumption DEF Excused, KindAt, FSTypeOK, Node, Kind
    <3>3. CASE entry'[d] = NoInode
      <4>1. PICK u \in Worker : RemovesOwn(u)
        <5>1. ASSUME NEW q, NEW i, Adds(q, i) PROVE FALSE
          BY <3>1, <3>3, <5>1, InodeAssumption DEF Adds, FSTypeOK
        <5> QED
          BY <3>1, <3>3, <5>1, NextShare DEF ShareStep, ContractInv
      <4>2. job[u].dst = d /\ u # v
        BY <3>1, <3>3, <4>1 DEF RemovesOwn, FSTypeOK
      <4>3. job[u].err # nil /\ job[u].err \in LateError
        BY <4>1 DEF RemovesOwn, ContractInv, InPlaceInv, AtDestination, Making
      <4>4. FailedLate(u)' /\ job'[u].dst = d
        BY <4>1, <4>2, <4>3 DEF RemovesOwn, FailedLate, Failed, LateError
      <4> QED
        BY <4>2, <4>4 DEF Excused
    <3> QED
      BY <3>2, <3>3
  <2> QED
    BY <2>1, <2>2
<1> QED
  BY <1>1, <1>2 DEF Excused

LEMMA NextTruthful ==
  ASSUME NoRemoval, ContractInv, [Next]_vars, \A w \in Worker : Truthful(w), NEW v \in Worker
  PROVE  Truthful(v)'
<1>. SUFFICES ASSUME Failed(v)', CodeOf(job'[v].err) = "EEXIST" PROVE Excused(v)'
  BY DEF Truthful, CodeOf
<1>1. CASE pc'[v] = pc[v] /\ job'[v] = job[v]
  <2>1. Failed(v) /\ CodeOf(job[v].err) = "EEXIST"
    BY <1>1 DEF Failed
  <2> QED
    BY <1>1, <2>1, StillExcused DEF Truthful, Failed
<1>2. ASSUME Progress(v) PROVE Excused(v)'
  <2>. Making(v)
    BY DEF ContractInv
  <2>1. Refuses(v)
    <3>1. ~Begins(v) /\ ~Walks(v) /\ ~Creates(v) /\ ~Works(v)
      BY DEF Begins, Walks, Creates, Works, Failed, Early
    <3>2. ~Closes(v)
      BY Codes, LateCodes DEF Closes, Failed, LateError
    <3>3. ~Cleans(v)
      BY LateCodes DEF Cleans, Failed, Making
    <3> QED
      BY <1>2, <3>1, <3>2, <3>3 DEF Progress
  <2>2. KindAt(job[v].dst)' = KindAt(job[v].dst)
    BY <2>1 DEF Refuses, KindAt
  <2> QED
    BY <2>1, <2>2 DEF Refuses, Excused
<1>3. pc'[v] # "crashed"
  BY DEF Failed
<1> QED
  BY <1>1, <1>2, <1>3, StepCases DEF Others

\* EEXIST is not invented (EexistIsTruthful): what is said to exist does, or did
\* until another call for it failed, however many calls race for a name.
THEOREM EexistIsTrue ==
  ASSUME NoRemoval
  PROVE  Spec => []EexistIsTruthful
<1>. DEFINE TruthInv == ContractInv /\ \A w \in Worker : Truthful(w)
<1>1. Init => TruthInv
  BY InitContract DEF Init, Truthful, Failed
<1>2. TruthInv /\ [Next]_vars => TruthInv'
  BY NextContract, NextTruthful DEF Undisturbed
<1>3. TruthInv => EexistIsTruthful
  BY DEF Truthful, Excused, CodeOf, Response, EexistIsTruthful
<1>. HIDE DEF TruthInv
<1> QED
  BY <1>1, <1>2, <1>3, PTL DEF Spec
-----------------------------------------------------------------------------
(* A failure leaves nothing.                                                *)

\* Nobody but a call that holds its file, or died holding it, has a name.
Named(w) ==
  \A p \in Path : entry[p] = w => p = job[w].dst /\ (Holding(w) \/ pc[w] = "crashed")

CleanInv == guestOps = 0 => ContractInv /\ \A w \in Worker : Named(w)

\* The file of a call that is to be removed can be: it is there, and no directory.
LEMMA RemovalIsPossible ==
  ASSUME InPlaceInv, NEW w \in Worker, pc[w] = "remove"
  PROVE  job[w].dst \in Path /\ Possible(job[w].dst)
<1>. DEFINE d == job[w].dst
<1>1. /\ d \in Path /\ entry[d] = w /\ w \in Inode /\ w # NoInode /\ FSTypeOK /\ TreeOK
      /\ d # << >> /\ inode[w].kind = "file"
  BY WorkerAssumption, InodeAssumption, PathAssumption
     DEF InPlaceInv, AtDestination, Holding, TypeInv, TypeOK, TreeOK
<1>2. KindAt(d) = "file"
  BY <1>1 DEF KindAt
<1>3. WalkErrno(d) = "ok"
  BY <1>1 DEF TreeOK, WalkErrno
<1>4. ASSUME NEW q \in Path, Dir(q) = d, entry[q] # NoInode PROVE FALSE
  <2>1. q \in RelPath /\ Len(q) \in Nat
    BY PathType DEF RelPath
  <2>2. Len(q) - 1 \in 1 .. Len(q) - 1
    BY <1>1, <1>4, <2>1, PathAssumption, PrefixFacts
  <2>3. KindAt(Prefix(q, Len(q) - 1)) = "dir"
    BY <1>1, <1>4, <2>2 DEF TreeOK
  <2> QED
    BY <1>2, <1>4, <2>3 DEF Dir
<1>5. LstatErrno(d) = "ok"
  BY <1>2, <1>3 DEF LstatErrno
<1> QED
  BY <1>1, <1>4, <1>5 DEF Possible, Children

LEMMA NextNamed ==
  ASSUME Faults \cap {"close", "remove"} = {}, ContractInv, [Next]_vars, guestOps' = guestOps,
         \A w \in Worker : Named(w), NEW v \in Worker
  PROVE  Named(v)'
<1>. /\ FSTypeOK /\ InPlaceInv /\ Making(v) /\ AtDestination(v) /\ TreeOK
     /\ v \in Inode /\ v # NoInode
  BY WorkerAssumption, InodeAssumption DEF ContractInv, InPlaceInv, TypeInv, TypeOK
<1>1. ASSUME NEW p \in Path, entry'[p] = v
      PROVE  \/ entry[p] = v
             \/ Progress(v) /\ Creates(v) /\ p = job[v].dst
  <2>1. CASE UNCHANGED entry
    BY <1>1, <2>1
  <2>2. ASSUME NEW w \in Worker, Progress(w)
        PROVE  \/ entry[p] = v
               \/ Progress(v) /\ Creates(v) /\ p = job[v].dst
    <3>1. CASE Creates(w)
      BY <1>1, <2>2, <3>1 DEF Creates, FSTypeOK
    <3>2. CASE Cleans(w)
      BY <1>1, <3>2 DEF Cleans, FSTypeOK
    <3>3. CASE UNCHANGED entry
      BY <1>1, <3>3
    <3> QED
      BY <2>2, <3>1, <3>2, <3>3 DEF Progress, Begins, Walks, Refuses, Works, Closes
  <2>3. ~Guests
    <3>1. \A op : ~GuestStep(op)
      BY DEF GuestStep, FSTypeOK
    <3> QED
      BY <3>1, Zenon
         DEF Guests, GuestNext, GuestCreate, GuestWrite, GuestUnlink, GuestRename, GuestLink
  <2>4. CASE \E w \in Worker : Progress(w)
    BY <2>2, <2>4
  <2>5. ASSUME NEW w \in Worker, WorkerStep(w) \/ WriterComes(w) PROVE Progress(w)
    BY <2>5, WorkerProgress DEF ContractInv
  <2> QED
    BY <2>1, <2>3, <2>4, <2>5 DEF Next, Finished, Crash, vars
<1>2. ASSUME Progress(v), NEW p \in Path, entry'[p] = v
      PROVE  p = job'[v].dst /\ Holding(v)'
  <2>1. CASE Creates(v)
    BY <1>1, <1>2, <2>1 DEF Creates, Holding, Named
  <2>2. CASE ~Creates(v)
    <3>1. entry[p] = v /\ p = job[v].dst /\ (Holding(v) \/ pc[v] = "crashed")
      BY <1>1, <1>2, <2>2 DEF Named
    <3>2. ~Begins(v) /\ ~Walks(v) /\ ~Refuses(v)
      BY <3>1 DEF Begins, Walks, Refuses, Holding, OK, Early
    <3>3. CASE Works(v)
      BY <3>1, <3>3 DEF Works, Holding
    <3>4. CASE Closes(v)
      BY <3>1, <3>4 DEF Closes, Holding, OK
    <3>5. CASE Cleans(v)
      <4>1. job[v].dst \in Path /\ Possible(job[v].dst)
        BY <3>5, RemovalIsPossible DEF Cleans
      <4>2. entry' = [entry EXCEPT ![job[v].dst] = NoInode]
        BY <3>5, <4>1 DEF Cleans
      <4> QED
        BY <1>2, <3>1, <4>1, <4>2 DEF FSTypeOK
    <3> QED
      BY <1>2, <2>2, <3>2, <3>3, <3>4, <3>5 DEF Progress
  <2> QED
    BY <2>1, <2>2
<1>3. ASSUME pc'[v] = pc[v], job'[v] = job[v] PROVE Named(v)'
  <2>1. ~Creates(v)
    BY <1>3 DEF Creates
  <2> QED
    BY <1>1, <1>3, <2>1 DEF Named, Holding, OK
<1>4. ASSUME pc'[v] = "crashed", job'[v] = job[v] PROVE Named(v)'
  <2>1. ~Creates(v)
    BY <1>4 DEF Creates
  <2> QED
    BY <1>1, <1>4, <2>1 DEF Named
<1>5. CASE Progress(v)
  BY <1>2, <1>5 DEF Named
<1> QED
  BY <1>3, <1>4, <1>5, StepCases DEF Others

\* A failed call leaves no file (FailLeavesNothing): the deferred cleanup runs on
\* every path on which something was created, and can always remove it.  Close and
\* the removal itself must not fail (with one of them failing it is false).
THEOREM FailuresLeaveNothing ==
  ASSUME Faults \cap {"close", "remove"} = {}
  PROVE  Spec => []FailLeavesNothing
<1>1. Init => CleanInv
  <2>. SUFFICES ASSUME Init PROVE CleanInv
    OBVIOUS
  <2>1. ContractInv
    BY InitContract
  <2>2. \A w \in Worker : Named(w)
    <3>1. TreeOK /\ \A w \in Worker : inode[w].kind = "free" /\ w # NoInode
      BY <2>1, WorkerAssumption, InodeAssumption DEF ContractInv, InPlaceInv, Making, Init
    <3>2. \A p \in Path : entry[p] # NoInode => inode[entry[p]].kind # "free"
      BY <3>1 DEF TreeOK
    <3> QED
      BY <3>1, <3>2 DEF Named
  <2> QED
    BY <2>1, <2>2 DEF CleanInv
<1>2. TypeInv /\ CleanInv /\ [Next]_vars => CleanInv'
  <2>. SUFFICES ASSUME TypeInv, CleanInv, [Next]_vars, guestOps' = 0
                PROVE  ContractInv' /\ \A w \in Worker : Named(w)'
    BY DEF CleanInv
  <2>1. guestOps' = guestOps
    <3>1. guestOps \in Nat
      BY DEF TypeInv, TypeOK, FSTypeOK
    <3>2. CASE Guests
      <4>1. \E op : GuestStep(op)
        BY <3>2, Zenon
           DEF Guests, GuestNext, GuestCreate, GuestWrite, GuestUnlink, GuestRename, GuestLink
      <4> QED
        BY <3>1, <4>1 DEF GuestStep
    <3> QED
      BY <3>2, WorkerGuests DEF Next, Finished, Crash, vars
  <2>2. ContractInv /\ \A w \in Worker : Named(w)
    BY <2>1 DEF CleanInv
  <2> QED
    BY <2>1, <2>2, NextContract, NextNamed DEF Undisturbed
<1>3. CleanInv => FailLeavesNothing
  BY DEF CleanInv, Named, Holding, OK, Failed, FailLeavesNothing
<1> QED
  BY <1>1, <1>2, <1>3, InitType, NextType, PTL DEF Spec
-----------------------------------------------------------------------------
(* The refinement of ExclusiveCreate.                                       *)

LEMMA OwnerForm ==
  ASSUME FSTypeOK, NEW t
  PROVE  OwnerOf(t) = IF t = << >> THEN "foreign"
                      ELSE IF t \notin Path \/ entry[t] = NoInode THEN "nobody"
                      ELSE IF entry[t] \in Worker /\ job[entry[t]].dst = t THEN entry[t]
                      ELSE "foreign"
<1>1. CASE t = << >>
  BY <1>1 DEF OwnerOf, KindAt
<1>2. CASE t # << >>
  <2>1. KindAt(t) = "none" <=> t \notin Path \/ entry[t] = NoInode
    BY <1>2, InodeAssumption DEF KindAt, FSTypeOK, Node, Kind
  <2> QED
    BY <1>2, <2>1 DEF OwnerOf
<1> QED
  BY <1>1, <1>2

LEMMA OwnerFormNext ==
  ASSUME FSTypeOK', NEW t
  PROVE  OwnerOf(t)' = IF t = << >> THEN "foreign"
                       ELSE IF t \notin Path \/ entry'[t] = NoInode THEN "nobody"
                       ELSE IF entry'[t] \in Worker /\ job'[entry'[t]].dst = t THEN entry'[t]
                       ELSE "foreign"
<1>1. CASE t = << >>
  BY <1>1 DEF OwnerOf, KindAt
<1>2. CASE t # << >>
  <2>1. KindAt(t)' = "none" <=> t \notin Path \/ entry'[t] = NoInode
    BY <1>2, InodeAssumption DEF KindAt, FSTypeOK, Node, Kind
  <2> QED
    BY <1>2, <2>1 DEF OwnerOf
<1> QED
  BY <1>1, <1>2

LEMMA PhaseForm ==
  ASSUME NEW w \in Worker
  PROVE  /\ pc[w] = "idle" => PhaseOf(w) = "idle"
         /\ pc[w] \in Early => PhaseOf(w) = "busy"
         /\ pc[w] \in {"clone", "chmod", "close", "remove"} => PhaseOf(w) = "holding"
         /\ pc[w] = "crashed" => PhaseOf(w) = "dead"
         /\ pc[w] = "done" /\ job[w].err = nil => PhaseOf(w) = "ok"
         /\ pc[w] = "done" /\ job[w].err # nil /\ CodeOf(job[w].err) = "EEXIST" =>
              PhaseOf(w) = "exists"
         /\ pc[w] = "done" /\ job[w].err # nil /\ CodeOf(job[w].err) # "EEXIST" =>
              PhaseOf(w) = "failed"
BY DEF PhaseOf, OK, Failed, Early, CodeOf, Response

LEMMA PhaseFormNext ==
  ASSUME NEW w \in Worker
  PROVE  /\ pc'[w] \in Early => PhaseOf(w)' = "busy"
         /\ pc'[w] \in {"clone", "chmod", "close", "remove"} => PhaseOf(w)' = "holding"
         /\ pc'[w] = "crashed" => PhaseOf(w)' = "dead"
         /\ pc'[w] = "done" /\ job'[w].err = nil => PhaseOf(w)' = "ok"
         /\ pc'[w] = "done" /\ job'[w].err # nil /\ CodeOf(job'[w].err) = "EEXIST" =>
              PhaseOf(w)' = "exists"
         /\ pc'[w] = "done" /\ job'[w].err # nil /\ CodeOf(job'[w].err) # "EEXIST" =>
              PhaseOf(w)' = "failed"
BY DEF PhaseOf, OK, Failed, Early, CodeOf, Response

LEMMA SamePhases ==
  ASSUME \A v \in Worker : pc'[v] = pc[v] /\ job'[v] = job[v]
  PROVE  /\ \A v \in Worker : PhaseOf(v)' = PhaseOf(v)
         /\ \A v \in Worker : job'[v].dst = job[v].dst
BY DEF PhaseOf, OK, Failed, Response

LEMMA OtherPhases ==
  ASSUME NEW w \in Worker, Others(w), NEW v \in Worker, v # w
  PROVE  PhaseOf(v)' = PhaseOf(v) /\ job'[v].dst = job[v].dst
BY DEF Others, PhaseOf, OK, Failed, Response

\* Names that stay as they are keep their owners.
LEMMA SameOwners ==
  ASSUME TypeInv, TypeInv', TreeOK, UNCHANGED entry,
         \A v \in Worker : inode[v].kind # "free" => job'[v].dst = job[v].dst
  PROVE  \A t \in Target : OwnerOf(t)' = OwnerOf(t)
<1>. SUFFICES ASSUME NEW t \in Target PROVE OwnerOf(t)' = OwnerOf(t)
  OBVIOUS
<1>1. FSTypeOK /\ FSTypeOK'
  BY DEF TypeInv, TypeOK
<1>2. t \in Path /\ entry[t] # NoInode => inode[entry[t]].kind # "free"
  BY DEF TreeOK
<1>3. OwnerOf(t) = IF t = << >> THEN "foreign"
                   ELSE IF t \notin Path \/ entry[t] = NoInode THEN "nobody"
                   ELSE IF entry[t] \in Worker /\ job[entry[t]].dst = t THEN entry[t]
                   ELSE "foreign"
  BY <1>1, OwnerForm
<1>4. OwnerOf(t)' = IF t = << >> THEN "foreign"
                    ELSE IF t \notin Path \/ entry'[t] = NoInode THEN "nobody"
                    ELSE IF entry'[t] \in Worker /\ job'[entry'[t]].dst = t THEN entry'[t]
                    ELSE "foreign"
  BY <1>1, OwnerFormNext
<1> QED
  BY <1>2, <1>3, <1>4

\* What a step must do to be one of the contract's, call by call and name by name.
LEMMA IsBegin ==
  ASSUME NEW w \in Worker, Others(w), PhaseOf(w) = "idle",
         PhaseOf(w)' \in {"busy", "failed"}, NEW d \in Target, job'[w].dst = d,
         \A t \in Target : OwnerOf(t)' = OwnerOf(t)
  PROVE  Contract!ServiceNext
<1>1. Contract!Begin(w, d)
  BY OtherPhases DEF Contract!Begin, Contract!Becomes
<1> QED
  BY <1>1 DEF Contract!ServiceNext

\* The owner of the call's own destination changes, or none does.
LEMMA IsExecute ==
  ASSUME NEW w \in Worker, Others(w), job[w].dst \in Target, job'[w].dst = job[w].dst,
         \A t \in Target : t # job[w].dst => OwnerOf(t)' = OwnerOf(t),
         LET before == OwnerOf(job[w].dst)
             after == OwnerOf(job[w].dst)'
         IN  \/ /\ PhaseOf(w) = "busy" /\ PhaseOf(w)' = "holding"
                /\ before = "nobody" /\ after = w
             \/ /\ PhaseOf(w) = "busy" /\ PhaseOf(w)' = "exists"
                /\ before # "nobody" /\ after = before
             \/ PhaseOf(w) = "busy" /\ PhaseOf(w)' = "failed" /\ after = before
             \/ PhaseOf(w) = "holding" /\ PhaseOf(w)' = "ok" /\ after = before
             \/ PhaseOf(w) = "holding" /\ PhaseOf(w)' = "failed" /\ after = "nobody"
             \/ PhaseOf(w) = "holding" /\ PhaseOf(w)' = "failed" /\ after = before
             \/ PhaseOf(w) \in {"busy", "holding"} /\ PhaseOf(w)' = "dead" /\ after = before
  PROVE  Contract!ServiceNext
<1>. DEFINE d == job[w].dst
<1>1. \A v \in Worker : v # w => PhaseOf(v)' = PhaseOf(v) /\ job'[v].dst = job[v].dst
  BY OtherPhases
<1>2. [v \in Worker |-> job[v].dst]' = [v \in Worker |-> job[v].dst]
  BY <1>1
<1>3. ASSUME NEW x, PhaseOf(w)' = x
      PROVE  [v \in Worker |-> PhaseOf(v)]' = [[v \in Worker |-> PhaseOf(v)] EXCEPT ![w] = x]
  BY <1>1, <1>3
<1>4. ASSUME NEW x, OwnerOf(d)' = x
      PROVE  [t \in Target |-> OwnerOf(t)]' = [[t \in Target |-> OwnerOf(t)] EXCEPT ![d] = x]
  BY <1>4
<1>5. OwnerOf(d)' = OwnerOf(d) =>
        [t \in Target |-> OwnerOf(t)]' = [t \in Target |-> OwnerOf(t)]
  OBVIOUS
<1>6. Contract!Execute(w) \/ Contract!Die(w)
  BY <1>2, <1>3, <1>4, <1>5
     DEF Contract!Execute, Contract!Claim, Contract!Occupied, Contract!Refuse, Contract!Commit,
         Contract!Withdraw, Contract!Abandon, Contract!Die, Contract!Becomes
<1> QED
  BY <1>6 DEF Contract!ServiceNext

LEMMA IsStutter ==
  ASSUME \A v \in Worker : PhaseOf(v)' = PhaseOf(v),
         \A v \in Worker : job'[v].dst = job[v].dst,
         \A t \in Target : OwnerOf(t)' = OwnerOf(t)
  PROVE  UNCHANGED Contract!servicevars
BY DEF Contract!servicevars

LEMMA IsForeign ==
  ASSUME NEW p \in Target, OwnerOf(p) = "nobody",
         \/ OwnerOf(p)' = "foreign"
         \/ /\ OwnerOf(p)' \in Worker
            /\ PhaseOf(OwnerOf(p)') = "failed" /\ job[OwnerOf(p)'].dst = p,
         \A t \in Target : t # p => OwnerOf(t)' = OwnerOf(t),
         \A v \in Worker : PhaseOf(v)' = PhaseOf(v),
         \A v \in Worker : job'[v].dst = job[v].dst
  PROVE  Contract!ServiceNext
<1>1. Contract!ForeignTakes(p)
  BY DEF Contract!ForeignTakes
<1> QED
  BY <1>1 DEF Contract!ServiceNext

\* One name changes, and its owner only.
LEMMA OneOwner ==
  ASSUME TypeInv, TypeInv', NEW p \in Path, NEW x, entry' = [entry EXCEPT ![p] = x],
         \A v \in Worker : job'[v].dst = job[v].dst
  PROVE  /\ \A t \in Target : t # p => OwnerOf(t)' = OwnerOf(t)
         /\ OwnerOf(p)' = IF x = NoInode THEN "nobody"
                          ELSE IF x \in Worker /\ job[x].dst = p THEN x ELSE "foreign"
<1>1. FSTypeOK /\ FSTypeOK' /\ p # << >>
  BY PathAssumption DEF TypeInv, TypeOK
<1>2. entry'[p] = x /\ \A t \in Path : t # p => entry'[t] = entry[t]
  BY <1>1 DEF FSTypeOK
<1>3. ASSUME NEW t \in Target, t # p PROVE OwnerOf(t)' = OwnerOf(t)
  <2>1. OwnerOf(t) = IF t = << >> THEN "foreign"
                     ELSE IF t \notin Path \/ entry[t] = NoInode THEN "nobody"
                     ELSE IF entry[t] \in Worker /\ job[entry[t]].dst = t THEN entry[t]
                     ELSE "foreign"
    BY <1>1, OwnerForm
  <2>2. OwnerOf(t)' = IF t = << >> THEN "foreign"
                      ELSE IF t \notin Path \/ entry'[t] = NoInode THEN "nobody"
                      ELSE IF entry'[t] \in Worker /\ job'[entry'[t]].dst = t THEN entry'[t]
                      ELSE "foreign"
    BY <1>1, OwnerFormNext
  <2> QED
    BY <1>2, <1>3, <2>1, <2>2
<1>4. OwnerOf(p)' = IF p = << >> THEN "foreign"
                    ELSE IF p \notin Path \/ entry'[p] = NoInode THEN "nobody"
                    ELSE IF entry'[p] \in Worker /\ job'[entry'[p]].dst = p THEN entry'[p]
                    ELSE "foreign"
  BY <1>1, OwnerFormNext
<1> QED
  BY <1>1, <1>2, <1>3, <1>4

LEMMA ProgressRefines ==
  ASSUME ContractInv, ContractInv', NEW w \in Worker, Progress(w), Others(w)
  PROVE  Contract!ServiceNext \/ UNCHANGED Contract!servicevars
<1>1. /\ TypeInv /\ TypeInv' /\ FSTypeOK /\ FSTypeOK' /\ TreeOK /\ Making(w) /\ AtDestination(w)
      /\ w \in Inode /\ w # NoInode /\ Path \subseteq Target
  BY WorkerAssumption, InodeAssumption DEF ContractInv, InPlaceInv, TypeInv, TypeOK, Target
<1>2. job[w].dst \in Target
  BY <1>1 DEF Making
<1>3. ASSUME UNCHANGED entry, job'[w].dst = job[w].dst
      PROVE  \A t \in Target : OwnerOf(t)' = OwnerOf(t)
  BY <1>1, <1>3, OtherPhases, SameOwners
<1>4. CASE Begins(w)
  <2>1. inode[w].kind = "free"
    BY <1>1, <1>4 DEF Begins, Making
  <2>2. \A t \in Target : OwnerOf(t)' = OwnerOf(t)
    <3>1. UNCHANGED entry
      BY <1>4 DEF Begins
    <3> QED
      BY <1>1, <2>1, <3>1, OtherPhases, SameOwners
  <2>3. PhaseOf(w) = "idle" /\ PhaseOf(w)' \in {"busy", "failed"} /\ job'[w].dst \in Target
    BY <1>4, PhaseForm, PhaseFormNext DEF Begins, Early
  <2> QED
    BY <2>2, <2>3, IsBegin
<1>5. CASE Walks(w)
  <2>1. PhaseOf(w) = "busy" /\ PhaseOf(w)' = "busy"
    BY <1>5, PhaseForm, PhaseFormNext DEF Walks
  <2>2. job'[w].dst = job[w].dst /\ UNCHANGED entry
    BY <1>5 DEF Walks
  <2> QED
    BY <1>3, <2>1, <2>2, OtherPhases, IsStutter
<1>6. CASE Refuses(w)
  <2>1. job'[w].dst = job[w].dst /\ UNCHANGED entry /\ PhaseOf(w) = "busy"
    BY <1>6, PhaseForm DEF Refuses
  <2>2. \A t \in Target : OwnerOf(t)' = OwnerOf(t)
    BY <1>3, <2>1
  <2>3. OwnerOf(job[w].dst)' = OwnerOf(job[w].dst)
    BY <1>2, <2>1, <2>2
  <2>4. CASE CodeOf(job'[w].err) = "EEXIST"
    <3>1. PhaseOf(w)' = "exists"
      BY <1>6, <2>4, PhaseFormNext DEF Refuses
    <3>2. KindAt(job[w].dst) # "none"
      BY <1>6, <2>4 DEF Refuses
    <3>3. OwnerOf(job[w].dst) # "nobody"
      BY <3>2, WorkerAssumption DEF OwnerOf
    <3> QED
      BY <1>2, <2>1, <2>2, <2>3, <3>1, <3>3, IsExecute
  <2>5. CASE CodeOf(job'[w].err) # "EEXIST"
    <3>1. PhaseOf(w)' = "failed"
      BY <1>6, <2>5, PhaseFormNext DEF Refuses
    <3> QED
      BY <1>2, <2>1, <2>2, <2>3, <3>1, IsExecute
  <2> QED
    BY <2>4, <2>5
<1>7. ASSUME job'[w].dst = job[w].dst PROVE \A v \in Worker : job'[v].dst = job[v].dst
  BY <1>7, OtherPhases
<1>8. CASE Creates(w)
  <2>. DEFINE d == job[w].dst
  <2>1. /\ d \in Path /\ entry[d] = NoInode /\ job'[w].dst = d
        /\ entry' = [entry EXCEPT ![d] = w]
    BY <1>8 DEF Creates
  <2>2. PhaseOf(w) = "busy" /\ PhaseOf(w)' = "holding"
    BY <1>8, PhaseForm, PhaseFormNext DEF Creates, Early
  <2>3. OwnerOf(d) = "nobody"
    <3>1. d # << >>
      BY <2>1, PathAssumption
    <3> QED
      BY <1>1, <2>1, <3>1, OwnerForm
  <2>4. OwnerOf(d)' = w /\ \A t \in Target : t # d => OwnerOf(t)' = OwnerOf(t)
    BY <1>1, <1>7, <2>1, OneOwner
  <2> QED
    BY <1>2, <2>1, <2>2, <2>3, <2>4, IsExecute
<1>9. CASE Works(w)
  <2>1. PhaseOf(w) = "holding" /\ PhaseOf(w)' = "holding"
    BY <1>9, PhaseForm, PhaseFormNext DEF Works
  <2>2. job'[w].dst = job[w].dst /\ UNCHANGED entry
    BY <1>9 DEF Works
  <2> QED
    BY <1>3, <2>1, <2>2, OtherPhases, IsStutter
<1>10. CASE Closes(w)
  <2>1. job'[w].dst = job[w].dst /\ UNCHANGED entry /\ PhaseOf(w) = "holding"
    BY <1>10, PhaseForm DEF Closes
  <2>2. \A t \in Target : OwnerOf(t)' = OwnerOf(t)
    BY <1>3, <2>1
  <2>3. OwnerOf(job[w].dst)' = OwnerOf(job[w].dst)
    BY <1>2, <2>1, <2>2
  <2>4. PhaseOf(w)' \in {"ok", "failed"}
    <3>1. CASE job'[w].err = nil
      BY <1>10, <3>1, PhaseFormNext DEF Closes
    <3>2. CASE job'[w].err = Raw("EIO")
      <4>1. job'[w].err # nil /\ CodeOf(job'[w].err) # "EEXIST"
        BY <3>2, LateCodes DEF LateError
      <4> QED
        BY <1>10, <4>1, PhaseFormNext DEF Closes
    <3> QED
      BY <1>10, <3>1, <3>2 DEF Closes
  <2> QED
    BY <1>2, <2>1, <2>2, <2>3, <2>4, IsExecute
<1>11. CASE Cleans(w)
  <2>. DEFINE d == job[w].dst
  <2>1. /\ d \in Path /\ job'[w].dst = d /\ job'[w].err = job[w].err /\ PhaseOf(w) = "holding"
        /\ job[w].err \in LateError
    BY <1>1, <1>11, PhaseForm DEF Cleans, AtDestination, Holding, Making
  <2>2. PhaseOf(w)' = "failed"
    BY <1>11, <2>1, LateCodes, PhaseFormNext DEF Cleans
  <2>3. CASE entry' = [entry EXCEPT ![d] = NoInode]
    <3>1. OwnerOf(d)' = "nobody" /\ \A t \in Target : t # d => OwnerOf(t)' = OwnerOf(t)
      BY <1>1, <1>7, <2>1, <2>3, OneOwner
    <3> QED
      BY <1>2, <2>1, <2>2, <3>1, IsExecute
  <2>4. CASE UNCHANGED entry
    <3>1. OwnerOf(d)' = OwnerOf(d) /\ \A t \in Target : OwnerOf(t)' = OwnerOf(t)
      BY <1>2, <1>3, <2>1, <2>4
    <3> QED
      BY <1>2, <2>1, <2>2, <3>1, IsExecute
  <2> QED
    BY <1>11, <2>3, <2>4 DEF Cleans
<1> QED
  BY <1>4, <1>5, <1>6, <1>8, <1>9, <1>10, <1>11 DEF Progress

LEMMA CrashRefines ==
  ASSUME ContractInv, TypeInv', NEW w \in Worker, Crash(w), pc'[w] = "crashed",
         job'[w] = job[w], Others(w)
  PROVE  Contract!ServiceNext
<1>1. /\ TypeInv /\ TreeOK /\ job[w].dst \in Target /\ pc[w] \in PC
      /\ UNCHANGED entry /\ pc[w] # "idle" /\ ~Ended(w)
  BY DEF ContractInv, InPlaceInv, TypeInv, TypeOK, Making, Crash
<1>2. PhaseOf(w) \in {"busy", "holding"} /\ PhaseOf(w)' = "dead"
  BY <1>1, PhaseForm, PhaseFormNext DEF PC, Ended, Early
<1>3. \A t \in Target : OwnerOf(t)' = OwnerOf(t)
  BY <1>1, OtherPhases, SameOwners
<1>4. OwnerOf(job[w].dst)' = OwnerOf(job[w].dst)
  BY <1>1, <1>3
<1> QED
  BY <1>1, <1>2, <1>3, <1>4, IsExecute

\* A name that somebody else takes: at most by linking the file of a call for it
\* that has failed after creating it.
LEMMA OthersRefine ==
  ASSUME NoRemoval, ContractInv, ContractInv', [Next]_vars,
         \A v \in Worker : pc'[v] = pc[v] /\ job'[v] = job[v]
  PROVE  Contract!ServiceNext \/ UNCHANGED Contract!servicevars
<1>1. /\ TypeInv /\ TypeInv' /\ TreeOK /\ InPlaceInv /\ Undisturbed /\ FSTypeOK
      /\ Path \subseteq Target
  BY DEF ContractInv, InPlaceInv, TypeInv, TypeOK, Undisturbed, Target
<1>2. /\ \A v \in Worker : PhaseOf(v)' = PhaseOf(v)
      /\ \A v \in Worker : job'[v].dst = job[v].dst
  BY SamePhases
<1>3. CASE UNCHANGED entry
  <2>1. \A t \in Target : OwnerOf(t)' = OwnerOf(t)
    BY <1>1, <1>2, <1>3, SameOwners
  <2> QED
    BY <1>2, <2>1, IsStutter
<1>4. ASSUME NEW w \in Worker, RemovesOwn(w) PROVE FALSE
  BY <1>4 DEF RemovesOwn
<1>5. ASSUME NEW p, NEW i, Adds(p, i)
      PROVE  Contract!ServiceNext
  <2>1. /\ p \in Path /\ p \in Target /\ p # << >> /\ i \in Inode /\ i # NoInode
        /\ entry[p] = NoInode /\ entry' = [entry EXCEPT ![p] = i] /\ inode'[i].kind # "free"
    BY <1>1, <1>5, PathAssumption, InodeAssumption DEF Adds
  <2>2. OwnerOf(p) = "nobody"
    BY <1>1, <2>1, OwnerForm
  <2>3. /\ \A t \in Target : t # p => OwnerOf(t)' = OwnerOf(t)
        /\ OwnerOf(p)' = IF i \in Worker /\ job[i].dst = p THEN i ELSE "foreign"
    BY <1>1, <1>2, <2>1, OneOwner
  <2>4. ASSUME i \in Worker, job[i].dst = p PROVE PhaseOf(i) = "failed"
    <3>1. inode[i].kind # "free" /\ Making(i) /\ AtDestination(i) /\ pc[i] \in PC
      <4>1. inode'[i].kind = inode[i].kind
        BY <1>1, <2>4, KindStep
      <4> QED
        BY <2>1, <2>4, <4>1 DEF ContractInv, InPlaceInv, TypeInv, TypeOK
    <3>2. ~Holding(i) /\ pc[i] # "crashed"
      BY <2>1, <2>4, <3>1 DEF Making, AtDestination
    <3>3. pc[i] = "done" /\ job[i].err \in LateError
      BY <3>1, <3>2 DEF Making, Holding, OK, PC, Early
    <3> QED
      BY <2>4, <3>3, LateCodes, PhaseForm
  <2>5. \/ OwnerOf(p)' = "foreign"
        \/ /\ OwnerOf(p)' \in Worker
           /\ PhaseOf(OwnerOf(p)') = "failed" /\ job[OwnerOf(p)'].dst = p
    BY <2>3, <2>4
  <2> QED
    BY <1>2, <2>1, <2>2, <2>3, <2>5, IsForeign
<1> QED
  BY <1>1, <1>3, <1>4, <1>5, NextShare DEF ShareStep

LEMMA InitRefines ==
  ASSUME Init
  PROVE  Contract!ServiceInit
<1>1. ContractInv /\ TreeOK /\ FSTypeOK
  BY InitContract DEF ContractInv, InPlaceInv, TypeInv, TypeOK
<1>2. \A w \in Worker : pc[w] = "idle" /\ job[w].dst \in Target /\ inode[w].kind = "free"
  BY <1>1 DEF Init, ContractInv, Making
<1>3. ASSUME NEW t \in Target PROVE OwnerOf(t) \in {"nobody", "foreign"}
  <2>1. t \in Path /\ entry[t] # NoInode => entry[t] \notin Worker
    BY <1>1, <1>2 DEF TreeOK
  <2> QED
    BY <1>1, <2>1, OwnerForm
<1>4. \A w \in Worker : PhaseOf(w) = "idle"
  BY <1>2, PhaseForm
<1> QED
  BY <1>2, <1>3, <1>4 DEF Contract!ServiceInit

\* Execute keeps its contract (ImplementsContract): for any share, requests, number
\* of calls and failures, crashes included, each step of the calls and of the guests
\* is a step of ExclusiveCreate or changes nothing it can see.  Guests must not take
\* names away (with unlink or rename it is false).
THEOREM Implements ==
  ASSUME NoRemoval
  PROVE  Spec => ImplementsContract
<1>1. Init => Contract!ServiceInit
  BY InitRefines
<1>2. ContractInv /\ [Next]_vars => ContractInv'
  BY NextContract DEF Undisturbed
<1>3. ContractInv /\ ContractInv' /\ [Next]_vars => [Contract!ServiceNext]_(Contract!servicevars)
  <2>. SUFFICES ASSUME ContractInv, ContractInv', [Next]_vars
                PROVE  Contract!ServiceNext \/ UNCHANGED Contract!servicevars
    OBVIOUS
  <2>1. TypeInv'
    BY DEF ContractInv, InPlaceInv
  <2> QED
    BY <2>1, StepCases, ProgressRefines, CrashRefines, OthersRefine
<1> QED
  BY <1>1, <1>2, <1>3, InitContract, PTL DEF Spec, ImplementsContract, Contract!ServiceSpec
-----------------------------------------------------------------------------
(* A success is a copy.                                                     *)

\* Guests that leave alone what they find: no name is taken away, no file is
\* written to.  They may still create, link and plant symlinks.
LeaveAlone == GuestOps \cap {"unlink", "rename", "write"} = {}

\* What was there from the start is still there, as it was.
InitKept ==
  \A p \in Path : InitEntry[p] # NoInode =>
    entry[p] = InitEntry[p] /\ inode[InitEntry[p]] = InitInode[InitEntry[p]]

\* On its way to the source, a call is where OnTheWay has it on its way to the
\* destination: SecureJoin's path is the request's own, or a symlink that led it
\* astray is still ahead of RejectSymlinkComponents.
AtSource(w) ==
  /\ pc[w] = "idle" => job[w].k = 0 /\ job[w].cur = << >>
  /\ pc[w] = "joinSrc" =>
       /\ job[w].k <= Len(job[w].src)
       /\ \/ job[w].cur = Prefix(job[w].src, job[w].k)
          \/ LinkAmong(job[w].src, 1 .. job[w].k)
  /\ pc[w] = "componentsSrc" =>
       \/ job[w].srcPath = job[w].src
       \/ LinkAmong(job[w].src, job[w].k + 1 .. Len(job[w].src))
  /\ pc[w] = "lstatSrc" => job[w].srcPath = job[w].src

\* A call that has read the mode of its source, one that has it open, and one
\* whose own file is complete.
Knows(w) ==
  \/ pc[w] \in {"joinDst", "componentsDst", "lstatDst", "joinParent", "lstatParent",
                "open", "waiting", "create", "clone", "chmod", "close"}
  \/ OK(w)
Reads(w) == pc[w] \in {"waiting", "create", "clone", "chmod", "close"} \/ OK(w)
Filled(w) == (pc[w] = "close" /\ job[w].err = nil) \/ OK(w)

\* A source that was there from the start was found to be a regular file, and its
\* mode was read.
SourceSeen(w) ==
  job[w].src \in Path /\ InitEntry[job[w].src] # NoInode =>
    /\ InitInode[InitEntry[job[w].src]].kind = "file"
    /\ job[w].mode = InitInode[InitEntry[job[w].src]].mode

\* What a call carries from its source to its own file.  A source that another
\* call is only making may have been empty when it was cloned: that call fills
\* it once, and never writes it again.
Carries(w) ==
  /\ Knows(w) => SourceSeen(w)
  /\ Reads(w) => job[w].fd \in Inode /\ inode[job[w].fd].kind # "free"
  /\ pc[w] = "waiting" => inode[job[w].fd].kind = "other"
  /\ pc[w] = "clone" => inode[w].content = Empty
  /\ pc[w] = "chmod" \/ Filled(w) =>
       /\ inode[w].content \in {Empty, inode[job[w].fd].content}
       /\ job[w].src \in Path /\ InitEntry[job[w].src] = job[w].fd =>
            inode[w].content = inode[job[w].fd].content
  /\ Filled(w) => inode[w].mode = job[w].mode

CopyInv == ContractInv /\ InitKept /\ \A w \in Worker : AtSource(w) /\ Carries(w)

\* A file in use is changed only by the call that made it, by its clone and its
\* chmod, and the chmod leaves the content alone.
LEMMA InodeStays ==
  ASSUME LeaveAlone, ContractInv, [Next]_vars, NEW i \in Inode, inode[i].kind # "free",
         inode'[i] # inode[i]
  PROVE  /\ i \in Worker /\ pc[i] \in {"clone", "chmod"} /\ pc'[i] # pc[i]
         /\ pc[i] = "chmod" => inode'[i].content = inode[i].content
<1>. TypeInv /\ TypeOK /\ FSTypeOK
  BY DEF ContractInv, InPlaceInv, TypeInv, TypeOK
<1>1. ~Guests
  <2>1. ASSUME NEW p \in Path, NEW j \in GuestInode, NEW k \in Kind, NEW c \in Content,
               NEW m \in Mode, GuestCreate(p, j, k, c, m)
        PROVE  FALSE
    BY <2>1 DEF GuestCreate, FSTypeOK
  <2>2. ASSUME NEW p \in Path, NEW c \in Content, GuestWrite(p, c) PROVE FALSE
    BY <2>2 DEF GuestWrite, GuestStep, LeaveAlone
  <2>3. ASSUME NEW p \in Path, NEW q \in Path, GuestUnlink(p) \/ GuestRename(p, q) \/ GuestLink(p, q)
        PROVE  FALSE
    BY <2>3 DEF GuestUnlink, GuestRename, GuestLink
  <2> QED
    BY <2>1, <2>2, <2>3 DEF Guests, GuestNext
<1>2. PICK w \in Worker : WorkerStep(w)
  BY <1>1 DEF Next, Finished, Crash, WriterComes, Step, fsvars, vars
<1>3. Progress(w) /\ Others(w) /\ guestOps' = guestOps
  BY <1>2, WorkerProgress, WorkerGuests DEF ContractInv
<1>4. i \in Worker /\ pc[i] \in {"create", "clone", "chmod"} /\ pc'[i] # pc[i]
  BY <1>3, WriteStep
<1>5. pc[i] # "create"
  BY <1>4 DEF ContractInv, Making, Early
<1>6. i = w
  BY <1>3, <1>4 DEF Others
<1>7. pc[i] = "chmod" => inode'[i].content = inode[i].content
  <2>. SUFFICES ASSUME pc[w] = "chmod" PROVE inode'[w].content = inode[w].content
    BY <1>6
  <2>1. Chmod(w)
    BY <1>2 DEF WorkerStep, Start, JoinSrc, ComponentsSrc, LstatSrc, JoinDst, ComponentsDst,
                LstatDst, JoinParent, LstatParent, Open, Create, Clone, Close, CleanupRemove
  <2>2. inode' = [inode EXCEPT ![w].mode = job[w].mode] \/ inode' = inode
    BY <2>1 DEF Chmod, Step, fsvars
  <2> QED
    BY <1>4, <1>6, <2>2 DEF FSTypeOK, Node
<1> QED
  BY <1>4, <1>5, <1>7

LEMMA InitKeptNext ==
  ASSUME LeaveAlone, ContractInv, InitKept, [Next]_vars
  PROVE  InitKept'
<1>. TypeInv /\ TypeOK /\ FSTypeOK
  BY DEF ContractInv, InPlaceInv, TypeInv, TypeOK
<1>. SUFFICES ASSUME NEW p \in Path, InitEntry[p] # NoInode
     PROVE  /\ entry'[p] = InitEntry[p]
            /\ inode'[InitEntry[p]] = InitInode[InitEntry[p]]
  BY DEF InitKept
<1>1. /\ InitEntry[p] \in Inode /\ InitEntry[p] \notin Worker
      /\ InitInode[InitEntry[p]].kind # "free"
  BY InitAssumption, WorkerAssumption
<1>2. entry[p] = InitEntry[p] /\ inode[InitEntry[p]] = InitInode[InitEntry[p]]
  BY DEF InitKept
<1>3. inode'[InitEntry[p]] = inode[InitEntry[p]]
  BY <1>1, <1>2, InodeStays
<1>4. ASSUME NEW q, NEW i, Adds(q, i) PROVE entry'[p] = entry[p]
  BY <1>2, <1>4 DEF Adds, FSTypeOK
<1>5. ASSUME NEW w \in Worker, RemovesOwn(w) PROVE entry'[p] = entry[p]
  BY <1>1, <1>2, <1>5 DEF RemovesOwn, FSTypeOK
<1>6. Undisturbed
  BY DEF LeaveAlone, Undisturbed, NoRemoval
<1>7. entry'[p] = entry[p]
  BY <1>4, <1>5, <1>6, NextShare DEF ShareStep, ContractInv
<1> QED
  BY <1>2, <1>3, <1>7

\* A call that has its file holds an inode in use.
LEMMA OwnInUse ==
  ASSUME ContractInv, NEW w \in Worker, Holding(w)
  PROVE  w \in Inode /\ inode[w].kind # "free"
BY WorkerAssumption, InodeAssumption DEF ContractInv, InPlaceInv, AtDestination, TreeOK

\* The file a call has open is in use, and loses no content it had once it was cloned.
LEMMA OpenStays ==
  ASSUME LeaveAlone, CopyInv, [Next]_vars, NEW w \in Worker, Reads(w)
  PROVE  /\ job[w].fd \in Inode /\ inode[job[w].fd].kind # "free"
         /\ inode'[job[w].fd].kind # "free"
         /\ inode[job[w].fd].content \in {Empty, inode'[job[w].fd].content}
         /\ job[w].src \in Path /\ InitEntry[job[w].src] = job[w].fd =>
              job[w].fd \notin Worker /\ inode'[job[w].fd] = inode[job[w].fd]
<1>. DEFINE i == job[w].fd
<1>1. i \in Inode /\ inode[i].kind # "free"
  BY DEF CopyInv, Carries
<1>2. Undisturbed /\ InPlaceInv /\ ContractInv
  BY DEF LeaveAlone, Undisturbed, NoRemoval, CopyInv, ContractInv
<1>3. inode'[i].kind # "free"
  BY <1>1, <1>2, NextShare DEF ShareStep, KindsKept
<1>4. inode[i].content \in {Empty, inode'[i].content}
  <2>1. CASE inode'[i].content = inode[i].content
    BY <2>1
  <2>2. CASE inode'[i].content # inode[i].content
    <3>1. i \in Worker /\ pc[i] = "clone"
      BY <1>1, <1>2, <2>2, InodeStays
    <3> QED
      BY <3>1 DEF CopyInv, Carries
  <2> QED
    BY <2>1, <2>2
<1>5. ASSUME job[w].src \in Path, InitEntry[job[w].src] = i
      PROVE  i \notin Worker /\ inode'[i] = inode[i]
  <2>1. i # NoInode
    BY <1>1, InodeAssumption
  <2>2. InitInode[i].kind # "free"
    BY <1>5, <2>1, InitAssumption
  <2>3. i \notin Worker
    BY <2>2, WorkerAssumption
  <2> QED
    BY <1>1, <1>2, <2>3, InodeStays
<1> QED
  BY <1>1, <1>3, <1>4, <1>5

\* What is known while a call keeps to itself.
LEMMA CopyStutter ==
  ASSUME LeaveAlone, CopyInv, [Next]_vars, TypeInv', NEW v \in Worker,
         pc'[v] = pc[v], job'[v] = job[v]
  PROVE  AtSource(v)' /\ Carries(v)'
<1>. /\ AtSource(v) /\ Carries(v) /\ ContractInv /\ InPlaceInv /\ Undisturbed
  BY DEF LeaveAlone, Undisturbed, NoRemoval, CopyInv, ContractInv
<1>1. AtSource(v)'
  <2>1. ASSUME NEW S, LinkAmong(job[v].src, S)
        PROVE  \E n \in S : KindAt(Prefix(job[v].src, n))' = "symlink"
    BY <2>1, LinkKept
  <2>2. LinkAmong(job[v].src, 1 .. job[v].k) => LinkAmong(job[v].src, 1 .. job[v].k)'
    BY <2>1 DEF LinkAmong
  <2>3. LinkAmong(job[v].src, job[v].k + 1 .. Len(job[v].src)) =>
          LinkAmong(job[v].src, job[v].k + 1 .. Len(job[v].src))'
    BY <2>1 DEF LinkAmong
  <2> QED
    BY <2>2, <2>3 DEF AtSource
<1>2. /\ Knows(v)' <=> Knows(v)
      /\ Reads(v)' <=> Reads(v)
      /\ Filled(v)' <=> Filled(v)
  BY DEF Knows, Reads, Filled, OK
<1>3. ASSUME Holding(v) PROVE inode'[v] = inode[v]
  <2>1. v \in Inode /\ inode[v].kind # "free"
    BY <1>3, OwnInUse
  <2> QED
    BY <2>1, InodeStays
<1>4. Reads(v) => job'[v].fd \in Inode /\ inode'[job'[v].fd].kind # "free"
  BY OpenStays
<1>5. pc[v] = "clone" => inode'[v].content = Empty
  BY <1>3 DEF Carries, Holding
<1>6. ASSUME pc[v] = "chmod" \/ Filled(v)
      PROVE  /\ inode'[v].content \in {Empty, inode'[job[v].fd].content}
             /\ job[v].src \in Path /\ InitEntry[job[v].src] = job[v].fd =>
                  inode'[v].content = inode'[job[v].fd].content
  <2>1. Reads(v) /\ inode'[v] = inode[v]
    BY <1>3, <1>6 DEF Reads, Filled, Holding
  <2>2. /\ inode[v].content \in {Empty, inode[job[v].fd].content}
        /\ job[v].src \in Path /\ InitEntry[job[v].src] = job[v].fd =>
            inode[v].content = inode[job[v].fd].content
    BY <1>6 DEF Carries
  <2> QED
    BY <2>1, <2>2, OpenStays
<1>7. Filled(v) => inode'[v].mode = job[v].mode
  BY <1>3 DEF Carries, Filled, Holding
<1>9. pc[v] = "waiting" => inode'[job'[v].fd].kind = "other"
  <2>. SUFFICES ASSUME pc[v] = "waiting" PROVE inode'[job[v].fd].kind = "other"
    OBVIOUS
  <2>1. job[v].fd \in Inode /\ inode[job[v].fd].kind = "other"
    BY DEF Carries, Reads
  <2>2. KindsKept
    BY NextShare DEF ShareStep
  <2> QED
    BY <2>1, <2>2 DEF KindsKept
<1>10. Knows(v) => SourceSeen(v)'
  BY DEF Carries, SourceSeen
<1>8. Carries(v)'
  BY <1>2, <1>4, <1>5, <1>6, <1>7, <1>9, <1>10 DEF Carries
<1> QED
  BY <1>1, <1>8

\* A call that has failed, or died, carries nothing.
LEMMA GoneCarries ==
  ASSUME NEW w \in Worker,
         pc'[w] \in {"crashed", "remove"} \/ (pc'[w] = "done" /\ job'[w].err # nil)
  PROVE  AtSource(w)' /\ Carries(w)'
BY DEF AtSource, Carries, Knows, Reads, Filled, OK

LEMMA FailCarries ==
  ASSUME TypeOK, NEW w \in Worker, NEW e, Fail(w, e), e # nil
  PROVE  AtSource(w)' /\ Carries(w)'
<1>1. job[w] \in Job
  BY DEF TypeOK
<1>2. [job[w] EXCEPT !.err = e].err = e
  BY <1>1 DEF Job
<1>3. pc'[w] = "done" /\ job'[w] = [job[w] EXCEPT !.err = e]
  BY Moved DEF Fail, Step
<1> QED
  BY <1>2, <1>3, GoneCarries
LEMMA StartCarries ==
  ASSUME CopyInv, NEW w \in Worker, Start(w)
  PROVE  AtSource(w)' /\ Carries(w)'
<1>1. /\ TypeOK /\ job[w] \in Job /\ AtSource(w) /\ pc[w] = "idle"
      /\ job[w].k = 0 /\ job[w].cur = << >>
  BY DEF CopyInv, ContractInv, InPlaceInv, TypeInv, TypeOK, Start, AtSource
<1>2. PICK r \in Request :
        Step(w, IF ValidateRequest(r) = nil THEN "joinSrc" ELSE "done",
             [job[w] EXCEPT !.src = NormalizeRelative(r.src).rel,
                            !.dst = NormalizeRelative(r.dst).rel, !.err = ValidateRequest(r)])
  BY DEF Start
<1>. DEFINE e == ValidateRequest(r)
            s == NormalizeRelative(r.src).rel
            d == NormalizeRelative(r.dst).rel
            j == [job[w] EXCEPT !.src = s, !.dst = d, !.err = e]
            to == IF e = nil THEN "joinSrc" ELSE "done"
<1>3. s \in RelPath
  BY RequestAssumption
<1>. HIDE DEF s, d, e
<1>4. j.src = s /\ j.err = e /\ j.k = 0 /\ j.cur = << >>
  BY <1>1 DEF Job
<1>5. pc'[w] = to /\ job'[w] = j
  <2>1. Step(w, to, j)
    BY <1>2 DEF e, s, d
  <2>. HIDE DEF to, j
  <2> QED
    BY <1>1, <2>1, Moved DEF Step
<1>6. Len(s) \in Nat /\ Prefix(s, 0) = << >>
  BY <1>3, PrefixFacts DEF RelPath
<1>. HIDE DEF j
<1>7. CASE e = nil
  <2>1. pc'[w] = "joinSrc"
    BY <1>5, <1>7
  <2>2. job'[w].src = s /\ job'[w].k = 0 /\ job'[w].cur = << >>
    BY <1>4, <1>5
  <2>3. AtSource(w)'
    BY <1>6, <2>1, <2>2 DEF AtSource
  <2> QED
    BY <2>1, <2>3 DEF Carries, Knows, Reads, Filled, OK
<1>8. CASE e # nil
  BY <1>4, <1>5, <1>8, GoneCarries
<1> QED
  BY <1>7, <1>8

LEMMA JoinSrcCarries ==
  ASSUME CopyInv, NEW w \in Worker, JoinSrc(w)
  PROVE  AtSource(w)' /\ Carries(w)'
<1>. DEFINE src == job[w].src
            k == job[w].k
            cur == job[w].cur
<1>. /\ TypeOK /\ job[w] \in Job /\ src \in RelPath /\ k \in Nat /\ Len(src) \in Nat
     /\ pc[w] = "joinSrc" /\ k <= Len(src)
     /\ cur = Prefix(src, k) \/ LinkAmong(src, 1 .. k)
  BY DEF CopyInv, ContractInv, InPlaceInv, TypeInv, TypeOK, AtSource, JoinSrc, Job, RelPath
<1>3. ASSUME NEW e, e # nil, Fail(w, e)
      PROVE  AtSource(w)' /\ Carries(w)'
  BY <1>3, FailCarries
<1>1. ASSUME k < Len(src),
             Step(w, "joinSrc", [job[w] EXCEPT !.k = @ + 1, !.cur = Follow(Append(@, src[k + 1]))])
      PROVE  AtSource(w)' /\ Carries(w)'
  <2>. DEFINE c == Follow(Append(cur, src[k + 1]))
              j == [job[w] EXCEPT !.k = @ + 1, !.cur = c]
  <2>1. Step(w, "joinSrc", j) /\ k < Len(src)
    BY <1>1
  <2>2. c = Prefix(src, k + 1) \/ LinkAmong(src, 1 .. k + 1)
    <3>1. CASE LinkAmong(src, 1 .. k)
      BY <3>1 DEF LinkAmong
    <3>2. CASE cur = Prefix(src, k)
      <4>1. Append(cur, src[k + 1]) = Prefix(src, k + 1)
        BY <2>1, <3>2, PrefixFacts
      <4>2. CASE KindAt(Prefix(src, k + 1)) = "symlink"
        BY <4>2 DEF LinkAmong
      <4>3. CASE KindAt(Prefix(src, k + 1)) # "symlink"
        BY <4>1, <4>3 DEF Follow
      <4> QED
        BY <4>2, <4>3
    <3> QED
      BY <3>1, <3>2
  <2>. HIDE DEF c
  <2>3. j.k = k + 1 /\ j.cur = c /\ j.src = src
    BY DEF Job
  <2>4. pc'[w] = "joinSrc" /\ job'[w] = j /\ UNCHANGED fsvars
    BY <2>1, Moved DEF Step
  <2>. HIDE DEF j
  <2>5. LinkAmong(src, 1 .. k + 1) => LinkAmong(job[w].src, 1 .. job[w].k)'
    BY <2>3, <2>4 DEF LinkAmong, KindAt, fsvars
  <2>6. AtSource(w)'
    BY <2>1, <2>2, <2>3, <2>4, <2>5 DEF AtSource
  <2> QED
    BY <2>4, <2>6 DEF Carries, Knows, Reads, Filled, OK
<1>2. CASE /\ k = Len(src)
           /\ Step(w, "componentsSrc", [job[w] EXCEPT !.k = 0, !.cur = << >>, !.srcPath = cur])
  <2>. DEFINE j == [job[w] EXCEPT !.k = 0, !.cur = << >>, !.srcPath = cur]
  <2>1. j.k = 0 /\ j.src = src /\ j.srcPath = cur
    BY DEF Job
  <2>2. pc'[w] = "componentsSrc" /\ job'[w] = j /\ UNCHANGED fsvars
    BY <1>2, Moved DEF Step
  <2>. HIDE DEF j
  <2>3. cur = src \/ LinkAmong(src, 1 .. Len(src))
    BY <1>2, PrefixFacts
  <2>4. LinkAmong(src, 1 .. Len(src)) =>
          LinkAmong(job[w].src, job[w].k + 1 .. Len(job[w].src))'
    BY <2>1, <2>2 DEF LinkAmong, KindAt, fsvars
  <2>5. AtSource(w)'
    BY <2>1, <2>2, <2>3, <2>4 DEF AtSource
  <2> QED
    BY <2>2, <2>5 DEF Carries, Knows, Reads, Filled, OK
<1> QED
  BY <1>1, <1>2, <1>3, ErrorIsNotNil DEF JoinSrc, JoinStep

LEMMA ComponentsSrcCarries ==
  ASSUME CopyInv, NEW w \in Worker, ComponentsSrc(w)
  PROVE  AtSource(w)' /\ Carries(w)'
<1>. DEFINE src == job[w].src
            k == job[w].k
            p == Prefix(src, k + 1)
            next == [job[w] EXCEPT !.k = 0]
            more == [job[w] EXCEPT !.k = @ + 1]
<1>1. TypeOK /\ job[w] \in Job /\ src \in RelPath /\ k \in Nat /\ Len(src) \in Nat
  BY DEF CopyInv, ContractInv, InPlaceInv, TypeInv, TypeOK, Job, RelPath
<1>2. pc[w] = "componentsSrc" /\ (job[w].srcPath = src \/ LinkAmong(src, k + 1 .. Len(src)))
  BY DEF CopyInv, AtSource, ComponentsSrc
<1>3. ASSUME job[w].srcPath = src, Step(w, "lstatSrc", next)
      PROVE  AtSource(w)' /\ Carries(w)'
  <2>1. next.src = src /\ next.srcPath = job[w].srcPath
    BY <1>1 DEF Job
  <2>2. pc'[w] = "lstatSrc" /\ job'[w] = next
    BY <1>1, <1>3, Moved DEF Step
  <2> QED
    BY <1>3, <2>1, <2>2 DEF AtSource, Carries, Knows, Reads, Filled, OK
<1>4. CASE src = << >> /\ Step(w, "lstatSrc", next)
  <2>1. ~LinkAmong(src, k + 1 .. Len(src))
    BY <1>1, <1>4 DEF LinkAmong
  <2> QED
    BY <1>2, <1>3, <1>4, <2>1
<1>5. CASE KindAt(p) # "symlink" /\ k + 1 = Len(src) /\ Step(w, "lstatSrc", next)
  <2>1. ~LinkAmong(src, k + 1 .. Len(src))
    BY <1>1, <1>5 DEF LinkAmong
  <2> QED
    BY <1>2, <1>3, <1>5, <2>1
<1>6. CASE KindAt(p) # "symlink" /\ Step(w, "componentsSrc", more)
  <2>1. more.src = src /\ more.srcPath = job[w].srcPath /\ more.k = k + 1
    BY <1>1 DEF Job
  <2>2. pc'[w] = "componentsSrc" /\ job'[w] = more /\ UNCHANGED fsvars
    BY <1>1, <1>6, Moved DEF Step
  <2>. HIDE DEF more
  <2>3. LinkAmong(src, k + 1 .. Len(src)) =>
          LinkAmong(job[w].src, job[w].k + 1 .. Len(job[w].src))'
    <3>. SUFFICES ASSUME NEW n \in k + 1 .. Len(src), KindAt(Prefix(src, n)) = "symlink"
         PROVE  LinkAmong(job[w].src, job[w].k + 1 .. Len(job[w].src))'
      BY DEF LinkAmong
    <3>1. n \in k + 1 + 1 .. Len(src)
      BY <1>1, <1>6
    <3>2. \A q : KindAt(q)' = KindAt(q)
      BY <2>2 DEF KindAt, fsvars
    <3> QED
      BY <2>1, <2>2, <3>1, <3>2 DEF LinkAmong
  <2>4. AtSource(w)'
    BY <1>2, <2>1, <2>2, <2>3 DEF AtSource
  <2> QED
    BY <2>2, <2>4 DEF Carries, Knows, Reads, Filled, OK
<1>7. ASSUME NEW e, e # nil, Fail(w, e)
      PROVE  AtSource(w)' /\ Carries(w)'
  BY <1>1, <1>7, FailCarries
<1>8. \/ src = << >> /\ Step(w, "lstatSrc", next)
      \/ KindAt(p) # "symlink" /\ k + 1 = Len(src) /\ Step(w, "lstatSrc", next)
      \/ KindAt(p) # "symlink" /\ Step(w, "componentsSrc", more)
      \/ \E e : e # nil /\ Fail(w, e)
  BY <1>1, <1>2, ErrorIsNotNil DEF ComponentsSrc, RejectSymlinkComponents
<1> QED
  BY <1>4, <1>5, <1>6, <1>7, <1>8
\* The mode is read where the source is: under the request's own path.
LEMMA LstatSrcCarries ==
  ASSUME CopyInv, NEW w \in Worker, LstatSrc(w)
  PROVE  AtSource(w)' /\ Carries(w)'
<1>. DEFINE src == job[w].src
            m == inode[entry[job[w].srcPath]].mode
            j == [job[w] EXCEPT !.mode = m]
<1>1. TypeOK /\ job[w] \in Job /\ pc[w] = "lstatSrc" /\ job[w].srcPath = src
  BY DEF CopyInv, ContractInv, InPlaceInv, TypeInv, TypeOK, AtSource, LstatSrc
<1>2. \/ KindAt(src) = "file" /\ Step(w, "joinDst", j)
      \/ \E e : e # nil /\ Fail(w, e)
  BY <1>1, ErrorIsNotNil DEF LstatSrc
<1>3. ASSUME NEW e, e # nil, Fail(w, e)
      PROVE  AtSource(w)' /\ Carries(w)'
  BY <1>1, <1>3, FailCarries
<1>4. CASE KindAt(src) = "file" /\ Step(w, "joinDst", j)
  <2>1. src \in Path /\ InitEntry[src] # NoInode =>
          /\ InitInode[InitEntry[src]].kind = "file"
          /\ m = InitInode[InitEntry[src]].mode
    BY <1>1, <1>4, PathAssumption DEF CopyInv, InitKept, KindAt
  <2>. HIDE DEF m
  <2>2. j.src = src /\ j.mode = m
    BY <1>1 DEF Job
  <2>3. pc'[w] = "joinDst" /\ job'[w] = j
    BY <1>1, <1>4, Moved DEF Step
  <2>. HIDE DEF j
  <2> QED
    BY <2>1, <2>2, <2>3 DEF AtSource, Carries, SourceSeen, Knows, Reads, Filled, OK
<1> QED
  BY <1>2, <1>3, <1>4

\* From there to the opening, a step leaves the source and its mode alone.
LEMMA BetweenCarries ==
  ASSUME CopyInv, NEW w \in Worker,
         JoinDst(w) \/ ComponentsDst(w) \/ LstatDst(w) \/ JoinParent(w) \/ LstatParent(w)
  PROVE  AtSource(w)' /\ Carries(w)'
<1>. DEFINE Between == {"joinDst", "componentsDst", "lstatDst", "joinParent", "lstatParent", "open"}
<1>1. TypeOK /\ job[w] \in Job /\ pc[w] \in Between
  BY DEF CopyInv, ContractInv, InPlaceInv, TypeInv, TypeOK, JoinDst, ComponentsDst, LstatDst,
         JoinParent, LstatParent
<1>2. SourceSeen(w)
  BY <1>1 DEF CopyInv, Carries, Knows
<1>3. ASSUME NEW to \in Between, NEW j, j.src = job[w].src, j.mode = job[w].mode, Step(w, to, j)
      PROVE  AtSource(w)' /\ Carries(w)'
  <2>1. pc'[w] = to /\ job'[w] = j
    BY <1>1, <1>3, Moved DEF Step
  <2> QED
    BY <1>2, <1>3, <2>1 DEF AtSource, Carries, SourceSeen, Knows, Reads, Filled, OK
<1>4. ASSUME NEW e, e # nil, Fail(w, e)
      PROVE  AtSource(w)' /\ Carries(w)'
  BY <1>1, <1>4, FailCarries
<1>5. ASSUME NEW k, NEW c, NEW p
      PROVE  /\ [job[w] EXCEPT !.k = k].src = job[w].src
             /\ [job[w] EXCEPT !.k = k].mode = job[w].mode
             /\ [job[w] EXCEPT !.k = k, !.cur = c].src = job[w].src
             /\ [job[w] EXCEPT !.k = k, !.cur = c].mode = job[w].mode
             /\ [job[w] EXCEPT !.k = k, !.cur = c, !.dstPath = p].src = job[w].src
             /\ [job[w] EXCEPT !.k = k, !.cur = c, !.dstPath = p].mode = job[w].mode
  BY <1>1 DEF Job
<1>6. \E to \in Between :
        \/ Step(w, to, job[w])
        \/ \E k : Step(w, to, [job[w] EXCEPT !.k = k])
        \/ \E k, c : Step(w, to, [job[w] EXCEPT !.k = k, !.cur = c])
        \/ \E k, c, p : Step(w, to, [job[w] EXCEPT !.k = k, !.cur = c, !.dstPath = p])
        \/ \E e : e # nil /\ Fail(w, e)
  <2>1. CASE JoinDst(w)
    <3>1. \/ \E k, c : Step(w, "joinDst", [job[w] EXCEPT !.k = k, !.cur = c])
          \/ \E k, c, p : Step(w, "componentsDst", [job[w] EXCEPT !.k = k, !.cur = c, !.dstPath = p])
          \/ \E e : e # nil /\ Fail(w, e)
      BY <2>1, ErrorIsNotNil DEF JoinDst, JoinStep
    <3> QED
      BY <3>1
  <2>2. CASE ComponentsDst(w)
    BY <2>2, ErrorIsNotNil DEF ComponentsDst, RejectSymlinkComponents
  <2>3. CASE LstatDst(w)
    BY <2>3, ErrorIsNotNil DEF LstatDst
  <2>4. CASE JoinParent(w)
    <3>1. \/ \E k, c : Step(w, "joinParent", [job[w] EXCEPT !.k = k, !.cur = c])
          \/ \E k : Step(w, "lstatParent", [job[w] EXCEPT !.k = k])
          \/ \E e : e # nil /\ Fail(w, e)
      BY <2>4, ErrorIsNotNil DEF JoinParent, JoinStep
    <3> QED
      BY <3>1
  <2>5. CASE LstatParent(w)
    BY <2>5, ErrorIsNotNil DEF LstatParent
  <2> QED
    BY <2>1, <2>2, <2>3, <2>4, <2>5
<1>7. PICK to \in Between :
        \/ Step(w, to, job[w])
        \/ \E k : Step(w, to, [job[w] EXCEPT !.k = k])
        \/ \E k, c : Step(w, to, [job[w] EXCEPT !.k = k, !.cur = c])
        \/ \E k, c, p : Step(w, to, [job[w] EXCEPT !.k = k, !.cur = c, !.dstPath = p])
        \/ \E e : e # nil /\ Fail(w, e)
  BY <1>6
<1>. HIDE DEF Between
<1>8. CASE \/ Step(w, to, job[w])
           \/ \E k : Step(w, to, [job[w] EXCEPT !.k = k])
  BY <1>3, <1>5, <1>8
<1>9. ASSUME NEW k, NEW c, Step(w, to, [job[w] EXCEPT !.k = k, !.cur = c])
      PROVE  AtSource(w)' /\ Carries(w)'
  BY <1>3, <1>5, <1>9
<1>10. ASSUME NEW k, NEW c, NEW p, Step(w, to, [job[w] EXCEPT !.k = k, !.cur = c, !.dstPath = p])
       PROVE  AtSource(w)' /\ Carries(w)'
  <2>. DEFINE j == [job[w] EXCEPT !.k = k, !.cur = c, !.dstPath = p]
  <2>1. j.src = job[w].src /\ j.mode = job[w].mode
    BY <1>5
  <2>2. Step(w, to, j)
    BY <1>10
  <2>. HIDE DEF j
  <2> QED
    BY <1>3, <2>1, <2>2
<1> QED
  BY <1>4, <1>7, <1>8, <1>9, <1>10

LEMMA OpenCarries ==
  ASSUME CopyInv, TypeInv', NEW w \in Worker, Open(w)
  PROVE  AtSource(w)' /\ Carries(w)'
<1>. DEFINE p == job[w].srcPath
            q == Follow(p)
            f == entry[q]
            j == [job[w] EXCEPT !.fd = f]
<1>1. /\ TypeOK /\ FSTypeOK /\ TreeOK /\ job[w] \in Job /\ pc[w] = "open"
  BY DEF CopyInv, ContractInv, InPlaceInv, TypeInv, TypeOK, Open
<1>2. SourceSeen(w)
  BY <1>1 DEF CopyInv, Carries, Knows
<1>3. \/ OpenErrno(p) = "ok" /\ Step(w, "create", j)
      \/ OpenErrno(p) = "ok" /\ KindAt(q) = "other" /\ Step(w, "waiting", j)
      \/ \E e : e # nil /\ Fail(w, e)
  BY ErrorIsNotNil DEF Open
<1>4. ASSUME NEW e, e # nil, Fail(w, e)
      PROVE  AtSource(w)' /\ Carries(w)'
  BY <1>1, <1>4, FailCarries
<1>5. ASSUME OpenErrno(p) = "ok", NEW to \in {"waiting", "create"}, Step(w, to, j),
             to = "waiting" => KindAt(q) = "other"
      PROVE  AtSource(w)' /\ Carries(w)'
  <2>1. p # << >> /\ KindAt(p) # "none"
    BY <1>1, <1>5 DEF OpenErrno, LstatErrno, CopyInv, ContractInv, InPlaceInv, TypeInv, LocalsOK
  <2>2. \A i \in Inode : inode[i].kind = "symlink" => inode[i].target \in LinkTarget
    BY DEF CopyInv, ContractInv, InPlaceInv, TypeInv, LocalsOK
  <2>3. q # << >> /\ KindAt(q) # "none"
    BY <1>1, <1>5, <2>1, <2>2, KindAtPath, PathAssumption DEF OpenErrno, LstatErrno, Follow
  <2>4. q \in Path /\ entry[q] # NoInode
    BY <2>3 DEF KindAt
  <2>5. /\ f \in Inode /\ inode[f].kind # "free"
        /\ to = "waiting" => inode[f].kind = "other"
    BY <1>1, <1>5, <2>3, <2>4 DEF TreeOK, FSTypeOK, KindAt
  <2>. HIDE DEF f
  <2>6. j.src = job[w].src /\ j.mode = job[w].mode /\ j.fd = f
    BY <1>1 DEF Job
  <2>7. pc'[w] = to /\ job'[w] = j /\ inode' = inode
    BY <1>1, <1>5, Moved DEF Step, fsvars
  <2>. HIDE DEF j
  <2> QED
    BY <1>2, <2>5, <2>6, <2>7 DEF AtSource, Carries, SourceSeen, Knows, Reads, Filled, OK
<1> QED
  BY <1>3, <1>4, <1>5

\* What was waited for is what is read.
LEMMA WriterCarries ==
  ASSUME CopyInv, NEW w \in Worker, WriterComes(w)
  PROVE  AtSource(w)' /\ Carries(w)'
<1>1. /\ pc[w] = "waiting" /\ pc'[w] = "create" /\ job'[w] = job[w] /\ inode' = inode
  BY Moved DEF CopyInv, ContractInv, InPlaceInv, TypeInv, WriterComes, Step, fsvars
<1>2. /\ SourceSeen(w) /\ job[w].fd \in Inode /\ inode[job[w].fd].kind # "free"
  BY <1>1 DEF CopyInv, Carries, Knows, Reads
<1> QED
  BY <1>1, <1>2 DEF AtSource, Carries, SourceSeen, Knows, Reads, Filled, OK

\* From the creation on: the file is empty, then a clone, then has the mode too.
LEMMA WritingCarries ==
  ASSUME LeaveAlone, CopyInv, [Next]_vars, NEW w \in Worker,
         Create(w) \/ Clone(w) \/ Chmod(w) \/ Close(w) \/ CleanupRemove(w)
  PROVE  AtSource(w)' /\ Carries(w)'
<1>1. /\ TypeOK /\ FSTypeOK /\ job[w] \in Job /\ w \in Inode /\ Carries(w)
      /\ ContractInv /\ Making(w) /\ AtDestination(w)
  BY WorkerAssumption DEF CopyInv, ContractInv, InPlaceInv, TypeInv, TypeOK
<1>2. \A x : LET j == [job[w] EXCEPT !.err = x]
             IN  j.src = job[w].src /\ j.mode = job[w].mode /\ j.fd = job[w].fd /\ j.err = x
  BY <1>1 DEF Job
<1>3. ASSUME NEW e, e # nil, Fail(w, e)
      PROVE  AtSource(w)' /\ Carries(w)'
  BY <1>1, <1>3, FailCarries
<1>4. ASSUME NEW e, e # nil, Step(w, "close", [job[w] EXCEPT !.err = e]), pc[w] \in {"clone", "chmod"}
      PROVE  AtSource(w)' /\ Carries(w)'
  <2>. DEFINE j == [job[w] EXCEPT !.err = e]
  <2>1. j.src = job[w].src /\ j.mode = job[w].mode /\ j.fd = job[w].fd /\ j.err = e
    BY <1>2
  <2>2. pc'[w] = "close" /\ job'[w] = j /\ inode' = inode
    BY <1>1, <1>4, Moved DEF Step, fsvars
  <2>. HIDE DEF j
  <2> QED
    BY <1>1, <1>4, <2>1, <2>2 DEF AtSource, Carries, SourceSeen, Knows, Reads, Filled, OK
<1>5. CASE Create(w)
  <2>1. CASE NewFile(w, job[w].dstPath)
    <3>1. pc[w] = "create" /\ pc'[w] = "clone" /\ job'[w] = job[w]
      BY <1>1, <1>5, <2>1, Moved DEF Create, NewFile
    <3>2. inode'[w].content = Empty
      BY <1>1, <2>1 DEF NewFile, FSTypeOK
    <3>3. job[w].fd \in Inode /\ inode'[job[w].fd].kind # "free"
      BY <3>1, OpenStays DEF Reads
    <3> QED
      BY <1>1, <3>1, <3>2, <3>3 DEF AtSource, Carries, SourceSeen, Knows, Reads, Filled, OK
  <2> QED
    BY <1>3, <1>5, <2>1, ErrorIsNotNil DEF Create
<1>6. CASE Clone(w)
  <2>. DEFINE i == job[w].fd
  <2>0. pc[w] = "clone" /\ Reads(w)
    BY <1>6 DEF Clone, Reads
  <2>1. CASE /\ Goto(w, "chmod", job[w])
             /\ inode' = [inode EXCEPT ![w].content = inode[i].content]
    <3>1. pc'[w] = "chmod" /\ job'[w] = job[w]
      BY <1>1, <2>1, Moved
    <3>2. i \in Inode /\ inode'[i].kind # "free"
      BY <2>0, OpenStays
    <3>3. inode'[w].content = inode[i].content
      BY <1>1, <2>1 DEF FSTypeOK, Node
    <3>4. inode'[i].content = inode[i].content
      BY <1>1, <2>1, <3>2, <3>3
    <3> QED
      BY <1>1, <2>0, <3>1, <3>2, <3>3, <3>4 DEF AtSource, Carries, SourceSeen, Knows, Reads, Filled, OK
  <2>2. CASE \E e : e # nil /\ Step(w, "close", [job[w] EXCEPT !.err = e])
    BY <1>4, <2>0, <2>2
  <2>3. Unsupported # nil
    BY ErrorIsNotNil DEF Unsupported
  <2> QED
    BY <1>6, <2>1, <2>2, <2>3, ErrorIsNotNil DEF Clone
<1>7. CASE Chmod(w)
  <2>. DEFINE i == job[w].fd
  <2>0. pc[w] = "chmod" /\ Reads(w) /\ job[w].err = nil
    BY <1>1, <1>7 DEF Chmod, Reads, Making
  <2>1. CASE /\ Goto(w, "close", job[w])
             /\ inode' = [inode EXCEPT ![w].mode = job[w].mode]
    <3>1. pc'[w] = "close" /\ job'[w] = job[w]
      BY <1>1, <2>1, Moved
    <3>2. i \in Inode /\ inode'[i].kind # "free"
      BY <2>0, OpenStays
    <3>3. inode'[w].mode = job[w].mode /\ inode'[w].content = inode[w].content
      BY <1>1, <2>1 DEF FSTypeOK, Node
    <3>4. inode'[i].content = inode[i].content
      BY <1>1, <2>1, <3>2, <3>3
    <3> QED
      BY <1>1, <2>0, <3>1, <3>2, <3>3, <3>4 DEF AtSource, Carries, SourceSeen, Knows, Reads, Filled, OK
  <2> QED
    BY <1>4, <1>7, <2>0, <2>1, ErrorIsNotNil DEF Chmod
<1>8. CASE Close(w)
  <2>1. pc[w] = "close" /\ inode' = inode
    BY <1>8 DEF Close, Step, fsvars
  <2>2. CASE job[w].err # nil
    <3>1. Goto(w, "remove", job[w]) \/ Goto(w, "remove", [job[w] EXCEPT !.err = job[w].err])
      BY <1>8, <2>2 DEF Close, Step
    <3>2. pc'[w] = "remove"
      BY <1>1, <3>1, Moved
    <3> QED
      BY <3>2, GoneCarries
  <2>3. CASE job[w].err = nil
    <3>1. Goto(w, "done", job[w]) \/ Goto(w, "done", [job[w] EXCEPT !.err = Raw("EIO")])
      BY <1>8, <2>3 DEF Close, Step
    <3>2. CASE Goto(w, "done", job[w])
      <4>1. pc'[w] = "done" /\ job'[w] = job[w]
        BY <1>1, <3>2, Moved
      <4> QED
        BY <1>1, <2>1, <2>3, <4>1 DEF AtSource, Carries, SourceSeen, Knows, Reads, Filled, OK
    <3>3. CASE Goto(w, "done", [job[w] EXCEPT !.err = Raw("EIO")])
      <4>1. pc'[w] = "done" /\ job'[w] = [job[w] EXCEPT !.err = Raw("EIO")]
        BY <1>1, <3>3, Moved
      <4>2. job'[w].err = Raw("EIO")
        BY <1>2, <4>1
      <4> QED
        BY <4>1, <4>2, GoneCarries, ErrorIsNotNil
    <3> QED
      BY <3>1, <3>2, <3>3
  <2> QED
    BY <2>2, <2>3
<1>9. CASE CleanupRemove(w)
  <2>1. job[w].err # nil /\ Goto(w, "done", job[w])
    BY <1>1, <1>9 DEF CleanupRemove, AtDestination, Step
  <2>2. pc'[w] = "done" /\ job'[w] = job[w]
    BY <1>1, <2>1, Moved
  <2> QED
    BY <2>1, <2>2, GoneCarries
<1> QED
  BY <1>5, <1>6, <1>7, <1>8, <1>9

LEMMA NextCopy ==
  ASSUME LeaveAlone, CopyInv, [Next]_vars
  PROVE  CopyInv'
<1>1. ContractInv /\ InitKept /\ Undisturbed
  BY DEF LeaveAlone, Undisturbed, NoRemoval, CopyInv
<1>2. ContractInv' /\ TypeInv'
  BY <1>1, NextContract DEF ContractInv, InPlaceInv
<1>3. InitKept'
  BY <1>1, InitKeptNext
<1>4. ASSUME NEW w \in Worker, WorkerStep(w) \/ WriterComes(w)
      PROVE  AtSource(w)' /\ Carries(w)'
  BY <1>2, <1>4, StartCarries, JoinSrcCarries, ComponentsSrcCarries, LstatSrcCarries,
     BetweenCarries, OpenCarries, WriterCarries, WritingCarries DEF WorkerStep
<1>5. ASSUME NEW v \in Worker PROVE AtSource(v)' /\ Carries(v)'
  <2>1. CASE pc'[v] = pc[v] /\ job'[v] = job[v]
    BY <1>2, <2>1, CopyStutter
  <2>2. ASSUME NEW w \in Worker, WorkerStep(w) \/ WriterComes(w), Others(w)
        PROVE  AtSource(v)' /\ Carries(v)'
    BY <1>4, <2>1, <2>2 DEF Others
  <2>3. ASSUME NEW w \in Worker, Crash(w), pc'[w] = "crashed", Others(w)
        PROVE  AtSource(v)' /\ Carries(v)'
    BY <2>1, <2>3, GoneCarries DEF Others
  <2> QED
    BY <1>1, <2>1, <2>2, <2>3, StepCases
<1> QED
  BY <1>2, <1>3, <1>5 DEF CopyInv

LEMMA InitCopy == Init => CopyInv
<1>. SUFFICES ASSUME Init PROVE CopyInv
  OBVIOUS
<1>1. ContractInv /\ InitKept
  BY InitContract DEF InitKept, Init, FSInit
<1>2. ASSUME NEW w \in Worker PROVE AtSource(w) /\ Carries(w)
  BY DEF Init, NoJob, AtSource, Carries, Knows, Reads, Filled, OK
<1> QED
  BY <1>1, <1>2 DEF CopyInv

\* A success is a copy (OkIsCopy), for any share, requests, calls, failures and
\* crashes: Execute reads type, mode, path and content of the source by four system
\* calls, and the file it leaves still is, content and mode, the one that was under
\* the source's name all along; of a file another call was only making, it holds
\* nothing or all.  Guests must leave alone what they find, for one that writes,
\* moves or removes the source changes what there is to copy.
THEOREM OkIsACopy ==
  ASSUME LeaveAlone
  PROVE  Spec => []OkIsCopy
<1>1. ASSUME CopyInv, NEW w \in Worker, OK(w)
      PROVE  LET s == inode[job[w].fd]
                 d == inode[w]
             IN  IF job[w].src \in Path /\ InitEntry[job[w].src] = job[w].fd
                 THEN d.content = s.content /\ d.mode = s.mode
                 ELSE d.content \in {Empty, s.content}
  <2>1. /\ Carries(w) /\ Filled(w) /\ Knows(w) /\ Reads(w) /\ InitKept
    BY <1>1 DEF CopyInv, Filled, Knows, Reads
  <2>2. job[w].fd \in Inode /\ inode[w].content \in {Empty, inode[job[w].fd].content}
    BY <2>1 DEF Carries
  <2>3. ASSUME job[w].src \in Path, InitEntry[job[w].src] = job[w].fd
        PROVE  /\ inode[w].content = inode[job[w].fd].content
               /\ inode[w].mode = inode[job[w].fd].mode
    <3>1. InitEntry[job[w].src] # NoInode
      BY <2>2, <2>3, InodeAssumption
    <3>2. inode[w].mode = InitInode[job[w].fd].mode
      BY <2>1, <2>3, <3>1 DEF Carries, SourceSeen
    <3>3. inode[job[w].fd] = InitInode[job[w].fd]
      BY <2>1, <2>3, <3>1 DEF InitKept
    <3>4. inode[w].content = inode[job[w].fd].content
      BY <2>1, <2>3 DEF Carries
    <3> QED
      BY <3>2, <3>3, <3>4
  <2> QED
    BY <2>2, <2>3
<1>2. CopyInv => OkIsCopy
  BY <1>1 DEF OkIsCopy
<1>3. CopyInv /\ [Next]_vars => CopyInv'
  BY NextCopy
<1> QED
  BY <1>2, <1>3, InitCopy, PTL DEF Spec

\* What a call waits for in os.Open was not under the source's name from the start
\* (WaitsForNewcomer): LstatSrc found a regular file there, and a regular file is
\* never waited for.  A call can only hang on what was made while it ran.
THEOREM WaitsForNewcomers ==
  ASSUME LeaveAlone
  PROVE  Spec => []WaitsForNewcomer
<1>1. ASSUME CopyInv, NEW w \in Worker, pc[w] = "waiting", job[w].src \in Path,
             InitEntry[job[w].src] = job[w].fd
      PROVE  FALSE
  <2>1. SourceSeen(w) /\ job[w].fd \in Inode /\ inode[job[w].fd].kind = "other"
    BY <1>1 DEF CopyInv, Carries, Knows, Reads
  <2>2. InitEntry[job[w].src] # NoInode
    BY <1>1, <2>1, InodeAssumption
  <2>3. InitInode[job[w].fd].kind = "file" /\ inode[job[w].fd] = InitInode[job[w].fd]
    BY <1>1, <2>1, <2>2 DEF SourceSeen, CopyInv, InitKept
  <2> QED
    BY <2>1, <2>3
<1>2. CopyInv => WaitsForNewcomer
  BY <1>1 DEF WaitsForNewcomer
<1>3. CopyInv /\ [Next]_vars => CopyInv'
  BY NextCopy
<1> QED
  BY <1>2, <1>3, InitCopy, PTL DEF Spec
-----------------------------------------------------------------------------
(* With nobody else at work: the verdict and the blame.                     *)

\* One call, no guests, no failure but those the share explains.
Alone == GuestOps = {} /\ Faults = {} /\ \A v, w \in Worker : v = w

\* Requests that Request.Validate lets pass, or refuses for their paths.
PathsOnly ==
  \A r \in Request : Validate(r) # nil =>
    r.src = EmptyPath \/ r.dst = EmptyPath \/ r.src = r.dst

\* What the first name that is no directory makes of a path.
BlockedBy(kind) ==
  CASE kind = "none" -> "ENOENT" [] kind = "symlink" -> "ELOOP" [] OTHER -> "ENOTDIR"

LEMMA WalkIs ==
  ASSUME NEW p
  PROVE  /\ WalkErrno(p) = "ok" <=> \A n \in 1 .. Len(p) - 1 : KindAt(Prefix(p, n)) = "dir"
         /\ LstatErrno(p) = "ok" <=> WalkErrno(p) = "ok" /\ KindAt(p) # "none"
         /\ WalkErrno(p) # "ok" => LstatErrno(p) = WalkErrno(p)
         /\ WalkErrno(p) = "ok" /\ KindAt(p) = "none" => LstatErrno(p) = "ENOENT"
<1>1. WalkErrno(p) = "ok" <=> \A n \in 1 .. Len(p) - 1 : KindAt(Prefix(p, n)) = "dir"
  BY DEF WalkErrno
<1> QED
  BY <1>1 DEF LstatErrno

LEMMA FirstBlock ==
  ASSUME NEW p, Len(p) \in Nat, NEW n \in 1 .. Len(p) - 1, KindAt(Prefix(p, n)) # "dir",
         \A k \in 1 .. n - 1 : KindAt(Prefix(p, k)) = "dir"
  PROVE  WalkErrno(p) = BlockedBy(KindAt(Prefix(p, n)))
<1>. DEFINE bad == {k \in 1 .. Len(p) - 1 : KindAt(Prefix(p, k)) # "dir"}
            first == CHOOSE k \in bad : \A m \in bad : k <= m
<1>1. n \in bad /\ \A m \in bad : n <= m
  OBVIOUS
<1>2. first \in bad /\ \A m \in bad : first <= m
  BY <1>1
<1>3. first = n
  BY <1>1, <1>2
<1>4. bad # {}
  BY <1>1
<1>. HIDE DEF first
<1> QED
  BY <1>3, <1>4 DEF WalkErrno, BlockedBy, first

\* What stops the walk to a prefix stops the walk to the path.
LEMMA PrefixErrno ==
  ASSUME NEW p \in RelPath, NEW m \in 1 .. Len(p), LstatErrno(Prefix(p, m)) # "ok"
  PROVE  /\ LstatErrno(p) = LstatErrno(Prefix(p, m))
         /\ m < Len(p) => WalkErrno(p) = LstatErrno(Prefix(p, m))
<1>. DEFINE q == Prefix(p, m)
<1>1. Len(p) \in Nat /\ Len(q) = m /\ \A n \in 1 .. m - 1 : Prefix(q, n) = Prefix(p, n)
  <2>1. p \in Seq(Name) /\ Len(p) \in Nat
    BY DEF RelPath
  <2>2. Len(q) = m
    BY <2>1 DEF Prefix
  <2>3. ASSUME NEW n \in 1 .. m - 1 PROVE Prefix(q, n) = Prefix(p, n)
    BY <2>1, SubSeqOfSubSeq DEF Prefix
  <2> QED
    BY <2>1, <2>2, <2>3
<1>2. CASE m = Len(p)
  BY <1>2, PrefixFacts
<1>3. CASE m < Len(p) /\ WalkErrno(q) = "ok"
  <2>1. KindAt(q) = "none" /\ LstatErrno(q) = "ENOENT"
    BY <1>3, WalkIs
  <2>2. \A n \in 1 .. m - 1 : KindAt(Prefix(p, n)) = "dir"
    <3>1. \A n \in 1 .. m - 1 : KindAt(Prefix(q, n)) = "dir"
      BY <1>1, <1>3, WalkIs
    <3> QED
      BY <1>1, <3>1
  <2>3. WalkErrno(p) = BlockedBy(KindAt(Prefix(p, m)))
    BY <1>1, <1>3, <2>1, <2>2, FirstBlock
  <2>4. WalkErrno(p) = "ENOENT"
    BY <2>1, <2>3 DEF BlockedBy
  <2> QED
    BY <2>1, <2>4, WalkIs
<1>4. CASE m < Len(p) /\ WalkErrno(q) # "ok"
  <2>. DEFINE bad == {n \in 1 .. m - 1 : KindAt(Prefix(q, n)) # "dir"}
  <2>1. bad # {} /\ bad \in SUBSET Nat
    BY <1>1, <1>4, WalkIs
  <2>2. PICK n \in bad : \A k \in bad : n <= k
    BY <2>1, LeastNumber
  <2>3. n \in 1 .. m - 1 /\ KindAt(Prefix(q, n)) # "dir"
        /\ \A k \in 1 .. n - 1 : KindAt(Prefix(q, k)) = "dir"
    BY <2>2
  <2>4. WalkErrno(q) = BlockedBy(KindAt(Prefix(q, n)))
    BY <1>1, <2>3, FirstBlock
  <2>5. n \in 1 .. Len(p) - 1 /\ KindAt(Prefix(p, n)) # "dir"
        /\ \A k \in 1 .. n - 1 : KindAt(Prefix(p, k)) = "dir"
    BY <1>1, <1>4, <2>3
  <2>6. WalkErrno(p) = BlockedBy(KindAt(Prefix(p, n)))
    BY <1>1, <2>5, FirstBlock
  <2>7. WalkErrno(p) = WalkErrno(q)
    BY <1>1, <2>3, <2>4, <2>6
  <2> QED
    BY <1>4, <2>7, WalkIs
<1> QED
  BY <1>2, <1>3, <1>4

\* Every name on the way to what is there, and is no symlink, is there and is none.
LEMMA WayIsClear ==
  ASSUME NEW p \in RelPath, WalkErrno(p) = "ok", KindAt(p) \notin {"none", "symlink"},
         NEW m \in 1 .. Len(p)
  PROVE  LstatErrno(Prefix(p, m)) = "ok" /\ KindAt(Prefix(p, m)) # "symlink"
<1>1. LstatErrno(p) = "ok"
  BY WalkIs
<1>2. LstatErrno(Prefix(p, m)) = "ok"
  BY <1>1, PrefixErrno
<1>3. KindAt(Prefix(p, m)) # "symlink"
  <2>1. CASE m = Len(p)
    BY <2>1, PrefixFacts
  <2>2. CASE m # Len(p)
    <3>1. Len(p) \in Nat
      BY DEF RelPath
    <3> QED
      BY <2>2, <3>1, WalkIs
  <2> QED
    BY <2>1, <2>2
<1> QED
  BY <1>2, <1>3
Said(e) == ResponseFromError(e).msg

LEMMA SaidIs ==
  /\ \A code, msg : Said(NewError(code, msg)) = msg
  /\ \A errno \in Errno :
       /\ Said(Raw(errno)) = "source not found" => errno \in {"ENOENT", "ENOTDIR"}
       /\ Said(Raw(errno)) = "destination already exists" => errno = "EEXIST"
       /\ Said(Raw(errno)) # "destination parent does not exist"
<1>1. \A code, msg : Said(NewError(code, msg)) = msg
  BY DEF Said, ResponseFromError, NewError, FailureResponse
<1>2. ASSUME NEW errno \in Errno
      PROVE  /\ Said(Raw(errno)) = "source not found" => errno \in {"ENOENT", "ENOTDIR"}
             /\ Said(Raw(errno)) = "destination already exists" => errno = "EEXIST"
             /\ Said(Raw(errno)) # "destination parent does not exist"
  <2>1. Said(Raw(errno)) = MessageFromError(errno)
    BY DEF Said, ResponseFromError, Raw, FailureResponse
  <2>2. CASE errno \in {"ENOENT", "ENOTDIR", "EEXIST"}
    BY <2>1, <2>2 DEF MessageFromError, CodeFromError
  <2>3. CASE errno \in {"EPERM", "EACCES", "EOPNOTSUPP"}
    BY <2>1, <2>3 DEF MessageFromError, CodeFromError
  <2>4. CASE errno \in Errno \ {"ENOENT", "ENOTDIR", "EEXIST", "EPERM", "EACCES", "EOPNOTSUPP"}
    <3>1. CodeFromError(errno) = "EINVAL"
      BY <2>4 DEF CodeFromError
    <3>2. MessageFromError(errno) = errno
      BY <3>1 DEF MessageFromError
    <3> QED
      BY <2>1, <2>4, <3>2 DEF Errno
  <2> QED
    BY <2>2, <2>3, <2>4
<1> QED
  BY <1>1, <1>2

\* What LstatSrc accepts.
SourceFits(p) == WalkErrno(p) = "ok" /\ KindAt(p) = "file" /\ Nlink(entry[p]) = 1

NoLink(p, m) == \A n \in 1 .. m : KindAt(Prefix(p, n)) # "symlink"

\* A request that had to be refused, and an answer that blames the right path.
Unfit(w, src, dst) == ~(Acceptable(src, dst) /\ entry[dst] \in {NoInode, w})

Blames(src, dst, said) ==
  /\ said = "source not found" =>
       LstatErrno(src) \in {"ENOENT", "ENOTDIR"} \/ LstatErrno(dst) = "ENOTDIR"
  /\ said = "destination already exists" => KindAt(dst) # "none"
  /\ said = "destination parent does not exist" => LstatErrno(Dir(dst)) = "ENOENT"
  /\ said \in {"destination already exists", "destination parent does not exist"} =>
       SourceFits(src)

Refuted(w, src, dst, e) == (PathsOnly => Unfit(w, src, dst)) /\ Blames(src, dst, Said(e))

\* What a call that is alone has found out, as far as it has come.
Walked(w) ==
  \A src, dst, e : src = job[w].src /\ dst = job[w].dst /\ e = job[w].err =>
    /\ pc[w] = "componentsSrc" => src = << >> \/ job[w].k < Len(src)
    /\ Knows(w) => SourceFits(src)
    /\ pc[w] \in {"joinDst", "componentsDst", "lstatDst", "joinParent", "lstatParent", "open"} =>
         job[w].srcPath = src
    /\ pc[w] \in {"create", "clone"} => job[w].fd = entry[src]
    /\ pc[w] = "componentsDst" =>
         (dst = << >> \/ job[w].k < Len(dst)) /\ NoLink(dst, job[w].k) /\ job[w].cur = << >>
    /\ pc[w] = "lstatDst" => job[w].k = 0 /\ job[w].cur = << >>
    /\ pc[w] \in {"lstatDst", "joinParent"} => NoLink(dst, Len(dst))
    /\ pc[w] \in {"joinParent", "lstatParent", "open", "create"} => LstatErrno(dst) = "ENOENT"
    /\ pc[w] = "joinParent" =>
         job[w].k <= Len(Dir(dst)) /\ job[w].cur = Prefix(Dir(dst), job[w].k)
    /\ pc[w] = "lstatParent" => job[w].cur = Dir(dst)
    /\ pc[w] \in {"open", "create"} \/ Reads(w) => WalkErrno(dst) = "ok"
    /\ pc[w] \in {"chmod", "close"} => job[w].err = nil
    /\ pc[w] # "remove"
    /\ pc[w] # "waiting"
    /\ Failed(w) => Refuted(w, src, dst, e)

AloneInv == CopyInv /\ \A w \in Worker : Walked(w)

\* A share that is left alone denotes what it did.
LEMMA SameShare ==
  ASSUME UNCHANGED <<entry, inode>>, NEW p
  PROVE  /\ KindAt(p)' = KindAt(p) /\ WalkErrno(p)' = WalkErrno(p)
         /\ LstatErrno(p)' = LstatErrno(p)
         /\ SourceFits(p)' <=> SourceFits(p)
<1>1. ASSUME NEW q PROVE KindAt(q)' = KindAt(q)
  BY DEF KindAt
<1>2. WalkErrno(p)' = WalkErrno(p)
  <2>1. \A n : KindAt(Prefix(p, n))' = KindAt(Prefix(p, n))
    BY <1>1
  <2> QED
    BY <2>1 DEF WalkErrno
<1>3. LstatErrno(p)' = LstatErrno(p)
  BY <1>1, <1>2 DEF LstatErrno
<1>4. SourceFits(p)' <=> SourceFits(p)
  BY <1>1, <1>2 DEF SourceFits, Nlink
<1> QED
  BY <1>1, <1>2, <1>3, <1>4

LEMMA SameRefuted ==
  ASSUME UNCHANGED <<entry, inode>>, NEW w, NEW src, NEW dst, NEW e, Refuted(w, src, dst, e)
  PROVE  Refuted(w, src, dst, e)'
<1>1. Unfit(w, src, dst)' <=> Unfit(w, src, dst)
  <2>1. Acceptable(src, dst)' <=> Acceptable(src, dst)
    BY SameShare DEF Acceptable, Nlink
  <2> QED
    BY <2>1 DEF Unfit
<1>2. \A said : Blames(src, dst, said)' <=> Blames(src, dst, said)
  BY SameShare DEF Blames
<1>3. Said(e)' = Said(e)
  OBVIOUS
<1> QED
  BY <1>1, <1>2, <1>3 DEF Refuted

LEMMA SameWalked ==
  ASSUME UNCHANGED vars, NEW w \in Worker, Walked(w)
  PROVE  Walked(w)'
<1>1. UNCHANGED <<entry, inode, pc, job>>
  BY DEF vars
<1>. SUFFICES ASSUME NEW src, NEW dst, NEW e, src = job[w].src, dst = job[w].dst, e = job[w].err
     PROVE  Walked(w)'
  OBVIOUS
<1>2. \A p, m : NoLink(p, m)' <=> NoLink(p, m)
  BY <1>1, SameShare DEF NoLink
<1>3. Refuted(w, src, dst, e) => Refuted(w, src, dst, e)'
  BY <1>1, SameRefuted
<1>4. \A m : NoLink(dst, m) => \A n \in 1 .. m : KindAt(Prefix(dst, n))' # "symlink"
  BY <1>1, SameShare DEF NoLink
<1> QED
  BY <1>1, <1>3, <1>4, SameShare DEF Walked, Knows, Reads, OK, Failed, NoLink

\* A refusal.
LEMMA FailWalked ==
  ASSUME TypeOK, NEW w \in Worker, NEW e, Fail(w, e), e # nil, NEW src, NEW dst,
         src = job[w].src, dst = job[w].dst, Refuted(w, src, dst, e)
  PROVE  Walked(w)'
<1>1. job[w] \in Job
  BY DEF TypeOK
<1>2. LET j == [job[w] EXCEPT !.err = e] IN j.err = e /\ j.src = src /\ j.dst = dst
  BY <1>1 DEF Job
<1>3. /\ pc'[w] = "done" /\ job'[w] = [job[w] EXCEPT !.err = e]
      /\ UNCHANGED <<entry, inode>>
  BY Moved DEF Fail, Step, fsvars
<1>4. Refuted(w, src, dst, e)'
  BY <1>3, SameRefuted
<1>5. job'[w].err = e /\ job'[w].src = src /\ job'[w].dst = dst
  BY <1>2, <1>3
<1> QED
  BY <1>3, <1>4, <1>5 DEF Walked, Knows, Reads, OK
BlamingText ==
  {"source not found", "destination already exists", "destination parent does not exist"}

\* validate.Request refuses in words of its own.
LEMMA NormalizeIs ==
  ASSUME NEW p
  PROVE  /\ NormalizeRelative(p).err # nil => NormalizeRelative(p).rel = << >>
         /\ Said(NormalizeRelative(p).err) \notin BlamingText
         /\ p = EmptyPath => NormalizeRelative(p).rel = << >>
<1>1. \/ NormalizeRelative(p) = Refuse("EINVAL", "path is required")
      \/ NormalizeRelative(p) = Refuse("EPERM", "absolute paths are not allowed")
      \/ NormalizeRelative(p) = Refuse("EPERM", "path must stay within the shared root")
      \/ NormalizeRelative(p) = Accept(Clean(p).parts)
  BY DEF NormalizeRelative
<1>2. ASSUME NEW x PROVE Accept(x).err = nil /\ Said(Accept(x).err) = ""
  BY DEF Accept, Said, ResponseFromError, nil, SuccessResponse
<1>3. ASSUME NEW code, NEW msg
      PROVE  Refuse(code, msg).rel = << >> /\ Said(Refuse(code, msg).err) = msg
  BY SaidIs DEF Refuse
<1>4. /\ "" \notin BlamingText /\ "path is required" \notin BlamingText
      /\ "absolute paths are not allowed" \notin BlamingText
      /\ "path must stay within the shared root" \notin BlamingText
  BY DEF BlamingText
<1>5. p = EmptyPath => NormalizeRelative(p) = Refuse("EINVAL", "path is required")
  BY DEF NormalizeRelative
<1>6. NormalizeRelative(p).err # nil => NormalizeRelative(p).rel = << >>
  BY <1>1, <1>2, <1>3, Zenon
<1>7. Said(NormalizeRelative(p).err) \notin BlamingText
  BY <1>1, <1>2, <1>3, <1>4, Zenon
<1> QED
  BY <1>3, <1>5, <1>6, <1>7, Zenon

LEMMA ValidateSaid ==
  ASSUME NEW r
  PROVE  Said(Validate(r)) \notin BlamingText
<1>1. ASSUME NEW cases, Len(cases) = 7, DOMAIN cases = 1 .. 7,
             \A i \in 1 .. 7 : cases[i].msg \notin BlamingText
      PROVE  Said(FirstError(cases)) \notin BlamingText
  <2>. DEFINE bad == {i \in DOMAIN cases : cases[i].when}
              first == CHOOSE i \in bad : \A j \in bad : i <= j
  <2>1. CASE bad = {}
    <3>1. FirstError(cases) = nil
      BY <2>1 DEF FirstError
    <3>2. Said(nil) = ""
      BY DEF Said, ResponseFromError, nil, SuccessResponse
    <3> QED
      BY <3>1, <3>2 DEF BlamingText
  <2>2. CASE bad # {}
    <3>1. bad \in SUBSET Nat
      BY <1>1
    <3>2. \E i \in bad : \A j \in bad : i <= j
      BY <2>2, <3>1, LeastNumber
    <3>3. first \in bad
      BY <3>2
    <3>4. FirstError(cases) = NewError("EINVAL", cases[first].msg)
      BY <2>2 DEF FirstError
    <3>5. first \in 1 .. 7
      BY <1>1, <3>3
    <3>. HIDE DEF first
    <3>6. Said(FirstError(cases)) = cases[first].msg
      BY <3>4, SaidIs, Zenon
    <3> QED
      BY <1>1, <3>5, <3>6, Zenon
  <2> QED
    BY <2>1, <2>2
<1>. DEFINE cases == <<
    [when |-> r.version \notin {1, 2}, msg |-> "unsupported protocol version"],
    [when |-> r.op # "reflink", msg |-> "unsupported operation"],
    [when |-> r.version = 1 /\ r.token # "",
     msg |-> "authentication token requires protocol version 2"],
    [when |-> r.version = 2 /\ r.token = "", msg |-> "authentication token is required"],
    [when |-> r.src = <<"">>, msg |-> "source path is required"],
    [when |-> r.dst = <<"">>, msg |-> "destination path is required"],
    [when |-> r.src = r.dst, msg |-> "source and destination must differ"] >>
<1>2. /\ cases[1].msg = "unsupported protocol version" /\ cases[2].msg = "unsupported operation"
      /\ cases[3].msg = "authentication token requires protocol version 2"
      /\ cases[4].msg = "authentication token is required"
      /\ cases[5].msg = "source path is required" /\ cases[6].msg = "destination path is required"
      /\ cases[7].msg = "source and destination must differ"
  OBVIOUS
<1>3. Len(cases) = 7 /\ DOMAIN cases = 1 .. 7
  OBVIOUS
<1>4. Validate(r) = FirstError(cases)
  BY DEF Validate
<1>. HIDE DEF cases
<1>5. \A i \in 1 .. 7 : cases[i].msg \notin BlamingText
  <2>1. /\ cases[1].msg \notin BlamingText /\ cases[2].msg \notin BlamingText
        /\ cases[3].msg \notin BlamingText /\ cases[4].msg \notin BlamingText
        /\ cases[5].msg \notin BlamingText /\ cases[6].msg \notin BlamingText
        /\ cases[7].msg \notin BlamingText
    BY <1>2 DEF BlamingText
  <2>2. \A i \in 1 .. 7 : i = 1 \/ i = 2 \/ i = 3 \/ i = 4 \/ i = 5 \/ i = 6 \/ i = 7
    OBVIOUS
  <2> QED
    BY <2>1, <2>2, Zenon
<1> QED
  BY <1>1, <1>3, <1>4, <1>5

LEMMA RefusedRequest ==
  ASSUME NEW r \in Request, ValidateRequest(r) # nil
  PROVE  /\ Said(ValidateRequest(r)) \notin BlamingText
         /\ PathsOnly => \/ NormalizeRelative(r.src).rel = << >>
                         \/ NormalizeRelative(r.dst).rel = << >>
                         \/ NormalizeRelative(r.src).rel = NormalizeRelative(r.dst).rel
<1>1. CASE Validate(r) # nil
  <2>1. ValidateRequest(r) = Validate(r)
    BY <1>1 DEF ValidateRequest
  <2> QED
    BY <1>1, <2>1, ValidateSaid, NormalizeIs DEF PathsOnly
<1>2. CASE Validate(r) = nil /\ NormalizeRelative(r.src).err # nil
  <2>1. ValidateRequest(r) = NormalizeRelative(r.src).err
    BY <1>2 DEF ValidateRequest
  <2> QED
    BY <1>2, <2>1, NormalizeIs
<1>3. CASE Validate(r) = nil /\ NormalizeRelative(r.src).err = nil
  <2>1. ValidateRequest(r) = NormalizeRelative(r.dst).err
    BY <1>3 DEF ValidateRequest
  <2> QED
    BY <2>1, NormalizeIs
<1> QED
  BY <1>1, <1>2, <1>3

\* What a call that has not created its file, and need not be refused, will find.
LEMMA Fitting ==
  ASSUME ContractInv, NEW w \in Worker, pc[w] \in {"idle"} \cup Early, NEW src, NEW dst,
         ~Unfit(w, src, dst)
  PROVE  /\ SourceFits(src) /\ LstatErrno(src) = "ok"
         /\ WalkErrno(dst) = "ok" /\ KindAt(dst) = "none" /\ LstatErrno(dst) = "ENOENT"
         /\ dst \in Path /\ src # dst /\ src # << >>
<1>1. SourceFits(src) /\ WalkErrno(dst) = "ok" /\ dst \in Path /\ entry[dst] \in {NoInode, w}
  BY DEF Unfit, Acceptable, SourceFits
<1>2. inode[w].kind = "free" /\ TreeOK /\ w \in Worker
  BY DEF ContractInv, Making, InPlaceInv
<1>3. w # NoInode
  BY WorkerAssumption, InodeAssumption
<1>4. entry[dst] = NoInode
  BY <1>1, <1>2, <1>3 DEF TreeOK
<1>5. KindAt(dst) = "none"
  BY <1>1, <1>4, PathAssumption DEF KindAt
<1>6. src # << >>
  BY <1>1 DEF SourceFits, KindAt
<1> QED
  BY <1>1, <1>5, <1>6, WalkIs DEF SourceFits
LEMMA StartWalked ==
  ASSUME AloneInv, NEW w \in Worker, Start(w)
  PROVE  Walked(w)'
<1>1. /\ TypeOK /\ job[w] \in Job /\ pc[w] = "idle" /\ ContractInv
  BY DEF AloneInv, CopyInv, ContractInv, InPlaceInv, TypeInv, TypeOK, Start
<1>2. PICK r \in Request :
        Step(w, IF ValidateRequest(r) = nil THEN "joinSrc" ELSE "done",
             [job[w] EXCEPT !.src = NormalizeRelative(r.src).rel,
                            !.dst = NormalizeRelative(r.dst).rel, !.err = ValidateRequest(r)])
  BY DEF Start
<1>3. PICK e, s, d : /\ e = ValidateRequest(r)
                     /\ s = NormalizeRelative(r.src).rel /\ d = NormalizeRelative(r.dst).rel
  OBVIOUS
<1>. DEFINE j == [job[w] EXCEPT !.src = s, !.dst = d, !.err = e]
            to == IF e = nil THEN "joinSrc" ELSE "done"
<1>4. j.src = s /\ j.dst = d /\ j.err = e
  BY <1>1 DEF Job
<1>5. pc'[w] = to /\ job'[w] = j /\ UNCHANGED <<entry, inode>>
  <2>1. Step(w, to, j)
    BY <1>2, <1>3
  <2>. HIDE DEF to, j
  <2> QED
    BY <1>1, <2>1, Moved DEF Step, fsvars
<1>. HIDE DEF j
<1>6. CASE e = nil
  <2>1. pc'[w] = "joinSrc"
    BY <1>5, <1>6
  <2> QED
    BY <2>1 DEF Walked, Knows, Reads, OK, Failed
<1>7. CASE e # nil
  <2>1. PathsOnly => Unfit(w, s, d)
    <3>. SUFFICES ASSUME PathsOnly, ~Unfit(w, s, d) PROVE FALSE
      OBVIOUS
    <3>1. s = << >> \/ d = << >> \/ s = d
      BY <1>3, <1>7, RefusedRequest
    <3>2. d \in Path /\ s # d /\ s # << >>
      BY <1>1, Fitting
    <3> QED
      BY <3>1, <3>2, PathAssumption
  <2>2. Said(e) \notin BlamingText
    BY <1>3, <1>7, RefusedRequest
  <2>3. Refuted(w, s, d, e)
    BY <2>1, <2>2 DEF Refuted, Blames, BlamingText
  <2>4. Refuted(w, s, d, e)'
    BY <1>5, <2>3, SameRefuted
  <2>5. pc'[w] = "done" /\ job'[w].src = s /\ job'[w].dst = d /\ job'[w].err = e
    BY <1>4, <1>5, <1>7
  <2> QED
    BY <1>7, <2>4, <2>5 DEF Walked, Knows, Reads, OK
<1> QED
  BY <1>6, <1>7

LEMMA JoinSrcWalked ==
  ASSUME Alone, AloneInv, NEW w \in Worker, JoinSrc(w)
  PROVE  Walked(w)'
<1>1. TypeOK /\ job[w] \in Job /\ pc[w] = "joinSrc" /\ Len(job[w].src) \in Nat
  BY DEF AloneInv, CopyInv, ContractInv, InPlaceInv, TypeInv, TypeOK, JoinSrc, Job, RelPath
<1>2. CASE JoinStep(w, job[w].src)
  <2>1. pc'[w] = "joinSrc"
    BY <1>1, <1>2, Moved DEF JoinStep, Step, Alone
  <2> QED
    BY <2>1 DEF Walked, Knows, Reads, OK, Failed
<1>3. CASE Step(w, "componentsSrc",
                [job[w] EXCEPT !.k = 0, !.cur = << >>, !.srcPath = job[w].cur])
  <2>. DEFINE j == [job[w] EXCEPT !.k = 0, !.cur = << >>, !.srcPath = job[w].cur]
  <2>1. j.k = 0 /\ j.src = job[w].src
    BY <1>1 DEF Job
  <2>2. pc'[w] = "componentsSrc" /\ job'[w] = j
    BY <1>1, <1>3, Moved DEF Step
  <2>3. job[w].src = << >> \/ 0 < Len(job[w].src)
    BY <1>1, EmptySeq DEF Job, RelPath
  <2>. HIDE DEF j
  <2> QED
    BY <2>1, <2>2, <2>3 DEF Walked, Knows, Reads, OK, Failed
<1> QED
  BY <1>2, <1>3 DEF JoinSrc

LEMMA InEarly ==
  {"joinSrc", "componentsSrc", "lstatSrc", "joinDst", "componentsDst", "lstatDst",
   "joinParent", "lstatParent", "open", "create"} \subseteq Early
  BY DEF Early

\* What AloneInv says of one call and its local variables.
LEMMA AloneState ==
  ASSUME AloneInv, NEW w \in Worker
  PROVE  /\ TypeOK /\ TypeInv /\ TreeOK /\ ContractInv /\ CopyInv
         /\ OnTheWay(w) /\ AtDestination(w) /\ AtSource(w) /\ Carries(w) /\ Walked(w)
         /\ job[w] \in Job /\ job[w].src \in RelPath /\ job[w].dst \in RelPath
         /\ job[w].k \in Nat /\ job[w].cur \in RelPath
         /\ Len(job[w].src) \in Nat /\ Len(job[w].dst) \in Nat
<1>1. CopyInv /\ Walked(w)
  BY DEF AloneInv
<1>2. ContractInv /\ AtSource(w) /\ Carries(w)
  BY <1>1 DEF CopyInv
<1>3. InPlaceInv
  BY <1>2 DEF ContractInv
<1>4. TypeInv /\ TreeOK /\ OnTheWay(w) /\ AtDestination(w)
  BY <1>3 DEF InPlaceInv
<1>5. TypeOK
  BY <1>4 DEF TypeInv
<1>6. job[w] \in Job
  BY <1>5 DEF TypeOK
<1>7. /\ job[w].src \in RelPath /\ job[w].dst \in RelPath
      /\ job[w].k \in Nat /\ job[w].cur \in RelPath
  BY <1>6 DEF Job
<1>8. Len(job[w].src) \in Nat /\ Len(job[w].dst) \in Nat
  BY <1>7 DEF RelPath
<1> QED
  BY <1>1, <1>2, <1>4, <1>5, <1>6, <1>7, <1>8

LEMMA ComponentsSrcWalked ==
  ASSUME Alone, AloneInv, NEW w \in Worker, ComponentsSrc(w)
  PROVE  Walked(w)'
<1>1. PICK src, dst, k : src = job[w].src /\ dst = job[w].dst /\ k = job[w].k
  OBVIOUS
<1>. DEFINE p == Prefix(src, k + 1)
            errno == LstatErrno(p)
<1>2. /\ TypeOK /\ job[w] \in Job /\ pc[w] = "componentsSrc" /\ ContractInv
      /\ src \in RelPath /\ k \in Nat /\ Len(src) \in Nat /\ "componentsSrc" \in Early
  BY <1>1, AloneState, InEarly DEF ComponentsSrc
<1>3. src = << >> \/ k < Len(src)
  BY <1>1, <1>2 DEF AloneInv, Walked
<1>4. CASE \E i : Step(w, "lstatSrc", [job[w] EXCEPT !.k = i])
  <2>1. pc'[w] = "lstatSrc"
    BY <1>2, <1>4, Moved DEF Step
  <2> QED
    BY <2>1 DEF Walked, Knows, Reads, OK, Failed
<1>5. CASE src # << >> /\ k + 1 # Len(src)
           /\ Step(w, "componentsSrc", [job[w] EXCEPT !.k = @ + 1])
  <2>. DEFINE j == [job[w] EXCEPT !.k = @ + 1]
  <2>1. j.k = k + 1 /\ j.src = src
    BY <1>1, <1>2 DEF Job
  <2>2. pc'[w] = "componentsSrc" /\ job'[w] = j
    BY <1>2, <1>5, Moved DEF Step
  <2>3. k + 1 < Len(src)
    BY <1>2, <1>3, <1>5
  <2>. HIDE DEF j
  <2> QED
    BY <2>1, <2>2, <2>3 DEF Walked, Knows, Reads, OK, Failed
<1>6. ASSUME src # << >>, errno # "ok" \/ KindAt(p) = "symlink"
      PROVE  Unfit(w, src, dst)
  <2>. SUFFICES ASSUME ~Unfit(w, src, dst) PROVE FALSE
    OBVIOUS
  <2>1. WalkErrno(src) = "ok" /\ KindAt(src) = "file" /\ k + 1 \in 1 .. Len(src)
    BY <1>2, <1>3, <1>6, Fitting DEF SourceFits
  <2> QED
    BY <1>2, <1>6, <2>1, WayIsClear
<1>7. ASSUME src # << >>, errno # "ok" PROVE LstatErrno(src) = errno
  <2>1. k + 1 \in 1 .. Len(src)
    BY <1>2, <1>3, <1>7
  <2> QED
    BY <1>2, <1>7, <2>1, PrefixErrno
<1>8. errno \in Errno \cup {"ok"}
  BY ErrnoType
<1>9. ASSUME NEW e, e # nil, Fail(w, e), Refuted(w, src, dst, e) PROVE Walked(w)'
  BY <1>1, <1>2, <1>9, FailWalked
<1>. HIDE DEF errno, p
<1>10. CASE src # << >> /\ KindAt(p) = "symlink"
            /\ Fail(w, NewError("EINVAL", "symlinks are not supported"))
  <2>1. Said(NewError("EINVAL", "symlinks are not supported")) = "symlinks are not supported"
    BY SaidIs
  <2>2. Refuted(w, src, dst, NewError("EINVAL", "symlinks are not supported"))
    BY <1>6, <1>10, <2>1 DEF Refuted, Blames
  <2> QED
    BY <1>9, <1>10, <2>2, ErrorIsNotNil
<1>11. CASE src # << >> /\ errno = "ENOENT"
            /\ Fail(w, NewError("ENOENT", "source not found"))
  <2>1. Said(NewError("ENOENT", "source not found")) = "source not found"
    BY SaidIs
  <2>2. Refuted(w, src, dst, NewError("ENOENT", "source not found"))
    BY <1>6, <1>7, <1>11, <2>1 DEF Refuted, Blames
  <2> QED
    BY <1>9, <1>11, <2>2, ErrorIsNotNil
<1>12. CASE src # << >> /\ errno \notin {"ok", "ENOENT"} /\ Fail(w, Raw(errno))
  <2>1. errno \in Errno /\ errno # "EEXIST"
    BY <1>8, <1>12, ErrnoOfWalk DEF errno
  <2>2. Refuted(w, src, dst, Raw(errno))
    BY <1>6, <1>7, <1>12, <2>1, SaidIs DEF Refuted, Blames
  <2> QED
    BY <1>9, <1>12, <2>2, ErrorIsNotNil
<1> QED
  <2>1. ComponentsSrc(w)
    OBVIOUS
  <2>2. \/ \E i : Step(w, "lstatSrc", [job[w] EXCEPT !.k = i])
        \/ src # << >> /\ k + 1 # Len(src)
           /\ Step(w, "componentsSrc", [job[w] EXCEPT !.k = @ + 1])
        \/ src # << >> /\ KindAt(p) = "symlink"
           /\ Fail(w, NewError("EINVAL", "symlinks are not supported"))
        \/ src # << >> /\ errno = "ENOENT" /\ Fail(w, NewError("ENOENT", "source not found"))
        \/ src # << >> /\ errno \notin {"ok", "ENOENT"} /\ Fail(w, Raw(errno))
    BY <1>1, <1>2, <2>1 DEF ComponentsSrc, RejectSymlinkComponents, Alone, errno, p
  <2> QED
    BY <1>4, <1>5, <1>10, <1>11, <1>12, <2>2

LEMMA LstatSrcWalked ==
  ASSUME Alone, AloneInv, NEW w \in Worker, LstatSrc(w)
  PROVE  Walked(w)'
<1>1. PICK src, dst : src = job[w].src /\ dst = job[w].dst
  OBVIOUS
<1>. DEFINE errno == LstatErrno(src)
<1>2. /\ TypeOK /\ job[w] \in Job /\ pc[w] = "lstatSrc" /\ ContractInv /\ AtSource(w)
      /\ job[w].srcPath = src /\ "lstatSrc" \in Early
  BY <1>1 DEF AloneInv, CopyInv, ContractInv, InPlaceInv, TypeInv, TypeOK, LstatSrc, Early, AtSource
<1>3. ASSUME NEW e, e # nil, Fail(w, e), Refuted(w, src, dst, e) PROVE Walked(w)'
  BY <1>1, <1>2, <1>3, FailWalked
<1>4. CASE /\ errno = "ok" /\ KindAt(src) = "file" /\ Nlink(entry[src]) = 1
           /\ Step(w, "joinDst", [job[w] EXCEPT !.mode = inode[entry[src]].mode])
  <2>. DEFINE j == [job[w] EXCEPT !.mode = inode[entry[src]].mode]
  <2>1. j.src = src /\ j.srcPath = src
    BY <1>1, <1>2 DEF Job
  <2>. HIDE DEF j
  <2>2. pc'[w] = "joinDst" /\ job'[w] = j /\ UNCHANGED <<entry, inode>>
    BY <1>2, <1>4, Moved DEF Step, fsvars, j
  <2>3. SourceFits(src)'
    <3>1. SourceFits(src)
      BY <1>4, WalkIs DEF SourceFits
    <3> QED
      BY <2>2, <3>1, SameShare
  <2> QED
    BY <2>1, <2>2, <2>3 DEF Walked, Knows, Reads, OK, Failed
<1>5. ASSUME errno # "ok" \/ KindAt(src) # "file" \/ Nlink(entry[src]) # 1
      PROVE  Unfit(w, src, dst)
  BY <1>2, <1>5, Fitting DEF SourceFits
<1>6. ASSUME NEW msg \in {"symlinks are not supported", "source must be a regular file",
                         "hard links are not supported"},
             errno # "ok" \/ KindAt(src) # "file" \/ Nlink(entry[src]) # 1,
             Fail(w, NewError("EINVAL", msg))
      PROVE  Walked(w)'
  <2>1. Said(NewError("EINVAL", msg)) = msg
    BY SaidIs
  <2>2. Refuted(w, src, dst, NewError("EINVAL", msg))
    BY <1>5, <1>6, <2>1 DEF Refuted, Blames
  <2> QED
    BY <1>3, <1>6, <2>2, ErrorIsNotNil
<1>7. CASE errno = "ENOENT" /\ Fail(w, NewError("ENOENT", "source not found"))
  <2>1. Said(NewError("ENOENT", "source not found")) = "source not found"
    BY SaidIs
  <2>2. Refuted(w, src, dst, NewError("ENOENT", "source not found"))
    BY <1>5, <1>7, <2>1 DEF Refuted, Blames
  <2> QED
    BY <1>3, <1>7, <2>2, ErrorIsNotNil
<1>8. CASE errno \notin {"ok", "ENOENT"} /\ Fail(w, Raw(errno))
  <2>1. errno \in Errno /\ errno # "EEXIST"
    BY <1>8, ErrnoOfWalk, ErrnoType
  <2>2. Refuted(w, src, dst, Raw(errno))
    <3>. HIDE DEF errno
    <3>1. LstatErrno(src) = errno
      BY DEF errno
    <3> QED
      BY <1>5, <1>8, <2>1, <3>1, SaidIs DEF Refuted, Blames
  <2> QED
    BY <1>3, <1>8, <2>2, ErrorIsNotNil
<1>9. \/ errno = "ENOENT" /\ Fail(w, NewError("ENOENT", "source not found"))
      \/ errno \notin {"ok", "ENOENT"} /\ Fail(w, Raw(errno))
      \/ KindAt(src) # "file"
         /\ \E msg \in {"symlinks are not supported", "source must be a regular file"} :
              Fail(w, NewError("EINVAL", msg))
      \/ Nlink(entry[src]) > 1 /\ Fail(w, NewError("EINVAL", "hard links are not supported"))
      \/ /\ errno = "ok" /\ KindAt(src) = "file" /\ Nlink(entry[src]) = 1
         /\ Step(w, "joinDst", [job[w] EXCEPT !.mode = inode[entry[src]].mode])
  <2>1. LstatSrc(w)
    OBVIOUS
  <2>. HIDE DEF errno
  <2>2. LstatErrno(job[w].srcPath) = errno
    BY <1>2 DEF errno
  <2> QED
    BY <1>2, <2>1, <2>2 DEF LstatSrc, Alone
<1>. HIDE DEF errno
<1>10. Nlink(entry[src]) > 1 => Nlink(entry[src]) # 1
  OBVIOUS
<1> QED
  BY <1>4, <1>6, <1>7, <1>8, <1>9, <1>10

\* On the way from the source to the file a step only has to keep the source and
\* what its next point asks for.
LEMMA OnwardWalked ==
  ASSUME AloneInv, NEW w \in Worker, NEW to, NEW j, Step(w, to, j),
         to \in {"joinDst", "componentsDst", "lstatDst", "joinParent", "lstatParent", "open"},
         pc[w] \in {"joinDst", "componentsDst", "lstatDst", "joinParent", "lstatParent"},
         NEW dst, dst = job[w].dst,
         j.src = job[w].src /\ j.dst = dst /\ j.srcPath = job[w].srcPath,
         to = "componentsDst" =>
           (dst = << >> \/ j.k < Len(dst)) /\ NoLink(dst, j.k) /\ j.cur = << >>,
         to = "lstatDst" => j.k = 0 /\ j.cur = << >>,
         to \in {"lstatDst", "joinParent"} => NoLink(dst, Len(dst)),
         to \in {"joinParent", "lstatParent", "open"} => LstatErrno(dst) = "ENOENT",
         to = "joinParent" => j.k <= Len(Dir(dst)) /\ j.cur = Prefix(Dir(dst), j.k),
         to = "lstatParent" => j.cur = Dir(dst),
         to = "open" => WalkErrno(dst) = "ok"
  PROVE  Walked(w)'
<1>1. PICK src : src = job[w].src
  OBVIOUS
<1>2. TypeOK /\ Walked(w)
  BY AloneState
<1>3. SourceFits(src) /\ job[w].srcPath = src
  BY <1>1, <1>2 DEF Walked, Knows
<1>4. pc'[w] = to /\ job'[w] = j /\ UNCHANGED <<entry, inode>>
  BY <1>2, Moved DEF Step, fsvars
<1>5. SourceFits(src)' /\ LstatErrno(dst)' = LstatErrno(dst) /\ WalkErrno(dst)' = WalkErrno(dst)
  BY <1>3, <1>4, SameShare
<1>6. \A m : NoLink(dst, m) => \A n \in 1 .. m : KindAt(Prefix(dst, n))' # "symlink"
  BY <1>4, SameShare DEF NoLink
<1>7. \A m : NoLink(dst, m) => NoLink(dst, m)'
  <2>. SUFFICES ASSUME NEW m, NoLink(dst, m) PROVE NoLink(dst, m)'
    OBVIOUS
  <2>1. \A n \in 1 .. m : KindAt(Prefix(dst, n))' # "symlink"
    BY <1>6
  <2> QED
    BY <2>1 DEF NoLink
<1> QED
  BY <1>1, <1>3, <1>4, <1>5, <1>7 DEF Walked, Knows, Reads, OK, Failed

LEMMA JoinDstWalked ==
  ASSUME Alone, AloneInv, NEW w \in Worker, JoinDst(w)
  PROVE  Walked(w)'
<1>1. PICK dst : dst = job[w].dst
  OBVIOUS
<1>2. pc[w] = "joinDst" /\ job[w] \in Job /\ dst \in RelPath /\ Len(dst) \in Nat
  BY <1>1, AloneState DEF JoinDst
<1>3. CASE JoinStep(w, dst)
  <2>. DEFINE c == Follow(Append(job[w].cur, dst[job[w].k + 1]))
              j == [job[w] EXCEPT !.k = @ + 1, !.cur = c]
  <2>1. j.src = job[w].src /\ j.dst = dst /\ j.srcPath = job[w].srcPath
    BY <1>1, <1>2 DEF Job
  <2>2. Step(w, "joinDst", j)
    BY <1>2, <1>3 DEF JoinStep, Alone
  <2>. HIDE DEF j
  <2> QED
    BY <1>1, <1>2, <2>1, <2>2, OnwardWalked
<1>4. CASE Step(w, "componentsDst",
                [job[w] EXCEPT !.k = 0, !.cur = << >>, !.dstPath = job[w].cur])
  <2>. DEFINE j == [job[w] EXCEPT !.k = 0, !.cur = << >>, !.dstPath = job[w].cur]
  <2>1. /\ j.src = job[w].src /\ j.dst = dst /\ j.srcPath = job[w].srcPath
        /\ j.k = 0 /\ j.cur = << >>
    BY <1>1, <1>2 DEF Job
  <2>2. Step(w, "componentsDst", j)
    BY <1>4
  <2>. HIDE DEF j
  <2>3. (dst = << >> \/ 0 < Len(dst)) /\ NoLink(dst, 0)
    BY <1>2, EmptySeq DEF RelPath, NoLink
  <2>4. (dst = << >> \/ j.k < Len(dst)) /\ NoLink(dst, j.k) /\ j.cur = << >>
    BY <2>1, <2>3
  <2> QED
    BY <1>1, <1>2, <2>1, <2>2, <2>4, OnwardWalked
<1> QED
  BY <1>1, <1>3, <1>4 DEF JoinDst

\* An entry is there only below directories.
LEMMA LinkIsFound ==
  ASSUME TypeOK, TreeOK, NEW p, KindAt(p) = "symlink"
  PROVE  LstatErrno(p) = "ok"
<1>1. p # << >>
  BY DEF KindAt
<1>2. p \in Path /\ entry[p] # NoInode
  BY <1>1, KindAtPath, InodeAssumption DEF TypeOK
<1>3. \A n \in 1 .. Len(p) - 1 : KindAt(Prefix(p, n)) = "dir"
  BY <1>2 DEF TreeOK
<1> QED
  BY <1>3, WalkIs

LEMMA ComponentsDstWalked ==
  ASSUME Alone, AloneInv, NEW w \in Worker, ComponentsDst(w)
  PROVE  Walked(w)'
<1>1. PICK src, dst, k : src = job[w].src /\ dst = job[w].dst /\ k = job[w].k
  OBVIOUS
<1>. DEFINE p == Prefix(dst, k + 1)
            errno == LstatErrno(p)
<1>2. /\ TypeOK /\ job[w] \in Job /\ pc[w] = "componentsDst" /\ ContractInv /\ TreeOK
      /\ dst \in RelPath /\ k \in Nat /\ Len(dst) \in Nat /\ "componentsDst" \in Early
  BY <1>1, AloneState, InEarly DEF ComponentsDst
<1>3. /\ dst = << >> \/ k < Len(dst)
      /\ NoLink(dst, k) /\ job[w].cur = << >> /\ SourceFits(src)
  BY <1>1, <1>2, AloneState DEF Walked, Knows
<1>4. ASSUME NEW i, NEW to, Step(w, to, [job[w] EXCEPT !.k = i]),
             \/ to = "lstatDst" /\ i = 0 /\ NoLink(dst, Len(dst))
             \/ to = "componentsDst" /\ NoLink(dst, i) /\ i < Len(dst)
      PROVE  Walked(w)'
  <2>. DEFINE j == [job[w] EXCEPT !.k = i]
  <2>1. /\ j.src = src /\ j.dst = dst /\ j.srcPath = job[w].srcPath
        /\ j.k = i /\ j.cur = << >>
    BY <1>1, <1>2, <1>3 DEF Job
  <2>. HIDE DEF j
  <2>2. Step(w, to, j)
    BY <1>4 DEF j
  <2> QED
    BY <1>1, <1>2, <1>4, <2>1, <2>2, OnwardWalked
<1>5. ASSUME dst # << >>, KindAt(p) # "symlink" PROVE NoLink(dst, k + 1)
  <2>1. \A n \in 1 .. k + 1 : n \in 1 .. k \/ n = k + 1
    BY <1>2
  <2> QED
    BY <1>3, <1>5, <2>1 DEF NoLink
<1>6. CASE dst = << >> /\ Step(w, "lstatDst", [job[w] EXCEPT !.k = 0])
  <2>1. NoLink(dst, Len(dst))
    BY <1>6 DEF NoLink
  <2> QED
    BY <1>4, <1>6, <2>1
<1>7. CASE dst # << >> /\ k + 1 = Len(dst) /\ errno \in {"ok", "ENOENT"}
           /\ (errno = "ok" => KindAt(p) # "symlink")
           /\ Step(w, "lstatDst", [job[w] EXCEPT !.k = 0])
  <2>1. KindAt(p) # "symlink"
    BY <1>2, <1>7, LinkIsFound
  <2>2. NoLink(dst, Len(dst))
    BY <1>5, <1>7, <2>1
  <2> QED
    BY <1>4, <1>7, <2>2
<1>8. CASE dst # << >> /\ k + 1 # Len(dst) /\ KindAt(p) # "symlink"
           /\ Step(w, "componentsDst", [job[w] EXCEPT !.k = @ + 1])
  <2>1. Step(w, "componentsDst", [job[w] EXCEPT !.k = k + 1])
    BY <1>1, <1>8
  <2>2. NoLink(dst, k + 1) /\ k + 1 < Len(dst)
    BY <1>2, <1>3, <1>5, <1>8
  <2> QED
    BY <1>4, <2>1, <2>2
<1>9. ASSUME dst # << >>, errno # "ok" PROVE LstatErrno(dst) = errno
                                             /\ (k + 1 < Len(dst) => WalkErrno(dst) = errno)
  <2>1. k + 1 \in 1 .. Len(dst)
    BY <1>2, <1>3, <1>9
  <2> QED
    BY <1>2, <1>9, <2>1, PrefixErrno
<1>10. ASSUME NEW e, e # nil, Fail(w, e), Refuted(w, src, dst, e) PROVE Walked(w)'
  BY <1>1, <1>2, <1>10, FailWalked
<1>11. CASE dst # << >> /\ KindAt(p) = "symlink"
            /\ Fail(w, NewError("EINVAL", "symlinks are not supported"))
  <2>1. Said(NewError("EINVAL", "symlinks are not supported")) = "symlinks are not supported"
    BY SaidIs
  <2>2. Unfit(w, src, dst)
    <3>. SUFFICES ASSUME ~Unfit(w, src, dst) PROVE FALSE
      OBVIOUS
    <3>1. WalkErrno(dst) = "ok" /\ KindAt(dst) = "none"
      BY <1>2, Fitting
    <3>2. CASE k + 1 = Len(dst)
      BY <1>2, <1>11, <3>1, <3>2, PrefixFacts
    <3>3. CASE k + 1 # Len(dst)
      <4>0. k \in Nat /\ Len(dst) \in Nat /\ k < Len(dst) /\ k + 1 # Len(dst)
        BY <1>2, <1>3, <1>11, <3>3
      <4>1. k + 1 \in 1 .. Len(dst) - 1
        BY <4>0
      <4> QED
        BY <1>11, <3>1, <4>1, WalkIs
    <3> QED
      BY <3>2, <3>3
  <2>3. Refuted(w, src, dst, NewError("EINVAL", "symlinks are not supported"))
    BY <2>1, <2>2 DEF Refuted, Blames
  <2> QED
    BY <1>10, <1>11, <2>3, ErrorIsNotNil
<1>12. CASE dst # << >> /\ errno = "ENOENT" /\ k + 1 # Len(dst)
            /\ Fail(w, NewError("ENOENT", "destination parent does not exist"))
  <2>. DEFINE msg == "destination parent does not exist"
  <2>1. Said(NewError("ENOENT", msg)) = msg
    BY SaidIs
  <2>0. k \in Nat /\ Len(dst) \in Nat /\ k < Len(dst) /\ k + 1 # Len(dst)
    BY <1>2, <1>3, <1>12
  <2>2. k + 1 < Len(dst)
    BY <2>0
  <2>3. Unfit(w, src, dst)
    <3>1. WalkErrno(dst) # "ok"
      BY <1>9, <1>12, <2>2
    <3> QED
      BY <1>2, <3>1, Fitting
  <2>4. LstatErrno(Dir(dst)) = "ENOENT"
    <3>1. Dir(dst) \in RelPath /\ Len(Dir(dst)) = Len(dst) - 1
      BY <1>2, <1>12, PathType, PrefixFacts
    <3>2. k + 1 \in Nat /\ k + 1 < Len(dst) /\ Prefix(Dir(dst), k + 1) = p
      <4>1. k + 1 \in Nat
        BY <2>0
      <4> QED
        BY <1>2, <2>2, <4>1, PrefixFacts
    <3>3. k + 1 \in 1 .. Len(Dir(dst))
      BY <2>0, <2>2, <3>1
    <3>4. LstatErrno(Prefix(Dir(dst), k + 1)) = "ENOENT"
      BY <1>12, <3>2
    <3> QED
      BY <3>1, <3>3, <3>4, PrefixErrno
  <2>5. Refuted(w, src, dst, NewError("ENOENT", msg))
    BY <1>3, <2>1, <2>3, <2>4 DEF Refuted, Blames
  <2> QED
    BY <1>10, <1>12, <2>5, ErrorIsNotNil
<1>13. CASE dst # << >> /\ errno \notin {"ok", "ENOENT"} /\ Fail(w, Raw(errno))
  <2>1. errno \in Errno /\ errno # "EEXIST"
    BY <1>13, ErrnoOfWalk, ErrnoType
  <2>2. LstatErrno(dst) = errno
    BY <1>9, <1>13
  <2>. HIDE DEF errno
  <2>3. Unfit(w, src, dst)
    BY <1>2, <1>13, <2>2, Fitting
  <2>4. Refuted(w, src, dst, Raw(errno))
    BY <1>13, <2>1, <2>2, <2>3, SaidIs DEF Refuted, Blames
  <2> QED
    BY <1>10, <1>13, <2>4, ErrorIsNotNil
<1>14. \/ dst = << >> /\ Step(w, "lstatDst", [job[w] EXCEPT !.k = 0])
       \/ dst # << >> /\ k + 1 = Len(dst) /\ errno \in {"ok", "ENOENT"}
          /\ (errno = "ok" => KindAt(p) # "symlink")
          /\ Step(w, "lstatDst", [job[w] EXCEPT !.k = 0])
       \/ dst # << >> /\ k + 1 # Len(dst) /\ KindAt(p) # "symlink"
          /\ Step(w, "componentsDst", [job[w] EXCEPT !.k = @ + 1])
       \/ dst # << >> /\ KindAt(p) = "symlink"
          /\ Fail(w, NewError("EINVAL", "symlinks are not supported"))
       \/ dst # << >> /\ errno = "ENOENT" /\ k + 1 # Len(dst)
          /\ Fail(w, NewError("ENOENT", "destination parent does not exist"))
       \/ dst # << >> /\ errno \notin {"ok", "ENOENT"} /\ Fail(w, Raw(errno))
  <2>. HIDE DEF errno, p
  <2>1. ComponentsDst(w)
    OBVIOUS
  <2> QED
    BY <1>1, <1>2, <2>1 DEF ComponentsDst, RejectSymlinkComponents, Alone, errno, p
<1>. HIDE DEF errno, p
<1> QED
  BY <1>6, <1>7, <1>8, <1>11, <1>12, <1>13, <1>14

\* A destination that is there would not have been accepted, one whose way is blocked
\* neither.
LEMMA LstatDstWalked ==
  ASSUME Alone, AloneInv, NEW w \in Worker, LstatDst(w)
  PROVE  Walked(w)'
<1>1. PICK src, dst : src = job[w].src /\ dst = job[w].dst
  OBVIOUS
<1>. DEFINE errno == LstatErrno(dst)
<1>2. /\ TypeOK /\ job[w] \in Job /\ pc[w] = "lstatDst" /\ ContractInv
      /\ dst \in RelPath /\ "lstatDst" \in Early /\ Walked(w) /\ AtDestination(w)
  BY <1>1, AloneState, InEarly DEF LstatDst
<1>3. /\ job[w].k = 0 /\ job[w].cur = << >> /\ NoLink(dst, Len(dst)) /\ SourceFits(src)
      /\ job[w].dstPath = dst
  BY <1>1, <1>2 DEF Walked, Knows, AtDestination
<1>4. ASSUME NEW e, e # nil, Fail(w, e), Refuted(w, src, dst, e) PROVE Walked(w)'
  BY <1>1, <1>2, <1>4, FailWalked
<1>5. CASE errno = "ok" /\ Fail(w, NewError("EEXIST", "destination already exists"))
  <2>1. Said(NewError("EEXIST", "destination already exists")) = "destination already exists"
    BY SaidIs
  <2>2. KindAt(dst) # "none"
    BY <1>5, WalkIs
  <2>3. Unfit(w, src, dst)
    BY <1>2, <2>2, Fitting
  <2>4. Refuted(w, src, dst, NewError("EEXIST", "destination already exists"))
    BY <1>3, <2>1, <2>2, <2>3 DEF Refuted, Blames
  <2> QED
    BY <1>4, <1>5, <2>4, ErrorIsNotNil
<1>6. CASE errno = "ENOENT" /\ Step(w, "joinParent", job[w])
  <2>1. dst # << >>
    <3>1. LstatErrno(<< >>) = "ok"
      BY WalkIs DEF KindAt
    <3> QED
      BY <1>6, <3>1
  <2>2. 0 <= Len(Dir(dst)) /\ Prefix(Dir(dst), 0) = << >>
    <3>1. Dir(dst) \in RelPath
      BY <1>2, PathType
    <3>2. Len(Dir(dst)) \in Nat
      BY <3>1 DEF RelPath
    <3>3. Prefix(Dir(dst), 0) = << >>
      BY <3>1, PrefixFacts
    <3> QED
      BY <3>2, <3>3
  <2>3. job[w].k <= Len(Dir(dst)) /\ job[w].cur = Prefix(Dir(dst), job[w].k)
    BY <1>3, <2>2
  <2> QED
    BY <1>1, <1>2, <1>3, <1>6, <2>3, OnwardWalked
<1>7. CASE errno \notin {"ok", "ENOENT"} /\ Fail(w, Raw(errno))
  <2>1. errno \in Errno /\ errno # "EEXIST"
    BY <1>7, ErrnoOfWalk, ErrnoType
  <2>2. LstatErrno(dst) = errno
    OBVIOUS
  <2>. HIDE DEF errno
  <2>3. Unfit(w, src, dst)
    BY <1>2, <1>7, <2>2, Fitting
  <2>4. Refuted(w, src, dst, Raw(errno))
    BY <1>7, <2>1, <2>2, <2>3, SaidIs DEF Refuted, Blames
  <2> QED
    BY <1>4, <1>7, <2>4, ErrorIsNotNil
<1>8. \/ errno = "ok" /\ Fail(w, NewError("EEXIST", "destination already exists"))
      \/ errno = "ENOENT" /\ Step(w, "joinParent", job[w])
      \/ errno \notin {"ok", "ENOENT"} /\ Fail(w, Raw(errno))
  <2>1. LstatErrno(job[w].dstPath) = errno
    BY <1>3
  <2>. HIDE DEF errno
  <2>2. LstatDst(w)
    OBVIOUS
  <2> QED
    BY <2>1, <2>2 DEF LstatDst, Alone
<1> QED
  BY <1>5, <1>6, <1>7, <1>8

\* No link on the way: the second join gives the request's own parent.
LEMMA JoinParentWalked ==
  ASSUME Alone, AloneInv, NEW w \in Worker, JoinParent(w)
  PROVE  Walked(w)'
<1>1. PICK dst, k : dst = job[w].dst /\ k = job[w].k
  OBVIOUS
<1>. DEFINE d == Dir(dst)
<1>2. /\ TypeOK /\ job[w] \in Job /\ pc[w] = "joinParent" /\ Walked(w)
      /\ dst \in RelPath /\ k \in Nat /\ Len(dst) \in Nat
  BY <1>1, AloneState DEF JoinParent
<1>3. /\ NoLink(dst, Len(dst)) /\ LstatErrno(dst) = "ENOENT"
      /\ k <= Len(d) /\ job[w].cur = Prefix(d, k)
  BY <1>1, <1>2 DEF Walked
<1>4. dst # << >>
  <2>1. LstatErrno(<< >>) = "ok"
    BY WalkIs DEF KindAt
  <2> QED
    BY <1>3, <2>1
<1>5. d \in RelPath /\ Len(d) = Len(dst) - 1
  BY <1>2, <1>4, PathType, PrefixFacts
<1>6. CASE JoinStep(w, d)
  <2>. DEFINE a == Append(job[w].cur, d[k + 1])
              j == [job[w] EXCEPT !.k = @ + 1, !.cur = Follow(a)]
  <2>1. k < Len(d)
    BY <1>1, <1>6 DEF JoinStep
  <2>2. a = Prefix(d, k + 1)
    <3>1. \A n \in Nat : n < Len(d) => Append(Prefix(d, n), d[n + 1]) = Prefix(d, n + 1)
      BY <1>5, PrefixFacts
    <3>2. Append(Prefix(d, k), d[k + 1]) = Prefix(d, k + 1)
      BY <1>2, <2>1, <3>1
    <3> QED
      BY <1>3, <3>2
  <2>3. k + 1 \in Nat /\ k + 1 < Len(dst) /\ k + 1 <= Len(d) /\ k + 1 \in 1 .. Len(dst)
    BY <1>2, <1>5, <2>1
  <2>4. Prefix(d, k + 1) = Prefix(dst, k + 1)
    BY <1>2, <2>3, PrefixFacts
  <2>5. KindAt(a) # "symlink"
    BY <1>3, <2>2, <2>3, <2>4 DEF NoLink
  <2>6. Follow(a) = Prefix(d, k + 1)
    BY <2>2, <2>5 DEF Follow
  <2>7. /\ j.src = job[w].src /\ j.dst = dst /\ j.srcPath = job[w].srcPath
        /\ j.k = k + 1 /\ j.cur = Follow(a)
    BY <1>1, <1>2 DEF Job
  <2>8. Step(w, "joinParent", j)
    <3>1. d = Dir(job[w].dst) /\ job[w].k = k /\ pc[w] = "joinParent"
      BY <1>1, <1>2
    <3>2. Step(w, pc[w], [job[w] EXCEPT !.k = @ + 1,
                                        !.cur = Follow(Append(@, d[job[w].k + 1]))])
      BY <1>6 DEF JoinStep, Alone
    <3> QED
      BY <3>1, <3>2
  <2>. HIDE DEF j, a
  <2>9. j.k <= Len(d) /\ j.cur = Prefix(d, j.k)
    BY <2>3, <2>6, <2>7
  <2> QED
    BY <1>1, <1>2, <1>3, <2>7, <2>8, <2>9, OnwardWalked
<1>7. CASE k = Len(d) /\ Step(w, "lstatParent", [job[w] EXCEPT !.k = 0])
  <2>. DEFINE j == [job[w] EXCEPT !.k = 0]
  <2>1. /\ j.src = job[w].src /\ j.dst = dst /\ j.srcPath = job[w].srcPath
        /\ j.cur = job[w].cur
    BY <1>1, <1>2 DEF Job
  <2>2. Step(w, "lstatParent", j)
    BY <1>7
  <2>. HIDE DEF j
  <2>3. j.cur = d
    BY <1>3, <1>5, <1>7, <2>1, PrefixFacts
  <2> QED
    BY <1>1, <1>2, <1>3, <2>1, <2>2, <2>3, OnwardWalked
<1> QED
  BY <1>1, <1>6, <1>7 DEF JoinParent

LEMMA LstatParentWalked ==
  ASSUME Alone, AloneInv, NEW w \in Worker, LstatParent(w)
  PROVE  Walked(w)'
<1>1. PICK src, dst : src = job[w].src /\ dst = job[w].dst
  OBVIOUS
<1>. DEFINE d == Dir(dst)
            errno == LstatErrno(d)
<1>2. /\ TypeOK /\ job[w] \in Job /\ pc[w] = "lstatParent" /\ ContractInv /\ Walked(w)
      /\ dst \in RelPath /\ Len(dst) \in Nat /\ "lstatParent" \in Early
  BY <1>1, AloneState, InEarly DEF LstatParent
<1>3. LstatErrno(dst) = "ENOENT" /\ job[w].cur = d /\ SourceFits(src)
  BY <1>1, <1>2 DEF Walked, Knows
<1>4. LstatErrno(<< >>) = "ok" /\ KindAt(<< >>) = "dir"
  BY WalkIs DEF KindAt
<1>5. dst # << >>
  BY <1>3, <1>4
<1>6. /\ d \in RelPath /\ Len(d) = Len(dst) - 1 /\ Len(dst) \in Nat \ {0}
      /\ \A n \in 1 .. Len(dst) - 1 : Prefix(d, n) = Prefix(dst, n)
  <2>1. d \in RelPath /\ Len(d) = Len(dst) - 1
    BY <1>2, <1>5, PathType, PrefixFacts
  <2>2. Len(dst) \in Nat \ {0}
    BY <1>2, <1>5, EmptySeq DEF RelPath
  <2>3. \A n \in 1 .. Len(dst) - 1 : Prefix(d, n) = Prefix(dst, n)
    BY <1>2, PrefixFacts
  <2> QED
    BY <2>1, <2>2, <2>3
<1>7. d = Prefix(dst, Len(dst) - 1) /\ (d # << >> => Len(dst) - 1 \in 1 .. Len(dst) - 1)
  <2>1. d # << >> => Len(d) \in Nat \ {0}
    BY <1>6, EmptySeq DEF RelPath
  <2> QED
    BY <1>6, <2>1 DEF Dir
<1>8. errno # "ok" => WalkErrno(dst) = errno /\ LstatErrno(dst) = errno
  <2>. SUFFICES ASSUME errno # "ok" PROVE WalkErrno(dst) = errno /\ LstatErrno(dst) = errno
    OBVIOUS
  <2>1. d # << >>
    BY <1>4
  <2>2. Len(dst) - 1 \in 1 .. Len(dst) /\ Len(dst) - 1 < Len(dst)
    BY <1>6, <1>7, <2>1
  <2>3. LstatErrno(Prefix(dst, Len(dst) - 1)) = errno
    BY <1>7
  <2> QED
    BY <1>2, <2>2, <2>3, PrefixErrno
<1>9. WalkErrno(dst) = "ok" => KindAt(d) = "dir"
  <2>. SUFFICES ASSUME WalkErrno(dst) = "ok" PROVE KindAt(d) = "dir"
    OBVIOUS
  <2>1. CASE d = << >>
    BY <1>4, <2>1
  <2>2. CASE d # << >>
    BY <1>7, <2>2, WalkIs
  <2> QED
    BY <2>1, <2>2
<1>10. KindAt(d) # "dir" \/ errno # "ok" => Unfit(w, src, dst)
  BY <1>2, <1>8, <1>9, Fitting
<1>11. ASSUME NEW e, e # nil, Fail(w, e), Refuted(w, src, dst, e) PROVE Walked(w)'
  BY <1>1, <1>2, <1>11, FailWalked
<1>12. CASE errno = "ENOENT"
            /\ Fail(w, NewError("ENOENT", "destination parent does not exist"))
  <2>. DEFINE msg == "destination parent does not exist"
  <2>1. Said(NewError("ENOENT", msg)) = msg
    BY SaidIs
  <2>2. Refuted(w, src, dst, NewError("ENOENT", msg))
    BY <1>3, <1>10, <1>12, <2>1 DEF Refuted, Blames
  <2> QED
    BY <1>11, <1>12, <2>2, ErrorIsNotNil
<1>13. ~(errno \notin {"ok", "ENOENT"})
  BY <1>3, <1>8
<1>14. ASSUME NEW msg \in {"symlinks are not supported",
                           "destination parent must be a directory"},
              KindAt(d) # "dir", Fail(w, NewError("EINVAL", msg))
       PROVE  Walked(w)'
  <2>1. Said(NewError("EINVAL", msg)) = msg
    BY SaidIs
  <2>2. Refuted(w, src, dst, NewError("EINVAL", msg))
    BY <1>10, <1>14, <2>1 DEF Refuted, Blames
  <2> QED
    BY <1>11, <1>14, <2>2, ErrorIsNotNil
<1>15. CASE errno = "ok" /\ KindAt(d) = "dir" /\ Step(w, "open", job[w])
  <2>1. \A n \in 1 .. Len(dst) - 1 : KindAt(Prefix(dst, n)) = "dir"
    <3>. SUFFICES ASSUME NEW n \in 1 .. Len(dst) - 1 PROVE KindAt(Prefix(dst, n)) = "dir"
      OBVIOUS
    <3>1. CASE n = Len(dst) - 1
      BY <1>7, <1>15, <3>1
    <3>2. CASE n # Len(dst) - 1
      <4>1. n \in 1 .. Len(d) - 1
        BY <1>6, <3>2
      <4>2. WalkErrno(d) = "ok"
        BY <1>15, WalkIs
      <4> QED
        BY <1>6, <4>1, <4>2, WalkIs
    <3> QED
      BY <3>1, <3>2
  <2>2. WalkErrno(dst) = "ok"
    BY <2>1, WalkIs
  <2> QED
    BY <1>1, <1>2, <1>3, <1>15, <2>2, OnwardWalked
<1>16. \/ errno = "ENOENT"
          /\ Fail(w, NewError("ENOENT", "destination parent does not exist"))
       \/ errno \notin {"ok", "ENOENT"}
       \/ KindAt(d) # "dir"
          /\ \E msg \in {"symlinks are not supported",
                         "destination parent must be a directory"} :
               Fail(w, NewError("EINVAL", msg))
       \/ errno = "ok" /\ KindAt(d) = "dir" /\ Step(w, "open", job[w])
  <2>. HIDE DEF errno, d
  <2>1. LstatParent(w)
    OBVIOUS
  <2> QED
    BY <1>3, <2>1 DEF LstatParent, Alone, errno
<1>. HIDE DEF errno, d
<1> QED
  BY <1>12, <1>13, <1>14, <1>15, <1>16

\* A source that fits opens, and is the one that was looked at.
LEMMA OpenWalked ==
  ASSUME Alone, AloneInv, NEW w \in Worker, Open(w)
  PROVE  Walked(w)'
<1>1. PICK src, dst : src = job[w].src /\ dst = job[w].dst
  OBVIOUS
<1>2. TypeOK /\ job[w] \in Job /\ pc[w] = "open" /\ Walked(w)
  BY AloneState DEF Open
<1>3. /\ SourceFits(src) /\ job[w].srcPath = src
      /\ LstatErrno(dst) = "ENOENT" /\ WalkErrno(dst) = "ok"
  BY <1>1, <1>2 DEF Walked, Knows
<1>4. Follow(src) = src /\ LstatErrno(src) = "ok"
  BY <1>3, WalkIs DEF SourceFits, Follow
<1>5. OpenErrno(src) = "ok" /\ KindAt(src) # "other"
  BY <1>3, <1>4 DEF OpenErrno, SourceFits
<1>. DEFINE j == [job[w] EXCEPT !.fd = entry[src]]
<1>6. Step(w, "create", j)
  BY <1>3, <1>4, <1>5 DEF Open, Alone
<1>7. j.src = src /\ j.dst = dst /\ j.fd = entry[src]
  BY <1>1, <1>2 DEF Job
<1>8. pc'[w] = "create" /\ job'[w] = j /\ UNCHANGED <<entry, inode>>
  BY <1>2, <1>6, Moved DEF Step, fsvars
<1>9. /\ SourceFits(src)' /\ entry'[src] = entry[src]
      /\ LstatErrno(dst)' = "ENOENT" /\ WalkErrno(dst)' = "ok"
  BY <1>3, <1>8, SameShare
<1>. HIDE DEF j
<1> QED
  BY <1>7, <1>8, <1>9 DEF Walked, Knows, Reads, OK, Failed

\* The creation adds a name that nothing on the way to the source uses; it can fail
\* only for a name that is too long.
LEMMA CreateWalked ==
  ASSUME Alone, AloneInv, NEW w \in Worker, Create(w)
  PROVE  Walked(w)'
<1>1. PICK src, dst : src = job[w].src /\ dst = job[w].dst
  OBVIOUS
<1>2. /\ TypeOK /\ job[w] \in Job /\ pc[w] = "create" /\ Walked(w) /\ TreeOK /\ ContractInv
      /\ job[w].dstPath = dst /\ "create" \in Early
  BY <1>1, AloneState, InEarly DEF Create, AtDestination
<1>3. /\ SourceFits(src) /\ job[w].fd = entry[src] /\ WalkErrno(dst) = "ok"
      /\ LstatErrno(dst) = "ENOENT" /\ KindAt(dst) = "none"
  <2>1. /\ SourceFits(src) /\ job[w].fd = entry[src] /\ WalkErrno(dst) = "ok"
        /\ LstatErrno(dst) = "ENOENT"
    BY <1>1, <1>2 DEF Walked, Knows
  <2> QED
    BY <2>1, WalkIs
<1>4. /\ entry \in [Path -> Inode \cup {NoInode}] /\ inode \in [Inode -> Node] /\ w \in Inode
      /\ NoInode \notin Inode /\ inode[w].kind = "free"
  BY <1>2, WorkerAssumption, InodeAssumption DEF TypeOK, FSTypeOK, ContractInv, Making
<1>5. \A q \in Path : entry[q] # w
  BY <1>2, <1>4 DEF TreeOK
<1>6. CASE dst \in Path /\ NewFile(w, dst)
  <2>1. pc'[w] = "clone" /\ job'[w] = job[w]
    BY <1>2, <1>6, Moved DEF NewFile
  <2>2. entry' = [entry EXCEPT ![dst] = w] /\ entry[dst] = NoInode
    <3>1. dst # << >>
      BY <1>6, PathAssumption
    <3>2. entry[dst] # NoInode => inode[entry[dst]].kind = "none"
      BY <1>3, <1>6, <3>1 DEF KindAt
    <3>3. entry[dst] # NoInode => inode[entry[dst]].kind \in Kind
      BY <1>4, <1>6 DEF Node
    <3>4. "none" \notin Kind
      BY DEF Kind
    <3> QED
      BY <1>6, <3>2, <3>3, <3>4 DEF NewFile
  <2>3. \A i \in Inode : i # w => inode'[i] = inode[i]
    BY <1>4, <1>6 DEF NewFile
  <2>4. ASSUME NEW q, q # dst PROVE KindAt(q)' = KindAt(q)
    <3>1. q \in Path => entry'[q] = entry[q] /\ (entry[q] # NoInode => entry[q] \in Inode \ {w})
      BY <1>4, <1>5, <2>2, <2>4
    <3> QED
      BY <2>3, <3>1 DEF KindAt
  <2>5. ASSUME NEW p, WalkErrno(p) = "ok" PROVE WalkErrno(p)' = "ok"
    <3>1. \A n \in 1 .. Len(p) - 1 : KindAt(Prefix(p, n)) = "dir" /\ Prefix(p, n) # dst
      BY <1>3, <2>5, WalkIs
    <3>2. \A n \in 1 .. Len(p) - 1 : KindAt(Prefix(p, n))' = "dir"
      BY <2>4, <3>1
    <3> QED
      BY <3>2 DEF WalkErrno
  <2>6. src # dst /\ KindAt(src)' = "file" /\ WalkErrno(src)' = "ok" /\ WalkErrno(dst)' = "ok"
    BY <1>3, <2>4, <2>5 DEF SourceFits
  <2>7. entry'[src] = entry[src] /\ entry[src] \in Inode
    <3>1. src # << >>
      BY <1>3 DEF SourceFits, KindAt
    <3>2. src \in Path /\ entry[src] \in Inode
      BY <1>2, <1>3, <3>1, KindAtPath DEF SourceFits, TypeOK
    <3> QED
      BY <1>4, <2>2, <2>6, <3>2
  <2>8. {q \in Path : entry'[q] = entry'[src]} = {q \in Path : entry[q] = entry[src]}
    <3>1. entry[src] # w /\ entry[src] # NoInode
      <4>1. src \in Path
        BY <1>2, <1>3, KindAtPath DEF SourceFits, TypeOK, KindAt
      <4> QED
        BY <1>4, <1>5, <2>7, <4>1
    <3>2. \A q \in Path : entry'[q] = entry[src] <=> entry[q] = entry[src]
      BY <1>4, <2>2, <3>1
    <3> QED
      BY <2>7, <3>2
  <2>9. SourceFits(src)'
    BY <1>3, <2>6, <2>8 DEF SourceFits, Nlink
  <2> QED
    BY <1>1, <1>3, <2>1, <2>6, <2>7, <2>9 DEF Walked, Knows, Reads, OK, Failed
<1>7. ASSUME NEW e, e # nil, Fail(w, e), Refuted(w, src, dst, e) PROVE Walked(w)'
  BY <1>1, <1>2, <1>7, FailWalked
<1>8. CASE dst \notin Path /\ Fail(w, Raw("ENAMETOOLONG"))
  <2>1. Unfit(w, src, dst)
    BY <1>8 DEF Unfit, Acceptable
  <2>2. "ENAMETOOLONG" \in Errno
    BY DEF Errno
  <2>3. Refuted(w, src, dst, Raw("ENAMETOOLONG"))
    BY <2>1, <2>2, SaidIs DEF Refuted, Blames
  <2> QED
    BY <1>7, <1>8, <2>3, ErrorIsNotNil
<1>9. CreateErrno(dst) = IF dst \notin Path THEN "ENAMETOOLONG" ELSE "ok"
  BY <1>3 DEF CreateErrno
<1>10. \/ CreateErrno(dst) = "ok" /\ NewFile(w, dst)
       \/ CreateErrno(dst) # "ok" /\ Fail(w, Raw(CreateErrno(dst)))
  BY <1>2 DEF Create, Alone
<1> QED
  BY <1>6, <1>8, <1>9, <1>10

\* Writing changes no kind and no name.
LEMMA SameKinds ==
  ASSUME TypeOK, entry' = entry, \A i \in Inode : inode'[i].kind = inode[i].kind, NEW p
  PROVE  /\ WalkErrno(p)' = WalkErrno(p)
         /\ SourceFits(p)' <=> SourceFits(p)
<1>1. ASSUME NEW q PROVE KindAt(q)' = KindAt(q)
  BY DEF KindAt, TypeOK, FSTypeOK
<1>2. WalkErrno(p)' = WalkErrno(p)
  <2>1. \A n : KindAt(Prefix(p, n))' = KindAt(Prefix(p, n))
    BY <1>1
  <2> QED
    BY <2>1 DEF WalkErrno
<1> QED
  BY <1>1, <1>2 DEF SourceFits, Nlink

\* With the source a file and no failure of its own, nothing fails any more.
LEMMA WritingWalked ==
  ASSUME Alone, AloneInv, NEW w \in Worker, Clone(w) \/ Chmod(w) \/ Close(w)
  PROVE  Walked(w)'
<1>1. PICK src, dst : src = job[w].src /\ dst = job[w].dst
  OBVIOUS
<1>2. /\ TypeOK /\ pc[w] \in {"clone", "chmod", "close"} /\ Walked(w) /\ ContractInv
      /\ Carries(w) /\ w \in Inode
  BY AloneState, WorkerAssumption DEF Clone, Chmod, Close
<1>3. SourceFits(src) /\ WalkErrno(dst) = "ok" /\ job[w].err = nil
  <2>1. SourceFits(src) /\ WalkErrno(dst) = "ok"
    BY <1>1, <1>2 DEF Walked, Knows, Reads
  <2>2. pc[w] \in {"chmod", "close"} => job[w].err = nil
    BY <1>2 DEF Walked
  <2>3. pc[w] = "clone" => job[w].err = nil
    BY <1>2 DEF ContractInv, Making
  <2> QED
    BY <1>2, <2>1, <2>2, <2>3
<1>4. ASSUME NEW to \in {"chmod", "close", "done"}, Goto(w, to, job[w]), entry' = entry,
             \A i \in Inode : inode'[i].kind = inode[i].kind
      PROVE  Walked(w)'
  <2>1. pc'[w] = to /\ job'[w] = job[w]
    BY <1>2, <1>4, Moved
  <2>2. SourceFits(src)' /\ WalkErrno(dst)' = "ok"
    BY <1>2, <1>3, <1>4, SameKinds
  <2> QED
    BY <1>1, <1>3, <1>4, <2>1, <2>2 DEF Walked, Knows, Reads, OK, Failed
<1>5. inode \in [Inode -> Node]
  BY <1>2 DEF TypeOK, FSTypeOK
<1>6. CASE Clone(w)
  <2>1. job[w].fd = entry[src]
    BY <1>1, <1>2, <1>6 DEF Walked, Clone
  <2>2. inode[job[w].fd].kind = "file"
    BY <1>2, <1>3, <2>1, KindAtPath DEF SourceFits, KindAt, TypeOK
  <2>3. /\ Goto(w, "chmod", job[w]) /\ entry' = entry
        /\ inode' = [inode EXCEPT ![w].content = inode[job[w].fd].content]
    BY <1>6, <2>2 DEF Clone, Alone
  <2>4. \A i \in Inode : inode'[i].kind = inode[i].kind
    BY <1>5, <2>3 DEF Node
  <2> QED
    BY <1>4, <2>3, <2>4
<1>7. CASE Chmod(w)
  <2>1. /\ Goto(w, "close", job[w]) /\ entry' = entry
        /\ inode' = [inode EXCEPT ![w].mode = job[w].mode]
    BY <1>7 DEF Chmod, Alone
  <2>2. \A i \in Inode : inode'[i].kind = inode[i].kind
    BY <1>5, <2>1 DEF Node
  <2> QED
    BY <1>4, <2>1, <2>2
<1>8. CASE Close(w)
  <2>1. Step(w, "done", job[w])
    BY <1>3, <1>8 DEF Close, Alone
  <2> QED
    BY <1>4, <2>1 DEF Step, fsvars
<1> QED
  BY <1>6, <1>7, <1>8

LEMMA NextAlone ==
  ASSUME Alone, AloneInv, [Next]_vars
  PROVE  AloneInv'
<1>1. LeaveAlone /\ CopyInv
  BY DEF Alone, LeaveAlone, AloneInv
<1>2. CopyInv'
  BY <1>1, NextCopy
<1>3. ASSUME NEW w \in Worker PROVE Walked(w)'
  <2>6. ~WriterComes(w)
    BY DEF AloneInv, Walked, WriterComes
  <2>1. \A v \in Worker : v = w
    BY DEF Alone
  <2>2. CASE UNCHANGED vars
    BY <2>2, SameWalked DEF AloneInv
  <2>3. CASE Guests
    BY <2>3 DEF Alone, Guests, GuestNext, GuestCreate, GuestWrite, GuestUnlink, GuestRename,
                GuestLink, GuestStep
  <2>4. CASE WorkerStep(w)
    <3>1. pc[w] # "remove"
      BY DEF AloneInv, Walked
    <3> QED
      BY <2>4, <3>1, StartWalked, JoinSrcWalked, ComponentsSrcWalked, LstatSrcWalked,
         JoinDstWalked, ComponentsDstWalked, LstatDstWalked, JoinParentWalked,
         LstatParentWalked, OpenWalked, CreateWalked, WritingWalked
      DEF WorkerStep, CleanupRemove
  <2>5. CASE Crash(w)
    <3>1. pc'[w] = "crashed"
      BY <2>5, AloneState DEF Crash, TypeOK
    <3> QED
      BY <3>1 DEF Walked, Knows, Reads, OK, Failed
  <2> QED
    BY <2>1, <2>2, <2>3, <2>4, <2>5, <2>6 DEF Next, Finished
<1> QED
  BY <1>2, <1>3 DEF AloneInv

LEMMA InitAlone == Init => AloneInv
<1>. SUFFICES ASSUME Init PROVE AloneInv
  OBVIOUS
<1>1. ASSUME NEW w \in Worker PROVE Walked(w)
  <2>1. pc[w] = "idle"
    BY DEF Init
  <2> QED
    BY <2>1 DEF Walked, Knows, Reads, OK, Failed
<1> QED
  BY <1>1, InitCopy DEF AloneInv

\* With nobody else at work Execute succeeds on exactly the requests that name a
\* regular file with one link, reached through no symlink, and a free name in an
\* existing directory (VerdictIsRight), for any share, paths of any length, any
\* spelling, and a crash at any point: the two loops of rejectSymlinkComponents, the
\* three joins and the four Lstats that follow neither let a request pass that they
\* should stop nor stop one they should let pass.  Alone: one call, no guests, no
\* system call that fails without a reason in the share.  PathsOnly: the requests are
\* of the version, operation and token that Request.Validate asks for, since the
\* property speaks of paths.
THEOREM RightVerdict ==
  ASSUME Alone, PathsOnly
  PROVE  Spec => []VerdictIsRight
<1>1. AloneInv => VerdictIsRight
  <2>. SUFFICES ASSUME AloneInv, NEW w \in Worker, pc[w] = "done"
       PROVE  job[w].err = nil <=> /\ Acceptable(job[w].src, job[w].dst)
                                   /\ entry[job[w].dst] \in {NoInode, w}
    BY DEF VerdictIsRight
  <2>1. Walked(w) /\ AtDestination(w)
    BY AloneState
  <2>2. CASE job[w].err = nil
    <3>1. OK(w) /\ Knows(w) /\ Reads(w) /\ Holding(w)
      BY <2>2 DEF OK, Knows, Reads, Holding
    <3>2. SourceFits(job[w].src) /\ WalkErrno(job[w].dst) = "ok"
      BY <2>1, <3>1 DEF Walked
    <3>3. job[w].dst \in Path /\ entry[job[w].dst] = w
      BY <2>1, <3>1 DEF AtDestination
    <3> QED
      BY <2>2, <3>2, <3>3 DEF SourceFits, Acceptable
  <2>3. CASE job[w].err # nil
    <3>1. Refuted(w, job[w].src, job[w].dst, job[w].err)
      BY <2>1, <2>3 DEF Walked, Failed
    <3> QED
      BY <2>3, <3>1 DEF Refuted, Unfit
  <2> QED
    BY <2>2, <2>3
<1>2. AloneInv /\ [Next]_vars => AloneInv'
  BY NextAlone
<1> QED
  BY <1>1, <1>2, InitAlone, PTL DEF Spec

\* With nobody else at work the answer blames the right path (BlameIsRight), for any
\* share and any requests: errors are coded far from where they arise, in
\* rejectSymlinkComponents, in ResponseFromError and in what becomes of an errno that
\* nobody coded, and still "source not found" is said only of a source that is
\* missing or of an ENOTDIR, and the destination is blamed for what it is, once the
\* source was found good.
THEOREM RightBlame ==
  ASSUME Alone
  PROVE  Spec => []BlameIsRight
<1>1. AloneInv => BlameIsRight
  <2>. SUFFICES ASSUME AloneInv, NEW w \in Worker, pc[w] = "done"
       PROVE  Blames(job[w].src, job[w].dst, Response(w).msg)
    BY DEF BlameIsRight, Blames, SourceFits
  <2>1. Walked(w) /\ Response(w).msg = Said(job[w].err)
    BY AloneState DEF Response, Said
  <2>2. CASE job[w].err = nil
    <3>1. Said(nil) = ""
      BY DEF Said, ResponseFromError, nil, SuccessResponse
    <3> QED
      BY <2>1, <2>2, <3>1 DEF Blames
  <2>3. CASE job[w].err # nil
    <3>1. Refuted(w, job[w].src, job[w].dst, job[w].err)
      BY <2>1, <2>3 DEF Walked, Failed
    <3> QED
      BY <2>1, <3>1 DEF Refuted
  <2> QED
    BY <2>2, <2>3
<1>2. AloneInv /\ [Next]_vars => AloneInv'
  BY NextAlone
<1> QED
  BY <1>1, <1>2, InitAlone, PTL DEF Spec
=============================================================================
