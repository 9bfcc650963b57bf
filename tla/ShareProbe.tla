----------------------------- MODULE ShareProbe -----------------------------
(***************************************************************************)
(* ValidateShareRoot: before a daemon listens it clones a file of its own in *)
(* the root of the share.  Several daemons may start on one share at once,   *)
(* and guests work on it.                                                    *)
(***************************************************************************)
EXTENDS HostFS, Paths

CONSTANTS
  Daemon,
  ShareRoot,   \* raw paths: what share_root may be
  Cwd,         \* the daemon's working directory, a raw path
  SrcName,     \* the names that CreateTemp has for each pattern
  DstName,
  NewInode,
  TempMode,    \* 0600, for CreateTemp and Reflink
  Probe,       \* what is written to the source
  Faults,      \* what may fail for reasons of its own
  MaxFaults    \* bound on the number of such failures

VARIABLES
  pc, root, srcPath, dstPath, err,   \* [Daemon -> ...]: the locals of the call
  made,        \* [Daemon -> SUBSET Inode]: the files the call has created
  supported,   \* can the file system under the share clone?
  faults

local == <<root, srcPath, dstPath, err, made>>
vars == <<fsvars, pc, local, supported, faults>>

ASSUME ProbeAssumption ==
  /\ ShareRoot \cup {Cwd} \subseteq Seq(Name \cup {"", ".", ".."}) /\ IsAbs(Cwd)
  /\ SrcName \subseteq Name /\ DstName \subseteq Name /\ SrcName \cap DstName = {}
  /\ NewInode \subseteq Inode \ GuestInode
  /\ \A i \in NewInode : InitInode[i].kind = "free"
  /\ TempMode \in Mode /\ Probe \in Content /\ MaxFaults \in Nat
  /\ Faults \subseteq {"createTemp", "write", "close", "reflink"}

Failure == {"no root", "stat", "not a directory", "not writable", "prepare", "unsupported",
            "failed probe"}

TypeOK ==
  /\ FSTypeOK
  /\ pc \in [Daemon -> {"idle", "stat", "createSrc", "write", "createDst", "closeDst",
                        "removeDst", "reflink", "cleanSrc", "cleanDst", "done", "dead"}]
  /\ {root, srcPath, dstPath} \subseteq [Daemon -> Seq(Name)]
  /\ err \in [Daemon -> Failure \cup {"nil"}]
  /\ made \in [Daemon -> SUBSET NewInode]
  /\ supported \in BOOLEAN /\ faults \in 0 .. MaxFaults

Init ==
  /\ FSInit
  /\ pc = [d \in Daemon |-> "idle"]
  /\ root = [d \in Daemon |-> << >>]
  /\ srcPath = root /\ dstPath = root
  /\ err = [d \in Daemon |-> "nil"]
  /\ made = [d \in Daemon |-> {}]
  /\ supported \in BOOLEAN
  /\ faults = 0
-----------------------------------------------------------------------------
Goto(d, to) == pc' = [pc EXCEPT ![d] = to]

Fails(what) == what \in Faults /\ faults < MaxFaults /\ faults' = faults + 1

\* A return before or after the deferred function was set up.
Fail(d, e, to) ==
  /\ Goto(d, to) /\ err' = [err EXCEPT ![d] = e]
  /\ UNCHANGED <<fsvars, root, srcPath, dstPath, made, supported>>

\* A new file of d's at p.  NewInode bounds what the daemons can create.
Put(d, p, content) ==
  LET i == CHOOSE i \in NewInode : inode[i].kind = "free"
  IN  /\ \E n \in NewInode : inode[n].kind = "free"
      /\ entry' = [entry EXCEPT ![p] = i]
      /\ inode' = [inode EXCEPT ![i] = [kind |-> "file", content |-> content,
                                        mode |-> Masked[TempMode], target |-> << >>]]
      /\ made' = [made EXCEPT ![d] = @ \cup {i}]
      /\ UNCHANGED guestOps

\* os.Remove: not a directory with entries.
CanRemove(p) == LstatErrno(p) = "ok" /\ Children(p) = {}
RemoveName(p) == entry' = [entry EXCEPT ![p] = NoInode] /\ UNCHANGED <<inode, guestOps>>

Start(d) ==
  /\ pc[d] = "idle"
  /\ \E r \in ShareRoot :
       \/ r = EmptyPath /\ Fail(d, "no root", "done") /\ UNCHANGED faults
       \/ /\ r # EmptyPath /\ Goto(d, "stat")
          /\ root' = [root EXCEPT ![d] = NormalizeRoot(Cwd, r).parts]
          /\ UNCHANGED <<fsvars, srcPath, dstPath, err, made, supported, faults>>

Stat(d) ==
  /\ pc[d] = "stat"
  /\ UNCHANGED faults
  /\ LET errno == OpenErrno(root[d])
     IN  \/ errno # "ok" /\ Fail(d, "stat", "done")
         \/ errno = "ok" /\ KindAt(Follow(root[d])) # "dir" /\ Fail(d, "not a directory", "done")
         \/ /\ errno = "ok" /\ KindAt(Follow(root[d])) = "dir" /\ Goto(d, "createSrc")
            /\ UNCHANGED <<fsvars, local, supported>>

\* os.CreateTemp: a name that is free when it is tried (O_EXCL).
Free(d, names) == {n \in names : CreateErrno(Append(root[d], n)) = "ok"}

CreateSrc(d) ==
  /\ pc[d] = "createSrc"
  /\ \/ \E n \in Free(d, SrcName) :
          /\ Put(d, Append(root[d], n), Empty)
          /\ srcPath' = [srcPath EXCEPT ![d] = Append(root[d], n)]
          /\ Goto(d, "write")
          /\ UNCHANGED <<root, dstPath, err, supported, faults>>
     \/ Free(d, SrcName) = {} /\ Fail(d, "not writable", "done") /\ UNCHANGED faults
     \/ Fails("createTemp") /\ Fail(d, "not writable", "done")

\* Write and Close, through the descriptor.
WriteSrc(d) ==
  /\ pc[d] = "write"
  /\ \/ /\ Goto(d, "createDst")
        /\ inode' = [i \in Inode |-> IF i \in made[d] THEN [inode[i] EXCEPT !.content = Probe]
                                     ELSE inode[i]]
        /\ UNCHANGED <<entry, guestOps, local, supported, faults>>
     \/ Fails("write") /\ Fail(d, "prepare", "cleanSrc")

\* CreateDst, mutated: always the same name, whoever has it.
CreateDstFixed(d) ==
  /\ pc[d] = "createDst"
  /\ LET p == Append(root[d], CHOOSE n \in DstName : TRUE)
     IN  /\ \/ CreateErrno(p) = "ok" /\ Put(d, p, Empty)
            \/ CreateErrno(p) # "ok" /\ UNCHANGED <<fsvars, made>>
         /\ dstPath' = [dstPath EXCEPT ![d] = p]
  /\ Goto(d, "closeDst")
  /\ UNCHANGED <<root, srcPath, err, supported, faults>>

CreateDst(d) ==
  /\ pc[d] = "createDst"
  /\ \/ \E n \in Free(d, DstName) :
          /\ Put(d, Append(root[d], n), Empty)
          /\ dstPath' = [dstPath EXCEPT ![d] = Append(root[d], n)]
          /\ Goto(d, "closeDst")
          /\ UNCHANGED <<root, srcPath, err, supported, faults>>
     \/ Free(d, DstName) = {} /\ Fail(d, "not writable", "cleanSrc") /\ UNCHANGED faults
     \/ Fails("createTemp") /\ Fail(d, "not writable", "cleanSrc")

CloseDst(d) ==
  /\ pc[d] = "closeDst"
  /\ \/ Goto(d, "removeDst") /\ UNCHANGED <<fsvars, local, supported, faults>>
     \/ Fails("close") /\ Fail(d, "prepare", "cleanSrc")

\* RemoveDst, mutated: the errno is returned bare.
RemoveDstBare(d) ==
  /\ pc[d] = "removeDst"
  /\ UNCHANGED faults
  /\ \/ /\ CanRemove(dstPath[d]) /\ RemoveName(dstPath[d]) /\ Goto(d, "reflink")
        /\ UNCHANGED <<local, supported>>
     \/ ~CanRemove(dstPath[d]) /\ Fail(d, LstatErrno(dstPath[d]), "cleanSrc")

\* The name is given back: from here to Reflink it is anybody's.
RemoveDst(d) ==
  /\ pc[d] = "removeDst"
  /\ UNCHANGED faults
  /\ \/ /\ CanRemove(dstPath[d]) /\ RemoveName(dstPath[d]) /\ Goto(d, "reflink")
        /\ UNCHANGED <<local, supported>>
     \/ ~CanRemove(dstPath[d]) /\ Fail(d, "prepare", "cleanSrc")

Openable(p) == OpenErrno(p) = "ok" /\ KindAt(Follow(p)) = "file"
Copy(d) == Put(d, dstPath[d], inode[entry[Follow(srcPath[d])]].content)

\* Reflink, mutated: a share that cannot clone is let pass.
ReflinkAnyway(d) ==
  /\ pc[d] = "reflink"
  /\ UNCHANGED <<root, srcPath, dstPath, supported, faults>>
  /\ \/ /\ CreateErrno(dstPath[d]) = "ok" /\ Openable(srcPath[d]) /\ Goto(d, "cleanSrc")
        /\ IF supported THEN Copy(d) ELSE UNCHANGED <<fsvars, made>>
        /\ UNCHANGED err
     \/ /\ CreateErrno(dstPath[d]) # "ok" \/ ~Openable(srcPath[d])
        /\ Fail(d, "failed probe", "cleanSrc")

\* Reflinker.Reflink; what it creates and cannot fill is gone when it returns.  If a
\* guest has put a FIFO in the place of the source, the daemon may as well stay here
\* for ever, in os.Open: nothing says that a step is taken.
Reflink(d) ==
  /\ pc[d] = "reflink"
  /\ LET ready == Openable(srcPath[d]) /\ CreateErrno(dstPath[d]) = "ok"
     IN  \/ /\ ready /\ supported /\ Copy(d) /\ Goto(d, "cleanSrc")
            /\ UNCHANGED <<root, srcPath, dstPath, err, supported, faults>>
         \/ ready /\ ~supported /\ Fail(d, "unsupported", "cleanSrc") /\ UNCHANGED faults
         \/ ~ready /\ Fail(d, "failed probe", "cleanSrc") /\ UNCHANGED faults
         \/ Fails("reflink") /\ Fail(d, "failed probe", "cleanSrc")

\* The deferred function: both names, as far as they were given out.
RemoveIfThere(p) == IF CanRemove(p) THEN RemoveName(p) ELSE UNCHANGED fsvars

CleanSrc(d) ==
  /\ pc[d] = "cleanSrc" /\ Goto(d, "cleanDst")
  /\ RemoveIfThere(srcPath[d])
  /\ UNCHANGED <<local, supported, faults>>

\* CleanDst, mutated: the destination is removed if the probe has failed.
CleanDstOnError(d) ==
  /\ pc[d] = "cleanDst" /\ Goto(d, "done")
  /\ IF err[d] # "nil" /\ dstPath[d] # << >> THEN RemoveIfThere(dstPath[d]) ELSE UNCHANGED fsvars
  /\ UNCHANGED <<local, supported, faults>>

CleanDst(d) ==
  /\ pc[d] = "cleanDst" /\ Goto(d, "done")
  /\ IF dstPath[d] # << >> THEN RemoveIfThere(dstPath[d]) ELSE UNCHANGED fsvars
  /\ UNCHANGED <<local, supported, faults>>

\* The process is killed: nothing is cleaned up.
Die(d) ==
  /\ pc[d] \notin {"idle", "done", "dead"} /\ Goto(d, "dead")
  /\ UNCHANGED <<fsvars, local, supported, faults>>
-----------------------------------------------------------------------------
ProbeStep(d) ==
  \/ Start(d) \/ Stat(d) \/ CreateSrc(d) \/ WriteSrc(d) \/ CreateDst(d) \/ CloseDst(d)
  \/ RemoveDst(d) \/ Reflink(d) \/ CleanSrc(d) \/ CleanDst(d)

Guests ==
  /\ \E d \in Daemon : pc[d] \notin {"done", "dead"}
  /\ GuestNext
  /\ UNCHANGED <<pc, local, supported, faults>>

Finished == (\A d \in Daemon : pc[d] \in {"done", "dead"}) /\ UNCHANGED vars

Next == (\E d \in Daemon : ProbeStep(d) \/ Die(d)) \/ Guests \/ Finished

Spec == Init /\ [][Next]_vars
-----------------------------------------------------------------------------
(* Properties.                                                              *)

\* Whatever fails on the way, and whoever else probes the same share, a probe that
\* returns has left nothing there (the deferred function, with a destination that
\* may or may not have been chosen).  Needs guests that do not rename or link, and
\* calls of os.Remove that work.
LeavesNothing ==
  \A d \in Daemon : pc[d] = "done" => \A p \in Path : entry[p] \notin made[d]

\* No probe touches what was on the share before the daemons started, the leftovers
\* of a killed probe included: it removes by name, but only names that
\* CreateTemp has found free.
KeepsWhatWasThere ==
  [][guestOps' = guestOps =>
       /\ \A i \in Inode \ NewInode : inode'[i] = inode[i]
       /\ \A p \in Path : entry[p] # NoInode /\ entry[p] = InitEntry[p] =>
            entry'[p] = entry[p]]_vars

\* A probe passes only if the share can clone; and one that is alone, while nothing
\* fails, passes exactly if a root is given, the root is a directory on a file system
\* that can, and the names it needs are free (ValidateShareRoot, every early return).
ProbeVerdictIsRight ==
  \A d \in Daemon : pc[d] = "done" =>
    /\ err[d] = "nil" => supported /\ KindAt(root[d]) = "dir"
    /\ guestOps = 0 /\ faults = 0 /\ (\A o \in Daemon \ {d} : pc[o] = "idle") =>
         (err[d] = "nil" <=>
            /\ supported /\ err[d] # "no root" /\ KindAt(root[d]) = "dir"
            /\ \A names \in {SrcName, DstName} : Free(d, names) # {})
=============================================================================
