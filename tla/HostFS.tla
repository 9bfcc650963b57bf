------------------------------- MODULE HostFS -------------------------------
(***************************************************************************)
(* The host directory that virtiofs exports and vreflinkd works on, as the  *)
(* system calls made from internal/service and internal/validate see it,    *)
(* together with the guests, which create, write, link, rename and unlink   *)
(* on the same directory while a request runs.  The kernel and the guests   *)
(* are outside the repository: everything here is external.                 *)
(*                                                                          *)
(* A path is the sequence of its names below the share root; << >> is the   *)
(* root.  A directory entry names an inode, so that an open descriptor goes *)
(* on denoting its inode whatever happens to the name.                      *)
(***************************************************************************)
EXTENDS Naturals, Sequences, FiniteSets

CONSTANTS
  Name,          \* file names
  Path,          \* the paths that can exist; the finite counterpart of PATH_MAX
  Inode,         \* inode numbers
  NoInode,       \* "there is no such entry"
  GuestInode,    \* the inodes left for what guests create
  Content,       \* file contents
  Empty,         \* the content of a file just created
  Mode,          \* permission bits
  Masked,        \* Masked[m]: what the umask leaves of m at creation
  LinkTarget,    \* where symlinks may point: paths that are never symlinks
  GuestOps,      \* which kinds of step the guests may take
  MaxGuestOps,   \* bound on the number of guest steps
  InitEntry,     \* the share when the daemon starts
  InitInode

VARIABLES
  entry,         \* [Path -> Inode or NoInode]: the directory entries
  inode,         \* [Inode -> Node]
  guestOps       \* how many steps the guests have taken

fsvars == <<entry, inode, guestOps>>

\* "other" is a FIFO, a socket or a device.
Kind == {"free", "file", "dir", "symlink", "other"}

Node == [kind : Kind, content : Content \cup {Empty}, mode : Mode,
         target : Path \cup {<< >>}]  \* << >>: not a symlink

\* The prefix of p of length n, and the directory p is in (filepath.Dir).
Prefix(p, n) == SubSeq(p, 1, n)
Dir(p) == Prefix(p, Len(p) - 1)

AllGuestOps == {"create", "write", "unlink", "rename", "link"}

ASSUME PathAssumption ==
  /\ Path \subseteq Seq(Name) \ {<< >>}
  /\ LinkTarget \subseteq Path
  /\ \A p \in Path : Dir(p) \in Path \cup {<< >>}

ASSUME FinitePath == IsFiniteSet(Path)

ASSUME InodeAssumption ==
  /\ NoInode \notin Inode
  /\ GuestInode \subseteq Inode
  /\ Empty \notin Content

ASSUME InitAssumption ==
  /\ Masked \in [Mode -> Mode]
  /\ InitEntry \in [Path -> Inode \cup {NoInode}]
  /\ InitInode \in [Inode -> Node]
  /\ \A p \in Path :
       InitEntry[p] # NoInode =>
         /\ InitEntry[p] \notin GuestInode
         /\ InitInode[InitEntry[p]].kind # "free"
  /\ \A i \in GuestInode : InitInode[i].kind = "free"
  /\ \A i \in Inode :
       /\ InitInode[i].kind # "file" => InitInode[i].content = Empty
       /\ InitInode[i].kind # "symlink" => InitInode[i].target = << >>
  /\ \A i \in Inode : InitInode[i].kind = "symlink" => InitInode[i].target \in LinkTarget
  /\ \A p \in LinkTarget :
       InitEntry[p] # NoInode => InitInode[InitEntry[p]].kind # "symlink"
  /\ \A p \in Path : InitEntry[p] # NoInode =>
       \A n \in 1 .. Len(p) - 1 :
         /\ Prefix(p, n) \in Path /\ InitEntry[Prefix(p, n)] # NoInode
         /\ InitInode[InitEntry[Prefix(p, n)]].kind = "dir"

ASSUME GuestAssumption == GuestOps \subseteq AllGuestOps /\ MaxGuestOps \in Nat

FSTypeOK ==
  /\ entry \in [Path -> Inode \cup {NoInode}]
  /\ inode \in [Inode -> Node]
  /\ guestOps \in Nat

FSInit ==
  /\ entry = InitEntry
  /\ inode = InitInode
  /\ guestOps = 0
-----------------------------------------------------------------------------
(* What a path denotes now.                                                *)

KindAt(p) ==
  IF p = << >> THEN "dir"
  ELSE IF p \in Path /\ entry[p] # NoInode THEN inode[entry[p]].kind
  ELSE "none"

\* Symlink resolution: one step is enough, since no link points at a link.
Follow(p) == IF KindAt(p) = "symlink" THEN inode[entry[p]].target ELSE p

\* The first name on the way to p, p itself left out, that is not a directory.
\* Only the last name of a path can turn into a symlink while requests run (see
\* GuestCreate), and validate never hands the kernel a path that has a symlink
\* before its last name: that case is unreachable, and answered with ELOOP.
WalkErrno(p) ==
  LET bad == {n \in 1 .. Len(p) - 1 : KindAt(Prefix(p, n)) # "dir"}
      first == CHOOSE n \in bad : \A m \in bad : n <= m
  IN  IF bad = {} THEN "ok"
      ELSE CASE KindAt(Prefix(p, first)) = "none"    -> "ENOENT"
             [] KindAt(Prefix(p, first)) = "symlink" -> "ELOOP"
             [] OTHER                                -> "ENOTDIR"

LstatErrno(p) ==
  IF WalkErrno(p) # "ok" THEN WalkErrno(p)
  ELSE IF KindAt(p) = "none" THEN "ENOENT" ELSE "ok"

\* os.Open(p): the last name is followed if it is a symlink.  What opening a
\* FIFO, a socket or a device then does is for the caller to say.
OpenErrno(p) ==
  IF LstatErrno(p) # "ok" THEN LstatErrno(p) ELSE LstatErrno(Follow(p))

\* The number of names of inode i: Stat_t.Nlink of a regular file.
Nlink(i) == Cardinality({p \in Path : entry[p] = i})

\* os.OpenFile(p, O_CREATE|O_EXCL): the last name is never followed.  A path
\* outside Path is one the kernel refuses as too long.
CreateErrno(p) ==
  IF WalkErrno(p) # "ok" THEN WalkErrno(p)
  ELSE IF KindAt(p) # "none" THEN "EEXIST"
  ELSE IF p \notin Path THEN "ENAMETOOLONG" ELSE "ok"

\* The entries of a directory (none for anything else).
Children(p) == {q \in Path : Dir(q) = p /\ entry[q] # NoInode}
-----------------------------------------------------------------------------
(* The guests.  A guest step touches one name; they make files of every      *)
(* kind, FIFOs and sockets among them (mknod).  Directories are created and  *)
(* removed but never renamed, and a symlink appears only where no path       *)
(* continues, so that no directory on the way to a path becomes a symlink.   *)

IsLeaf(p) == \A q \in Path : Dir(q) # p

GuestStep(op) ==
  /\ op \in GuestOps
  /\ guestOps < MaxGuestOps
  /\ guestOps' = guestOps + 1

GuestCreate(p, i, k, c, m) ==
  /\ GuestStep("create")
  /\ KindAt(Dir(p)) = "dir" /\ entry[p] = NoInode
  /\ i \in GuestInode /\ inode[i].kind = "free"
  /\ k \in {"file", "other"} \cup IF IsLeaf(p) THEN {"symlink"} ELSE {"dir"}
  /\ entry' = [entry EXCEPT ![p] = i]
  /\ k = "symlink" => p \notin LinkTarget
  /\ \E t \in IF k = "symlink" THEN LinkTarget ELSE {<< >>} :
       inode' = [inode EXCEPT ![i] =
         [kind |-> k, content |-> IF k = "file" THEN c ELSE Empty,
          mode |-> m, target |-> t]]

GuestWrite(p, c) ==
  /\ GuestStep("write")
  /\ KindAt(p) = "file"
  /\ inode' = [inode EXCEPT ![entry[p]].content = c]
  /\ UNCHANGED entry

GuestUnlink(p) ==
  /\ GuestStep("unlink")
  /\ entry[p] # NoInode /\ Children(p) = {}
  /\ entry' = [entry EXCEPT ![p] = NoInode]
  /\ UNCHANGED inode

\* rename(2): replaces what q named, unless that is the same file.
GuestRename(p, q) ==
  /\ GuestStep("rename")
  /\ entry[p] # entry[q] /\ IsLeaf(p) /\ IsLeaf(q)
  /\ KindAt(p) \in {"file", "symlink", "other"} /\ KindAt(q) # "dir"
  /\ KindAt(p) = "symlink" => q \notin LinkTarget
  /\ KindAt(Dir(q)) = "dir"
  /\ entry' = [entry EXCEPT ![q] = entry[p], ![p] = NoInode]
  /\ UNCHANGED inode

GuestLink(p, q) ==
  /\ GuestStep("link")
  /\ KindAt(p) = "file" /\ entry[q] = NoInode /\ KindAt(Dir(q)) = "dir"
  /\ entry' = [entry EXCEPT ![q] = entry[p]]
  /\ UNCHANGED inode

GuestNext ==
  \/ \E p \in Path, i \in GuestInode, k \in Kind, c \in Content, m \in Mode :
       GuestCreate(p, i, k, c, m)
  \/ \E p \in Path, c \in Content : GuestWrite(p, c)
  \/ \E p \in Path : GuestUnlink(p)
  \/ \E p, q \in Path : GuestRename(p, q)
  \/ \E p, q \in Path : GuestLink(p, q)
=============================================================================
