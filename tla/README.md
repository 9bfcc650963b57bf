# V-reflink in TLA+

V-reflink lets a virtual machine ask its host for reflink copies inside a shared
virtiofs directory. The guest command `vreflink SRC DST` sends one request over
vsock; the host daemon `vreflinkd` checks it against the share and clones the file.
The program is small, but it is concurrent on every side: each request runs in a
goroutine or a process of its own, nothing locks the share, guests work on the same
directory, and either side may time out, be stopped or die at any moment.

This directory holds TLA+ models of it, the TLC configurations that check them on
small instances, and proofs that hold for all instances. `PROJECT.json` maps every
definition to the lines it models.

## Inventory

| Component | State | Operations | Interacts with | Hard about it | Correct if |
|---|---|---|---|---|---|
| `internal/protocol` | none | `Request.Validate`, `CodeFromError`, `ResponseFromError` | everybody's errors go through it | many errnos, five codes | the code says what went wrong |
| `internal/validate` | none | lexical rules; Lstat walks of source and destination | called by guest and by service | symlinks and names change during the walk | accepted paths stay inside, guest and host agree, no symlink is followed |
| `internal/service`, one file | locals of `Execute` and `Reflink` | `Execute`, `reflinkSingle`, `Reflink` | the share, other requests, guests | check-then-use, faults at every call, cleanup by name | exclusive creation, whole copies, no leftovers, foreign files untouched |
| `internal/service`, `ValidateShareRoot` | two temporary files | once at startup | the share | name given back before use | no file of others is removed, nothing is left |
| `internal/tree` | list of pending directory modes | `ReflinkTree` | the share, `Reflink` | a walk of a moving tree, fail-fast, modes restored afterwards | every success is a copy of a tree, modes restored after failures |
| `internal/client`, `internal/framing` | connection, dial goroutine | `Do`, `dial` | the server through vsock | deadline against late result | it returns, and leaks nothing |
| `internal/server` | listener, handlers | `Serve`, `handleConn` | client, executor, signals | stalled peers, shutdown with handlers at work | handlers end, answers are true |
| `cmd/vreflinkd` | tokens, worker processes | executor, `commandWorker.Execute`, `runWorker` | server, service, kernel | worker fails to start, dies before or after answering | effects only under the token's identity |
| `internal/auth` | token map | `NewTokenMapFromEntries`, `Resolve` | daemon | trimming, group sets, fail closed | one identity per token |
| `cmd/vreflink` | flags, cwd | `resolveRuntimeConfig`, `buildRequest`, `responseErrorMessage`; `config init` | client, validate, config | relative and unclean mount roots, an error known by its text | the request means what was typed, the user is told what to do |
| `internal/config` | two files of the guest, one of the host | `LoadCLI`, `LoadDaemon` | both commands, the user's editor | four sources with four notions of "empty"; files read one after the other | one precedence, the settings of one moment, no malformed file passed over |
| `internal/install` | temporary file | `WriteTemplate` | the guest's commands and editor | stat, then rename; failures and kills in between | no overwrite without `--force`, no half file, nothing left |
| logging, release build, developer tools, test support | none of interest | | | | not modelled |

## Modules

```
Protocol <- Paths <- GuestRequest <- MCGuestRequest
   ^          ^          ^---- GuestRequestProofs
   |          |
   |          +---- FileReflink (HostFS) <- MCFileReflink
   |                     |      ^---------- FileReflinkProofs
   |                     v implements
   +- Auth <- Settings <- Rpc -> ExclusiveCreate
                 ^         ^---- MCRpc
                 |         ^---- RpcProofs
                 +- GuestConfig <- MCGuestConfig
                             ^---- GuestConfigProofs

HostFS, Paths <- TreeWalk <- MCTreeWalk
                    ^------- TreeWalkProofs
HostFS, Paths <- ShareProbe <- MCShareProbe
                    ^--------- ShareProbeProofs
```

`HostFSProofs` holds the facts about `HostFS` that `TreeWalkProofs` and
`ShareProbeProofs` share, `Induction` those about numbers, finite sets and folds that the
proofs of `FileReflink`, `GuestRequest`, `GuestConfig` and `ShareProbe` use.

`Protocol` is the vocabulary: an error is nil, a `CodedError` or a raw errno, and
`ResponseFromError` turns it into a response the way `protocol.go` does, ENOTDIR
filed with ENOENT included. Texts are kept because the code tells the user different
things in them; the number and the path that some of them quote are not.

`Paths` is the lexical half of `internal/validate`. A path is the sequence of the
segments its text splits into at `/`, so the corner cases (`//`, a trailing slash, the
empty string) exist; `Clean`, `Join` and `FilepathRel` model Go's `path/filepath`.

`GuestRequest` is the guest command up to the request. Its state is the command line,
which grows segment by segment; `BuildRequest` is `buildRequest`. The reference it is
compared with (`Depth`, `Kept`, `Location`) does not rewrite paths: it counts how
deep a walk is after each segment, and takes for each depth the name the walk never comes
back from.

`HostFS` is the kernel and the guests, both outside this repository: directory
entries that name inodes, the errnos of the system calls the daemon makes, and guests
that create, write, link, rename and unlink files, symlinks, and what is neither (FIFOs,
sockets and devices are one kind, `other`). Limits: symlinks point at paths that are
not symlinks, appear only as the last name of a path, directories are not renamed.
So no ancestor of a path turns into a symlink while a request runs; ancestors may
come and go.

`FileReflink` is `Service.Execute` for requests without `-r`, one action per system
call: `SecureJoin`'s walk and `rejectSymlinkComponents`' walk component by component
for the source, the Lstat, the same for the destination, the second join for its
parent, then open, `O_CREATE|O_EXCL`, clone, chmod, close and the deferred remove.
`pc` says where a call is, `job` holds its locals; between any two steps other calls
and guests move. `Faults` names the system calls that may fail for reasons of their
own, the Lstats and those inside `SecureJoin` among them: the latter are all answered with
"path must stay within the shared root". `os.Open` comes to wait (`waiting`) when what it finds
is a FIFO, until somebody opens it for writing (`WriterComes`); it finds one
only if a guest has put it in the place of the source after the Lstat. A call's new inode is named after the call. `Crash` stops a call half-way and
leaves what it has made.

`ExclusiveCreate` is what the service promises: a call claims a free name, keeps it
when it succeeds, gives it back when it fails late (or leaves it: a failing Close or
remove, a crash), and "already exists" is said at a moment when it does. A free name may
be taken by others, also with a link to the file of a call that failed. `FileReflink`
implements it, under a mapping that reads the owner of a name off the directory
entries and the phase of a call off `pc` and its error.

`TreeWalk` is a request with `-r`: `reflinkTree` and `ReflinkTree`. `todo` is what
`filepath.WalkDir` has still to do, a stack of directories to list and entries to visit,
those of a directory in the order of their names (`Rank`, `Listing`);
listing, Lstat and what is then made of an entry are separate steps, and `pending` is the
list of modes that `restoreDirectoryModes` goes through backwards. What `FileReflink`
takes apart, resolving the two paths and one `Reflink`, is one step each here, but for the
wait in `os.Open`, which is a state of its own here too. Modes are
model values, so `exactDirectoryMode`, which drops the type bits of a mode, leaves nothing
to model; the share root, which has no entry, has `RootMode`. A crash is not modelled: it leaves what there is, in the temporary mode.

`ShareProbe` is `ValidateShareRoot`, for several daemons at once: temporary files whose
names CreateTemp finds free, the destination's name given back before `Reflink` takes it,
and the deferred function, which removes by name. `Reflink` is one step; that a guest can hang
it on a FIFO under the name of the probe's source is left out, since nothing is said here about
when a probe ends. A file system
can clone or it cannot, which the initial state says. `NewInode` bounds the files that
daemons create; the run has enough for all of them.

`Auth` is `internal/auth`, the gate in `daemonExecutor.Execute`, and the choice of the
worker's credentials: `NormalizeGroups` of an entry and `CurrentProcessIdentity` of the daemon drop
groups each in their own way, before the two are compared. An empty token map stands for Go's nil map.

`Settings` is `internal/config` and `resolveRuntimeConfig` as operators. A TOML file is
the function from the keys it sets to their values, a legacy line is split at its `=`;
the syntax of TOML, numbers and durations is external (`Bad` is what none of them
accepts). The four sources differ in what a value that is empty, blank or malformed
means: TOML passes over a blank mount root or timeout but takes an empty token, the
legacy file takes an empty string and stops at an empty number, the environment passes
over everything that is empty or malformed, a flag counts whatever it holds.

`GuestConfig` is the guest's configuration directory. `WriteTemplate` is one action per
system call, each of which may fail or be the installer's last; a command reads
config.toml and, if it is missing, the legacy file later; the user's editor replaces or
removes either file at any time. `temp` is the temporary file an installer has made. A
file that an installer has renamed is seen whole. The reference (`Expected`) does not
follow the code's overwriting of one setting after the other: for each setting it asks
flags, environment, file and default in that order, and takes the first that says
something (`FirstOf`). Limits: editors replace files as a whole, config.toml is no
symlink. If the removal of the temporary file fails, which the code does not look at, the
installer has `littered`.

`Rpc` is everything between the command and the service, for several calls at once:
`Do`, the goroutine that dials and the one that drains it, the connection with its two
ends, `Serve` with its two ways to end, `handleConn` with read and write deadlines, the
executor, the worker process with its pipes and exit, and systemd's restart. The daemon
starts with a configuration file, and reads it again when it is restarted, when an
administrator may have changed it: so a worker can outlive the daemon, and the
token, that sent it (`served` is the settings of the daemon that dispatched a call). A
daemon that does not start, for its file or for the share, the executable or the
port, is one that has `failed`. The service inside is `ExclusiveCreate`, imported with its variables, so what is true of
`Rpc` is true of any service that keeps that contract. Frames are atomic: `Read`
takes a whole frame or fails (`ReadFails`), and an incomplete one has the effect of none. That
the frame for the worker is too large cannot happen (it is the guest's frame again, which
has passed the same limit), nor that a worker's refusal has no error in it
(`ResponseFromError` writes one); so neither branch of the executor is an action. An error
of a pipe or of an exit status has no errno that `CodeFromError` knows.

## Runs

| Run | Question | Instance | Result |
|---|---|---|---|
| `GuestRequest` | do guest and host read every spelling alike? | all command lines of 4 and 2 segments over `""`, `.`, `..`, `s`, `sx`; mount roots at and above the working directory, clean, unclean, relative, empty | holds |
| `FileReflinkRace` | what do racing requests do to each other? | 2 calls, 3 requests (same destination; one's destination the other's source), all eight faults, one path not spelled clean, 1 crash, 1 guest step | holds |
| `FileReflinkGuests` | what can guests, failures and crashes make of a request? | 2 calls for one destination, one unlink, rename or link, a FIFO among the files and the sources, failing Lstat, create, clone and chmod, 1 crash, fair scheduling | holds |
| `FileReflinkVerdict` | are exactly the right requests accepted, and the others told why? | 1 call, 16 x 16 spellings: free, missing, directory, symlink, FIFO, two links, below a file, escaping, absolute, empty | holds |
| `TreeWalk` | is a recursive copy one? | sources: trees with nested and empty directories, with a symlink, a fifo, a file with two names, a file, a missing path, the same below a symlink; destinations: free, taken, inside the source; the share root as either; 1 failing call, 1 guest step (create, link, unlink, rename) | holds |
| `FileReflinkForeign` | does it delete only what is its own? | 1 call, clone fails, a guest unlinks and creates | violated |
| `ShareProbe` | is the startup probe harmless, and right? | 2 daemons, 6 spellings of the share root, two names for each temporary file, a leftover under one of them, 1 failing call, 1 guest step, kills at any moment | holds |
| `RpcRace` | is the answer true, whatever is lost? | 2 calls, 1 shutdown, 1 killed worker, all timeouts | holds |
| `RpcDaemon` | under whose identity is anything done, is the guest told why not, and does everything end? | 1 call, every version and token, 9 configuration files of which 6 stop the daemon, a token revoked or the file lost at a restart, guests with and without a timeout, 1 end of the daemon, 1 killed worker | holds |
| `RpcEnoent` | does "source not found" mean that? | 1 call, the worker's executable is gone | violated |
| `GuestConfig` | which settings does a command use, and what does an installer leave? | 1 command with and without environment and flags, 1 installer with and without `--force`, 8 failing calls, 1 kill, 5 TOML and 4 legacy files of every kind, 2 edits | holds |
| `ConfigInitRace` | is a file overwritten without `--force`? | 2 installers, 1 edit | violated |

Properties:

* `HostAcceptsInside`, `GuestAcceptsInside`, `GuestAndHostAgree`: the path rules
  against the reference walk, and two arguments for one file refused on the host
  because the guest sends clean paths.
* `OkInPlace`: a success is at the path that was asked for and is this call's file.
* `OkIsCopy`: content and mode of a source that has been there all along; of a source
  that is still being made, nothing or everything. The mode then may be another file's
  (Lstat and open are two looks at the name); the runs found that, and the property
  says it.
* `FailLeavesNothing`: a failed request leaves no file, if no guest has moved or linked
  it. It is checked with failing create, clone and chmod. It does not hold if `Close` is what fails: `cleanup` is
  cleared before the deferred function runs (service.go:208), so the request fails and
  the finished file stays; nor, obviously, if the remove fails.
* `EexistIsTruthful`, `RemovesOnlyOwn`, `WritesOnlyOwnFile`: racing calls neither refuse
  each other for nothing nor touch each other's files.
* `VerdictIsRight`: on a share that keeps still, success is decided by the source being
  a regular file with one link reached through no symlink, and the destination being
  free in an existing directory.
* `BlameIsRight`: and a refused request blames the right path: codes and texts are chosen
  far from where the error arises. The exception it states is ENOTDIR, which is filed
  with ENOENT: a destination below a regular file is told "source not found".
* `EveryRequestEnds`, `WaitsForNewcomer`: a request ends, its process dies, or it waits in
  `os.Open` for the writer of a FIFO, which nothing in the code limits. What it waits for was
  not under the source's name from the start: then the Lstat refuses it.
* `ImplementsContract`: refinement of `ExclusiveCreate`.
* `OkIsTreeCopy`, `TreeVerdictIsRight`: a success is a whole copy though the walk reads a
  directory once and its entries later and a guest moves in between (what a guest has renamed
  of the copy may have another name), and exactly the trees of directories and files
  with one name are copied, if no copy gets a path that is too long. A destination inside the source is refused by nobody: the
  walk meets what it makes, goes on until a path is too long and then fails, leaving
  the nested copies.
* `ModesRestored`: whatever ends the walk, its directories get the modes of those they
  copy. If a chmod fails, that directory and those made before it keep the temporary mode, and
  no others, and the request fails. `ChangesOnlyOwn`: nothing else on the share changes. The
  latter is true while guests put nothing in the place of a directory: `os.Chmod` goes by
  name and follows symlinks. `WalkEnds`: the walk ends, or waits for a FIFO that has taken the
  place of a file it had looked at.
* `LeavesNothing`, `KeepsWhatWasThere`, `ProbeVerdictIsRight`: of a probe that returns no
  file is left, though two probes may be given each other's names and each remove what
  the other has made (then both daemons refuse to start); what was on the share before
  stays; and a probe that is alone says exactly whether the share can clone. A file that a
  guest puts under the probe's name between remove and `Reflink` does not survive, so
  `KeepsWhatWasThere` speaks of what was there from the start.
* `OkMeansDone`, `RefusalIsFinal`: what `Do` returns against what the call did, or is
  about to do, although deadlines, deaths and shutdowns leave handlers and workers behind.
  A refusal is EEXIST, an invalid token or a request that was never sent. "permission
  denied" is none: clone, chmod and Close may fail with it too, and then the file may stay.
* `EffectIsAuthorized`: a created file implies an entry in the file of the daemon that took
  the request up, with the request's token but for spaces around it, and a process that runs
  with the user, the group and the set of groups of that entry, or the permitted
  unauthenticated protocol. The property reads the file and the process, not the
  token map or the normalised identities that the code makes of them.
* `HintIsRight`: the guest replaces one text of the daemon's by the advice to set a token;
  it does so exactly when the daemon knows tokens and the command had none. The texts
  are written down in two programs, and the daemon could say something else first.
* `UsesOneMoment`: a command ends with the settings that its flags, its environment and
  the files of one moment of its run give. It holds if only config.toml changes: who moves
  the settings from the legacy file to config.toml while a command is between its two reads
  makes it run with the defaults, since it has seen neither. `MalformedStops` and
  `StopsOnlyIfMalformed`: a malformed config.toml stops a command whatever happens to
  the files, and nothing else does, not even an installer that dies while it writes.
* `RefusesWhatStays`, `InitLeavesNothing`: without `--force` an installer replaces only what
  came after it had begun, and if it lives to its end its temporary file is gone, unless
  its removal failed.
* `TomlIsWhole`: config.toml is never half a template.
* `HandlersFinish`: a guest that stalls does not hold a handler; it ends, or gets as far as
  the service. `DoReturns`, `ConnectionsAreClosed`: `Do` returns and leaves no connection.

### Bounds

Two calls are enough for the interplay of requests, which meet in a name or an inode
at a time; a third was tried and found nothing. One guest step in the runs about
races and two in the run about guests allow a name to be taken away and given
again. The paths are a file, a free name, a directory and a free name in it; in
`FileReflinkVerdict` also a symlink, a file with two links and everything below
them. One crash, one or two ends of the daemon (so that it restarts and is stopped
again) and one killed worker let a failure hit any step. Contents and modes are two
each, the umask cuts one mode to the other. In `TreeWalk` the set of paths ends at
three names, which stands for PATH_MAX, and a single guest step can hit any moment of the
walk; what takes two (a directory that turns into a file between two looks) is written
in the actions but not reached. Where the steps of a guest are bounded,
the bound is a counter in the state (`guestOps`, `crashes`, `exits`, `kills`, `edits`,
`deaths`), never a constraint on the states explored.

In `GuestConfig` two edits are what it takes to put a file there and take it away
again, or to change both files, between any two steps of one command and one installer;
commands only read, so a second one would see what the first sees. Two installers are in
`ConfigInitRace`. The contents include every way to be malformed and values that differ
from each other, from the template and from the defaults.

### Fairness

`FileReflink`: weak fairness of each call's steps, since a goroutine that can run is
scheduled and system calls on a local file system return. The exception is `os.Open` of a
FIFO: `WriterComes` is not fair, since nobody owes the daemon a writer, and the liveness properties
except a call that waits. Guests, faults and crashes
are not fair. `TreeWalk`: weak fairness of the walk, for the same reason and with the same
exception. `Rpc`: weak
fairness of the handlers, the workers and the shutdown, and of the service once it has
claimed the destination, since `os.Open` lies before that; nothing of
guests, of failures or of restarts. `GuestConfig` and `ShareProbe` state safety only: their
processes are straight lines that end if they run. `HandlersFinish` holds with that alone, but only
with a read timeout (the default is 5 s, a value of zero or less disables it).
`DoReturns` and `ConnectionsAreClosed` assume also that the goroutines of the guest
in question are scheduled (`GuestFairness`) and that executions return (`ExecutionsReturn`), which
is so unless some guest puts a FIFO in a source's place, and are stated as implications.

## Disagreements between the code and its documents

* `FileReflinkForeign`: the deferred cleanup calls `os.Remove(dstPath)` by name
  (service.go:196). If a guest has renamed or unlinked the half-made file and put one
  of its own there, that one is deleted. The plan says "No replace, rename, or delete
  behavior." (dev-logs/01-vreflink_plan_v1.md:335.)
* `RpcEnoent`: if the daemon's executable has been removed while it runs (the situation
  of dev-logs/05-user-trial-report.md:122), starting a worker fails with ENOENT, and the
  guest is told "source not found". The plan's table says ENOENT is "source missing"
  (dev-logs/01-vreflink_plan_v1.md:345). A destination below a regular file gets the same
  text, by way of ENOTDIR (protocol.go:130), which the models also do.
* `ConfigInitRace`: "config init" looks with `os.Stat` (install.go:15) and replaces with
  `os.Rename` (install.go:50). A config.toml that another "config init" or an editor
  makes in between is overwritten, though the README says it "refuses to overwrite an
  existing file unless `--force` is used" (README.md:148).

Not in disagreement with a run of its own, but worth knowing, since README.md:305 says
"Symlinks, hardlinks, device nodes, FIFOs, and sockets are rejected.": that is so of what the
Lstat sees. A FIFO that takes the source's name later is waited for (`WaitsForNewcomer` is what
can be said); a destination that is a symlink when `SecureJoin` resolves it and gone when
`rejectSymlinkComponents` looks for it is made where the link led (hence `NoRemoval` below); and
`restoreDirectoryModes` follows a symlink that a guest has put in the place of a
directory (hence `NothingReplaced`).

## Proofs

What is proved holds for every value of the constants: any share, set of paths,
requests and names, any number of calls, installers, commands and tokens, any faults
and bounds. Only what the column "assumes" says, and the named assumptions of the
modules (`PathAssumption`, `WorkerAssumption`, `RpcAssumption`, `ContentAssumption` and
so on, which TLC evaluates in every run), is taken for granted.

| Module | Theorem | Says | Assumes |
|---|---|---|---|
| `FileReflinkProofs` | `TypeCorrect` | `Spec => []TypeOK` | |
| | `WritesOnlyOwn` | `Spec => WritesOnlyOwnFile` | |
| | `OkIsInPlace` | `Spec => []OkInPlace` | `NoRemoval` |
| | `RemovesOnlyItsOwn` | `Spec => RemovesOnlyOwn` | `NoRemoval` |
| | `Implements` | `Spec => ImplementsContract` | `NoRemoval` |
| | `EexistIsTrue` | `Spec => []EexistIsTruthful` | `NoRemoval` |
| | `FailuresLeaveNothing` | `Spec => []FailLeavesNothing` | neither Close nor remove fails |
| | `OkIsACopy` | `Spec => []OkIsCopy` | `LeaveAlone` |
| | `WaitsForNewcomers` | `Spec => []WaitsForNewcomer` | `LeaveAlone` |
| | `RightVerdict` | `Spec => []VerdictIsRight` | `Alone`, `PathsOnly` |
| | `RightBlame` | `Spec => []BlameIsRight` | `Alone` |
| `GuestRequestProofs` | `HostTakesInside` | `Spec => []HostAcceptsInside` | |
| | `GuestTakesInside` | `Spec => []GuestAcceptsInside` | |
| | `BothAgree` | `Spec => []GuestAndHostAgree` | |
| `TreeWalkProofs` | `TypeCorrect` | `Spec => []TypeOK` | |
| | `OnlyOwnChanges` | `Spec => ChangesOnlyOwn` | `NothingReplaced` |
| | `AlwaysRestored` | `Spec => []ModesRestored` | `NothingReplaced` |
| | `OkIsCopied` | `Spec => []OkIsTreeCopy` | `Steady` |
| | `VerdictIsRight` | `Spec => []TreeVerdictIsRight` | |
| `RpcProofs` | `OkOwnsAlways` | `ServiceSpec => []OkOwns` | |
| | `TypeCorrect` | `Spec => []TypeOK` | |
| | `OkIsDone` | `Spec => []OkMeansDone` | |
| | `RefusalsAreFinal` | `Spec => []RefusalIsFinal` | |
| | `EffectsAreAuthorized` | `Spec => []EffectIsAuthorized` | |
| | `HintsAreRight` | `Spec => []HintIsRight` | |
| `GuestConfigProofs` | `TomlIsAlwaysWhole` | `Spec => []TomlIsWhole` | |
| | `NothingIsLeft` | `Spec => []InitLeavesNothing` | |
| | `WhatStaysIsRefused` | `Spec => []RefusesWhatStays` | |
| | `MalformedAlwaysStops` | `Spec => []MalformedStops` | |
| | `OneMomentIsUsed` | `Spec => []UsesOneMoment` | `BadIsApart` |
| | `OnlyMalformedStops` | `Spec => []StopsOnlyIfMalformed` | `BadIsApart` |
| | `TypeCorrect` | `Spec => []TypeOK` | `BadIsApart` |
| `ShareProbeProofs` | `TypeCorrect` | `Spec => []TypeOK` | |
| | `ProbesCleanUp` | `Spec => []LeavesNothing` | guests neither rename nor link |
| | `KeepsOldFiles` | `Spec => KeepsWhatWasThere` | guests neither rename nor link |
| | `VerdictAlways` | `Spec => []ProbeVerdictIsRight` | guests neither unlink nor rename; `RootsApart` |

`NoRemoval` (guests neither unlink nor rename) is needed: a guest may of course take a
finished file away, and `FileReflinkForeign` is the counterexample to
`RemovesOnlyItsOwn` without it. `FailuresLeaveNothing` needs no such thing, since the
property itself speaks of files no guest has touched; a failing Close or remove
falsifies it, as said above. `LeaveAlone` (guests neither unlink, rename nor write; they
may create, link and plant symlinks) is for a property that compares a copy with its
source: a guest that writes to the source falsifies it, and so does one that puts an
original back after another file has been taken for it. `Alone` (no guests, no faults, a
single call) is what "a share that keeps still" means in the two properties that say what must
happen, as in `FileReflinkVerdict`; the share, the paths and the request are any.
`PathsOnly` says that a request that `Request.Validate` refuses is refused for its paths, since
`VerdictIsRight` is about paths and a wrong version or an empty token would be one more reason.

In `TreeWalk` `NothingReplaced` says that guests do not unlink, or make, link and rename
nothing, or have one step in all: it keeps a guest from removing a directory of the copy and
putting another or a symlink in its place, which `os.Chmod` would then find under the name.
`Steady` adds that guests neither write nor rename: what they write to either tree,
or move into the source behind the walk, is not copied. `VerdictIsRight` needs neither, since the
property itself speaks of runs in which no guest has moved and nothing has failed.
The guests of the run `TreeWalk`, who have one step, fulfil the first; they rename too, so the run
reaches further than the theorem `OkIsCopied`, whose property then says less about where
the copy is.

`BadIsApart` says that the value that stands for a parse
error is none of the settings records, which in Go is the difference between the two
results of a function. The theorems about the probe leave out what falsifies them: a guest
can move a probe's file to a name the deferred function does not know, can put an old file
back under a name the probe has freed, and can remove the share root before the probe returns.
`RootsApart` says that no share root is itself named like a temporary file. Without it the
name that one probe gives back before `Reflink` can become a directory, pass the probe
of a daemon that shares that directory, and be removed by the deferred function of the
first, since `os.Remove` removes empty directories too.

*Types of `FileReflink`.* `TypeOK` is not inductive: `Follow` yields the target of a
symlink, which must be a path; and `Open` reads the entry of `srcPath`, which must have a
last name. `TypeInv` adds both (`LocalsOK`).

*In place.* That the resolved destination is the requested one is not decided when it is
resolved: `SecureJoin` may have followed a symlink that `rejectSymlinkComponents` will
only meet later. `OnTheWay` is the invariant for that: either the path so far is a prefix
of the request's own, or one of the components the rejecting loop has still to visit
is a symlink. While names stay (`Undisturbed`) symlinks do not vanish, so the loop meets
it and the call fails. At the end of the loop nothing is left to visit, so the path is the
request's own. `AtDestination` carries this through create (`O_EXCL` makes the name this
call's), and while the call holds it no other call can name it in a remove, because
that call holds its own name. `TreeOK` (ancestors of entries are directories, entries
name inodes in use) is what the file system lemmas need. `InPlaceInv` is their
conjunction; `OkInPlace` and `RemovesOnlyOwn` follow from it.

*The contract.* The proof first sums up the actions of a call in seven
(`Progress`: it begins, walks, refuses, creates, works, closes, cleans up), each with
what it does to the call, its error and the directory entries. `ContractInv` adds
`Making` to `InPlaceInv`: before create the call's inode is unused and there is no
error, and whatever goes wrong after it has one of five errors (`LateError`), none of which is
reported as EEXIST. That last part is what the refinement hangs on: a late failure must
be a `Withdraw` or an `Abandon` and not an `Occupied`. Each kind of progress is then one
action of `ExclusiveCreate` or none, a crash is `Die`, and a guest that adds a name is
`ForeignTakes`, also when it links the file of a failed call (which Close or a
failing remove left elsewhere) back to the call's own destination. For `EexistIsTruthful`
the invariant is the property itself with `ContractInv`: a destination that was there
vanishes only in the cleanup of another call for it. For `FailLeavesNothing` it is
`CleanInv`: as long as no guest has moved, only a call that holds its file, or died
holding it, has a name anywhere; and a file that is to be removed can be, because it is
in the tree and no directory.

*A copy, the verdict, the blame.* `CopyInv` adds to `ContractInv` what a call carries from
its source to its file (`Carries`): once it has passed Lstat the mode of a source that was there
from the start, once it has it open an inode in use, after the clone its content. A source
that another call is making may be cloned empty and be filled later, which is why the property
and the invariant both say "nothing or everything". `AtSource` is `OnTheWay` for the
source. For verdict and blame a call is alone, and `AloneInv` adds `Walked`: how far each of the
three walks has come tells which of the path's names are known to be directories, so that
each error has one possible cause (`BlockedBy`), and each success all its conditions.

*`GuestRequest`.* The code cleans a path with a stack; the reference counts. `CleanRun` makes
the fold of `Clean` a sequence of stacks, one after each segment. `Mirrors` is the invariant of
that loop: the stack is as high as the walk is deep, and its i-th name is the one that
led to depth i last (`LeadsTo`); `DepthStep`, how a segment changes the depth, needs the
maximum of the net counts, which the least-number principle gives. At the end there is
one kept name for each depth (`MirrorsLocation`), so `Clean` is `Location` for every
path that does not leave (`CleanIs`). One that leaves pushes a `..` onto the empty stack and keeps
it for good (`LeavesAtExit`, `OutsideRun`), which is what `NormalizeRelative` looks for. A
clean path is its own cleaning (`CleanOfNames`, through its text and back in `TextAbs` and
`TextRel`), so the host reads what the guest sends as the guest did. `RelOf` is
`filepath.Rel`: the names below the root, or a `..` in front if the argument is not below
it. `ResolveIs` puts these together for an argument, `ValidateIs` and `SentIsAgreed` for the request.

*`TreeWalk`.* `TypeInv` adds to the types that a looked-at entry is still in front of the stack;
that a listing is well typed takes `Rank`: in a finite directory the ranks are 1 to its
size. The steps are then summed up twice: by what they do to the share (`Shape`: nothing, one new
entry, one mode) and by what comes next (`Began`, `Listed`, `LookedAt`, `MadeDir` and so on).
`OwnInv`: every path on the list of modes names a directory the walk has made, or nothing
any more (`PendingOwn`); `ChangesOnlyOwn` follows. `ModeInv`: every new directory is on the list
with the mode of what it copies, or has that mode (`DirsRight`); that goes through because
a new directory has one name and a target has one source. `CopyInv` is about the whole
tree: all that was in the source has been copied or is still to come, from an entry of
the stack above it (`AllHandled`). Its other parts keep a later step from spoiling a
copy: the paths on the stack are apart (`Apart`), what has been made is behind the walk
(`AllPassed`), and what was there stays or is gone for good (`OldStays`). For the verdict
`Still` says more while no guest has moved: what the listings said is still so
(`AllReady`), all that is new comes from the source (`Sourced`), and a walk into itself always
has a directory ahead that holds its own target, so it cannot end without an error
(`Endless`). `NoError`, the other direction: if the request is feasible no step can fail.

*`Rpc`.* The service is `ExclusiveCreate` with its own variables, and its invariant
`ServiceInv` is part of this one. The rest follows a request from the client
to the file and back: what `Do` returns is an error of its own or the reply
(`ClientInv`); the reply is what the handler has come to (`ReplyInv`); what a worker
writes is what the service has come to (`WorkerInv`); and what the handler has come to
is decided by the daemon's settings at the moment of dispatch: nothing was dispatched,
or the request was not admitted, or it was, and then under these credentials
(`HandlerInv`, with `Undispatched`, `Inadmitted`, `Admitted`). `served` ties the last to the daemon that
took the request up, not to the one that runs now. `LineInv` says that a connection
is served once. `PossibleError` lists the errors a handler can have, which is what
`HintIsRight` needs: no other error has the text that the guest looks for.
`EffectIsAuthorized` needs that the groups a process ends up with are those of the entry, whatever
their order and repetitions: `AppendedFacts` says what a loop that passes over some of its
elements keeps, `NormalizedFacts` and `CurrentFacts` apply it to the two ways in which groups are
dropped, and `EffectiveFacts` to the choice between the daemon's identity and another.

*`GuestConfig`.* `InstallerInv` says what the temporary file is at each call, and that an
installer without `--force` that has passed Stat has met a moment without the file; that
the temporary file is complete when it is renamed gives `TomlIsAlwaysWhole`. `CommandInv` says that what a command has read is among what it has
seen, and where its result came from. What remains is that code and reference agree on what a
file means. `LoadCLILegacy` is a fold over the lines, and the reference says that the last
line that sets a key decides: `Induction` has the induction this takes, from the
well-foundedness of the numbers, in the form that a fold has a property of its prefixes if each
step keeps it.

*`ShareProbe`.* Types need that a share root is a sequence of names once it is absolute and
clean: `Clean` is a fold of `Push` over the segments, that the fold exists is `FoldExists`
of `Induction`, and `Push` keeps the stack free of `..` because the path is absolute.
Each action is then summed up by what it does to the share (`Shape`): nothing, one new
file at a name that was free, or one name less, of the two the daemon remembers. `Tree` is the
invariant of the file system, and gives that a probe's own file can always be removed
(`OwnRemovable`): it is a file, so nothing is below it. `OwnInv` says where a probe's files
can be at each point of the call; `NamesInv` that the two names never again hold what was
there at the start, because whoever makes an entry makes it of an inode of his own.
`VerdictInv` has two halves. For every probe: its root stays a directory, since what is
created and removed has temporary names and the root has none (`Placed`, `Passed`). For
a probe that is alone: the share is as it was, the two names apart (`Undisturbed`), so
that the names that are free are those that were free at the start, no call can fail but for
want of them, and the error is the one it should be (`Judged`).

Checked by TLC only:

* liveness (`EveryRequestEnds`, `WalkEnds`, `HandlersFinish`, `DoReturns`,
  `ConnectionsAreClosed`): fairness and `ENABLED` are out of the prover's reach;
* the three runs that end in a violation: what they refute is not provable.

Every other property of a run is stated by a theorem.

## Not modelled

* `internal/logutil`: it builds a logger, and nothing depends on what is logged.
* `internal/releasebuild`, `internal/devsupport`, `cmd/vreflink-dev`: they run compilers,
  packagers and virtual machines for the developers, one call after the other, keep
  nothing between runs, and no part of the program uses them when it runs.
* `internal/testsupport`, `integration`: the code of the tests; read as documentation.
* `vreflinkd systemd-unit` prints a file. Packaging is files to install, of which only
  `Restart=on-failure` has behaviour (the action `Restart` of `Rpc`).
* Flag parsing (cobra), the syntax of TOML, numbers and durations, vsock below
  connections, and the kernel beyond what `HostFS` says are libraries of others. What
  the code relies on of them is external in `PROJECT.json`.
* The two ways a frame can be cut, and the exact sizes: a frame is whole or it is not.
* Loss of power: nothing in the code calls fsync or recovers anything.

## Plan

1. Done: `Protocol`, `Paths`, `HostFS`, `FileReflink`, `ExclusiveCreate`, `Auth`, `Rpc`,
   `GuestRequest`; proofs of types, of writes, of placement and of removal.
2. Done: `TreeWalk`, `ShareProbe`; `Settings`, `GuestConfig`, and `Rpc` with configuration
   files that change.
3. Done: proofs of the contract and its refinement, of `EexistIsTruthful` and
   `FailLeavesNothing`, of all the safety properties of `Rpc`, `GuestConfig` and `ShareProbe`.
4. Done: proofs of `OkIsCopy`, `VerdictIsRight` and `BlameIsRight`, of all the properties of
   `GuestRequest`, and of all the safety properties of `TreeWalk`.
5. Left: weaker hypotheses, such as `OkIsTreeCopy` for guests that rename outside both trees;
   crashes of a recursive request; symlinks as ancestors of paths in `HostFS`.
