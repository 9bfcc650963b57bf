---------------------------- MODULE GuestRequest ----------------------------
(***************************************************************************)
(* The guest command "vreflink SRC DST": buildRequest turns what was typed   *)
(* into paths below the mount root, and the host normalises what arrives.    *)
(* The state is the command line, which grows by one segment at a time, so   *)
(* that every spelling of bounded length is reached; the operators are       *)
(* compared with a reference that walks the path instead of rewriting it.    *)
(***************************************************************************)
EXTENDS Paths, FiniteSets

CONSTANTS
  Segment,          \* what may stand between two slashes
  Cwd,              \* working directories: absolute and clean
  MountRoot,        \* guest_mount_root, as configured
  Token,            \* auth_token, "" if there is none
  MaxSrc, MaxDst    \* bounds on the number of segments typed

VARIABLES cwd, mountRoot, token, src, dst

vars == <<cwd, mountRoot, token, src, dst>>

ASSUME CwdAssumption ==
  Cwd \subseteq Seq(Segment) /\ \A d \in Cwd : IsAbs(d) /\ d = Text(Clean(d))
ASSUME RootAssumption == MountRoot \subseteq Seq(Segment)
ASSUME BoundAssumption == MaxSrc \in Nat \ {0} /\ MaxDst \in Nat \ {0}

Init ==
  /\ cwd \in Cwd /\ mountRoot \in MountRoot /\ token \in Token
  /\ src \in {<<s>> : s \in Segment}
  /\ dst \in {<<s>> : s \in Segment}

TypeSrc ==
  /\ Len(src) < MaxSrc
  /\ \E s \in Segment : src' = Append(src, s)
  /\ UNCHANGED <<cwd, mountRoot, token, dst>>

TypeDst ==
  /\ Len(dst) < MaxDst
  /\ \E s \in Segment : dst' = Append(dst, s)
  /\ UNCHANGED <<cwd, mountRoot, token, src>>

Typed == Len(src) = MaxSrc /\ Len(dst) = MaxDst /\ UNCHANGED vars

Next == TypeSrc \/ TypeDst \/ Typed

Spec == Init /\ [][Next]_vars
-----------------------------------------------------------------------------
(* buildRequest.                                                            *)

NewRequest(version, s, d) ==
  [version |-> version, op |-> "reflink", recursive |-> FALSE, src |-> s, dst |-> d,
   token |-> token]

RelText(rel) == Text([abs |-> FALSE, parts |-> rel])

\* buildRequest, mutated: what is typed relative to the mount root is sent as it is.
BuildRequestTyped ==
  LET s == ResolveGuestArgument(cwd, mountRoot, cwd, src)
      d == ResolveGuestArgument(cwd, mountRoot, cwd, dst)
      version == IF token # "" THEN 2 ELSE 1
      sent(typed, rel) == IF Clean(cwd) = NormalizeRoot(cwd, mountRoot) /\ ~IsAbs(typed)
                          THEN typed ELSE RelText(rel)
  IN  IF s.err # nil THEN s ELSE IF d.err # nil THEN d
      ELSE [err |-> nil, req |-> NewRequest(version, sent(src, s.rel), sent(dst, d.rel))]

BuildRequest ==
  LET s == ResolveGuestArgument(cwd, mountRoot, cwd, src)
      d == ResolveGuestArgument(cwd, mountRoot, cwd, dst)
      version == IF token # "" THEN 2 ELSE 1
  IN  IF s.err # nil THEN s ELSE IF d.err # nil THEN d
      ELSE [err |-> nil, req |-> NewRequest(version, RelText(s.rel), RelText(d.rel))]
-----------------------------------------------------------------------------
(* The reference: a walk, segment by segment, down a tree without symlinks.  *)

IsName(s) == s \notin {"", ".", ".."}

\* The names less the ".."s among the segments after the i-th up to the j-th.
Net(p, i, j) ==
  Cardinality({n \in i + 1 .. j : IsName(p[n])}) - Cardinality({n \in i + 1 .. j : p[n] = ".."})

\* How deep the walk is after n segments, if ".." does nothing at the top.
Depth(p, n) ==
  LET nets == {Net(p, k, n) : k \in 0 .. n}
  IN  CHOOSE d \in nets : \A e \in nets : e <= d

\* The names the walk goes down and never comes back from: where it ends there is one
\* for each depth.
Kept(p) ==
  {n \in DOMAIN p : IsName(p[n]) /\ \A m \in n .. Len(p) : Depth(p, m) >= Depth(p, n)}

Location(p) ==
  [d \in 1 .. Depth(p, Len(p)) |-> p[CHOOSE n \in Kept(p) : Depth(p, n) = d]]

Leaves(p) == \E n \in DOMAIN p : Net(p, 0, n) < 0

\* Where an argument, or a configured root, points in the guest.
GuestLocation(arg) == Location(IF IsAbs(arg) THEN arg ELSE cwd \o arg)
-----------------------------------------------------------------------------
(* Properties.                                                              *)

\* The host accepts exactly the paths that never step out of the share on their
\* way, even to come back, and takes each for the place it leads to
\* (NormalizeRelative, whatever mixture of "..", "." and "//" is sent).
HostAcceptsInside ==
  LET host == NormalizeRelative(src)
  IN  /\ host.err = nil <=> src # EmptyPath /\ ~IsAbs(src) /\ ~Leaves(src)
      /\ host.err = nil => host.rel = Location(src)

\* The guest command accepts exactly the arguments that denote something at or
\* below the mount root, however both are spelled, and sends the way from one to
\* the other (ResolveGuestArgument; a sibling whose name merely begins like the
\* root is outside).
GuestAcceptsInside ==
  LET guest == ResolveGuestArgument(cwd, mountRoot, cwd, src)
      root == GuestLocation(mountRoot)
      inside == src # EmptyPath /\ mountRoot # EmptyPath /\ IsPrefix(root, GuestLocation(src))
  IN  /\ guest.err = nil <=> inside
      /\ inside => root \o guest.rel = GuestLocation(src)

\* Guest and host agree: the host refuses a request the command has built only if
\* its two arguments are one file, it refuses all of those, and of the others it
\* takes both paths for the places the user meant.
GuestAndHostAgree ==
  BuildRequest.err = nil =>
    LET r == BuildRequest.req
        root == GuestLocation(mountRoot)
    IN  /\ ValidateRequest(r) \in
             {nil, NewError("EINVAL", "source and destination must differ")}
        /\ ValidateRequest(r) = nil <=> GuestLocation(src) # GuestLocation(dst)
        /\ root \o NormalizeRelative(r.src).rel = GuestLocation(src)
        /\ root \o NormalizeRelative(r.dst).rel = GuestLocation(dst)
=============================================================================
