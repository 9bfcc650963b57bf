------------------------------- MODULE Paths -------------------------------
(***************************************************************************)
(* The lexical path algebra of internal/validate, used on both sides of the *)
(* wire: the guest CLI turns an argument into a path relative to its mount  *)
(* root, and the daemon normalises what it receives before joining it to    *)
(* the share root.                                                          *)
(*                                                                          *)
(* A raw path is the sequence of segments its text splits into at "/": "a/b"*)
(* is <<"a", "b">>, "/a" is <<"", "a">>, "" is <<"">> and "/" is <<"", "">>.*)
(* A clean path is a record: is it absolute, and which names and leading    *)
(* ".."s are left.  A relative path inside the share is a sequence of names,*)
(* << >> standing for ".".                                                  *)
(***************************************************************************)
EXTENDS Naturals, Sequences, SequencesExt, Protocol

IsAbs(p) == Len(p) > 1 /\ Head(p) = ""

EmptyPath == <<"">>

\* filepath.Clean: empty and "." segments vanish, ".." takes the name before
\* it away; what it cannot take away stays, except at the root.
Push(abs, acc, s) ==
  CASE s \in {"", "."} -> acc
    [] s = ".." /\ acc # << >> /\ Last(acc) # ".." -> Front(acc)
    [] s = ".." /\ abs /\ acc = << >> -> acc
    [] OTHER -> Append(acc, s)

Clean(p) ==
  [abs |-> IsAbs(p),
   parts |-> FoldLeft(LAMBDA acc, s : Push(IsAbs(p), acc, s), << >>, p)]

\* The text of a clean path, split again.
Text(c) ==
  CASE c.abs /\ c.parts = << >>  -> <<"", "">>
    [] c.abs /\ c.parts # << >>  -> <<"">> \o c.parts
    [] ~c.abs /\ c.parts = << >> -> <<".">>
    [] OTHER                     -> c.parts

\* filepath.Join(a, b).
Join(a, b) == Text(Clean(a \o b))

\* filepath.Rel of two clean absolute paths.
FilepathRel(base, targ) ==
  LET same == {n \in 0 .. Len(base.parts) :
                 IsPrefix(SubSeq(base.parts, 1, n), targ.parts)}
      common == CHOOSE n \in same : \A m \in same : m <= n
      up == [n \in 1 .. Len(base.parts) - common |-> ".."]
  IN  Text([abs |-> FALSE,
            parts |-> up \o SubSeq(targ.parts, common + 1, Len(targ.parts))])

\* A conversion returns a path or an error.
Accept(rel) == [err |-> nil, rel |-> rel]
Refuse(code, msg) == [err |-> NewError(code, msg), rel |-> << >>]

\* NormalizeRelative, mutated: only ".." itself is found to be outside.
NormalizeParentOnly(p) ==
  LET clean == Clean(p)
  IN  CASE p = EmptyPath -> Refuse("EINVAL", "path is required")
        [] p # EmptyPath /\ clean.abs ->
             Refuse("EPERM", "absolute paths are not allowed")
        [] p # EmptyPath /\ ~clean.abs /\ clean.parts = <<"..">> ->
             Refuse("EPERM", "path must stay within the shared root")
        [] OTHER -> Accept(clean.parts)

NormalizeRelative(p) ==
  LET clean == Clean(p)
  IN  CASE p = EmptyPath -> Refuse("EINVAL", "path is required")
        [] p # EmptyPath /\ clean.abs ->
             Refuse("EPERM", "absolute paths are not allowed")
        [] p # EmptyPath /\ ~clean.abs /\ clean.parts # << >>
             /\ Head(clean.parts) = ".." ->
             Refuse("EPERM", "path must stay within the shared root")
        [] OTHER -> Accept(clean.parts)

\* normalizeRoot: filepath.Abs against the process's working directory.
NormalizeRoot(wd, root) ==
  IF IsAbs(root) THEN Clean(root) ELSE Clean(Join(wd, root))

GuestToRelative(wd, mountRoot, guestPath) ==
  LET clean == Clean(guestPath)
      rel == NormalizeRelative(FilepathRel(NormalizeRoot(wd, mountRoot), clean))
  IN  CASE mountRoot = EmptyPath -> Refuse("EINVAL", "share root is required")
        [] mountRoot # EmptyPath /\ ~clean.abs ->
             Refuse("EPERM", "guest paths must be absolute")
        [] mountRoot # EmptyPath /\ clean.abs /\ rel.err # nil ->
             Refuse("EPERM", "path must stay within the guest mount root")
        [] OTHER -> rel

\* ResolveGuestArgument, mutated: relative to the mount root, not to cwd.
ResolveInMount(wd, mountRoot, cwd, arg) ==
  IF arg = EmptyPath THEN Refuse("EINVAL", "path is required")
  ELSE GuestToRelative(wd, mountRoot,
                       IF IsAbs(arg) THEN arg ELSE Join(Text(NormalizeRoot(wd, mountRoot)), arg))

ResolveGuestArgument(wd, mountRoot, cwd, arg) ==
  IF arg = EmptyPath THEN Refuse("EINVAL", "path is required")
  ELSE GuestToRelative(wd, mountRoot, IF IsAbs(arg) THEN arg ELSE Join(cwd, arg))

\* validate.Request: Request.Validate, then both paths.
ValidateRequest(req) ==
  LET first == Validate(req)
      src == NormalizeRelative(req.src)
      dst == NormalizeRelative(req.dst)
  IN  CASE first # nil -> first
        [] first = nil /\ src.err # nil -> src.err
        [] OTHER -> dst.err
=============================================================================
