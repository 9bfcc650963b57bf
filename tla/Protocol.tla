------------------------------ MODULE Protocol ------------------------------
(***************************************************************************)
(* The error and response vocabulary of internal/protocol: the two kinds of *)
(* Go error the daemon passes around (a CodedError, and a raw errno coming  *)
(* out of a system call), and the response that ResponseFromError makes of  *)
(* one.  Every module that can fail speaks in these terms.                  *)
(***************************************************************************)

EXTENDS Naturals, Sequences

\* The error codes of a response (protocol.go, the Code constants).
Code == {"ENOENT", "EEXIST", "EOPNOTSUPP", "EINVAL", "EPERM"}

\* The errnos the modelled system calls return, before they are coded.
Errno == {"ENOENT", "ENOTDIR", "EEXIST", "EACCES", "EPERM", "ELOOP",
          "EOPNOTSUPP", "EIO", "EISDIR", "EINVAL", "ENXIO", "ENAMETOOLONG", "EPIPE",
          "ECHILD"}

\* An error: nil, a *CodedError, or anything else, identified by its errno.
nil == [kind |-> "nil", code |-> "", msg |-> ""]
NewError(code, msg) == [kind |-> "coded", code |-> code, msg |-> msg]
Raw(errno) == [kind |-> "raw", code |-> errno, msg |-> ""]

\* What a coded error can say.
Message ==
  {"unsupported protocol version", "unsupported operation",
   "authentication token requires protocol version 2", "authentication token is required",
   "source path is required", "destination path is required",
   "source and destination must differ", "path is required", "share root is required",
   "absolute paths are not allowed", "path must stay within the shared root",
   "guest paths must be absolute", "path must stay within the guest mount root",
   "source not found", "destination parent does not exist", "destination already exists",
   "symlinks are not supported", "hard links are not supported",
   "source must be a regular file", "source must be a directory",
   "destination parent must be a directory",
   "reflink is not supported for this source and destination",
   "invalid request", "token authentication is not configured",
   "token-authenticated requests require protocol version 2",
   "invalid authentication token"}

Error == [kind : {"nil", "coded", "raw"}, code : Code \cup Errno \cup {""},
          msg : Message \cup {""}]

\* errors.Is over the wrapped chain: ENOTDIR is filed with ENOENT, and what
\* no case names becomes defaultErrCode.
CodeFromError(errno) ==
  CASE errno \in {"ENOENT", "ENOTDIR"} -> "ENOENT"
    [] errno = "EEXIST"                -> "EEXIST"
    [] errno \in {"EPERM", "EACCES"}   -> "EPERM"
    [] errno = "EOPNOTSUPP"            -> "EOPNOTSUPP"
    [] OTHER                           -> "EINVAL"

\* The text that goes with a raw error: it depends on the code alone, except
\* that an uncoded error is reported in its own words.
MessageFromError(errno) ==
  CASE CodeFromError(errno) = "ENOENT"     -> "source not found"
    [] CodeFromError(errno) = "EEXIST"     -> "destination already exists"
    [] CodeFromError(errno) = "EOPNOTSUPP" ->
         "reflink is not supported for this source and destination"
    [] CodeFromError(errno) = "EPERM"      -> "permission denied"
    [] OTHER                               -> errno

SuccessResponse == [ok |-> TRUE, code |-> "", msg |-> ""]
FailureResponse(code, msg) == [ok |-> FALSE, code |-> code, msg |-> msg]

ResponseFromError(err) ==
  CASE err.kind = "nil"   -> SuccessResponse
    [] err.kind = "coded" -> FailureResponse(err.code, err.msg)
    [] OTHER -> FailureResponse(CodeFromError(err.code), MessageFromError(err.code))

\* The error of the first case that applies, nil if none does.
FirstError(cases) ==
  LET bad == {i \in DOMAIN cases : cases[i].when}
  IN  IF bad = {} THEN nil
      ELSE LET i == CHOOSE i \in bad : \A j \in bad : i <= j
           IN  NewError("EINVAL", cases[i].msg)

\* A request: the fields of protocol.Request.  src and dst are raw paths (see
\* Paths), token is a string, "" when absent.  Request.Validate looks at the two
\* paths as texts: equal texts are refused, different texts of one path are not.
Validate(r) ==
  FirstError(<<
    [when |-> r.version \notin {1, 2}, msg |-> "unsupported protocol version"],
    [when |-> r.op # "reflink", msg |-> "unsupported operation"],
    [when |-> r.version = 1 /\ r.token # "",
     msg |-> "authentication token requires protocol version 2"],
    [when |-> r.version = 2 /\ r.token = "", msg |-> "authentication token is required"],
    [when |-> r.src = <<"">>, msg |-> "source path is required"],
    [when |-> r.dst = <<"">>, msg |-> "destination path is required"],
    [when |-> r.src = r.dst, msg |-> "source and destination must differ"] >>)
=============================================================================
