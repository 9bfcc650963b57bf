----------------------------- MODULE RpcProofs -----------------------------
(***************************************************************************)
(* Proofs about Rpc, for any number of calls, any requests, any files of the *)
(* daemon and any number of restarts and kills.                             *)
(***************************************************************************)
EXTENDS Rpc, Induction, FiniteSetTheorems, SequenceTheorems, TLAPS

-----------------------------------------------------------------------------
(* The contract of ExclusiveCreate alone, for any calls and destinations.   *)

\* What a call and the names have to do with each other: the call owns its own
\* destination only, from the claim on, and has it for certain if it goes well.
Owns(c) ==
  /\ \A t \in Target : owner[t] = c =>
       t = goal[c] /\ phase[c] \in {"holding", "ok", "failed", "dead"}
  /\ phase[c] \in {"holding", "ok"} => owner[goal[c]] = c

ServiceInv == ServiceTypeOK /\ \A c \in Call : Owns(c)

LEMMA ServiceInitInv == ServiceInit => ServiceInv
BY OwnerAssumption DEF ServiceInit, ServiceInv, ServiceTypeOK, Owns, Phase

LEMMA BeginInv ==
  ASSUME ServiceInv, NEW c \in Call, NEW t \in Target, Begin(c, t)
  PROVE  ServiceInv'
<1>1. ServiceTypeOK'
  BY DEF ServiceInv, ServiceTypeOK, Begin, Becomes, Phase
<1>2. ASSUME NEW d \in Call PROVE Owns(d)'
  <2>1. CASE d = c
    BY <2>1 DEF ServiceInv, ServiceTypeOK, Owns, Begin, Becomes
  <2>2. CASE d # c
    BY <2>2 DEF ServiceInv, ServiceTypeOK, Owns, Begin, Becomes
  <2> QED
    BY <2>1, <2>2
<1> QED
  BY <1>1, <1>2 DEF ServiceInv

LEMMA ExecuteInv ==
  ASSUME ServiceInv, NEW c \in Call, Execute(c)
  PROVE  ServiceInv'
<1>1. ServiceTypeOK'
  BY OwnerAssumption DEF ServiceInv, ServiceTypeOK, Phase, Becomes, Execute, Claim, Occupied,
                         Refuse, Commit, Withdraw, Abandon
<1>2. ASSUME NEW d \in Call PROVE Owns(d)'
  <2>0. goal[c] \in Target /\ goal[d] \in Target /\ goal' = goal
    BY DEF ServiceInv, ServiceTypeOK, Execute, Claim, Occupied, Refuse, Commit, Withdraw,
           Abandon
  <2>1. CASE Claim(c)
    BY <2>0, <2>1, OwnerAssumption DEF ServiceInv, ServiceTypeOK, Owns, Claim, Becomes
  <2>2. CASE Withdraw(c)
    BY <2>0, <2>2, OwnerAssumption DEF ServiceInv, ServiceTypeOK, Owns, Withdraw, Becomes
  <2>3. CASE Occupied(c) \/ Refuse(c)
    BY <2>0, <2>3 DEF ServiceInv, ServiceTypeOK, Owns, Occupied, Refuse, Becomes
  <2>4. CASE Commit(c) \/ Abandon(c)
    BY <2>0, <2>4 DEF ServiceInv, ServiceTypeOK, Owns, Commit, Abandon, Becomes
  <2> QED
    BY <2>1, <2>2, <2>3, <2>4 DEF Execute
<1> QED
  BY <1>1, <1>2 DEF ServiceInv

\* Any set of running calls dies at once.
LEMMA DeathInv ==
  ASSUME ServiceInv, NEW D \in SUBSET {c \in Call : phase[c] \in {"busy", "holding"}},
         phase' = [c \in Call |-> IF c \in D THEN "dead" ELSE phase[c]],
         UNCHANGED <<owner, goal>>
  PROVE  ServiceInv'
BY DEF ServiceInv, ServiceTypeOK, Owns, Phase

LEMMA DieInv ==
  ASSUME ServiceInv, NEW c \in Call, Die(c)
  PROVE  ServiceInv'
BY DEF ServiceInv, ServiceTypeOK, Owns, Phase, Die, Becomes

LEMMA ForeignInv ==
  ASSUME ServiceInv, NEW t \in Target, ForeignTakes(t)
  PROVE  ServiceInv'
BY OwnerAssumption DEF ServiceInv, ServiceTypeOK, Owns, ForeignTakes

\* A call that ended well owns its destination (OkOwns), whatever the other calls
\* and the guests do.
THEOREM OkOwnsAlways == ServiceSpec => []OkOwns
<1>1. ServiceInv /\ [ServiceNext]_servicevars => ServiceInv'
  <2> SUFFICES ASSUME ServiceInv, [ServiceNext]_servicevars PROVE ServiceInv'
    OBVIOUS
  <2>1. CASE UNCHANGED servicevars
    BY <2>1 DEF servicevars, ServiceInv, ServiceTypeOK, Owns
  <2> QED
    BY <2>1, BeginInv, ExecuteInv, DieInv, ForeignInv DEF ServiceNext
<1>2. ServiceInv => OkOwns
  BY DEF ServiceInv, Owns, OkOwns
<1> QED
  BY <1>1, <1>2, ServiceInitInv, PTL DEF ServiceSpec
-----------------------------------------------------------------------------
(* The errors that occur.                                                   *)

Unconfigured == NewError("EINVAL", "token authentication is not configured")
UnknownToken == NewError("EPERM", "invalid authentication token")

\* What Admit says of a request that is valid.
Inadmissible == {Unconfigured, MissingToken, UnknownToken}

\* What the service may return, in the daemon or in a worker.
FromService ==
  {nil, NewError("EEXIST", "destination already exists"),
   NewError("ENOENT", "source not found"),
   NewError("EOPNOTSUPP", "reflink is not supported for this source and destination"),
   Raw("EACCES"), Raw("EIO")}

\* What may come of a request that is admitted: a worker that did not start, a
\* pipe that broke, or what the service returns, coded again if a worker said it.
Outcome ==
  {Raw(errno) : errno \in StartErrors \cup {"EPIPE", "ECHILD"}}
    \cup FromService \cup {NewError("EINVAL", "EIO"), NewError("EPERM", "permission denied")}

PossibleError == {InvalidRequest} \cup Inadmissible \cup Outcome

LEMMA FailureFacts ==
  ASSUME NEW code \in Code, NEW msg \in Message \cup Errno \cup {"permission denied"}
  PROVE  /\ FailureResponse(code, msg) \in Response
         /\ FailureResponse(code, msg) # NoReply
         /\ FailureResponse(code, msg).msg # Hint
         /\ ~FailureResponse(code, msg).ok
<1>1. Hint \notin Message \cup Errno \cup {"permission denied"}
  BY DEF Hint, Message, Errno
<1>2. code # ""
  BY DEF Code
<1> QED
  BY <1>1, <1>2 DEF FailureResponse, Response, NoReply

LEMMA PossibleErrorFacts ==
  /\ nil \in PossibleError /\ InvalidRequest \in PossibleError
  /\ PossibleError \subseteq HandlerError
  /\ \A e \in PossibleError : /\ ResponseFromError(e) \in Response
                              /\ ResponseFromError(e) # NoReply
                              /\ ResponseFromError(e).msg # Hint
                              /\ ResponseFromError(e).ok <=> e = nil
<1>1. ASSUME NEW errno \in Errno
      PROVE  /\ Raw(errno) \in HandlerError
             /\ ResponseFromError(Raw(errno)) \in Response
             /\ ResponseFromError(Raw(errno)) # NoReply
             /\ ResponseFromError(Raw(errno)).msg # Hint
             /\ ~ResponseFromError(Raw(errno)).ok
             /\ Raw(errno) # nil
  <2>1. CodeFromError(errno) \in Code
    BY DEF CodeFromError, Code
  <2>2. MessageFromError(errno) \in Message \cup Errno \cup {"permission denied"}
    BY DEF MessageFromError, Message
  <2>3. ResponseFromError(Raw(errno)) =
          FailureResponse(CodeFromError(errno), MessageFromError(errno))
    BY DEF ResponseFromError, Raw
  <2>4. Raw(errno) \in HandlerError /\ Raw(errno) # nil
    BY DEF Raw, HandlerError, Error, nil
  <2> QED
    BY <2>1, <2>2, <2>3, <2>4, FailureFacts
<1>2. ASSUME NEW code \in Code, NEW msg \in Message \cup Errno \cup {"permission denied"}
      PROVE  /\ NewError(code, msg) \in HandlerError
             /\ ResponseFromError(NewError(code, msg)) \in Response
             /\ ResponseFromError(NewError(code, msg)) # NoReply
             /\ ResponseFromError(NewError(code, msg)).msg # Hint
             /\ ~ResponseFromError(NewError(code, msg)).ok
             /\ NewError(code, msg) # nil
  <2>1. ResponseFromError(NewError(code, msg)) = FailureResponse(code, msg)
    BY DEF ResponseFromError, NewError
  <2>2. NewError(code, msg) \in HandlerError /\ NewError(code, msg) # nil
    BY DEF NewError, HandlerError, nil
  <2> QED
    BY <2>1, <2>2, FailureFacts
<1>3. /\ nil \in HandlerError
      /\ ResponseFromError(nil) \in Response
      /\ ResponseFromError(nil) # NoReply
      /\ ResponseFromError(nil).msg # Hint
      /\ ResponseFromError(nil).ok
  BY DEF nil, HandlerError, Error, ResponseFromError, Response, SuccessResponse, NoReply, Hint
<1>4. ASSUME NEW e \in PossibleError
      PROVE  \/ e = nil
             \/ \E errno \in Errno : e = Raw(errno)
             \/ \E code \in Code, msg \in Message \cup Errno \cup {"permission denied"} :
                  e = NewError(code, msg)
  <2>1. StartErrors \cup {"EPIPE", "ECHILD", "EIO", "EACCES"} \subseteq Errno
    BY RpcAssumption DEF Errno
  <2>2. {"invalid request", "token authentication is not configured",
         "token-authenticated requests require protocol version 2",
         "invalid authentication token", "destination already exists", "source not found",
         "reflink is not supported for this source and destination", "EIO"}
           \subseteq Message \cup Errno
    BY DEF Message, Errno
  <2>3. {"EINVAL", "EPERM", "EEXIST", "ENOENT", "EOPNOTSUPP"} \subseteq Code
    BY DEF Code
  <2> QED
    BY <2>1, <2>2, <2>3 DEF PossibleError, InvalidRequest, Inadmissible, Outcome, FromService,
                            Unconfigured, MissingToken, UnknownToken
<1>5. ASSUME NEW e \in PossibleError
      PROVE  /\ e \in HandlerError
             /\ ResponseFromError(e) \in Response
             /\ ResponseFromError(e) # NoReply
             /\ ResponseFromError(e).msg # Hint
             /\ ResponseFromError(e).ok <=> e = nil
  <2>1. CASE e = nil
    BY <1>3, <2>1
  <2>2. CASE \E errno \in Errno : e = Raw(errno)
    BY <1>1, <2>2
  <2>3. CASE \E code \in Code, msg \in Message \cup Errno \cup {"permission denied"} :
               e = NewError(code, msg)
    BY <1>2, <2>3
  <2> QED
    BY <1>4, <2>1, <2>2, <2>3
<1>6. nil \in PossibleError /\ InvalidRequest \in PossibleError
  BY DEF PossibleError, Outcome, FromService
<1> QED
  BY <1>5, <1>6
-----------------------------------------------------------------------------
(* Who is admitted.                                                         *)

LEMMA ValidateFacts ==
  ASSUME NEW r, Validate(r) = nil
  PROVE  /\ r.version \in {1, 2}
         /\ r.version = 1 => r.token = ""
         /\ r.version = 2 => r.token # ""
<1>1. ASSUME NEW cases, FirstError(cases) = nil
      PROVE  \A i \in DOMAIN cases : ~cases[i].when
  BY <1>1 DEF FirstError, NewError, nil
<1> DEFINE cases == <<
    [when |-> r.version \notin {1, 2}, msg |-> "unsupported protocol version"],
    [when |-> r.op # "reflink", msg |-> "unsupported operation"],
    [when |-> r.version = 1 /\ r.token # "",
     msg |-> "authentication token requires protocol version 2"],
    [when |-> r.version = 2 /\ r.token = "", msg |-> "authentication token is required"],
    [when |-> r.src = <<"">>, msg |-> "source path is required"],
    [when |-> r.dst = <<"">>, msg |-> "destination path is required"],
    [when |-> r.src = r.dst, msg |-> "source and destination must differ"] >>
<1>2. Validate(r) = FirstError(cases)
  BY DEF Validate
<1>3. \A i \in DOMAIN cases : ~cases[i].when
  <2> HIDE DEF cases
  <2> QED
    BY <1>1, <1>2
<1>4. DOMAIN cases = 1 .. 7
  OBVIOUS
<1>5. ~cases[1].when /\ ~cases[3].when /\ ~cases[4].when
  <2> HIDE DEF cases
  <2> QED
    BY <1>3, <1>4
<1> QED
  BY <1>5

LEMMA AdmitFacts ==
  ASSUME NEW r, Validate(r) = nil, NEW map
  PROVE  /\ Admit(map, r) \in {nil} \cup Inadmissible
         /\ Admit(map, r) = nil =>
              IF DOMAIN map = {} THEN r.version = 1
              ELSE r.version = 2 /\ r.token \in DOMAIN map
         /\ Admit(map, r) = MissingToken <=> DOMAIN map # {} /\ r.token = ""
         /\ DOMAIN map = {} /\ r.version = 1 => Admit(map, r) = nil
<1>1. /\ nil \notin Inadmissible
      /\ MissingToken \notin {nil, Unconfigured, UnknownToken}
  BY DEF nil, Inadmissible, Unconfigured, MissingToken, UnknownToken, NewError
<1>2. r.version # 2 <=> r.token = ""
  BY ValidateFacts
<1>3. CASE DOMAIN map = {} /\ r.version = 1
  <2>1. Admit(map, r) = nil
    BY <1>3 DEF Admit
  <2> QED
    BY <1>1, <1>3, <2>1
<1>4. CASE DOMAIN map = {} /\ r.version # 1
  <2>1. Admit(map, r) = Unconfigured
    BY <1>4 DEF Admit, Unconfigured
  <2> QED
    BY <1>1, <1>4, <2>1 DEF Inadmissible
<1>5. CASE DOMAIN map # {}
  <2>1. Admit(map, r) = IF r.version # 2 THEN MissingToken
                        ELSE IF r.token \notin DOMAIN map THEN UnknownToken ELSE nil
    BY <1>5 DEF Admit, MissingToken, UnknownToken
  <2> QED
    BY <1>1, <1>2, <1>5, <2>1 DEF Inadmissible
<1> QED
  BY <1>3, <1>4, <1>5
-----------------------------------------------------------------------------
(* The inductive invariant, part by part.                                   *)

TypeInv ==
  /\ TypeOK
  /\ err \in [Call -> PossibleError]
  /\ cred = [c \in Call |-> cred[c]]

\* What the client knows: it has sent a valid request or none, and what it returns
\* is an error of its own or the reply.
ClientInv(c) ==
  /\ cli[c] # "done" => got[c] = NoAnswer
  /\ cli[c] \in {"idle", "dial", "write"} => ~sent[c]
  /\ cli[c] = "read" => sent[c]
  /\ cli[c] \in {"dial", "write"} \/ sent[c] => Validate(req[c]) = nil
  /\ got[c].from # "daemon" => ~got[c].ok
  /\ got[c].from # "daemon" /\ Refusal(got[c]) => ~sent[c]
  /\ got[c].from = "daemon" =>
       sent[c] /\ reply[c] # NoReply /\ got[c] = Remote(reply[c])

\* The reply is what the handler has come to.
ReplyInv(c) ==
  reply[c] # NoReply => handler[c] = "done" /\ reply[c] = ResponseFromError(err[c])

\* The worker's answer is what the service has come to.
WorkerInv(c) ==
  /\ stdout[c] # NoReply =>
       /\ wk[c] \in {"exiting", "exited", "killed"}
       /\ stdout[c] \in {ResponseFromError(e) : e \in FromService}
       /\ stdout[c].ok => phase[c] = "ok"
       /\ stdout[c].code = "EEXIST" => phase[c] = "exists"
  /\ handler[c] = "wait" => stdout[c] # NoReply

\* Before a request is dispatched nothing has been done for it, and nothing is if
\* it never came.
Undispatched(c) ==
  /\ handler[c] \in {"none", "read", "dispatch", "answer", "done", "dead"}
  /\ handler[c] \in {"answer", "done"} => err[c] = InvalidRequest
  /\ phase[c] = "idle" /\ wk[c] = "none"

ServedMap(c) == TokenMap(served[c].tokens)
Admission(c) == Admit(ServedMap(c), req[c])

Inadmitted(c) ==
  /\ handler[c] \in {"answer", "done", "dead"}
  /\ handler[c] # "dead" => err[c] = Admission(c)
  /\ phase[c] = "idle" /\ wk[c] = "none"

\* An admitted request is served in the daemon if there are no tokens, else by a
\* worker with the token's credentials, or not at all.
Admitted(c) ==
  /\ IF DOMAIN ServedMap(c) = {}
     THEN /\ handler[c] \in {"inProcess", "answer", "done", "dead"}
          /\ phase[c] # "idle" /\ wk[c] = "none"
     ELSE \/ /\ handler[c] \in {"answer", "done", "dead"}
             /\ phase[c] = "idle" /\ wk[c] = "none"
          \/ /\ handler[c] \in {"stdin", "stdout", "wait", "answer", "done", "dead"}
             /\ wk[c] # "none"
             /\ wk[c] = "read" => phase[c] = "idle"
             /\ cred[c] = CredentialForIdentity(ServedMap(c)[req[c].token], Current)
  /\ phase[c] # "idle" => goal[c] = req[c].dst
  /\ handler[c] \in {"answer", "done"} =>
       /\ err[c] \in Outcome
       /\ err[c] = nil => phase[c] = "ok"
       /\ ResponseFromError(err[c]).msg # "invalid authentication token"
       /\ ResponseFromError(err[c]).code = "EEXIST" =>
            phase[c] = "exists" \/ (phase[c] = "idle" /\ wk[c] = "none")

HandlerInv(c) ==
  /\ handler[c] \in {"none", "read", "dispatch"} => served[c] = Bad
  /\ handler[c] = "dispatch" => sent[c]
  /\ served[c] = Bad => Undispatched(c)
  /\ served[c] # Bad =>
       /\ sent[c]
       /\ StartsWith(served[c])
       /\ Admission(c) # nil => Inadmitted(c)
       /\ Admission(c) = nil => Admitted(c)

\* A daemon that runs has a configuration to run with, and handlers die with it.
DaemonInv ==
  /\ daemon \in {"up", "cancelled", "closed"} => config # Bad /\ StartsWith(config)
  /\ \A c \in Call : Running(c) => daemon \in {"up", "cancelled", "closed"}

CallInv(c) == ClientInv(c) /\ ReplyInv(c) /\ WorkerInv(c) /\ HandlerInv(c)

CoreInv == TypeInv /\ ServiceInv /\ DaemonInv /\ \A c \in Call : CallInv(c)

\* A connection is made once, and served once.
LineInv(c) ==
  /\ cli[c] = "idle" => dialer[c] = "none" /\ srvEnd[c] = "none"
  /\ dialer[c] = "running" => srvEnd[c] = "none"
  /\ srvEnd[c] \in {"none", "backlog"} => handler[c] = "none"

Inv == CoreInv /\ \A c \in Call : LineInv(c)
-----------------------------------------------------------------------------
USE DEF clientvars, wirevars, hostvars, workervars, servicevars, settings, bounds, Sets

LEMMA AnswerTypes ==
  /\ \A what \in LocalError : Local(what) \in Result
  /\ \A resp \in Response : Remote(resp) \in Result
BY DEF Result

LEMMA ReturnType ==
  ASSUME TypeInv, NEW c \in Call, NEW answer \in Result, Return(c, answer)
  PROVE  /\ cli' \in [Call -> {"idle", "dial", "write", "read", "done"}]
         /\ got' \in [Call -> Result]
         /\ cliEnd' \in [Call -> {"none", "open", "closed"}]
BY DEF TypeInv, TypeOK, Return

LEMMA ClientType ==
  ASSUME TypeInv, NEW c \in Call, ClientStep(c) \/ DialerStep(c)
  PROVE  TypeInv'
<1>. USE DEF TypeInv, TypeOK
<1>0. /\ err' = err /\ cred' = cred /\ UNCHANGED <<owner, phase, goal>>
      /\ UNCHANGED <<config, timeout, reply, daemon, handler, served, wk, stdin, stdout, exits,
                     kills>>
  BY DEF ClientStep, DialerStep, Do, DialResult, DialDeadline, WriteRequest, ReadResponse,
         Deadline, Connected, Refused, Drain
<1>1. /\ cli' \in [Call -> {"idle", "dial", "write", "read", "done"}]
      /\ got' \in [Call -> Result]
      /\ cliEnd' \in [Call -> {"none", "open", "closed"}]
  <2>1. CASE Do(c)
    BY <2>1, ReturnType, AnswerTypes DEF Do, LocalError
  <2>2. CASE DialResult(c)
    BY <2>2, ReturnType, AnswerTypes DEF DialResult, LocalError
  <2>3. CASE DialDeadline(c) \/ Deadline(c)
    BY <2>3, ReturnType, AnswerTypes DEF DialDeadline, Deadline, LocalError
  <2>4. CASE WriteRequest(c)
    BY <2>4, ReturnType, AnswerTypes DEF WriteRequest, LocalError
  <2>5. CASE ReadResponse(c)
    <3>1. reply[c] \in Response
      OBVIOUS
    <3> QED
      BY <2>5, <3>1, ReturnType, AnswerTypes DEF ReadResponse, LocalError
  <2>6. CASE DialerStep(c)
    BY <2>6 DEF DialerStep, Connected, Refused, Drain
  <2> QED
    BY <2>1, <2>2, <2>3, <2>4, <2>5, <2>6 DEF ClientStep
<1>2. /\ dialer' \in [Call -> {"none", "running", "connected", "refused"}]
      /\ srvEnd' \in [Call -> {"none", "backlog", "open", "closed"}]
  BY DEF ClientStep, DialerStep, Do, DialResult, DialDeadline, WriteRequest, ReadResponse,
         Deadline, Connected, Refused, Drain
<1>3. req' \in [Call -> Request]
  <2>1. req' = req \/ \E r \in Request : req' = [req EXCEPT ![c] = r]
    BY DEF ClientStep, DialerStep, Do, DialResult, DialDeadline, WriteRequest, ReadResponse,
           Deadline, Connected, Refused, Drain
  <2> QED
    BY <2>1
<1>4. sent' \in [Call -> BOOLEAN]
  <2>1. sent' = sent \/ sent' = [sent EXCEPT ![c] = TRUE]
    BY DEF ClientStep, DialerStep, Do, DialResult, DialDeadline, WriteRequest, ReadResponse,
           Deadline, Connected, Refused, Drain
  <2> QED
    BY <2>1
<1> QED
  BY <1>0, <1>1, <1>2, <1>3, <1>4 DEF ServiceTypeOK

LEMMA NilFields ==
  /\ ResponseFromError(nil).ok
  /\ ResponseFromError(nil).code = ""
  /\ ResponseFromError(nil).msg = ""
BY DEF ResponseFromError, nil, SuccessResponse

LEMMA CodedFields ==
  ASSUME NEW code, NEW msg
  PROVE  /\ ~ResponseFromError(NewError(code, msg)).ok
         /\ ResponseFromError(NewError(code, msg)).code = code
         /\ ResponseFromError(NewError(code, msg)).msg = msg
         /\ NewError(code, msg) # nil
<1>1. ResponseFromError(NewError(code, msg)) = FailureResponse(code, msg)
  BY DEF ResponseFromError, NewError
<1>2. NewError(code, msg) # nil
  BY DEF NewError, nil
<1> QED
  BY <1>1, <1>2 DEF FailureResponse

LEMMA RawFields ==
  ASSUME NEW errno
  PROVE  /\ ~ResponseFromError(Raw(errno)).ok
         /\ ResponseFromError(Raw(errno)).code = CodeFromError(errno)
         /\ ResponseFromError(Raw(errno)).msg = MessageFromError(errno)
         /\ Raw(errno) # nil
<1>1. ResponseFromError(Raw(errno)) =
        FailureResponse(CodeFromError(errno), MessageFromError(errno))
  BY DEF ResponseFromError, Raw
<1>2. Raw(errno) # nil
  BY DEF Raw, nil
<1> QED
  BY <1>1, <1>2 DEF FailureResponse

LEMMA UnknownErrno ==
  ASSUME NEW errno \in {"EIO", "EPIPE", "ECHILD"}
  PROVE  CodeFromError(errno) = "EINVAL" /\ MessageFromError(errno) = errno
BY DEF CodeFromError, MessageFromError

LEMMA NoAccess ==
  CodeFromError("EACCES") = "EPERM" /\ MessageFromError("EACCES") = "permission denied"
BY DEF CodeFromError, MessageFromError

LEMMA ServiceErrorFacts ==
  ASSUME NEW c, NEW e \in ServiceError(c)
  PROVE  /\ e \in FromService
         /\ e = nil => phase[c] = "ok"
         /\ ResponseFromError(e).ok => phase[c] = "ok"
         /\ ResponseFromError(e).code = "EEXIST" => phase[c] = "exists"
         /\ ResponseFromError(e).msg # "invalid authentication token"
         /\ phase[c] \in {"ok", "exists", "failed"}
<1>1. \/ phase[c] = "ok" /\ e = nil
      \/ phase[c] = "exists" /\ e = NewError("EEXIST", "destination already exists")
      \/ /\ phase[c] = "failed"
         /\ e \in {NewError("ENOENT", "source not found"),
                   NewError("EOPNOTSUPP",
                            "reflink is not supported for this source and destination"),
                   Raw("EACCES"), Raw("EIO")}
  BY DEF ServiceError
<1>2. e \in FromService
  BY <1>1 DEF FromService
<1>3. CASE e = nil
  <2>1. ResponseFromError(e).code = "" /\ ResponseFromError(e).msg = ""
    BY <1>3, NilFields
  <2>2. phase[c] = "ok"
    BY <1>1, <1>3 DEF nil, NewError, Raw
  <2> QED
    BY <1>2, <2>1, <2>2
<1>4. CASE e = Raw("EIO") \/ e = Raw("EACCES")
  <2>1. e # nil /\ e # NewError("EEXIST", "destination already exists")
    <3>1. \A errno : Raw(errno).kind = "raw"
      BY DEF Raw
    <3>2. nil.kind = "nil" /\ NewError("EEXIST", "destination already exists").kind = "coded"
      BY DEF nil, NewError
    <3> QED
      BY <1>4, <3>1, <3>2
  <2>2. phase[c] = "failed"
    BY <1>1, <2>1, Zenon
  <2> QED
    BY <1>2, <1>4, <2>2, RawFields, UnknownErrno, NoAccess
<1>5. ASSUME NEW code \in {"EEXIST", "ENOENT", "EOPNOTSUPP"},
             NEW msg \in {"destination already exists", "source not found",
                          "reflink is not supported for this source and destination"},
             e = NewError(code, msg),
             code = "EEXIST" => phase[c] = "exists", phase[c] \in {"exists", "failed"}
      PROVE  /\ e # nil
             /\ ~ResponseFromError(e).ok
             /\ ResponseFromError(e).code = "EEXIST" => phase[c] = "exists"
             /\ ResponseFromError(e).msg # "invalid authentication token"
  BY <1>5, CodedFields
<1> QED
  BY <1>1, <1>2, <1>3, <1>4, <1>5

\* What commandWorker.Execute makes of the worker's answer.
Recoded(resp) == IF resp.ok THEN nil ELSE NewError(resp.code, resp.msg)

LEMMA RecodedFacts ==
  ASSUME NEW resp \in {ResponseFromError(e) : e \in FromService}
  PROVE  /\ Recoded(resp) \in Outcome
         /\ Recoded(resp) = nil => resp.ok
         /\ ResponseFromError(Recoded(resp)).code = resp.code
         /\ ResponseFromError(Recoded(resp)).msg = resp.msg
         /\ resp.msg # "invalid authentication token"
         /\ resp \in Response /\ resp # NoReply
<1>1. resp \in Response /\ resp # NoReply
  BY PossibleErrorFacts DEF PossibleError, Outcome
<1>2. PICK e \in FromService : resp = ResponseFromError(e)
  OBVIOUS
<1>. DEFINE Goal == /\ Recoded(resp) \in Outcome
                    /\ Recoded(resp) = nil => resp.ok
                    /\ ResponseFromError(Recoded(resp)).code = resp.code
                    /\ ResponseFromError(Recoded(resp)).msg = resp.msg
                    /\ resp.msg # "invalid authentication token"
<1>3. ASSUME e = nil PROVE Goal
  <2>1. Recoded(resp) = nil /\ resp.ok
    BY <1>2, <1>3, NilFields DEF Recoded
  <2>2. /\ resp.code = "" /\ ResponseFromError(Recoded(resp)).code = ""
        /\ resp.msg = "" /\ ResponseFromError(Recoded(resp)).msg = ""
    BY <1>2, <1>3, <2>1, NilFields
  <2>3. nil \in Outcome
    BY DEF Outcome, FromService
  <2> QED
    BY <2>1, <2>2, <2>3
<1>4. ASSUME NEW code \in {"EEXIST", "ENOENT", "EOPNOTSUPP"},
             NEW msg \in {"destination already exists", "source not found",
                          "reflink is not supported for this source and destination"},
             e = NewError(code, msg)
      PROVE  Goal
  <2>1. ~resp.ok /\ resp.code = code /\ resp.msg = msg /\ e # nil
    BY <1>2, <1>4, CodedFields
  <2>2. Recoded(resp) = e
    BY <1>4, <2>1 DEF Recoded
  <2> QED
    BY <1>2, <1>4, <2>1, <2>2 DEF Outcome
<1>5. ASSUME e = Raw("EIO") PROVE Goal
  <2>1. ~resp.ok /\ resp.code = "EINVAL" /\ resp.msg = "EIO"
    BY <1>2, <1>5, RawFields, UnknownErrno
  <2>2. Recoded(resp) = NewError("EINVAL", "EIO")
    BY <2>1 DEF Recoded
  <2>3. NewError("EINVAL", "EIO") \in Outcome
    BY DEF Outcome
  <2> QED
    BY <2>1, <2>2, <2>3, CodedFields
<1>6. ASSUME e = Raw("EACCES") PROVE Goal
  <2>1. ~resp.ok /\ resp.code = "EPERM" /\ resp.msg = "permission denied"
    BY <1>2, <1>6, RawFields, NoAccess
  <2>2. Recoded(resp) = NewError("EPERM", "permission denied")
    BY <2>1 DEF Recoded
  <2>3. NewError("EPERM", "permission denied") \in Outcome
    BY DEF Outcome
  <2>. DEFINE denied == NewError("EPERM", "permission denied")
  <2>4. /\ ResponseFromError(denied).code = "EPERM" /\ denied # nil
        /\ ResponseFromError(denied).msg = "permission denied"
    BY CodedFields, Zenon
  <2> QED
    BY <2>1, <2>2, <2>3, <2>4
<1>7. \/ e = nil \/ e = Raw("EIO") \/ e = Raw("EACCES")
      \/ \E code \in {"EEXIST", "ENOENT", "EOPNOTSUPP"},
            msg \in {"destination already exists", "source not found",
                    "reflink is not supported for this source and destination"} :
           e = NewError(code, msg)
  BY DEF FromService
<1> QED
  BY <1>1, <1>3, <1>4, <1>5, <1>6, <1>7

HandlerTyped ==
  /\ err \in [Call -> PossibleError]
  /\ err \in [Call -> HandlerError]
  /\ handler \in [Call -> {"none", "read", "dispatch", "inProcess", "stdin", "stdout",
                           "wait", "answer", "done", "dead"}]

\* What the handler of a call answers is one of the errors that occur.
LEMMA AnswersType ==
  ASSUME TypeInv, NEW c \in Call, NEW e \in PossibleError, Answers(c, e)
  PROVE  HandlerTyped'
BY PossibleErrorFacts DEF TypeInv, TypeOK, Answers, HandlerTyped

LEMMA HandlerType ==
  ASSUME Inv, NEW c \in Call, HandlerStep(c), ServiceTypeOK'
  PROVE  TypeInv'
<1>0. /\ TypeInv /\ TypeOK /\ CallInv(c)
      /\ \A errno \in StartErrors \cup {"EPIPE", "ECHILD"} : Raw(errno) \in PossibleError
      /\ FromService \subseteq PossibleError
      /\ Inadmissible \subseteq PossibleError
      /\ Outcome \subseteq PossibleError
      /\ err \in [Call -> PossibleError]
      /\ PossibleError \subseteq HandlerError
  BY PossibleErrorFacts DEF Inv, CoreInv, TypeInv, PossibleError, Outcome
<1>1. UNCHANGED <<cli, got, dialer, cliEnd, req, sent, daemon, stdout, config, timeout, exits,
                  kills>>
  BY DEF HandlerStep, Accept, ReadRequest, Dispatch, EndInProcess, WriteStdin, ReadStdout, Wait,
         Answer
<1>2. HandlerTyped'
  <2>1. ASSUME err' = err, NEW to \in {"read", "dispatch", "inProcess", "stdin", "stdout", "wait",
                                       "done"}, handler' = [handler EXCEPT ![c] = to]
        PROVE  HandlerTyped'
    BY <1>0, <2>1 DEF TypeOK, HandlerTyped
  <2>2. CASE Accept(c) \/ Answer(c)
    BY <2>1, <2>2 DEF Accept, Answer
  <2>3. CASE ReadRequest(c)
    BY <1>0, <2>1, <2>3, AnswersType, PossibleErrorFacts DEF ReadRequest
  <2>4. CASE Dispatch(c)
    <3>1. sent[c] /\ Validate(req[c]) = nil
      BY <1>0, <2>4 DEF CallInv, HandlerInv, ClientInv, Dispatch
    <3>2. Admit(Tokens, req[c]) \in {nil} \cup Inadmissible
      BY <3>1, AdmitFacts
    <3>3. CASE \E e \in PossibleError : Answers(c, e)
      BY <1>0, <3>3, AnswersType
    <3> QED
      BY <1>0, <2>1, <2>4, <3>2, <3>3 DEF Dispatch
  <2>5. CASE EndInProcess(c)
    BY <1>0, <2>5, AnswersType, ServiceErrorFacts DEF EndInProcess
  <2>6. CASE WriteStdin(c) \/ ReadStdout(c)
    BY <1>0, <2>1, <2>6, AnswersType DEF WriteStdin, ReadStdout
  <2>7. CASE Wait(c)
    <3>1. CASE Answers(c, Raw("ECHILD"))
      BY <1>0, <3>1, AnswersType
    <3>2. CASE Answers(c, Recoded(stdout[c]))
      <4>1. stdout[c] \in {ResponseFromError(e) : e \in FromService}
        BY <1>0, <2>7 DEF CallInv, WorkerInv, Wait
      <4>2. Recoded(stdout[c]) \in PossibleError
        BY <1>0, <4>1, RecodedFacts
      <4> QED
        BY <1>0, <3>2, <4>2, AnswersType
    <3> QED
      BY <2>7, <3>1, <3>2 DEF Wait, Recoded
  <2> QED
    BY <2>2, <2>3, <2>4, <2>5, <2>6, <2>7 DEF HandlerStep
<1>3. reply' \in [Call -> Response]
  <2>1. reply' = reply \/ reply' = [reply EXCEPT ![c] = ResponseFromError(err[c])]
    BY DEF HandlerStep, Accept, ReadRequest, Dispatch, EndInProcess, WriteStdin, ReadStdout, Wait,
           Answer
  <2>2. ResponseFromError(err[c]) \in Response
    BY <1>0, PossibleErrorFacts
  <2> QED
    BY <1>0, <2>1, <2>2 DEF TypeOK
<1>4. srvEnd' \in [Call -> {"none", "backlog", "open", "closed"}]
  <2>1. srvEnd' = srvEnd \/ \E s \in {"open", "closed"} : srvEnd' = [srvEnd EXCEPT ![c] = s]
    BY DEF HandlerStep, Accept, ReadRequest, Dispatch, EndInProcess, WriteStdin, ReadStdout, Wait,
           Answer
  <2> QED
    BY <1>0, <2>1 DEF TypeOK
<1>5. /\ wk' \in [Call -> {"none", "read", "execute", "exiting", "exited", "killed"}]
      /\ cred' = [d \in Call |-> cred'[d]]
  <2>1. \/ wk' = wk /\ cred' = cred
        \/ /\ wk' = [wk EXCEPT ![c] = "read"]
           /\ \E k : cred' = [cred EXCEPT ![c] = k]
    BY DEF HandlerStep, Accept, ReadRequest, Dispatch, EndInProcess, WriteStdin, ReadStdout, Wait,
           Answer
  <2> QED
    BY <1>0, <2>1 DEF TypeInv, TypeOK
<1>6. stdin' \in [Call -> BOOLEAN]
  <2>1. stdin' = stdin \/ stdin' = [stdin EXCEPT ![c] = TRUE]
    BY DEF HandlerStep, Accept, ReadRequest, Dispatch, EndInProcess, WriteStdin, ReadStdout, Wait,
           Answer
  <2> QED
    BY <1>0, <2>1 DEF TypeOK
<1>7. served' \in [Call -> Loaded \cup {Bad}]
  <2>1. served' = served \/ served' = [served EXCEPT ![c] = config]
    BY DEF HandlerStep, Accept, ReadRequest, Dispatch, EndInProcess, WriteStdin, ReadStdout, Wait,
           Answer
  <2> QED
    BY <1>0, <2>1 DEF TypeOK
<1> QED
  BY <1>0, <1>1, <1>2, <1>3, <1>4, <1>5, <1>6, <1>7 DEF TypeInv, TypeOK, HandlerTyped
-----------------------------------------------------------------------------
(* What a step leaves alone.                                                *)

ClientSame(c) ==
  cli'[c] = cli[c] /\ got'[c] = got[c] /\ req'[c] = req[c] /\ sent'[c] = sent[c]

HandlerSame(c) == handler'[c] = handler[c] /\ err'[c] = err[c] /\ served'[c] = served[c]

WorkerSame(c) ==
  wk'[c] = wk[c] /\ stdout'[c] = stdout[c] /\ cred'[c] = cred[c]

ServiceSame(c) == phase'[c] = phase[c] /\ goal'[c] = goal[c]

LEMMA ClientFrame ==
  ASSUME NEW c, ClientInv(c), ClientSame(c), reply'[c] = reply[c]
  PROVE  ClientInv(c)'
BY DEF ClientInv, ClientSame

LEMMA ReplyFrame ==
  ASSUME NEW c, ReplyInv(c), HandlerSame(c), reply'[c] = reply[c]
  PROVE  ReplyInv(c)'
BY DEF ReplyInv, HandlerSame

LEMMA WorkerFrame ==
  ASSUME NEW c, WorkerInv(c), handler'[c] = handler[c], WorkerSame(c), ServiceSame(c)
  PROVE  WorkerInv(c)'
BY DEF WorkerInv, WorkerSame, ServiceSame

LEMMA HandlerFrame ==
  ASSUME NEW c, HandlerInv(c), req'[c] = req[c], sent'[c] = sent[c], HandlerSame(c),
         WorkerSame(c), ServiceSame(c)
  PROVE  HandlerInv(c)'
BY DEF HandlerInv, Undispatched, Inadmitted, Admitted, Admission, ServedMap, HandlerSame,
       WorkerSame, ServiceSame

LEMMA CallFrame ==
  ASSUME NEW c, CallInv(c), ClientSame(c), reply'[c] = reply[c], HandlerSame(c), WorkerSame(c),
         ServiceSame(c)
  PROVE  CallInv(c)'
<1>1. ClientInv(c)'
  BY ClientFrame DEF CallInv
<1>2. ReplyInv(c)'
  BY ReplyFrame DEF CallInv
<1>3. WorkerInv(c)'
  BY WorkerFrame DEF CallInv, HandlerSame
<1>4. HandlerInv(c)'
  BY HandlerFrame DEF CallInv, ClientSame
<1> QED
  BY <1>1, <1>2, <1>3, <1>4 DEF CallInv

\* A step of one call touches no other.
Elsewhere(c) ==
  \A d \in Call \ {c} : /\ ClientSame(d) /\ reply'[d] = reply[d] /\ HandlerSame(d)
                        /\ WorkerSame(d) /\ ServiceSame(d)

LEMMA OnlyOne ==
  ASSUME Inv, NEW c \in Call, Elsewhere(c), CallInv(c)'
  PROVE  \A d \in Call : CallInv(d)'
<1> SUFFICES ASSUME NEW d \in Call, d # c PROVE CallInv(d)'
  OBVIOUS
<1> QED
  BY CallFrame DEF Inv, CoreInv, Elsewhere

LEMMA ServiceFrame ==
  ASSUME ServiceInv, UNCHANGED <<owner, phase, goal>>
  PROVE  ServiceInv'
BY DEF ServiceInv, ServiceTypeOK, Owns

LEMMA DaemonFrame ==
  ASSUME DaemonInv, UNCHANGED <<config, daemon, handler>>
  PROVE  DaemonInv'
BY DEF DaemonInv, Running
-----------------------------------------------------------------------------
(* The client.                                                              *)

\* What a return of Do does to the client's part, if the answer is an error of its
\* own.
LEMMA LocalReturn ==
  ASSUME Inv, NEW c \in Call, NEW what \in LocalError, Return(c, Local(what)), cli[c] # "done",
         UNCHANGED <<req, sent, reply>>,
         Refusal(Local(what)) => cli[c] \in {"idle", "dial", "write"}
  PROVE  ClientInv(c)'
<1>1. /\ ClientInv(c)
      /\ cli'[c] = "done"
      /\ got'[c] = Local(what)
  BY DEF Inv, CoreInv, TypeInv, TypeOK, CallInv, Return
<1>2. Local(what).from = "client" /\ ~Local(what).ok
  BY DEF Local
<1> QED
  BY <1>1, <1>2 DEF ClientInv

LEMMA ClientKept ==
  ASSUME Inv, NEW c \in Call, ClientStep(c) \/ DialerStep(c)
  PROVE  CoreInv'
<1>1. /\ UNCHANGED <<owner, phase, goal, config, daemon, handler, err, served, wk, stdin, stdout,
                     cred, reply>>
  BY DEF ClientStep, DialerStep, Do, DialResult, DialDeadline, WriteRequest, ReadResponse,
         Deadline, Connected, Refused, Drain
<1>2. /\ TypeInv /\ TypeOK /\ ServiceInv /\ DaemonInv /\ CallInv(c)
      /\ ClientInv(c) /\ ReplyInv(c) /\ WorkerInv(c) /\ HandlerInv(c)
  BY DEF Inv, CoreInv, TypeInv, CallInv
<1>3. TypeInv' /\ ServiceInv' /\ DaemonInv'
  BY <1>1, <1>2, ClientType, ServiceFrame, DaemonFrame
<1>4. ASSUME NEW d \in Call, d # c PROVE ClientSame(d)
  BY <1>2, <1>4 DEF TypeOK, ClientSame, Return, ClientStep, DialerStep, Do, DialResult,
         DialDeadline, WriteRequest, ReadResponse, Deadline, Connected, Refused, Drain
<1>5. Elsewhere(c)
  BY <1>1, <1>4 DEF Elsewhere, HandlerSame, WorkerSame, ServiceSame
<1>6. ReplyInv(c)' /\ WorkerInv(c)'
  BY <1>1, <1>2, ReplyFrame, WorkerFrame DEF HandlerSame, WorkerSame, ServiceSame
<1>7. ClientInv(c)'
  <2>1. CASE Do(c)
    <3>1. ASSUME NEW r \in Request, Validate(r) = nil, cli' = Sets(cli, c, "dial"),
                 req' = Sets(req, c, r), UNCHANGED <<got, cliEnd, sent>>
          PROVE  ClientInv(c)'
      BY <1>1, <1>2, <2>1, <3>1 DEF ClientInv, Do, TypeOK, NoAnswer
    <3> QED
      BY <1>1, <2>1, <3>1, LocalReturn DEF Do, LocalError
  <2>2. CASE DialResult(c)
    <3>1. CASE cli' = Sets(cli, c, "write") /\ UNCHANGED <<got, cliEnd>>
      BY <1>1, <1>2, <2>2, <3>1 DEF ClientInv, DialResult, TypeOK, NoAnswer
    <3> QED
      BY <1>1, <2>2, <3>1, LocalReturn DEF DialResult, LocalError
  <2>3. CASE DialDeadline(c)
    BY <1>1, <2>3, LocalReturn DEF DialDeadline, LocalError
  <2>4. CASE WriteRequest(c)
    <3>1. CASE sent' = Sets(sent, c, TRUE) /\ cli' = Sets(cli, c, "read") /\ UNCHANGED <<got, req>>
      <4>1. cli'[c] = "read" /\ sent'[c] /\ got'[c] = NoAnswer /\ Validate(req'[c]) = nil
        BY <1>2, <2>4, <3>1 DEF ClientInv, WriteRequest, TypeOK
      <4>2. NoAnswer.from = "nobody" /\ ~NoAnswer.ok /\ ~Refusal(NoAnswer)
        BY DEF NoAnswer, Refusal
      <4> QED
        BY <4>1, <4>2 DEF ClientInv
    <3> QED
      BY <1>1, <2>4, <3>1, LocalReturn DEF WriteRequest, LocalError
  <2>5. CASE ReadResponse(c)
    <3>1. CASE reply[c] # NoReply /\ Return(c, Remote(reply[c])) /\ UNCHANGED <<req, sent>>
      BY <1>1, <1>2, <2>5, <3>1 DEF ClientInv, ReadResponse, Return, TypeOK, Remote
    <3>2. ~Refusal(Local("unexpected EOF"))
      BY DEF Refusal, Local
    <3> QED
      BY <1>1, <2>5, <3>1, <3>2, LocalReturn DEF ReadResponse, LocalError
  <2>6. CASE Deadline(c)
    <3>1. ~Refusal(Local("i/o timeout"))
      BY DEF Refusal, Local
    <3> QED
      BY <1>1, <2>6, <3>1, LocalReturn DEF Deadline, LocalError
  <2>7. CASE DialerStep(c)
    <3>1. ClientSame(c)
      BY <2>7 DEF DialerStep, Connected, Refused, Drain, ClientSame
    <3> QED
      BY <1>1, <1>2, <3>1, ClientFrame
  <2> QED
    BY <2>1, <2>2, <2>3, <2>4, <2>5, <2>6, <2>7 DEF ClientStep
<1>8. HandlerInv(c)'
  <2>1. \/ req'[c] = req[c]
        \/ ~sent[c] /\ sent' = sent
    BY <1>2 DEF ClientInv, ClientStep, DialerStep, Do, DialResult, DialDeadline, WriteRequest,
           ReadResponse, Deadline, Connected, Refused, Drain
  <2>2. sent[c] => sent'[c]
    BY <1>2 DEF TypeOK, ClientStep, DialerStep, Do, DialResult, DialDeadline, WriteRequest,
           ReadResponse, Deadline, Connected, Refused, Drain
  <2>3. CASE served[c] = Bad
    BY <1>1, <1>2, <2>2, <2>3 DEF HandlerInv, Undispatched
  <2>4. CASE served[c] # Bad
    <3>1. sent[c] /\ sent'[c] /\ req'[c] = req[c]
      BY <1>2, <2>1, <2>2, <2>4 DEF HandlerInv
    <3> QED
      BY <1>1, <1>2, <2>4, <3>1 DEF HandlerInv, Inadmitted, Admitted, Admission, ServedMap
  <2> QED
    BY <2>3, <2>4
<1> QED
  BY <1>3, <1>5, <1>6, <1>7, <1>8, OnlyOne DEF CoreInv, CallInv
-----------------------------------------------------------------------------
(* The handler.                                                             *)

LEMMA HandlerElsewhere ==
  ASSUME TypeInv, ServiceTypeOK, NEW c \in Call, HandlerStep(c)
  PROVE  Elsewhere(c)
<1>1. UNCHANGED <<cli, got, req, sent, stdout>>
  BY DEF HandlerStep, Accept, ReadRequest, Dispatch, EndInProcess, WriteStdin, ReadStdout, Wait,
         Answer
<1>2. ASSUME NEW d \in Call \ {c}
      PROVE  handler'[d] = handler[d] /\ err'[d] = err[d]
  BY DEF TypeInv, TypeOK, HandlerStep, Accept, ReadRequest, Dispatch, EndInProcess, WriteStdin,
         ReadStdout, Wait, Answer, Answers
<1>3. ASSUME NEW d \in Call \ {c}
      PROVE  served'[d] = served[d] /\ wk'[d] = wk[d] /\ cred'[d] = cred[d]
             /\ reply'[d] = reply[d]
  BY DEF TypeInv, TypeOK, HandlerStep, Accept, ReadRequest, Dispatch, EndInProcess, WriteStdin,
         ReadStdout, Wait, Answer
<1>4. ASSUME NEW d \in Call \ {c}
      PROVE  phase'[d] = phase[d] /\ goal'[d] = goal[d]
  BY DEF ServiceTypeOK, HandlerStep, Accept, ReadRequest, Dispatch, EndInProcess, WriteStdin,
         ReadStdout, Wait, Answer, Begin, Becomes
<1> QED
  BY <1>1, <1>2, <1>3, <1>4 DEF Elsewhere, ClientSame, HandlerSame, WorkerSame, ServiceSame

\* The steps of a handler but Dispatch and Answer.
LEMMA PlainKept ==
  ASSUME Inv, NEW c \in Call,
         \/ Accept(c) \/ ReadRequest(c) \/ EndInProcess(c) \/ WriteStdin(c)
         \/ ReadStdout(c) \/ Wait(c)
  PROVE  CallInv(c)'
<1>1. UNCHANGED <<cli, got, req, sent, reply, served, wk, stdout, cred, phase, goal>>
  BY DEF Accept, ReadRequest, EndInProcess, WriteStdin, ReadStdout, Wait
<1>2. /\ TypeInv /\ TypeOK /\ LineInv(c)
      /\ ClientInv(c) /\ ReplyInv(c) /\ WorkerInv(c) /\ HandlerInv(c)
      /\ err \in [Call -> PossibleError]
  BY DEF Inv, CoreInv, TypeInv, CallInv
<1>3. ClientInv(c)'
  BY <1>1, <1>2, ClientFrame DEF ClientSame
<1>4. ReplyInv(c)'
  <2>1. handler[c] # "done"
    BY <1>2 DEF LineInv, Accept, ReadRequest, EndInProcess, WriteStdin, ReadStdout, Wait
  <2> QED
    BY <1>1, <1>2, <2>1 DEF ReplyInv
<1>5. WorkerInv(c)'
  <2>1. handler'[c] = "wait" => stdout[c] # NoReply
    BY <1>2 DEF TypeOK, Accept, ReadRequest, EndInProcess, WriteStdin, ReadStdout, Wait, Answers
  <2> QED
    BY <1>1, <1>2, <2>1 DEF WorkerInv
<1>6. HandlerInv(c)'
  <2>1. CASE Accept(c)
    BY <1>1, <1>2, <2>1 DEF Accept, HandlerInv, LineInv, TypeOK, Undispatched
  <2>2. CASE ReadRequest(c)
    BY <1>1, <1>2, <2>2 DEF ReadRequest, HandlerInv, TypeOK, Undispatched, Answers
  <2>3. ASSUME handler[c] \in {"inProcess", "stdin", "stdout", "wait"}
        PROVE  served[c] # Bad /\ Admission(c) = nil /\ Admitted(c)
    BY <1>2, <2>3 DEF HandlerInv, Undispatched, Inadmitted
  <2>4. ASSUME handler[c] \in {"stdin", "stdout"}, handler'[c] \in {"stdout", "wait"}
        PROVE  HandlerInv(c)'
    BY <1>1, <1>2, <2>3, <2>4 DEF HandlerInv, Admitted, Admission, ServedMap
  <2>5. ASSUME handler[c] \in {"inProcess", "stdin", "stdout", "wait"}, NEW e \in Outcome,
               Answers(c, e), e = nil => phase[c] = "ok",
               ResponseFromError(e).msg # "invalid authentication token",
               ResponseFromError(e).code = "EEXIST" => phase[c] = "exists"
        PROVE  HandlerInv(c)'
    <3>1. handler'[c] = "answer" /\ err'[c] = e
      BY <1>2, <2>5 DEF Answers, TypeInv, TypeOK
    <3>2. served[c] # Bad /\ Admission(c) = nil /\ Admitted(c)
      BY <2>3, <2>5
    <3>3. Admitted(c)'
      BY <1>1, <2>5, <3>1, <3>2 DEF Admitted, ServedMap
    <3> QED
      BY <1>1, <1>2, <3>1, <3>2, <3>3 DEF HandlerInv, Admission, ServedMap
  <2>6. CASE EndInProcess(c)
    <3>1. PICK e \in ServiceError(c) : Answers(c, e)
      BY <2>6 DEF EndInProcess
    <3>2. e \in Outcome
      BY <3>1, ServiceErrorFacts DEF Outcome
    <3> QED
      BY <2>5, <2>6, <3>1, <3>2, ServiceErrorFacts DEF EndInProcess
  <2>7. ASSUME NEW errno \in {"EPIPE", "ECHILD"}
        PROVE  /\ Raw(errno) \in Outcome /\ Raw(errno) # nil
               /\ ResponseFromError(Raw(errno)).code # "EEXIST"
               /\ ResponseFromError(Raw(errno)).msg # "invalid authentication token"
    BY <2>7, RawFields, UnknownErrno DEF Outcome
  <2>8. CASE WriteStdin(c)
    <3>1. CASE Answers(c, Raw("EPIPE"))
      BY <2>5, <2>7, <2>8, <3>1 DEF WriteStdin
    <3>2. CASE handler' = Sets(handler, c, "stdout")
      BY <1>2, <2>4, <2>8, <3>2 DEF WriteStdin, TypeOK
    <3> QED
      BY <2>8, <3>1, <3>2 DEF WriteStdin
  <2>9. CASE ReadStdout(c)
    <3>1. CASE Answers(c, Raw("ECHILD"))
      BY <2>5, <2>7, <2>9, <3>1 DEF ReadStdout
    <3>2. CASE handler' = Sets(handler, c, "wait")
      BY <1>2, <2>4, <2>9, <3>2 DEF ReadStdout, TypeOK
    <3> QED
      BY <2>9, <3>1, <3>2 DEF ReadStdout
  <2>10. CASE Wait(c)
    <3>1. CASE Answers(c, Raw("ECHILD"))
      BY <2>5, <2>7, <2>10, <3>1 DEF Wait
    <3>2. CASE Answers(c, Recoded(stdout[c]))
      <4>1. /\ stdout[c] \in {ResponseFromError(e) : e \in FromService}
            /\ stdout[c].ok => phase[c] = "ok"
            /\ stdout[c].code = "EEXIST" => phase[c] = "exists"
        BY <1>2, <2>10 DEF WorkerInv, Wait
      <4> DEFINE resp == stdout[c]
      <4>2. /\ Recoded(resp) \in Outcome
            /\ Recoded(resp) = nil => resp.ok
            /\ ResponseFromError(Recoded(resp)).code = resp.code
            /\ ResponseFromError(Recoded(resp)).msg = resp.msg
            /\ resp.msg # "invalid authentication token"
        BY <4>1, RecodedFacts
      <4> QED
        BY <2>5, <2>10, <3>2, <4>1, <4>2 DEF Wait
    <3> QED
      BY <2>10, <3>1, <3>2 DEF Wait, Recoded
  <2> QED
    BY <2>1, <2>2, <2>6, <2>8, <2>9, <2>10
<1> QED
  BY <1>3, <1>4, <1>5, <1>6 DEF CallInv

LEMMA DispatchKept ==
  ASSUME Inv, NEW c \in Call, Dispatch(c)
  PROVE  CallInv(c)'
<1>1. UNCHANGED <<cli, got, req, sent, reply, stdout, config>>
  BY DEF Dispatch
<1>2. /\ TypeInv /\ TypeOK /\ ServiceTypeOK /\ handler[c] = "dispatch"
      /\ ClientInv(c) /\ ReplyInv(c) /\ WorkerInv(c) /\ HandlerInv(c)
      /\ cred = [d \in Call |-> cred[d]]
  BY DEF Inv, CoreInv, TypeInv, CallInv, ServiceInv, Dispatch
<1>3. /\ sent[c] /\ served[c] = Bad /\ Undispatched(c) /\ stdout[c] = NoReply /\ reply[c] = NoReply
      /\ Validate(req[c]) = nil
  BY <1>2 DEF HandlerInv, WorkerInv, ReplyInv, Undispatched, ClientInv
<1>4. config # Bad /\ StartsWith(config)
  BY <1>2 DEF Inv, CoreInv, DaemonInv, Running
<1>5. ClientInv(c)'
  BY <1>1, <1>2, ClientFrame DEF ClientSame
<1>6. ReplyInv(c)'
  BY <1>1, <1>3 DEF ReplyInv
<1>7. handler'[c] \in {"answer", "inProcess", "stdin"}
  BY <1>2 DEF Dispatch, Answers, TypeOK
<1>8. WorkerInv(c)'
  BY <1>1, <1>3, <1>7 DEF WorkerInv
<1>9. served'[c] = config /\ ServedMap(c)' = Tokens /\ Admission(c)' = Admit(Tokens, req[c])
  <2>1. served'[c] = config
    BY <1>2 DEF Dispatch, TypeOK
  <2> QED
    BY <1>1, <2>1 DEF ServedMap, Admission, Tokens
<1>10. Admission(c)' # nil => Inadmitted(c)'
  BY <1>2, <1>3, <1>9 DEF Dispatch, Answers, Inadmitted, TypeInv, TypeOK, Undispatched
<1>11. Admission(c)' = nil => Admitted(c)'
  <2> SUFFICES ASSUME Admit(Tokens, req[c]) = nil PROVE Admitted(c)'
    BY <1>9
  <2>1. CASE DOMAIN Tokens = {}
    <3>1. handler'[c] = "inProcess" /\ Begin(c, req[c].dst) /\ wk' = wk
      BY <1>2, <2>1 DEF Dispatch, TypeOK
    <3>2. phase'[c] \in {"busy", "failed"} /\ goal'[c] = req[c].dst
      BY <1>2, <3>1 DEF Begin, Becomes, ServiceTypeOK
    <3> QED
      BY <1>1, <1>3, <1>9, <2>1, <3>1, <3>2 DEF Admitted, Undispatched
  <2>2. CASE /\ DOMAIN Tokens # {}
             /\ handler' = Sets(handler, c, "stdin")
             /\ wk' = Sets(wk, c, "read")
             /\ cred' = Sets(cred, c, CredentialForIdentity(Tokens[req[c].token], Current))
             /\ UNCHANGED <<err, stdin, stdout, servicevars>>
    <3>1. /\ handler'[c] = "stdin" /\ wk'[c] = "read" /\ phase'[c] = "idle"
          /\ cred'[c] = CredentialForIdentity(Tokens[req[c].token], Current)
      BY <1>2, <1>3, <2>2 DEF TypeOK, Undispatched
    <3> QED
      BY <1>1, <1>9, <2>2, <3>1 DEF Admitted
  <2>3. CASE /\ DOMAIN Tokens # {}
             /\ \E errno \in StartErrors : Answers(c, Raw(errno))
             /\ UNCHANGED <<servicevars, workervars>>
    <3>1. PICK errno \in StartErrors : Answers(c, Raw(errno))
      BY <2>3
    <3>2. handler'[c] = "answer" /\ err'[c] = Raw(errno) /\ phase'[c] = "idle" /\ wk'[c] = "none"
      BY <1>2, <1>3, <2>3, <3>1 DEF Answers, TypeOK, Undispatched
    <3>3. Raw(errno) \in Outcome /\ Raw(errno) # nil
      BY RawFields DEF Outcome
    <3>4. ResponseFromError(Raw(errno)).msg # "invalid authentication token"
      BY RawFields, RpcAssumption DEF MessageFromError, Errno
    <3> QED
      BY <1>1, <1>9, <2>3, <3>2, <3>3, <3>4 DEF Admitted
  <2> QED
    BY <2>1, <2>2, <2>3 DEF Dispatch
<1>12. HandlerInv(c)'
  BY <1>1, <1>3, <1>4, <1>7, <1>9, <1>10, <1>11 DEF HandlerInv
<1> QED
  BY <1>5, <1>6, <1>8, <1>12 DEF CallInv

LEMMA AnswerKept ==
  ASSUME Inv, NEW c \in Call, Answer(c)
  PROVE  CallInv(c)'
<1>1. UNCHANGED <<cli, got, req, sent, err, served, wk, stdout, cred, phase, goal>>
  BY DEF Answer
<1>2. /\ TypeInv /\ TypeOK /\ handler[c] = "answer"
      /\ ClientInv(c) /\ ReplyInv(c) /\ WorkerInv(c) /\ HandlerInv(c)
  BY DEF Inv, CoreInv, TypeInv, CallInv, Answer
<1>3. handler'[c] = "done" /\ reply[c] = NoReply
  BY <1>2 DEF Answer, TypeOK, ReplyInv
<1>4. reply'[c] = reply[c] \/ reply'[c] = ResponseFromError(err[c])
  BY <1>2 DEF Answer, TypeOK
<1>5. ClientInv(c)'
  BY <1>1, <1>2, <1>3 DEF ClientInv
<1>6. ReplyInv(c)'
  BY <1>1, <1>3, <1>4 DEF ReplyInv
<1>7. WorkerInv(c)'
  BY <1>1, <1>2, <1>3 DEF WorkerInv
<1>8. HandlerInv(c)'
  BY <1>1, <1>2, <1>3 DEF HandlerInv, Undispatched, Inadmitted, Admitted, Admission, ServedMap
<1> QED
  BY <1>5, <1>6, <1>7, <1>8 DEF CallInv

LEMMA HandlerKept ==
  ASSUME Inv, NEW c \in Call, HandlerStep(c)
  PROVE  CoreInv'
<1>1. TypeInv /\ ServiceTypeOK /\ ServiceInv /\ DaemonInv /\ TypeOK
  BY DEF Inv, CoreInv, TypeInv, ServiceInv
<1>2. ServiceInv'
  <2>1. CASE Begin(c, req[c].dst)
    BY <1>1, <2>1, BeginInv, RpcAssumption DEF TypeOK
  <2>2. CASE UNCHANGED servicevars
    BY <1>1, <2>2, ServiceFrame
  <2> QED
    BY <2>1, <2>2 DEF HandlerStep, Accept, ReadRequest, Dispatch, EndInProcess, WriteStdin,
                      ReadStdout, Wait, Answer
<1>3. TypeInv'
  BY <1>2, HandlerType DEF ServiceInv
<1>4. DaemonInv'
  <2>1. UNCHANGED <<config, daemon>> /\ (Running(c) \/ Listening)
    BY DEF HandlerStep, Accept, ReadRequest, Dispatch, EndInProcess, WriteStdin, ReadStdout, Wait,
           Answer, Running
  <2>2. daemon \in {"up", "cancelled", "closed"}
    BY <1>1, <2>1 DEF DaemonInv, Listening
  <2> QED
    BY <1>1, <2>1, <2>2 DEF DaemonInv
<1>5. CallInv(c)'
  BY PlainKept, DispatchKept, AnswerKept DEF HandlerStep
<1> QED
  BY <1>1, <1>2, <1>3, <1>4, <1>5, HandlerElsewhere, OnlyOne DEF CoreInv
-----------------------------------------------------------------------------
(* The worker process and the service.                                      *)

\* The steps that touch only one call's worker, its answer and its service.
LEMMA WorkerKept ==
  ASSUME Inv, NEW c \in Call, WorkerStep(c) \/ WorkerKilled(c) \/ Serves(c)
  PROVE  CoreInv'
<1>1. UNCHANGED <<cli, got, dialer, cliEnd, req, sent, reply, srvEnd, daemon, handler, err, config,
                  timeout, served, stdin, cred, exits>>
  BY DEF WorkerStep, WorkerReads, WorkerWrites, WorkerExits, WorkerKilled, Serves
<1>2. /\ TypeInv /\ TypeOK /\ ServiceInv /\ ServiceTypeOK /\ DaemonInv
      /\ ClientInv(c) /\ ReplyInv(c) /\ WorkerInv(c) /\ HandlerInv(c)
  BY DEF Inv, CoreInv, TypeInv, CallInv, ServiceInv
<1>3. ServiceInv'
  <2>1. CASE Begin(c, req[c].dst)
    BY <1>2, <2>1, BeginInv, RpcAssumption DEF TypeOK
  <2>2. CASE UNCHANGED servicevars
    BY <1>2, <2>2, ServiceFrame
  <2>3. CASE Die(c)
    BY <1>2, <2>3, DieInv
  <2>4. CASE Execute(c)
    BY <1>2, <2>4, ExecuteInv
  <2> QED
    BY <2>1, <2>2, <2>3, <2>4 DEF WorkerStep, WorkerReads, WorkerWrites, WorkerExits,
                                  WorkerKilled, Serves
<1>4. wk' \in [Call -> {"none", "read", "execute", "exiting", "exited", "killed"}]
  BY <1>2 DEF TypeOK, WorkerStep, WorkerReads, WorkerWrites, WorkerExits, WorkerKilled, Serves
<1>5. stdout' \in [Call -> Response]
  <2>1. \/ stdout' = stdout
        \/ \E e \in ServiceError(c) : stdout' = [stdout EXCEPT ![c] = ResponseFromError(e)]
    BY DEF WorkerStep, WorkerReads, WorkerWrites, WorkerExits, WorkerKilled, Serves
  <2>2. ASSUME NEW e \in ServiceError(c) PROVE ResponseFromError(e) \in Response
    BY <2>2, ServiceErrorFacts, PossibleErrorFacts DEF PossibleError, Outcome
  <2> QED
    BY <1>2, <2>1, <2>2 DEF TypeOK
<1>6. kills' \in Nat
  BY <1>2 DEF TypeOK, WorkerStep, WorkerReads, WorkerWrites, WorkerExits, WorkerKilled, Serves
<1>7. TypeInv'
  BY <1>1, <1>2, <1>3, <1>4, <1>5, <1>6 DEF TypeInv, TypeOK, ServiceInv
<1>8. DaemonInv'
  BY <1>1, <1>2, DaemonFrame
<1>9. Elsewhere(c)
  <2>1. ASSUME NEW d \in Call \ {c} PROVE wk'[d] = wk[d] /\ stdout'[d] = stdout[d]
    BY <1>2 DEF TypeOK, WorkerStep, WorkerReads, WorkerWrites, WorkerExits, WorkerKilled, Serves
  <2>2. ASSUME NEW d \in Call \ {c} PROVE phase'[d] = phase[d] /\ goal'[d] = goal[d]
    BY <1>2 DEF ServiceTypeOK, WorkerStep, WorkerReads, WorkerWrites, WorkerExits, WorkerKilled,
           Serves, Begin, Execute, Claim, Occupied, Refuse, Commit, Withdraw, Abandon, Die,
           Becomes
  <2> QED
    BY <1>1, <2>1, <2>2 DEF Elsewhere, ClientSame, HandlerSame, WorkerSame, ServiceSame
<1>10. ClientInv(c)' /\ ReplyInv(c)'
  BY <1>1, <1>2, ClientFrame, ReplyFrame DEF ClientSame, HandlerSame
<1>. DEFINE Moves == WorkerReads(c) \/ WorkerWrites(c) \/ WorkerExits(c) \/ WorkerKilled(c)
<1>11. Moves \/ Serves(c)
  BY DEF WorkerStep
<1>12. wk[c] # "none" \/ handler[c] = "inProcess"
  BY <1>11 DEF WorkerReads, WorkerWrites, WorkerExits, WorkerKilled, Serves
<1>13. served[c] # Bad /\ Admission(c) = nil /\ Admitted(c)
  BY <1>2, <1>12 DEF HandlerInv, Undispatched, Inadmitted
<1>14. \/ phase'[c] = phase[c] /\ goal'[c] = goal[c]
       \/ phase[c] \in {"busy", "holding"} /\ phase'[c] # "idle" /\ goal'[c] = goal[c]
       \/ /\ phase[c] = "idle" /\ phase'[c] # "idle" /\ goal'[c] = req[c].dst
          /\ wk[c] = "read" /\ wk'[c] = "execute"
  <2>1. CASE WorkerReads(c)
    BY <1>2, <2>1 DEF WorkerReads, Begin, Becomes, ServiceTypeOK, TypeOK
  <2>2. CASE WorkerKilled(c)
    BY <1>2, <2>2 DEF WorkerKilled, Die, Becomes, ServiceTypeOK
  <2>3. CASE Serves(c)
    BY <1>2, <2>3 DEF Serves, Becomes, ServiceTypeOK, Execute, Claim, Occupied, Refuse, Commit,
                      Withdraw, Abandon
  <2> QED
    BY <1>11, <2>1, <2>2, <2>3 DEF WorkerWrites, WorkerExits
<1>15. \/ wk'[c] = wk[c]
       \/ wk[c] \in {"read", "execute"} /\ wk'[c] \in {"execute", "exiting", "exited", "killed"}
       \/ wk[c] = "exiting" /\ wk'[c] \in {"exited", "killed"}
  BY <1>2, <1>11 DEF TypeOK, WorkerReads, WorkerWrites, WorkerExits, WorkerKilled, Serves
<1>16. \/ stdout'[c] = stdout[c]
       \/ /\ wk'[c] = "exiting" /\ phase'[c] = phase[c]
          /\ \E e \in ServiceError(c) : stdout'[c] = ResponseFromError(e)
  BY <1>2, <1>11 DEF TypeOK, WorkerReads, WorkerWrites, WorkerExits, WorkerKilled, Serves
<1>17. WorkerInv(c)'
  <2>1. handler'[c] = "wait" => stdout'[c] # NoReply
    <3>1. ASSUME NEW e \in ServiceError(c) PROVE ResponseFromError(e) # NoReply
      BY <3>1, ServiceErrorFacts, PossibleErrorFacts DEF PossibleError, Outcome
    <3> QED
      BY <1>1, <1>2, <1>16, <3>1 DEF WorkerInv
  <2>2. CASE stdout'[c] = stdout[c]
    BY <1>2, <1>14, <1>15, <2>1, <2>2 DEF WorkerInv
  <2>3. CASE stdout'[c] # stdout[c]
    <3>1. PICK e \in ServiceError(c) : stdout'[c] = ResponseFromError(e)
      BY <1>16, <2>3
    <3> QED
      BY <1>16, <2>1, <2>3, <3>1, ServiceErrorFacts DEF WorkerInv
  <2> QED
    BY <2>2, <2>3
<1>18. Admitted(c)'
  BY <1>1, <1>12, <1>13, <1>14, <1>15 DEF Admitted, ServedMap
<1>19. HandlerInv(c)'
  BY <1>1, <1>2, <1>12, <1>13, <1>18 DEF HandlerInv, Admission, ServedMap
<1> QED
  BY <1>3, <1>7, <1>8, <1>9, <1>10, <1>17, <1>19, OnlyOne DEF CoreInv, CallInv
-----------------------------------------------------------------------------
(* The daemon and the guests.                                               *)

LEMMA LifeKept ==
  ASSUME Inv, Cancel \/ CloseListener \/ Restart
  PROVE  CoreInv'
<1>1. UNCHANGED <<cli, got, dialer, cliEnd, req, sent, reply, handler, err, timeout, served, wk,
                  stdin, stdout, cred, owner, phase, goal, kills>>
  BY DEF Cancel, CloseListener, Restart
<1>2. /\ TypeInv /\ TypeOK /\ ServiceInv /\ DaemonInv
      /\ \A c \in Call : CallInv(c)
  BY DEF Inv, CoreInv, TypeInv
<1>3. ServiceInv'
  BY <1>1, <1>2, ServiceFrame
<1>4. \A c \in Call : CallInv(c)'
  BY <1>1, <1>2, CallFrame DEF ClientSame, HandlerSame, WorkerSame, ServiceSame
<1>5. CASE Cancel \/ CloseListener
  <2>1. config' = config /\ daemon \in {"up", "cancelled"} /\ daemon' \in {"cancelled", "closed"}
    BY <1>5 DEF Cancel, CloseListener
  <2>2. exits' \in Nat /\ srvEnd' \in [Call -> {"none", "backlog", "open", "closed"}]
    BY <1>2, <1>5 DEF Cancel, CloseListener, TypeOK
  <2>3. TypeInv'
    BY <1>1, <1>2, <1>3, <2>1, <2>2 DEF TypeInv, TypeOK, ServiceInv
  <2>4. DaemonInv'
    BY <1>1, <1>2, <2>1 DEF DaemonInv, Running
  <2> QED
    BY <1>3, <1>4, <2>3, <2>4 DEF CoreInv
<1>6. CASE Restart
  <2>1. /\ config' \in Loaded /\ config' # Bad /\ StartsWith(config') /\ daemon' = "up"
        /\ UNCHANGED <<srvEnd, exits>>
    BY <1>2, <1>6 DEF Restart, TypeOK, Loaded
  <2>2. TypeInv'
    BY <1>1, <1>2, <1>3, <2>1 DEF TypeInv, TypeOK, ServiceInv
  <2>3. DaemonInv'
    BY <1>1, <1>2, <2>1 DEF DaemonInv, Running
  <2> QED
    BY <1>3, <1>4, <2>2, <2>3 DEF CoreInv
<1> QED
  BY <1>5, <1>6

LEMMA ExitKept ==
  ASSUME Inv, NEW how \in {"stopped", "failed"}, Exit(how), exits' \in Nat
  PROVE  CoreInv'
<1>1. UNCHANGED <<cli, got, dialer, cliEnd, req, sent, reply, err, timeout, served, config, wk,
                  stdin, stdout, cred, owner, goal, kills>>
  BY DEF Exit
<1>2. /\ TypeInv /\ TypeOK /\ ServiceInv /\ ServiceTypeOK /\ DaemonInv
      /\ \A c \in Call : CallInv(c)
  BY DEF Inv, CoreInv, TypeInv, ServiceInv
<1>3. ServiceInv'
  <2> DEFINE D == {c \in Call : handler[c] = "inProcess" /\ phase[c] \in {"busy", "holding"}}
  <2>1. phase' = [c \in Call |-> IF c \in D THEN "dead" ELSE phase[c]]
    BY DEF Exit
  <2>2. D \in SUBSET {c \in Call : phase[c] \in {"busy", "holding"}}
    OBVIOUS
  <2> HIDE DEF D
  <2> QED
    BY <1>1, <1>2, <2>1, <2>2, DeathInv
<1>4. /\ srvEnd' \in [Call -> {"none", "backlog", "open", "closed"}]
      /\ handler' \in [Call -> {"none", "read", "dispatch", "inProcess", "stdin", "stdout",
                                "wait", "answer", "done", "dead"}]
  BY <1>2 DEF Exit, TypeOK
<1>5. TypeInv'
  BY <1>1, <1>2, <1>3, <1>4 DEF TypeInv, TypeOK, ServiceInv, Exit
<1>6. DaemonInv'
  BY <1>1, <1>2 DEF DaemonInv, Running, Exit
<1>7. ASSUME NEW c \in Call PROVE CallInv(c)'
  <2>0. ClientInv(c) /\ ReplyInv(c) /\ WorkerInv(c) /\ HandlerInv(c)
    BY <1>2 DEF CallInv
  <2>1. \/ handler'[c] = handler[c] /\ phase'[c] = phase[c]
        \/ /\ handler'[c] = "dead" /\ handler[c] \notin {"none", "done", "dead"}
           /\ \/ phase'[c] = phase[c]
              \/ phase[c] \in {"busy", "holding"} /\ phase'[c] = "dead"
    BY <1>2 DEF Exit, Running, ServiceTypeOK, TypeOK
  <2>2. ClientInv(c)'
    BY <1>1, <2>0, ClientFrame DEF ClientSame
  <2>3. ReplyInv(c)'
    BY <1>1, <2>0, <2>1 DEF ReplyInv
  <2>4. WorkerInv(c)'
    BY <1>1, <2>0, <2>1 DEF WorkerInv
  <2>5. HandlerInv(c)'
    BY <1>1, <2>0, <2>1 DEF HandlerInv, Undispatched, Inadmitted, Admitted, Admission, ServedMap
  <2> QED
    BY <2>2, <2>3, <2>4, <2>5 DEF CallInv
<1> QED
  BY <1>3, <1>5, <1>6, <1>7 DEF CoreInv

LEMMA GuestKept ==
  ASSUME Inv, NEW t \in Target, GuestTakes(t)
  PROVE  CoreInv'
<1>1. /\ UNCHANGED <<cli, got, dialer, cliEnd, req, sent, reply, srvEnd, handler, err, timeout,
                     served, config, wk, stdin, stdout, cred, kills, exits, daemon>>
      /\ UNCHANGED <<phase, goal>>
  BY DEF GuestTakes, ForeignTakes
<1>2. ServiceInv'
  BY ForeignInv DEF Inv, CoreInv, GuestTakes
<1>3. TypeInv'
  BY <1>1, <1>2 DEF Inv, CoreInv, TypeInv, TypeOK, ServiceInv
<1>4. DaemonInv'
  BY <1>1, DaemonFrame DEF Inv, CoreInv
<1>5. \A c \in Call : CallInv(c)'
  BY <1>1, CallFrame DEF Inv, CoreInv, ClientSame, HandlerSame, WorkerSame, ServiceSame
<1> QED
  BY <1>2, <1>3, <1>4, <1>5 DEF CoreInv

LEMMA StutterKept ==
  ASSUME Inv, UNCHANGED vars
  PROVE  Inv'
<1>1. /\ UNCHANGED <<cli, got, dialer, cliEnd, req, sent, reply, srvEnd, handler, err, timeout,
                     served, config, wk, stdin, stdout, cred, kills, exits, daemon>>
      /\ UNCHANGED <<owner, phase, goal>>
  BY DEF vars
<1>2. ServiceInv' /\ DaemonInv'
  BY <1>1, ServiceFrame, DaemonFrame DEF Inv, CoreInv
<1>3. TypeInv'
  BY <1>1, <1>2 DEF Inv, CoreInv, TypeInv, TypeOK, ServiceInv
<1>4. \A c \in Call : CallInv(c)'
  BY <1>1, CallFrame DEF Inv, CoreInv, ClientSame, HandlerSame, WorkerSame, ServiceSame
<1>5. \A c \in Call : LineInv(c)'
  BY <1>1 DEF Inv, LineInv
<1> QED
  BY <1>2, <1>3, <1>4, <1>5 DEF Inv, CoreInv

\* The connections.
LEMMA LineKept ==
  ASSUME Inv, Next
  PROVE  \A c \in Call : LineInv(c)'
<1>1. TypeOK /\ \A c \in Call : LineInv(c)
  BY DEF Inv, CoreInv, TypeInv
<1>. DEFINE Same(c) == /\ cli'[c] = cli[c] /\ dialer'[c] = dialer[c]
                       /\ srvEnd'[c] = srvEnd[c] /\ handler'[c] = handler[c]
<1>2. ASSUME NEW c \in Call, Same(c) PROVE LineInv(c)'
  BY <1>1, <1>2 DEF LineInv
<1>3. ASSUME NEW c \in Call, ClientStep(c) PROVE \A d \in Call : LineInv(d)'
  <2>1. UNCHANGED <<srvEnd, handler>>
    BY <1>3 DEF ClientStep, Do, DialResult, DialDeadline, WriteRequest, ReadResponse, Deadline
  <2>2. ASSUME NEW d \in Call, d # c PROVE Same(d)
    BY <1>1, <1>3, <2>1, <2>2 DEF TypeOK, Return, ClientStep, Do, DialResult, DialDeadline,
           WriteRequest, ReadResponse, Deadline
  <2>3. /\ cli'[c] # "idle"
        /\ dialer'[c] = "running" => dialer[c] = "running" \/ cli[c] = "idle"
    BY <1>1, <1>3 DEF TypeOK, Return, ClientStep, Do, DialResult, DialDeadline, WriteRequest,
           ReadResponse, Deadline
  <2>4. LineInv(c)'
    BY <1>1, <2>1, <2>3 DEF LineInv
  <2> QED
    BY <1>2, <2>2, <2>4
<1>4. ASSUME NEW c \in Call, DialerStep(c) PROVE \A d \in Call : LineInv(d)'
  <2>1. ASSUME NEW d \in Call, d # c PROVE Same(d)
    BY <1>1, <1>4, <2>1 DEF TypeOK, DialerStep, Connected, Refused, Drain
  <2>2. LineInv(c)'
    BY <1>1, <1>4 DEF TypeOK, LineInv, DialerStep, Connected, Refused, Drain
  <2> QED
    BY <1>2, <2>1, <2>2
<1>5. ASSUME NEW c \in Call, HandlerStep(c) PROVE \A d \in Call : LineInv(d)'
  <2>1. UNCHANGED <<cli, dialer>>
    BY <1>5 DEF HandlerStep, Accept, ReadRequest, Dispatch, EndInProcess, WriteStdin, ReadStdout,
           Wait, Answer
  <2>2. ASSUME NEW d \in Call, d # c PROVE srvEnd'[d] = srvEnd[d] /\ handler'[d] = handler[d]
    BY <1>1, <1>5, <2>2 DEF TypeOK, HandlerStep, Accept, ReadRequest, Dispatch, EndInProcess,
           WriteStdin, ReadStdout, Wait, Answer, Answers
  <2>3. \/ srvEnd[c] = "backlog" /\ srvEnd'[c] = "open"
        \/ handler[c] # "none" /\ srvEnd'[c] \in {srvEnd[c], "closed"}
    BY <1>1, <1>5 DEF TypeOK, HandlerStep, Accept, ReadRequest, Dispatch, EndInProcess,
           WriteStdin, ReadStdout, Wait, Answer
  <2>4. LineInv(c)'
    BY <1>1, <2>1, <2>3 DEF LineInv
  <2> QED
    BY <1>2, <2>1, <2>2, <2>4
<1>6. ASSUME NEW c \in Call, WorkerStep(c) \/ WorkerKilled(c) \/ Serves(c)
      PROVE  \A d \in Call : LineInv(d)'
  BY <1>2, <1>6 DEF WorkerStep, WorkerReads, WorkerWrites, WorkerExits, WorkerKilled, Serves
<1>7. ASSUME CloseListener \/ Exit("stopped") \/ Exit("failed") PROVE \A d \in Call : LineInv(d)'
  <2>1. UNCHANGED <<cli, dialer>>
    BY <1>7 DEF CloseListener, Exit
  <2>2. ASSUME NEW d \in Call
        PROVE  /\ srvEnd'[d] = srvEnd[d] \/ (srvEnd[d] # "none" /\ srvEnd'[d] = "closed")
               /\ handler[d] = "none" => handler'[d] = "none"
    BY <1>1, <1>7 DEF CloseListener, Exit, Running, TypeOK
  <2> QED
    BY <1>1, <2>1, <2>2 DEF LineInv
<1>8. ASSUME Cancel \/ Restart \/ \E t \in Target : GuestTakes(t)
      PROVE  \A d \in Call : LineInv(d)'
  BY <1>2, <1>8 DEF Cancel, Restart, GuestTakes
<1>9. ASSUME Finished PROVE \A d \in Call : LineInv(d)'
  BY <1>2, <1>9 DEF Finished, vars
<1> QED
  BY <1>3, <1>4, <1>5, <1>6, <1>7, <1>8, <1>9 DEF Next, Shutdown, ServeReturns, AcceptFails
-----------------------------------------------------------------------------
LEMMA InitInv == Init => Inv
<1> SUFFICES ASSUME Init PROVE Inv
  OBVIOUS
<1>1. ServiceInv
  BY ServiceInitInv DEF Init
<1>2. config \in Loaded
  BY DEF Init, Loaded
<1>3. (CHOOSE r \in Request : TRUE) \in Request
  BY RpcAssumption
<1>4. req \in [Call -> Request]
  BY <1>3 DEF Init
<1>5. NoReply \in Response /\ NoAnswer \in Result /\ nil \in PossibleError /\ nil \in HandlerError
  BY PossibleErrorFacts DEF Response, Result
<1>6. TypeInv
  BY <1>1, <1>2, <1>4, <1>5 DEF Init, TypeInv, TypeOK, ServiceInv
<1>7. DaemonInv
  BY DEF Init, DaemonInv, Running, DaemonStarts
<1>8. ASSUME NEW c \in Call PROVE CallInv(c) /\ LineInv(c)
  <2>1. NoAnswer.from = "nobody" /\ ~NoAnswer.ok /\ ~Refusal(NoAnswer)
    BY DEF NoAnswer, Refusal
  <2>2. ClientInv(c)
    BY <2>1 DEF Init, ClientInv
  <2>3. ReplyInv(c) /\ WorkerInv(c) /\ LineInv(c)
    BY DEF Init, ReplyInv, WorkerInv, LineInv
  <2>4. HandlerInv(c)
    BY DEF Init, HandlerInv, Undispatched, ServiceInit
  <2> QED
    BY <2>2, <2>3, <2>4 DEF CallInv
<1> QED
  BY <1>1, <1>6, <1>7, <1>8 DEF Inv, CoreInv

LEMMA NextInv == Inv /\ [Next]_vars => Inv'
<1> SUFFICES ASSUME Inv, [Next]_vars PROVE Inv'
  OBVIOUS
<1>1. CASE UNCHANGED vars
  BY <1>1, StutterKept
<1>2. CASE Next
  <2>1. \A c \in Call : LineInv(c)'
    BY <1>2, LineKept
  <2>2. CASE Finished
    BY <2>2, StutterKept DEF Finished
  <2>3. exits \in Nat
    BY DEF Inv, CoreInv, TypeInv, TypeOK
  <2>4. CASE ServeReturns
    BY <2>1, <2>3, <2>4, ExitKept DEF ServeReturns, Inv
  <2>5. CASE AcceptFails
    BY <2>1, <2>3, <2>5, ExitKept DEF AcceptFails, Inv
  <2>6. CASE CloseListener \/ Cancel \/ Restart
    BY <2>1, <2>6, LifeKept DEF Inv
  <2>7. ASSUME NEW c \in Call, ClientStep(c) \/ DialerStep(c)
        PROVE  Inv'
    BY <2>1, <2>7, ClientKept DEF Inv
  <2>8. ASSUME NEW c \in Call, HandlerStep(c)
        PROVE  Inv'
    BY <2>1, <2>8, HandlerKept DEF Inv
  <2>9. ASSUME NEW c \in Call, WorkerStep(c) \/ WorkerKilled(c) \/ Serves(c)
        PROVE  Inv'
    BY <2>1, <2>9, WorkerKept DEF Inv
  <2>10. ASSUME NEW t \in Target, GuestTakes(t)
         PROVE  Inv'
    BY <2>1, <2>10, GuestKept DEF Inv
  <2> QED
    BY <1>2, <2>2, <2>4, <2>5, <2>6, <2>7, <2>8, <2>9, <2>10 DEF Next, Shutdown
<1> QED
  BY <1>1, <1>2

LEMMA SpecInv == Spec => []Inv
BY InitInv, NextInv, PTL DEF Spec

\* All of the variables hold what their declarations say, and no response ever
\* leaves the vocabulary of protocol.go.
THEOREM TypeCorrect == Spec => []TypeOK
<1>1. Inv => TypeOK
  BY DEF Inv, CoreInv, TypeInv
<1> QED
  BY <1>1, SpecInv, PTL
-----------------------------------------------------------------------------
(* What the guest is told.                                                  *)

\* The answer of the daemon is the response to the handler's error.
LEMMA ToldFacts ==
  ASSUME Inv, NEW c \in Call, got[c].from = "daemon"
  PROVE  /\ handler[c] = "done" /\ sent[c] /\ Validate(req[c]) = nil
         /\ err[c] \in PossibleError
         /\ got[c].code = ResponseFromError(err[c]).code
         /\ got[c].msg = ResponseFromError(err[c]).msg
         /\ got[c].msg # Hint
         /\ got[c].ok => err[c] = nil
<1>1. ClientInv(c) /\ ReplyInv(c) /\ err[c] \in PossibleError
  BY DEF Inv, CoreInv, CallInv, TypeInv
<1>2. /\ sent[c] /\ Validate(req[c]) = nil /\ reply[c] # NoReply
      /\ got[c] = Remote(reply[c]) /\ handler[c] = "done"
      /\ reply[c] = ResponseFromError(err[c])
  BY <1>1 DEF ClientInv, ReplyInv
<1>3. /\ got[c].ok = reply[c].ok
      /\ got[c].code = reply[c].code
      /\ got[c].msg = reply[c].msg
  BY <1>2 DEF Remote
<1> QED
  BY <1>1, <1>2, <1>3, PossibleErrorFacts

\* A success that Do returns is real: the destination is the call's own file
\* (OkMeansDone), whatever died, timed out, raced or was restarted on the way.
THEOREM OkIsDone == Spec => []OkMeansDone
<1>1. ASSUME Inv PROVE OkMeansDone
  <2> SUFFICES ASSUME NEW c \in Call, got[c].ok PROVE owner[req[c].dst] = c
    BY DEF OkMeansDone
  <2>1. ClientInv(c) /\ HandlerInv(c) /\ Owns(c)
    BY <1>1 DEF Inv, CoreInv, CallInv, ServiceInv
  <2>2. handler[c] = "done" /\ err[c] = nil
    BY <1>1, <2>1, ToldFacts DEF ClientInv
  <2>3. served[c] # Bad /\ Admission(c) = nil
    <3>1. InvalidRequest # nil
      BY DEF InvalidRequest, NewError, nil
    <3> QED
      BY <2>1, <2>2, <3>1 DEF HandlerInv, Undispatched, Inadmitted
  <2>4. phase[c] = "ok" /\ goal[c] = req[c].dst
    BY <2>1, <2>2, <2>3 DEF HandlerInv, Admitted
  <2> QED
    BY <2>1, <2>4 DEF Owns
<1> QED
  BY <1>1, SpecInv, PTL

\* A refusal is final (RefusalIsFinal): EEXIST, an invalid token, a connection that
\* did not come about or a frame that was not sent leave nothing behind, nor will
\* what they left running.
THEOREM RefusalsAreFinal == Spec => []RefusalIsFinal
<1>1. ASSUME Inv PROVE RefusalIsFinal
  <2> SUFFICES ASSUME NEW c \in Call, Refusal(got[c]), NEW t \in Target PROVE owner[t] # c
    BY DEF RefusalIsFinal
  <2>1. ClientInv(c) /\ HandlerInv(c) /\ Owns(c)
    BY <1>1 DEF Inv, CoreInv, CallInv, ServiceInv
  <2>2. CASE got[c].from # "daemon"
    <3>1. served[c] = Bad
      BY <2>1, <2>2 DEF ClientInv, HandlerInv
    <3> QED
      BY <2>1, <3>1 DEF HandlerInv, Undispatched, Owns
  <2>3. CASE got[c].from = "daemon"
    <3>1. /\ handler[c] = "done"
          /\ \/ ResponseFromError(err[c]).code = "EEXIST"
             \/ ResponseFromError(err[c]).msg = "invalid authentication token"
      BY <1>1, <2>3, ToldFacts DEF Refusal
    <3>2. phase[c] \in {"idle", "exists"}
      BY <2>1, <3>1 DEF HandlerInv, Undispatched, Inadmitted, Admitted
    <3> QED
      BY <2>1, <3>2 DEF Owns
  <2> QED
    BY <2>2, <2>3
<1> QED
  BY <1>1, SpecInv, PTL

LEMMA EmptyDomain ==
  ASSUME NEW S, NEW s \in Seq(S)
  PROVE  DOMAIN s = {} <=> s = << >>
<1>1. DOMAIN s = {} <=> Len(s) = 0
  OBVIOUS
<1>2. s = << >> <=> Len(s) = 0
  BY EmptySeq
<1> QED
  BY <1>1, <1>2, Zenon

\* A daemon that has started has an empty map if and only if it has no tokens.
LEMMA TokensFacts ==
  ASSUME NEW cfg \in Loaded, cfg # Bad
  PROVE  DOMAIN TokenMap(cfg.tokens) = {} <=> cfg.tokens = << >>
<1>1. cfg.tokens \in Seq(Entry)
  BY TokensAssumption
<1>3. DOMAIN TokenMap(cfg.tokens) = {TrimSpace(cfg.tokens[i].token) : i \in DOMAIN cfg.tokens}
  BY DEF TokenMap
<1>4. DOMAIN cfg.tokens = {} <=> cfg.tokens = << >>
  BY <1>1, EmptyDomain
<1> QED
  BY <1>3, <1>4

\* The user is told to set a token exactly when that is what is missing
\* (HintIsRight): the two programs agree on an error text.
THEOREM HintsAreRight == Spec => []HintIsRight
<1>1. ASSUME Inv PROVE HintIsRight
  <2> SUFFICES ASSUME NEW c \in Call, got[c].from = "daemon", served[c] # Bad
               PROVE  ErrorMessage(req[c], got[c]) = Hint
                        <=> served[c].tokens # << >> /\ req[c].token = ""
    BY DEF HintIsRight
  <2>1. HandlerInv(c) /\ served[c] \in Loaded
    BY <1>1 DEF Inv, CoreInv, CallInv, TypeInv, TypeOK
  <2>2. /\ handler[c] = "done" /\ Validate(req[c]) = nil /\ got[c].msg # Hint
        /\ err[c] \in PossibleError
        /\ got[c].code = ResponseFromError(err[c]).code
        /\ got[c].msg = ResponseFromError(err[c]).msg
    BY <1>1, ToldFacts
  <2>3. DOMAIN ServedMap(c) = {} <=> served[c].tokens = << >>
    BY <2>1, TokensFacts DEF ServedMap
  <2>4. Admission(c) = MissingToken <=> served[c].tokens # << >> /\ req[c].token = ""
    BY <2>2, <2>3, AdmitFacts DEF Admission
  <2>5. req[c].token = "" => req[c].version = 1
    BY <2>2, ValidateFacts
  <2>6. ErrorMessage(req[c], got[c]) = Hint <=>
          req[c].token = "" /\ NewError(got[c].code, got[c].msg) = MissingToken
    BY <2>2, <2>5 DEF ErrorMessage
  <2>7. CASE Admission(c) # nil
    <3>1. err[c] = Admission(c) /\ err[c] \in Inadmissible
      BY <2>1, <2>2, <2>7, AdmitFacts DEF HandlerInv, Inadmitted, Admission
    <3>2. NewError(got[c].code, got[c].msg) = err[c]
      <4>1. PICK code, msg : err[c] = NewError(code, msg)
        BY <3>1 DEF Inadmissible, Unconfigured, MissingToken, UnknownToken
      <4> QED
        BY <2>2, <4>1, CodedFields
    <3> QED
      BY <2>4, <2>6, <3>1, <3>2
  <2>8. CASE Admission(c) = nil
    <3>1. err[c] \in Outcome
      BY <2>1, <2>2, <2>8 DEF HandlerInv, Admitted
    <3>2. got[c].msg # "token-authenticated requests require protocol version 2"
      <4>1. CASE \E errno \in Errno : err[c] = Raw(errno)
        <5>1. PICK errno \in Errno : err[c] = Raw(errno)
          BY <4>1
        <5>2. got[c].msg = MessageFromError(errno)
          BY <2>2, <5>1, RawFields
        <5> QED
          BY <5>2 DEF MessageFromError, Errno
      <4>2. CASE err[c] = nil
        <5>1. got[c].msg = ResponseFromError(nil).msg
          BY <2>2, <4>2
        <5>2. got[c].msg = ""
          BY <5>1, NilFields
        <5> QED
          BY <5>2, Zenon
      <4>3. ASSUME NEW code, NEW msg, err[c] = NewError(code, msg),
                   msg # "token-authenticated requests require protocol version 2"
            PROVE  got[c].msg # "token-authenticated requests require protocol version 2"
        <5>1. ResponseFromError(NewError(code, msg)).msg = msg
          BY CodedFields
        <5>2. got[c].msg = ResponseFromError(NewError(code, msg)).msg
          BY <2>2, <4>3
        <5> QED
          BY <4>3, <5>1, <5>2, Zenon
      <4>4. StartErrors \cup {"EPIPE", "ECHILD", "EIO", "EACCES"} \subseteq Errno
        BY RpcAssumption DEF Errno
      <4> QED
        BY <3>1, <4>1, <4>2, <4>3, <4>4 DEF Outcome, FromService
    <3>3. NewError(got[c].code, got[c].msg) # MissingToken
      BY <3>2 DEF NewError, MissingToken
    <3>4. Admission(c) # MissingToken
      BY <2>8, CodedFields DEF MissingToken
    <3> QED
      BY <2>4, <2>6, <3>3, <3>4
  <2> QED
    BY <2>7, <2>8
<1> QED
  BY <1>1, SpecInv, PTL
-----------------------------------------------------------------------------
(* On whose behalf something is created.                                    *)

\* A loop that appends the groups at the places it keeps has them all, and no other:
\* the places are numbered one by one.
LEMMA AppendedFacts ==
  ASSUME NEW groups \in Seq(Nat), NEW kept \in SUBSET DOMAIN groups
  PROVE  /\ ToSet(Appended(groups, kept)) = {groups[i] : i \in kept}
         /\ IsFiniteSet(DOMAIN Appended(groups, kept))
<1> DEFINE n == Cardinality(kept)
           upto(i) == {j \in kept : j <= i}
           R == [i \in kept |-> Cardinality(upto(i))]
<1>1. kept \in SUBSET Nat /\ IsFiniteSet(kept) /\ n \in Nat
  <2>1. DOMAIN groups = 1 .. Len(groups) /\ Len(groups) \in Nat
    OBVIOUS
  <2>2. IsFiniteSet(DOMAIN groups)
    BY <2>1, FS_Interval
  <2> QED
    BY <2>1, <2>2, FS_Subset, FS_CardinalityType
<1>2. ASSUME NEW i \in kept
      PROVE  IsFiniteSet(upto(i)) /\ Cardinality(upto(i)) \in 1 .. n
  <2>1. upto(i) \in SUBSET kept /\ i \in upto(i)
    BY <1>1
  <2>2. IsFiniteSet(upto(i)) /\ Cardinality(upto(i)) \in Nat /\ Cardinality(upto(i)) <= n
    BY <1>1, <2>1, FS_Subset, FS_CardinalityType
  <2>3. Cardinality(upto(i)) # 0
    BY <2>1, <2>2, FS_EmptySet
  <2> QED
    BY <1>1, <2>2, <2>3
<1>3. ASSUME NEW i \in kept, NEW k \in kept, i < k
      PROVE  Cardinality(upto(i)) # Cardinality(upto(k))
  <2>1. upto(i) \in SUBSET upto(k) /\ k \in upto(k) /\ k \notin upto(i)
    BY <1>1, <1>3
  <2>2. IsFiniteSet(upto(k))
    BY <1>2
  <2> HIDE DEF upto
  <2> QED
    BY <2>1, <2>2, FS_Subset
<1>4. \A i, k \in kept : Cardinality(upto(i)) = Cardinality(upto(k)) => i = k
  <2> SUFFICES ASSUME NEW i \in kept, NEW k \in kept,
                      Cardinality(upto(i)) = Cardinality(upto(k))
               PROVE  i = k
    OBVIOUS
  <2>1. ~(i < k) /\ ~(k < i)
    BY <1>3
  <2> QED
    BY <1>1, <2>1
<1>5. \A m \in 1 .. n : \E i \in kept : Cardinality(upto(i)) = m
  <2>1. R \in Injection(kept, 1 .. n)
    <3>1. R \in [kept -> 1 .. n]
      BY <1>2
    <3> QED
      BY <1>4, <3>1 DEF Injection, IsInjective
  <2>2. IsFiniteSet(1 .. n) /\ Cardinality(1 .. n) = n
    BY <1>1, FS_Interval
  <2>3. R \in Surjection(kept, 1 .. n)
    <3> HIDE DEF R
    <3> QED
      BY <2>1, <2>2, FS_Injection
  <2> QED
    BY <2>3 DEF Surjection
<1> DEFINE at(m) == CHOOSE i \in kept : Cardinality(upto(i)) = m
<1>6. \A m \in 1 .. n : at(m) \in kept
  BY <1>5
<1>7. \A i \in kept : Cardinality(upto(i)) \in 1 .. n /\ at(Cardinality(upto(i))) = i
  BY <1>2, <1>4
<1>8. Appended(groups, kept) = [m \in 1 .. n |-> groups[at(m)]]
  BY DEF Appended
<1>9. IsFiniteSet(1 .. n)
  BY <1>1, FS_Interval
<1> HIDE DEF n, upto, at
<1> QED
  BY <1>6, <1>7, <1>8, <1>9 DEF ToSet

\* normalizeGroups keeps every group but the primary one, at its first place.
LEMMA NormalizedFacts ==
  ASSUME NEW groups \in Seq(Nat), NEW primary
  PROVE  /\ ToSet(NormalizeGroups(groups, primary)) = ToSet(groups) \ {primary}
         /\ IsFiniteSet(DOMAIN NormalizeGroups(groups, primary))
<1> DEFINE kept == {i \in DOMAIN groups : /\ groups[i] # primary
                                          /\ \A j \in 1 .. i - 1 : groups[j] # groups[i]}
<1>1. /\ ToSet(NormalizeGroups(groups, primary)) = {groups[i] : i \in kept}
      /\ IsFiniteSet(DOMAIN NormalizeGroups(groups, primary))
  <2>1. kept \in SUBSET DOMAIN groups /\ NormalizeGroups(groups, primary) = Appended(groups, kept)
    BY DEF NormalizeGroups
  <2> HIDE DEF kept
  <2> QED
    BY <2>1, AppendedFacts
<1>2. ASSUME NEW k \in DOMAIN groups, groups[k] # primary
      PROVE  \E i \in kept : groups[i] = groups[k]
  <2> DEFINE T == {i \in DOMAIN groups : groups[i] = groups[k]}
  <2>1. T \in SUBSET Nat /\ T # {} /\ DOMAIN groups = 1 .. Len(groups) /\ Len(groups) \in Nat
    OBVIOUS
  <2>2. PICK m \in T : \A i \in T : m <= i
    <3> HIDE DEF T
    <3> QED
      BY <2>1, LeastNumber
  <2>3. \A j \in 1 .. m - 1 : j \in DOMAIN groups /\ j \notin T
    BY <2>1, <2>2
  <2> QED
    BY <1>2, <2>2, <2>3
<1>3. {groups[i] : i \in kept} = {groups[i] : i \in DOMAIN groups} \ {primary}
  BY <1>2
<1> QED
  BY <1>1, <1>3 DEF ToSet

\* currentProcessIdentity drops the primary group only.
LEMMA CurrentFacts ==
  /\ Current.uid = Process.uid /\ Current.gid = Process.gid
  /\ ToSet(Current.groups) = ToSet(Process.groups) \ {Process.gid}
  /\ IsFiniteSet(DOMAIN Current.groups)
<1> DEFINE groups == Process.groups
           kept == {i \in DOMAIN groups : groups[i] >= 0 /\ groups[i] # Process.gid}
<1>1. Process \in [uid : Nat, gid : Nat, groups : Seq(Nat)]
  BY RpcAssumption
<1>2. /\ Current.uid = Process.uid /\ Current.gid = Process.gid
      /\ Current.groups = Appended(groups, kept)
  BY <1>1 DEF Current, CurrentProcessIdentity
<1>3. /\ ToSet(Current.groups) = {groups[i] : i \in kept}
      /\ IsFiniteSet(DOMAIN Current.groups)
  <2>1. groups \in Seq(Nat) /\ kept \in SUBSET DOMAIN groups
    BY <1>1
  <2> HIDE DEF groups, kept
  <2> QED
    BY <1>2, <2>1, AppendedFacts
<1>4. {groups[i] : i \in kept} = {groups[i] : i \in DOMAIN groups} \ {Process.gid}
  <2>1. \A i \in DOMAIN groups : groups[i] >= 0
    BY <1>1
  <2> QED
    BY <2>1
<1> QED
  BY <1>2, <1>3, <1>4 DEF ToSet

\* sameGroupSet, which compares sorted lists, finds lists with the same members only.
LEMMA SameGroupsFacts ==
  ASSUME NEW left, NEW right, IsFiniteSet(DOMAIN left), IsFiniteSet(DOMAIN right),
         SameGroupSet(left, right)
  PROVE  ToSet(left) = ToSet(right)
<1>1. ASSUME NEW s, NEW g, IsFiniteSet(DOMAIN s)
      PROVE  /\ IsFiniteSet(Occurrences(s, g))
             /\ g \in ToSet(s) <=> Occurrences(s, g) # {}
             /\ Cardinality(Occurrences(s, g)) = 0 <=> Occurrences(s, g) = {}
  <2>1. IsFiniteSet(Occurrences(s, g))
    BY <1>1, FS_Subset DEF Occurrences
  <2>2. g \in ToSet(s) <=> Occurrences(s, g) # {}
    BY DEF ToSet, Occurrences
  <2> QED
    BY <2>1, <2>2, FS_EmptySet
<1>2. ASSUME NEW g \in ToSet(left) \cup ToSet(right)
      PROVE  Cardinality(Occurrences(left, g)) = Cardinality(Occurrences(right, g))
  BY <1>2 DEF SameGroupSet
<1>3. ASSUME NEW g PROVE g \in ToSet(left) <=> g \in ToSet(right)
  <2>1. CASE g \in ToSet(left) \cup ToSet(right)
    BY <1>1, <1>2, <2>1
  <2>2. CASE g \notin ToSet(left) \cup ToSet(right)
    BY <2>2
  <2> QED
    BY <2>1, <2>2
<1> QED
  BY <1>3

\* The child runs as the entry of the file that has the token, whether it is given
\* credentials or keeps those of the daemon.
LEMMA EffectiveFacts ==
  ASSUME NEW entries \in Seq(Entry), NEW token \in DOMAIN TokenMap(entries)
  PROVE  LET cr == CredentialForIdentity(TokenMap(entries)[token], Current)
         IN  \E i \in DOMAIN entries : /\ TrimSpace(entries[i].token) = token
                                      /\ RunsAs(Effective(cr, Process), entries[i])
<1> DEFINE id == TokenMap(entries)[token]
           who == Effective(CredentialForIdentity(id, Current), Process)
           k == CHOOSE i \in DOMAIN entries : TrimSpace(entries[i].token) = token
           e == entries[k]
<1>1. k \in DOMAIN entries /\ TrimSpace(e.token) = token /\ e \in Entry
  <2>1. token \in {TrimSpace(entries[i].token) : i \in DOMAIN entries}
    BY DEF TokenMap
  <2>2. \E i \in DOMAIN entries : TrimSpace(entries[i].token) = token
    BY <2>1
  <2>3. k \in DOMAIN entries /\ TrimSpace(entries[k].token) = token
    BY <2>2
  <2> QED
    BY <2>3
<1>2. id = [uid |-> e.uid.id, gid |-> e.gid.id, groups |-> NormalizeGroups(e.groups, e.gid.id)]
  BY DEF TokenMap
<1>3. ToSet(id.groups) = ToSet(e.groups) \ {e.gid.id} /\ IsFiniteSet(DOMAIN id.groups)
  <2>1. e.groups \in Seq(Nat)
    BY <1>1 DEF Entry
  <2> HIDE DEF e
  <2> QED
    BY <1>2, <2>1, NormalizedFacts
<1>5. id # NoCredential
  <2>1. DOMAIN id = {"uid", "gid", "groups"}
    BY <1>2
  <2>2. DOMAIN NoCredential = {"inherit"}
    BY DEF NoCredential
  <2> QED
    BY <2>1, <2>2
<1>8. RunsAs(who, e)
  <2> HIDE DEF e, id
  <2>1. CASE /\ id.uid = Current.uid /\ id.gid = Current.gid
             /\ SameGroupSet(id.groups, Current.groups)
    <3>1. who = Process
      BY <2>1 DEF CredentialForIdentity, Effective
    <3>2. ToSet(id.groups) = ToSet(Current.groups)
      BY <1>3, <2>1, CurrentFacts, SameGroupsFacts
    <3>3. Process.uid = e.uid.id /\ Process.gid = e.gid.id
      BY <1>2, <2>1, CurrentFacts
    <3>4. ToSet(Process.groups) \ {Process.gid} = ToSet(e.groups) \ {Process.gid}
      BY <1>3, <3>2, <3>3, CurrentFacts
    <3> HIDE DEF who
    <3> QED
      BY <3>1, <3>3, <3>4 DEF RunsAs
  <2>2. CASE ~(/\ id.uid = Current.uid /\ id.gid = Current.gid
               /\ SameGroupSet(id.groups, Current.groups))
    <3>1. CredentialForIdentity(id, Current) = id
      BY <2>2 DEF CredentialForIdentity
    <3>2. who = id
      BY <1>5, <3>1 DEF Effective
    <3>3. id.uid = e.uid.id /\ id.gid = e.gid.id
      BY <1>2
    <3>4. ToSet(id.groups) \ {id.gid} = ToSet(e.groups) \ {id.gid}
      BY <1>3, <3>3
    <3> HIDE DEF who
    <3> QED
      BY <3>2, <3>3, <3>4 DEF RunsAs
  <2> QED
    BY <2>1, <2>2
<1> QED
  BY <1>1, <1>8

\* Whatever is created is created on behalf of a token in the file of the daemon that
\* dispatched the call, by a process that runs as that entry says, or without tokens
\* for the protocol that allow_v1_fallback permits (EffectIsAuthorized): under
\* restarts, revoked tokens and workers that outlive their daemon.
THEOREM EffectsAreAuthorized == Spec => []EffectIsAuthorized
<1>1. ASSUME Inv PROVE EffectIsAuthorized
  <2> SUFFICES ASSUME NEW c \in Call, NEW t \in Target, owner[t] = c
               PROVE
      IF served[c].tokens = << >> THEN served[c].allow_v1_fallback /\ req[c].version = 1
      ELSE /\ req[c].version = 2
           /\ \E i \in DOMAIN served[c].tokens :
                /\ TrimSpace(served[c].tokens[i].token) = req[c].token
                /\ RunsAs(Effective(cred[c], Process), served[c].tokens[i])
    BY DEF EffectIsAuthorized
  <2>1. HandlerInv(c) /\ ClientInv(c) /\ Owns(c) /\ served[c] \in Loaded \cup {Bad}
    BY <1>1 DEF Inv, CoreInv, CallInv, TypeInv, TypeOK, ServiceInv
  <2>2. phase[c] # "idle"
    BY <2>1 DEF Owns
  <2>3. /\ served[c] # Bad /\ Admission(c) = nil /\ Admitted(c) /\ StartsWith(served[c])
        /\ Validate(req[c]) = nil
    BY <2>1, <2>2 DEF HandlerInv, Undispatched, Inadmitted, ClientInv
  <2>4. DOMAIN ServedMap(c) = {} <=> served[c].tokens = << >>
    BY <2>1, <2>3, TokensFacts DEF ServedMap
  <2>5. IF served[c].tokens = << >> THEN req[c].version = 1
        ELSE req[c].version = 2 /\ req[c].token \in DOMAIN ServedMap(c)
    BY <2>3, <2>4, AdmitFacts DEF Admission
  <2>6. CASE served[c].tokens = << >>
    BY <2>3, <2>5, <2>6 DEF StartsWith
  <2>7. CASE served[c].tokens # << >>
    <3>1. cred[c] = CredentialForIdentity(ServedMap(c)[req[c].token], Current)
      BY <2>2, <2>3, <2>4, <2>7 DEF Admitted
    <3>2. served[c].tokens \in Seq(Entry)
      BY <2>1, <2>3, TokensAssumption
    <3>3. req[c].version = 2 /\ req[c].token \in DOMAIN TokenMap(served[c].tokens)
      BY <2>5, <2>7 DEF ServedMap
    <3> QED
      BY <2>7, <3>1, <3>2, <3>3, EffectiveFacts DEF ServedMap
  <2> QED
    BY <2>6, <2>7
<1> QED
  BY <1>1, SpecInv, PTL
=============================================================================
