-------------------------------- MODULE Rpc --------------------------------
(***************************************************************************)
(* A request from the guest to the service and back: Client.Do with its dial *)
(* goroutine, one connection, Server.Serve and handleConn with their         *)
(* deadlines, daemonExecutor.Execute, and the worker process that            *)
(* commandWorker.Execute runs under the identity of the token.  What the     *)
(* service does is ExclusiveCreate.                                          *)
(*                                                                          *)
(* A call is one Client.Do and everything that serves it.  framing writes    *)
(* header and payload with two writes and reads them with two ReadFulls: a   *)
(* frame is there when it is complete, an incomplete one is like none.       *)
(***************************************************************************)
EXTENDS Settings, ExclusiveCreate

CONSTANTS
  Request,        \* the requests the guests make
  DaemonFile,     \* what the daemon's configuration file may hold at first, and what
  Edited,         \* it may have become when the daemon is started again
  GuestTimeout,   \* the timeouts of guests; one that is not positive is none
  Process,        \* the uid, gid and supplementary groups the daemon runs with
  TooLarge,       \* the requests whose frame exceeds MaxPayloadSize
  StartErrors,    \* the errnos with which a worker process may fail to start
  MaxExits,       \* bound on the number of times the daemon is stopped or fails
  MaxKills        \* bound on the number of workers that are killed

VARIABLES
  config, timeout, served,     \* the settings of the daemon, the timeout of the guest, and
                               \* the settings of the daemon that dispatched a call
  cli, got, dialer, cliEnd,    \* the client, its answer, its dial goroutine, its end
  req, sent, reply, srvEnd,    \* the request and both directions of the connection
  daemon, handler, err,        \* Serve, the goroutine of handleConn, the handler's error
  wk, stdin, stdout, cred,     \* the worker process, its pipes and credentials
  exits, kills

clientvars == <<cli, got, dialer>>
wirevars == <<cliEnd, req, sent, reply, srvEnd>>
hostvars == <<daemon, handler, err>>
workervars == <<wk, stdin, stdout, cred>>
settings == <<config, timeout, served>>
bounds == <<settings, exits, kills>>
vars == <<clientvars, wirevars, hostvars, workervars, servicevars, bounds>>

\* What Do returns: nothing yet, an error of its own, or the daemon's response.
NoAnswer == [from |-> "nobody", ok |-> FALSE, code |-> "", msg |-> ""]
Local(what) == [from |-> "client", ok |-> FALSE, code |-> what, msg |-> ""]
Remote(resp) == [from |-> "daemon", ok |-> resp.ok, code |-> resp.code, msg |-> resp.msg]

NoReply == [ok |-> FALSE, code |-> "", msg |-> ""]
Response == {SuccessResponse, NoReply} \cup
            [ok : {FALSE}, code : Code, msg : Message \cup Errno \cup {"permission denied"}]

LocalError == {"invalid", "connection refused", "context deadline exceeded", "frame too large",
               "broken pipe", "unexpected EOF", "i/o timeout"}
Result == {NoAnswer} \cup {Local(what) : what \in LocalError} \cup {Remote(r) : r \in Response}

\* The errors of a handler: also a worker's response, coded again as it came.
HandlerError == Error \cup [kind : {"coded"}, code : Code,
                            msg : Message \cup Errno \cup {"permission denied"}]

InvalidRequest == NewError("EINVAL", "invalid request")

ASSUME RpcAssumption ==
  /\ Request # {} /\ TooLarge \subseteq Request
  /\ \A r \in Request : r.dst \in Target /\ Validate(r) \in Error
  /\ StartErrors \subseteq Errno
  /\ MaxExits \in Nat /\ MaxKills \in Nat
  /\ GuestTimeout \subseteq Int
  /\ Process \in [uid : Nat, gid : Nat, groups : Seq(Nat)]

\* newCommandWorker asks once, when the daemon starts.
Current == CurrentProcessIdentity(Process)

Tokens == TokenMap(config.tokens)

Loaded == {LoadDaemon(f) : f \in DaemonFile \cup Edited}

\* decodeTOML refuses a file whose tokens are anything else.
ASSUME TokensAssumption == \A cfg \in Loaded : cfg # Bad => cfg.tokens \in Seq(Entry)

TypeOK ==
  /\ config \in Loaded /\ timeout \in GuestTimeout
  /\ cli \in [Call -> {"idle", "dial", "write", "read", "done"}]
  /\ got \in [Call -> Result]
  /\ dialer \in [Call -> {"none", "running", "connected", "refused"}]
  /\ cliEnd \in [Call -> {"none", "open", "closed"}]
  /\ req \in [Call -> Request]
  /\ sent \in [Call -> BOOLEAN]
  /\ reply \in [Call -> Response]
  /\ srvEnd \in [Call -> {"none", "backlog", "open", "closed"}]
  /\ daemon \in {"up", "cancelled", "closed", "stopped", "failed"}
  /\ handler \in [Call -> {"none", "read", "dispatch", "inProcess", "stdin", "stdout",
                           "wait", "answer", "done", "dead"}]
  /\ err \in [Call -> HandlerError]
  /\ served \in [Call -> Loaded \cup {Bad}]
  /\ wk \in [Call -> {"none", "read", "execute", "exiting", "exited", "killed"}]
  /\ stdin \in [Call -> BOOLEAN]
  /\ stdout \in [Call -> Response]
  /\ exits \in Nat /\ kills \in Nat
  /\ ServiceTypeOK

\* main: the daemon listens, or does not start at all, if not for its file then
\* because the share, the executable, its credentials or the port is not to be had.
Init ==
  /\ \E f \in DaemonFile :
       /\ config = LoadDaemon(f)
       /\ daemon \in {"failed"} \cup (IF DaemonStarts(f) THEN {"up"} ELSE {})
  /\ timeout \in GuestTimeout
  /\ cli = [c \in Call |-> "idle"]
  /\ got = [c \in Call |-> NoAnswer]
  /\ dialer = [c \in Call |-> "none"]
  /\ cliEnd = [c \in Call |-> "none"]
  /\ req = [c \in Call |-> CHOOSE r \in Request : TRUE]
  /\ sent = [c \in Call |-> FALSE]
  /\ reply = [c \in Call |-> NoReply]
  /\ srvEnd = [c \in Call |-> "none"]
  /\ handler = [c \in Call |-> "none"]
  /\ err = [c \in Call |-> nil]
  /\ served = [c \in Call |-> Bad]
  /\ wk = [c \in Call |-> "none"]
  /\ stdin = [c \in Call |-> FALSE]
  /\ stdout = [c \in Call |-> NoReply]
  /\ cred = [c \in Call |-> NoCredential]
  /\ exits = 0 /\ kills = 0
  /\ ServiceInit
  /\ owner = [t \in Target |-> Nobody]
  /\ goal = [c \in Call |-> req[c].dst]
-----------------------------------------------------------------------------
(* The client.                                                              *)

Sets(f, c, v) == [f EXCEPT ![c] = v]

Listening == daemon \in {"up", "cancelled"}

\* Do returns; the deferred Close closes the connection if Do has got one.
Return(c, answer) ==
  /\ cli' = Sets(cli, c, "done")
  /\ got' = Sets(got, c, answer)
  /\ cliEnd' = IF cli[c] \in {"write", "read"} THEN Sets(cliEnd, c, "closed") ELSE cliEnd

Do(c) ==
  /\ cli[c] = "idle"
  /\ \E r \in Request :
       \/ /\ Validate(r) # nil
          /\ Return(c, Local("invalid"))
          /\ UNCHANGED <<dialer, req>>
       \/ /\ Validate(r) = nil
          /\ cli' = Sets(cli, c, "dial")
          /\ dialer' = Sets(dialer, c, "running")
          /\ req' = Sets(req, c, r)
          /\ UNCHANGED <<got, cliEnd>>
  /\ UNCHANGED <<sent, reply, srvEnd, hostvars, workervars, servicevars, bounds>>

\* The goroutine that dials, and puts what comes of it into resultCh.
Connected(c) ==
  /\ dialer[c] = "running" /\ Listening
  /\ dialer' = Sets(dialer, c, "connected")
  /\ cliEnd' = Sets(cliEnd, c, "open")
  /\ srvEnd' = Sets(srvEnd, c, "backlog")
  /\ UNCHANGED <<cli, got, req, sent, reply, hostvars, workervars, servicevars, bounds>>

Refused(c) ==
  /\ dialer[c] = "running" /\ ~Listening
  /\ dialer' = Sets(dialer, c, "refused")
  /\ UNCHANGED <<cli, got, wirevars, hostvars, workervars, servicevars, bounds>>

\* Drain, mutated: the late connection is not closed.
DrainOnly(c) ==
  /\ cli[c] = "done" /\ dialer[c] \in {"connected", "refused"}
  /\ dialer' = Sets(dialer, c, "none")
  /\ UNCHANGED <<cli, got, wirevars, hostvars, workervars, servicevars, bounds>>

\* The second goroutine of dial, after the deadline: it closes a late connection.
Drain(c) ==
  /\ cli[c] = "done" /\ dialer[c] \in {"connected", "refused"}
  /\ dialer' = Sets(dialer, c, "none")
  /\ cliEnd' = IF dialer[c] = "connected" THEN Sets(cliEnd, c, "closed") ELSE cliEnd
  /\ UNCHANGED <<cli, got, req, sent, reply, srvEnd, hostvars, workervars, servicevars,
                bounds>>

\* The select of dial.  A result and the deadline may both be there: either case
\* may be taken.
DialResult(c) ==
  /\ cli[c] = "dial" /\ dialer[c] \in {"connected", "refused"}
  /\ dialer' = Sets(dialer, c, "none")
  /\ \/ dialer[c] = "connected" /\ cli' = Sets(cli, c, "write") /\ UNCHANGED <<got, cliEnd>>
     \/ dialer[c] = "refused" /\ Return(c, Local("connection refused"))
  /\ UNCHANGED <<req, sent, reply, srvEnd, hostvars, workervars, servicevars, bounds>>

DialDeadline(c) ==
  /\ cli[c] = "dial" /\ timeout > 0
  /\ Return(c, Local("context deadline exceeded"))
  /\ UNCHANGED <<dialer, req, sent, reply, srvEnd, hostvars, workervars, servicevars, bounds>>

\* framing.Write.  A write to a connection the other side has closed may be
\* taken or refused.
WriteRequest(c) ==
  /\ cli[c] = "write"
  /\ \/ req[c] \in TooLarge /\ Return(c, Local("frame too large")) /\ UNCHANGED sent
     \/ /\ req[c] \notin TooLarge
        /\ sent' = Sets(sent, c, TRUE)
        /\ cli' = Sets(cli, c, "read")
        /\ UNCHANGED <<got, cliEnd>>
     \/ /\ req[c] \notin TooLarge /\ srvEnd[c] = "closed"
        /\ Return(c, Local("broken pipe"))
        /\ UNCHANGED sent
  /\ UNCHANGED <<dialer, req, reply, srvEnd, hostvars, workervars, servicevars, bounds>>

\* framing.Read: it takes a whole frame, and fails if the other end closes the
\* connection or pipe before one is complete.
ReadFails(whole, closed) == ~whole /\ closed

ReadResponse(c) ==
  /\ cli[c] = "read"
  /\ \/ reply[c] # NoReply /\ Return(c, Remote(reply[c]))
     \/ ReadFails(reply[c] # NoReply, srvEnd[c] = "closed") /\ Return(c, Local("unexpected EOF"))
  /\ UNCHANGED <<dialer, req, sent, reply, srvEnd, hostvars, workervars, servicevars, bounds>>

\* The deadline of the connection.
Deadline(c) ==
  /\ cli[c] \in {"write", "read"} /\ timeout > 0
  /\ Return(c, Local("i/o timeout"))
  /\ UNCHANGED <<dialer, req, sent, reply, srvEnd, hostvars, workervars, servicevars, bounds>>

\* What the command says of a response that is a failure (responseErrorMessage).
MissingToken ==
  NewError("EINVAL", "token-authenticated requests require protocol version 2")
Hint == "authentication token is required; set token in config or pass --token"

ErrorMessage(r, answer) ==
  IF r.version = 1 /\ r.token = "" /\ NewError(answer.code, answer.msg) = MissingToken
  THEN Hint ELSE answer.msg
-----------------------------------------------------------------------------
(* Server.Serve and the life of the daemon.                                 *)

Accept(c) ==
  /\ Listening /\ srvEnd[c] = "backlog"
  /\ srvEnd' = Sets(srvEnd, c, "open")
  /\ handler' = Sets(handler, c, "read")
  /\ UNCHANGED <<clientvars, cliEnd, req, sent, reply, daemon, err, workervars, servicevars,
                bounds>>

\* SIGTERM or SIGINT cancels the context of Serve; a goroutine closes the
\* listener some time later.
Cancel ==
  /\ daemon = "up" /\ exits < MaxExits
  /\ daemon' = "cancelled"
  /\ exits' = exits + 1
  /\ UNCHANGED <<clientvars, wirevars, handler, err, workervars, servicevars, settings, kills>>

CloseListener ==
  /\ daemon = "cancelled"
  /\ daemon' = "closed"
  /\ srvEnd' = [c \in Call |-> IF srvEnd[c] = "backlog" THEN "closed" ELSE srvEnd[c]]
  /\ UNCHANGED <<clientvars, cliEnd, req, sent, reply, handler, err, workervars, servicevars,
                bounds>>

\* The process ends: Serve waits for no handler.  Connections are closed,
\* executions in the daemon itself die; worker processes live on.
Running(c) == handler[c] \notin {"none", "done", "dead"}

Exit(how) ==
  /\ daemon' = how
  /\ handler' = [c \in Call |-> IF Running(c) THEN "dead" ELSE handler[c]]
  /\ srvEnd' = [c \in Call |-> IF srvEnd[c] \in {"backlog", "open"} THEN "closed"
                               ELSE srvEnd[c]]
  /\ phase' = [c \in Call |-> IF handler[c] = "inProcess" /\ phase[c] \in {"busy", "holding"}
                              THEN "dead" ELSE phase[c]]
  /\ UNCHANGED <<clientvars, cliEnd, req, sent, reply, err, workervars, owner, goal, settings,
                kills>>

\* Accept returns "use of closed network connection" and Serve returns nil.
ServeReturns == daemon = "closed" /\ Exit("stopped") /\ UNCHANGED exits

\* Any other error of Accept, one connection's or the listener's, ends Serve.
AcceptFails ==
  /\ Listening /\ exits < MaxExits
  /\ exits' = exits + 1
  /\ Exit("failed")

\* systemd, Restart=on-failure, or an administrator; the file may have changed.
Restart ==
  /\ daemon \in {"failed", "stopped"}
  /\ \E c \in {config} \cup {LoadDaemon(f) : f \in Edited} :
       c # Bad /\ StartsWith(c) /\ config' = c
  /\ daemon' = "up"
  /\ UNCHANGED <<clientvars, wirevars, handler, err, workervars, servicevars, timeout, served,
                exits, kills>>
-----------------------------------------------------------------------------
(* handleConn.                                                              *)

\* The handler has its result, and goes on to write the response.
Answers(c, e) ==
  /\ err' = Sets(err, c, e)
  /\ handler' = Sets(handler, c, "answer")

\* ReadRequest, mutated: no read deadline.
ReadRequestForever(c) ==
  /\ handler[c] = "read"
  /\ \/ sent[c] /\ handler' = Sets(handler, c, "dispatch") /\ UNCHANGED err
     \/ ReadFails(sent[c], cliEnd[c] = "closed") /\ Answers(c, InvalidRequest)
  /\ UNCHANGED <<clientvars, wirevars, daemon, workervars, servicevars, bounds>>

ReadRequest(c) ==
  /\ handler[c] = "read"
  /\ \/ sent[c] /\ handler' = Sets(handler, c, "dispatch") /\ UNCHANGED err
     \/ /\ config.read_timeout > 0 \/ ReadFails(sent[c], cliEnd[c] = "closed")
        /\ Answers(c, InvalidRequest)
  /\ UNCHANGED <<clientvars, wirevars, daemon, workervars, servicevars, bounds>>

\* daemonExecutor.Execute: refuse, execute here, or start a worker process.
Dispatch(c) ==
  /\ handler[c] = "dispatch"
  /\ LET e == Admit(Tokens, req[c])
     IN  \/ /\ e # nil /\ Answers(c, e)
            /\ UNCHANGED <<servicevars, workervars>>
         \/ /\ e = nil /\ DOMAIN Tokens = {}
            /\ handler' = Sets(handler, c, "inProcess")
            /\ Begin(c, req[c].dst)
            /\ UNCHANGED <<err, workervars>>
         \/ /\ e = nil /\ DOMAIN Tokens # {}
            /\ handler' = Sets(handler, c, "stdin")
            /\ wk' = Sets(wk, c, "read")
            /\ cred' = Sets(cred, c, CredentialForIdentity(Tokens[req[c].token], Current))
            /\ UNCHANGED <<err, stdin, stdout, servicevars>>
         \/ /\ e = nil /\ DOMAIN Tokens # {}
            /\ \E errno \in StartErrors : Answers(c, Raw(errno))
            /\ UNCHANGED <<servicevars, workervars>>
  /\ served' = Sets(served, c, config)
  /\ UNCHANGED <<clientvars, wirevars, daemon, config, timeout, exits, kills>>

\* What the service returns when it has come to an end.
ServiceError(c) ==
  CASE phase[c] = "ok"     -> {nil}
    [] phase[c] = "exists" -> {NewError("EEXIST", "destination already exists")}
    [] phase[c] = "failed" ->
         {NewError("ENOENT", "source not found"),
          NewError("EOPNOTSUPP", "reflink is not supported for this source and destination"),
          Raw("EACCES"), Raw("EIO")}
    [] OTHER -> {}

EndInProcess(c) ==
  /\ handler[c] = "inProcess"
  /\ \E e \in ServiceError(c) : Answers(c, e)
  /\ UNCHANGED <<clientvars, wirevars, daemon, workervars, servicevars, bounds>>

\* commandWorker.Execute.  An error of the pipes or of Wait carries no errno that
\* CodeFromError knows.  The frame for the worker is not too large: it is
\* the one that the guest's framing.Write let through, marshalled again.
WorkerEnded(c) == wk[c] \in {"exited", "killed"}

WriteStdin(c) ==
  /\ handler[c] = "stdin"
  /\ \/ /\ ~WorkerEnded(c)
        /\ stdin' = Sets(stdin, c, TRUE)
        /\ handler' = Sets(handler, c, "stdout")
        /\ UNCHANGED err
     \/ WorkerEnded(c) /\ Answers(c, Raw("EPIPE")) /\ UNCHANGED stdin
  /\ UNCHANGED <<clientvars, wirevars, daemon, wk, stdout, cred, servicevars, bounds>>

\* ReadStdout, mutated: the end of the pipe is taken for success.
ReadStdoutLoosely(c) ==
  /\ handler[c] = "stdout"
  /\ stdout[c] # NoReply \/ WorkerEnded(c)
  /\ IF stdout[c].ok \/ stdout[c] = NoReply THEN Answers(c, nil)
     ELSE Answers(c, NewError(stdout[c].code, stdout[c].msg))
  /\ UNCHANGED <<clientvars, wirevars, daemon, workervars, servicevars, bounds>>

\* ReadStdout, mutated: it looks again when the worker is gone.
ReadStdoutForever(c) ==
  /\ handler[c] = "stdout"
  /\ handler' = IF stdout[c] # NoReply THEN Sets(handler, c, "wait") ELSE handler
  /\ UNCHANGED <<err, clientvars, wirevars, daemon, workervars, servicevars, bounds>>

\* A worker's response that is not ok has an error: ResponseFromError writes it.
ReadStdout(c) ==
  /\ handler[c] = "stdout"
  /\ \/ stdout[c] # NoReply /\ handler' = Sets(handler, c, "wait") /\ UNCHANGED err
     \/ ReadFails(stdout[c] # NoReply, WorkerEnded(c)) /\ Answers(c, Raw("ECHILD"))
  /\ UNCHANGED <<clientvars, wirevars, daemon, workervars, servicevars, bounds>>

\* Wait, mutated: a worker that was killed is started once more.
WaitRetries(c) ==
  /\ handler[c] = "wait"
  /\ \/ /\ wk[c] = "exited"
        /\ Answers(c, IF stdout[c].ok THEN nil ELSE NewError(stdout[c].code, stdout[c].msg))
        /\ UNCHANGED <<wk, stdout, phase>>
     \/ /\ wk[c] = "killed"
        /\ wk' = Sets(wk, c, "read")
        /\ stdout' = Sets(stdout, c, NoReply)
        /\ Becomes(c, "idle")
        /\ handler' = Sets(handler, c, "stdout")
        /\ UNCHANGED err
  /\ UNCHANGED <<clientvars, wirevars, daemon, stdin, cred, owner, goal, bounds>>

\* Whatever the response says, a worker that did not exit well has failed.
Wait(c) ==
  /\ handler[c] = "wait"
  /\ \/ /\ wk[c] = "exited"
        /\ Answers(c, IF stdout[c].ok THEN nil ELSE NewError(stdout[c].code, stdout[c].msg))
     \/ wk[c] = "killed" /\ Answers(c, Raw("ECHILD"))
  /\ UNCHANGED <<clientvars, wirevars, daemon, workervars, servicevars, bounds>>

\* Answer, mutated: an error that has no code goes out under its errno.
AnswerUncoded(c) ==
  /\ handler[c] = "answer"
  /\ handler' = Sets(handler, c, "done")
  /\ srvEnd' = Sets(srvEnd, c, "closed")
  /\ reply' = Sets(reply, c, IF err[c] = nil THEN SuccessResponse
                             ELSE FailureResponse(err[c].code, err[c].msg))
  /\ UNCHANGED <<clientvars, cliEnd, req, sent, daemon, err, workervars, servicevars, bounds>>

\* writeResponse, and the deferred Close.
Answer(c) ==
  /\ handler[c] = "answer"
  /\ handler' = Sets(handler, c, "done")
  /\ srvEnd' = Sets(srvEnd, c, "closed")
  /\ \/ reply' = Sets(reply, c, ResponseFromError(err[c]))
     \/ (cliEnd[c] = "closed" \/ config.write_timeout > 0) /\ UNCHANGED reply
  /\ UNCHANGED <<clientvars, cliEnd, req, sent, daemon, err, workervars, servicevars, bounds>>
-----------------------------------------------------------------------------
(* The worker process: runWorker.                                           *)

\* A request cut short is answered with "invalid request", to nobody.
WorkerReads(c) ==
  /\ wk[c] = "read"
  /\ \/ /\ stdin[c]
        /\ wk' = Sets(wk, c, "execute")
        /\ Begin(c, req[c].dst)
     \/ /\ ReadFails(stdin[c], handler[c] = "dead")
        /\ wk' = Sets(wk, c, "exited")
        /\ UNCHANGED servicevars
  /\ UNCHANGED <<clientvars, wirevars, hostvars, stdin, stdout, cred, bounds>>

\* The response; SIGPIPE if the daemon is gone.
WorkerWrites(c) ==
  /\ wk[c] = "execute"
  /\ \E e \in ServiceError(c) :
       \/ /\ handler[c] # "dead"
          /\ stdout' = Sets(stdout, c, ResponseFromError(e))
          /\ wk' = Sets(wk, c, "exiting")
       \/ /\ handler[c] = "dead"
          /\ wk' = Sets(wk, c, "killed")
          /\ UNCHANGED stdout
  /\ UNCHANGED <<clientvars, wirevars, hostvars, stdin, cred, servicevars, bounds>>

WorkerExits(c) ==
  /\ wk[c] = "exiting"
  /\ wk' = Sets(wk, c, "exited")
  /\ UNCHANGED <<clientvars, wirevars, hostvars, stdin, stdout, cred, servicevars, bounds>>

\* Killed from outside: out of memory, or systemd stopping the unit.
WorkerKilled(c) ==
  /\ wk[c] \in {"read", "execute", "exiting"}
  /\ kills < MaxKills
  /\ kills' = kills + 1
  /\ wk' = Sets(wk, c, "killed")
  /\ IF phase[c] \in {"busy", "holding"} THEN Die(c) ELSE UNCHANGED servicevars
  /\ UNCHANGED <<clientvars, wirevars, hostvars, stdin, stdout, cred, settings, exits>>

\* A step of the service, in the daemon or in the worker process.
Serves(c) ==
  /\ handler[c] = "inProcess" \/ wk[c] = "execute"
  /\ Execute(c)
  /\ UNCHANGED <<clientvars, wirevars, hostvars, workervars, bounds>>

\* A guest makes something of a destination.
GuestTakes(t) ==
  /\ ForeignTakes(t)
  /\ UNCHANGED <<clientvars, wirevars, hostvars, workervars, bounds>>
-----------------------------------------------------------------------------
ClientStep(c) ==
  \/ Do(c) \/ DialResult(c) \/ DialDeadline(c) \/ WriteRequest(c) \/ ReadResponse(c)
  \/ Deadline(c)

DialerStep(c) == Connected(c) \/ Refused(c) \/ Drain(c)

HandlerStep(c) ==
  \/ Accept(c) \/ ReadRequest(c) \/ Dispatch(c) \/ EndInProcess(c) \/ WriteStdin(c)
  \/ ReadStdout(c) \/ Wait(c) \/ Answer(c)

WorkerStep(c) == WorkerReads(c) \/ WorkerWrites(c) \/ WorkerExits(c)

Shutdown == CloseListener \/ ServeReturns

Finished ==
  /\ \A c \in Call : cli[c] = "done" /\ dialer[c] = "none" /\ ~Running(c)
  /\ UNCHANGED vars

Next ==
  \/ \E c \in Call : ClientStep(c) \/ DialerStep(c) \/ HandlerStep(c) \/ WorkerStep(c)
                     \/ WorkerKilled(c) \/ Serves(c)
  \/ Cancel \/ AcceptFails \/ Restart \/ Shutdown
  \/ \E t \in Target : GuestTakes(t)
  \/ Finished

Spec == Init /\ [][Next]_vars

\* The host's side is scheduled: goroutines and processes that can take a step,
\* and its timers.  Of the service, only the calls after O_EXCL return for certain:
\* before it os.Open may wait for ever for the writer of a FIFO that has taken the
\* source's name.  Nothing is promised of guests, of faults or of restarts.
HostFairness ==
  /\ \A c \in Call : /\ WF_vars(HandlerStep(c)) /\ WF_vars(WorkerStep(c))
                     /\ WF_vars(phase[c] = "holding" /\ Serves(c))
  /\ WF_vars(Shutdown)

FairSpec == Spec /\ HostFairness

\* A guest that is not paused: its goroutines are scheduled too.
GuestFairness == \A c \in Call : WF_vars(ClientStep(c)) /\ WF_vars(DialerStep(c))

\* No guest puts a FIFO in the place of a source while a call is at it: the call
\* comes to an end.
ExecutionsReturn == \A c \in Call : WF_vars(Serves(c))
-----------------------------------------------------------------------------
(* Properties.                                                              *)

\* What the guest is told is what happened: if Do returns a success, the call's
\* own worker owns the destination, whatever died, timed out or raced on the way.
OkMeansDone ==
  \A c \in Call : got[c].ok => owner[req[c].dst] = c

\* A refusal is final: a call that is told EEXIST, or that its token is invalid,
\* or that could not even connect, has created nothing and will not, though it
\* left a goroutine, a handler or a process behind.  (A deadline or EINVAL tells
\* nothing: the host may have done the work, or be about to.  Nor does "permission
\* denied": the cleanup after it may fail too.)
Refusal(answer) ==
  \/ /\ answer.from = "daemon"
     /\ answer.code = "EEXIST" \/ answer.msg = "invalid authentication token"
  \/ answer.from = "client" /\ answer.code \in {"invalid", "context deadline exceeded",
                                                "connection refused", "frame too large"}

RefusalIsFinal ==
  \A c \in Call : Refusal(got[c]) => \A t \in Target : owner[t] # c

\* Process p runs as what entry e of the file configures, to the last supplementary
\* group; the primary one may be listed among them or not, and one more than once.
RunsAs(p, e) ==
  /\ p.uid = e.uid.id /\ p.gid = e.gid.id
  /\ ToSet(p.groups) \ {p.gid} = ToSet(e.groups) \ {p.gid}

\* Nothing is created but on behalf of a token that is written, apart from spaces
\* around it, in the file of the daemon that dispatched the call, and by a process
\* that runs as what that entry of the file says; without tokens, only for the
\* unauthenticated protocol that allow_v1_fallback permits.  (A worker outlives its
\* daemon: the file may have lost the token before the worker is done.)
EffectIsAuthorized ==
  \A c \in Call, t \in Target : owner[t] = c =>
    IF served[c].tokens = << >> THEN served[c].allow_v1_fallback /\ req[c].version = 1
    ELSE /\ req[c].version = 2
         /\ \E i \in DOMAIN served[c].tokens :
              /\ TrimSpace(served[c].tokens[i].token) = req[c].token
              /\ RunsAs(Effective(cred[c], Process), served[c].tokens[i])

\* A user is told to set a token if and only if the daemon that took up the request
\* knows tokens and the command had none: the two programs agree on an error text.
HintIsRight ==
  \A c \in Call : got[c].from = "daemon" /\ served[c] # Bad =>
    (ErrorMessage(req[c], got[c]) = Hint <=> served[c].tokens # << >> /\ req[c].token = "")

\* "source not found" comes from the service, which has looked for it.
EnoentMeansSourceMissing ==
  \A c \in Call : got[c] = Remote(FailureResponse("ENOENT", "source not found")) =>
                    phase[c] = "failed"

\* A guest that stalls, is paused or dies in the middle of a request does not
\* hold a goroutine of the daemon for ever, if there is a read timeout: it ends, or
\* gets as far as the service, which has not claimed the destination yet.
HandlersFinish ==
  \A c \in Call : handler[c] = "read" /\ config.read_timeout > 0
                    ~> ~Running(c) \/ phase[c] = "busy"

\* On a guest that runs, and has no FIFO under way, Do returns, even without a
\* timeout of its own: handlers, workers and the daemon may die, but not without
\* closing the connection.
DoReturns ==
  GuestFairness /\ ExecutionsReturn => \A c \in Call : cli[c] = "dial" ~> cli[c] = "done"

\* On such a guest no connection is left open behind Do, not even one that came up
\* after the deadline had been reported.
ConnectionsAreClosed ==
  GuestFairness /\ ExecutionsReturn =>
    \A c \in Call : cliEnd[c] = "open" ~> cliEnd[c] = "closed"
=============================================================================
