-------------------------------- MODULE Auth --------------------------------
(***************************************************************************)
(* Who a request acts as: internal/auth, which turns the [[tokens]] of the   *)
(* daemon's configuration into a map from token to host identity, and the    *)
(* part of cmd/vreflinkd that gates a request by it and picks the            *)
(* credentials of the worker process.                                       *)
(***************************************************************************)
EXTENDS Naturals, Sequences, SequencesExt, FiniteSets, Protocol

CONSTANTS
  TrimSpace(_)   \* strings.TrimSpace; external

NoId == [set |-> FALSE, id |-> 0]        \* a uid or gid that is not configured
Id(n) == [set |-> TRUE, id |-> n]

Entry == [token : STRING, uid : {NoId} \cup [set : {TRUE}, id : Nat],
          gid : {NoId} \cup [set : {TRUE}, id : Nat], groups : Seq(Nat)]

\* What a loop with "continue" appends: the groups at the places it keeps, in order.
Appended(groups, kept) ==
  [n \in 1 .. Cardinality(kept) |->
     groups[CHOOSE i \in kept : Cardinality({j \in kept : j <= i}) = n]]

\* A list of supplementary groups without the primary one and repetitions.
NormalizeGroups(groups, primary) ==
  Appended(groups, {i \in DOMAIN groups : /\ groups[i] # primary
                                          /\ \A j \in 1 .. i - 1 : groups[j] # groups[i]})

\* What is wrong with entry i of the list, in the order of the checks.
Malformed(entries, i) ==
  LET e == entries[i]
  IN  \/ TrimSpace(e.token) = ""
      \/ ~e.uid.set
      \/ ~e.gid.set
      \/ \E j \in 1 .. i - 1 : TrimSpace(entries[j].token) = TrimSpace(e.token)

\* NewTokenMapFromEntries: an empty map stands for nil, which it returns, without
\* an error, if there is no entry.
TokenMapError(entries) == \E i \in DOMAIN entries : Malformed(entries, i)

TokenMap(entries) ==
  [token \in {TrimSpace(entries[i].token) : i \in DOMAIN entries} |->
     LET e == entries[CHOOSE i \in DOMAIN entries : TrimSpace(entries[i].token) = token]
     IN  [uid |-> e.uid.id, gid |-> e.gid.id, groups |-> NormalizeGroups(e.groups, e.gid.id)]]

\* loadRuntimeTokenMap: may the daemon start?
StartsWith(config) ==
  /\ ~TokenMapError(config.tokens)
  /\ config.tokens # << >> \/ config.allow_v1_fallback

\* Admit, mutated: the token is looked up before the version.
AdmitTokenFirst(map, r) ==
  IF DOMAIN map = {}
  THEN IF r.version = 1 THEN nil
       ELSE NewError("EINVAL", "token authentication is not configured")
  ELSE IF r.token \notin DOMAIN map THEN NewError("EPERM", "invalid authentication token")
  ELSE Validate(r)

\* daemonExecutor.Execute, up to the call of the service or of the worker.  The
\* paths are looked at later, by the service.
Admit(map, r) ==
  CASE DOMAIN map = {} /\ r.version = 1  -> nil
    [] DOMAIN map = {} /\ r.version # 1 ->
         IF Validate(r) # nil THEN Validate(r)
         ELSE NewError("EINVAL", "token authentication is not configured")
    [] DOMAIN map # {} ->
         IF Validate(r) # nil THEN Validate(r)
         ELSE IF r.version # 2
         THEN NewError("EINVAL", "token-authenticated requests require protocol version 2")
         ELSE IF r.token \notin DOMAIN map
         THEN NewError("EPERM", "invalid authentication token")
         ELSE nil

\* sameGroupSet: equal once both are sorted, so repetitions count.
Occurrences(groups, g) == {i \in DOMAIN groups : groups[i] = g}

SameGroupSet(left, right) ==
  /\ Len(left) = Len(right)
  /\ \A g \in ToSet(left) \cup ToSet(right) :
       Cardinality(Occurrences(left, g)) = Cardinality(Occurrences(right, g))

\* currentProcessIdentity: the daemon's own identity as Getuid, Getgid and Getgroups
\* tell it, without the primary group; repetitions stay.  (A group is never negative
\* where int has 64 bits.)  If Getgroups fails the daemon does not start.
CurrentProcessIdentity(process) ==
  [process EXCEPT !.groups =
     Appended(@, {i \in DOMAIN @ : @[i] >= 0 /\ @[i] # process.gid})]

\* The credentials a child is given, an identity, or none if it may keep the daemon's.
NoCredential == [inherit |-> TRUE]

\* CredentialForIdentity, mutated: the groups are not compared.
CredentialByOwner(identity, current) ==
  IF identity.uid = current.uid /\ identity.gid = current.gid THEN NoCredential ELSE identity

CredentialForIdentity(identity, current) ==
  IF /\ identity.uid = current.uid
     /\ identity.gid = current.gid
     /\ SameGroupSet(identity.groups, current.groups)
  THEN NoCredential ELSE identity

\* Who the child then is: exec without a Credential inherits what the process has.
Effective(credential, process) ==
  IF credential = NoCredential THEN process ELSE credential
=============================================================================
