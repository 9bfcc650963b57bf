-------------------------- MODULE ExclusiveCreate --------------------------
(***************************************************************************)
(* What Service.Execute promises about single-file requests, whatever system *)
(* calls it takes: a call either claims a free destination for itself and    *)
(* keeps it, or fails; the name is claimed by nobody else meanwhile.         *)
(* FileReflink implements this; Rpc carries requests to it and answers back. *)
(***************************************************************************)
CONSTANTS
  Call,      \* the calls of Execute
  Target,    \* the destinations they may be for
  Nobody,    \* the owner of a name that is free
  Foreign    \* the owner of a name no call created, or that was copied to it

ASSUME OwnerAssumption == Nobody \notin Call /\ Foreign \notin Call /\ Nobody # Foreign

VARIABLES
  owner,     \* [Target -> Call, Nobody or Foreign]: whose file the name denotes
  phase,     \* [Call -> Phase]
  goal       \* [Call -> Target]: the destination of the call

servicevars == <<owner, phase, goal>>

Phase == {"idle", "busy", "holding", "ok", "exists", "failed", "dead"}

ServiceTypeOK ==
  /\ owner \in [Target -> Call \cup {Nobody, Foreign}]
  /\ phase \in [Call -> Phase]
  /\ goal \in [Call -> Target]

ServiceInit ==
  /\ owner \in [Target -> {Nobody, Foreign}]
  /\ phase = [c \in Call |-> "idle"]
  /\ goal \in [Call -> Target]

Becomes(c, p) == phase' = [phase EXCEPT ![c] = p]

\* The request is taken up, or refused for what it says.
Begin(c, t) ==
  /\ phase[c] = "idle"
  /\ goal' = [goal EXCEPT ![c] = t]
  /\ Becomes(c, "busy") \/ Becomes(c, "failed")
  /\ UNCHANGED owner

\* The destination was free and is the call's own from now on.
Claim(c) ==
  /\ phase[c] = "busy"
  /\ owner[goal[c]] = Nobody
  /\ owner' = [owner EXCEPT ![goal[c]] = c]
  /\ Becomes(c, "holding")
  /\ UNCHANGED goal

\* EEXIST: the destination is there.
Occupied(c) ==
  /\ phase[c] = "busy"
  /\ owner[goal[c]] # Nobody
  /\ Becomes(c, "exists")
  /\ UNCHANGED <<owner, goal>>

\* Any other reason to fail before anything was created.
Refuse(c) ==
  /\ phase[c] = "busy"
  /\ Becomes(c, "failed")
  /\ UNCHANGED <<owner, goal>>

Commit(c) ==
  /\ phase[c] = "holding"
  /\ Becomes(c, "ok")
  /\ UNCHANGED <<owner, goal>>

\* A late failure, after which the deferred cleanup removes the file.
Withdraw(c) ==
  /\ phase[c] = "holding"
  /\ owner' = [owner EXCEPT ![goal[c]] = Nobody]
  /\ Becomes(c, "failed")
  /\ UNCHANGED goal

\* A late failure that leaves the file: of Close, or of the cleanup itself.
Abandon(c) ==
  /\ phase[c] = "holding"
  /\ Becomes(c, "failed")
  /\ UNCHANGED <<owner, goal>>

\* The process dies, what it has created stays.
Die(c) ==
  /\ phase[c] \in {"busy", "holding"}
  /\ Becomes(c, "dead")
  /\ UNCHANGED <<owner, goal>>

\* Somebody else makes something of a free name, perhaps a link to the very file
\* that a call had there until it failed.
ForeignTakes(t) ==
  /\ owner[t] = Nobody
  /\ \E o \in {Foreign} \cup {c \in Call : phase[c] = "failed" /\ goal[c] = t} :
       owner' = [owner EXCEPT ![t] = o]
  /\ UNCHANGED <<phase, goal>>

Execute(c) == Claim(c) \/ Occupied(c) \/ Refuse(c) \/ Commit(c) \/ Withdraw(c) \/ Abandon(c)

ServiceNext ==
  \/ \E c \in Call : (\E t \in Target : Begin(c, t)) \/ Execute(c) \/ Die(c)
  \/ \E t \in Target : ForeignTakes(t)

ServiceSpec == ServiceInit /\ [][ServiceNext]_servicevars

\* A call that ended well owns its destination: two calls for the same one never
\* both succeed, and nobody takes a finished file away.
OkOwns == \A c \in Call : phase[c] = "ok" => owner[goal[c]] = c
=============================================================================
