-------------------------- MODULE GuestConfigProofs --------------------------
(***************************************************************************)
(* Proofs about GuestConfig: what "config init" leaves behind and replaces,  *)
(* and what a command makes of a malformed config.toml, for any number of    *)
(* installers and commands, any contents of the files and any edits.         *)
(***************************************************************************)
EXTENDS GuestConfig, Induction, SequenceTheorems

\* What an installer knows where it is: its temporary file is there from create
\* on, complete from chmod on, and gone at the end; past stat, without --force,
\* the name was free at some moment.
InstallerInv(i) ==
  /\ ipc[i] \in {"idle", "stat", "mkdir", "create", "ok", "exists", "failed"} =>
       temp[i] = Absent
  /\ ipc[i] \in {"chmod", "close", "rename"} => temp[i] = Template
  /\ ipc[i] \in {"write", "chmod", "close", "rename", "mkdir", "create", "ok"} =>
       force[i] \/ free[i]

\* Where the result of a command comes from: from a config.toml of one moment, or,
\* if that was not there, from the legacy file of another.
FromTOML(c, f) ==
  /\ f[1] # Absent /\ f[1] # Half /\ f[1] \in TomlFile \cup {Template}
  /\ result[c] = Resolve(given[c], LoadCLITOML(f[1], DefaultCLI))

FromLegacy(c, f) ==
  /\ f[2] \in LegacyFile \cup {Absent}
  /\ result[c] = Resolve(given[c], IF f[2] = Absent THEN DefaultCLI
                                   ELSE LoadCLILegacy(f[2], DefaultCLI))

\* What a command knows where it is: it has seen the files as they are, it goes on
\* to the legacy file only if config.toml was not there, and where it ends.
CommandInv(c) ==
  /\ Loading(c) => files \in seen[c]
  /\ cpc[c] = "legacy" => \E f \in seen[c] : f[1] = Absent
  /\ cpc[c] # "done" => result[c] = Bad
  /\ cpc[c] = "done" =>
       \/ \E f \in seen[c] : FromTOML(c, f)
       \/ \E f, g \in seen[c] : f[1] = Absent /\ FromLegacy(c, g)

\* The types, but for the values of the settings a command ends with.
Shape ==
  /\ toml \in TomlFile \cup {Absent, Template, Half}
  /\ legacy \in LegacyFile \cup {Absent}
  /\ ipc \in [Installer -> {"idle", "stat", "mkdir", "create", "write", "chmod", "close",
                            "rename", "remove", "ok", "exists", "failed", "littered", "dead"}]
  /\ force \in [Installer -> BOOLEAN]
  /\ temp \in [Installer -> {Absent, Half, Template}]
  /\ cpc \in [Command -> {"idle", "toml", "legacy", "done"}]
  /\ given \in [Command -> Given]
  /\ edits \in 0 .. MaxEdits /\ deaths \in 0 .. MaxDeaths

HistoryType ==
  /\ result = [c \in Command |-> result[c]]
  /\ seen = [c \in Command |-> seen[c]]
  /\ free \in [Installer -> BOOLEAN]

Inv ==
  /\ Shape
  /\ HistoryType
  /\ toml # Half
  /\ \A i \in Installer : InstallerInv(i)
  /\ \A c \in Command : CommandInv(c)
-----------------------------------------------------------------------------
(* Lemmas about loading.                                                    *)

\* A file that is not there is not malformed, and a malformed one gives no settings.
LEMMA AbsentIsNotBroken == ~BrokenTOML(Absent)
BY ContentAssumption DEF BrokenTOML

LEMMA BrokenIsBad ==
  ASSUME NEW t, t # Absent, BrokenTOML(t)
  PROVE  LoadCLITOML(IF t = Half THEN Bad ELSE t, DefaultCLI) = Bad
<1>1. CASE t \in {Bad, Half}
  BY <1>1 DEF LoadCLITOML, Decodes
<1>2. CASE t \notin {Bad, Half} /\ ("version" \notin DOMAIN t \/ t.version # 1)
  BY <1>2 DEF LoadCLITOML, Decodes
<1>3. CASE /\ t \notin {Bad, Half} /\ "timeout" \in DOMAIN t /\ TrimSpace(t.timeout) # ""
           /\ ParseDuration(TrimSpace(t.timeout)) = Bad
  BY <1>3 DEF LoadCLITOML, Lasting, TextAt
<1> QED
  BY <1>1, <1>2, <1>3 DEF BrokenTOML

LEMMA ResolveFacts == \A g : Resolve(g, Bad) = Bad
BY DEF Resolve
-----------------------------------------------------------------------------
(* Every action keeps the invariant.                                        *)

\* The history grows, and holds the present while a command loads.
LEMMA ObserveFacts ==
  ASSUME HistoryType, Observe
  PROVE  /\ HistoryType' <=> result' = [c \in Command |-> result'[c]]
         /\ \A c \in Command : seen[c] \subseteq seen'[c]
         /\ \A c \in Command : Loading(c)' => files' \in seen'[c]
         /\ \A i \in Installer : free[i] => free'[i]
         /\ \A i \in Installer : Installing(i)' /\ toml' = Absent => free'[i]
<1>1. seen' = [c \in Command |-> seen'[c]] /\ free' \in [Installer -> BOOLEAN]
  BY DEF HistoryType, Observe
<1>2. \A c \in Command : seen[c] \subseteq seen'[c] /\ (Loading(c)' => files' \in seen'[c])
  BY DEF Observe
<1>3. \A i \in Installer : /\ free[i] => free'[i]
                           /\ Installing(i)' /\ toml' = Absent => free'[i]
  BY DEF Observe
<1> QED
  BY <1>1, <1>2, <1>3 DEF HistoryType

LEMMA CommandKept ==
  ASSUME HistoryType, Observe, NEW c \in Command, CommandInv(c),
         cpc'[c] = cpc[c], result'[c] = result[c], given'[c] = given[c]
  PROVE  CommandInv(c)'
<1>1. seen[c] \subseteq seen'[c] /\ (Loading(c)' => files' \in seen'[c])
  BY ObserveFacts
<1>2. \A f : (FromTOML(c, f) => FromTOML(c, f)') /\ (FromLegacy(c, f) => FromLegacy(c, f)')
  BY DEF FromTOML, FromLegacy
<1> QED
  BY <1>1, <1>2 DEF CommandInv

LEMMA InstallerKept ==
  ASSUME HistoryType, Observe, NEW i \in Installer, InstallerInv(i),
         ipc'[i] = ipc[i], temp'[i] = temp[i], force'[i] = force[i]
  PROVE  InstallerInv(i)'
BY ObserveFacts DEF InstallerInv

\* A step of an installer that leaves the commands alone.
LEMMA InstallerStepKeeps ==
  ASSUME Inv, Observe, UNCHANGED <<legacy, commandvars, edits>>, NEW i \in Installer,
         toml' \in {toml, Template}, deaths' \in 0 .. MaxDeaths,
         NEW pc \in {"idle", "stat", "mkdir", "create", "write", "chmod", "close",
                     "rename", "remove", "ok", "exists", "failed", "littered", "dead"},
         NEW t \in {Absent, Half, Template}, NEW f \in BOOLEAN,
         ipc' = [ipc EXCEPT ![i] = pc], temp' = [temp EXCEPT ![i] = t],
         force' = [force EXCEPT ![i] = f], InstallerInv(i)'
  PROVE  Inv'
<1>1. \A c \in Command : CommandInv(c)'
  BY CommandKept DEF Inv, commandvars
<1>2. \A j \in Installer : InstallerInv(j)'
  <2> SUFFICES ASSUME NEW j \in Installer, j # i PROVE InstallerInv(j)'
    OBVIOUS
  <2>1. ipc'[j] = ipc[j] /\ temp'[j] = temp[j] /\ force'[j] = force[j]
    BY DEF Inv, Shape
  <2> QED
    BY <2>1, InstallerKept DEF Inv
<1>3. HistoryType'
  BY ObserveFacts DEF Inv, HistoryType, commandvars
<1>4. toml' # Half
  BY ContentAssumption DEF Inv
<1>5. Shape'
  BY DEF Inv, Shape, commandvars
<1> QED
  BY <1>1, <1>2, <1>3, <1>4, <1>5 DEF Inv

\* The calls of WriteTemplate that go from one pc to the next or fail.
LEMMA CallFacts ==
  ASSUME Inv, NEW i \in Installer, NEW at, NEW next, Call(i, at, next)
  PROVE  /\ Observe /\ UNCHANGED <<files, force, commandvars, bounds>>
         /\ ipc[i] = at
         /\ \/ ipc' = [ipc EXCEPT ![i] = next]
            \/ temp[i] = Absent /\ ipc' = [ipc EXCEPT ![i] = "failed"]
            \/ temp[i] # Absent /\ ipc' = [ipc EXCEPT ![i] = "remove"]
BY DEF Call, ToStep, Fails

\* A call that does not touch the temporary file.
LEMMA PlainCallKeeps ==
  ASSUME Inv, NEW i \in Installer,
         NEW at \in {"stat", "mkdir", "chmod", "close"},
         NEW next \in {"mkdir", "create", "close", "rename", "exists"},
         Call(i, at, next), UNCHANGED temp,
         at = "stat" => next = "exists" \/ (next = "mkdir" /\ toml = Absent),
         at = "mkdir" => next = "create",
         at = "chmod" => next = "close",
         at = "close" => next = "rename"
  PROVE  Inv'
<1>1. /\ Observe /\ UNCHANGED <<files, force, commandvars, bounds>>
      /\ ipc[i] = at
      /\ \/ ipc' = [ipc EXCEPT ![i] = next]
         \/ temp[i] = Absent /\ ipc' = [ipc EXCEPT ![i] = "failed"]
         \/ temp[i] # Absent /\ ipc' = [ipc EXCEPT ![i] = "remove"]
  BY CallFacts, Zenon
<1>2. /\ ipc \in [Installer -> {"idle", "stat", "mkdir", "create", "write", "chmod", "close",
                                "rename", "remove", "ok", "exists", "failed", "littered", "dead"}]
      /\ temp \in [Installer -> {Absent, Half, Template}] /\ force \in [Installer -> BOOLEAN]
      /\ HistoryType /\ InstallerInv(i) /\ deaths \in 0 .. MaxDeaths
  BY DEF Inv, Shape
<1>3. /\ free[i] => free'[i]
      /\ Installing(i)' /\ toml' = Absent => free'[i]
  BY <1>1, <1>2, ObserveFacts
<1>4. /\ temp' = [temp EXCEPT ![i] = temp[i]] /\ force' = [force EXCEPT ![i] = force[i]]
      /\ toml' = toml /\ legacy' = legacy /\ UNCHANGED <<commandvars, edits, deaths>>
  BY <1>1, <1>2 DEF files, bounds
<1>5. ASSUME ipc' = [ipc EXCEPT ![i] = next] PROVE Inv'
  <2>1. InstallerInv(i)'
    BY <1>1, <1>2, <1>3, <1>4, <1>5 DEF InstallerInv, Installing
  <2> QED
    BY <1>1, <1>2, <1>4, <1>5, <2>1, InstallerStepKeeps
<1>6. ASSUME NEW pc \in {"failed", "remove"}, ipc' = [ipc EXCEPT ![i] = pc],
             pc = "failed" => temp[i] = Absent
      PROVE  Inv'
  <2>1. InstallerInv(i)'
    BY <1>1, <1>2, <1>3, <1>4, <1>6 DEF InstallerInv
  <2> QED
    BY <1>1, <1>2, <1>4, <1>6, <2>1, InstallerStepKeeps
<1> QED
  BY <1>1, <1>5, <1>6

\* A step of one installer takes it to pc, with temporary file t, and keeps what
\* there is to say of it.
Moves(i, pc, t) ==
  /\ ipc' = [ipc EXCEPT ![i] = pc] /\ temp' = [temp EXCEPT ![i] = t]
  /\ UNCHANGED <<legacy, force, commandvars, edits>>

LEMMA MoveKeeps ==
  ASSUME Inv, Observe, NEW i \in Installer,
         NEW pc \in {"write", "chmod", "remove", "ok", "failed", "littered", "dead"},
         NEW t \in {Absent, Half, Template}, Moves(i, pc, t),
         toml' \in {toml, Template}, deaths' \in 0 .. MaxDeaths,
         pc \in {"write", "chmod", "ok"} => force[i] \/ free[i],
         pc \in {"ok", "failed"} => t = Absent, pc = "chmod" => t = Template
  PROVE  Inv'
<1>1. /\ ipc \in [Installer -> {"idle", "stat", "mkdir", "create", "write", "chmod", "close",
                                "rename", "remove", "ok", "exists", "failed", "littered", "dead"}]
      /\ temp \in [Installer -> {Absent, Half, Template}] /\ force \in [Installer -> BOOLEAN]
      /\ HistoryType
  BY DEF Inv, Shape
<1>2. free[i] => free'[i]
  BY <1>1, ObserveFacts
<1>3. /\ ipc' = [ipc EXCEPT ![i] = pc] /\ temp' = [temp EXCEPT ![i] = t]
      /\ force' = [force EXCEPT ![i] = force[i]] /\ UNCHANGED <<legacy, commandvars, edits>>
  BY <1>1 DEF Moves
<1>4. InstallerInv(i)'
  BY <1>1, <1>2, <1>3 DEF InstallerInv
<1> QED
  BY <1>1, <1>3, <1>4, InstallerStepKeeps

LEMMA ConfigInitKeeps ==
  ASSUME Inv, NEW i \in Installer, ConfigInit(i)
  PROVE  Inv'
<1>1. PICK f \in BOOLEAN : /\ force' = [force EXCEPT ![i] = f]
                           /\ ToStep(i, IF f THEN "mkdir" ELSE "stat")
  BY DEF ConfigInit
<1>2. /\ Observe /\ UNCHANGED <<files, temp, commandvars, bounds>> /\ ipc[i] = "idle"
  BY DEF ConfigInit
<1>3. /\ temp' = [temp EXCEPT ![i] = temp[i]] /\ temp[i] = Absent
      /\ toml' = toml /\ UNCHANGED <<legacy, commandvars, edits>> /\ deaths' \in 0 .. MaxDeaths
  BY <1>2 DEF Inv, Shape, InstallerInv, files, bounds
<1>4. PICK pc \in {"mkdir", "stat"} : ipc' = [ipc EXCEPT ![i] = pc] /\ (pc = "mkdir" => f)
  BY <1>1 DEF ToStep
<1>5. InstallerInv(i)'
  BY <1>1, <1>3, <1>4 DEF Inv, Shape, InstallerInv
<1> QED
  BY <1>1, <1>2, <1>3, <1>4, <1>5, InstallerStepKeeps

LEMMA CreateTempKeeps ==
  ASSUME Inv, NEW i \in Installer, CreateTemp(i)
  PROVE  Inv'
<1>1. /\ Observe /\ UNCHANGED <<files, force, commandvars, bounds>>
      /\ ipc[i] = "create"
      /\ \/ ipc' = [ipc EXCEPT ![i] = "write"]
         \/ temp[i] = Absent /\ ipc' = [ipc EXCEPT ![i] = "failed"]
         \/ temp[i] # Absent /\ ipc' = [ipc EXCEPT ![i] = "remove"]
  BY CallFacts DEF CreateTemp
<1>2. temp[i] = Absent /\ (force[i] \/ free[i])
  BY <1>1 DEF Inv, InstallerInv
<1>3. /\ toml' = toml /\ deaths' \in 0 .. MaxDeaths /\ UNCHANGED <<legacy, force, commandvars, edits>>
  BY <1>1 DEF Inv, Shape, files, bounds
<1>4. \/ Moves(i, "write", Half)
      \/ Moves(i, "failed", Absent)
  BY <1>1, <1>2, <1>3 DEF Inv, Shape, CreateTemp, Moves
<1> QED
  BY <1>1, <1>2, <1>3, <1>4, MoveKeeps

LEMMA WriteKeeps ==
  ASSUME Inv, NEW i \in Installer, Write(i)
  PROVE  Inv'
<1>1. /\ Observe /\ UNCHANGED <<files, force, commandvars, bounds>>
      /\ ipc[i] = "write"
      /\ \/ ipc' = [ipc EXCEPT ![i] = "chmod"]
         \/ temp[i] = Absent /\ ipc' = [ipc EXCEPT ![i] = "failed"]
         \/ temp[i] # Absent /\ ipc' = [ipc EXCEPT ![i] = "remove"]
  BY CallFacts DEF Write
<1>2. temp[i] \in {Absent, Half, Template} /\ (force[i] \/ free[i])
  BY <1>1 DEF Inv, Shape, InstallerInv
<1>3. /\ toml' = toml /\ deaths' \in 0 .. MaxDeaths /\ UNCHANGED <<legacy, force, commandvars, edits>>
  BY <1>1 DEF Inv, Shape, files, bounds
<1>4. \/ Moves(i, "chmod", Template)
      \/ temp[i] = Absent /\ Moves(i, "failed", Absent)
      \/ Moves(i, "remove", temp[i])
  BY <1>1, <1>2, <1>3 DEF Inv, Shape, Write, Moves
<1> QED
  BY <1>1, <1>2, <1>3, <1>4, MoveKeeps

LEMMA RenameKeeps ==
  ASSUME Inv, NEW i \in Installer, Rename(i)
  PROVE  Inv'
<1>1. temp[i] = Template /\ (force[i] \/ free[i])
  BY DEF Inv, InstallerInv, Rename
<1>2. /\ Observe /\ UNCHANGED <<legacy, force, commandvars, edits>>
      /\ deaths' \in 0 .. MaxDeaths /\ toml' \in {toml, Template}
  BY <1>1 DEF Inv, Shape, Rename, bounds
<1>3. \/ Moves(i, "ok", Absent)
      \/ temp[i] = Absent /\ Moves(i, "failed", Absent)
      \/ Moves(i, "remove", Template)
  BY <1>1, <1>2 DEF Inv, Shape, Rename, ToStep, Fails, Moves
<1> QED
  BY <1>1, <1>2, <1>3, MoveKeeps

LEMMA RemoveTempKeeps ==
  ASSUME Inv, NEW i \in Installer, RemoveTemp(i)
  PROVE  Inv'
<1>1. /\ Observe /\ toml' = toml /\ deaths' \in 0 .. MaxDeaths
      /\ UNCHANGED <<legacy, force, commandvars, edits>>
  BY DEF Inv, Shape, RemoveTemp, files, bounds
<1>2. temp[i] \in {Absent, Half, Template} /\ temp = [temp EXCEPT ![i] = temp[i]]
  BY DEF Inv, Shape
<1>3. Moves(i, "failed", Absent) \/ Moves(i, "littered", temp[i])
  BY <1>1, <1>2 DEF RemoveTemp, ToStep, Moves
<1> QED
  BY <1>1, <1>2, <1>3, MoveKeeps

LEMMA KilledKeeps ==
  ASSUME Inv, NEW i \in Installer, Killed(i)
  PROVE  Inv'
<1>1. /\ Observe /\ toml' = toml /\ deaths' \in 0 .. MaxDeaths /\ Moves(i, "dead", temp[i])
  BY ContentAssumption DEF Inv, Shape, Killed, ToStep, Moves, files
<1>2. temp[i] \in {Absent, Half, Template}
  BY DEF Inv, Shape
<1> QED
  BY <1>1, <1>2, MoveKeeps

\* A step of a command that leaves the installers and the files alone.
LEMMA CommandStepKeeps ==
  ASSUME Inv, Observe, UNCHANGED <<files, installvars, given, bounds>>, NEW c \in Command,
         NEW pc \in {"idle", "toml", "legacy", "done"}, NEW r,
         cpc' = [cpc EXCEPT ![c] = pc], result' = [result EXCEPT ![c] = r], CommandInv(c)'
  PROVE  Inv'
<1>1. \A i \in Installer : InstallerInv(i)'
  BY InstallerKept DEF Inv, installvars
<1>2. \A d \in Command : CommandInv(d)'
  <2> SUFFICES ASSUME NEW d \in Command, d # c PROVE CommandInv(d)'
    OBVIOUS
  <2>1. cpc'[d] = cpc[d] /\ result'[d] = result[d] /\ given'[d] = given[d]
    BY DEF Inv, Shape, HistoryType
  <2> QED
    BY <2>1, CommandKept DEF Inv
<1>3. result' = [d \in Command |-> result'[d]]
  BY DEF Inv, HistoryType
<1>4. HistoryType'
  BY <1>3, ObserveFacts DEF Inv
<1>5. Shape'
  BY DEF Inv, Shape, files, installvars, bounds
<1> QED
  BY <1>1, <1>2, <1>4, <1>5 DEF Inv, files

LEMMA RunKeeps ==
  ASSUME Inv, NEW c \in Command, Run(c)
  PROVE  Inv'
<1>1. /\ Observe /\ UNCHANGED <<files, installvars, given, bounds>>
      /\ cpc' = [cpc EXCEPT ![c] = "toml"] /\ result' = [result EXCEPT ![c] = result[c]]
  BY DEF Inv, Shape, HistoryType, Run
<1>2. cpc'[c] = "toml" /\ result'[c] = Bad
  BY <1>1 DEF Inv, Shape, HistoryType, CommandInv, Run
<1>3. CommandInv(c)'
  BY <1>1, <1>2, ObserveFacts DEF Inv, CommandInv
<1> QED
  BY <1>1, <1>3, CommandStepKeeps

LEMMA ReadTOMLKeeps ==
  ASSUME Inv, NEW c \in Command, ReadTOML(c)
  PROVE  Inv'
<1>1. /\ Observe /\ UNCHANGED <<files, installvars, given, bounds>>
      /\ files \in seen[c] /\ seen[c] \subseteq seen'[c]
      /\ (Loading(c)' => files' \in seen'[c])
      /\ result[c] = Bad
  BY ObserveFacts DEF Inv, Shape, CommandInv, ReadTOML, Loading
<1>2. CASE toml = Absent
  <2>1. cpc' = [cpc EXCEPT ![c] = "legacy"] /\ result' = [result EXCEPT ![c] = result[c]]
    BY <1>2 DEF Inv, HistoryType, ReadTOML
  <2>2. cpc'[c] = "legacy" /\ result'[c] = Bad
    BY <1>1, <2>1 DEF Inv, Shape, HistoryType
  <2>3. CommandInv(c)'
    BY <1>1, <1>2, <2>2 DEF CommandInv, files
  <2> QED
    BY <1>1, <2>1, <2>3, CommandStepKeeps
<1>3. CASE toml # Absent
  <2> DEFINE r == Resolve(given[c], LoadCLITOML(toml, DefaultCLI))
  <2>1. toml # Half /\ toml \in TomlFile \cup {Template}
    BY <1>3 DEF Inv, Shape
  <2>2. cpc' = [cpc EXCEPT ![c] = "done"] /\ result' = [result EXCEPT ![c] = r]
    BY <1>3, <2>1 DEF ReadTOML, Ends
  <2>3. cpc'[c] = "done" /\ result'[c] = r
    BY <2>2 DEF Inv, Shape, HistoryType
  <2>4. FromTOML(c, files)'
    BY <1>1, <1>3, <2>1, <2>3 DEF FromTOML, files
  <2>5. CommandInv(c)'
    BY <1>1, <2>3, <2>4 DEF CommandInv, Loading
  <2> QED
    BY <1>1, <2>2, <2>5, CommandStepKeeps
<1> QED
  BY <1>2, <1>3

LEMMA ReadLegacyKeeps ==
  ASSUME Inv, NEW c \in Command, ReadLegacy(c)
  PROVE  Inv'
<1> DEFINE r == Resolve(given[c], IF legacy = Absent THEN DefaultCLI
                                  ELSE LoadCLILegacy(legacy, DefaultCLI))
<1>1. /\ Observe /\ UNCHANGED <<files, installvars, given, bounds>>
      /\ files \in seen[c] /\ seen[c] \subseteq seen'[c]
      /\ \E f \in seen[c] : f[1] = Absent
  BY ObserveFacts DEF Inv, CommandInv, ReadLegacy, Loading
<1>2. cpc' = [cpc EXCEPT ![c] = "done"] /\ result' = [result EXCEPT ![c] = r]
  BY DEF ReadLegacy, Ends
<1>3. cpc'[c] = "done" /\ result'[c] = r
  BY <1>2 DEF Inv, Shape, HistoryType
<1>4. FromLegacy(c, files)'
  BY <1>1, <1>3 DEF Inv, Shape, FromLegacy, files
<1>5. CommandInv(c)'
  BY <1>1, <1>3, <1>4 DEF CommandInv, Loading
<1> QED
  BY <1>1, <1>2, <1>5, CommandStepKeeps

\* The user edits a file.
LEMMA EditKeeps ==
  ASSUME Inv, Observe, UNCHANGED <<installvars, commandvars, deaths>>,
         toml' \in TomlFile \cup {Absent, Template}, legacy' \in LegacyFile \cup {Absent},
         edits' \in 0 .. MaxEdits
  PROVE  Inv'
<1>1. \A i \in Installer : InstallerInv(i)'
  BY InstallerKept DEF Inv, installvars
<1>2. \A c \in Command : CommandInv(c)'
  BY CommandKept DEF Inv, commandvars
<1>3. Shape' /\ HistoryType'
  BY ObserveFacts DEF Inv, Shape, HistoryType, installvars, commandvars
<1> QED
  BY <1>1, <1>2, <1>3, ContentAssumption DEF Inv

LEMMA InitInv == Init => Inv
<1> SUFFICES ASSUME Init PROVE Inv
  OBVIOUS
<1>1. Shape /\ HistoryType
  BY ContentAssumption DEF Init, Shape, HistoryType
<1>2. toml # Half
  BY ContentAssumption DEF Init
<1>3. \A i \in Installer : InstallerInv(i)
  BY DEF Init, InstallerInv
<1>4. \A c \in Command : CommandInv(c)
  BY DEF Init, CommandInv, Loading
<1> QED
  BY <1>1, <1>2, <1>3, <1>4 DEF Inv

LEMMA NextInv == Inv /\ [Next]_vars => Inv'
<1> SUFFICES ASSUME Inv, [Next]_vars PROVE Inv'
  OBVIOUS
<1>1. ASSUME NEW i \in Installer, InstallerStep(i) PROVE Inv'
  <2>1. CASE ConfigInit(i)
    BY <2>1, ConfigInitKeeps
  <2>2. CASE Stat(i)
    BY <2>2, PlainCallKeeps DEF Stat
  <2>3. CASE MkdirAll(i)
    BY <2>3, PlainCallKeeps DEF MkdirAll
  <2>4. CASE CreateTemp(i)
    BY <2>4, CreateTempKeeps
  <2>5. CASE Write(i)
    BY <2>5, WriteKeeps
  <2>6. CASE Chmod(i)
    BY <2>6, PlainCallKeeps DEF Chmod
  <2>7. CASE Close(i)
    BY <2>7, PlainCallKeeps DEF Close
  <2>8. CASE Rename(i)
    BY <2>8, RenameKeeps
  <2>9. CASE RemoveTemp(i)
    BY <2>9, RemoveTempKeeps
  <2> QED
    BY <1>1, <2>1, <2>2, <2>3, <2>4, <2>5, <2>6, <2>7, <2>8, <2>9 DEF InstallerStep
<1>2. ASSUME NEW i \in Installer, Killed(i) PROVE Inv'
  BY <1>2, KilledKeeps
<1>3. ASSUME NEW c \in Command, CommandStep(c) PROVE Inv'
  BY <1>3, RunKeeps, ReadTOMLKeeps, ReadLegacyKeeps DEF CommandStep
<1>4. ASSUME NEW f \in TomlFile \cup {Absent}, EditTOML(f) PROVE Inv'
  BY <1>4, EditKeeps, ContentAssumption DEF EditTOML, Inv, Shape
<1>5. ASSUME NEW f \in LegacyFile \cup {Absent}, EditLegacy(f) PROVE Inv'
  BY <1>5, EditKeeps, ContentAssumption DEF EditLegacy, Inv, Shape
<1>6. CASE UNCHANGED vars
  <2>1. UNCHANGED <<toml, legacy, ipc, force, temp, cpc, given, result, seen, free, edits, deaths>>
    BY <1>6 DEF vars, files, installvars, commandvars, bounds
  <2>2. Shape' /\ HistoryType' /\ toml' # Half
    BY <2>1 DEF Inv, Shape, HistoryType
  <2>3. \A i \in Installer : InstallerInv(i)'
    BY <2>1 DEF Inv, InstallerInv
  <2>4. \A c \in Command : CommandInv(c)'
    BY <2>1 DEF Inv, CommandInv, Loading, FromTOML, FromLegacy, files
  <2> QED
    BY <2>2, <2>3, <2>4 DEF Inv
<1> QED
  BY <1>1, <1>2, <1>3, <1>4, <1>5, <1>6 DEF Next, Finished

LEMMA SpecInv == Spec => []Inv
BY InitInv, NextInv, PTL DEF Spec
-----------------------------------------------------------------------------
(* What follows.                                                            *)

\* config.toml never holds half a template (TomlIsWhole): Rename finds the temporary
\* file complete, and nothing else writes to that name.
THEOREM TomlIsAlwaysWhole == Spec => []TomlIsWhole
<1>1. Inv => TomlIsWhole
  BY DEF Inv, TomlIsWhole
<1> QED
  BY <1>1, SpecInv, PTL

\* WriteTemplate leaves no temporary file, wherever it fails (InitLeavesNothing).
THEOREM NothingIsLeft == Spec => []InitLeavesNothing
<1>1. Inv => InitLeavesNothing
  BY DEF Inv, InstallerInv, InitLeavesNothing
<1> QED
  BY <1>1, SpecInv, PTL

\* Without --force WriteTemplate does not succeed if the file was there all the time
\* (RefusesWhatStays).
THEOREM WhatStaysIsRefused == Spec => []RefusesWhatStays
<1>1. Inv => RefusesWhatStays
  BY DEF Inv, InstallerInv, RefusesWhatStays
<1> QED
  BY <1>1, SpecInv, PTL

\* loadCLI does not pass over a malformed config.toml (MalformedStops).
THEOREM MalformedAlwaysStops == Spec => []MalformedStops
<1>1. ASSUME Inv PROVE MalformedStops
  <2> SUFFICES ASSUME NEW c \in Command, cpc[c] = "done", \A f \in seen[c] : BrokenTOML(f[1])
               PROVE  result[c] = Bad
    BY DEF MalformedStops
  <2>1. PICK f \in seen[c] : FromTOML(c, f)
    BY <1>1, AbsentIsNotBroken DEF Inv, CommandInv
  <2>2. LoadCLITOML(f[1], DefaultCLI) = Bad
    BY <2>1, BrokenIsBad DEF FromTOML
  <2> QED
    BY <2>1, <2>2, ResolveFacts DEF FromTOML
<1> QED
  BY <1>1, SpecInv, PTL
-----------------------------------------------------------------------------
(* The loop of loadCLILegacy, line by line, computes what the reference says. *)

LegacyLine == [words : Seq(STRING), eq : BOOLEAN, value : STRING]

\* One turn of the loop.
ApplyLine(acc, line) ==
  IF acc = Bad \/ IsSkipped(line) THEN acc
  ELSE IF ~ParsesAsEntry(line) THEN Bad
  ELSE ApplyLegacyEntry(acc, line.words[1], TrimSpace(line.value))

\* A line that ends the loop, and one that decides a setting.
Faulty(line) ==
  \/ ~(line.eq <=> Len(line.words) = 1) \/ Len(line.words) > 1
  \/ /\ line.eq /\ line.words[1] \in Key
     /\ Parsed(line.words[1], TrimSpace(line.value)) = Bad

Deciding(l, s, k) == {n \in s : l[n].eq /\ l[n].words = <<k>>}

\* The settings after the lines at the positions s.
Decided(l, s) ==
  [k \in Key |-> IF Deciding(l, s, k) = {} THEN DefaultCLI[k]
                 ELSE Parsed(k, TrimSpace(l[Max(Deciding(l, s, k))].value))]

After(l, s) == IF \E n \in s : Faulty(l[n]) THEN Bad ELSE Decided(l, s)

\* No settings are Bad.
BadIsApart == \A cfg : DOMAIN cfg = Key => cfg # Bad

\* A line is skipped, faulty, or about one key.
LEMMA LineFacts ==
  ASSUME NEW line \in LegacyLine
  PROVE  /\ IsSkipped(line) => ~Faulty(line) /\ ~line.eq
         /\ ~IsSkipped(line) /\ ~ParsesAsEntry(line) => Faulty(line)
         /\ ParsesAsEntry(line) =>
              /\ line.eq /\ \A k : line.words = <<k>> <=> line.words[1] = k
              /\ Faulty(line) <=> /\ line.words[1] \in Key
                                  /\ Parsed(line.words[1], TrimSpace(line.value)) = Bad
<1>1. line.words \in Seq(STRING) /\ line.eq \in BOOLEAN
  BY DEF LegacyLine
<1>2. Len(line.words) \in Nat /\ (line.words = << >> <=> Len(line.words) = 0)
  BY <1>1, EmptySeq
<1>3. Len(line.words) = 1 => \A k : line.words = <<k>> <=> line.words[1] = k
  <2> SUFFICES ASSUME Len(line.words) = 1, NEW k, line.words[1] = k PROVE line.words = <<k>>
    OBVIOUS
  <2> QED
    BY <1>1
<1>4. IsSkipped(line) => ~Faulty(line) /\ ~line.eq
  BY <1>1, <1>2 DEF IsSkipped, Faulty
<1>5. ~IsSkipped(line) /\ ~ParsesAsEntry(line) => Faulty(line)
  <2> SUFFICES ASSUME ~IsSkipped(line), ~ParsesAsEntry(line) PROVE Faulty(line)
    OBVIOUS
  <2>1. line.eq \/ Len(line.words) # 0
    BY <1>2, Zenon DEF IsSkipped
  <2>2. ~line.eq \/ Len(line.words) # 1
    BY DEF ParsesAsEntry
  <2>3. Len(line.words) \in Nat
    BY <1>2
  <2>4. ~(line.eq <=> Len(line.words) = 1) \/ Len(line.words) > 1
    <3>1. \A n \in Nat : n = 0 \/ n = 1 \/ n > 1
      OBVIOUS
    <3> QED
      BY <2>1, <2>2, <2>3, <3>1, Zenon
  <2> QED
    BY <2>4, Zenon DEF Faulty
<1>6. ParsesAsEntry(line) =>
        (Faulty(line) <=> /\ line.words[1] \in Key
                          /\ Parsed(line.words[1], TrimSpace(line.value)) = Bad)
  BY <1>1, <1>2 DEF ParsesAsEntry, Faulty
<1> QED
  BY <1>3, <1>4, <1>5, <1>6 DEF ParsesAsEntry

\* The turn of the loop for the last of some lines does what it should.
LEMMA TurnFacts ==
  ASSUME BadIsApart, NEW l \in Seq(LegacyLine), NEW s \in SUBSET DOMAIN l, s # {}
  PROVE  After(l, s) = ApplyLine(After(l, s \ {Max(s)}), l[Max(s)])
<1> DEFINE x == Max(s)
           r == s \ {x}
           key == l[x].words[1]
           v == Parsed(key, TrimSpace(l[x].value))
<1>1. x \in s /\ \A n \in s : n <= x
  <2>1. Len(l) \in Nat /\ s \in SUBSET (1 .. Len(l))
    OBVIOUS
  <2> QED
    BY <2>1, MaxFacts
<1>2. s \in SUBSET Nat /\ l[x] \in LegacyLine
  BY <1>1
<1> HIDE DEF x
<1>3. CASE \E n \in r : Faulty(l[n])
  <2>1. After(l, s) = Bad /\ After(l, r) = Bad
    BY <1>3 DEF After
  <2>2. ApplyLine(Bad, l[x]) = Bad
    BY DEF ApplyLine
  <2> QED
    BY <2>1, <2>2 DEF x
<1>4. CASE (\A n \in r : ~Faulty(l[n])) /\ Faulty(l[x])
  <2>1. After(l, s) = Bad
    BY <1>1, <1>4 DEF After
  <2>2. ApplyLine(After(l, r), l[x]) = Bad
    BY <1>2, <1>4, LineFacts DEF ApplyLine, ApplyLegacyEntry
  <2> QED
    BY <2>1, <2>2 DEF x
<1>5. CASE (\A n \in r : ~Faulty(l[n])) /\ ~Faulty(l[x])
  <2>1. After(l, s) = Decided(l, s) /\ After(l, r) = Decided(l, r)
    BY <1>1, <1>5 DEF After
  <2>2. Decided(l, r) # Bad /\ DOMAIN Decided(l, r) = Key
    BY DEF BadIsApart, Decided
  <2>3. ASSUME NEW k \in Key, ~(l[x].eq /\ l[x].words = <<k>>)
        PROVE  Deciding(l, s, k) = Deciding(l, r, k)
    BY <1>1, <2>3 DEF Deciding
  <2>4. CASE IsSkipped(l[x])
    <3>1. ApplyLine(After(l, r), l[x]) = Decided(l, r)
      BY <2>1, <2>4 DEF ApplyLine
    <3>2. Decided(l, s) = Decided(l, r)
      BY <1>2, <2>3, <2>4, LineFacts DEF Decided
    <3> QED
      BY <2>1, <3>1, <3>2 DEF x
  <2>5. CASE ParsesAsEntry(l[x])
    <3>1. /\ l[x].eq /\ \A k : l[x].words = <<k>> <=> key = k
          /\ key \in Key => v # Bad
      BY <1>2, <1>5, <2>5, LineFacts
    <3>2. ApplyLine(After(l, r), l[x]) =
            IF key \in Key THEN [Decided(l, r) EXCEPT ![key] = v] ELSE Decided(l, r)
      BY <2>1, <2>2, <2>5, <3>1 DEF ApplyLine, ApplyLegacyEntry, IsSkipped, ParsesAsEntry
    <3>3. ASSUME NEW k \in Key, k # key PROVE Decided(l, s)[k] = Decided(l, r)[k]
      BY <2>3, <3>1, <3>3 DEF Decided
    <3>4. ASSUME key \in Key PROVE Decided(l, s)[key] = v
      <4>1. x \in Deciding(l, s, key)
        BY <1>1, <3>1 DEF Deciding
      <4>2. Max(Deciding(l, s, key)) = x
        <5>1. Deciding(l, s, key) \in SUBSET s
          BY DEF Deciding
        <5>2. \A n \in Deciding(l, s, key) : x >= n
          BY <1>1, <1>2, <5>1
        <5>3. Max(Deciding(l, s, key)) \in Deciding(l, s, key)
              /\ \A n \in Deciding(l, s, key) : Max(Deciding(l, s, key)) >= n
          BY <4>1, <5>2 DEF Max
        <5>4. Max(Deciding(l, s, key)) >= x /\ x >= Max(Deciding(l, s, key))
          BY <4>1, <5>2, <5>3
        <5> QED
          BY <1>1, <1>2, <5>1, <5>3, <5>4
      <4>3. Deciding(l, s, key) # {}
        BY <4>1
      <4> QED
        BY <3>4, <4>2, <4>3 DEF Decided
    <3>5. Decided(l, s) = ApplyLine(After(l, r), l[x])
      <4>1. Decided(l, s) = [k \in Key |-> Decided(l, s)[k]]
            /\ Decided(l, r) = [k \in Key |-> Decided(l, r)[k]]
        BY DEF Decided
      <4>2. CASE key \in Key
        <5>1. [Decided(l, r) EXCEPT ![key] = v] =
                [k \in Key |-> IF k = key THEN v ELSE Decided(l, r)[k]]
          BY <4>1
        <5>2. \A k \in Key : Decided(l, s)[k] = IF k = key THEN v ELSE Decided(l, r)[k]
          BY <3>3, <3>4, <4>2
        <5> QED
          BY <3>2, <4>1, <4>2, <5>1, <5>2
      <4>3. CASE key \notin Key
        <5>1. \A k \in Key : Decided(l, s)[k] = Decided(l, r)[k]
          BY <3>3, <4>3
        <5> QED
          BY <3>2, <4>1, <4>3, <5>1
      <4> QED
        BY <4>2, <4>3
    <3> QED
      BY <2>1, <3>5 DEF x
  <2> QED
    BY <1>2, <1>5, <2>4, <2>5, LineFacts
<1> QED
  BY <1>3, <1>4, <1>5 DEF x

LEMMA DefaultFacts == DefaultCLI = [k \in Key |-> DefaultCLI[k]]
<1> DEFINE D == DefaultCLI
           S == [mount_root : {D.mount_root}, host_cid : {D.host_cid}, port : {D.port},
                 timeout : {D.timeout}, token : {D.token}]
<1>1. D \in S
  BY DEF DefaultCLI
<1>2. \A f \in S : f = [k \in Key |-> f[k]]
  BY DEF Key
<1> QED
  BY <1>1, <1>2

\* The whole loop.
LEMMA LoopFacts ==
  ASSUME BadIsApart, NEW l \in Seq(LegacyLine), l # Bad
  PROVE  LoadCLILegacy(l, DefaultCLI) = After(l, DOMAIN l)
<1> DEFINE F == CHOOSE iter : iter = [s \in SUBSET DOMAIN l |->
                  IF s = {} THEN DefaultCLI ELSE ApplyLine(iter[s \ {Max(s)}], l[Max(s)])]
           G == [s \in SUBSET DOMAIN l |-> After(l, s)]
<1>1. LoadCLILegacy(l, DefaultCLI) = F[DOMAIN l]
  BY DEF LoadCLILegacy, FoldLeft, MapThenFoldSet, ApplyLine
<1>2. After(l, {}) = DefaultCLI
  <2>1. \A k \in Key : Deciding(l, {}, k) = {}
    BY DEF Deciding
  <2>2. Decided(l, {}) = [k \in Key |-> DefaultCLI[k]]
    BY <2>1 DEF Decided
  <2>3. DefaultCLI = [k \in Key |-> DefaultCLI[k]]
    BY DefaultFacts
  <2> QED
    BY <2>2, <2>3 DEF After
<1>3. G = [s \in SUBSET DOMAIN l |->
             IF s = {} THEN DefaultCLI ELSE ApplyLine(G[s \ {Max(s)}], l[Max(s)])]
  <2>1. \A s \in SUBSET DOMAIN l : s \ {Max(s)} \in SUBSET DOMAIN l
    OBVIOUS
  <2> QED
    BY <1>2, <2>1, TurnFacts
<1>4. F = [s \in SUBSET DOMAIN l |->
             IF s = {} THEN DefaultCLI ELSE ApplyLine(F[s \ {Max(s)}], l[Max(s)])]
  BY <1>3
<1> HIDE DEF F, G
<1>5. F[{}] = G[{}]
  BY <1>3, <1>4
<1>6. \A s \in SUBSET DOMAIN l :
        s # {} /\ F[s \ {Max(s)}] = G[s \ {Max(s)}] => F[s] = G[s]
  BY <1>3, <1>4
<1>7. DOMAIN l = 1 .. Len(l) /\ Len(l) \in Nat
  OBVIOUS
<1>8. F[DOMAIN l] = G[DOMAIN l]
  BY <1>5, <1>6, <1>7, FoldInduction
<1> QED
  BY <1>1, <1>8 DEF G
-----------------------------------------------------------------------------
(* Loading and overriding give what the reference says.                     *)

LEMMA FirstOfFacts ==
  ASSUME NEW a, NEW b, NEW c, NEW d, d # Bad
  PROVE  FirstOf(<<a, b, c, d>>) =
           IF a # Bad THEN a ELSE IF b # Bad THEN b ELSE IF c # Bad THEN c ELSE d
<1> DEFINE s == <<a, b, c, d>>
           First(n) == s[n] # Bad /\ \A m \in 1 .. n - 1 : s[m] = Bad
<1>1. FirstOf(s) = s[CHOOSE n \in DOMAIN s : First(n)]
  BY DEF FirstOf
<1>2. DOMAIN s = 1 .. 4 /\ s[1] = a /\ s[2] = b /\ s[3] = c /\ s[4] = d
  OBVIOUS
<1> HIDE DEF s
<1>3. \A n, m \in DOMAIN s : First(n) /\ First(m) => n = m
  <2> SUFFICES ASSUME NEW n \in DOMAIN s, NEW m \in DOMAIN s, First(n), First(m), n < m
               PROVE  FALSE
    BY <1>2
  <2>1. n \in 1 .. m - 1
    BY <1>2
  <2> QED
    BY <2>1
<1>4. ASSUME NEW n \in DOMAIN s, First(n) PROVE FirstOf(s) = s[n]
  <2>1. (CHOOSE k \in DOMAIN s : First(k)) = n
    BY <1>3, <1>4
  <2> QED
    BY <1>1, <2>1
<1>5. CASE a # Bad
  <2>1. First(1)
    BY <1>2, <1>5
  <2> QED
    BY <1>2, <1>4, <1>5, <2>1 DEF s
<1>6. CASE a = Bad /\ b # Bad
  <2>1. First(2)
    BY <1>2, <1>6
  <2> QED
    BY <1>2, <1>4, <1>6, <2>1 DEF s
<1>7. CASE a = Bad /\ b = Bad /\ c # Bad
  <2>1. First(3)
    BY <1>2, <1>7
  <2> QED
    BY <1>2, <1>4, <1>7, <2>1 DEF s
<1>8. CASE a = Bad /\ b = Bad /\ c = Bad
  <2>1. First(4)
    BY <1>2, <1>8
  <2> QED
    BY <1>2, <1>4, <1>8, <2>1 DEF s
<1> QED
  BY <1>5, <1>6, <1>7, <1>8

\* Flags and environment over settings of which each is what the file says or, if
\* that is nothing, the default.
LEMMA ResolveIsFirst ==
  ASSUME NEW g \in Given, NEW cfg, cfg # Bad, NEW says,
         \A k \in Key : cfg[k] = IF says[k] # Bad THEN says[k] ELSE DefaultCLI[k]
  PROVE  Resolve(g, cfg) =
           [k \in Key |-> FirstOf(<<FlagSays(g, k), EnvSays(g, k), says[k], DefaultCLI[k]>>)]
<1>1. Resolve(g, cfg) = [k \in Key |-> IF k \in DOMAIN g.flags THEN g.flags[k]
                                       ELSE LookupEnv(g.env, cfg)[k]]
  BY DEF Resolve, Override
<1>2. ASSUME NEW k \in Key
      PROVE  FirstOf(<<FlagSays(g, k), EnvSays(g, k), says[k], DefaultCLI[k]>>) =
               IF k \in DOMAIN g.flags THEN g.flags[k] ELSE LookupEnv(g.env, cfg)[k]
  <2>1. DefaultCLI[k] # Bad /\ (k \in DOMAIN g.flags => g.flags[k] # Bad)
    BY SettingsAssumption
  <2>2. LookupEnv(g.env, cfg)[k] =
          IF EnvSays(g, k) # Bad THEN EnvSays(g, k)
          ELSE IF says[k] # Bad THEN says[k] ELSE DefaultCLI[k]
    BY DEF LookupEnv, EnvSays
  <2>3. FirstOf(<<FlagSays(g, k), EnvSays(g, k), says[k], DefaultCLI[k]>>) =
          IF FlagSays(g, k) # Bad THEN FlagSays(g, k)
          ELSE IF EnvSays(g, k) # Bad THEN EnvSays(g, k)
          ELSE IF says[k] # Bad THEN says[k] ELSE DefaultCLI[k]
    BY <2>1, FirstOfFacts
  <2> QED
    BY <2>1, <2>2, <2>3 DEF FlagSays
<1> QED
  BY <1>1, <1>2

LEMMA TOMLIsRead ==
  ASSUME BadIsApart, NEW t \in TomlFile \cup {Template}, t # Absent, t # Half, ~BrokenTOML(t)
  PROVE  /\ LoadCLITOML(t, DefaultCLI) # Bad
         /\ \A k \in Key : LoadCLITOML(t, DefaultCLI)[k] =
              IF TOMLSays(t, k) # Bad THEN TOMLSays(t, k) ELSE DefaultCLI[k]
<1> DEFINE cfg == LoadCLITOML(t, DefaultCLI)
<1>1. /\ t # Bad /\ Decodes(t)
      /\ "timeout" \in DOMAIN t /\ TrimSpace(t.timeout) # "" =>
           ParseDuration(TrimSpace(t.timeout)) # Bad
  BY DEF BrokenTOML, Decodes
<1>2. /\ \A k \in Key : DefaultCLI[k] # Bad
      /\ \A k \in DOMAIN t \cap Key : t[k] # Bad /\ (k = "mount_root" => TrimSpace(t[k]) # Bad)
  BY <1>1, SettingsAssumption
<1>3. Key = {"mount_root", "host_cid", "port", "timeout", "token"}
  BY DEF Key
<1>4. Lasting(t, "timeout", DefaultCLI) # Bad
  BY <1>1, <1>2, <1>3 DEF Lasting, TextAt
<1>5. cfg = [mount_root |-> Trimmed(t, "mount_root", DefaultCLI),
             host_cid |-> Plain(t, "host_cid", DefaultCLI),
             port |-> Plain(t, "port", DefaultCLI),
             timeout |-> Lasting(t, "timeout", DefaultCLI),
             token |-> Plain(t, "token", [token |-> ""])]
  BY <1>1, <1>4 DEF LoadCLITOML
<1>6. cfg # Bad
  BY <1>3, <1>5 DEF BadIsApart
<1> HIDE DEF cfg
<1>11. /\ cfg["mount_root"] = Trimmed(t, "mount_root", DefaultCLI)
      /\ cfg["host_cid"] = Plain(t, "host_cid", DefaultCLI)
      /\ cfg["port"] = Plain(t, "port", DefaultCLI)
      /\ cfg["timeout"] = Lasting(t, "timeout", DefaultCLI)
      /\ cfg["token"] = Plain(t, "token", [token |-> ""])
  BY <1>5
<1>7. cfg["mount_root"] = IF TOMLSays(t, "mount_root") # Bad THEN TOMLSays(t, "mount_root")
                          ELSE DefaultCLI["mount_root"]
  BY <1>2, <1>3, <1>11 DEF TOMLSays, Trimmed, TextAt
<1>8. cfg["timeout"] = IF TOMLSays(t, "timeout") # Bad THEN TOMLSays(t, "timeout")
                       ELSE DefaultCLI["timeout"]
  BY <1>1, <1>3, <1>11 DEF TOMLSays, Lasting, TextAt
<1>9. ASSUME NEW k \in {"host_cid", "port"}
      PROVE  cfg[k] = IF TOMLSays(t, k) # Bad THEN TOMLSays(t, k) ELSE DefaultCLI[k]
  <2>1. cfg[k] = Plain(t, k, DefaultCLI)
    BY <1>11
  <2> QED
    BY <1>2, <1>3, <2>1 DEF TOMLSays, Plain
<1>10. cfg["token"] = IF TOMLSays(t, "token") # Bad THEN TOMLSays(t, "token")
                      ELSE DefaultCLI["token"]
  <2>1. DefaultCLI["token"] = ""
    BY DEF DefaultCLI
  <2>2. cfg["token"] = IF "token" \in DOMAIN t THEN t["token"] ELSE ""
    BY <1>11 DEF Plain
  <2> QED
    BY <1>2, <1>3, <2>1, <2>2 DEF TOMLSays
<1> QED
  BY <1>3, <1>6, <1>7, <1>8, <1>9, <1>10 DEF cfg

LEMMA LegacyIsRead ==
  ASSUME BadIsApart, NEW l \in LegacyFile, l # Absent
  PROVE  /\ BrokenLegacy(l) => LoadCLILegacy(l, DefaultCLI) = Bad
         /\ ~BrokenLegacy(l) =>
              /\ LoadCLILegacy(l, DefaultCLI) # Bad
              /\ \A k \in Key : LoadCLILegacy(l, DefaultCLI)[k] =
                   IF LegacySays(l, k) # Bad THEN LegacySays(l, k) ELSE DefaultCLI[k]
<1>1. CASE l = Bad
  BY <1>1 DEF LoadCLILegacy, BrokenLegacy
<1>2. CASE l # Bad
  <2>1. l \in Seq(LegacyLine)
    BY <1>2, ContentAssumption DEF LegacyLine
  <2>2. LoadCLILegacy(l, DefaultCLI) = After(l, DOMAIN l)
    BY <1>2, <2>1, LoopFacts
  <2>3. BrokenLegacy(l) <=> \E n \in DOMAIN l : Faulty(l[n])
    BY <1>2 DEF BrokenLegacy, Faulty
  <2>4. ASSUME ~BrokenLegacy(l)
        PROVE  /\ After(l, DOMAIN l) # Bad
               /\ \A k \in Key : After(l, DOMAIN l)[k] =
                    IF LegacySays(l, k) # Bad THEN LegacySays(l, k) ELSE DefaultCLI[k]
    <3>1. After(l, DOMAIN l) = Decided(l, DOMAIN l)
      BY <2>3, <2>4 DEF After
    <3>2. Decided(l, DOMAIN l) # Bad
      BY DEF Decided, BadIsApart
    <3>3. ASSUME NEW k \in Key
          PROVE  Decided(l, DOMAIN l)[k] =
                   IF LegacySays(l, k) # Bad THEN LegacySays(l, k) ELSE DefaultCLI[k]
      <4> DEFINE lines == Deciding(l, DOMAIN l, k)
      <4>1. /\ Decided(l, DOMAIN l)[k] = IF lines = {} THEN DefaultCLI[k]
                                         ELSE Parsed(k, TrimSpace(l[Max(lines)].value))
            /\ LegacySays(l, k) =
                 IF lines = {} THEN Bad
                 ELSE Parsed(k, TrimSpace(l[CHOOSE n \in lines : \A m \in lines : m <= n].value))
        BY DEF Decided, LegacySays, Deciding
      <4>2. CASE lines = {}
        BY <4>1, <4>2
      <4>3. CASE lines # {}
        <5>1. lines \in SUBSET (1 .. Len(l)) /\ Len(l) \in Nat
          BY <2>1 DEF Deciding
        <5>2. Max(lines) \in lines /\ \A m \in lines : m <= Max(lines)
          BY <4>3, <5>1, MaxFacts
        <5> DEFINE last == CHOOSE n \in lines : \A m \in lines : m <= n
        <5>3. last \in lines /\ \A m \in lines : m <= last
          BY <5>2
        <5>4. last = Max(lines)
          <6>1. last \in Nat /\ Max(lines) \in Nat /\ last <= Max(lines) /\ Max(lines) <= last
            BY <5>1, <5>2, <5>3
          <6> QED
            BY <6>1
        <5>5. Parsed(k, TrimSpace(l[Max(lines)].value)) # Bad
          <6>1. /\ Max(lines) \in DOMAIN l /\ l[Max(lines)].eq /\ l[Max(lines)].words = <<k>>
            BY <5>2 DEF Deciding
          <6>2. ~Faulty(l[Max(lines)])
            BY <2>3, <2>4, <6>1
          <6>3. l[Max(lines)].words[1] = k
            BY <6>1
          <6> QED
            BY <6>1, <6>2, <6>3 DEF Faulty
        <5> QED
          BY <4>1, <4>3, <5>4, <5>5
      <4> QED
        BY <4>2, <4>3
    <3> QED
      BY <3>1, <3>2, <3>3
  <2>5. BrokenLegacy(l) => After(l, DOMAIN l) = Bad
    BY <2>3 DEF After
  <2> QED
    BY <2>2, <2>4, <2>5
<1> QED
  BY <1>1, <1>2

\* What a command ends with is what the reference says of the files it came from.
LEMMA TOMLIsExpected ==
  ASSUME BadIsApart, NEW g \in Given, NEW t \in TomlFile \cup {Template}, t # Absent,
         t # Half, NEW l
  PROVE  Resolve(g, LoadCLITOML(t, DefaultCLI)) = Expected(t, l, g)
<1>1. CASE BrokenTOML(t)
  <2>1. LoadCLITOML(t, DefaultCLI) = Bad
    BY <1>1, BrokenIsBad
  <2> QED
    BY <1>1, <2>1, ResolveFacts DEF Expected
<1>2. CASE ~BrokenTOML(t)
  <2> DEFINE says == [k \in Key |-> TOMLSays(t, k)]
  <2>1. /\ LoadCLITOML(t, DefaultCLI) # Bad
        /\ \A k \in Key : LoadCLITOML(t, DefaultCLI)[k] =
             IF says[k] # Bad THEN says[k] ELSE DefaultCLI[k]
    BY <1>2, TOMLIsRead
  <2> HIDE DEF says
  <2>2. Resolve(g, LoadCLITOML(t, DefaultCLI)) =
          [k \in Key |-> FirstOf(<<FlagSays(g, k), EnvSays(g, k), says[k], DefaultCLI[k]>>)]
    BY <2>1, ResolveIsFirst
  <2>3. Expected(t, l, g) =
          [k \in Key |-> FirstOf(<<FlagSays(g, k), EnvSays(g, k), TOMLSays(t, k), DefaultCLI[k]>>)]
    BY <1>2 DEF Expected
  <2> QED
    BY <2>2, <2>3 DEF says
<1> QED
  BY <1>1, <1>2

LEMMA LegacyIsExpected ==
  ASSUME BadIsApart, NEW g \in Given, NEW l \in LegacyFile \cup {Absent}
  PROVE  Resolve(g, IF l = Absent THEN DefaultCLI ELSE LoadCLILegacy(l, DefaultCLI)) =
           Expected(Absent, l, g)
<1>1. CASE l = Absent
  <2> DEFINE says == [k \in Key |-> Bad]
  <2>1. DefaultCLI # Bad
    <3>1. DOMAIN DefaultCLI = Key
      BY DefaultFacts
    <3> QED
      BY <3>1 DEF BadIsApart
  <2>2. Resolve(g, DefaultCLI) =
          [k \in Key |-> FirstOf(<<FlagSays(g, k), EnvSays(g, k), says[k], DefaultCLI[k]>>)]
    BY <2>1, ResolveIsFirst
  <2>3. ~BrokenLegacy(Absent)
    BY ContentAssumption DEF BrokenLegacy
  <2>4. Expected(Absent, Absent, g) =
          [k \in Key |-> FirstOf(<<FlagSays(g, k), EnvSays(g, k), Bad, DefaultCLI[k]>>)]
    BY <2>3, AbsentIsNotBroken DEF Expected
  <2> QED
    BY <1>1, <2>2, <2>4
<1>2. CASE l # Absent /\ BrokenLegacy(l)
  <2>1. LoadCLILegacy(l, DefaultCLI) = Bad
    BY <1>2, LegacyIsRead
  <2> QED
    BY <1>2, <2>1, ResolveFacts DEF Expected
<1>3. CASE l # Absent /\ ~BrokenLegacy(l)
  <2> DEFINE says == [k \in Key |-> LegacySays(l, k)]
  <2>1. /\ LoadCLILegacy(l, DefaultCLI) # Bad
        /\ \A k \in Key : LoadCLILegacy(l, DefaultCLI)[k] =
             IF says[k] # Bad THEN says[k] ELSE DefaultCLI[k]
    BY <1>3, LegacyIsRead
  <2> HIDE DEF says
  <2>2. Resolve(g, LoadCLILegacy(l, DefaultCLI)) =
          [k \in Key |-> FirstOf(<<FlagSays(g, k), EnvSays(g, k), says[k], DefaultCLI[k]>>)]
    BY <2>1, ResolveIsFirst
  <2>3. Expected(Absent, l, g) =
          [k \in Key |-> FirstOf(<<FlagSays(g, k), EnvSays(g, k), LegacySays(l, k), DefaultCLI[k]>>)]
    BY <1>3, AbsentIsNotBroken DEF Expected
  <2> QED
    BY <1>3, <2>2, <2>3 DEF says
<1> QED
  BY <1>1, <1>2, <1>3

\* Every command uses the settings that its flags, its environment and the files of
\* one moment of its run give, whoever edits config.toml or installs the template
\* meanwhile (UsesOneMoment: loadCLI, applyCLILegacyEnvEntry, resolveRuntimeConfig).
THEOREM OneMomentIsUsed ==
  ASSUME BadIsApart
  PROVE  Spec => []UsesOneMoment
<1>1. ASSUME Inv PROVE UsesOneMoment
  <2> SUFFICES ASSUME NEW c \in Command, cpc[c] = "done", \A f, g \in seen[c] : f[2] = g[2]
               PROVE  \E f \in seen[c] : result[c] = Expected(f[1], f[2], given[c])
    BY DEF UsesOneMoment
  <2>1. given[c] \in Given
    BY <1>1 DEF Inv, Shape
  <2>2. ASSUME NEW f \in seen[c], FromTOML(c, f)
        PROVE  result[c] = Expected(f[1], f[2], given[c])
    BY <1>1, <2>1, <2>2, TOMLIsExpected DEF FromTOML
  <2>3. ASSUME NEW f \in seen[c], NEW g \in seen[c], f[1] = Absent, FromLegacy(c, g)
        PROVE  result[c] = Expected(f[1], f[2], given[c])
    <3>1. f[2] = g[2]
      OBVIOUS
    <3> QED
      BY <1>1, <2>1, <2>3, <3>1, LegacyIsExpected DEF FromLegacy
  <2> QED
    BY <1>1, <2>2, <2>3 DEF Inv, CommandInv
<1> QED
  BY <1>1, SpecInv, PTL

\* Only a malformed file stops a command, and never the template half written
\* (StopsOnlyIfMalformed): WriteTemplate puts it into place complete.
THEOREM OnlyMalformedStops ==
  ASSUME BadIsApart
  PROVE  Spec => []StopsOnlyIfMalformed
<1>1. ASSUME Inv PROVE StopsOnlyIfMalformed
  <2> SUFFICES ASSUME NEW c \in Command, cpc[c] = "done", result[c] = Bad
               PROVE  \E f \in seen[c] : (f[1] # Half /\ BrokenTOML(f[1])) \/ BrokenLegacy(f[2])
    BY DEF StopsOnlyIfMalformed
  <2>1. ASSUME NEW g, NEW cfg, Resolve(g, cfg) = Bad PROVE cfg = Bad
    <3>1. cfg # Bad => DOMAIN Resolve(g, cfg) = Key
      BY DEF Resolve, Override
    <3> QED
      BY <2>1, <3>1 DEF BadIsApart
  <2>2. ASSUME NEW f \in seen[c], FromTOML(c, f) PROVE f[1] # Half /\ BrokenTOML(f[1])
    BY <2>1, <2>2, TOMLIsRead DEF FromTOML
  <2>3. ASSUME NEW f \in seen[c], FromLegacy(c, f) PROVE BrokenLegacy(f[2])
    <3>1. DefaultCLI # Bad
      BY DefaultFacts DEF BadIsApart
    <3> QED
      BY <2>1, <2>3, <3>1, LegacyIsRead DEF FromLegacy
  <2> QED
    BY <1>1, <2>2, <2>3 DEF Inv, CommandInv
<1> QED
  BY <1>1, SpecInv, PTL

LEMMA ExpectedFacts ==
  ASSUME NEW t, NEW l, NEW g, Expected(t, l, g) # Bad
  PROVE  /\ DOMAIN Expected(t, l, g) = Key
         /\ \A k \in Key : Expected(t, l, g)[k] # Bad
<1> DEFINE says == [k \in Key |-> IF t # Absent THEN TOMLSays(t, k)
                                 ELSE IF l # Absent THEN LegacySays(l, k) ELSE Bad]
<1>1. Expected(t, l, g) =
        [k \in Key |-> FirstOf(<<FlagSays(g, k), EnvSays(g, k), says[k], DefaultCLI[k]>>)]
  BY DEF Expected
<1> HIDE DEF says
<1>2. ASSUME NEW k \in Key
      PROVE  FirstOf(<<FlagSays(g, k), EnvSays(g, k), says[k], DefaultCLI[k]>>) # Bad
  <2>1. DefaultCLI[k] # Bad
    BY SettingsAssumption
  <2> QED
    BY <2>1, FirstOfFacts
<1> QED
  BY <1>1, <1>2

\* The type invariant: a command that does not stop has a value for every setting,
\* and none comes of a text that does not parse.
THEOREM TypeCorrect ==
  ASSUME BadIsApart
  PROVE  Spec => []TypeOK
<1>1. ASSUME Inv PROVE TypeOK
  <2>1. ASSUME NEW c \in Command, result[c] # Bad
        PROVE  DOMAIN result[c] = Key /\ \A k \in Key : result[c][k] # Bad
    <3>1. given[c] \in Given /\ cpc[c] = "done"
      BY <1>1, <2>1 DEF Inv, Shape, CommandInv
    <3>2. ASSUME NEW f, FromTOML(c, f)
          PROVE  \E t, l : result[c] = Expected(t, l, given[c])
      <4>1. result[c] = Expected(f[1], f[2], given[c])
        BY <3>1, <3>2, TOMLIsExpected DEF FromTOML
      <4> QED
        BY <4>1
    <3>3. ASSUME NEW f, FromLegacy(c, f)
          PROVE  \E t, l : result[c] = Expected(t, l, given[c])
      <4>1. result[c] = Expected(Absent, f[2], given[c])
        BY <3>1, <3>3, LegacyIsExpected DEF FromLegacy
      <4> QED
        BY <4>1
    <3>4. PICK t, l : result[c] = Expected(t, l, given[c])
      BY <1>1, <3>1, <3>2, <3>3 DEF Inv, CommandInv
    <3> QED
      BY <2>1, <3>4, ExpectedFacts
  <2> QED
    BY <1>1, <2>1 DEF Inv, Shape, TypeOK
<1> QED
  BY <1>1, SpecInv, PTL
=============================================================================
