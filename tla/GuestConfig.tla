----------------------------- MODULE GuestConfig -----------------------------
(***************************************************************************)
(* The guest's configuration directory: commands that load their settings,   *)
(* "vreflink config init" that installs the template (install.WriteTemplate),*)
(* and the user, whose editor replaces or removes the two files at any time. *)
(***************************************************************************)
EXTENDS Settings, FiniteSets

CONSTANTS
  Installer, Command,   \* the processes
  TomlFile, LegacyFile, \* what the user may make of the files
  Given,                \* environments and flags of the commands, [env, flags]
  Template,             \* GuestConfigTemplate, which is a TOML file
  Half,                 \* a part of the template
  Faults,               \* the calls that may fail, named by the pc at which they are made
  MaxEdits, MaxDeaths   \* bounds: edits by the user, processes that are killed

VARIABLES
  toml, legacy,         \* the two files
  ipc, force, temp,     \* WriteTemplate, its overwrite argument, its temporary file
  cpc, given, result,   \* a command, and the settings it ends with
  seen, free,           \* history: the pairs of files that were there while a command ran,
                        \* and whether config.toml was missing while an installer did
  edits, deaths

files == <<toml, legacy>>
installvars == <<ipc, force, temp>>
commandvars == <<cpc, given, result>>
bounds == <<edits, deaths>>
vars == <<files, installvars, commandvars, seen, free, bounds>>

ASSUME ContentAssumption ==
  /\ Bad # Absent /\ Half \notin TomlFile \cup {Absent, Template}
  /\ MaxEdits \in Nat /\ MaxDeaths \in Nat
  /\ \A l \in LegacyFile :
       l # Bad => l \in Seq([words : Seq(STRING), eq : BOOLEAN, value : STRING])

\* No value of a setting is Bad.
ASSUME SettingsAssumption ==
  /\ \A k \in Key : DefaultCLI[k] # Bad
  /\ \A g \in Given : \A k \in DOMAIN g.flags : g.flags[k] # Bad
  /\ \A t \in TomlFile \cup {Template} : t # Bad =>
       \A k \in DOMAIN t \cap Key : t[k] # Bad /\ (k = "mount_root" => TrimSpace(t[k]) # Bad)

TypeOK ==
  /\ toml \in TomlFile \cup {Absent, Template, Half}
  /\ legacy \in LegacyFile \cup {Absent}
  /\ ipc \in [Installer -> {"idle", "stat", "mkdir", "create", "write", "chmod", "close",
                            "rename", "remove", "ok", "exists", "failed", "littered", "dead"}]
  /\ force \in [Installer -> BOOLEAN]
  /\ temp \in [Installer -> {Absent, Half, Template}]
  /\ cpc \in [Command -> {"idle", "toml", "legacy", "done"}]
  /\ given \in [Command -> Given]
  /\ \A c \in Command :
       result[c] # Bad => DOMAIN result[c] = Key /\ \A k \in Key : result[c][k] # Bad
  /\ edits \in 0 .. MaxEdits /\ deaths \in 0 .. MaxDeaths

Init ==
  /\ toml \in TomlFile \cup {Absent} /\ legacy \in LegacyFile \cup {Absent}
  /\ ipc = [i \in Installer |-> "idle"]
  /\ force = [i \in Installer |-> FALSE]
  /\ temp = [i \in Installer |-> Absent]
  /\ cpc = [c \in Command |-> "idle"]
  /\ given \in [Command -> Given]
  /\ result = [c \in Command |-> Bad]
  /\ seen = [c \in Command |-> {}]
  /\ free = [i \in Installer |-> FALSE]
  /\ edits = 0 /\ deaths = 0
-----------------------------------------------------------------------------
Installing(i) == ipc[i] \notin {"idle", "ok", "exists", "failed", "littered", "dead"}

Loading(c) == cpc[c] \in {"toml", "legacy"}

\* The part of every action that keeps the history.
Observe ==
  /\ seen' = [c \in Command |-> IF Loading(c)' THEN seen[c] \cup {files'} ELSE seen[c]]
  /\ free' = [i \in Installer |-> free[i] \/ (Installing(i)' /\ toml' = Absent)]
-----------------------------------------------------------------------------
(* WriteTemplate, one action per system call.                               *)

ToStep(i, pc) == ipc' = [ipc EXCEPT ![i] = pc]

\* The deferred function removes the temporary file, if there is one.
Fails(i) == ToStep(i, IF temp[i] = Absent THEN "failed" ELSE "remove")

Call(i, at, next) ==
  /\ ipc[i] = at
  /\ ToStep(i, next) \/ (at \in Faults /\ Fails(i))
  /\ UNCHANGED <<files, force, commandvars, bounds>> /\ Observe

ConfigInit(i) ==
  /\ ipc[i] = "idle"
  /\ \E f \in BOOLEAN : /\ force' = [force EXCEPT ![i] = f]
                         /\ ToStep(i, IF f THEN "mkdir" ELSE "stat")
  /\ UNCHANGED <<files, temp, commandvars, bounds>> /\ Observe

\* Stat, mutated: any error, and no error, is taken for a name that is free.
StatUnchecked(i) == Call(i, "stat", "mkdir") /\ UNCHANGED temp

Stat(i) == Call(i, "stat", IF toml = Absent THEN "mkdir" ELSE "exists") /\ UNCHANGED temp

MkdirAll(i) == Call(i, "mkdir", "create") /\ UNCHANGED temp

\* CreateTemp, mutated: the file itself is truncated and written.
CreateInPlace(i) ==
  /\ ipc[i] = "create"
  /\ toml' = Half
  /\ temp' = [temp EXCEPT ![i] = Half]
  /\ ToStep(i, "write")
  /\ UNCHANGED <<legacy, force, commandvars, bounds>> /\ Observe

CreateTemp(i) ==
  /\ Call(i, "create", "write")
  /\ temp' = IF ipc'[i] = "write" THEN [temp EXCEPT ![i] = Half] ELSE temp

\* Write, mutated: its error is not looked at.
WriteUnchecked(i) ==
  /\ ipc[i] = "write"
  /\ ToStep(i, "chmod")
  /\ temp' \in {temp, [temp EXCEPT ![i] = Template]}
  /\ UNCHANGED <<files, force, commandvars, bounds>> /\ Observe

Write(i) ==
  /\ Call(i, "write", "chmod")
  /\ temp' = IF ipc'[i] = "chmod" THEN [temp EXCEPT ![i] = Template] ELSE temp

\* Chmod, mutated: the function returns before the cleanup is deferred.
ChmodEarly(i) ==
  /\ ipc[i] = "chmod"
  /\ ToStep(i, "close") \/ ("chmod" \in Faults /\ ToStep(i, "failed"))
  /\ UNCHANGED <<files, force, temp, commandvars, bounds>> /\ Observe

Chmod(i) == Call(i, "chmod", "close") /\ UNCHANGED temp

Close(i) == Call(i, "close", "rename") /\ UNCHANGED temp

Rename(i) ==
  /\ ipc[i] = "rename"
  /\ \/ /\ toml' = temp[i]
        /\ temp' = [temp EXCEPT ![i] = Absent]
        /\ ToStep(i, "ok")
     \/ "rename" \in Faults /\ Fails(i) /\ UNCHANGED <<toml, temp>>
  /\ UNCHANGED <<legacy, force, commandvars, bounds>> /\ Observe

\* The deferred function does not look at the error of os.Remove.
RemoveTemp(i) ==
  /\ ipc[i] = "remove"
  /\ \/ ToStep(i, "failed") /\ temp' = [temp EXCEPT ![i] = Absent]
     \/ "remove" \in Faults /\ ToStep(i, "littered") /\ UNCHANGED temp
  /\ UNCHANGED <<files, force, commandvars, bounds>> /\ Observe

InstallerStep(i) ==
  \/ ConfigInit(i) \/ Stat(i) \/ MkdirAll(i) \/ CreateTemp(i) \/ Write(i) \/ Chmod(i)
  \/ Close(i) \/ Rename(i) \/ RemoveTemp(i)

Killed(i) ==
  /\ Installing(i) /\ deaths < MaxDeaths
  /\ deaths' = deaths + 1
  /\ ToStep(i, "dead")
  /\ UNCHANGED <<files, force, temp, commandvars, edits>> /\ Observe
-----------------------------------------------------------------------------
(* A command: resolveRuntimeConfig and loadCLI.  Environment and flags are   *)
(* its own and do not change.                                               *)

Resolve(g, cfg) == IF cfg = Bad THEN Bad ELSE Override(g.flags, LookupEnv(g.env, cfg))

Ends(c, cfg) ==
  /\ cpc' = [cpc EXCEPT ![c] = "done"]
  /\ result' = [result EXCEPT ![c] = Resolve(given[c], cfg)]

Run(c) ==
  /\ cpc[c] = "idle"
  /\ cpc' = [cpc EXCEPT ![c] = "toml"]
  /\ UNCHANGED <<files, installvars, given, result, bounds>> /\ Observe

\* ReadTOML, mutated: any error leads to the legacy file.
ReadTOMLOrElse(c) ==
  /\ cpc[c] = "toml"
  /\ IF toml # Absent /\ LoadCLITOML(toml, DefaultCLI) # Bad
     THEN Ends(c, LoadCLITOML(toml, DefaultCLI))
     ELSE cpc' = [cpc EXCEPT ![c] = "legacy"] /\ UNCHANGED result
  /\ UNCHANGED <<files, installvars, given, bounds>> /\ Observe

ReadTOML(c) ==
  /\ cpc[c] = "toml"
  /\ \/ /\ toml = Absent
        /\ cpc' = [cpc EXCEPT ![c] = "legacy"]
        /\ UNCHANGED result
     \/ toml # Absent /\ Ends(c, LoadCLITOML(IF toml = Half THEN Bad ELSE toml, DefaultCLI))
  /\ UNCHANGED <<files, installvars, given, bounds>> /\ Observe

ReadLegacy(c) ==
  /\ cpc[c] = "legacy"
  /\ Ends(c, IF legacy = Absent THEN DefaultCLI ELSE LoadCLILegacy(legacy, DefaultCLI))
  /\ UNCHANGED <<files, installvars, given, bounds>> /\ Observe

CommandStep(c) == Run(c) \/ ReadTOML(c) \/ ReadLegacy(c)

\* The user edits; the editor replaces a file as a whole.
EditTOML(f) ==
  /\ edits < MaxEdits /\ f # toml
  /\ toml' = f /\ edits' = edits + 1
  /\ UNCHANGED <<legacy, installvars, commandvars, deaths>> /\ Observe

EditLegacy(f) ==
  /\ edits < MaxEdits /\ f # legacy
  /\ legacy' = f /\ edits' = edits + 1
  /\ UNCHANGED <<toml, installvars, commandvars, deaths>> /\ Observe

Finished ==
  /\ \A i \in Installer : ~Installing(i)
  /\ \A c \in Command : ~Loading(c)
  /\ UNCHANGED vars

Next ==
  \/ \E i \in Installer : InstallerStep(i) \/ Killed(i)
  \/ \E c \in Command : CommandStep(c)
  \/ \E f \in TomlFile \cup {Absent} : EditTOML(f)
  \/ \E f \in LegacyFile \cup {Absent} : EditLegacy(f)
  \/ Finished

Spec == Init /\ [][Next]_vars
-----------------------------------------------------------------------------
(* The reference: the first of flags, environment, file and defaults that    *)
(* says something of a setting decides it.                                  *)

FirstOf(choices) == choices[CHOOSE n \in DOMAIN choices :
                              choices[n] # Bad /\ \A m \in 1 .. n - 1 : choices[m] = Bad]

\* In TOML a blank mount root or timeout says nothing, in the environment nothing
\* that is empty does.
TOMLSays(t, k) ==
  IF k \notin DOMAIN t \/ (k \in {"mount_root", "timeout"} /\ TrimSpace(t[k]) = "") THEN Bad
  ELSE CASE k = "mount_root" -> TrimSpace(t[k])
         [] k = "timeout" -> ParseDuration(TrimSpace(t[k]))
         [] OTHER -> t[k]

\* The last line about a setting counts.
LegacySays(l, k) ==
  LET lines == {n \in DOMAIN l : l[n].eq /\ l[n].words = <<k>>}
  IN  IF lines = {} THEN Bad
      ELSE Parsed(k, TrimSpace(l[CHOOSE n \in lines : \A m \in lines : m <= n].value))

EnvSays(g, k) == IF g.env[k] = "" THEN Bad ELSE Parsed(k, g.env[k])

FlagSays(g, k) == IF k \in DOMAIN g.flags THEN g.flags[k] ELSE Bad

\* A file that makes commands fail: unreadable, of another version, with a line
\* that is none, or with a number or duration that is none.
BrokenTOML(t) ==
  \/ t \in {Bad, Half}
  \/ /\ t # Absent
     /\ \/ "version" \notin DOMAIN t \/ t.version # 1
        \/ /\ "timeout" \in DOMAIN t /\ TrimSpace(t.timeout) # ""
           /\ ParseDuration(TrimSpace(t.timeout)) = Bad

BrokenLegacy(l) ==
  \/ l = Bad
  \/ /\ l # Absent
     /\ \E n \in DOMAIN l :
          \/ ~(l[n].eq <=> Len(l[n].words) = 1) \/ Len(l[n].words) > 1
          \/ /\ l[n].eq /\ l[n].words[1] \in Key
             /\ Parsed(l[n].words[1], TrimSpace(l[n].value)) = Bad

Expected(t, l, g) ==
  IF BrokenTOML(t) \/ (t = Absent /\ BrokenLegacy(l)) THEN Bad
  ELSE [k \in Key |->
          FirstOf(<<FlagSays(g, k), EnvSays(g, k),
                    IF t # Absent THEN TOMLSays(t, k)
                    ELSE IF l # Absent THEN LegacySays(l, k) ELSE Bad,
                    DefaultCLI[k]>>)]
-----------------------------------------------------------------------------
(* Properties.                                                              *)

\* A command uses the settings that its flags, its environment and the files of
\* one moment of its run give, in that order (loadCLI and resolveRuntimeConfig),
\* although it reads the files one after the other and the user, or "config init",
\* changes them meanwhile; if it is only config.toml that changes.
UsesOneMoment ==
  \A c \in Command :
    cpc[c] = "done" /\ (\A f, g \in seen[c] : f[2] = g[2]) =>
      \E f \in seen[c] : result[c] = Expected(f[1], f[2], given[c])

\* A config.toml that is malformed stops every command: it is never passed over
\* for the legacy file or the defaults (the ErrNotExist of loadCLI is the only way
\* there), whatever becomes of the files while the command runs.
MalformedStops ==
  \A c \in Command :
    cpc[c] = "done" /\ (\A f \in seen[c] : BrokenTOML(f[1])) => result[c] = Bad

\* WriteTemplate puts config.toml into its place as a whole: at no moment, wherever
\* an installer fails or is killed, does the next command find half a template.
TomlIsWhole == toml # Half

\* And nothing else stops one: a command that fails has found a malformed file,
\* other than half a template, while it ran.
StopsOnlyIfMalformed ==
  \A c \in Command :
    cpc[c] = "done" /\ result[c] = Bad =>
      \E f \in seen[c] : (f[1] # Half /\ BrokenTOML(f[1])) \/ BrokenLegacy(f[2])

\* Without --force an installer that succeeds has found the name free at some
\* moment, so two steps of Stat and Rename replace at most what came meanwhile.
RefusesWhatStays ==
  \A i \in Installer : ipc[i] = "ok" => force[i] \/ free[i]

\* An installer that lives to its end leaves no temporary file, wherever it failed,
\* unless os.Remove fails as well.
InitLeavesNothing ==
  \A i \in Installer : ipc[i] \in {"ok", "exists", "failed"} => temp[i] = Absent

\* README: "config init" refuses to overwrite an existing file unless --force is
\* used (Stat and Rename of WriteTemplate).
OverwritesOnlyByForce ==
  [][\A i \in Installer : ipc[i] = "rename" /\ ipc'[i] = "ok" /\ ~force[i] =>
       toml = Absent]_vars
=============================================================================
