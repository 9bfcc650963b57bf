------------------------------ MODULE Settings ------------------------------
(***************************************************************************)
(* Where settings come from: internal/config, which turns the guest's        *)
(* config.toml, its legacy "env" file and environment variables into the     *)
(* settings of a command, and the daemon's config.toml into those of a       *)
(* daemon; and resolveRuntimeConfig, which lets the flags win.               *)
(*                                                                          *)
(* A TOML file is the function from the keys it sets to their values, a      *)
(* string as it is written; a duration is a number, positive or not.         *)
(***************************************************************************)
EXTENDS Auth

CONSTANTS
  ParseUint(_),      \* strconv.ParseUint(_, 10, 32) and time.ParseDuration: a
  ParseDuration(_),  \* number, or Bad; external
  Bad,               \* a file that cannot be read, a text that cannot be parsed,
                     \* and what loading them gives
  Absent             \* there is no file

Key == {"mount_root", "host_cid", "port", "timeout", "token"}

DefaultCLI ==
  [mount_root |-> "/shared", host_cid |-> 2, port |-> 19090, timeout |-> 5, token |-> ""]

DefaultDaemon ==
  [share_root |-> "/srv/labshare", port |-> 19090, read_timeout |-> 5, write_timeout |-> 5,
   log_level |-> "info", allow_v1_fallback |-> FALSE, tokens |-> << >>]
-----------------------------------------------------------------------------
(* TOML.                                                                    *)

\* decodeTOML knows every key of the file and the type of every value, and the
\* version, 0 if it is not there, is 1.
Decodes(file) == file # Bad /\ "version" \in DOMAIN file /\ file.version = 1

Plain(file, k, cfg) == IF k \in DOMAIN file THEN file[k] ELSE cfg[k]

\* A string that is blank counts as not there.
TextAt(file, k) == IF k \in DOMAIN file THEN TrimSpace(file[k]) ELSE ""
Trimmed(file, k, cfg) == IF TextAt(file, k) # "" THEN TextAt(file, k) ELSE cfg[k]
Lasting(file, k, cfg) ==
  IF TextAt(file, k) # "" THEN ParseDuration(TextAt(file, k)) ELSE cfg[k]

LoadCLITOML(file, cfg) ==
  IF ~Decodes(file) \/ Lasting(file, "timeout", cfg) = Bad THEN Bad
  ELSE [mount_root |-> Trimmed(file, "mount_root", cfg),
        host_cid |-> Plain(file, "host_cid", cfg),
        port |-> Plain(file, "port", cfg),
        timeout |-> Lasting(file, "timeout", cfg),
        token |-> Plain(file, "token", [token |-> ""])]

\* loadDaemon: a file that is not there is an error as well.
LoadDaemon(file) ==
  LET cfg == DefaultDaemon
      read == Lasting(file, "read_timeout", cfg)
      write == Lasting(file, "write_timeout", cfg)
  IN  IF file = Absent \/ ~Decodes(file) \/ Bad \in {read, write} THEN Bad
      ELSE [share_root |-> Trimmed(file, "share_root", cfg),
            port |-> Plain(file, "port", cfg),
            read_timeout |-> read,
            write_timeout |-> write,
            log_level |-> Trimmed(file, "log_level", cfg),
            allow_v1_fallback |-> Plain(file, "allow_v1_fallback", cfg),
            tokens |-> Plain(file, "tokens", cfg)]

\* May a daemon with that file start to listen?  (ShareProbe has the share.)
DaemonStarts(file) == LoadDaemon(file) # Bad /\ StartsWith(LoadDaemon(file))
-----------------------------------------------------------------------------
(* The legacy file, the environment, the flags.                             *)

\* What a text means for a setting.
Parsed(k, text) ==
  CASE k \in {"host_cid", "port"} -> ParseUint(text)
    [] k = "timeout" -> ParseDuration(text)
    [] OTHER -> text

\* A line: the words before its first "=", less a leading "export", whether it has
\* a "=", and the text after it.  Blank lines and comments have none of these.
\* VREFLINK_HOST_CID and the other names are written like the keys they set.
IsSkipped(line) == line.words = << >> /\ ~line.eq

ParsesAsEntry(line) == line.eq /\ Len(line.words) = 1

\* applyCLILegacyEnvEntry: keys it does not know are ignored, an empty value is
\* one, and a number or duration must be one.
ApplyLegacyEntry(cfg, k, value) ==
  IF k \notin Key THEN cfg
  ELSE IF Parsed(k, value) = Bad THEN Bad
  ELSE [cfg EXCEPT ![k] = Parsed(k, value)]

LoadCLILegacy(file, cfg) ==
  IF file = Bad THEN Bad
  ELSE FoldLeft(LAMBDA acc, line :
                  IF acc = Bad \/ IsSkipped(line) THEN acc
                  ELSE IF ~ParsesAsEntry(line) THEN Bad
                  ELSE ApplyLegacyEntry(acc, line.words[1], TrimSpace(line.value)),
                cfg, file)

\* LookupEnv, mutated: the error of the parse is not looked at.
LookupEnvUnchecked(env, cfg) ==
  [k \in Key |-> IF env[k] = "" THEN cfg[k] ELSE Parsed(k, env[k])]

\* LookupEnv, where a variable that is not set gives "": a variable that is empty
\* or does not parse is passed over.
LookupEnv(env, cfg) ==
  [k \in Key |-> IF env[k] = "" \/ Parsed(k, env[k]) = Bad THEN cfg[k] ELSE Parsed(k, env[k])]

\* Override, mutated: a flag that is empty counts as not given.
OverrideIfSet(flags, cfg) ==
  [k \in Key |-> IF k \in DOMAIN flags /\ (k = "token" => flags[k] # "") THEN flags[k] ELSE cfg[k]]

\* resolveRuntimeConfig: the flags that were given, to whatever value.
Override(flags, cfg) == [k \in Key |-> IF k \in DOMAIN flags THEN flags[k] ELSE cfg[k]]
=============================================================================
