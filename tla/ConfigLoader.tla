---------------------------- MODULE ConfigLoader ----------------------------
(***************************************************************************)
(* Loader of config/loader.go and Validate of config/types.go.  A          *)
(* configuration is cut down to one field for every way its fields are     *)
(* treated: port (filled from the default if the file does not set it,     *)
(* overridden by a variable that parses), level (the same, but the         *)
(* variable is taken as it is), debug (always taken from the file) and     *)
(* monitor (never taken from the file, and not validated).  0 and "" are   *)
(* unset.  A file is such a record, or does not parse, or does not exist.  *)
(* The map of custom fields, which the configurations of a loader share,   *)
(* is left out.                                                            *)
(***************************************************************************)
EXTENDS Integers

CONSTANTS
  Absent,    \* there is no file
  Garbled,   \* a file that does not parse
  Failed,    \* an error instead of a configuration
  Words      \* the strings that levels and flags are written with, flags in lower case

DefaultConfig == [port |-> 8080, level |-> "info", debug |-> TRUE, monitor |-> 9090]

\* A configuration, a file that parses, and the variables.
Configs   == [port : Nat, level : Words, debug : BOOLEAN, monitor : Nat]
Files     == [port : Nat, level : Words, debug : BOOLEAN]
Variables == [port : Nat, level : Words, debug : Words, monitor : Nat]

Levels == {"trace", "debug", "info", "warn", "error", "fatal"}

parsePort(p) == p \in 1 .. 65535

Validate(c) == c.port \in 1 .. 65535 /\ c.level \in Levels

mergeConfig(d, f) ==
  [d EXCEPT !.port = IF f.port # 0 THEN f.port ELSE @,
            !.level = IF f.level # "" THEN f.level ELSE @,
            !.debug = f.debug]

loadFromEnv(c, env) ==
  [c EXCEPT !.port = IF parsePort(env.port) THEN env.port ELSE @,
            !.level = IF env.level # "" THEN env.level ELSE @,
            !.debug = IF env.debug # "" THEN env.debug = "true" ELSE @,
            !.monitor = IF parsePort(env.monitor) THEN env.monitor ELSE @]

\* The overrides, and the validation of what comes out.
Checked(c, env) == LET e == loadFromEnv(c, env) IN IF Validate(e) THEN e ELSE Failed

loadFromFile(file, env) ==
  IF file \in {Absent, Garbled} THEN Failed ELSE Checked(mergeConfig(DefaultConfig, file), env)

\* The first file that exists, in the order of the search.
findConfigFile(files) ==
  LET found == {i \in DOMAIN files : files[i] # Absent}
  IN  IF found = {} THEN Absent ELSE files[CHOOSE i \in found : \A j \in found : i <= j]

\* AutoLoad, and Load with no file name: without a file, the default with the overrides.
\* The code applies them to the loader's default in place and hands that out.  A later load
\* starts from it, with the same outcome as from the original as long as the environment
\* stays as it is, since the same overrides are applied again at its end, and as long as
\* nobody writes to the configuration it was handed.
AutoLoad(files, env) ==
  LET file == findConfigFile(files)
  IN  IF file = Absent THEN Checked(DefaultConfig, env) ELSE loadFromFile(file, env)

----------------------------------------------------------------------------

\* What a configuration should be: for each field the variable if it is set to something
\* usable, else the file if it says something, else the default.
Wins(c, file, env) ==
  LET inFile == file # Absent
  IN  /\ c.port = IF parsePort(env.port) THEN env.port
                  ELSE IF inFile /\ file.port # 0 THEN file.port ELSE DefaultConfig.port
      /\ c.level = IF env.level # "" THEN env.level
                   ELSE IF inFile /\ file.level # "" THEN file.level ELSE DefaultConfig.level
      /\ c.debug = IF env.debug # "" THEN env.debug = "true"
                   ELSE IF inFile THEN file.debug ELSE DefaultConfig.debug
      /\ c.monitor = IF parsePort(env.monitor) THEN env.monitor ELSE DefaultConfig.monitor
=============================================================================
