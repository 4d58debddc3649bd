------------------------------- MODULE Options -------------------------------
(***************************************************************************)
(* Where the settings of a run come from, src/src/vanguards/config.py and  *)
(* the beginning of run_main in main.py: the defaults in the source, a     *)
(* default configuration file, the command line, a file that is named on   *)
(* the command line, and the command line another time.                    *)
(***************************************************************************)
EXTENDS Integers, FiniteSets, Functions

CONSTANTS
    Values,             \* option -> the values it may have
    Builtin,            \* option -> its value in the source
    Switch,             \* option of Switches -> the value its switch gives it
    Files,              \* the configuration files there may be
    Commands,           \* what may be given on the command line
    Environments        \* what the environment may set

Options == DOMAIN Builtin

\* The options that have a switch on the command line.
Switches == {"enable_vanguards", "enable_rendguard", "enable_logguard",
             "enable_bandguards", "enable_cbtverify", "enable_pathverify",
             "one_shot_vanguards"}

\* The options of the module logguard.
LogguardOptions == {"log_protocol_warns", "log_dump_limit", "log_dump_level"}

\* The options of the section [Global], which is the first to be applied.
GlobalOptions == Switches \union {"close_circuits", "state_file"}

\* A file is absent (or no configuration at all), in order, or broken: a number
\* cannot be read, at the earliest in the section after [Global].
Absent == [status |-> "absent", values |-> [o \in {} |-> 0]]

ASSUME OptionsAssumption ==
    /\ DOMAIN Values = Options /\ \A o \in Options : Builtin[o] \in Values[o]
    /\ Switches \union {"close_circuits", "state_file"} \subseteq Options
    /\ Switch \in [Switches -> BOOLEAN]
    /\ \A o \in Switches \union {"close_circuits"} : Values[o] = BOOLEAN
    /\ \A f \in Files : /\ f.status \in {"absent", "good", "broken"}
                        /\ DOMAIN f.values \subseteq Options
                        /\ \A o \in DOMAIN f.values : f.values[o] \in Values[o]
    /\ \A c \in Commands : DOMAIN c \subseteq Switches \union {"state_file"}
    /\ \A c \in Commands : \A o \in DOMAIN c \intersect Switches : c[o] = Switch[o]
    /\ \A v \in Environments : DOMAIN v \subseteq {"state_file"}
    /\ \A v \in Commands \union Environments :
         "state_file" \in DOMAIN v => v["state_file"] \in Values["state_file"]

VARIABLES
    pc,                 \* what the main thread does next
    exit,               \* the exit status of the process, -1 while it runs
    asked,              \* the files, command and environment to be read
    config,             \* the values of the options, in their modules
    _CLOSE_CIRCUITS     \* the copy of close_circuits in control.py

optionVars == <<asked, config, _CLOSE_CIRCUITS>>

\* What is asked for when nothing is left to read.
Nothing == [default |-> Absent, given |-> Absent, named |-> FALSE,
            command |-> Absent.values, environment |-> Absent.values,
            generate |-> FALSE]

OptionsTypeOK ==
    /\ DOMAIN config = Options
    /\ \A o \in Options : config[o] \in Values[o]
    /\ _CLOSE_CIRCUITS \in BOOLEAN
    /\ exit \in {-1, 0, 1}
    /\ (pc = "exited") = (exit # -1)

OptionsInit ==
    /\ pc = "default_file"
    /\ exit = -1
    /\ asked \in [default : Files, given : Files, named : BOOLEAN,
                  command : Commands, environment : Environments,
                  generate : BOOLEAN]
    /\ ~asked.named => asked.given = Absent
    /\ config = Builtin
    /\ _CLOSE_CIRCUITS = Builtin["close_circuits"]

-----------------------------------------------------------------------------

\* Seeded fault: the status is lost.
ExitAny(status) == pc' = "exited" /\ exit' = -1

\* sys.exit(status)
Exit(status) == pc' = "exited" /\ exit' = status
GoTo(step) == pc' = step /\ UNCHANGED exit

\* apply_config. The section [Logguard] is read for the options of the module
\* rendguard, of which it has none. A broken file stops half way, and before the
\* copy of close_circuits is made.
ApplyConfig(file) ==
    LET applied == (DOMAIN file.values \ LogguardOptions) \intersect
                   (CASE file.status = "good" -> Options
                      [] file.status = "broken" -> GlobalOptions
                      [] OTHER -> {})
    IN  /\ config' = [o \in Options |->
                        IF o \in applied THEN file.values[o] ELSE config[o]]
        /\ _CLOSE_CIRCUITS' = IF file.status = "good" THEN config'["close_circuits"]
                              ELSE _CLOSE_CIRCUITS

\* Seeded fault: argparse has its own defaults for all switches.
ParserDefaultBare(o) ==
    IF o \in Switches THEN ~Switch[o]
    ELSE IF o \in DOMAIN asked.environment THEN asked.environment[o]
    ELSE config[o]

\* What the parser takes for an option that is not on the command line. The
\* default of --disable_bandguards is set under another name, and that of
\* --one_shot_vanguards not at all, so that argparse has its own for both.
ParserDefault(o) ==
    IF o \in {"enable_bandguards", "one_shot_vanguards"} THEN ~Switch[o]
    ELSE IF o \in DOMAIN asked.environment THEN asked.environment[o]
    ELSE config[o]

\* The default file: whatever is wrong with it is passed over.
DefaultFile ==
    /\ pc = "default_file"
    /\ ApplyConfig(asked.default)
    /\ GoTo("parse")
    /\ UNCHANGED asked

\* setup_options, the first and the second time. With --generate_config the
\* first writes a file and ends the process.
SetupOptions ==
    /\ pc \in {"parse", "reparse"}
    /\ config' = [o \in Options |->
                    IF o \in DOMAIN asked.command THEN asked.command[o]
                    ELSE ParserDefault(o)]
    /\ IF asked.generate THEN Exit(0)
       ELSE GoTo(IF pc = "parse" /\ asked.named THEN "given_file" ELSE "run")
    /\ UNCHANGED <<asked, _CLOSE_CIRCUITS>>

\* The address of the control port cannot be resolved.
SetupFails ==
    /\ pc \in {"parse", "reparse"}
    /\ Exit(1)
    /\ UNCHANGED optionVars

GivenFile ==
    /\ pc = "given_file"
    /\ ApplyConfig(asked.given)
    /\ IF asked.given.status = "good" THEN GoTo("reparse") ELSE Exit(1)
    /\ UNCHANGED asked

OptionsNext == DefaultFile \/ SetupOptions \/ SetupFails \/ GivenFile

-----------------------------------------------------------------------------
\* Properties, of the moment the options have been set up.

\* The files that were read to their end, the one that counts more first.
From(o) ==
    LET set(file) == file.status # "absent" /\ o \in DOMAIN file.values
    IN  IF o \in DOMAIN asked.command THEN asked.command[o]
        ELSE IF o \in DOMAIN asked.environment THEN asked.environment[o]
        ELSE IF set(asked.given) THEN asked.given.values[o]
        ELSE IF set(asked.default) /\ (o \in GlobalOptions \/ asked.default.status = "good")
        THEN asked.default.values[o]
        ELSE Builtin[o]

\* "any values there should override any previous config file options, but not
\* options on the command line" (main.py:31): an option has the value of the
\* command line, else of the file that was named, else of the default file, else
\* of the source, however the passes undo each other. The exceptions are the two
\* switches without a default and the options of a section read for another
\* module.
PrecedenceKept ==
    pc = "run" =>
      \A o \in Options \ ({"enable_bandguards", "one_shot_vanguards"} \union LogguardOptions) :
        config[o] = From(o)

\* The example configuration offers these three as options of a file, too
\* (vanguards-example.conf:30-31, 56 and 207-210).
DocumentedInFiles == {"enable_bandguards", "one_shot_vanguards", "log_dump_limit"}
FilesHonoured ==
    pc = "run" => \A o \in DocumentedInFiles \intersect Options : config[o] = From(o)
=============================================================================
