------------------------------- MODULE MCMain -------------------------------
(***************************************************************************)
(* ControlLoop with few files and command lines, for two circuits, three   *)
(* log lines and a layer of one guard.                                     *)
(***************************************************************************)
EXTENDS ControlLoop, TLC

CONSTANTS c1, c2

MCCircs == {c1, c2}
MCSymmetry == Permutations(MCCircs)

\* The options the operator may set; the others keep the value in the source.
MCSet == {"enable_rendguard", "enable_logguard", "enable_bandguards",
          "one_shot_vanguards", "close_circuits", "log_dump_limit"}
MCOff == {"enable_cbtverify", "enable_pathverify", "one_shot_vanguards"}

MCBuiltin == [o \in Switches \union {"close_circuits", "log_dump_limit", "state_file"} |->
                CASE o = "log_dump_limit" -> 25 [] o = "state_file" -> "a"
                  [] OTHER -> o \notin MCOff]
MCValues == [o \in DOMAIN MCBuiltin |->
               CASE o = "log_dump_limit" -> {25, 50} [] o = "state_file" -> {"a", "b"}
                 [] OTHER -> BOOLEAN]
MCSwitch == [o \in Switches |-> o \in MCOff]

\* Files with one line; a broken one may be about the circuits to be closed.
MCLines == {o :> v : o \in MCSet \ {"log_dump_limit"}, v \in BOOLEAN}
           \union {"log_dump_limit" :> 50, "state_file" :> "b"}
MCFiles ==
    {Absent}
    \union [status : {"good"}, values : MCLines]
    \union [status : {"broken"}, values : {"close_circuits" :> v : v \in BOOLEAN}]

\* Up to one switch, or the two of the circuit checks, or a state file.
MCCommands ==
    {Absent.values} \union {o :> MCSwitch[o] : o \in MCSet \intersect Switches}
    \union {[o \in {"enable_rendguard", "enable_bandguards"} |-> FALSE],
            "state_file" :> "a"}

MCEnvironments == {Absent.values, "state_file" :> "b"}

\* Bound: the loop is followed for one of the state files.
MCOneState == pc \in OptionSteps \union {"exited"} \/ config["state_file"] = "a"

\* Bound: the options that only the closing of circuits and its log read have
\* their values in the source once a connection was lost, which is when the next
\* bound leaves them out. (Losses are not what fairness is about.)
MCLosses ==
    drops > 0 => \A o \in {"close_circuits", "log_dump_limit"} : config[o] = MCBuiltin[o]

\* Bound: circuits and log lines only on the first connection of a process that
\* has no limit, and not beside an update. (No step that fairness is about is cut
\* off by it.)
MCFewLines ==
    lines > 0 \/ ended # {} \/ requested # [c \in {} |-> 0] \/ written # {}
      => /\ drops = 0 /\ retry_limit = 0 /\ width = LayerSize
         /\ \A t \in Threads : ~Updating(t)
=============================================================================
