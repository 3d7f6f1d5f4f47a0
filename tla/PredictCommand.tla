---------------------------- MODULE PredictCommand ----------------------------
(***************************************************************************)
(* cli::run_predict (src/cli/predict_command.cpp) from its arguments to    *)
(* its status: parse them, load the model, then the loop of PredictStream. *)
(* An argument is a token; Counts says what from_chars makes of a whole    *)
(* token, and "" is the empty one.                                         *)
(***************************************************************************)
EXTENDS PredictStream, SequencesExt

CONSTANTS
    ArgumentLists,   \* what may follow "predict" on a command line
    Counts,          \* [token -> unsigned], of the tokens that read as one
    MaxThreads       \* kMaxThreads

ASSUME PredictCommandAssumption ==
    MaxThreads \in Nat

VARIABLE
    cmd              \* step, args, opt (Options), status

commandVars == <<vars, cmd>>

Running == -1

-----------------------------------------------------------------------------
(* parse *)

NoOptions == [model |-> "", threads |-> 0, needs |-> "", ok |-> TRUE]

Refuse(opt) == [opt EXCEPT !.ok = FALSE, !.needs = ""]

\* "needs" is the option whose value the next argument is, whatever it is.
\* Past the first error values are taken and not looked at.
Take_Prefix(opt, a) ==
    CASE opt.needs = "--model" -> [opt EXCEPT !.needs = "", !.model = a]
      [] opt.needs = "--threads" ->
            IF a \in DOMAIN Counts THEN [opt EXCEPT !.needs = "", !.threads = Counts[a]]
                                   ELSE [opt EXCEPT !.needs = ""]
      [] opt.needs = "" /\ a \in {"--model", "--threads"} -> [opt EXCEPT !.needs = a]
      [] OTHER -> Refuse(opt)
Take(opt, a) ==
    CASE opt.needs = "--model" -> [opt EXCEPT !.needs = "", !.model = a]
      [] opt.needs = "--threads" ->
            IF a \in DOMAIN Counts /\ Counts[a] <= MaxThreads
            THEN [opt EXCEPT !.needs = "", !.threads = Counts[a]]
            ELSE Refuse(opt)
      [] opt.needs = "" /\ a \in {"--model", "--threads"} -> [opt EXCEPT !.needs = a]
      [] OTHER -> Refuse(opt)

Parsed(args) ==
    LET opt == FoldLeft(Take, NoOptions, args)
    IN  [opt EXCEPT !.ok = opt.ok /\ opt.needs = "" /\ opt.model # ""]

-----------------------------------------------------------------------------
(* The command. *)

Exited(status) == cmd' = [cmd EXCEPT !.step = "done", !.status = status]

Parse ==
    /\ cmd.step = "parse"
    /\ LET opt == Parsed(cmd.args)
       IN  cmd' = IF opt.ok THEN [cmd EXCEPT !.step = "load", !.opt = opt]
                            ELSE [cmd EXCEPT !.step = "done", !.opt = opt, !.status = 2]
    /\ UNCHANGED vars

\* Segmenter::load returns a segmenter, which may warn of its Unicode version,
\* or an error, or throws for want of memory.
Load ==
    /\ cmd.step = "load"
    /\ \/ cmd' = [cmd EXCEPT !.step = "stream"]
       \/ Exited(1)
       \/ Exited(Aborted)
    /\ UNCHANGED vars

\* The loop over the blocks; its end is the command's.
Segment ==
    /\ cmd.step = "stream"
    /\ Next
    /\ IF phase' = "exited" THEN Exited(exit') ELSE UNCHANGED cmd

CommandInit ==
    /\ Init
    /\ \E args \in ArgumentLists :
          cmd = [step |-> "parse", args |-> args, opt |-> NoOptions, status |-> Running]

CommandNext == Parse \/ Load \/ Segment

CommandSpec == CommandInit /\ [][CommandNext]_commandVars

\* One sequential process; a load, a finite stream and a device that answer.
CommandFairSpec == CommandSpec /\ WF_commandVars(CommandNext)

-----------------------------------------------------------------------------
\* The values given to an option when args are pairs of an option and its value.
ValuesOf(args, option) ==
    SelectSeq([i \in 1 .. Len(args) \div 2 |-> <<args[2 * i - 1], args[2 * i]>>],
              LAMBDA pair : pair[1] = option)

\* The usage: pairs, every thread count a number up to the cap, a model last named.
WellFormed(args) ==
    /\ Len(args) % 2 = 0
    /\ \A i \in 1 .. Len(args) \div 2 : args[2 * i - 1] \in {"--model", "--threads"}
    /\ \A i \in 1 .. Len(ValuesOf(args, "--threads")) :
          LET v == ValuesOf(args, "--threads")[i][2]
          IN  v \in DOMAIN Counts /\ Counts[v] <= MaxThreads
    /\ LET models == ValuesOf(args, "--model")
       IN  models # <<>> /\ Last(models)[2] # ""

LastCount(args) ==
    LET given == ValuesOf(args, "--threads")
    IN  IF given = <<>> THEN 0 ELSE Counts[Last(given)[2]]

\* What the command was told, in cmd.args, is what it did, by its status.
AsTold ==
    /\ cmd.status = 2 <=> ~WellFormed(cmd.args)
    /\ cmd.status # 2 =>
          /\ cmd.opt.model = Last(ValuesOf(cmd.args, "--model"))[2]
          /\ cmd.opt.threads = LastCount(cmd.args) /\ cmd.opt.threads <= MaxThreads
    /\ cmd.status = 0 => exit = 0 /\ phase = "exited"
    /\ cmd.status = 2 \/ exit = -1 => taken = 0 /\ delivered = <<>>
    /\ exit # -1 => cmd.status = exit

(***************************************************************************)
(* Every run of predict ends: with status 2 exactly when its arguments are *)
(* not options each with its value, a number of threads that is one to its *)
(* last character and within the cap, and a model; else with the last      *)
(* model and count given and the status of the stream, and it reads        *)
(* nothing unless a model is loaded.                                       *)
(***************************************************************************)
EndsAsTold == <>(cmd.step = "done" /\ AsTold)
=============================================================================
