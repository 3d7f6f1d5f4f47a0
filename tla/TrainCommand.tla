----------------------------- MODULE TrainCommand -----------------------------
(***************************************************************************)
(* cli::run_train (src/cli/train_command.cpp), reached through main        *)
(* (src/cli/main.cpp): parse the arguments, read the corpora and the       *)
(* dictionaries, build the examples, train, quantize and export the model  *)
(* through the steps of ModelFile, and exit with a status.  Commands       *)
(* follow one another and write to one target, which loads of other        *)
(* processes read meanwhile.                                               *)
(*                                                                         *)
(* An argument is a token; Unsigned and Decimals say what from_chars and   *)
(* strtof make of it, decimals in thousandths.  What a corpus holds is     *)
(* reduced to whether it has a labeled boundary, training to whether its   *)
(* parameters are finite and to the magnitudes that quantize makes scales  *)
(* and biases of; Corpus, Examples and Training model the rest.            *)
(***************************************************************************)
EXTENDS ModelFile, SequencesExt

CONSTANTS
    CommandLines,    \* sequences of arguments
    Unsigned,        \* [token -> number], of the tokens that read as one
    Decimals,        \* [token -> thousandths], of those that are finite
    Defaults,        \* NetConfig, TrainOptions, AdamConfig, EdlaConfig
    MaxByte,         \* the largest uint8_t (255)
    MaxWord,         \* the largest uint16_t (65535)
    MaxEmbedDim,     \* the largest embed_dim a model file may have (256)
    Trained,         \* what finite parameters may come to: see TrainedMagnitudes
    Inf, NaN,        \* the floats that are no numbers
    Amax, Qmax,      \* kAmax (2^22), kQmax (32767)
    MaxBias,         \* the largest b1 / acc_scale a loader takes (2^31 - 1)
    MaxOutputBias    \* the largest b2 / (w2_scale * acc_scale) (2^62)

\* pct is the percentile of |a| over the calibration set, whose products and
\* sums may overflow; b1, b2 and w2 are the largest magnitudes of each.
TrainedMagnitudes == [pct : Nat \cup {Inf, NaN}, b1 : Nat, b2 : Nat, w2 : Nat]

ASSUME TrainCommandAssumption ==
    /\ MaxByte \in Nat /\ MaxWord \in Nat /\ MaxEmbedDim \in 1 .. MaxWord
    /\ Inf \notin Nat /\ NaN \notin Nat /\ Inf # NaN
    /\ \A t \in Trained : t \in TrainedMagnitudes
    /\ Amax \in Nat \ {0} /\ Qmax \in Nat \ {0}
    /\ MaxBias \in Nat /\ MaxOutputBias \in Nat

VARIABLE
    cmd              \* the command: step, options, files read, config, model, status

commandVars == <<vars, cmd>>

-----------------------------------------------------------------------------
(* parse *)

TextOptions == {"--backend", "--corpus", "--partial-corpus", "--dict", "--dev-corpus",
                "--model-out", "--optimizer", "--ed-embedding-update"}
NumberOptions == {"--char-window", "--embed-dim", "--hidden", "--min-count", "--epochs",
                  "--batch-size", "--patience", "--seed"}
DecimalOptions == {"--lr", "--ed-feedback-decay", "--ed-feedback-init"}
Flags == {"--ed-learn-feedback"}

\* parse_number
Reads(option, value) ==
    /\ option \in NumberOptions => value \in DOMAIN Unsigned
    /\ option \in DecimalOptions => value \in DOMAIN Decimals

\* An option that takes a value takes the next argument, whatever it is.
Take(p, a) ==
    IF p.pending # None
    THEN [given |-> Append(p.given, <<p.pending, a>>), pending |-> None,
          ok |-> p.ok /\ Reads(p.pending, a)]
    ELSE CASE a \in TextOptions \cup NumberOptions \cup DecimalOptions -> [p EXCEPT !.pending = a]
           [] a \in Flags -> [p EXCEPT !.given = Append(@, <<a, a>>)]
           [] OTHER -> [p EXCEPT !.ok = FALSE]

Given(args) == FoldLeft(Take, [given |-> <<>>, pending |-> None, ok |-> TRUE], args)

Values(p, option) == SelectSeq(p.given, LAMBDA g : g[1] = option)

\* The last value given to an option, as "read" reads it.
ValueOf(p, option, read, default) ==
    LET values == Values(p, option)
    IN  IF values = <<>> THEN default ELSE read[Last(values)[2]]

Text(p, option, default) ==
    LET values == Values(p, option)
    IN  IF values = <<>> THEN default ELSE Last(values)[2]

Count(p, option) == Len(Values(p, option))

\* Options; it is not used when an argument does not read.
Options(p) ==
    [backend |-> Text(p, "--backend", ""),
     corpora |-> Count(p, "--corpus") + Count(p, "--partial-corpus"),
     dicts |-> Count(p, "--dict"),
     dev_corpus |-> Text(p, "--dev-corpus", ""),
     model_out |-> Text(p, "--model-out", ""),
     char_window |-> ValueOf(p, "--char-window", Unsigned, Defaults.char_window),
     embed_dim |-> ValueOf(p, "--embed-dim", Unsigned, Defaults.embed_dim),
     hidden |-> ValueOf(p, "--hidden", Unsigned, Defaults.hidden),
     batch_size |-> ValueOf(p, "--batch-size", Unsigned, Defaults.batch_size),
     lr |-> ValueOf(p, "--lr", Decimals, Defaults.lr),
     optimizer |-> Text(p, "--optimizer", "adam"),
     ed_embedding_update |-> Text(p, "--ed-embedding-update", ""),
     ed_learn_feedback |-> Count(p, "--ed-learn-feedback") > 0,
     ed_feedback_given |-> Count(p, "--ed-feedback-decay") + Count(p, "--ed-feedback-init") > 0,
     ed_feedback_decay |-> ValueOf(p, "--ed-feedback-decay", Decimals, Defaults.ed_feedback_decay)]

\* char_window checked from below only: 256 would be exported as 0.
InRange_WindowFromBelow(opt) ==
    /\ opt.char_window >= 1
    /\ opt.embed_dim \in 1 .. MaxEmbedDim
    /\ opt.hidden \in 1 .. MaxWord
    /\ opt.batch_size >= 1
    /\ opt.dicts \in 0 .. MaxByte

InRange(opt) ==
    /\ opt.char_window \in 1 .. MaxByte
    /\ opt.embed_dim \in 1 .. MaxEmbedDim
    /\ opt.hidden \in 1 .. MaxWord
    /\ opt.batch_size >= 1
    /\ opt.dicts \in 0 .. MaxByte

\* The options of the EDLA trainer.
EdConsistent(opt) ==
    /\ opt.ed_embedding_update \in {"", "hybrid", "pure"}
    /\ opt.ed_learn_feedback => opt.ed_feedback_decay \in 1 .. 999
    /\ opt.backend = "ed" \/ ( /\ opt.ed_embedding_update = ""
                               /\ ~opt.ed_learn_feedback /\ ~opt.ed_feedback_given )

Consistent(opt) ==
    /\ opt.backend # "" /\ opt.model_out # "" /\ opt.corpora \in Nat \ {0}
    /\ opt.optimizer \in {"adam", "sgd"} /\ opt.lr > 0
    /\ EdConsistent(opt)
    /\ InRange(opt)

ParsedOk(args) ==
    LET p == Given(args)
    IN  p.ok /\ p.pending = None /\ Consistent(Options(p))

-----------------------------------------------------------------------------
(* The process. *)

Running == -1
Aborted == 134       \* SIGABRT: an exception nobody catches
Killed == 137        \* SIGKILL

\* What run_train_mlp and run_train_ed pass to finish.
FormatOf == [mlp |-> "mlp", ed |-> "ed"]

\* run_train, up to the trainers.
RunTrain(args) ==
    LET backend == Options(Given(args)).backend
    IN  CASE ~ParsedOk(args) -> 2
          [] ParsedOk(args) /\ backend \in DOMAIN FormatOf -> Running
          [] ParsedOk(args) /\ backend \in {"kytea", "vaporetto"} -> 1
          [] OTHER -> 2

\* main; the predict command is PredictStream's.
StatusAtOnce[line \in CommandLines] ==
    CASE line = <<>> -> 2
      [] line # <<>> /\ Head(line) \in {"-h", "--help", "-v", "--version"} -> 0
      [] line # <<>> /\ Head(line) = "train" -> RunTrain(Tail(line))
      [] OTHER -> 2

Start(line) ==
    /\ cmd.step = "idle" /\ cmd.count < MaxExports
    /\ LET status == StatusAtOnce[line]
       IN  cmd' = [trains |-> status = Running,
                   step |-> IF status = Running THEN "read" ELSE "idle",
                   options |-> IF status = Running THEN Options(Given(Tail(line))) ELSE None,
                   read |-> 0, labeled |-> FALSE, config |-> None, quantized |-> None,
                   status |-> status,
                   before |-> names["target"], count |-> cmd.count + 1]
    /\ UNCHANGED vars

Exit(status) == cmd' = [cmd EXCEPT !.step = "idle", !.status = status]

-----------------------------------------------------------------------------
(* prepare *)

\* "reading" one more of the files the options name, after "first" others.
ReadingFrom(first, files) ==
    cmd.step = "read" /\ cmd.read \in first .. first + files - 1

\* A full or a partial corpus; it may label no boundary.
ReadCorpus ==
    /\ ReadingFrom(0, cmd.options.corpora)
    /\ \E labels \in BOOLEAN :
          cmd' = [cmd EXCEPT !.read = @ + 1, !.labeled = @ \/ labels]
    /\ UNCHANGED vars

ReadDictionary ==
    /\ ReadingFrom(cmd.options.corpora, cmd.options.dicts)
    /\ cmd' = [cmd EXCEPT !.read = @ + 1]
    /\ UNCHANGED vars

\* A file that cannot be opened or parsed.
ReadingFails ==
    /\ ReadingFrom(0, cmd.options.corpora + cmd.options.dicts)
    /\ Exit(1)
    /\ UNCHANGED vars

\* The network's shape, and the header written from it: both are casts.
Config(opt, dictionaries) ==
    [window |-> opt.char_window % (MaxByte + 1),
     embed_dim |-> opt.embed_dim % (MaxWord + 1),
     hidden |-> opt.hidden % (MaxWord + 1),
     num_dicts |-> dictionaries % (MaxByte + 1)]

Prepared ==
    cmd' = [cmd EXCEPT !.step = "train",
                       !.config = Config(cmd.options, cmd.read - cmd.options.corpora)]

\* build_vocab and build_examples; "no supervised boundaries in the corpora".
BuildExamples ==
    /\ cmd.step = "read" /\ cmd.read = cmd.options.corpora + cmd.options.dicts
    /\ \/ ~cmd.labeled /\ Exit(1)
       \/ cmd.labeled /\ cmd.options.dev_corpus = "" /\ Prepared
       \/ cmd.labeled /\ cmd.options.dev_corpus # "" /\ cmd' = [cmd EXCEPT !.step = "dev"]
    /\ UNCHANGED vars

\* It fails when the dev corpus is not read or labels no boundary.
ReadDevCorpus ==
    /\ cmd.step = "dev"
    /\ Prepared \/ Exit(1)
    /\ UNCHANGED vars

-----------------------------------------------------------------------------
(* train, quantize, export *)

\* quantize: acc_scale in units of 1 / Amax, w2_scale in units of 1 / Qmax.
\* Activations that are all zero count as 1, a tensor that is has scale 1;
\* a NaN is no smaller than 0.
Quantize(t) ==
    [acc_scale |-> IF t.pct = 0 THEN 1 ELSE t.pct,
     w2_scale |-> IF t.w2 = 0 THEN Qmax ELSE t.w2,
     b1 |-> t.b1, b2 |-> t.b2]

\* finish: the parameters diverged, or they are finite and quantized.
Train ==
    /\ cmd.step = "train"
    /\ \/ Exit(1)
       \/ \E t \in Trained :
             cmd' = [cmd EXCEPT !.step = "export", !.quantized = Quantize(t)]
    /\ UNCHANGED vars

\* What Parts::parse requires of the shape, of the scale that may be none
\* (the others are those of finite tensors), and of the biases.
Plausible(config) ==
    /\ config.window >= 1 /\ config.hidden >= 1
    /\ config.embed_dim \in 1 .. MaxEmbedDim

IsScale(acc_scale) == acc_scale \notin {Inf, NaN}

BiasesInRange(q) ==
    /\ q.b1 * Amax <= MaxBias * q.acc_scale
    /\ q.b2 * Amax * Qmax <= MaxOutputBias * q.w2_scale * q.acc_scale

Representable(q) == IsScale(q.acc_scale) /\ BiasesInRange(q)

\* The loader accepts what export_model writes of them.
Accepts(config, q) == Plausible(config) /\ Representable(q)

BeginExport ==
    /\ cmd.step = "export"
    /\ \/ OpenTmp(FormatOf[cmd.options.backend], Accepts(cmd.config, cmd.quantized))
       \/ OpenTmpFails
    /\ cmd' = [cmd EXCEPT !.step = "exporting"]

ContinueExport ==
    /\ WritePart \/ Close \/ WriteFails \/ Rename \/ RenameFails
    /\ UNCHANGED cmd

StatusOf_Ignored == 0
StatusOf == IF export.outcome = "ok" THEN 0 ELSE 1

\* export_model has returned, and finish returns what main returns.
FinishExport ==
    /\ cmd.step = "exporting" /\ export.step = "idle" /\ export.outcome \in {"ok", "failed"}
    /\ Exit(StatusOf)
    /\ UNCHANGED vars

\* Anything may throw (an allocation, a message to a closed stderr), before
\* export_model, in it and after it has succeeded.  Nothing catches it.
Uncaught ==
    /\ cmd.step # "idle" /\ export.step = "idle"
    /\ Exit(Aborted)
    /\ UNCHANGED vars

\* The process is killed, wherever it is.
Kill ==
    /\ cmd.step # "idle"
    /\ Exit(Killed)
    /\ \/ Crash
       \/ export.step = "idle" /\ UNCHANGED vars

-----------------------------------------------------------------------------
OtherProcess ==
    /\ SniffFails \/ Sniff \/ OpenModel \/ ReadModel \/ ReadFails
    /\ UNCHANGED cmd

CommandInit ==
    /\ Init
    /\ cmd = [trains |-> FALSE, step |-> "idle", options |-> None, read |-> 0, labeled |-> FALSE,
              config |-> None, quantized |-> None, status |-> 0,
              before |-> names["target"], count |-> 0]

CommandNext ==
    \/ \E line \in CommandLines : Start(line)
    \/ ReadCorpus \/ ReadDictionary \/ ReadingFails \/ BuildExamples \/ ReadDevCorpus
    \/ Train \/ BeginExport \/ ContinueExport \/ FinishExport
    \/ Uncaught \/ Kill
    \/ OtherProcess

CommandSpec == CommandInit /\ [][CommandNext]_commandVars

-----------------------------------------------------------------------------
\* The shape asked for.
Asked(opt) ==
    [window |-> opt.char_window, embed_dim |-> opt.embed_dim, hidden |-> opt.hidden,
     num_dicts |-> opt.dicts]

Untouched == names["target"] = cmd.before

\* The target is the model the command was asked for, and the loader takes it
\* unless a scale or a bias is out of range.
AsAsked ==
    /\ cmd.trains /\ cmd.labeled
    /\ names["target"] # None
    /\ content[names["target"]] = Complete(export.model)
    /\ format[export.model] = FormatOf[cmd.options.backend]
    /\ cmd.config = Asked(cmd.options)
    /\ export.model \in loadable <=> Representable(cmd.quantized)

(***************************************************************************)
(* The status a command exits with tells what is at the target: after 0,   *)
(* of a command that trains, a whole model of the backend and the shape    *)
(* asked for, which the loader does not refuse for its shape or for how it *)
(* was written; after 1 or 2 what was there before; and after a death by a *)
(* signal one of the two.  It may refuse one for its scales or biases:     *)
(* see OwnLoaderAccepts.                                                   *)
(***************************************************************************)
ExitTellsTheTruth ==
    cmd.step = "idle" =>
        /\ Untouched \/ AsAsked
        /\ cmd.status \in {1, 2} => Untouched
        /\ cmd.status = 0 /\ cmd.trains => AsAsked

(***************************************************************************)
(* A command that exits with 0 has not written "a model its own loader     *)
(* rejects" (tests/unit/train_exporter_test.cpp).  The code does not keep  *)
(* this: finite parameters pass all_finite, and their activations may      *)
(* overflow, so that acc_scale is written infinite or NaN, or be so small  *)
(* that a bias does not fit.                                               *)
(***************************************************************************)
OwnLoaderAccepts ==
    cmd.step = "idle" /\ cmd.status = 0 /\ cmd.trains => export.model \in loadable
=============================================================================
