------------------------------ MODULE ModelFile ------------------------------
(***************************************************************************)
(* A model file on disk between mlp::train::export_model                   *)
(* (src/mlp/train/exporter.cpp), which writes it beside the target and     *)
(* renames it over, and Segmenter::load, which opens the target twice:     *)
(* once for the signature that selects a backend and once, through         *)
(* read_model_file, for the whole of it.  Exports follow one another, each *)
(* of another model; any of them may fail at each of its steps or be       *)
(* killed between two.                                                     *)
(*                                                                         *)
(* A name leads to a file (an inode), a file holds a sequence of parts,    *)
(* and part k of model m is <<m, k>>; the first carries the signature.     *)
(* Model 0 is what was at the target before, file 0, or there was none.    *)
(***************************************************************************)
EXTENDS Integers, Sequences

CONSTANTS
    Parts,           \* parts of a model
    MaxExports,      \* bound of the model: exports, and files they create
    MaxLoads,        \* bound of the model: loads
    None

ASSUME ModelFileAssumption ==
    /\ Parts \in Nat \ {0} /\ MaxExports \in Nat /\ MaxLoads \in Nat
    /\ None \notin Nat

Models == 0 .. MaxExports
Files == 0 .. MaxExports
Formats == {"mlp", "ed", "kytea"}
Names == {"target", "tmp"}

VARIABLES
    format,          \* the format of every model
    loadable,        \* the models that their backend's parser accepts
    names,           \* what each name leads to
    content,         \* the parts in each file
    export,          \* export_model: step, model, file it writes, outcome
    load,            \* Segmenter::load: step, backend, file, size, outcome, model
    loads,           \* loads begun
    current          \* history: the models at the target since the load began

vars == <<format, loadable, names, content, export, load, loads, current>>

Complete(m) == [k \in 1 .. Parts |-> <<m, k>>]

Init ==
    /\ format \in {[m \in Models |-> IF m = 0 THEN f ELSE "none"] : f \in Formats}
    /\ loadable \in SUBSET {0}
    /\ names \in {[target |-> t, tmp |-> None] : t \in {0, None}}
    /\ content = [f \in Files |-> IF f = 0 THEN Complete(0) ELSE <<>>]
    /\ export = [step |-> "idle", model |-> 0, file |-> None, before |-> names["target"],
                 outcome |-> "none"]
    /\ load = [step |-> "idle", backend |-> "kytea", file |-> None, size |-> 0,
               outcome |-> "none", model |-> None]
    /\ loads = 0
    /\ current = {}

-----------------------------------------------------------------------------
(* export_model *)

TmpName_InPlace == "target"
\* path + ".tmp"
TmpName == "tmp"

Truncated_Append(parts) == parts
\* std::ios::trunc
Truncated(parts) == <<>>

exportOnly == <<format, loadable, load, loads, current>>

\* Model m + 1 gets the header line of "fmt", and scales and biases that the
\* parser accepts or not.  The stream opens: an existing file is truncated, or
\* a new one created.
OpenTmp(fmt, accepted) ==
    /\ export.step = "idle" /\ export.model < MaxExports
    /\ format' = [format EXCEPT ![export.model + 1] = fmt]
    /\ loadable' = IF accepted THEN loadable \cup {export.model + 1}
                   ELSE loadable \ {export.model + 1}
    /\ LET m == export.model + 1
           f == IF names[TmpName] # None THEN names[TmpName] ELSE m
       IN  /\ names' = [names EXCEPT ![TmpName] = f]
           /\ content' = [content EXCEPT ![f] = Truncated(@)]
           /\ export' = [step |-> "write", model |-> m, file |-> f,
                         before |-> names["target"], outcome |-> "none"]
    /\ UNCHANGED <<load, loads, current>>

\* "cannot open model file for writing"
OpenTmpFails ==
    /\ export.step = "idle" /\ export.model < MaxExports
    /\ export' = [step |-> "idle", model |-> export.model + 1, file |-> None,
                  before |-> names["target"], outcome |-> "failed"]
    /\ UNCHANGED <<names, content, exportOnly>>

Written == Len(content[export.file])

\* The next part reaches the file.
WritePart ==
    /\ export.step = "write" /\ Written < Parts
    /\ content' = [content EXCEPT ![export.file] = Append(@, <<export.model, Written + 1>>)]
    /\ UNCHANGED <<names, export, exportOnly>>

AllWritten_StillBuffered == Written >= Parts - 1
\* close() has flushed everything.
AllWritten == Written = Parts

Close ==
    /\ export.step = "write" /\ AllWritten
    /\ export' = [export EXCEPT !.step = "rename"]
    /\ UNCHANGED <<names, content, exportOnly>>

\* A write or the flush in close() fails: tmp is removed, or that throws.
WriteFails ==
    /\ export.step = "write"
    /\ \/ /\ names' = [names EXCEPT ![TmpName] = None]
          /\ export' = [export EXCEPT !.step = "idle", !.outcome = "failed"]
       \/ /\ export' = [export EXCEPT !.step = "idle", !.outcome = "threw"]
          /\ UNCHANGED names
    /\ UNCHANGED <<content, exportOnly>>

\* The target is replaced: a load in progress may see the new model.
Rename ==
    /\ export.step = "rename"
    /\ names' = [names EXCEPT !["target"] = names[TmpName], ![TmpName] = None]
    /\ export' = [export EXCEPT !.step = "idle", !.outcome = "ok"]
    /\ current' = IF load.step = "idle" THEN current ELSE current \cup {export.model}
    /\ UNCHANGED <<format, loadable, content, load, loads>>

\* rename fails: tmp is removed if it can be, without throwing.
RenameFails ==
    /\ export.step = "rename"
    /\ names' \in {names, [names EXCEPT ![TmpName] = None]}
    /\ export' = [export EXCEPT !.step = "idle", !.outcome = "failed"]
    /\ UNCHANGED <<content, exportOnly>>

\* The process is killed; the next export starts from the disk it left.
Crash ==
    /\ export.step \in {"write", "rename"}
    /\ export' = [export EXCEPT !.step = "idle", !.outcome = "none"]
    /\ UNCHANGED <<names, content, exportOnly>>

-----------------------------------------------------------------------------
(* Segmenter::load *)

loadOnly == <<format, loadable, names, content, export>>

\* The load ends with an error.
Failed(reason) == [load EXCEPT !.step = "idle", !.outcome = reason]

\* "anything else is treated as a KyTea binary model"
SignatureAt(f) == IF content[f] = <<>> THEN "kytea" ELSE format[content[f][1][1]]

ModelsAt(f) == {m \in Models : f # None /\ content[f] = Complete(m)}

\* The first open fails: "cannot open model file".
SniffFails ==
    /\ load.step = "idle" /\ loads < MaxLoads /\ names["target"] = None
    /\ loads' = loads + 1
    /\ current' = {}
    /\ load' = Failed("missing")
    /\ UNCHANGED loadOnly

\* The first open: read the signature, choose the backend, close.
Sniff ==
    /\ load.step = "idle" /\ loads < MaxLoads /\ names["target"] # None
    /\ loads' = loads + 1
    /\ current' = ModelsAt(names["target"])
    /\ load' = [step |-> "open", backend |-> SignatureAt(names["target"]), file |-> None,
                size |-> 0, outcome |-> "none", model |-> None]
    /\ UNCHANGED loadOnly

\* read_model_file opens the target again, if a regular file is there, and
\* asks for its size.
OpenModel ==
    /\ load.step = "open"
    /\ load' = IF names["target"] = None THEN Failed("missing")
               ELSE [load EXCEPT !.step = "read", !.file = names["target"],
                                 !.size = Len(content[names["target"]])]
    /\ UNCHANGED <<loads, current, loadOnly>>

\* The models a backend makes of these bytes: a whole one of its own format,
\* unless its parser refuses what that holds.
Parsed(backend, parts) ==
    {m \in Models : parts = Complete(m) /\ format[m] = backend /\ m \in loadable}

\* It reads that many bytes of the open file and parses them.
ReadModel ==
    /\ load.step = "read"
    /\ LET parsed == Parsed(load.backend, SubSeq(content[load.file], 1, load.size))
       IN  load' \in IF parsed = {} THEN {Failed("error")}
                     ELSE {[load EXCEPT !.step = "idle", !.outcome = "ok", !.model = m] : m \in parsed}
    /\ UNCHANGED <<loads, current, loadOnly>>

\* tellg or read fails, "cannot read model file", or the parser's memory runs
\* out, "model too large to load".
ReadFails ==
    /\ load.step = "read"
    /\ \E reason \in {"unreadable", "too large"} : load' = Failed(reason)
    /\ UNCHANGED <<loads, current, loadOnly>>

\* What kMlpFormat and kEdFormat name.
TrainedFormats == {"mlp", "ed"}

Next ==
    \/ \E fmt \in TrainedFormats, accepted \in BOOLEAN : OpenTmp(fmt, accepted)
    \/ OpenTmpFails \/ WritePart \/ Close \/ WriteFails
    \/ Rename \/ RenameFails \/ Crash
    \/ SniffFails \/ Sniff \/ OpenModel \/ ReadModel \/ ReadFails

Spec == Init /\ [][Next]_vars

-----------------------------------------------------------------------------
FilesOrNone == Files \cup {None}

TypeOK ==
    /\ format \in [Models -> Formats \cup {"none"}]
    /\ loadable \subseteq Models
    /\ names \in [Names -> FilesOrNone]
    /\ content \in [Files -> Seq(Models \X (1 .. Parts))]
    /\ export \in [step : {"idle", "write", "rename"}, model : Models, file : FilesOrNone,
                   before : FilesOrNone, outcome : {"none", "ok", "failed", "threw"}]
    /\ load \in [step : {"idle", "open", "read"}, backend : Formats \cup {"none"},
                 file : FilesOrNone, size : 0 .. Parts,
                 outcome : {"none", "missing", "unreadable", "too large", "error", "ok"},
                 model : Models \cup {None}]
    /\ loads \in 0 .. MaxLoads
    /\ current \subseteq Models

(***************************************************************************)
(* What the target names is a whole model at every moment: a failed write, *)
(* a failed rename or a crash never leaves a truncated one, nor does an    *)
(* export that finds the tmp file of one that was killed.                  *)
(***************************************************************************)
TargetIsWhole == names["target"] # None => ModelsAt(names["target"]) # {}

(***************************************************************************)
(* An export that did not report success has left the target as it was,    *)
(* whether it returned an error, threw, was killed or still runs.          *)
(***************************************************************************)
FailureLeavesTarget == export.outcome # "ok" => names["target"] = export.before

(***************************************************************************)
(* A load that ends returns a model that was the target while it ran; a    *)
(* backend refuses a file it has read only when the target was replaced    *)
(* between the two opens, by a model of another format, or for what a      *)
(* model that was the target holds: never for being half written.          *)
(***************************************************************************)
LoadIsConsistent ==
    load.step = "idle" =>
        /\ load.outcome = "ok" => load.model \in current
        /\ load.outcome = "error" =>
              \/ \E m, n \in current : format[m] # format[n]
              \/ \E m \in current : m \notin loadable

(***************************************************************************)
(* An existing model never disappears: once there is one, every later load *)
(* finds a file to open.                                                   *)
(***************************************************************************)
TargetStays == [][names["target"] # None => names'["target"] # None]_vars
=============================================================================
