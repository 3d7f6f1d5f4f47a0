------------------------------- MODULE Training -------------------------------
(***************************************************************************)
(* mlp::train::train and ed::train::train: epochs of minibatches, dev      *)
(* evaluation on boundary F1, best-model capture and early stopping on a   *)
(* patience counter.  The two loops have one shape; under the EDLA rule a  *)
(* batch also reimposes Dale's law on the output weights w2 and, with      *)
(* learn_feedback, moves the feedback weights (src/ed/train/edla.cpp).     *)
(*                                                                         *)
(* What an optimizer step adds to a weight is any value of Deltas: the     *)
(* gradient of w2[j] is activity times error, whatever w2[j] is.  Weights  *)
(* are integers over the common denominator scale, so that the decay       *)
(* KeepNum / KeepDen is exact.  Of the other parameters only the number    *)
(* of steps they have taken is kept: params.steps tells two parameter      *)
(* sets of one run apart.  Polarity(j) is the unit's fixed sign.           *)
(***************************************************************************)
EXTENDS Integers, Sequences, FiniteSets

CONSTANTS
    Hidden,              \* NetConfig::hidden
    Deltas,              \* what a step may add to a weight
    Draws,               \* |w2[j]| as drawn by Parameters::init
    Scores,              \* dev F1 values
    MaxEpochs,           \* bound of the model: options.epochs
    MaxPatience,         \* bound of the model: options.patience
    BatchCounts,         \* numbers of batches in an epoch
    KeepNum, KeepDen     \* 1 - feedback_decay

ASSUME TrainingAssumption ==
    /\ Hidden \in Nat
    /\ Deltas \subseteq Int /\ Draws \subseteq Nat /\ Scores \subseteq Nat
    /\ MaxEpochs \in Nat /\ MaxPatience \in Nat /\ BatchCounts \subseteq Nat
    /\ KeepDen \in Nat \ {0} /\ KeepNum \in 1 .. KeepDen

Units == 0 .. Hidden - 1
Polarity(j) == IF j < Hidden \div 2 THEN 1 ELSE -1

Options == [rule : {"backprop", "edla"}, learn : BOOLEAN, dev : BOOLEAN,
            epochs : 0 .. MaxEpochs, patience : 0 .. MaxPatience, batches : BatchCounts]

VARIABLES
    options,             \* TrainOptions, and whether a dev set is given
    params,              \* steps taken and w2
    feedback, scale,     \* Edla::feedback_, and the common denominator
    epoch, batch,        \* the loop counters: epochs done, batches done in this one
    best_f1, since_best,
    result,              \* TrainResult
    returned,
    ends, scores         \* history: the parameters and the F1 at each epoch's end

loopVars == <<epoch, best_f1, since_best, result, returned, ends, scores>>
vars == <<options, params, feedback, scale, batch, loopVars>>

\* count_pinned: the units whose w2 is exactly zero.
Pinned(p) == Cardinality({j \in Units : p.w2[j] = 0})

\* result.params, dev_metrics and pinned_units, taken together.
Captured(p, f1) == [result EXCEPT !.params = p, !.f1 = f1, !.pinned = Pinned(p)]

\* init_parameters folds the draw onto the polarity's side; backprop's has any sign.
InitialWeights(rule) ==
    IF rule = "edla"
    THEN {[j \in Units |-> draw[j] * Polarity(j)] : draw \in [Units -> Draws]}
    ELSE {[j \in Units |-> draw[j]] : draw \in [Units -> Draws]}

Init ==
    /\ options \in {o \in Options : o.learn => o.rule = "edla"}
    /\ \E w2 \in InitialWeights(options.rule) : params = [steps |-> 0, w2 |-> w2]
    /\ feedback = [j \in Units |-> Polarity(j)]
    /\ scale = 1
    /\ epoch = 0 /\ batch = 0
    /\ best_f1 = -1 /\ since_best = 0
    /\ result = [params |-> [steps |-> 0, w2 |-> [j \in {} |-> 0]], f1 |-> 0, pinned |-> 0, epochs_run |-> 0]
    /\ returned = FALSE
    /\ ends = <<>> /\ scores = <<>>

-----------------------------------------------------------------------------
(* One minibatch. *)

\* The optimizer's step on the output weights.
Stepped(w2, delta) == [j \in Units |-> w2[j] + delta[j] * scale]

ProjectDale_Reversed(w2) == [j \in Units |-> IF w2[j] * Polarity(j) > 0 THEN 0 ELSE w2[j]]
\* project_dale: a weight on the wrong side of zero becomes zero.
ProjectDale(w2) == [j \in Units |-> IF w2[j] * Polarity(j) < 0 THEN 0 ELSE w2[j]]

\* The feedback follows the unprojected step.
TrainBatch_TracksBeforeProjection ==
    /\ ~returned /\ epoch < options.epochs /\ batch < options.batches
    /\ batch' = batch + 1
    /\ \E delta \in [Units -> Deltas] :
          LET moved == Stepped(params.w2, delta)
              keep  == IF options.learn THEN KeepNum ELSE 1
          IN  /\ params' = [steps |-> params.steps + 1,
                            w2    |-> [j \in Units |-> ProjectDale(moved)[j] * keep]]
              /\ feedback' = [j \in Units |-> (feedback[j] + (moved[j] - params.w2[j])) * keep]
    /\ scale' = IF options.learn THEN scale * KeepDen ELSE scale
    /\ UNCHANGED <<options, loopVars>>

\* forward, local_update or backward, the optimizer's step; under EDLA then
\* project_dale and track_feedback, which decays feedback and w2 alike.
TrainBatch ==
    /\ ~returned /\ epoch < options.epochs /\ batch < options.batches
    /\ batch' = batch + 1
    /\ \E delta \in [Units -> Deltas] :
          LET stepped == Stepped(params.w2, delta)
              moved   == IF options.rule = "edla" THEN ProjectDale(stepped) ELSE stepped
              keep    == IF options.learn THEN KeepNum ELSE 1
          IN  /\ params' = [steps |-> params.steps + 1,
                            w2    |-> [j \in Units |-> moved[j] * keep]]
              /\ feedback' = IF options.learn
                             THEN [j \in Units |-> (feedback[j] + (moved[j] - params.w2[j])) * keep]
                             ELSE feedback
    /\ scale' = IF options.learn THEN scale * KeepDen ELSE scale
    /\ UNCHANGED <<options, loopVars>>

-----------------------------------------------------------------------------
(* The end of an epoch. *)

OutOfPatience_OneLate(since) == options.patience > 0 /\ since > options.patience
OutOfPatience(since) == options.patience > 0 /\ since >= options.patience

EndEpoch(f1) ==
    /\ ~returned /\ epoch < options.epochs /\ batch = options.batches
    /\ epoch' = epoch + 1
    /\ batch' = 0
    /\ ends' = Append(ends, params)
    /\ UNCHANGED <<options, params, feedback, scale>>
    /\ \/ /\ ~options.dev
          /\ result' = [result EXCEPT !.epochs_run = epoch + 1]
          /\ UNCHANGED <<best_f1, since_best, returned, scores>>
       \/ /\ options.dev
          /\ scores' = Append(scores, f1)
          /\ IF f1 > best_f1
             THEN /\ best_f1' = f1
                  /\ since_best' = 0
                  /\ result' = [Captured(params, f1) EXCEPT !.epochs_run = epoch + 1]
                  /\ UNCHANGED returned
             ELSE /\ best_f1' = best_f1
                  /\ since_best' = IF options.patience > 0 THEN since_best + 1 ELSE since_best
                  /\ result' = [result EXCEPT !.epochs_run = epoch + 1]
                  /\ returned' = OutOfPatience(since_best')

Finish_LastWins ==
    /\ ~returned /\ epoch = options.epochs
    /\ returned' = TRUE
    /\ result' = [result EXCEPT !.params = params, !.pinned = Pinned(params)]
    /\ UNCHANGED <<options, params, feedback, scale, epoch, batch, best_f1, since_best, ends, scores>>

\* The loop is done: "nothing captured: no dev set, or zero epochs".
Finish ==
    /\ ~returned /\ epoch = options.epochs
    /\ returned' = TRUE
    /\ result' = IF ~options.dev \/ best_f1 < 0
                 THEN [result EXCEPT !.params = params, !.pinned = Pinned(params)]
                 ELSE result
    /\ UNCHANGED <<options, params, feedback, scale, epoch, batch, best_f1, since_best, ends, scores>>

Next == TrainBatch \/ (\E f1 \in Scores : EndEpoch(f1)) \/ Finish

Spec == Init /\ [][Next]_vars

-----------------------------------------------------------------------------
TypeOK ==
    /\ options \in Options
    /\ params.steps \in Nat /\ params.w2 \in [Units -> Int]
    /\ feedback \in [Units -> Int] /\ scale \in Nat \ {0}
    /\ epoch \in 0 .. options.epochs /\ batch \in 0 .. options.batches
    /\ best_f1 \in Scores \cup {-1} /\ since_best \in 0 .. options.patience
    /\ result.epochs_run = epoch
    /\ returned \in BOOLEAN
    /\ Len(ends) = epoch /\ scores \in Seq(Scores)

\* Epoch e scored higher than all before it and no lower than all after.
IsBest(e) ==
    /\ \A k \in 1 .. e - 1 : scores[k] < scores[e]
    /\ \A k \in e + 1 .. Len(scores) : scores[k] <= scores[e]

(***************************************************************************)
(* "best by dev F1 when a dev set was given": the parameters, the metrics  *)
(* and the pinned count returned all belong to one epoch, the first of the *)
(* best, however many worse epochs followed; without a dev set or an epoch *)
(* they are the parameters the loop ended with.                            *)
(***************************************************************************)
ReturnsTheBest ==
    returned =>
        IF options.dev /\ epoch > 0
        THEN \E e \in 1 .. epoch : IsBest(e) /\ /\ result.params = ends[e]
                                                /\ result.f1 = scores[e]
                                                /\ result.pinned = Pinned(ends[e])
        ELSE result.params = params /\ result.pinned = Pinned(params)

(***************************************************************************)
(* Early stopping is exact: with a dev set and a patience, training ends   *)
(* patience epochs after the best one and not before; otherwise all the    *)
(* epochs run.                                                             *)
(***************************************************************************)
StopsOnPatience ==
    returned =>
        IF options.dev /\ options.patience > 0
        THEN epoch > 0 => \E e \in 1 .. epoch :
                /\ IsBest(e)
                /\ epoch - e <= options.patience
                /\ epoch < options.epochs => epoch - e = options.patience
        ELSE epoch = options.epochs

(***************************************************************************)
(* Dale's law: at every forward pass the sign of w2[j] is the polarity the *)
(* hidden-layer rule substitutes for it, through steps and decay.          *)
(***************************************************************************)
DalesLaw == options.rule = "edla" => \A j \in Units : params.w2[j] * Polarity(j) >= 0

(***************************************************************************)
(* Kolen-Pollack: each step multiplies the difference of feedback and      *)
(* forward weight by (1 - decay), also when the projection cut the step    *)
(* short - so the feedback converges on w2 without reading it.             *)
(***************************************************************************)
FeedbackConverges ==
    [][options.learn /\ params' # params =>
         \A j \in Units : feedback'[j] - params'.w2[j] = KeepNum * (feedback[j] - params.w2[j])]_vars

(***************************************************************************)
(* edla.cpp says that "a unit pinned at zero never leaves", edla.h that    *)
(* pinned units "receive no output-layer gradient".                        *)
(***************************************************************************)
PinnedForever ==
    [][options.rule = "edla" => \A j \in Units : params.w2[j] = 0 => params'.w2[j] = 0]_vars
=============================================================================
