----------------------------- MODULE MCTraining -----------------------------
(***************************************************************************)
(* Training with a step that can carry a weight of either polarity across  *)
(* zero at once (-2) or bring it back (1).                                 *)
(***************************************************************************)
EXTENDS Training

StepDeltas == {-2, 1}
=============================================================================
