-------------------------- MODULE MCTrainingControl --------------------------
(* Instance for TLC: the commands are model values. *)
EXTENDS TrainingControl
=============================================================================
