---------------------------- MODULE TrainingJob ----------------------------
(***************************************************************************)
(* The training job as gpu commands change it: its control document        *)
(* (TrainingControl) and the template of its StatefulSet (Rollout).  The   *)
(* two share no state: a rollout keeps the document, and a change of the   *)
(* document no Pod.                                                        *)
(***************************************************************************)
EXTENDS TrainingControl, Sequences

CONSTANTS Templates, MaxCrashes
VARIABLES template, pod, terminating, proc, ready, member, crashes

Update == INSTANCE Rollout WITH applied <- template

ASSUME TemplatesAssumption == Update!RolloutAssumption

---------------------------------------------------------------------------
(* A worker trains in a session only when every rank of its coordinator's  *)
(* world, and no rank of the world before or after it, has joined, in      *)
(* whichever order the Pods were replaced.                                 *)
SessionIsWhole == Update!SessionIsWhole

(* The rolling update of gpu training run does not stop before rank 0: in  *)
(* the end every Pod, and no other, has the last template and is Ready.    *)
RolloutCompletes == Update!RolloutCompletes

(* After it all ranks train in one session, although Ready does not wait   *)
(* for that.                                                               *)
TrainingResumes == Update!TrainingResumes
=============================================================================
