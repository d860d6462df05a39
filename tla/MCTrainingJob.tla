--------------------------- MODULE MCTrainingJob ---------------------------
(***************************************************************************)
(* What a behaviour is about: the control document and the workers that    *)
(* read it, or a rollout, of a new image and then of fewer workers.        *)
(***************************************************************************)
EXTENDS TrainingJob

VARIABLE subject

Of(image, world) == [image |-> image, world |-> world]
NewImageThenFewer == << Of("old", 3), Of("new", 3), Of("new", 2) >>

rolloutVars == <<template, pod, terminating, proc, ready, member, crashes>>

MCInit == Init /\ Update!Init /\ subject \in {"control", "rollout"}

MCNext ==
  /\ UNCHANGED subject
  /\ \/ subject = "control" /\ Next /\ UNCHANGED rolloutVars
     \/ subject = "rollout" /\ Update!Next /\ UNCHANGED vars

MCSpec ==
  /\ MCInit /\ [][MCNext]_<<vars, rolloutVars, subject>>
  /\ Fairness /\ Update!Fairness
=============================================================================
