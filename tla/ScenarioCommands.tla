--------------------------- MODULE ScenarioCommands ---------------------------
(***************************************************************************)
(* The commands that gpu scenario is among: those that change the cluster  *)
(* (ScenarioRun), and all that rewrite the control document of the         *)
(* training, which other hands and other readers share.                    *)
(***************************************************************************)
EXTENDS ScenarioRun

CONSTANTS MaxEdits, MaxWritten     \* BOUNDS on changes by hand and by command
VARIABLES doc, last, edits, written

Documents == INSTANCE ControlDocument
               WITH MaxCommands <- MaxWritten, commands <- written

(* No control document that the recovery gate lets pass makes a worker act *)
(* on a fault, gpu training recover repairs every document that it can     *)
(* decode, and synchronizing a scenario leaves the straggler and the crash *)
(* of a flat document to the workers (internal/training/control.go,        *)
(* internal/trainingjob, internal/verification/recovery.go).               *)
ControlDocumentHolds ==
  /\ [](Documents!GateSound /\ Documents!RecoverRepairs)
  /\ Documents!SyncKeepsFlatFaults
=============================================================================
