---------------------------- MODULE MCScenarioRun ----------------------------
(***************************************************************************)
(* What a behaviour is about: gpu scenario run and reset on a cluster, or  *)
(* the control document, which gpu scenario also writes and other hands    *)
(* and other readers share.                                                *)
(***************************************************************************)
EXTENDS ScenarioCommands

VARIABLE subject

documentVars == <<doc, last, edits, written>>

(* The bounds, and that the Pods of these scenarios find room on their     *)
(* nodes, or none where they are to find none.                             *)
ASSUME MCAssumption == Documents!BoundsAssumption /\ Crowded /\ Roomy

(* Scenarios after the files in scenarios/: one awaited Pod                *)
(* (gpu-capacity-mismatch), Pods that fill every node and one that fits    *)
(* nowhere behind them (gpu-fragmentation), a Pod that asks for more than  *)
(* a node has (scheduling-failure), a fault of the fabric, and normal.     *)

Pod(name, gpus, node, wait) ==
  [name |-> name, gpus |-> gpus, node |-> node, wait |-> wait]

AllActions ==
  [s \in Scenarios |->
     CASE s = "mismatch"      -> << Pod("m", 4, "node1", TRUE) >>
       [] s = "fragmentation" -> << Pod("f1", 7, "node1", TRUE), Pod("f2", 7, "node2", TRUE),
                                    Pod("target", 2, Anywhere, FALSE) >>
       [] s = "failure"       -> << Pod("p", 9, Anywhere, FALSE) >>
       [] OTHER               -> <<>>]

MCInit == Init /\ Documents!Init /\ subject \in {"commands", "documents"}
MCNext ==
  /\ UNCHANGED subject
  /\ \/ subject = "commands" /\ Next /\ UNCHANGED documentVars
     \/ subject = "documents" /\ Documents!Next /\ UNCHANGED vars
MCSpec == MCInit /\ [][MCNext]_<<vars, subject, documentVars>> /\ Fairness
=============================================================================
