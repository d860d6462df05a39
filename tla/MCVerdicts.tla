------------------------------ MODULE MCVerdicts ------------------------------
(***************************************************************************)
(* What a behaviour is about: an event of a Pod that is being replaced,    *)
(* gpu verify --recovery in a lab that is disturbed or left alone, or gpu  *)
(* verify of a timeline, disturbed or left alone.                          *)
(***************************************************************************)
EXTENDS Verdicts

lab == <<document, applied, control, written, live, shown, mode, step, stalled,
            sample, left, changes, faults>>
verifier  == <<lab, pc, failed, elapsed, deadline, trouble, calm>>
recovery  == <<gate, first, prompt>>
selection == <<since, check, generation, seen>>
eventVars == <<current, made, pending, events, place, identity, found, errors>>

(* The configuration has a lab that is disturbed: one exporter, which the  *)
(* fault strikes, and one rank; Prometheus serves a sample for twice as    *)
(* long as the gates take it for fresh.  The lab that is left alone has    *)
(* time to adopt and scrape what was written before the command.  The      *)
(* timeline is applied to two exporters, twice, and has two phases; it     *)
(* has the time for it too, and its duration ends before, during or after  *)
(* the command.                                                            *)

(* The assumptions of the Pod and of the three labs.                       *)
ASSUME VerdictsAssumption ==
  /\ Event!BoundsAssumption
  /\ Recovery!MonitoringAssumption /\ Recovery!TimesAssumption
  /\ Healthy!MonitoringAssumption /\ Healthy!TimesAssumption /\ Healthy!EnoughTime
  /\ Scenario!MonitoringAssumption /\ Scenario!VerifierAssumption /\ Scenario!EnoughTime

NoRecovery  == gate = 1 /\ first = 0 /\ prompt = TRUE
NoSelection == check = 1 /\ generation = "none" /\ seen = {} /\ since = <<>>

MCInit ==
  /\ Event!Init
  /\ \/ subject \in {"pod", "recovery"} /\ Recovery!Init /\ NoSelection
     \/ subject = "healthy" /\ Healthy!Init /\ NoSelection
     \/ subject = "timeline" /\ Scenario!Init /\ NoRecovery

MCNext ==
  /\ UNCHANGED subject
  /\ \/ subject = "pod" /\ Event!Next /\ UNCHANGED <<verifier, recovery, selection>>
     \/ subject = "recovery" /\ Recovery!Next /\ UNCHANGED <<eventVars, selection>>
     \/ subject = "healthy" /\ Healthy!Next /\ UNCHANGED <<eventVars, selection>>
     \/ subject = "timeline" /\ Scenario!Next /\ UNCHANGED <<eventVars, recovery>>

MCSpec == MCInit /\ [][MCNext]_<<eventVars, subject, verifier, recovery, selection>>
=============================================================================
