------------------------------ MODULE Verdicts ------------------------------
(***************************************************************************)
(* What gpu verify reports, of three kinds: a recovery (RecoveryVerifier), *)
(* a timeline (Verifier) and an event of a Pod that waits (PodEvents).  A  *)
(* behaviour has one subject.                                              *)
(***************************************************************************)
EXTENDS Integers

CONSTANTS                                                \* of RecoveryVerifier
  Exporters, Ranks, Documents, NormalDocuments, Lookback, Lag, Old, Settled,
  MaxChanges, MaxFaults, Struck, Budget, Window, Outer, MaxAge, MaxTrouble
CONSTANTS             \* of RecoveryVerifier, in a lab that has time enough to be reported
  LongBudget, LongWindow, LongOuter, LongOld, HealthyChanges, HealthyFaults, HealthyTrouble
CONSTANTS                             \* of Verifier, what it shares with the above aside
  Fleet, Applications, NormalApplications, OldSample, LongApplied, Deadline, MaxApplications,
  Timeline, PhaseLength, LastPhase, Duration, Timeout, FreshAge
CONSTANTS MaxPods, MaxEvents, MaxErrors                  \* of PodEvents

VARIABLES
  subject,
  document, applied, control, written, live, shown, mode, step, stalled,
  sample, left, changes, faults,                         \* Monitoring
  pc, failed, elapsed, deadline, trouble, calm,          \* a verifier
  gate, first, prompt,                                   \* RecoveryVerifier
  since, check, generation, seen,                        \* Verifier
  current, made, pending, events, place, identity, found, errors

Recovery == INSTANCE RecoveryVerifier
Healthy  ==
  INSTANCE RecoveryVerifier WITH
    Budget <- LongBudget, Window <- LongWindow, Outer <- LongOuter, Old <- LongOld,
    MaxChanges <- HealthyChanges, MaxFaults <- HealthyFaults, MaxTrouble <- HealthyTrouble
Event    == INSTANCE PodEvents WITH pc <- place

\* Its lab has its own exporters and documents, and no training.
Scenario ==
  INSTANCE Verifier WITH
    Exporters <- Fleet, Ranks <- {}, Documents <- Applications,
    NormalDocuments <- NormalApplications, Old <- OldSample, Settled <- LongApplied,
    MaxChanges <- MaxApplications, Outer <- Deadline

(* A recovery is not reported on old samples, although Prometheus serves    *)
(* them for longer: an exporter that died or took up a fault published      *)
(* "normal" within the greatest age of a sample before the command started, *)
(* and training that has long been stuck does not pass for its workers that *)
(* answer with the last step (internal/verification/recovery.go).           *)
NoOldRecovery == subject = "recovery" => Recovery!RecoveryIsRecent

(* A lab that never recovers costs one budget and one window, not a budget  *)
(* for every gate, unless a call outside the budget hangs, and never more   *)
(* than the time of the command.                                            *)
NoLateReport == subject = "recovery" => Recovery!RecoveryInTime

(* A timeline is reported only in one phase, only on samples of before it   *)
(* expired, and within the time of the command; when nothing disturbs the   *)
(* command also only for the application that is in the ConfigMap, not for  *)
(* samples of an earlier one (internal/verification/verification.go).       *)
TimelineIsOne == subject = "timeline" => Scenario!TimelineIsOne

(* A lab that was normal before the command started, or that runs the       *)
(* scenario and goes on to run it until the report, and that nothing        *)
(* disturbs is reported so, whatever its parts had still to take up: the    *)
(* verifiers refuse no good lab                                             *)
(* (internal/verification/{recovery,verification}.go).                      *)
GoodLabsPass ==
  /\ subject = "healthy" => Healthy!HealthyPasses
  /\ subject = "timeline" => Scenario!AppliedPasses

(* The event that gpu verify accepts is one of the Pod that has the name,   *)
(* not of an earlier one (internal/verification/verification.go).           *)
EventOfCurrentPod == Event!EventOfCurrentPod
=============================================================================
