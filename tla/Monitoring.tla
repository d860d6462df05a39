----------------------------- MODULE Monitoring -----------------------------
(***************************************************************************)
(* What the verifiers look at: the ConfigMaps, the exporters and the ranks *)
(* that follow them, and what Prometheus has of them.  An instant query    *)
(* answers with the last sample of a series for as long as Lookback, so it *)
(* shows the lab as it was at the last scrape.                             *)
(*                                                                         *)
(* Times are kept as ages, which grow at every tick of the clock up to     *)
(* Old (that of a document to Settled, of the control document to Lag), an *)
(* age that no comparison tells from a greater one.  A training step is    *)
(* known by the time since it was taken.                                   *)
(***************************************************************************)
EXTENDS Integers, FiniteSets

CONSTANTS
  Exporters, Ranks,  \* scrape targets
  Documents,         \* what is applied to the ConfigMap
  NormalDocuments,   \* those of the scenario "normal"
  Lookback,          \* how long Prometheus serves an old sample
  Lag,               \* a live part scrapes, adopts or steps within Lag
  Old, Settled,
  MaxChanges, MaxFaults   \* BOUNDS on writes and on failures

MonitoringAssumption ==
  /\ IsFiniteSet(Exporters) /\ IsFiniteSet(Ranks) /\ Exporters \cap Ranks = {}
  /\ NormalDocuments # {} /\ NormalDocuments \subseteq Documents
  /\ {Lookback, Lag, Old, Settled, MaxChanges, MaxFaults} \subseteq Nat
  /\ Lag <= Lookback /\ Lookback < Old /\ Lag <= Settled

Targets == Exporters \cup Ranks
Ages  == 0 .. Old
Modes == {"normal", "fault"}

VARIABLES
  document, applied,   \* the scenario's ConfigMap and the age of its last write
  control, written,    \* the mode in the training control document, its age
  live,                \* targets that answer
  shown,               \* the document each exporter publishes
  mode,                \* the fabric mode each rank observes
  step, stalled,       \* the age of the last training step; the loop hangs
  sample,              \* the last sample of each target
  left,                \* since when an exporter does not publish "normal"
  changes, faults

world == <<document, applied, control, written, live, shown, mode, step, stalled,
           sample, left, changes, faults>>

Never == -1
Normal(d) == d \in NormalDocuments

Publishes(t) == IF t \in Exporters THEN [document |-> shown[t]]
                                   ELSE [mode |-> mode[t], step |-> step]
Gone == [gone |-> TRUE]        \* the scrape failed: the series ended, up is 0

MonitoringInit ==
  /\ document \in NormalDocuments /\ applied = 0
  /\ control = "normal" /\ written = 0
  /\ live = Targets /\ step = 0 /\ stalled = FALSE
  /\ shown = [e \in Exporters |-> document] /\ mode = [r \in Ranks |-> "normal"]
  /\ sample = [t \in Targets |-> [age |-> 0, up |-> TRUE, shows |-> Publishes(t)]]
  /\ left = [e \in Exporters |-> Never]
  /\ changes = 0 /\ faults = 0

---------------------------------------------------------------------------
(* Disturbances *)

\* gpu scenario run or reset.
Apply ==
  /\ changes < MaxChanges /\ changes' = changes + 1
  /\ document' \in Documents \ {document} /\ applied' = 0
  /\ UNCHANGED <<control, written, live, shown, mode, step, stalled, sample, left,
                 faults>>

\* gpu training inject-fabric or recover.
SetControl ==
  /\ changes < MaxChanges /\ changes' = changes + 1
  /\ control' \in Modes \ {control} /\ written' = 0
  /\ UNCHANGED <<document, applied, live, shown, mode, step, stalled, sample, left,
                 faults>>

Die(t) ==
  /\ t \in live /\ faults < MaxFaults /\ faults' = faults + 1
  /\ live' = live \ {t}
  /\ left' = IF t \in Exporters /\ left[t] = Never THEN [left EXCEPT ![t] = 0]
                                                   ELSE left
  /\ UNCHANGED <<document, applied, control, written, shown, mode, step, stalled,
                 sample, changes>>

\* The collective hangs while its workers still answer.
Stall ==
  /\ ~stalled /\ faults < MaxFaults /\ faults' = faults + 1
  /\ stalled' = TRUE
  /\ UNCHANGED <<document, applied, control, written, live, shown, mode, step,
                 sample, left, changes>>

Disturb == Apply \/ SetControl \/ Stall \/ \E t \in Targets : Die(t)

---------------------------------------------------------------------------
(* The lab at work *)

\* The poller of an exporter finds a new document.
Adopt(e) ==
  /\ e \in live /\ shown[e] # document
  /\ shown' = [shown EXCEPT ![e] = document]
  /\ left' = [left EXCEPT ![e] = IF Normal(document) THEN Never
                                 ELSE IF @ = Never THEN 0 ELSE @]
  /\ UNCHANGED <<document, applied, control, written, live, mode, step, stalled,
                 sample, changes, faults>>

ObserveControl(r) ==
  /\ r \in live /\ mode[r] # control
  /\ mode' = [mode EXCEPT ![r] = control]
  /\ UNCHANGED <<document, applied, control, written, live, shown, step, stalled,
                 sample, left, changes, faults>>

Step ==
  /\ Ranks # {} /\ Ranks \subseteq live /\ ~stalled /\ step # 0
  /\ step' = 0
  /\ UNCHANGED <<document, applied, control, written, live, shown, mode, stalled,
                 sample, left, changes, faults>>

\* Prometheus scrapes; of a dead target it may as well write nothing.
Scrape(t) ==
  /\ sample' = [sample EXCEPT ![t] =
       IF t \in live THEN [age |-> 0, up |-> TRUE, shows |-> Publishes(t)]
                     ELSE [age |-> 0, up |-> FALSE, shows |-> Gone]]
  /\ sample' # sample
  /\ UNCHANGED <<document, applied, control, written, live, shown, mode, step,
                 stalled, left, changes, faults>>

Work == \/ \E e \in Exporters : Adopt(e)
        \/ \E r \in Ranks : ObserveControl(r)
        \/ Step
        \/ \E t \in Targets : Scrape(t)

UpTo(age, cap) == IF age < cap THEN age + 1 ELSE age
Older(age) == UpTo(age, Old)
OlderShows(shows) ==
  IF "step" \in DOMAIN shows THEN [shows EXCEPT !.step = Older(@)] ELSE shows
OlderSample(s) == [s EXCEPT !.age = Older(@), !.shows = OlderShows(@)]

\* The clock waits for what is due.
Tick ==
  /\ \A t \in live : sample[t].age < Lag
  /\ applied < Lag \/ \A e \in live \cap Exporters : shown[e] = document
  /\ written < Lag \/ \A r \in live \cap Ranks : mode[r] = control
  /\ stalled \/ ~(Ranks \subseteq live) \/ step < Lag
  /\ applied' = UpTo(applied, Settled) /\ written' = UpTo(written, Lag)
  /\ step' = IF Ranks = {} THEN step ELSE Older(step)
  /\ sample' = [t \in Targets |-> OlderSample(sample[t])]
  /\ left' = [e \in Exporters |-> IF left[e] = Never THEN Never ELSE Older(left[e])]
  /\ UNCHANGED <<document, control, live, shown, mode, stalled, changes, faults>>

---------------------------------------------------------------------------
(* Instant queries *)

Served(t)  == sample[t].age <= Lookback
Present(t) == Served(t) /\ sample[t].up        \* series other than up

PublishesNormal(e) == Present(e) /\ Normal(sample[e].shows.document)
ObservedSteps == {sample[r].shows.step : r \in {s \in Ranks : Present(s)}}

WorldOK ==
  /\ document \in Documents /\ control \in Modes
  /\ {applied, written, step} \subseteq Nat /\ stalled \in BOOLEAN
  /\ live \subseteq Targets
  /\ shown \in [Exporters -> Documents] /\ mode \in [Ranks -> Modes]
  /\ \A t \in Targets : sample[t].age \in Ages /\ sample[t].up \in BOOLEAN
  /\ left \in [Exporters -> Ages \cup {Never}]
=============================================================================
