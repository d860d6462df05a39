--------------------------- MODULE ExporterProofs ----------------------------
(***************************************************************************)
(* Proofs about Exporter, for any number of nodes and requests, and any    *)
(* documents, writes and restarts: the types, that a model is one view,    *)
(* that it shows what the clock of the ConfigMap says, and that a refused  *)
(* document leaves it alone.  And about ScenarioRules, for any document:   *)
(* what Validate accepts can be played.                                    *)
(***************************************************************************)
EXTENDS Exporter, ScenarioInputs, TLAPS

-----------------------------------------------------------------------------
(* The phase of a valid timeline *)

Increasing(tl) ==
  /\ Len(tl) = 4 /\ DOMAIN tl = 1..4 /\ \A i \in 1..4 : tl[i].at \in Int
  /\ tl[1].at = 0 /\ \A i \in 2..4 : tl[i].at > tl[i - 1].at

Reached(tl, age, i) ==
  /\ \A j \in 1..i : tl[j].at <= age
  /\ i = Len(tl) \/ tl[i + 1].at > age

\* One step is the last one reached.
LEMMA LastReachedIs ==
  ASSUME NEW tl, Increasing(tl), NEW age \in Int
  PROVE  LastReached(tl, age) \in 0..4 /\ Reached(tl, age, LastReached(tl, age))
<1>1. tl[1].at \in Int /\ tl[2].at \in Int /\ tl[3].at \in Int /\ tl[4].at \in Int
  BY DEF Increasing
<1>2. tl[1].at < tl[2].at /\ tl[2].at < tl[3].at /\ tl[3].at < tl[4].at
  <2>1. tl[2].at > tl[2 - 1].at /\ tl[3].at > tl[3 - 1].at /\ tl[4].at > tl[4 - 1].at
    BY DEF Increasing
  <2>2. QED
    BY <2>1, <1>1
<1>3. \E i \in 0..4 : Reached(tl, age, i)
  <2>1. CASE age < tl[1].at
    BY <2>1, <1>1 DEF Reached
  <2>2. CASE tl[1].at <= age /\ age < tl[2].at
    <3>1. Reached(tl, age, 1)
      BY <2>2, <1>1 DEF Reached
    <3>2. QED
      BY <3>1
  <2>3. CASE tl[2].at <= age /\ age < tl[3].at
    <3>1. \A j \in 1..2 : tl[j].at <= age
      BY <2>3, <1>1, <1>2
    <3>2. Reached(tl, age, 2)
      BY <2>3, <1>1, <3>1 DEF Reached
    <3>3. QED
      BY <3>2
  <2>4. CASE tl[3].at <= age /\ age < tl[4].at
    <3>1. \A j \in 1..3 : tl[j].at <= age
      BY <2>4, <1>1, <1>2
    <3>2. Reached(tl, age, 3)
      BY <2>4, <1>1, <3>1 DEF Reached
    <3>3. QED
      BY <3>2
  <2>5. CASE tl[4].at <= age
    <3>1. \A j \in 1..4 : tl[j].at <= age
      BY <2>5, <1>1, <1>2
    <3>2. Reached(tl, age, 4)
      BY <3>1 DEF Reached, Increasing
    <3>3. QED
      BY <3>2
  <2>6. QED
    BY <1>1, <2>1, <2>2, <2>3, <2>4, <2>5
<1>4. LastReached(tl, age) = CHOOSE i \in 0..4 : Reached(tl, age, i)
  BY DEF LastReached, Reached, Increasing
<1>5. QED
  BY <1>3, <1>4

\* It is the last of the steps that are due.
LEMMA PhaseIsLastDue ==
  ASSUME NEW tl, Increasing(tl), NEW age \in Nat
  PROVE  /\ PhaseAt(tl, age) \in 1..4
         /\ tl[PhaseAt(tl, age)].at <= age
         /\ \A j \in 1..4 : tl[j].at <= age => j <= PhaseAt(tl, age)
<1> DEFINE i == LastReached(tl, age)
<1>1. i \in 0..4 /\ Reached(tl, age, i)
  BY LastReachedIs
<1>2. \A j \in 1..4 : tl[j].at \in Int /\ tl[j].at # Unparsed
  <2>1. tl[1].at \in Int /\ tl[2].at \in Int /\ tl[3].at \in Int /\ tl[4].at \in Int
    BY DEF Increasing
  <2>2. tl[1].at = 0 /\ tl[2].at > tl[2 - 1].at /\ tl[3].at > tl[3 - 1].at
        /\ tl[4].at > tl[4 - 1].at
    BY DEF Increasing
  <2>3. QED
    BY <2>1, <2>2 DEF Unparsed
<1>3. PhaseAt(tl, age) = i
  BY <1>2 DEF PhaseAt, Increasing
<1>4. i # 0
  <2>1. tl[1].at = 0
    BY DEF Increasing
  <2>2. i = 0 => tl[0 + 1].at > age
    BY <1>1 DEF Reached, Increasing
  <2>3. QED
    BY <2>1, <2>2
<1>5. tl[i].at <= age
  BY <1>1, <1>4 DEF Reached
<1>6. ASSUME NEW j \in 1..4, tl[j].at <= age PROVE j <= i
  <2> SUFFICES ASSUME j > i PROVE FALSE
    BY <1>1
  <2>1. i \in 1..3 /\ tl[i + 1].at > age
    BY <1>1, <1>4 DEF Reached, Increasing
  <2>2. tl[2].at > tl[2 - 1].at /\ tl[3].at > tl[3 - 1].at /\ tl[4].at > tl[4 - 1].at
    BY DEF Increasing
  <2>3. tl[2].at > tl[1].at /\ tl[3].at > tl[2].at /\ tl[4].at > tl[3].at
    BY <2>2
  <2>4. \A k, l \in 1..4 : k < l => tl[k].at < tl[l].at
    BY <2>3, <1>2
  <2>5. j # i + 1
    BY <1>6, <2>1, <1>2
  <2>6. tl[i + 1].at < tl[j].at
    BY <2>1, <2>4, <2>5
  <2>7. QED
    BY <1>6, <2>1, <2>6, <1>2
<1>7. QED
  BY <1>1, <1>3, <1>4, <1>5, <1>6

\* Without a timeline there is no phase.
LEMMA NoTimelineNoPhase ==
  ASSUME NEW age
  PROVE  PhaseAt(<<>>, age) = 0
<1>1. Len(<<>>) = 0 /\ DOMAIN <<>> = 1..0
  OBVIOUS
<1>2. \A e : LastReached(<<>>, e) = 0
  BY <1>1 DEF LastReached
<1>3. QED
  BY <1>1, <1>2 DEF PhaseAt

-----------------------------------------------------------------------------
(* Documents *)

LEMMA NormalIsValid == Validate(Normal) /\ Normal.timeline = <<>> /\ Normal.duration = Unset
<1>1. TargetsValid(Normal.targets)
  <2>1. Normal.targets.selector = [k \in {} |-> ""] /\ Normal.targets.gpus = <<>>
    BY DEF Normal
  <2>2. SelectorValid(Normal.targets.selector)
    BY <2>1 DEF SelectorValid
  <2>3. DOMAIN Normal.targets.gpus = {}
    BY <2>1
  <2>4. QED
    BY <2>2, <2>3 DEF TargetsValid
<1>2. MetricsValid(Normal.metrics) /\ MetricTargetsValid(Normal.targets, Normal.metrics)
  BY DEF MetricsValid, MetricTargetsValid, Normal, NoMetrics
<1>3. \A i \in DOMAIN Normal.actions : FALSE
  BY DEF Normal
<1>4. QED
  BY <1>1, <1>2, <1>3 DEF Validate, Normal

LEMMA NormalHasNoAction == \A type : ~HasAction(Normal, type)
BY DEF HasAction, Normal

\* What Validate says about the times of a document.
LEMMA ValidTimes ==
  ASSUME NEW doc \in Docs \cup {Normal}, Validate(doc)
  PROVE  /\ doc.duration = Unset \/ (doc.duration \in Nat /\ doc.duration # Unset)
         /\ doc.timeline = <<>> \/ (doc.timeline # <<>> /\ Increasing(doc.timeline))
<1>1. CASE doc = Normal
  BY <1>1, NormalIsValid
<1>2. CASE doc \in Docs
  <2>1. doc.duration \in Int
    BY <1>2, ExporterAssumption
  <2>2. doc.duration = Unset \/ doc.duration > 0
    BY DEF Validate
  <2>3. ASSUME doc.timeline # <<>> PROVE Increasing(doc.timeline)
    <3>1. OffsetsValid(doc.timeline)
      BY <2>3 DEF Validate, TimelineValid
    <3>2. /\ DOMAIN doc.timeline = 1..Len(doc.timeline)
          /\ \A i \in DOMAIN doc.timeline : doc.timeline[i].at \in Int
      BY <1>2, ExporterAssumption
    <3>3. QED
      BY <3>1, <3>2 DEF OffsetsValid, Increasing
  <2>4. QED
    BY <2>1, <2>2, <2>3 DEF Unset
<1>3. QED
  BY <1>1, <1>2

\* The phase of a document, at any time that a request may have read.
LEMMA PhaseType ==
  ASSUME NEW doc \in Docs \cup {Normal}, Validate(doc), NEW age \in Int
  PROVE  /\ PhaseAt(doc.timeline, age) \in 0..Len(doc.timeline)
         /\ doc.timeline = <<>> => PhaseAt(doc.timeline, age) = 0
<1>1. CASE doc.timeline = <<>>
  BY <1>1, NoTimelineNoPhase
<1>2. CASE Increasing(doc.timeline)
  <2>1. age < 0 => PhaseAt(doc.timeline, age) = PhaseAt(doc.timeline, 0)
    BY DEF PhaseAt
  <2>2. PhaseAt(doc.timeline, age) \in 1..4
    BY <1>2, <2>1, PhaseIsLastDue
  <2>3. QED
    BY <1>2, <2>2 DEF Increasing
<1>3. QED
  BY <1>1, <1>2, ValidTimes

-----------------------------------------------------------------------------
(* The invariant *)

Fields == {"scenario", "gen", "started", "phase", "readings", "fabric", "fault", "expires"}

\* What ModelIsOneView says of a model, with its fields and their types.
View(n, m) ==
  /\ DOMAIN m = Fields
  /\ m.scenario \in Docs \cup {Normal} /\ Validate(m.scenario)
  /\ m.gen \in Nat /\ m.started \in Nat
  /\ m.phase \in 0..Len(m.scenario.timeline)
  /\ m.readings = Readings(n, m.scenario, ActiveMetrics(m))
  /\ m.fabric = FabricReading(m.scenario)
  /\ m.fault = HasAction(m.scenario, "exporter_fault")

Here(n) == SelectorMatches(n, cm.doc.targets.selector)

\* The model has what the ConfigMap holds, and may still be refreshed ...
Runs(n, m) ==
  /\ m.scenario = (IF Here(n) THEN cm.doc ELSE Normal)
  /\ m.started = cm.started
  /\ m.expires = (IF Here(n) /\ cm.doc.duration # Unset
                  THEN cm.started + cm.doc.duration ELSE Unset)

\* ... or has had it for its duration.
HasRun(n, m) == Here(n) /\ Over(cm) /\ m.scenario = Normal /\ m.expires = Unset

Follows(n, m) == Accepted(cm) /\ m.gen = cm.gen => Runs(n, m) \/ HasRun(n, m)

\* A generation names one application: the next one has not been used.
Used(gen) == gen <= cm.rv \/ gen > MaxPuts

\* What the poller is about to apply.
Taken(p) ==
  "doc" \in DOMAIN p =>
    /\ p.rv \in 0..MaxPuts /\ p.doc \in Docs /\ Validate(p.doc)
    /\ p.gen \in Nat /\ p.started \in 0..now /\ Used(p.gen)
    /\ Accepted(cm) /\ p.gen = cm.gen => p.doc = cm.doc /\ p.started = cm.started

Written ==
  \/ cm = NoDoc
  \/ /\ DOMAIN cm = {"rv", "doc", "gen", "started"}
     /\ cm.rv \in 1..MaxPuts /\ cm.doc \in Docs
     /\ \/ cm.gen = Unset /\ cm.started = Unset
        \/ cm.gen \in 1..cm.rv /\ cm.started \in 0..now

Places == {"idle", "available", "check", "answer", "read"}

Types ==
  /\ now \in 0..MaxTime /\ crashes \in 0..MaxCrashes /\ Written
  /\ DOMAIN model = Nodes /\ DOMAIN poll = Nodes
  /\ seen \in [Nodes -> 0..MaxPuts]
  /\ req \in [Nodes -> [Readers -> [at: Places, time: 0..now]]]

Fine(n) == /\ View(n, model[n]) /\ Follows(n, model[n]) /\ Used(model[n].gen)
           /\ Taken(poll[n])

IInv == Types /\ \A n \in Nodes : Fine(n)

LEMMA WrittenRv == Written => cm.rv \in 0..MaxPuts
BY ExporterAssumption DEF Written, NoDoc

-----------------------------------------------------------------------------
(* Applying and refreshing *)

LEMMA AppliedView ==
  ASSUME NEW n, NEW doc \in Docs \cup {Normal}, Validate(doc), NEW gen \in Nat,
         NEW started \in Nat
  PROVE  View(n, ApplyAt(n, doc, gen, started))
<1> DEFINE m == ApplyAt(n, doc, gen, started)
           active == IF SelectorMatches(n, doc.targets.selector) THEN doc ELSE Normal
<1>1. m = [scenario |-> active, gen |-> gen, started |-> started, phase |-> 0,
           readings |-> Readings(n, active, active.metrics),
           fabric |-> FabricReading(active),
           fault |-> HasAction(active, "exporter_fault"), expires |-> m.expires]
  BY DEF ApplyAt, Applied
<1>2. active \in Docs \cup {Normal} /\ Validate(active)
  BY NormalIsValid
<1>3. Len(active.timeline) \in Nat
  <2>1. active.timeline = <<>> \/ Increasing(active.timeline)
    BY <1>2, ValidTimes
  <2>2. QED
    BY <2>1 DEF Increasing
<1>4. ActiveMetrics(m) = active.metrics
  BY <1>1 DEF ActiveMetrics
<1> HIDE DEF m, active
<1>5. QED
  BY <1>1, <1>2, <1>3, <1>4 DEF View, Fields, m

\* A refresh leaves the model one view, of the same application.
LEMMA RefreshedView ==
  ASSUME NEW n, NEW m, View(n, m), NEW t \in Nat
  PROVE  /\ View(n, Refreshed(n, m, t))
         /\ Refreshed(n, m, t).gen = m.gen /\ Refreshed(n, m, t).started = m.started
<1>1. CASE Expired(m, t)
  <2> DEFINE v == ToNormal(n, m)
  <2>1. /\ v.scenario = Normal /\ v.gen = m.gen /\ v.started = m.started /\ v.phase = 0
        /\ v.fault = FALSE /\ v.expires = Unset /\ v.fabric = FabricReading(Normal)
        /\ v.readings = Readings(n, Normal, NoMetrics) /\ DOMAIN v = Fields
    BY DEF View, ToNormal, Fields
  <2>2. ActiveMetrics(v) = NoMetrics
    BY <2>1 DEF ActiveMetrics, Normal
  <2>3. Len(Normal.timeline) = 0
    BY NormalIsValid
  <2>4. HasAction(Normal, "exporter_fault") = FALSE
    BY NormalHasNoAction DEF HasAction
  <2> HIDE DEF v
  <2>5. v.gen \in Nat /\ v.started \in Nat /\ v.phase \in 0..Len(v.scenario.timeline)
    BY <2>1, <2>3 DEF View
  <2>6. View(n, v)
    BY <2>1, <2>2, <2>4, <2>5, NormalIsValid DEF View
  <2>7. QED
    BY <1>1, <2>1, <2>6 DEF Refreshed, v
<1>2. CASE ~Expired(m, t)
  <2> DEFINE i == PhaseAt(m.scenario.timeline, t - m.started)
  <2>1. i \in 0..Len(m.scenario.timeline)
    <3>1. m.scenario \in Docs \cup {Normal} /\ Validate(m.scenario) /\ t - m.started \in Int
      BY DEF View
    <3>2. QED
      BY <3>1, PhaseType
  <2>2. CASE i \in {0, m.phase}
    BY <1>2, <2>2 DEF Refreshed, ToPhase
  <2>3. CASE i \notin {0, m.phase}
    <3> DEFINE v == ToPhase(n, m, t)
    <3>1. /\ v.scenario = m.scenario /\ v.gen = m.gen /\ v.started = m.started
          /\ v.phase = i /\ v.fabric = m.fabric /\ v.fault = m.fault
          /\ v.readings = Readings(n, m.scenario, m.scenario.timeline[i].metrics)
          /\ DOMAIN v = Fields
      BY <2>3 DEF View, ToPhase, Fields
    <3>2. ActiveMetrics(v) = m.scenario.timeline[i].metrics
      BY <2>3, <3>1 DEF ActiveMetrics
    <3> HIDE DEF v, i
    <3>3. View(n, v) /\ v.gen = m.gen /\ v.started = m.started
      BY <2>1, <3>1, <3>2 DEF View
    <3>4. QED
      BY <1>2, <3>3 DEF Refreshed, v
  <2>4. QED
    BY <2>2, <2>3
<1>3. QED
  BY <1>1, <1>2

\* A model without a timeline has no phase to go to.
LEMMA StaysWithoutTimeline ==
  ASSUME NEW n, NEW m, m.scenario = Normal, NEW t
  PROVE  ToPhase(n, m, t) = m
<1>1. PhaseAt(m.scenario.timeline, t - m.started) = 0
  BY NormalIsValid, NoTimelineNoPhase
<1>2. QED
  BY <1>1 DEF ToPhase

LEMMA ToPhaseKeeps ==
  ASSUME NEW n, NEW m, View(n, m), NEW t
  PROVE  /\ ToPhase(n, m, t).scenario = m.scenario
         /\ ToPhase(n, m, t).started = m.started
         /\ ToPhase(n, m, t).expires = m.expires
         /\ ToPhase(n, m, t).fault = m.fault
BY DEF View, ToPhase, Fields

\* The end of a model that runs what the ConfigMap holds is the one by its clock.
LEMMA EndByTheClock ==
  ASSUME NEW n, NEW m, View(n, m), Written, now \in Nat, Accepted(cm), Runs(n, m),
         cm.started # Unset, NEW t \in 0..now
  PROVE  /\ Expired(m, t) => Here(n) /\ Over(cm)
         /\ Expired(m, now) <=> Here(n) /\ Over(cm)
<1>1. cm.started \in Nat /\ cm.doc \in Docs
  BY DEF Written, Accepted
<1>2. cm.doc.duration = Unset \/ cm.doc.duration \in Nat
  BY <1>1, ValidTimes DEF Accepted
<1>3. CASE Here(n) /\ cm.doc.duration # Unset
  <2>1. m.expires = cm.started + cm.doc.duration /\ m.expires # Unset
    BY <1>1, <1>2, <1>3 DEF Runs, Unset
  <2>2. QED
    BY <1>1, <1>2, <1>3, <2>1 DEF Expired, Over
<1>4. CASE ~(Here(n) /\ cm.doc.duration # Unset)
  <2>1. m.expires = Unset
    BY <1>4 DEF Runs
  <2>2. QED
    BY <1>4, <2>1 DEF Expired, Over
<1>5. QED
  BY <1>3, <1>4

\* A refresh with any time that has been read keeps to the ConfigMap.
LEMMA RefreshedFollows ==
  ASSUME NEW n, NEW m, View(n, m), Follows(n, m), Written, now \in Nat, NEW t \in 0..now
  PROVE  Follows(n, Refreshed(n, m, t))
<1> DEFINE v == Refreshed(n, m, t)
<1> SUFFICES ASSUME Accepted(cm), v.gen = cm.gen PROVE Runs(n, v) \/ HasRun(n, v)
  BY DEF Follows
<1>1. m.gen = cm.gen /\ m.gen \in Nat
  BY RefreshedView DEF View
<1>2. cm.started # Unset
  BY <1>1 DEF Accepted, Written, Unset, NoDoc
<1>3. CASE Runs(n, m) /\ Expired(m, t)
  <2>1. Here(n) /\ Over(cm)
    BY <1>2, <1>3, EndByTheClock
  <2>2. v.scenario = Normal /\ v.expires = Unset
    BY <1>3 DEF Refreshed, ToNormal, View, Fields
  <2>3. QED
    BY <2>1, <2>2 DEF HasRun
<1>4. CASE Runs(n, m) /\ ~Expired(m, t)
  BY <1>4, ToPhaseKeeps DEF Refreshed, Runs
<1>5. CASE HasRun(n, m)
  <2>1. ~Expired(m, t)
    BY <1>5 DEF HasRun, Expired
  <2>2. v = m
    BY <1>5, <2>1, StaysWithoutTimeline DEF Refreshed, HasRun
  <2>3. QED
    BY <1>5, <2>2
<1>6. QED
  BY <1>1, <1>3, <1>4, <1>5 DEF Follows

-----------------------------------------------------------------------------
(* What is wanted of a state *)

LEMMA IInvTypeOK == IInv => TypeOK
<1> SUFFICES ASSUME IInv PROVE TypeOK
  OBVIOUS
<1>1. cm = NoDoc \/ /\ cm.rv \in 1..MaxPuts /\ cm.doc \in Docs
                    /\ cm.gen \in 1..MaxPuts \cup {Unset}
                    /\ cm.started \in 0..MaxTime \cup {Unset}
  BY ExporterAssumption DEF IInv, Types, Written
<1>2. ASSUME NEW n \in Nodes
      PROVE  /\ model[n].scenario \in Docs \cup {Normal}
             /\ model[n].phase \in 0..Len(model[n].scenario.timeline)
             /\ seen[n] \in 0..MaxPuts
  BY DEF IInv, Types, Fine, View
<1>3. ASSUME NEW n \in Nodes, NEW r \in Readers
      PROVE  req[n][r].at \in Places /\ req[n][r].time \in 0..now
  BY DEF IInv, Types
<1>4. QED
  BY <1>1, <1>2, <1>3 DEF IInv, Types, TypeOK, Places

LEMMA IInvOneView == IInv => ModelIsOneView
<1> SUFFICES ASSUME IInv PROVE ModelIsOneView
  OBVIOUS
<1>1. ASSUME NEW n \in Nodes
      PROVE  LET m == model[n] view == ActiveMetrics(m)
             IN  /\ Metrics(m).readings = m.readings
                 /\ Metrics(m).capacity =
                      (IF "gpu_capacity" \in DOMAIN view THEN view["gpu_capacity"] ELSE 8)
  BY DEF Metrics, DefaultCount
<1>2. \A n \in Nodes : View(n, model[n])
  BY DEF IInv, Fine
<1>3. QED
  BY <1>1, <1>2, IInvTypeOK DEF ModelIsOneView, View

\* What is due of the document is a set of steps with a last one, if there are any.
LEMMA DuePhase ==
  ASSUME NEW n, NEW m, View(n, m), Types, Accepted(cm), m.scenario = cm.doc,
         cm.started \in 0..now, m.started = cm.started
  PROVE  ToPhase(n, m, now).phase =
           IF Due(cm) # {} THEN CHOOSE i \in Due(cm) : \A j \in Due(cm) : j <= i ELSE 0
<1> DEFINE tl == cm.doc.timeline
           i == PhaseAt(tl, now - cm.started)
<1>1. now - cm.started \in Nat
  BY ExporterAssumption DEF Types
<1>2. CASE tl = <<>>
  <2>1. Due(cm) = {}
    BY <1>2 DEF Due
  <2>2. i = 0 /\ m.phase = 0
    BY <1>2, NoTimelineNoPhase DEF View
  <2>3. QED
    BY <2>1, <2>2 DEF ToPhase
<1>3. CASE Increasing(tl)
  <2>1. i \in 1..4 /\ tl[i].at <= now - cm.started
        /\ \A j \in 1..4 : tl[j].at <= now - cm.started => j <= i
    BY <1>1, <1>3, PhaseIsLastDue
  <2>2. Due(cm) = {j \in 1..4 : tl[j].at <= now - cm.started}
    BY <1>3 DEF Due, Increasing
  <2> HIDE DEF i
  <2>3. i \in Due(cm) /\ (\A j \in Due(cm) : j <= i) /\ Due(cm) \subseteq 1..4
    BY <2>1, <2>2
  <2>4. \A k \in Due(cm) : (\A j \in Due(cm) : j <= k) => k = i
    <3> SUFFICES ASSUME NEW k \in Due(cm), \A j \in Due(cm) : j <= k PROVE k = i
      OBVIOUS
    <3>1. i <= k /\ k <= i /\ k \in 1..4 /\ i \in 1..4
      BY <2>3
    <3>2. QED
      BY <3>1
  <2>5. (CHOOSE k \in Due(cm) : \A j \in Due(cm) : j <= k) = i
    BY <2>3, <2>4
  <2>6. ToPhase(n, m, now).phase = i
    BY <2>1 DEF ToPhase, View, Fields, i
  <2>7. QED
    BY <2>3, <2>5, <2>6
<1>4. QED
  BY <1>2, <1>3, ValidTimes DEF View

LEMMA IInvByTheClock == IInv => ShownByTheClock
<1> SUFFICES ASSUME IInv, NEW n \in Nodes, Accepted(cm), model[n].gen = cm.gen
             PROVE  LET view == Refreshed(n, model[n], now)
                        here == SelectorMatches(n, cm.doc.targets.selector) /\ ~Over(cm)
                    IN  /\ view.scenario = (IF here THEN cm.doc ELSE Normal)
                        /\ view.fault <=> here /\ HasAction(cm.doc, "exporter_fault")
                        /\ view.phase = (IF here /\ Due(cm) # {}
                                         THEN CHOOSE i \in Due(cm) : \A j \in Due(cm) : j <= i
                                         ELSE 0)
  BY DEF ShownByTheClock
<1> DEFINE m == model[n]
           view == Refreshed(n, m, now)
<1>1. Types /\ View(n, m) /\ (Runs(n, m) \/ HasRun(n, m))
  BY DEF IInv, Fine, Follows
<1>2. now \in Nat /\ now \in 0..now /\ Written
  BY <1>1, ExporterAssumption DEF Types
<1>3. cm.started # Unset /\ cm.started \in 0..now
  BY <1>1, <1>2 DEF Accepted, Written, View, Unset, NoDoc
<1>4. ~HasAction(Normal, "exporter_fault")
  BY NormalHasNoAction
<1>5. CASE Runs(n, m) /\ Here(n) /\ ~Over(cm)
  <2>1. view = ToPhase(n, m, now)
    BY <1>1, <1>2, <1>3, <1>5, EndByTheClock DEF Refreshed
  <2>2. m.scenario = cm.doc /\ m.started = cm.started
    BY <1>5 DEF Runs
  <2>3. view.scenario = cm.doc /\ view.fault = HasAction(cm.doc, "exporter_fault")
    BY <1>1, <2>1, <2>2, ToPhaseKeeps DEF View
  <2>4. view.phase = IF Due(cm) # {} THEN CHOOSE i \in Due(cm) : \A j \in Due(cm) : j <= i
                                     ELSE 0
    BY <1>1, <1>3, <2>1, <2>2, DuePhase
  <2>5. QED
    BY <1>5, <2>3, <2>4 DEF Here
<1>6. CASE Runs(n, m) /\ Here(n) /\ Over(cm)
  <2>1. view = ToNormal(n, m)
    BY <1>1, <1>2, <1>3, <1>6, EndByTheClock DEF Refreshed
  <2>2. view.scenario = Normal /\ view.fault = FALSE /\ view.phase = 0
    BY <1>1, <2>1 DEF ToNormal, View, Fields
  <2>3. QED
    BY <1>6, <2>2 DEF Here
<1>7. CASE (Runs(n, m) /\ ~Here(n)) \/ HasRun(n, m)
  <2>1. ~(Here(n) /\ ~Over(cm)) /\ m.scenario = Normal /\ m.expires = Unset
    BY <1>7 DEF Runs, HasRun
  <2>2. view = m
    BY <2>1, StaysWithoutTimeline DEF Refreshed, Expired
  <2>3. m.phase = 0 /\ m.fault = FALSE
    BY <1>1, <1>4, <2>1, NormalIsValid DEF View, HasAction
  <2>4. QED
    BY <2>1, <2>2, <2>3 DEF Here
<1>8. QED
  BY <1>1, <1>5, <1>6, <1>7

-----------------------------------------------------------------------------
(* The invariant holds at first *)

LEMMA NewModelView ==
  ASSUME NEW n, now \in Nat
  PROVE  View(n, NewModel(n)) /\ NewModel(n).gen = 0
<1>1. View(n, ApplyAt(n, Normal, 0, now))
  BY AppliedView, NormalIsValid
<1>2. ApplyAt(n, Normal, 0, now).gen = 0
  BY DEF ApplyAt, Applied
<1>3. QED
  BY <1>1, <1>2 DEF NewModel

LEMMA InitIInv == Init => IInv
<1> SUFFICES ASSUME Init PROVE IInv
  OBVIOUS
<1>1. now \in 0..MaxTime /\ crashes \in 0..MaxCrashes /\ now = 0 /\ 0 \in 0..MaxPuts
  BY ExporterAssumption DEF Init
<1>2. req \in [Nodes -> [Readers -> [at: Places, time: 0..now]]]
  BY <1>1 DEF Init, Idle, Places
<1>3. Types
  BY <1>1, <1>2 DEF Init, Types, Written
<1>4. ASSUME NEW n \in Nodes PROVE Fine(n)
  <2>1. View(n, model[n]) /\ model[n].gen = 0
    BY <1>1, NewModelView DEF Init
  <2>2. cm.rv = 0 /\ ~Accepted(cm) /\ poll[n] = NoDoc
    BY DEF Init, Accepted, NoDoc
  <2>3. QED
    BY <2>1, <2>2, ExporterAssumption DEF Fine, Follows, Used, Taken, NoDoc
<1>5. QED
  BY <1>3, <1>4 DEF IInv

-----------------------------------------------------------------------------
(* Writes and time *)

LEMMA TickIInv == ASSUME IInv, Tick PROVE IInv'
<1>1. /\ now \in 0..MaxTime /\ now' \in 0..MaxTime /\ 0..now \subseteq 0..now'
      /\ now' = now + 1 /\ UNCHANGED <<cm, model, poll, seen, req, crashes>>
  BY ExporterAssumption DEF IInv, Types, Tick
<1>2. req' \in [Nodes -> [Readers -> [at: Places, time: (0..now)']]]
  BY <1>1 DEF IInv, Types
<1>3. Written'
  BY <1>1 DEF IInv, Types, Written
<1>4. Types'
  BY <1>1, <1>2, <1>3 DEF IInv, Types
<1>5. ASSUME NEW n \in Nodes PROVE Fine(n)'
  <2>1. Fine(n)
    BY DEF IInv
  <2>2. ASSUME Accepted(cm), Over(cm), cm.started # Unset PROVE Over(cm)'
    <3>1. cm.started \in Int /\ cm.doc \in Docs
      BY <2>2 DEF IInv, Types, Written, Accepted
    <3>2. cm.doc.duration \in Int
      BY <3>1, ExporterAssumption
    <3>3. QED
      BY <1>1, <2>2, <3>1, <3>2 DEF Over
  <2>3. Accepted(cm) /\ model[n].gen = cm.gen => cm.started # Unset
    BY <2>1 DEF IInv, Types, Written, Accepted, Fine, View, Unset
  <2>4. Follows(n, model[n])'
    BY <1>1, <2>1, <2>2, <2>3 DEF Fine, Follows, Runs, HasRun, Here, Accepted
  <2>5. Taken(poll[n])'
    BY <1>1, <2>1 DEF Fine, Taken, Used, Accepted
  <2>6. QED
    BY <1>1, <2>1, <2>4, <2>5 DEF Fine, Used
<1>6. QED
  BY <1>4, <1>5 DEF IInv

\* After a write nobody has the generation of the ConfigMap, or it holds nothing to follow.
LEMMA WriteIInv == ASSUME IInv, NEW doc \in Docs, Put(doc) \/ Edit(doc) PROVE IInv'
<1>1. /\ UNCHANGED <<now, model, poll, seen, req, crashes>>
      /\ cm.rv \in 0..MaxPuts /\ cm.rv < MaxPuts /\ cm'.rv = cm.rv + 1
  <2>1. UNCHANGED <<now, model, poll, seen, req, crashes>> /\ cm.rv < MaxPuts
    BY DEF Put, Edit
  <2>2. cm.rv \in 0..MaxPuts
    BY WrittenRv DEF IInv, Types
  <2>3. CASE Put(doc)
    BY <2>1, <2>2, <2>3 DEF Put
  <2>4. CASE Edit(doc)
    <3>1. "rv" \in DOMAIN cm
      BY <2>4 DEF Edit, IInv, Types, Written
    <3>2. cm'.rv = cm.rv + 1
      BY <2>4, <3>1 DEF Edit
    <3>3. QED
      BY <2>1, <2>2, <3>2
  <2>5. QED
    BY <2>3, <2>4
<1>2. Written'
  <2>1. CASE Put(doc)
    BY <1>1, <2>1, ExporterAssumption DEF Put, Written, IInv, Types
  <2>2. CASE Edit(doc)
    <3>1. /\ DOMAIN cm = {"rv", "doc", "gen", "started"} /\ DOMAIN cm' = DOMAIN cm
          /\ cm.doc \in Docs
          /\ \/ cm.gen = Unset /\ cm.started = Unset
             \/ cm.gen \in 1..cm.rv /\ cm.started \in 0..now
      BY <2>2 DEF Edit, Written, IInv, Types
    <3>2. /\ cm'.doc \in Docs
          /\ \/ cm'.gen = Unset /\ cm'.started = Unset
             \/ cm'.gen = cm.gen /\ cm'.started = cm.started
      BY <2>2, <3>1 DEF Edit
    <3>3. cm'.rv \in 1..MaxPuts /\ 1..cm.rv \subseteq 1..cm'.rv /\ now' = now
      BY <1>1, ExporterAssumption
    <3>4. QED
      BY <3>1, <3>2, <3>3 DEF Written
  <2>3. QED
    BY <2>1, <2>2
<1>3. Types'
  BY <1>1, <1>2 DEF IInv, Types
<1>4. \A g \in Nat : Used(g) => Used(g)' /\ ~(Accepted(cm)' /\ g = cm'.gen)
  <2>1. CASE Put(doc)
    <3>1. cm'.gen = cm.rv + 1
      BY <2>1 DEF Put
    <3>2. QED
      BY <1>1, <3>1, ExporterAssumption DEF Used
  <2>2. CASE Edit(doc)
    <3>1. cm'.gen = Unset \/ ~Validate(cm'.doc)
      BY <2>2 DEF Edit, IInv, Types, Written
    <3>2. QED
      BY <1>1, <3>1, ExporterAssumption DEF Used, Accepted, Unset
  <2>3. QED
    BY <2>1, <2>2
<1>5. ASSUME NEW n \in Nodes PROVE Fine(n)'
  <2>1. Fine(n)
    BY DEF IInv
  <2>2. model[n].gen \in Nat
    BY <2>1 DEF Fine, View
  <2>3. Follows(n, model[n])' /\ Used(model[n].gen)'
    BY <1>1, <1>4, <2>1, <2>2 DEF Fine, Follows
  <2>4. Taken(poll[n])'
    BY <1>1, <1>4, <2>1 DEF Fine, Taken
  <2>5. QED
    BY <1>1, <2>1, <2>3, <2>4 DEF Fine
<1>6. QED
  BY <1>3, <1>5 DEF IInv

-----------------------------------------------------------------------------
(* The poller and the requests *)

\* What is applied is known of the ConfigMap that was read, which may have changed.
LEMMA FetchIInv == ASSUME IInv, NEW n \in Nodes, Fetch(n) PROVE IInv'
<1> DEFINE p == [cm EXCEPT !.gen = Generation(cm), !.started = IF @ = Unset THEN now ELSE @]
<1>1. /\ Accepted(cm) /\ poll' = [poll EXCEPT ![n] = p]
      /\ UNCHANGED <<now, cm, model, seen, req, crashes>>
  BY DEF Fetch
<1>2. Types'
  BY <1>1 DEF IInv, Types, Written
<1>3. /\ DOMAIN cm = {"rv", "doc", "gen", "started"}
      /\ cm.rv \in 1..MaxPuts /\ cm.doc \in Docs /\ Validate(cm.doc)
      /\ \/ cm.gen = Unset /\ cm.started = Unset
         \/ cm.gen \in 1..cm.rv /\ cm.started \in 0..now
  BY <1>1 DEF IInv, Types, Written, Accepted
<1>4. /\ p.rv = cm.rv /\ p.doc = cm.doc /\ p.gen = Generation(cm)
      /\ p.started = IF cm.started = Unset THEN now ELSE cm.started
  BY <1>3
<1>5. p.gen \in Nat /\ Used(p.gen) /\ p.started \in 0..now
  BY <1>3, <1>4, ExporterAssumption DEF Generation, Used, IInv, Types, Unset
<1>6. p.gen = cm.gen => p.started = cm.started
  BY <1>3, <1>4, ExporterAssumption DEF Generation, IInv, Types, Unset
<1> HIDE DEF p
<1>7. Taken(p)
  BY <1>3, <1>4, <1>5, <1>6, ExporterAssumption DEF Taken
<1>8. ASSUME NEW k \in Nodes PROVE Fine(k)'
  <2>1. Fine(k) /\ (poll'[k] = poll[k] \/ poll'[k] = p)
    BY <1>1 DEF IInv, Types
  <2>2. Taken(poll'[k])
    BY <1>7, <2>1 DEF Fine
  <2>3. QED
    BY <1>1, <2>1, <2>2
       DEF Fine, Follows, Used, Taken, Accepted, Runs, HasRun, Here, Over
<1>9. QED
  BY <1>2, <1>8 DEF IInv

LEMMA CommitIInv == ASSUME IInv, NEW n \in Nodes, Commit(n) PROVE IInv'
<1> DEFINE p == poll[n]
           m == ApplyAt(n, p.doc, p.gen, p.started)
<1>1. /\ "doc" \in DOMAIN p /\ model' = [model EXCEPT ![n] = m]
      /\ poll' = [poll EXCEPT ![n] = [rv |-> p.rv]] /\ seen' = [seen EXCEPT ![n] = p.rv]
      /\ UNCHANGED <<now, cm, req, crashes>>
  BY DEF Commit
<1>2. /\ p.rv \in 0..MaxPuts /\ p.doc \in Docs /\ Validate(p.doc)
      /\ p.gen \in Nat /\ p.started \in 0..now /\ p.started \in Nat /\ Used(p.gen)
      /\ Accepted(cm) /\ p.gen = cm.gen => p.doc = cm.doc /\ p.started = cm.started
  BY <1>1 DEF IInv, Fine, Taken
<1>3. Types'
  BY <1>1, <1>2 DEF IInv, Types, Written
<1>4. View(n, m) /\ m.gen = p.gen
  <2>1. View(n, m)
    BY <1>2, AppliedView
  <2>2. QED
    BY <2>1 DEF ApplyAt, Applied
<1>5. Follows(n, m)
  BY <1>2, <1>4 DEF Follows, Runs, Here, ApplyAt, Applied
<1> HIDE DEF m
<1>6. ASSUME NEW k \in Nodes PROVE Fine(k)'
  <2>1. View(k, model'[k]) /\ Follows(k, model'[k]) /\ Used(model'[k].gen)
    BY <1>1, <1>2, <1>4, <1>5 DEF IInv, Types, Fine
  <2>2. Taken(poll'[k])
    <3>1. "doc" \notin DOMAIN [rv |-> p.rv]
      OBVIOUS
    <3>2. QED
      BY <1>1, <3>1 DEF IInv, Types, Fine, Taken
  <2>3. QED
    BY <1>1, <2>1, <2>2
       DEF Fine, Follows, Used, Taken, Accepted, Runs, HasRun, Here, Over
<1>7. QED
  BY <1>3, <1>6 DEF IInv

\* A refresh, by the poller or a request, with a time that has been read.
LEMMA RefreshKeeps ==
  ASSUME IInv, NEW n \in Nodes, NEW t \in 0..now, UNCHANGED <<now, cm>>,
         model' = [model EXCEPT ![n] = Refreshed(n, @, t)],
         poll' = poll \/ poll' = [poll EXCEPT ![n] = NoDoc], NEW k \in Nodes
  PROVE  Fine(k)'
<1>1. Fine(k) /\ Fine(n) /\ Types /\ now \in Nat /\ t \in Nat /\ Written
  BY ExporterAssumption DEF IInv, Types
<1>2. View(n, Refreshed(n, model[n], t)) /\ Refreshed(n, model[n], t).gen = model[n].gen
  BY <1>1, RefreshedView DEF Fine
<1>3. Follows(n, Refreshed(n, model[n], t))
  BY <1>1, RefreshedFollows DEF Fine
<1>4. View(k, model'[k]) /\ Follows(k, model'[k]) /\ Used(model'[k].gen)
  BY <1>1, <1>2, <1>3 DEF Types, Fine
<1>5. Taken(poll'[k])
  BY <1>1 DEF Types, Fine, Taken, NoDoc
<1>6. QED
  BY <1>4, <1>5 DEF Fine, Follows, Used, Taken, Accepted, Runs, HasRun, Here, Over

LEMMA LogAppliedIInv == ASSUME IInv, NEW n \in Nodes, LogApplied(n) PROVE IInv'
<1>1. /\ now \in 0..now /\ model' = [model EXCEPT ![n] = Refreshed(n, @, now)]
      /\ poll' = [poll EXCEPT ![n] = NoDoc] /\ UNCHANGED <<now, cm, seen, req, crashes>>
  BY ExporterAssumption DEF LogApplied, IInv, Types
<1>2. Types'
  BY <1>1 DEF IInv, Types, Written
<1>3. \A k \in Nodes : Fine(k)'
  BY <1>1, RefreshKeeps
<1>4. QED
  BY <1>2, <1>3 DEF IInv

LEMMA AtType ==
  ASSUME Types, NEW n \in Nodes, NEW r \in Readers, NEW place \in Places, NEW t \in 0..now,
         At(n, r, place, t)
  PROVE  req' \in [Nodes -> [Readers -> [at: Places, time: 0..now]]]
BY DEF Types, At

LEMMA ServeIInv ==
  ASSUME IInv, NEW n \in Nodes, NEW r \in Readers, Serve(n, r) PROVE IInv'
<1>1. /\ Types /\ req[n][r].time \in 0..now /\ now \in 0..now /\ 0 \in 0..now
      /\ UNCHANGED <<now, cm, poll, seen, crashes>>
  BY ExporterAssumption
     DEF IInv, Types, Serve, Request, Refresh, CheckFault, Read
<1>2. req' \in [Nodes -> [Readers -> [at: Places, time: 0..now]]]
  <2>1. \E place \in Places, t \in 0..now : At(n, r, place, t)
    BY <1>1 DEF Serve, Request, Refresh, CheckFault, Read, Places
  <2>2. QED
    BY <1>1, <2>1, AtType
<1>3. CASE Refresh(n, r)
  <2>1. model' = [model EXCEPT ![n] = Refreshed(n, @, req[n][r].time)]
    BY <1>3 DEF Refresh
  <2>2. Types'
    BY <1>1, <1>2, <2>1 DEF Types, Written
  <2>3. \A k \in Nodes : Fine(k)'
    BY <1>1, <2>1, RefreshKeeps
  <2>4. QED
    BY <2>2, <2>3 DEF IInv
<1>4. CASE UNCHANGED model
  BY <1>1, <1>2, <1>4
     DEF IInv, Types, Written, Fine, Follows, Used, Taken, Accepted, Runs, HasRun, Here, Over
<1>5. QED
  BY <1>3, <1>4 DEF Serve, Request, CheckFault, Read

\* A restarted exporter shows what Normal does, for no application.
LEMMA CrashIInv == ASSUME IInv, NEW n \in Nodes, Crash(n) PROVE IInv'
<1>1. /\ model' = [model EXCEPT ![n] = NewModel(n)] /\ poll' = [poll EXCEPT ![n] = NoDoc]
      /\ seen' = [seen EXCEPT ![n] = 0] /\ req' = [req EXCEPT ![n] = Idle]
      /\ crashes < MaxCrashes /\ crashes' = crashes + 1 /\ UNCHANGED <<now, cm>>
  BY DEF Crash
<1>2. now \in Nat /\ 0 \in 0..MaxPuts /\ Idle \in [Readers -> [at: Places, time: 0..now]]
  BY ExporterAssumption DEF IInv, Types, Idle, Places
<1>3. Types'
  BY <1>1, <1>2, ExporterAssumption DEF IInv, Types, Written
<1>4. View(n, NewModel(n)) /\ NewModel(n).gen = 0
  BY <1>2, NewModelView
<1>5. Follows(n, NewModel(n)) /\ Used(NewModel(n).gen)
  <2>1. cm.rv \in 0..MaxPuts /\ (Accepted(cm) => cm.gen # 0)
    BY WrittenRv DEF IInv, Types, Written, Accepted, Unset
  <2>2. QED
    BY <1>4, <2>1, ExporterAssumption DEF Follows, Used
<1>6. ASSUME NEW k \in Nodes PROVE Fine(k)'
  <2>1. View(k, model'[k]) /\ Follows(k, model'[k]) /\ Used(model'[k].gen)
    BY <1>1, <1>4, <1>5 DEF IInv, Types, Fine
  <2>2. Taken(poll'[k])
    BY <1>1 DEF IInv, Types, Fine, Taken, NoDoc
  <2>3. QED
    BY <1>1, <2>1, <2>2
       DEF Fine, Follows, Used, Taken, Accepted, Runs, HasRun, Here, Over
<1>7. QED
  BY <1>3, <1>6 DEF IInv

-----------------------------------------------------------------------------
LEMMA NextIInv == IInv /\ [Next]_vars => IInv'
<1> SUFFICES ASSUME IInv, [Next]_vars PROVE IInv'
  OBVIOUS
<1>1. CASE Tick
  BY <1>1, TickIInv
<1>2. CASE \E doc \in Docs : Put(doc) \/ Edit(doc)
  BY <1>2, WriteIInv
<1>3. ASSUME NEW n \in Nodes, \/ Fetch(n) \/ Commit(n) \/ LogApplied(n) \/ Crash(n)
                              \/ \E r \in Readers : Serve(n, r)
      PROVE  IInv'
  BY <1>3, FetchIInv, CommitIInv, LogAppliedIInv, CrashIInv, ServeIInv
<1>4. CASE UNCHANGED vars
  BY <1>4 DEF vars, IInv, Types, Written, Fine, Follows, Used, Taken, Accepted, Runs,
              HasRun, Here, Over
<1>5. QED
  BY <1>1, <1>2, <1>3, <1>4 DEF Next

LEMMA Invariant == Spec => []IInv
<1>1. Init => IInv
  BY InitIInv
<1>2. IInv /\ [Next]_vars => IInv'
  BY NextIInv
<1>3. QED
  BY <1>1, <1>2, PTL DEF Spec

\* Every variable keeps its type; phases are steps of the scenario they belong to.
THEOREM TypeCorrect == Spec => []TypeOK
BY Invariant, IInvTypeOK, PTL

\* Readings, capacity, fabric and fault of an exporter are of the one scenario and
\* phase that it names, however requests and the poller interleave.
THEOREM ModelsAreOneView == Spec => []ModelIsOneView
BY Invariant, IInvOneView, PTL

\* An exporter that has a published scenario shows it by the clock of the ConfigMap,
\* whenever it polled, whoever refreshed it last, and however often it restarted.
THEOREM ClockIsShown == Spec => []ShownByTheClock
BY Invariant, IInvByTheClock, PTL

\* A refused document changes nothing: a new generation is one that Validate accepted.
THEOREM RefusedChangesNothing == Spec => LastGoodStays
<1> DEFINE Good == \A n \in Nodes :
             model'[n].gen # model[n].gen /\ crashes' = crashes =>
               /\ "doc" \in DOMAIN poll[n] /\ model'[n].gen = poll[n].gen
               /\ Validate(poll[n].doc)
<1>1. IInv /\ [Next]_vars => [Good]_vars
  <2> SUFFICES ASSUME IInv, Next, NEW n \in Nodes, model'[n].gen # model[n].gen,
                      crashes' = crashes
               PROVE  /\ "doc" \in DOMAIN poll[n] /\ model'[n].gen = poll[n].gen
                      /\ Validate(poll[n].doc)
    OBVIOUS
  <2>1. ASSUME NEW k \in Nodes, NEW t \in 0..now,
               model' = [model EXCEPT ![k] = Refreshed(k, @, t)]
        PROVE  FALSE
    <3>1. View(k, model[k]) /\ t \in Nat /\ DOMAIN model = Nodes
      BY DEF IInv, Fine, Types
    <3>2. Refreshed(k, model[k], t).gen = model[k].gen
      BY <3>1, RefreshedView
    <3>3. QED
      BY <2>1, <3>1, <3>2
  <2>2. PICK k \in Nodes :
          \/ Fetch(k) \/ Commit(k) \/ LogApplied(k) \/ Crash(k)
          \/ \E r \in Readers : Serve(k, r)
    BY DEF Next, Tick, Put, Edit
  <2>3. CASE Commit(k)
    <3>1. k = n /\ "doc" \in DOMAIN poll[n]
          /\ model'[n] = ApplyAt(n, poll[n].doc, poll[n].gen, poll[n].started)
      BY <2>3 DEF Commit, IInv, Types
    <3>2. Validate(poll[n].doc)
      BY <3>1 DEF IInv, Fine, Taken
    <3>3. QED
      BY <3>1, <3>2 DEF ApplyAt, Applied
  <2>4. CASE Crash(k)
    BY <2>4 DEF Crash, IInv, Types
  <2>5. CASE LogApplied(k)
    <3>1. now \in 0..now
      BY ExporterAssumption DEF IInv, Types
    <3>2. QED
      BY <2>1, <2>5, <3>1 DEF LogApplied
  <2>6. ASSUME NEW r \in Readers, Refresh(k, r) PROVE FALSE
    <3>1. req[k][r].time \in 0..now
      BY DEF IInv, Types
    <3>2. QED
      BY <2>1, <2>6, <3>1 DEF Refresh
  <2>7. QED
    BY <2>2, <2>3, <2>4, <2>5, <2>6 DEF Fetch, Serve, Request, CheckFault, Read
<1>2. Spec => [][Good]_vars
  BY <1>1, Invariant, PTL DEF Spec
<1>3. QED
  BY <1>2 DEF LastGoodStays

-----------------------------------------------------------------------------
(* The documents of the run are documents of the theorem below *)

\* The metrics, and the phases, of any document: their numbers are numbers.
Sane(m) == \A f \in DOMAIN m \ Texts : m[f] \in Int /\ (m[f] = NaN => f \in Floats)

\* Those of the run are among them.
LEMMA ChoicesAreSane == \A m \in MetricChoices : Sane(m)
<1> USE DEF NaN, Infinity, Texts, States, Floats, Percents
<1>1. Sane(Bare) /\ Sane(Warm)
  BY DEF Sane, Bare, Warm
<1>2. /\ Sane([gpu_utilization_percent |-> 100, health |-> 0])
      /\ Sane([gpu_memory_used_percent |-> 101])
  BY DEF Sane
<1>3. /\ Sane([gpu_capacity |-> 0]) /\ Sane([gpu_allocatable |-> 0])
      /\ Sane([ib_state |-> "DOWN", ib_port_up |-> 0])
  BY DEF Sane
<1>4. Sane([ib_physical_state |-> "GONE"]) /\ Sane([rdma_retries_total |-> -1])
  BY DEF Sane
<1>5. Sane([ib_link_rate_gbps |-> Infinity]) /\ Sane([fabric_delay_seconds |-> 0])
  BY DEF Sane
<1>6. Sane([power_watts |-> Infinity, gpu_utilization_percent |-> NaN])
  BY DEF Sane
<1>7. QED
  BY <1>1, <1>2, <1>3, <1>4, <1>5, <1>6 DEF MetricChoices

Staged(tl) ==
  /\ DOMAIN tl = 1..Len(tl)
  /\ \A i \in DOMAIN tl : tl[i].at \in Int /\ Sane(tl[i].metrics)

LEMMA StepsAreStaged ==
  ASSUME NEW a \in Int, NEW b \in Int, NEW c \in Int, NEW d \in Int, NEW m, Sane(m)
  PROVE  Staged(Steps(a, b, c, d, m)) /\ Staged(SubSeq(Steps(a, b, c, d, m), 1, 3))
<1> DEFINE all == Steps(a, b, c, d, m)
<1>1. Sane(Bare) /\ Sane(Warm)
  BY ChoicesAreSane DEF MetricChoices
<1>2. Len(all) = 4 /\ DOMAIN all = 1..4
  BY DEF Steps
<1>3. ASSUME NEW i \in 1..4 PROVE all[i].at \in Int /\ Sane(all[i].metrics)
  <2>1. all[1].at = a /\ all[2].at = b /\ all[3].at = c /\ all[4].at = d
    BY DEF Steps, PhaseStep
  <2>2. /\ all[1].metrics = Bare /\ all[2].metrics = Warm
        /\ all[3].metrics = m /\ all[4].metrics = Bare
    BY DEF Steps, PhaseStep
  <2>3. i = 1 \/ i = 2 \/ i = 3 \/ i = 4
    OBVIOUS
  <2>4. QED
    BY <1>1, <2>1, <2>2, <2>3
<1>4. /\ Len(SubSeq(all, 1, 3)) = 3 /\ DOMAIN SubSeq(all, 1, 3) = 1..3
      /\ \A i \in 1..3 : SubSeq(all, 1, 3)[i] = all[i]
  BY DEF Steps
<1>5. QED
  BY <1>2, <1>3, <1>4 DEF Staged

LEMMA DocumentParts ==
  ASSUME NEW d, d.duration \in Int, Staged(d.timeline), Sane(d.metrics)
  PROVE  IsDocument(d)
BY DEF IsDocument, Views, Staged, Sane

\* Every document of the run is one, whichever its parts are.
LEMMA DraftsAreDocuments == DraftInit => IsDocument(draft) /\ elapsed \in Int
<1>1. Sane(Bare) /\ Sane(Warm)
  BY ChoicesAreSane DEF MetricChoices
<1>2. ASSUME NEW tl \in TimelineChoices PROVE Staged(tl)
  <2>1. CASE tl = <<>>
    BY <2>1 DEF Staged
  <2>2. CASE tl = SubSeq(Steps(0, 1, 2, 3, Warm), 1, 3)
    BY <1>1, <2>2, StepsAreStaged
  <2>3. ASSUME NEW m, tl = Steps(0, 1, 2, 3, m),
               m \in {Warm, Bare, [gpu_capacity |-> 4], [ib_port_up |-> 0], [xid_code |-> -1]}
        PROVE  Staged(tl)
    <3>1. Sane(m)
      BY <1>1, <2>3 DEF Sane, NaN
    <3>2. QED
      BY <2>3, <3>1, StepsAreStaged
  <2>4. QED
    BY <2>1, <2>2, <2>3 DEF TimelineChoices
<1> DEFINE Timed(a, b, c, d, last) ==
             draft = [Plain EXCEPT !.timeline = Steps(a, b, c, d, Warm), !.duration = last]
<1>3. CASE elapsed = End /\ draft \in Drafts
  <2>1. /\ draft.duration \in DurationChoices /\ draft.timeline \in TimelineChoices
        /\ draft.metrics \in MetricChoices
    BY <1>3 DEF Drafts
  <2>2. draft.duration \in Int
    BY <2>1 DEF DurationChoices, Unset, Unparsed
  <2>3. QED
    BY <1>2, <1>3, <2>1, <2>2, ChoicesAreSane, DocumentParts DEF End
<1>4. CASE elapsed = -2 /\ draft \in TimedDrafts
  <2>1. PICK a, b, c, d \in Offsets, last \in {Unset, 3, 5} : Timed(a, b, c, d, last)
    <3> DEFINE Made(a, b, c, d, last) ==
                   [Plain EXCEPT !.timeline = Steps(a, b, c, d, Warm), !.duration = last]
    <3>1. TimedDrafts = {Made(a, b, c, d, last) : a, b, c, d \in Offsets, last \in {Unset, 3, 5}}
      BY DEF TimedDrafts, Made
    <3> HIDE DEF Made
    <3>2. \E a, b, c, d \in Offsets, last \in {Unset, 3, 5} : draft = Made(a, b, c, d, last)
      BY <1>4, <3>1
    <3>3. QED
      BY <3>2, Zenon DEF Made
  <2>2. /\ draft.timeline = Steps(a, b, c, d, Warm) /\ draft.duration = last
        /\ draft.metrics = Bare
    BY <2>1 DEF Plain
  <2>3. a \in Int /\ b \in Int /\ c \in Int /\ d \in Int /\ last \in Int
    BY DEF Offsets, Unset, Unparsed
  <2>4. QED
    BY <1>1, <1>4, <2>2, <2>3, StepsAreStaged, DocumentParts
<1>5. QED
  BY <1>3, <1>4 DEF DraftInit

-----------------------------------------------------------------------------
(* What Validate accepts *)

\* A document that is accepted is staged in four phases under increasing offsets, or plain.
LEMMA StagedIsIncreasing ==
  ASSUME NEW d, IsDocument(d), Validate(d), d.timeline # <<>>
  PROVE  TimelineValid(d) /\ Increasing(d.timeline) /\ DOMAIN d.timeline = 1..4
<1>1. TimelineValid(d) /\ OffsetsValid(d.timeline)
  BY DEF Validate, TimelineValid
<1>2. /\ DOMAIN d.timeline = 1..Len(d.timeline)
      /\ \A i \in DOMAIN d.timeline : d.timeline[i].at \in Int
  BY DEF IsDocument
<1>3. QED
  BY <1>1, <1>2 DEF OffsetsValid, Increasing

\* Every view of it, of whatever phase, was validated against the targets.
LEMMA ViewsAreValid ==
  ASSUME NEW d, IsDocument(d), Validate(d), NEW m \in Views(d)
  PROVE  MetricsValid(m) /\ MetricTargetsValid(d.targets, m)
<1>1. CASE m = d.metrics
  BY <1>1 DEF Validate
<1>2. CASE \E i \in DOMAIN d.timeline : m = d.timeline[i].metrics
  <2>1. PICK i \in DOMAIN d.timeline : m = d.timeline[i].metrics
    BY <1>2
  <2>2. d.timeline # <<>>
    BY <2>1
  <2>3. TimelineValid(d) /\ i \in 1..4
    BY <2>1, <2>2, StagedIsIncreasing
  <2>4. StepMetricsValid(d.targets, d.timeline[i])
    BY <2>3 DEF TimelineValid
  <2>5. QED
    BY <2>1, <2>4 DEF StepMetricsValid
<1>3. QED
  BY <1>1, <1>2 DEF Views

LEMMA GPUsKeepToThemselves == IsDocument(draft) => GPUsNeverChangeTheNode
<1> SUFFICES ASSUME IsDocument(draft), Validate(draft), draft.targets.gpus # <<>>
             PROVE  /\ \A m \in Views(draft) : DOMAIN m \cap (Capacity \cup Fabric) = {}
                    /\ ~HasAction(draft, "exporter_fault")
  BY DEF GPUsNeverChangeTheNode
<1>1. ASSUME NEW m \in Views(draft) PROVE DOMAIN m \cap (Capacity \cup Fabric) = {}
  <2>1. MetricTargetsValid(draft.targets, m)
    BY ViewsAreValid
  <2>2. DOMAIN m \cap Capacity = {} /\ DOMAIN m \cap Fabric = {}
    BY <2>1 DEF MetricTargetsValid, HasFabricOverrides
  <2>3. QED
    BY <2>2
<1>2. ASSUME NEW i \in DOMAIN draft.actions PROVE draft.actions[i].type # "exporter_fault"
  <2>1. ActionValid(draft.actions[i], draft.targets)
    BY DEF Validate
  <2>2. QED
    BY <2>1 DEF ActionValid
<1>3. QED
  BY <1>1, <1>2 DEF HasAction

LEMMA RangesAreKept == IsDocument(draft) => RangesHold
<1> SUFFICES ASSUME IsDocument(draft), Validate(draft), NEW m \in Views(draft),
                    NEW f \in DOMAIN m
             PROVE  Within(f, m[f])
  BY DEF RangesHold
<1>1. InRange(f, m[f])
  BY ViewsAreValid DEF MetricsValid
<1>2. f \notin Texts => m[f] \in Int
  BY DEF IsDocument
<1>3. f \notin Texts /\ m[f] = NaN => f \in Floats
  BY DEF IsDocument
<1>4. DOMAIN States = {"ib_state", "ib_physical_state"}
  BY DEF States
<1>5. CASE f \in Texts
  <2>1. f \in {"ib_state", "ib_physical_state", "throttle_reason"}
    BY <1>4, <1>5 DEF Texts
  <2>2. f \notin Percents \cup Flags \cup Positive \cup NonNegative
                 \cup {"ib_link_rate_gbps", "fabric_delay_seconds"}
    BY <2>1 DEF Percents, Flags, Positive, NonNegative, Counters
  <2>3. f \in DOMAIN States => m[f] \in States[f]
    BY <1>1 DEF InRange
  <2>4. QED
    BY <2>2, <2>3 DEF Within
<1>6. CASE f \notin Texts
  <2>1. m[f] \in Int /\ f \notin DOMAIN States
    BY <1>2, <1>6 DEF Texts
  <2>2. f \in Percents => m[f] = NaN \/ m[f] \in 0..100
    BY <1>1, <2>1 DEF InRange, Less, NaN
  <2>3. f \in Flags => m[f] \in 0..1
    BY <1>1 DEF InRange
  <2>4. f \in Positive => m[f] \in Nat \ {0}
    BY <1>1, <2>1 DEF InRange
  <2>5. f \in NonNegative => m[f] = NaN \/ m[f] \in Nat
    BY <1>1, <2>1 DEF InRange, Less, NaN
  <2>6. f = "ib_link_rate_gbps" => m[f] \in Nat \ {0} /\ m[f] # Infinity
    BY <1>1, <2>1 DEF InRange, IsFinite
  <2>7. f = "fabric_delay_seconds" => m[f] \in Nat /\ m[f] # Infinity
    BY <1>1, <2>1 DEF InRange, IsFinite
  <2>8. CASE m[f] = NaN /\ f \in Percents \cup {"temperature_celsius", "power_watts"}
    BY <2>8 DEF Within
  <2>9. CASE ~(m[f] = NaN /\ f \in Percents \cup {"temperature_celsius", "power_watts"})
    <3>1. f \in Percents => m[f] \in 0..100
      BY <2>2, <2>9
    <3>2. f \in NonNegative => m[f] # NaN
      BY <1>6, <1>3, <2>9 DEF Floats, Percents, NonNegative, Counters
    <3>3. QED
      BY <2>1, <2>3, <2>4, <2>5, <2>6, <2>7, <3>1, <3>2 DEF Within
  <2>10. QED
    BY <2>8, <2>9
<1>7. QED
  BY <1>5, <1>6

Since == IF elapsed < 0 THEN 0 ELSE elapsed

\* Before the start a staged document is in its first phase, and later in the last one due.
LEMMA PhaseNow ==
  ASSUME IsDocument(draft), Validate(draft), draft.timeline # <<>>, elapsed \in Int
  PROVE  /\ PhaseAt(draft.timeline, elapsed) \in 1..4
         /\ draft.timeline[PhaseAt(draft.timeline, elapsed)].at <= Since
         /\ \A j \in 1..4 : draft.timeline[j].at <= Since
                              => j <= PhaseAt(draft.timeline, elapsed)
<1>1. Since \in Nat /\ Since = IF Since < 0 THEN 0 ELSE Since
  BY DEF Since
<1>2. PhaseAt(draft.timeline, elapsed) = PhaseAt(draft.timeline, Since)
  BY <1>1 DEF PhaseAt, Since
<1>3. QED
  BY <1>1, <1>2, StagedIsIncreasing, PhaseIsLastDue

LEMMA LastPhaseIsReached ==
  IsDocument(draft) /\ elapsed \in Int => PhaseIsLastReached
<1> SUFFICES ASSUME IsDocument(draft), elapsed \in Int, Validate(draft), draft.timeline # <<>>
             PROVE  LET due == {i \in 1..4 : draft.timeline[i].at <= Since}
                    IN  due # {} /\ PhaseAt(draft.timeline, elapsed) = Max(due)
  BY DEF PhaseIsLastReached, Since
<1> DEFINE due == {i \in 1..4 : draft.timeline[i].at <= Since}
           p == PhaseAt(draft.timeline, elapsed)
<1>1. p \in due /\ \A j \in due : p >= j
  BY PhaseNow
<1>2. \A x \in due : (\A j \in due : x >= j) => x = p
  BY <1>1
<1>3. Max(due) = p
  BY <1>1, <1>2 DEF Max
<1>4. QED
  BY <1>1, <1>3

LEMMA StagedEndsQuiet == IsDocument(draft) /\ elapsed \in Int => StagedComesBack
<1> SUFFICES ASSUME IsDocument(draft), elapsed \in Int, Validate(draft), draft.timeline # <<>>
             PROVE  /\ elapsed >= draft.timeline[4].at =>
                         Empty(draft.timeline[PhaseAt(draft.timeline, elapsed)].metrics)
                    /\ draft.duration # Unset =>
                         PhaseAt(draft.timeline, draft.duration - 1) = 4
                    /\ draft.actions = <<>>
  BY DEF StagedComesBack
<1> DEFINE tl == draft.timeline
<1>1. TimelineValid(draft) /\ Increasing(tl) /\ DOMAIN tl = 1..4
  BY StagedIsIncreasing
<1>2. tl[4].at \in Nat
  <2>1. tl[1].at \in Int /\ tl[2].at \in Int /\ tl[3].at \in Int /\ tl[4].at \in Int
    BY <1>1 DEF Increasing
  <2>2. tl[1].at = 0 /\ tl[2].at > tl[2 - 1].at /\ tl[3].at > tl[3 - 1].at
        /\ tl[4].at > tl[4 - 1].at
    BY <1>1 DEF Increasing
  <2>3. QED
    BY <2>1, <2>2
<1>3. ASSUME NEW e \in Nat, e >= tl[4].at PROVE PhaseAt(tl, e) = 4
  <2>1. PhaseAt(tl, e) \in 1..4 /\ \A j \in 1..4 : tl[j].at <= e => j <= PhaseAt(tl, e)
    BY <1>1, PhaseIsLastDue
  <2>2. tl[4].at <= e
    BY <1>2, <1>3
  <2>3. QED
    BY <2>1, <2>2
<1>4. Empty(tl[4].metrics)
  <2>1. tl[4].phase = "recovery" /\ StepMetricsValid(draft.targets, tl[4])
    BY <1>1 DEF TimelineValid, Phases
  <2>2. QED
    BY <2>1 DEF StepMetricsValid, Quiet
<1>5. ASSUME elapsed >= tl[4].at PROVE PhaseAt(tl, elapsed) = 4
  BY <1>2, <1>3, <1>5
<1>6. ASSUME draft.duration # Unset PROVE PhaseAt(tl, draft.duration - 1) = 4
  <2>1. draft.duration \in Int /\ draft.duration > 0
    BY <1>6 DEF IsDocument, Validate
  <2>2. draft.duration > tl[4].at
    BY <1>1, <2>1 DEF TimelineValid
  <2>3. draft.duration - 1 \in Nat /\ draft.duration - 1 >= tl[4].at
    BY <1>2, <2>1, <2>2
  <2>4. QED
    BY <1>3, <2>3
<1>7. draft.actions = <<>>
  BY <1>1 DEF TimelineValid
<1>8. QED
  BY <1>4, <1>5, <1>6, <1>7

InOrder ==
  Validate(draft) =>
    PhaseAt(draft.timeline, elapsed') \in
      {PhaseAt(draft.timeline, elapsed), PhaseAt(draft.timeline, elapsed) + 1}

LEMMA PhasesFollow ==
  ASSUME IsDocument(draft), elapsed \in Int, TimeGoesOn PROVE InOrder
<1> SUFFICES ASSUME Validate(draft)
             PROVE  PhaseAt(draft.timeline, elapsed') \in
                      {PhaseAt(draft.timeline, elapsed), PhaseAt(draft.timeline, elapsed) + 1}
  BY DEF InOrder
<1> DEFINE tl == draft.timeline
           since == IF elapsed + 1 < 0 THEN 0 ELSE elapsed + 1
           p == PhaseAt(tl, elapsed)
           q == PhaseAt(tl, elapsed + 1)
<1>1. elapsed' = elapsed + 1
  BY DEF TimeGoesOn
<1>2. CASE tl = <<>>
  BY <1>1, <1>2, NoTimelineNoPhase
<1>3. CASE tl # <<>>
  <2>1. Increasing(tl)
    BY <1>3, StagedIsIncreasing
  <2>2. /\ p \in 1..4 /\ tl[p].at <= Since
        /\ \A j \in 1..4 : tl[j].at <= Since => j <= p
    BY <1>3, PhaseNow
  <2>3. /\ q \in 1..4 /\ tl[q].at <= since
        /\ \A j \in 1..4 : tl[j].at <= since => j <= q
    <3>1. since \in Nat /\ q = PhaseAt(tl, since)
      BY DEF PhaseAt
    <3>2. QED
      BY <2>1, <3>1, PhaseIsLastDue
  <2>4. Since \in Int /\ since \in Int /\ Since <= since /\ since <= Since + 1
    BY DEF Since
  <2>5. \A i, j \in 1..4 : /\ tl[i].at \in Int
                           /\ i < j => tl[i].at < tl[j].at
    <3>1. tl[1].at \in Int /\ tl[2].at \in Int /\ tl[3].at \in Int /\ tl[4].at \in Int
      BY <2>1 DEF Increasing
    <3>2. tl[2].at > tl[2 - 1].at /\ tl[3].at > tl[3 - 1].at /\ tl[4].at > tl[4 - 1].at
      BY <2>1 DEF Increasing
    <3>3. QED
      BY <3>1, <3>2
  <2>6. p <= q
    BY <2>2, <2>3, <2>4, <2>5
  <2>7. q <= p + 1
    <3> SUFFICES ASSUME q > p + 1 PROVE FALSE
      BY <2>2, <2>3
    <3>1. p + 1 \in 1..4 /\ p + 1 < q
      BY <2>2, <2>3
    <3>2. tl[p + 1].at < tl[q].at /\ tl[p + 1].at \in Int /\ tl[q].at \in Int
      BY <2>3, <2>5, <3>1
    <3>3. tl[p + 1].at > Since
      BY <2>2, <2>4, <3>1, <3>2
    <3>4. QED
      BY <2>3, <2>4, <3>2, <3>3
  <2>8. QED
    BY <1>1, <2>2, <2>3, <2>6, <2>7
<1>4. QED
  BY <1>2, <1>3

(* AcceptedIsSound: whatever document Validate accepts, with a timeline of *)
(* whatever offsets, keeps to its ranges and to its GPUs, comes back, and  *)
(* is in one phase after the other from before its start on                *)
(* (internal/scenario/validate.go, metrics_validation.go and timeline.go). *)
THEOREM AcceptedDocumentsAreSound ==
  IsDocument(draft) /\ elapsed \in Int /\ [][TimeGoesOn]_draftVars => AcceptedIsSound
<1> DEFINE Inv == IsDocument(draft) /\ elapsed \in Int
           Sound == GPUsNeverChangeTheNode /\ StagedComesBack /\ RangesHold /\ PhaseIsLastReached
<1>1. Inv /\ [TimeGoesOn]_draftVars => Inv'
  BY DEF TimeGoesOn, draftVars, IsDocument, Views
<1>2. Inv => Sound
  BY GPUsKeepToThemselves, StagedEndsQuiet, RangesAreKept, LastPhaseIsReached
<1>3. Inv /\ [TimeGoesOn]_draftVars => [InOrder]_draftVars
  BY PhasesFollow
<1>4. PhasesInOrder <=> [][InOrder]_draftVars
  BY PTL DEF PhasesInOrder, InOrder
<1> HIDE DEF Inv
<1>5. Inv /\ [][TimeGoesOn]_draftVars => []Sound /\ [][InOrder]_draftVars
  BY <1>1, <1>2, <1>3, PTL
<1>6. QED
  BY <1>4, <1>5 DEF AcceptedIsSound, Inv
=============================================================================
