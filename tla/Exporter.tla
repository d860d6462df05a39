------------------------------ MODULE Exporter ------------------------------
(***************************************************************************)
(* The exporters of the lab (internal/exporter): one for each node, which  *)
(* polls the scenario's ConfigMap, holds what it shows in a Model behind a *)
(* lock, and advances its phase and its expiry when it is asked.           *)
(***************************************************************************)
EXTENDS ScenarioRules, FiniteSets

CONSTANTS
  Nodes,        \* names of nodes
  Readers,      \* requests an exporter may serve at a time
  GPUs,         \* GPUs of a node
  Docs,         \* documents that come into the ConfigMap
  MaxTime, MaxPuts, MaxCrashes    \* BOUNDS on the clock, writes and restarts

ASSUME ExporterAssumption ==
  /\ GPUs \in Nat \ {0} /\ MaxTime \in Nat /\ MaxPuts \in Nat /\ MaxCrashes \in Nat
  /\ \A doc \in Docs : /\ doc.duration \in Int
                       /\ DOMAIN doc.timeline = 1..Len(doc.timeline)
                       /\ \A i \in DOMAIN doc.timeline : doc.timeline[i].at \in Int

VARIABLES
  now,          \* the clock, which the nodes of a lab share
  cm,           \* the ConfigMap
  model,        \* of each exporter
  poll,         \* the poller: the document it is about to apply, if any
  seen,         \* the resource version it has applied
  req,          \* the requests: where they are and the time they have read
  crashes

vars == <<now, cm, model, poll, seen, req, crashes>>

NoMetrics == [f \in {} |-> 0]
Normal == [identity |-> "ok", duration |-> Unset, timeline |-> <<>>,
           targets |-> [selector |-> [k \in {} |-> ""], gpus |-> <<>>],
           metrics |-> NoMetrics, actions |-> <<>>]

---------------------------------------------------------------------------
(* What a scenario shows on a node *)

NodeID(n) == CASE n = "gpu-lab-worker"  -> "gpu-node-01"
               [] n = "gpu-lab-worker2" -> "gpu-node-02"
               [] n = "gpu-lab-worker3" -> "gpu-node-03"
               [] OTHER -> n
Labels(n) == [type |-> "fake", node_id |-> NodeID(n), hostname |-> n]

SelectorMatches(n, s) ==
  \A k \in DOMAIN s : k \in DOMAIN Labels(n) /\ Labels(n)[k] = s[k]

Default == [gpu_utilization_percent |-> 15, gpu_memory_used_percent |-> 20,
            gpu_memory_total_bytes |-> 16, temperature_celsius |-> 45,
            power_watts |-> 80, xid_code |-> 0, health |-> 1,
            ecc_dbe_total |-> 0, power_violation_total |-> 0,
            pcie_replay_total |-> 0, throttle_active |-> 0,
            throttle_reason |-> "none"]
FabricDefault == [f \in Fabric |-> CASE f = "ib_port_up" -> 1
                                    [] f = "ib_state" -> "ACTIVE"
                                    [] f = "ib_physical_state" -> "LINK_UP"
                                    [] f = "ib_link_rate_gbps" -> 200
                                    [] OTHER -> 0]
Overlay(defaults, m) ==
  [f \in DOMAIN defaults |-> IF f \in DOMAIN m THEN m[f] ELSE defaults[f]]

Targeted(doc, g) ==
  doc.targets.gpus = <<>> \/ \E i \in DOMAIN doc.targets.gpus : doc.targets.gpus[i] = g

AllocationCount(n, doc, m) ==
  IF \/ "gpu_allocated_count" \notin DOMAIN m
     \/ /\ HasAction(doc, "create_gpu_workload")
        /\ ~SelectorMatches(n, FirstAction(doc, "create_gpu_workload").selector)
  THEN 0 ELSE m["gpu_allocated_count"]

(* buildReadings and buildFabricReading, for metrics m of the document.    *)
Readings(n, doc, m) ==
  [g \in 0..(GPUs - 1) |->
     [values |-> Overlay(Default, IF Targeted(doc, g) THEN m ELSE Normal.metrics),
      allocated |-> /\ Targeted(doc, g)
                    /\ Cardinality({h \in 0..(g - 1) : Targeted(doc, h)})
                         < AllocationCount(n, doc, m)]]
FabricReading(doc) == Overlay(FabricDefault, doc.metrics)

---------------------------------------------------------------------------
(* The Model: phase 0 is none, expires Unset is never *)

Applied(n, doc, gen, started) ==
  LET matched == SelectorMatches(n, doc.targets.selector)
      active == IF matched THEN doc ELSE Normal
  IN  [scenario |-> active, gen |-> gen, started |-> started, phase |-> 0,
       readings |-> Readings(n, active, active.metrics),
       fabric |-> FabricReading(active),
       fault |-> HasAction(active, "exporter_fault"),
       expires |-> IF matched /\ doc.duration # Unset THEN started + doc.duration
                                                     ELSE Unset]

\* Mutant: a scenario runs from the time it is applied.
AppliedNow(n, doc, gen, started) ==
  LET active == IF SelectorMatches(n, doc.targets.selector) THEN doc ELSE Normal
  IN  [scenario |-> active, gen |-> gen, started |-> now, phase |-> 0,
       readings |-> Readings(n, active, active.metrics),
       fabric |-> FabricReading(active),
       fault |-> HasAction(active, "exporter_fault"),
       expires |-> IF doc.duration # Unset THEN now + doc.duration ELSE Unset]

ApplyAt(n, doc, gen, started) == Applied(n, doc, gen, started)

Expired(m, t) == m.expires # Unset /\ t >= m.expires

ToNormal(n, m) ==
  [m EXCEPT !.scenario = Normal, !.readings = Readings(n, Normal, NoMetrics),
            !.fabric = FabricReading(Normal), !.fault = FALSE, !.phase = 0,
            !.expires = Unset]

\* Mutant: the phase moves without its readings.
OnlyPhase(n, m, t) ==
  LET i == PhaseAt(m.scenario.timeline, t - m.started)
  IN  IF i \in {0, m.phase} THEN m ELSE [m EXCEPT !.phase = i]

ToPhase(n, m, t) ==
  LET i == PhaseAt(m.scenario.timeline, t - m.started)
  IN  IF i \in {0, m.phase} THEN m
      ELSE [m EXCEPT !.phase = i,
                     !.readings = Readings(n, m.scenario,
                                           m.scenario.timeline[i].metrics)]

(* refreshExpired, for a time that was read before the lock.               *)
Refreshed(n, m, t) == IF Expired(m, t) THEN ToNormal(n, m) ELSE ToPhase(n, m, t)

(* The body of /metrics; wording and labels are left out.                  *)
ActiveMetrics(m) == IF m.phase = 0 THEN m.scenario.metrics
                                   ELSE m.scenario.timeline[m.phase].metrics
DefaultCount(m, f, default) == IF f \in DOMAIN m THEN m[f] ELSE default
Metrics(m) ==
  LET capacity == DefaultCount(ActiveMetrics(m), "gpu_capacity", 8)
  IN  [readings |-> m.readings, fabric |-> m.fabric, phase |-> m.phase,
       capacity |-> capacity,
       allocatable |-> DefaultCount(ActiveMetrics(m), "gpu_allocatable", capacity)]

---------------------------------------------------------------------------
NewModel(n) == ApplyAt(n, Normal, 0, now)
Idle == [r \in Readers |-> [at |-> "idle", time |-> 0]]
NoDoc == [rv |-> 0]

Init ==
  /\ now = 0 /\ crashes = 0
  /\ cm = NoDoc
  /\ model = [n \in Nodes |-> NewModel(n)]
  /\ poll = [n \in Nodes |-> NoDoc]
  /\ seen = [n \in Nodes |-> 0]
  /\ req = [n \in Nodes |-> Idle]

Tick == now < MaxTime /\ now' = now + 1
        /\ UNCHANGED <<cm, model, poll, seen, req, crashes>>

(* gpu scenario run marshals a valid document, with a generation of its    *)
(* own and its time.                                                       *)
Put(doc) ==
  /\ cm.rv < MaxPuts /\ Validate(doc)
  /\ cm' = [rv |-> cm.rv + 1, doc |-> doc, gen |-> cm.rv + 1, started |-> now]
  /\ UNCHANGED <<now, model, poll, seen, req, crashes>>

(* Someone edits the ConfigMap: the document is spoilt, or the generation  *)
(* and the time are gone, as in what older versions wrote.                 *)
Edit(doc) ==
  /\ cm # NoDoc /\ cm.rv < MaxPuts
  /\ \/ ~Validate(doc) /\ cm' = [cm EXCEPT !.rv = @ + 1, !.doc = doc]
     \/ cm' = [cm EXCEPT !.rv = @ + 1, !.gen = Unset, !.started = Unset]
  /\ UNCHANGED <<now, model, poll, seen, req, crashes>>

---------------------------------------------------------------------------
(* WatchConfigMap: a document that is refused, like a request that fails,  *)
(* changes nothing and is fetched again at the next tick.                  *)

Accepted(c) == /\ c # NoDoc /\ Validate(c.doc)
               /\ c.started # Unset \/ c.doc.timeline = <<>>
Generation(c) == IF c.gen = Unset THEN MaxPuts + c.rv ELSE c.gen

Fetch(n) ==
  /\ poll[n] = NoDoc /\ cm.rv # seen[n] /\ Accepted(cm)
  /\ poll' = [poll EXCEPT ![n] =
       [cm EXCEPT !.gen = Generation(cm),
                  !.started = IF @ = Unset THEN now ELSE @]]
  /\ UNCHANGED <<now, cm, model, seen, req, crashes>>

\* Mutant: the version is not recorded, and the document not applied.
Forget(n) ==
  /\ "doc" \in DOMAIN poll[n]
  /\ poll' = [poll EXCEPT ![n] = NoDoc] /\ seen' = [seen EXCEPT ![n] = poll[n].rv]
  /\ UNCHANGED <<now, cm, model, req, crashes>>

Commit(n) ==
  /\ "doc" \in DOMAIN poll[n]
  /\ model' = [model EXCEPT ![n] = ApplyAt(n, poll[n].doc, poll[n].gen, poll[n].started)]
  /\ poll' = [poll EXCEPT ![n] = [rv |-> poll[n].rv]]
  /\ seen' = [seen EXCEPT ![n] = poll[n].rv]
  /\ UNCHANGED <<now, cm, req, crashes>>

\* The generation that is logged is taken from a Snapshot, which refreshes.
LogApplied(n) ==
  /\ poll[n] # NoDoc /\ "doc" \notin DOMAIN poll[n]
  /\ poll' = [poll EXCEPT ![n] = NoDoc]
  /\ model' = [model EXCEPT ![n] = Refreshed(n, @, now)]
  /\ UNCHANGED <<now, cm, seen, req, crashes>>

---------------------------------------------------------------------------
(* Requests *)

At(n, r, place, time) == req' = [req EXCEPT ![n][r] = [at |-> place, time |-> time]]

(* /readyz asks IsUnavailable, /metrics asks it first, and /api/v1/state   *)
(* takes the Snapshot: each reads the clock, then locks and refreshes,     *)
(* then locks again and reads.                                             *)
Request(n, r) ==
  /\ req[n][r].at = "idle"
  /\ \E place \in {"available", "answer"} : At(n, r, place, now)
  /\ UNCHANGED <<now, cm, model, poll, seen, crashes>>

Refresh(n, r) ==
  /\ req[n][r].at \in {"available", "answer"}
  /\ model' = [model EXCEPT ![n] = Refreshed(n, @, req[n][r].time)]
  /\ At(n, r, IF req[n][r].at = "available" THEN "check" ELSE "read", req[n][r].time)
  /\ UNCHANGED <<now, cm, poll, seen, crashes>>

CheckFault(n, r) ==
  /\ req[n][r].at = "check"
  /\ \/ At(n, r, "idle", 0)                            \* /readyz, or 503
     \/ ~model[n].fault /\ At(n, r, "answer", now)     \* /metrics goes on
  /\ UNCHANGED <<now, cm, model, poll, seen, crashes>>

Read(n, r) ==
  /\ req[n][r].at = "read"
  /\ At(n, r, "idle", 0)
  /\ UNCHANGED <<now, cm, model, poll, seen, crashes>>

Crash(n) ==
  /\ crashes < MaxCrashes /\ crashes' = crashes + 1
  /\ model' = [model EXCEPT ![n] = NewModel(n)]
  /\ poll' = [poll EXCEPT ![n] = NoDoc]
  /\ seen' = [seen EXCEPT ![n] = 0]
  /\ req' = [req EXCEPT ![n] = Idle]
  /\ UNCHANGED <<now, cm>>

Serve(n, r) == Request(n, r) \/ Refresh(n, r) \/ CheckFault(n, r) \/ Read(n, r)

Next ==
  \/ Tick
  \/ \E doc \in Docs : Put(doc) \/ Edit(doc)
  \/ \E n \in Nodes : \/ Fetch(n) \/ Commit(n) \/ LogApplied(n) \/ Crash(n)
                      \/ \E r \in Readers : Serve(n, r)

Spec == Init /\ [][Next]_vars

(* The pollers tick.  Nobody has to ask.                                   *)
Fairness == \A n \in Nodes : WF_vars(Fetch(n) \/ Commit(n) \/ LogApplied(n))
FairSpec == Spec /\ Fairness

---------------------------------------------------------------------------
TypeOK ==
  /\ now \in 0..MaxTime /\ crashes \in 0..MaxCrashes
  /\ cm = NoDoc \/ /\ cm.rv \in 1..MaxPuts /\ cm.doc \in Docs
                   /\ cm.gen \in 1..MaxPuts \cup {Unset}
                   /\ cm.started \in 0..MaxTime \cup {Unset}
  /\ \A n \in Nodes :
       /\ model[n].scenario \in Docs \cup {Normal}
       /\ model[n].phase \in 0..Len(model[n].scenario.timeline)
       /\ seen[n] \in 0..MaxPuts
       /\ \A r \in Readers :
            /\ req[n][r].at \in {"idle", "available", "check", "answer", "read"}
            /\ req[n][r].time \in 0..now

(* Whatever readers and the poller do to the model at the same time, what  *)
(* it holds is one view: the readings, capacity and fabric all belong to   *)
(* the scenario and the phase it names, and only an accepted scenario is   *)
(* ever in it; and every variable has its type.                            *)
ModelIsOneView ==
  /\ TypeOK
  /\ \A n \in Nodes :
       LET m == model[n] view == ActiveMetrics(m)
       IN  /\ Validate(m.scenario)
           /\ Metrics(m).readings = Readings(n, m.scenario, view)
           /\ Metrics(m).capacity =
                (IF "gpu_capacity" \in DOMAIN view THEN view["gpu_capacity"] ELSE 8)
           /\ m.fabric = FabricReading(m.scenario)
           /\ m.fault = HasAction(m.scenario, "exporter_fault")

(* What a published scenario shows now, by its document and its start.     *)
Due(c) == {i \in DOMAIN c.doc.timeline : c.doc.timeline[i].at <= now - c.started}
Over(c) == c.doc.duration # Unset /\ now - c.started >= c.doc.duration

(* An exporter that has taken a published scenario shows it by the clock   *)
(* of the ConfigMap, whenever it polled and however often it restarted:    *)
(* the fault until the duration is over and not after, the phase that is   *)
(* due (ApplyAt "anchors timelines and expiration to a shared ConfigMap    *)
(* timestamp").  So all the nodes agree.                                   *)
ShownByTheClock ==
  \A n \in Nodes :
    Accepted(cm) /\ model[n].gen = cm.gen =>
      LET view == Refreshed(n, model[n], now)
          here == SelectorMatches(n, cm.doc.targets.selector) /\ ~Over(cm)
      IN  /\ view.scenario = (IF here THEN cm.doc ELSE Normal)
          /\ view.fault <=> here /\ HasAction(cm.doc, "exporter_fault")
          /\ view.phase = (IF here /\ Due(cm) # {}
                           THEN CHOOSE i \in Due(cm) : \A j \in Due(cm) : j <= i
                           ELSE 0)

(* When the ConfigMap comes to rest with an accepted document, all the     *)
(* exporters come to it, also those that restart, and also after documents *)
(* that were refused (the version is recorded only after the apply).       *)
EventuallyApplied ==
  <>[](Accepted(cm) => \A n \in Nodes : model[n].gen = Generation(cm))

(* A refused document leaves what was shown: the model changes its         *)
(* generation only to the one of a document it accepted.                   *)
LastGoodStays ==
  [][\A n \in Nodes : model'[n].gen # model[n].gen /\ crashes' = crashes =>
       /\ "doc" \in DOMAIN poll[n] /\ model'[n].gen = poll[n].gen
       /\ Validate(poll[n].doc)]_vars

(* The exporter follows the documents it accepts, and only those.          *)
FollowsAccepted == EventuallyApplied /\ LastGoodStays
=============================================================================
