---------------------------- MODULE ScenarioRules ----------------------------
(***************************************************************************)
(* The scenario document (internal/scenario): what Validate accepts, and   *)
(* the phase of a staged scenario at a time.                               *)
(*                                                                         *)
(* A document is a record.  Its metrics are a function from the fields it  *)
(* sets to their values, its timeline a sequence of steps, empty when the  *)
(* document has none, its selector a function.  Numbers stand for          *)
(* themselves, and a string for itself only where it is compared; an       *)
(* identity is "ok" or the part of it that is wrong.                       *)
(***************************************************************************)
EXTENDS Integers, Sequences

Unparsed == -99        \* a duration that time.ParseDuration refuses
Unset == -98           \* no duration
NaN == -97             \* .nan, which YAML has for a float
Infinity == 1000000    \* .inf, more than any number here

---------------------------------------------------------------------------
(* The metric fields and their ranges *)

Percents == {"gpu_utilization_percent", "gpu_memory_used_percent"}
Capacity == {"gpu_capacity", "gpu_allocatable"}
Counters == {"ib_tx_bytes_total", "ib_rx_bytes_total", "ib_symbol_errors_total",
             "ib_link_error_recovery_total", "ib_link_downed_total",
             "ib_xmit_discards_total", "ib_xmit_wait_total",
             "rdma_retries_total", "rdma_timeouts_total"}
Fabric == Counters \cup {"ib_port_up", "ib_state", "ib_physical_state",
                         "ib_link_rate_gbps", "fabric_delay_seconds"}
Flags == {"health", "throttle_active", "ib_port_up"}
Positive == {"gpu_memory_total_bytes", "gpu_capacity"}
NonNegative == Counters \cup
  {"temperature_celsius", "power_watts", "xid_code", "ecc_dbe_total",
   "power_violation_total", "pcie_replay_total", "gpu_allocated_count",
   "gpu_allocatable"}
States == [ib_state |-> {"ACTIVE", "DOWN", "INIT", "ARMED"},
           ib_physical_state |-> {"LINK_UP", "DISABLED", "POLLING"}]

\* No comparison with NaN is true.
Less(a, b) == a # NaN /\ b # NaN /\ a < b
IsFinite(v) == v \notin {NaN, Infinity, -Infinity}

\* validate refuses what it finds outside of a range.
InRange(f, v) ==
  /\ f \in Percents => ~Less(v, 0) /\ ~Less(100, v)
  /\ f \in Positive => v > 0
  /\ f \in NonNegative => ~Less(v, 0)
  /\ f \in Flags => v \in {0, 1}
  /\ f \in DOMAIN States => v \in States[f]
  /\ f = "ib_link_rate_gbps" => IsFinite(v) /\ v > 0
  /\ f = "fabric_delay_seconds" => IsFinite(v) /\ v >= 0

MetricsValid(m) == \A f \in DOMAIN m : InRange(f, m[f])

Empty(m) == DOMAIN m = {}
HasFabricOverrides(m) == DOMAIN m \cap Fabric # {}

---------------------------------------------------------------------------
(* Targets and actions *)

SelectorValid(s) == \A k \in DOMAIN s : k # "" /\ s[k] # ""

TargetsValid(t) ==
  /\ SelectorValid(t.selector)
  /\ \A i \in DOMAIN t.gpus : t.gpus[i] >= 0
  /\ \A i, j \in DOMAIN t.gpus : t.gpus[i] = t.gpus[j] => i = j

\* Mutant: only the capacity of the node is protected.
OnlyCapacity(t, m) == t.gpus # <<>> => DOMAIN m \cap Capacity = {}

MetricTargetsValid(t, m) ==
  t.gpus # <<>> => DOMAIN m \cap Capacity = {} /\ ~HasFabricOverrides(m)

ActionValid(a, t) ==
  \/ a.type = "exporter_fault" /\ t.gpus = <<>> /\ a.mode = "unavailable"
  \/ a.type = "create_pending_workload" /\ a.count > 0
  \/ /\ a.type = "create_gpu_workload" /\ a.name /\ a.count > 0
     /\ SelectorValid(a.selector)

HasAction(doc, type) == \E i \in DOMAIN doc.actions : doc.actions[i].type = type
FirstAction(doc, type) ==
  LET i == CHOOSE i \in DOMAIN doc.actions :
             /\ doc.actions[i].type = type
             /\ \A j \in 1..(i - 1) : doc.actions[j].type # type
  IN  doc.actions[i]

---------------------------------------------------------------------------
(* The timeline *)

Phases == <<"baseline", "warning", "critical", "recovery">>
Quiet == {"baseline", "recovery"}

StepMetricsValid(t, step) ==
  /\ Empty(step.metrics) <=> step.phase \in Quiet
  /\ ~HasFabricOverrides(step.metrics)
  /\ MetricsValid(step.metrics)
  /\ MetricTargetsValid(t, step.metrics)

OffsetsValid(tl) ==
  /\ Len(tl) = 4
  /\ \A i \in 1..4 : tl[i].at # Unparsed
  /\ tl[1].at = 0
  /\ \A i \in 2..4 : tl[i].at > tl[i - 1].at

TimelineValid(doc) ==
  /\ OffsetsValid(doc.timeline)
  /\ Empty(doc.metrics) /\ doc.actions = <<>>
  /\ \A i \in 1..4 : /\ doc.timeline[i].phase = Phases[i]
                     /\ StepMetricsValid(doc.targets, doc.timeline[i])
  /\ doc.duration > 0 => doc.duration > doc.timeline[4].at

(* The loop over the steps stops at the first one not yet reached.         *)
LastReached(tl, elapsed) ==
  CHOOSE i \in 0..Len(tl) :
    /\ \A j \in 1..i : tl[j].at <= elapsed
    /\ i = Len(tl) \/ tl[i + 1].at > elapsed

(* The step that is active, 0 for none; before the start it is the first.  *)
PhaseAt(tl, elapsed) ==
  IF \E i \in DOMAIN tl : tl[i].at = Unparsed
  THEN 0
  ELSE LastReached(tl, IF elapsed < 0 THEN 0 ELSE elapsed)

---------------------------------------------------------------------------
Validate(doc) ==
  /\ doc.identity = "ok"
  /\ doc.duration = Unset \/ (doc.duration # Unparsed /\ doc.duration > 0)
  /\ TargetsValid(doc.targets)
  /\ doc.timeline # <<>> => TimelineValid(doc)
  /\ MetricsValid(doc.metrics)
  /\ MetricTargetsValid(doc.targets, doc.metrics)
  /\ \A i \in DOMAIN doc.actions : ActionValid(doc.actions[i], doc.targets)
=============================================================================
