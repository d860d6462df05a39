----------------------------- MODULE ScenarioInputs -----------------------------
(***************************************************************************)
(* Documents for ScenarioRules: every combination of the parts below, and  *)
(* timelines under a clock.                                                *)
(***************************************************************************)
EXTENDS ScenarioRules, FiniteSets, FiniteSetsExt

VARIABLES draft, elapsed
draftVars == <<draft, elapsed>>

Bare == [f \in {} |-> 0]
AnyNode == [k \in {} |-> ""]
Target(selector, gpus) == [selector |-> selector, gpus |-> gpus]
PhaseStep(phase, at, m) == [phase |-> phase, at |-> at, metrics |-> m]
Action(type, count) == [type |-> type, mode |-> "unavailable", count |-> count,
                        name |-> TRUE, selector |-> AnyNode]
Warm == [temperature_celsius |-> 90]
Steps(a, b, c, d, m) ==
  <<PhaseStep("baseline", a, Bare), PhaseStep("warning", b, Warm),
    PhaseStep("critical", c, m), PhaseStep("recovery", d, Bare)>>

\* Neutral, and accepted.
Plain == [identity |-> "ok", duration |-> Unset, timeline |-> <<>>,
          targets |-> Target(AnyNode, <<>>), metrics |-> Bare,
          actions |-> <<>>]

---------------------------------------------------------------------------
(* Documents *)

DurationChoices == {Unset, Unparsed, 0, 3, 4}
MetricChoices == {Bare, Warm,
            [gpu_utilization_percent |-> 100, health |-> 0],
            [gpu_memory_used_percent |-> 101], [gpu_capacity |-> 0],
            [gpu_allocatable |-> 0], [ib_state |-> "DOWN", ib_port_up |-> 0],
            [ib_physical_state |-> "GONE"], [rdma_retries_total |-> -1],
            [ib_link_rate_gbps |-> Infinity], [fabric_delay_seconds |-> 0],
            [power_watts |-> Infinity, gpu_utilization_percent |-> NaN]}
Selectors == {AnyNode, [node |-> "gpu-node-01"], [node |-> ""]}
TargetChoices == {Target(s, g) : s \in Selectors, g \in {<<>>, <<0, 3>>, <<1, 1>>}}
             \cup {Target(AnyNode, <<-1>>)}
TimelineChoices == {<<>>, SubSeq(Steps(0, 1, 2, 3, Warm), 1, 3)} \cup
  {Steps(0, 1, 2, 3, m) : m \in {Warm, Bare, [gpu_capacity |-> 4],
                                  [ib_port_up |-> 0], [xid_code |-> -1]}}
ActionChoices == {<<>>} \cup
  {<<Action(t, n)>> : t \in {"exporter_fault", "create_gpu_workload",
                            "create_pending_workload", "reboot"}, n \in {0, 2}}

\* Every combination of the parts, of which most are refused.
Drafts ==
  [identity: {"ok", "name"}, duration: DurationChoices, targets: TargetChoices,
   timeline: TimelineChoices, metrics: MetricChoices, actions: ActionChoices]

Offsets == {-1, 0, 1, 2, 3, 4, Unparsed}
TimedDrafts ==
  {[Plain EXCEPT !.timeline = Steps(a, b, c, d, Warm), !.duration = last] :
     a, b, c, d \in Offsets, last \in {Unset, 3, 5}}

\* The drafts at the end of the time, and the timed ones from before the start.
End == 6
DraftInit == \/ elapsed = End /\ draft \in Drafts
             \/ elapsed = -2 /\ draft \in TimedDrafts
TimeGoesOn == elapsed' = elapsed + 1 /\ UNCHANGED draft
Elapse == elapsed < End /\ TimeGoesOn

---------------------------------------------------------------------------
(* What a document can show: the metrics of the document or of a phase.    *)
Views(d) == {d.metrics} \cup {d.timeline[i].metrics : i \in DOMAIN d.timeline}

(* Any document: its times and its numbers are numbers, of which those     *)
(* that are floats may be .nan.                                            *)
Texts == DOMAIN States \cup {"throttle_reason"}
Floats == Percents \cup {"temperature_celsius", "power_watts", "ib_link_rate_gbps",
                         "fabric_delay_seconds"}
IsDocument(d) ==
  /\ d.duration \in Int
  /\ DOMAIN d.timeline = 1..Len(d.timeline)
  /\ \A i \in DOMAIN d.timeline : d.timeline[i].at \in Int
  /\ \A m \in Views(d) : \A f \in DOMAIN m \ Texts :
       m[f] \in Int /\ (m[f] = NaN => f \in Floats)

(* .nan is neither below a range nor above it.                             *)
Within(f, v) ==
  \/ f \in Percents \cup {"temperature_celsius", "power_watts"} /\ v = NaN
  \/ /\ f \in Percents => v \in 0..100
     /\ f \in Flags => v \in 0..1
     /\ f \in Positive \cup {"ib_link_rate_gbps"} => v \in Nat \ {0}
     /\ f \in NonNegative \cup {"fabric_delay_seconds"} => v \in Nat
     /\ f \in {"ib_link_rate_gbps", "fabric_delay_seconds"} => v # Infinity
     /\ f \in DOMAIN States => v \in States[f]

(* A document that names GPUs changes nothing of the whole node, in no     *)
(* phase and by no action (validateMetricTargets and validateActions are   *)
(* called at different places for a plain and for a staged document).      *)
GPUsNeverChangeTheNode ==
  Validate(draft) /\ draft.targets.gpus # <<>> =>
    /\ \A m \in Views(draft) : DOMAIN m \cap (Capacity \cup Fabric) = {}
    /\ ~HasAction(draft, "exporter_fault")

(* A staged scenario always comes back: it ends without overrides, in a    *)
(* phase that begins before the scenario expires, and no fault or workload *)
(* outlives its phases.                                                    *)
StagedComesBack ==
  Validate(draft) /\ draft.timeline # <<>> =>
    /\ elapsed >= draft.timeline[4].at =>
         Empty(draft.timeline[PhaseAt(draft.timeline, elapsed)].metrics)
    /\ draft.duration # Unset => PhaseAt(draft.timeline, draft.duration - 1) = 4
    /\ draft.actions = <<>>

(* No view of an accepted document has a value outside of its range        *)
(* ("validate enforces the value ranges of every supported override        *)
(* field").                                                                *)
RangesHold ==
  Validate(draft) => \A m \in Views(draft) : \A f \in DOMAIN m : Within(f, m[f])

(* For an accepted timeline the phase is the last one whose offset has     *)
(* come, and there always is one, also before the start.                   *)
PhaseIsLastReached ==
  Validate(draft) /\ draft.timeline # <<>> =>
    LET due == {i \in 1..4 : draft.timeline[i].at <= (IF elapsed < 0 THEN 0 ELSE elapsed)}
    IN  due # {} /\ PhaseAt(draft.timeline, elapsed) = Max(due)

(* As time passes the phases come one after the other and none comes back. *)
PhasesInOrder ==
  [][Validate(draft) =>
       PhaseAt(draft.timeline, elapsed') \in
         {PhaseAt(draft.timeline, elapsed), PhaseAt(draft.timeline, elapsed) + 1}]_draftVars

(* What Validate accepts can be played: it keeps to its ranges and to its  *)
(* GPUs, comes back, and is in one phase after the other.                  *)
AcceptedIsSound ==
  /\ [](GPUsNeverChangeTheNode /\ StagedComesBack /\ RangesHold /\ PhaseIsLastReached)
  /\ PhasesInOrder
=============================================================================
