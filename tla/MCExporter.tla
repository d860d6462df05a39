----------------------------- MODULE MCExporter -----------------------------
(***************************************************************************)
(* The exporters of a lab, and the rules for the documents they accept.    *)
(* A behaviour is about one of them; the variables of the others stay.     *)
(***************************************************************************)
EXTENDS Exporter, ScenarioInputs

VARIABLE subject

OneNode == {"gpu-lab-worker"}

Sel(id) == [node_id |-> id]
Fault == [Normal EXCEPT
  !.targets.selector = Sel("gpu-node-01"), !.duration = 2,
  !.actions = <<[type |-> "exporter_fault", mode |-> "unavailable", count |-> 0,
                 name |-> FALSE, selector |-> [k \in {} |-> ""]]>>]
Hot == [temperature_celsius |-> 90, throttle_active |-> 1]
Staged == [Normal EXCEPT
  !.duration = 4,
  !.timeline = <<[phase |-> "baseline", at |-> 0, metrics |-> NoMetrics],
                 [phase |-> "warning", at |-> 1, metrics |-> Hot],
                 [phase |-> "critical", at |-> 2, metrics |-> [gpu_capacity |-> 4]],
                 [phase |-> "recovery", at |-> 3, metrics |-> NoMetrics]>>]
Busy == [Normal EXCEPT
  !.targets.gpus = <<1>>, !.metrics = [gpu_allocated_count |-> 2, xid_code |-> 79],
  !.actions = <<[type |-> "create_gpu_workload", mode |-> "", count |-> 2,
                 name |-> TRUE, selector |-> Sel("gpu-node-02")]>>]
Elsewhere == [Fault EXCEPT !.targets.selector = Sel("gpu-node-02")]
Bad == [Normal EXCEPT !.metrics = [health |-> 2]]

AllDocs == {Fault, Elsewhere, Staged, Busy, Bad}

---------------------------------------------------------------------------
MCInit ==
  /\ Init
  /\ \/ subject = "exporter" /\ draft = Plain /\ elapsed = End
     \/ subject = "rules" /\ DraftInit

(* BOUND: two requests are served at a time until an exporter crashes, a   *)
(* second document comes or the clock stops, and one at a time from then   *)
(* on; an exporter crashes in the first half of the time.                  *)
Narrow ==
  /\ crashes' > 0 \/ cm'.rv > 1 \/ now' = MaxTime =>
       \A n \in Nodes : Cardinality({r \in Readers : req'[n][r].at # "idle"}) <= 1
  /\ crashes' # crashes => now <= MaxTime \div 2

MCNext ==
  /\ UNCHANGED subject
  /\ \/ subject = "exporter" /\ Next /\ Narrow /\ UNCHANGED draftVars
     \/ subject = "rules" /\ Elapse /\ UNCHANGED vars

MCSpec == MCInit /\ [][MCNext]_<<vars, draftVars, subject>> /\ Fairness
=============================================================================
