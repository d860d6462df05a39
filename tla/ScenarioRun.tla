----------------------------- MODULE ScenarioRun -----------------------------
(***************************************************************************)
(* gpu scenario run and gpu scenario reset (applyScenario): the Pods of    *)
(* all scenarios are deleted, the ConfigMap is written, the workloads of   *)
(* the scenario are created one after the other, some awaited, and the     *)
(* training job is synchronized, whose failure is ignored.  A call may     *)
(* fail, with or without its effect, and the command may be killed.        *)
(***************************************************************************)
EXTENDS Integers, Sequences, FiniteSets

CONSTANTS
  Terminals,
  Scenarios, Normal,
  Actions,                 \* of each scenario: workloads [name, gpus, node, wait]
  FabricFaults,            \* scenarios that are a fault of the fabric
  Nodes, Anywhere,         \* Anywhere: a workload without a node selector
  Capacity,                \* GPUs of a node
  MaxCommands, MaxTrouble, MaxJobs   \* BOUNDS

Workloads == UNION {{Actions[s][i] : i \in DOMAIN Actions[s]} : s \in Scenarios}
Names == {w.name : w \in Workloads}
Of(s) == {Actions[s][i].name : i \in DOMAIN Actions[s]}
Workload(n) == CHOOSE w \in Workloads : w.name = n

ASSUME ScenarioRunAssumption ==
  /\ Normal \in Scenarios /\ FabricFaults \subseteq Scenarios
  /\ Actions[Normal] = <<>> /\ Normal \notin FabricFaults
  /\ Anywhere \notin Nodes /\ {MaxCommands, MaxTrouble, MaxJobs, Capacity} \subseteq Nat
  /\ Actions \in [Scenarios -> Seq(Workloads)]
  /\ \A s, u \in Scenarios : s # u => Of(s) \cap Of(u) = {}
  /\ \A v, w \in Workloads : v.name = w.name => v = w
  /\ IsFiniteSet(Scenarios) /\ \A w \in Workloads : w.gpus \in Nat

VARIABLES
  pods, place,        \* the state of the Pod of each name, and its node
  configMap,          \* the scenario of the ConfigMap
  job, fabric,        \* the training job is deployed, its fabric mode
  taken,              \* GPUs of other Pods
  command,            \* what each terminal runs
  calm,               \* nothing has disturbed the command of a terminal
  commands, trouble, jobs

cluster == <<pods, place, configMap, job, fabric, taken>>
bounds  == <<commands, trouble, jobs>>
vars    == <<cluster, command, calm, bounds>>

Fresh(pc, s) == [pc |-> pc, result |-> "none", scenario |-> s, step |-> 1,
                 waiting |-> {}]

Init ==
  /\ pods = [n \in Names |-> "absent"] /\ place = [n \in Names |-> Anywhere]
  /\ configMap = Normal /\ job = FALSE /\ fabric = "normal"
  /\ taken = [n \in Nodes |-> 0]
  /\ command = [t \in Terminals |-> Fresh("idle", Normal)] /\ calm = [t \in Terminals |-> TRUE]
  /\ commands = 0 /\ trouble = 0 /\ jobs = 0

---------------------------------------------------------------------------
(* Commands *)

Trouble == trouble < MaxTrouble /\ trouble' = trouble + 1
           /\ calm' = [t \in Terminals |-> FALSE]
Smooth  == UNCHANGED <<trouble, calm>>

End(t, result) == command' = [command EXCEPT ![t].pc = "idle", ![t].result = result,
                                             ![t].waiting = {}]
Goes(t, pc)    == command' = [command EXCEPT ![t].pc = pc]

\* The call had its effect: it is known to have, or it is not.
Then(t, pc) == (Goes(t, pc) /\ Smooth) \/ (End(t, "failed") /\ Trouble)

Start(t, s) ==
  /\ command[t].pc = "idle" /\ commands < MaxCommands
  /\ commands' = commands + 1
  /\ command' = [command EXCEPT ![t] = Fresh("delete", s)]
  /\ calm' = [calm EXCEPT ![t] = \A node \in Nodes : taken[node] = 0]
  /\ UNCHANGED <<cluster, trouble, jobs>>

\* Mutants: Pods that do not run are not selected; the deletion is not awaited;
\* Pods that do not exist are awaited.
OnlyRunning == {n \in Names : pods[n] \in {"running", "terminating"}}
Forgets(t) == command' = [command EXCEPT ![t].pc = "publish"]
WaitsForAll(t) == command' = [command EXCEPT ![t].pc = "gone", ![t].waiting = Names]

Selected == {n \in Names : pods[n] # "absent"}

AwaitsDeletion(t) ==
  command' = [command EXCEPT ![t].pc = "gone", ![t].waiting = Selected]

Terminating(S) == pods' = [n \in Names |-> IF n \in S \cap Selected THEN "terminating"
                                                                ELSE pods[n]]

\* DeleteScenarioPods; when it fails, it may have come to some Pods only.
DeletePods(t) ==
  /\ command[t].pc = "delete"
  /\ \/ Terminating(Names) /\ AwaitsDeletion(t) /\ Smooth
     \/ \E S \in SUBSET Selected : Terminating(S) /\ End(t, "failed") /\ Trouble
  /\ UNCHANGED <<place, configMap, job, fabric, taken, commands, jobs>>

PodsGone(t) ==
  /\ command[t].pc = "gone" /\ command[t].waiting = {}
  /\ Goes(t, "publish") /\ Smooth
  /\ UNCHANGED <<cluster, commands, jobs>>

Publish(t) ==
  /\ command[t].pc = "publish"
  /\ configMap' = command[t].scenario /\ Then(t, "workload")
  /\ UNCHANGED <<pods, place, job, fabric, taken, commands, jobs>>

Remaining(t) == command[t].step <= Len(Actions[command[t].scenario])
Action(t)    == Actions[command[t].scenario][command[t].step]
NextStep(t)  == command' = [command EXCEPT ![t].pc = "workload", ![t].step = @ + 1]

\* Mutant: no workload is awaited.
NeverWaits(t) == NextStep(t)

AwaitsReady(t) == IF Action(t).wait THEN Goes(t, "ready") ELSE NextStep(t)

\* Applying a Pod that exists, be it terminating, changes nothing.
ApplyWorkload(t) ==
  /\ command[t].pc = "workload" /\ Remaining(t)
  /\ pods' = [pods EXCEPT ![Action(t).name] = IF @ = "absent" THEN "pending" ELSE @]
  /\ (AwaitsReady(t) /\ Smooth) \/ (End(t, "failed") /\ Trouble)
  /\ UNCHANGED <<place, configMap, job, fabric, taken, commands, jobs>>

PodReady(t) ==
  /\ command[t].pc = "ready" /\ pods[Action(t).name] = "running"
  /\ NextStep(t) /\ Smooth
  /\ UNCHANGED <<cluster, commands, jobs>>

\* Mutant: a scenario that is no fabric fault leaves the training job as it is.
OnlyFaults(s) == IF s \in FabricFaults THEN "fault" ELSE fabric

Dropped(t) == End(t, "ok")

FabricControlForScenario(s) == IF s \in FabricFaults THEN "fault" ELSE "normal"

\* SyncScenarioControl, which does nothing where no job is, or when it fails.
Sync(t) ==
  /\ command[t].pc = "workload" /\ ~Remaining(t)
  /\ Dropped(t)
  /\ \/ /\ fabric' = IF job THEN FabricControlForScenario(command[t].scenario) ELSE fabric
        /\ Smooth
     \/ UNCHANGED fabric /\ Trouble
  /\ UNCHANGED <<pods, place, configMap, job, taken, commands, jobs>>

\* A call that fails without an effect, a wait that ends, or Ctrl-C.
Refused(t) ==
  /\ command[t].pc # "idle"
  /\ command[t].pc = "workload" => Remaining(t)
  /\ End(t, "failed") /\ Trouble
  /\ UNCHANGED <<cluster, commands, jobs>>

Killed(t) ==
  /\ command[t].pc # "idle" /\ End(t, "killed") /\ Trouble
  /\ UNCHANGED <<cluster, commands, jobs>>

---------------------------------------------------------------------------
(* The cluster *)

\* The GPUs of Pods, one by one.
Units(S) == UNION {{n} \X (1..Workload(n).gpus) : n \in S}

Held(node) == taken[node] + Cardinality(Units({n \in Names : place[n] = node}))
Fits(n, node) ==
  /\ Workload(n).node \in {node, Anywhere}
  /\ Held(node) + Workload(n).gpus <= Capacity

\* The scheduler binds a Pod, which then runs.
Schedule(n) ==
  /\ pods[n] = "pending"
  /\ \E node \in Nodes : Fits(n, node) /\ place' = [place EXCEPT ![n] = node]
  /\ pods' = [pods EXCEPT ![n] = "running"]
  /\ UNCHANGED <<configMap, job, fabric, taken, command, calm, bounds>>

Gone(n) ==
  /\ pods[n] = "terminating"
  /\ pods' = [pods EXCEPT ![n] = "absent"] /\ place' = [place EXCEPT ![n] = Anywhere]
  /\ command' = [t \in Terminals |->
                   [command[t] EXCEPT !.waiting = command[t].waiting \ {n}]]
  /\ UNCHANGED <<configMap, job, fabric, taken, calm, bounds>>

\* WaitForScenarioPod fails after its two minutes on a Pod that cannot run.
WaitTimesOut(t) ==
  /\ command[t].pc = "ready"
  /\ \/ pods[Action(t).name] \in {"absent", "terminating"}
     \/ pods[Action(t).name] = "pending" /\ \A m \in Nodes : ~Fits(Action(t).name, m)
  /\ End(t, "failed")
  /\ UNCHANGED <<cluster, calm, bounds>>

\* A user's own Pod takes GPUs of a node, or leaves.
OtherPod(node) ==
  /\ Trouble
  /\ taken' = [taken EXCEPT ![node] = IF @ = 0 THEN 2 ELSE 0]
  /\ Held(node) + taken'[node] - taken[node] <= Capacity
  /\ UNCHANGED <<pods, place, configMap, job, fabric, command, commands, jobs>>

\* gpu training run and gpu training reset.
Deploy ==
  /\ jobs < MaxJobs /\ jobs' = jobs + 1
  /\ job' \in BOOLEAN /\ fabric' = "normal"
  /\ UNCHANGED <<pods, place, configMap, taken, command, calm, commands, trouble>>

---------------------------------------------------------------------------
Step(t) == \/ DeletePods(t) \/ PodsGone(t) \/ Publish(t) \/ ApplyWorkload(t)
           \/ PodReady(t) \/ Sync(t) \/ WaitTimesOut(t)

Next ==
  \/ \E t \in Terminals : (\E s \in Scenarios : Start(t, s)) \/ Step(t)
                          \/ Refused(t) \/ Killed(t)
  \/ \E n \in Names : Schedule(n) \/ Gone(n)
  \/ \E node \in Nodes : OtherPod(node)
  \/ Deploy

Spec == Init /\ [][Next]_vars

\* A command goes on when it can; the scheduler and the kubelets work.
Fairness == /\ \A t \in Terminals : WF_vars(Step(t))
            /\ \A n \in Names : WF_vars(Schedule(n)) /\ WF_vars(Gone(n))
FairSpec == Spec /\ Fairness

---------------------------------------------------------------------------
Ended(t, result) == command[t].pc = "idle" /\ command[t].result = result

\* Every variable has its type, and a command waits for Pods that will go.
TypeOK ==
  /\ pods \in [Names -> {"absent", "pending", "running", "terminating"}]
  /\ place \in [Names -> Nodes \cup {Anywhere}] /\ configMap \in Scenarios
  /\ job \in BOOLEAN /\ fabric \in {"normal", "fault"}
  /\ \A t \in Terminals :
       /\ command[t].pc \in {"idle", "delete", "gone", "publish", "workload", "ready"}
       /\ command[t].result \in {"none", "ok", "failed", "killed"}
       /\ command[t].scenario \in Scenarios
       /\ \A n \in command[t].waiting : pods[n] = "terminating"

\* With one command at a time a Pod that is not about to go is one of the scenario
\* that the ConfigMap names, at every moment, wherever earlier commands stopped.
PodsOfConfigMap ==
  \A n \in Names : pods[n] \in {"pending", "running"} => n \in Of(configMap)

\* A scenario that was reported as applied is there whole: its ConfigMap, all of
\* its Pods, none that is about to go, and those that were awaited run.
AppliedIsWhole ==
  \A t \in Terminals : Ended(t, "ok") =>
    /\ configMap = command[t].scenario
    /\ \A n \in Of(configMap) :
         pods[n] = "running" \/ (pods[n] = "pending" /\ ~Workload(n).wait)
    /\ \A n \in Names \ Of(configMap) : pods[n] = "absent"

\* The workloads of s before its step j that are awaited on node, and that they leave
\* no node to a workload that is not awaited (scenarios/*.yaml).
Before(s, j, node) ==
  {Actions[s][i].name : i \in {k \in 1..(j - 1) : Actions[s][k].wait /\ Actions[s][k].node = node}}
Crowded ==
  \A s \in Scenarios : \A j \in DOMAIN Actions[s] : ~Actions[s][j].wait =>
    \A node \in Nodes : Actions[s][j].node \in {node, Anywhere} =>
      Cardinality(Units(Before(s, j, node))) + Actions[s][j].gpus > Capacity

\* A workload that is awaited finds a node with room, wherever the awaited ones before
\* it are (scenarios/*.yaml).
Beside(s, j, node) == Before(s, j, node) \cup Before(s, j, Anywhere)
Roomy ==
  \A s \in Scenarios : \A j \in DOMAIN Actions[s] : Actions[s][j].wait =>
    \E node \in Nodes :
      /\ Actions[s][j].node \in {node, Anywhere}
      /\ Cardinality(Units(Beside(s, j, node))) + Actions[s][j].gpus <= Capacity

\* A Pod that is to stay pending behind the ones before it, as the last of
\* gpu-fragmentation, does so when the scenario was reported as applied.
VerdictStays ==
  \A t \in Terminals : Ended(t, "ok") =>
    \A n \in Of(configMap) : ~Workload(n).wait => pods[n] # "running"

\* A command that nothing disturbs succeeds, whatever the commands before it have
\* left and although there may be no training job.
CalmSucceeds ==
  \A t \in Terminals : command[t].pc = "idle" /\ calm[t] /\ command[t].result # "none"
                       => command[t].result = "ok"

\* Training suffers from a fault of the fabric only while its scenario is applied,
\* unless a call failed.
FaultEndsWithScenario ==
  \A t \in Terminals : Ended(t, "ok") /\ calm[t] /\ fabric = "fault"
                       => configMap \in FabricFaults

\* Every command comes to an end.
CommandEnds == \A t \in Terminals : command[t].pc # "idle" ~> command[t].pc = "idle"

\* Every command comes to an end, and one that nothing disturbs to a good one.
CommandsSucceed == []CalmSucceeds /\ CommandEnds
=============================================================================
