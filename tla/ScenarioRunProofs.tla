-------------------------- MODULE ScenarioRunProofs --------------------------
(***************************************************************************)
(* Proofs about ScenarioRun, for any scenarios, workloads and nodes and    *)
(* any number of commands and failures: the types, for any number of       *)
(* terminals, and for commands that run one at a time that the Pods are    *)
(* those of the ConfigMap, that a scenario reported as applied is there    *)
(* whole with the verdict it is about, that a fault of the fabric ends     *)
(* with its scenario, and that a command that nothing disturbs succeeds.   *)
(* And about ControlDocument, for any number of edits and commands: what   *)
(* its three readers agree on.                                             *)
(***************************************************************************)
EXTENDS ScenarioCommands, FiniteSetTheorems, TLAPS

Places  == {"idle", "delete", "gone", "publish", "workload", "ready"}
Results == {"none", "ok", "failed", "killed"}
Commands == [pc : Places, result : Results, scenario : Scenarios, step : Nat \ {0},
             waiting : SUBSET Names]

\* What is not about a command.
ClusterType == /\ pods \in [Names -> {"absent", "pending", "running", "terminating"}]
               /\ place \in [Names -> Nodes \cup {Anywhere}] /\ configMap \in Scenarios
               /\ job \in BOOLEAN /\ fabric \in {"normal", "fault"}
               /\ calm \in [Terminals -> BOOLEAN]
CommandType == command \in [Terminals -> Commands]

\* A command waits for Pods that are about to go.
Waits == \A t \in Terminals : \A n \in command[t].waiting : pods[n] = "terminating"

Types == ClusterType /\ CommandType /\ Waits

-----------------------------------------------------------------------------
(* What a command becomes *)

LEMMA EndType ==
  ASSUME CommandType, NEW t \in Terminals, NEW result \in Results, End(t, result)
  PROVE  /\ CommandType'
         /\ command'[t].pc = "idle" /\ command'[t].result = result
         /\ command'[t].scenario = command[t].scenario /\ command'[t].waiting = {}
         /\ command'[t].step = command[t].step
         /\ \A u \in Terminals : u # t => command'[u] = command[u]
<1>1. command[t] \in Commands
  BY DEF CommandType
<1>2. command'[t] = [command[t] EXCEPT !.pc = "idle", !.result = result, !.waiting = {}]
  BY DEF End, CommandType
<1>3. \A u \in Terminals : u # t => command'[u] = command[u]
  BY DEF End, CommandType
<1>4. command' \in [Terminals -> Commands]
  <2>1. command'[t] \in Commands
    BY <1>1, <1>2 DEF Commands, Places, Results
  <2>2. \E v : command' = [command EXCEPT ![t] = v]
    BY DEF End
  <2>3. QED
    BY <2>1, <2>2 DEF CommandType
<1>5. QED
  BY <1>1, <1>2, <1>3, <1>4 DEF CommandType, Commands

LEMMA GoesType ==
  ASSUME CommandType, NEW t \in Terminals, NEW pc \in Places, Goes(t, pc)
  PROVE  /\ CommandType'
         /\ command'[t].pc = pc /\ command'[t].result = command[t].result
         /\ command'[t].scenario = command[t].scenario
         /\ command'[t].step = command[t].step /\ command'[t].waiting = command[t].waiting
         /\ \A u \in Terminals : u # t => command'[u] = command[u]
<1>1. command[t] \in Commands
  BY DEF CommandType
<1>2. command' = [command EXCEPT ![t] = [command[t] EXCEPT !.pc = pc]]
  BY DEF Goes
<1>3. [command[t] EXCEPT !.pc = pc] \in Commands
  BY <1>1 DEF Commands, Places
<1>4. QED
  BY <1>1, <1>2, <1>3 DEF CommandType, Commands

LEMMA NextStepType ==
  ASSUME CommandType, NEW t \in Terminals, NextStep(t)
  PROVE  /\ CommandType'
         /\ command'[t].pc = "workload" /\ command'[t].result = command[t].result
         /\ command'[t].scenario = command[t].scenario
         /\ command'[t].step = command[t].step + 1
         /\ command'[t].waiting = command[t].waiting
         /\ \A u \in Terminals : u # t => command'[u] = command[u]
<1>1. command[t] \in Commands /\ command[t].step + 1 \in Nat \ {0}
  BY DEF CommandType, Commands
<1>2. command' = [command EXCEPT ![t] = [command[t] EXCEPT !.pc = "workload",
                                                         !.step = command[t].step + 1]]
  BY DEF NextStep
<1>3. [command[t] EXCEPT !.pc = "workload", !.step = command[t].step + 1] \in Commands
  BY <1>1 DEF Commands, Places
<1>4. QED
  BY <1>1, <1>2, <1>3 DEF CommandType, Commands

LEMMA AwaitsDeletionType ==
  ASSUME CommandType, NEW t \in Terminals, AwaitsDeletion(t)
  PROVE  /\ CommandType'
         /\ command'[t].pc = "gone" /\ command'[t].waiting = Selected
         /\ command'[t].scenario = command[t].scenario
         /\ command'[t].result = command[t].result
         /\ command'[t].step = command[t].step
         /\ \A u \in Terminals : u # t => command'[u] = command[u]
<1>1. command[t] \in Commands /\ Selected \in SUBSET Names
  BY DEF CommandType, Selected
<1>2. command' = [command EXCEPT ![t] = [command[t] EXCEPT !.pc = "gone",
                                                         !.waiting = Selected]]
  BY DEF AwaitsDeletion
<1>3. [command[t] EXCEPT !.pc = "gone", !.waiting = Selected] \in Commands
  BY <1>1 DEF Commands, Places
<1>4. QED
  BY <1>1, <1>2, <1>3 DEF CommandType, Commands

LEMMA StartType ==
  ASSUME CommandType, NEW t \in Terminals, NEW s \in Scenarios, Start(t, s)
  PROVE  /\ CommandType'
         /\ command'[t].pc = "delete" /\ command'[t].result = "none"
         /\ command'[t].scenario = s /\ command'[t].step = 1 /\ command'[t].waiting = {}
         /\ \A u \in Terminals : u # t => command'[u] = command[u]
<1>1. command' = [command EXCEPT ![t] = Fresh("delete", s)]
  BY DEF Start
<1>2. Fresh("delete", s) \in Commands
  BY DEF Fresh, Commands, Places, Results
<1>3. QED
  BY <1>1, <1>2 DEF CommandType, Fresh

\* A Pod that goes is not waited for any more.
LEMMA GoneType ==
  ASSUME CommandType, NEW n \in Names, Gone(n)
  PROVE  /\ CommandType'
         /\ \A t \in Terminals :
              /\ command'[t].pc = command[t].pc /\ command'[t].result = command[t].result
              /\ command'[t].scenario = command[t].scenario
              /\ command'[t].step = command[t].step
              /\ command'[t].waiting = command[t].waiting \ {n}
<1>1. ASSUME NEW t \in Terminals
      PROVE  /\ command[t] \in Commands
             /\ [command[t] EXCEPT !.waiting = command[t].waiting \ {n}] \in Commands
  BY DEF CommandType, Commands
<1>2. \A t \in Terminals :
        command'[t] = [command[t] EXCEPT !.waiting = command[t].waiting \ {n}]
  BY DEF Gone
<1>3. command' \in [Terminals -> Commands]
  <2>1. command' = [t \in Terminals |->
                      [command[t] EXCEPT !.waiting = command[t].waiting \ {n}]]
    BY DEF Gone
  <2>2. QED
    BY <1>1, <2>1
<1>4. QED
  BY <1>1, <1>2, <1>3 DEF CommandType, Commands

-----------------------------------------------------------------------------
(* Types *)

LEMMA InitTypes == Init => Types
<1> SUFFICES ASSUME Init PROVE Types
  OBVIOUS
<1>1. ClusterType
  BY ScenarioRunAssumption DEF Init, ClusterType
<1>2. Fresh("idle", Normal) \in Commands
  BY ScenarioRunAssumption DEF Fresh, Commands, Places, Results
<1>3. CommandType
  BY <1>2 DEF Init, CommandType
<1>4. Waits
  BY DEF Init, Waits, Fresh
<1>5. QED
  BY <1>1, <1>3, <1>4 DEF Types

\* A failed deletion may have come to some of the Pods only.
LEMMA TerminatingType ==
  ASSUME ClusterType, NEW S \in SUBSET Names, Terminating(S)
  PROVE  /\ pods' \in [Names -> {"absent", "pending", "running", "terminating"}]
         /\ \A n \in Names : pods[n] = "terminating" => pods'[n] = "terminating"
         /\ \A n \in Selected \cap S : pods'[n] = "terminating"
         /\ \A n \in Names : pods[n] = "absent" => pods'[n] = "absent"
BY DEF ClusterType, Terminating, Selected

\* Whoever waits goes on waiting for the same Pods, or for none.
LEMMA WaitsKept ==
  ASSUME Types, CommandType', NEW t \in Terminals,
         \A u \in Terminals : u # t => command'[u] = command[u],
         command'[t].waiting \subseteq command[t].waiting,
         \A n \in Names : pods[n] = "terminating" => pods'[n] = "terminating"
  PROVE  Waits'
<1>1. \A u \in Terminals : command'[u].waiting \subseteq command[u].waiting
  OBVIOUS
<1>2. \A u \in Terminals : command[u].waiting \subseteq Names
  BY DEF Types, CommandType, Commands
<1>3. QED
  BY <1>1, <1>2 DEF Types, Waits

LEMMA CalmType ==
  ASSUME ClusterType, Trouble \/ Smooth
  PROVE  calm' \in [Terminals -> BOOLEAN]
BY DEF ClusterType, Trouble, Smooth

\* A command whose Pods stay as they are comes to its end, or goes on.
LEMMA EndStepTypes ==
  ASSUME Types, NEW t \in Terminals, NEW result \in Results, End(t, result),
         ClusterType', \A n \in Names : pods[n] = "terminating" => pods'[n] = "terminating"
  PROVE  Types'
BY EndType, WaitsKept DEF Types

LEMMA GoesStepTypes ==
  ASSUME Types, NEW t \in Terminals, NEW pc \in Places, Goes(t, pc),
         ClusterType', \A n \in Names : pods[n] = "terminating" => pods'[n] = "terminating"
  PROVE  Types'
BY GoesType, WaitsKept DEF Types

LEMMA NextStepTypes ==
  ASSUME Types, NEW t \in Terminals, NextStep(t),
         ClusterType', \A n \in Names : pods[n] = "terminating" => pods'[n] = "terminating"
  PROVE  Types'
BY NextStepType, WaitsKept DEF Types

LEMMA StartTypes ==
  ASSUME Types, NEW t \in Terminals, NEW s \in Scenarios, Start(t, s)
  PROVE  Types'
<1>1. UNCHANGED cluster /\ calm' \in [Terminals -> BOOLEAN]
  <2>1. (\A node \in Nodes : taken[node] = 0) \in BOOLEAN
    OBVIOUS
  <2>2. QED
    BY <2>1 DEF Start, Types, ClusterType
<1>2. ClusterType'
  BY <1>1 DEF Types, ClusterType, cluster
<1>3. QED
  BY <1>1, <1>2, StartType, WaitsKept DEF Types, cluster

LEMMA DeletePodsTypes ==
  ASSUME Types, NEW t \in Terminals, DeletePods(t)
  PROVE  Types'
<1>1. UNCHANGED <<place, configMap, job, fabric>> /\ calm' \in [Terminals -> BOOLEAN]
  BY CalmType DEF DeletePods, Types
<1>2. CASE Terminating(Names) /\ AwaitsDeletion(t)
  <2>1. ClusterType'
    BY <1>1, <1>2, TerminatingType DEF Types, ClusterType
  <2>2. CommandType' /\ command'[t].waiting = Selected
        /\ \A u \in Terminals : u # t => command'[u] = command[u]
    BY <1>2, AwaitsDeletionType DEF Types
  <2>3. Waits'
    <3>1. \A n \in Selected : pods'[n] = "terminating"
      BY <1>2, TerminatingType DEF Types, Selected
    <3>2. \A u \in Terminals : command[u].waiting \subseteq Names
      BY DEF Types, CommandType, Commands
    <3>3. \A n \in Names : pods[n] = "terminating" => pods'[n] = "terminating"
      BY <1>2, TerminatingType DEF Types
    <3>4. QED
      BY <2>2, <3>1, <3>2, <3>3 DEF Types, Waits
  <2>4. QED
    BY <2>1, <2>2, <2>3 DEF Types
<1>3. ASSUME NEW S \in SUBSET Selected, Terminating(S), End(t, "failed")
      PROVE  Types'
  <2>1. S \in SUBSET Names
    BY DEF Selected
  <2>2. ClusterType'
    BY <1>1, <1>3, <2>1, TerminatingType DEF Types, ClusterType
  <2>3. QED
    BY <1>3, <2>1, <2>2, TerminatingType, EndStepTypes DEF Types, Results
<1>4. QED
  BY <1>2, <1>3 DEF DeletePods

LEMMA ApplyWorkloadTypes ==
  ASSUME Types, NEW t \in Terminals, ApplyWorkload(t)
  PROVE  Types'
<1>1. UNCHANGED <<place, configMap, job, fabric>> /\ calm' \in [Terminals -> BOOLEAN]
  BY CalmType DEF ApplyWorkload, Types
<1>2. /\ pods' \in [Names -> {"absent", "pending", "running", "terminating"}]
      /\ \A n \in Names : pods[n] = "terminating" => pods'[n] = "terminating"
  BY DEF ApplyWorkload, Types, ClusterType
<1>3. ClusterType'
  BY <1>1, <1>2 DEF Types, ClusterType
<1>4. Goes(t, "ready") \/ NextStep(t) \/ End(t, "failed")
  BY DEF ApplyWorkload, AwaitsReady
<1>5. QED
  BY <1>2, <1>3, <1>4, GoesStepTypes, NextStepTypes, EndStepTypes DEF Places, Results

\* Steps of a command that leave the Pods alone.
LEMMA OtherStepTypes ==
  ASSUME Types, NEW t \in Terminals,
         PodsGone(t) \/ Publish(t) \/ PodReady(t) \/ Sync(t) \/ WaitTimesOut(t)
           \/ Refused(t) \/ Killed(t)
  PROVE  Types'
<1>1. pods' = pods /\ place' = place /\ job' = job /\ calm' \in [Terminals -> BOOLEAN]
  BY CalmType DEF PodsGone, Publish, PodReady, Sync, WaitTimesOut, Refused, Killed, Then,
                  cluster, Types, ClusterType
<1>2. configMap' \in Scenarios
  <2>1. command[t].scenario \in Scenarios
    BY DEF Types, CommandType, Commands
  <2>2. configMap' = configMap \/ configMap' = command[t].scenario
    BY DEF PodsGone, Publish, PodReady, Sync, WaitTimesOut, Refused, Killed, cluster
  <2>3. QED
    BY <2>1, <2>2 DEF Types, ClusterType
<1>3. fabric' \in {"normal", "fault"}
  <2>1. \/ fabric' = fabric \/ fabric' = FabricControlForScenario(command[t].scenario)
    BY DEF PodsGone, Publish, PodReady, Sync, WaitTimesOut, Refused, Killed, cluster
  <2>2. QED
    BY <2>1 DEF FabricControlForScenario, Types, ClusterType
<1>4. ClusterType'
  BY <1>1, <1>2, <1>3 DEF Types, ClusterType
<1>5. \/ \E pc \in Places : Goes(t, pc)
      \/ NextStep(t)
      \/ \E result \in Results : End(t, result)
  BY DEF PodsGone, Publish, PodReady, Sync, WaitTimesOut, Refused, Killed, Then, Dropped,
         Places, Results
<1>6. QED
  BY <1>1, <1>4, <1>5, GoesStepTypes, NextStepTypes, EndStepTypes

LEMMA ClusterStepTypes ==
  ASSUME Types, \/ \E n \in Names : Schedule(n) \/ Gone(n)
                \/ \E node \in Nodes : OtherPod(node)
                \/ Deploy
  PROVE  Types'
<1>1. ASSUME NEW n \in Names, Schedule(n)
      PROVE  Types'
  <2>1. PICK node \in Nodes : place' = [place EXCEPT ![n] = node]
    BY <1>1 DEF Schedule
  <2>2. /\ pods' = [pods EXCEPT ![n] = "running"] /\ pods[n] = "pending"
        /\ UNCHANGED <<configMap, job, fabric, command, calm>>
    BY <1>1 DEF Schedule
  <2>3. ClusterType' /\ CommandType'
    BY <2>1, <2>2 DEF Types, ClusterType, CommandType
  <2>4. \A m \in Names : pods[m] = "terminating" => pods'[m] = "terminating"
    BY <2>2 DEF Types, ClusterType
  <2>5. \A t \in Terminals : command[t].waiting \subseteq Names
    BY DEF Types, CommandType, Commands
  <2>6. QED
    BY <2>2, <2>3, <2>4, <2>5 DEF Types, Waits
<1>2. ASSUME NEW n \in Names, Gone(n)
      PROVE  Types'
  <2>1. /\ pods' = [pods EXCEPT ![n] = "absent"] /\ place' = [place EXCEPT ![n] = Anywhere]
        /\ UNCHANGED <<configMap, job, fabric, calm>>
    BY <1>2 DEF Gone
  <2>2. ClusterType'
    BY <2>1 DEF Types, ClusterType
  <2>3. CommandType' /\ \A t \in Terminals : command'[t].waiting = command[t].waiting \ {n}
    BY <1>2, GoneType DEF Types
  <2>4. \A m \in Names : m # n => pods'[m] = pods[m]
    BY <2>1 DEF Types, ClusterType
  <2>5. \A t \in Terminals : command[t].waiting \subseteq Names
    BY DEF Types, CommandType, Commands
  <2>6. Waits'
    BY <2>3, <2>4, <2>5 DEF Types, Waits
  <2>7. QED
    BY <2>2, <2>3, <2>6 DEF Types
<1>3. ASSUME NEW node \in Nodes, OtherPod(node)
      PROVE  Types'
  BY <1>3, CalmType DEF OtherPod, Types, ClusterType, CommandType, Waits
<1>4. CASE Deploy
  BY <1>4 DEF Deploy, Types, ClusterType, CommandType, Waits
<1>5. QED
  BY <1>1, <1>2, <1>3, <1>4

LEMMA NextTypes == Types /\ [Next]_vars => Types'
<1> SUFFICES ASSUME Types, [Next]_vars PROVE Types'
  OBVIOUS
<1>1. ASSUME NEW t \in Terminals, NEW s \in Scenarios, Start(t, s)
      PROVE  Types'
  BY <1>1, StartTypes
<1>2. ASSUME NEW t \in Terminals, Step(t) \/ Refused(t) \/ Killed(t)
      PROVE  Types'
  BY <1>2, DeletePodsTypes, ApplyWorkloadTypes, OtherStepTypes DEF Step
<1>3. CASE UNCHANGED vars
  BY <1>3 DEF vars, cluster, Types, ClusterType, CommandType, Waits
<1>4. QED
  BY <1>1, <1>2, <1>3, ClusterStepTypes DEF Next

\* However many terminals apply scenarios, the variables have their types and a
\* command waits for Pods that will go (DeleteScenarioPods waits for its selection).
THEOREM TypeCorrect == Spec => []TypeOK
<1>1. Types => TypeOK
  BY DEF Types, ClusterType, CommandType, Commands, Places, Results, Waits, TypeOK
<1>2. QED
  BY InitTypes, NextTypes, <1>1, PTL DEF Spec

-----------------------------------------------------------------------------
(* Commands that run one at a time *)

OneAtATime == \A t, u \in Terminals : t = u

There(n) == pods[n] = "running" \/ (pods[n] = "pending" /\ ~Workload(n).wait)

\* What a command finds on the way: no Pod when it has waited, and then those of its
\* own scenario that it has come to.
Building(t) ==
  /\ configMap = command[t].scenario
  /\ \A n \in Names : IF n \in Of(configMap) THEN pods[n] # "terminating"
                                             ELSE pods[n] = "absent"
  /\ \A i \in DOMAIN Actions[configMap] :
       i < command[t].step => There(Actions[configMap][i].name)

Complete == /\ \A n \in Of(configMap) : There(n)
            /\ \A n \in Names \ Of(configMap) : pods[n] = "absent"

Stage(t) ==
  /\ command[t].pc \in {"delete", "gone", "publish"} => command[t].step = 1
  /\ command[t].pc = "gone" =>
       \A n \in Names : \/ pods[n] = "absent"
                        \/ pods[n] = "terminating" /\ n \in command[t].waiting
  /\ command[t].pc = "publish" => \A n \in Names : pods[n] = "absent"
  /\ command[t].pc \in {"workload", "ready"} => Building(t)
  /\ command[t].pc = "ready" => Remaining(t) /\ pods[Action(t).name] # "absent"
  /\ Ended(t, "ok") => configMap = command[t].scenario /\ Complete

RunInv == /\ OneAtATime /\ Types /\ PodsOfConfigMap
          /\ \A t \in Terminals : Stage(t)

-----------------------------------------------------------------------------
(* Workloads *)

LEMMA ActionsType ==
  ASSUME NEW s \in Scenarios
  PROVE  /\ Actions[s] \in Seq(Workloads) /\ DOMAIN Actions[s] = 1 .. Len(Actions[s])
         /\ Len(Actions[s]) \in Nat
BY ScenarioRunAssumption

LEMMA OfNames ==
  ASSUME NEW s \in Scenarios, NEW i \in DOMAIN Actions[s]
  PROVE  /\ Actions[s][i].name \in Of(s) /\ Actions[s][i].name \in Names
         /\ Workload(Actions[s][i].name) = Actions[s][i]
<1>1. Actions[s][i] \in Workloads
  BY DEF Workloads
<1>2. Actions[s][i].name \in Of(s) /\ Actions[s][i].name \in Names
  BY <1>1 DEF Of, Names
<1>3. \A w \in Workloads : w.name = Actions[s][i].name => w = Actions[s][i]
  BY <1>1, ScenarioRunAssumption
<1>4. QED
  BY <1>1, <1>2, <1>3 DEF Workload

LEMMA ActionFacts ==
  ASSUME CommandType, NEW t \in Terminals, Remaining(t)
  PROVE  /\ command[t].scenario \in Scenarios
         /\ command[t].step \in DOMAIN Actions[command[t].scenario]
         /\ Action(t) = Actions[command[t].scenario][command[t].step]
         /\ Action(t).name \in Of(command[t].scenario) /\ Action(t).name \in Names
         /\ Workload(Action(t).name) = Action(t)
<1>1. command[t].scenario \in Scenarios /\ command[t].step \in Nat \ {0}
  BY DEF CommandType, Commands
<1>2. command[t].step \in DOMAIN Actions[command[t].scenario]
  BY <1>1, ActionsType DEF Remaining
<1>3. QED
  BY <1>1, <1>2, OfNames DEF Action

-----------------------------------------------------------------------------
(* Steps *)

LEMMA InitRunInv == ASSUME OneAtATime PROVE Init => RunInv
<1> SUFFICES ASSUME Init PROVE RunInv
  OBVIOUS
<1>1. \A t \in Terminals : command[t].pc = "idle" /\ command[t].result = "none"
  BY DEF Init, Fresh
<1>2. PodsOfConfigMap
  BY DEF Init, PodsOfConfigMap
<1>3. \A t \in Terminals : Stage(t)
  BY <1>1 DEF Stage, Ended
<1>4. QED
  BY <1>2, <1>3, InitTypes DEF RunInv

\* A command that ends without success says nothing, and one that starts does not yet.
LEMMA SilentStep ==
  ASSUME RunInv, Types', PodsOfConfigMap', NEW t \in Terminals,
         command'[t].pc \in {"idle", "delete"}, ~Ended(t, "ok")',
         command'[t].pc = "delete" => command'[t].step = 1
  PROVE  RunInv'
<1>1. Stage(t)'
  BY DEF Stage
<1>2. QED
  BY <1>1 DEF RunInv, OneAtATime

LEMMA FailsStep ==
  ASSUME RunInv, Types', PodsOfConfigMap', NEW t \in Terminals,
         NEW result \in Results \ {"ok"}, End(t, result)
  PROVE  RunInv'
<1>1. command'[t].pc = "idle" /\ command'[t].result = result
  BY EndType DEF RunInv, Types
<1>2. QED
  BY <1>1, SilentStep DEF Ended

LEMMA StartStep ==
  ASSUME RunInv, NEW t \in Terminals, NEW s \in Scenarios, Start(t, s)
  PROVE  RunInv'
<1>1. Types' /\ command'[t].pc = "delete" /\ command'[t].step = 1
  BY StartTypes, StartType DEF RunInv, Types
<1>2. PodsOfConfigMap'
  BY DEF Start, cluster, RunInv, PodsOfConfigMap
<1>3. QED
  BY <1>1, <1>2, SilentStep DEF Ended

\* After the deletion nothing runs, or the command has failed.
LEMMA DeletePodsStep ==
  ASSUME RunInv, NEW t \in Terminals, DeletePods(t)
  PROVE  RunInv'
<1>1. Types' /\ configMap' = configMap
  BY DeletePodsTypes DEF RunInv, DeletePods
<1>2. CASE Terminating(Names) /\ AwaitsDeletion(t)
  <2>1. \A n \in Names : \/ pods'[n] = "absent"
                         \/ pods'[n] = "terminating" /\ n \in Selected
    BY <1>2 DEF Terminating, Selected
  <2>2. command'[t].pc = "gone" /\ command'[t].waiting = Selected /\ command'[t].step = 1
    <3>1. command[t].step = 1
      BY DEF RunInv, Stage, DeletePods
    <3>2. QED
      BY <1>2, <3>1, AwaitsDeletionType DEF RunInv, Types
  <2>3. PodsOfConfigMap'
    BY <2>1 DEF PodsOfConfigMap
  <2>4. Stage(t)'
    BY <2>1, <2>2 DEF Stage, Ended
  <2>5. QED
    BY <1>1, <2>3, <2>4 DEF RunInv, OneAtATime
<1>3. ASSUME NEW S \in SUBSET Selected, Terminating(S), End(t, "failed")
      PROVE  RunInv'
  <2>1. \A n \in Names : pods'[n] = pods[n] \/ pods'[n] = "terminating"
    BY <1>3 DEF Terminating
  <2>2. PodsOfConfigMap'
    BY <1>1, <2>1 DEF RunInv, PodsOfConfigMap
  <2>3. QED
    BY <1>1, <1>3, <2>2, FailsStep DEF Results
<1>4. QED
  BY <1>2, <1>3 DEF DeletePods

LEMMA PublishStep ==
  ASSUME RunInv, NEW t \in Terminals, PodsGone(t) \/ Publish(t)
  PROVE  RunInv'
<1>1. Types' /\ pods' = pods /\ Stage(t)
  BY OtherStepTypes DEF RunInv, PodsGone, Publish, cluster
<1>2. CASE PodsGone(t)
  <2>1. \A n \in Names : pods[n] = "absent"
    BY <1>1, <1>2 DEF PodsGone, Stage
  <2>2. command'[t].pc = "publish" /\ command'[t].step = 1
    <3>1. command[t].step = 1 /\ Goes(t, "publish")
      BY <1>1, <1>2 DEF Stage, PodsGone
    <3>2. QED
      BY <3>1, GoesType DEF RunInv, Types, Places
  <2>3. Stage(t)' /\ PodsOfConfigMap'
    BY <1>1, <2>1, <2>2 DEF Stage, Ended, PodsOfConfigMap
  <2>4. QED
    BY <1>1, <2>3 DEF RunInv, OneAtATime
<1>3. CASE Publish(t)
  <2>1. /\ \A n \in Names : pods'[n] = "absent"
        /\ configMap' = command[t].scenario /\ command[t].step = 1
    BY <1>1, <1>3 DEF Publish, Stage
  <2>2. PodsOfConfigMap'
    BY <2>1 DEF PodsOfConfigMap
  <2>3. CASE End(t, "failed")
    BY <1>1, <2>2, <2>3, FailsStep DEF Results
  <2>4. CASE Goes(t, "workload")
    <3>1. /\ command'[t].pc = "workload" /\ command'[t].step = 1
          /\ command'[t].scenario = command[t].scenario
      BY <2>1, <2>4, GoesType DEF RunInv, Types, Places
    <3>2. configMap' \in Scenarios
      BY <1>1 DEF Types, ClusterType
    <3>3. Building(t)'
      <4>1. DOMAIN Actions[configMap'] = 1 .. Len(Actions[configMap'])
            /\ Len(Actions[configMap']) \in Nat
        BY <3>2, ActionsType
      <4>2. \A i \in DOMAIN Actions[configMap'] : ~(i < command'[t].step)
        BY <3>1, <4>1
      <4>3. QED
        BY <2>1, <3>1, <4>2 DEF Building
    <3>4. Stage(t)'
      BY <3>1, <3>3 DEF Stage, Ended
    <3>5. QED
      BY <1>1, <2>2, <3>4 DEF RunInv, OneAtATime
  <2>5. QED
    BY <1>3, <2>3, <2>4 DEF Publish, Then
<1>4. QED
  BY <1>2, <1>3

\* There, of a name that was read before the step.
ThereNext(n) == pods'[n] = "running" \/ (pods'[n] = "pending" /\ ~Workload(n).wait)

\* The step that was applied is there: its Pod runs, or need not be awaited.
LEMMA NextStepStage ==
  ASSUME RunInv, Types', NEW t \in Terminals, NextStep(t), configMap' = configMap,
         Building(t), Remaining(t), NEW name \in Names, name = Action(t).name,
         \A n \in Names : n # name => pods'[n] = pods[n],
         ThereNext(name)
  PROVE  Stage(t)'
<1>1. /\ command'[t].pc = "workload" /\ command'[t].step = command[t].step + 1
      /\ command'[t].scenario = command[t].scenario
  BY NextStepType DEF RunInv, Types
<1>2. /\ configMap \in Scenarios /\ configMap = command[t].scenario
      /\ command[t].step \in Nat
  BY DEF Building, RunInv, Types, ClusterType, CommandType, Commands
<1>3. /\ Action(t) = Actions[configMap][command[t].step]
      /\ name \in Of(configMap)
  BY <1>2, ActionFacts DEF RunInv, Types
<1>4. \A n \in Names : IF n \in Of(configMap) THEN pods'[n] # "terminating"
                                              ELSE pods'[n] = "absent"
  BY <1>3 DEF Building, ThereNext
<1>5. ASSUME NEW i \in DOMAIN Actions[configMap], i < command'[t].step
      PROVE  ThereNext(Actions[configMap][i].name)
  <2>1. CASE i = command[t].step
    BY <1>3, <2>1
  <2>2. CASE i # command[t].step
    <3>1. i < command[t].step
      BY <1>1, <1>2, <1>5, <2>2, ActionsType
    <3>2. There(Actions[configMap][i].name) /\ Actions[configMap][i].name \in Names
      BY <1>2, <1>5, <3>1, OfNames DEF Building
    <3>3. CASE Actions[configMap][i].name = name
      BY <3>3
    <3>4. CASE Actions[configMap][i].name # name
      BY <3>2, <3>4 DEF There, ThereNext
    <3>5. QED
      BY <3>3, <3>4
  <2>3. QED
    BY <2>1, <2>2
<1>6. Building(t)'
  BY <1>1, <1>2, <1>4, <1>5 DEF Building, There, ThereNext
<1>7. QED
  BY <1>1, <1>6 DEF Stage, Ended

LEMMA ApplyWorkloadStep ==
  ASSUME RunInv, NEW t \in Terminals, ApplyWorkload(t)
  PROVE  RunInv'
<1> DEFINE name == Action(t).name
<1>1. /\ Types' /\ configMap' = configMap /\ Building(t) /\ Remaining(t)
  BY ApplyWorkloadTypes DEF RunInv, ApplyWorkload, Stage
<1>2. /\ name \in Names /\ name \in Of(configMap) /\ Workload(name) = Action(t)
      /\ configMap = command[t].scenario
  BY <1>1, ActionFacts DEF RunInv, Types, Building
<1>3. pods' = [pods EXCEPT ![name] = IF pods[name] = "absent" THEN "pending"
                                                             ELSE pods[name]]
  BY DEF ApplyWorkload
<1>4. /\ \A n \in Names : pods'[n] = pods[n] \/ (n = name /\ pods[n] = "absent")
      /\ pods'[name] \in {"pending", "running"}
      /\ pods \in [Names -> {"absent", "pending", "running", "terminating"}]
  <2>1. pods \in [Names -> {"absent", "pending", "running", "terminating"}]
    BY DEF RunInv, Types, ClusterType
  <2>2. pods[name] # "terminating"
    BY <1>1, <1>2 DEF Building
  <2>3. QED
    BY <1>2, <1>3, <2>1, <2>2
<1>5. PodsOfConfigMap'
  BY <1>1, <1>2, <1>4 DEF RunInv, PodsOfConfigMap
<1>6. CASE End(t, "failed")
  BY <1>1, <1>5, <1>6, FailsStep DEF Results
<1>7. CASE Goes(t, "ready") /\ Action(t).wait
  <2>1. /\ command'[t].pc = "ready" /\ command'[t].step = command[t].step
        /\ command'[t].scenario = command[t].scenario
    BY <1>7, GoesType DEF RunInv, Types, Places
  <2>2. Remaining(t)' /\ Action(t)'.name = name
    BY <1>1, <2>1 DEF Action, Remaining
  <2>3. Building(t)'
    <3>1. \A n \in Names : IF n \in Of(configMap) THEN pods'[n] # "terminating"
                                                  ELSE pods'[n] = "absent"
      BY <1>2, <1>4, <1>1 DEF Building
    <3>2. ASSUME NEW i \in DOMAIN Actions[configMap], i < command[t].step
          PROVE  ThereNext(Actions[configMap][i].name)
      <4>1. There(Actions[configMap][i].name) /\ Actions[configMap][i].name \in Names
        BY <1>1, <3>2, OfNames DEF Building, RunInv, Types, ClusterType
      <4>2. QED
        BY <1>4, <4>1 DEF There, ThereNext
    <3>3. QED
      BY <1>1, <1>2, <2>1, <3>1, <3>2 DEF Building, There, ThereNext
  <2>4. Stage(t)'
    BY <1>4, <2>1, <2>2, <2>3 DEF Stage, Ended
  <2>5. QED
    BY <1>1, <1>5, <2>4 DEF RunInv, OneAtATime
<1>8. CASE NextStep(t) /\ ~Action(t).wait
  <2>1. ThereNext(name)
    BY <1>2, <1>4, <1>8 DEF ThereNext
  <2>2. \A n \in Names : n # name => pods'[n] = pods[n]
    BY <1>4
  <2>3. Stage(t)'
    BY <1>1, <1>2, <1>8, <2>1, <2>2, NextStepStage
  <2>4. QED
    BY <1>1, <1>5, <2>3 DEF RunInv, OneAtATime
<1>9. QED
  BY <1>6, <1>7, <1>8 DEF ApplyWorkload, AwaitsReady

\* A Pod that was awaited runs.
LEMMA PodReadyStep ==
  ASSUME RunInv, NEW t \in Terminals, PodReady(t)
  PROVE  RunInv'
<1>1. /\ Types' /\ configMap' = configMap /\ pods' = pods /\ NextStep(t)
      /\ pods[Action(t).name] = "running"
      /\ Building(t) /\ Remaining(t)
  BY OtherStepTypes DEF RunInv, PodReady, Stage, cluster
<1>2. PICK name \in Names : name = Action(t).name
  BY <1>1, ActionFacts DEF RunInv, Types
<1>3. ThereNext(name) /\ \A n \in Names : n # name => pods'[n] = pods[n]
  BY <1>1, <1>2 DEF ThereNext
<1>4. Stage(t)'
  BY <1>1, <1>2, <1>3, NextStepStage
<1>5. PodsOfConfigMap'
  BY <1>1 DEF RunInv, PodsOfConfigMap
<1>6. QED
  BY <1>1, <1>4, <1>5 DEF RunInv, OneAtATime

\* A command succeeds only here, and then it has come to all of its workloads.
LEMMA SyncStep ==
  ASSUME RunInv, NEW t \in Terminals, Sync(t)
  PROVE  RunInv'
<1>1. /\ Types' /\ configMap' = configMap /\ pods' = pods /\ End(t, "ok")
      /\ Building(t) /\ ~Remaining(t)
  BY OtherStepTypes DEF RunInv, Sync, Stage, Dropped
<1>2. /\ configMap \in Scenarios /\ configMap = command[t].scenario
      /\ command[t].step \in Nat
  BY <1>1 DEF Building, RunInv, Types, ClusterType, CommandType, Commands
<1>3. \A i \in DOMAIN Actions[configMap] : i < command[t].step
  BY <1>1, <1>2, ActionsType DEF Remaining
<1>4. Complete
  <2>1. \A n \in Of(configMap) : There(n)
    BY <1>1, <1>3 DEF Building, Of
  <2>2. QED
    BY <1>1, <2>1 DEF Building, Complete
<1>5. /\ command'[t].pc = "idle" /\ command'[t].scenario = configMap'
      /\ PodsOfConfigMap'
  BY <1>1, <1>2, EndType DEF RunInv, Types, Results, PodsOfConfigMap
<1>6. Complete'
  BY <1>1, <1>4 DEF Complete, There
<1>7. Stage(t)'
  BY <1>5, <1>6 DEF Stage
<1>8. QED
  BY <1>1, <1>5, <1>7 DEF RunInv, OneAtATime

LEMMA StopsStep ==
  ASSUME RunInv, NEW t \in Terminals, WaitTimesOut(t) \/ Refused(t) \/ Killed(t)
  PROVE  RunInv'
<1>1. Types' /\ configMap' = configMap /\ pods' = pods
  BY OtherStepTypes DEF RunInv, WaitTimesOut, Refused, Killed, cluster
<1>2. PodsOfConfigMap'
  BY <1>1 DEF RunInv, PodsOfConfigMap
<1>3. End(t, "failed") \/ End(t, "killed")
  BY DEF WaitTimesOut, Refused, Killed
<1>4. QED
  BY <1>1, <1>2, <1>3, FailsStep DEF Results

\* What a scheduler does changes no stage: a Pod that is pending is of the scenario.
LEMMA ScheduleStep ==
  ASSUME RunInv, NEW m \in Names, Schedule(m)
  PROVE  RunInv'
<1>1. /\ Types' /\ pods[m] = "pending" /\ pods' = [pods EXCEPT ![m] = "running"]
      /\ UNCHANGED <<configMap, command>>
  BY ClusterStepTypes DEF RunInv, Schedule
<1>2. \A n \in Names : pods'[n] = IF n = m THEN "running" ELSE pods[n]
  BY <1>1 DEF RunInv, Types, ClusterType
<1>3. PodsOfConfigMap'
  BY <1>1, <1>2 DEF RunInv, PodsOfConfigMap
<1>4. \A n \in Names : There(n) => There(n)'
  BY <1>2 DEF There
<1>5. ASSUME NEW t \in Terminals
      PROVE  Stage(t)'
  <2>1. Stage(t) /\ m \in Of(configMap)
    BY <1>1 DEF RunInv, PodsOfConfigMap
  <2>2. command[t].pc \notin {"gone", "publish"}
    BY <1>1, <2>1 DEF Stage
  <2>3. Building(t) => Building(t)'
    <3>1. ASSUME Building(t), NEW i \in DOMAIN Actions[configMap], i < command[t].step
          PROVE  There(Actions[configMap][i].name) /\ Actions[configMap][i].name \in Names
      BY <3>1, OfNames DEF Building, RunInv, Types, ClusterType
    <3>2. QED
      BY <1>1, <1>2, <1>4, <2>1, <3>1 DEF Building
  <2>4. Complete => Complete'
    <3>1. Of(configMap) \subseteq Names
      BY OfNames DEF Of, RunInv, Types, ClusterType
    <3>2. QED
      BY <1>1, <1>2, <1>4, <2>1, <3>1 DEF Complete
  <2>5. command[t].pc = "ready" => Remaining(t)' /\ pods'[Action(t)'.name] # "absent"
    <3>1. SUFFICES ASSUME command[t].pc = "ready"
                   PROVE  Remaining(t)' /\ pods'[Action(t)'.name] # "absent"
      OBVIOUS
    <3>2. Remaining(t) /\ pods[Action(t).name] # "absent" /\ Action(t).name \in Names
      BY <2>1, <3>1, ActionFacts DEF Stage, RunInv, Types
    <3>3. QED
      BY <1>1, <1>2, <3>2 DEF Remaining, Action
  <2>6. QED
    BY <1>1, <2>1, <2>2, <2>3, <2>4, <2>5 DEF Stage, Ended
<1>6. QED
  BY <1>1, <1>3, <1>5 DEF RunInv, OneAtATime

\* A Pod is about to go only while nothing was created yet.
LEMMA GoneStep ==
  ASSUME RunInv, NEW m \in Names, Gone(m)
  PROVE  RunInv'
<1>1. /\ Types' /\ pods[m] = "terminating" /\ pods' = [pods EXCEPT ![m] = "absent"]
      /\ configMap' = configMap
  BY ClusterStepTypes DEF RunInv, Gone
<1>2. \A n \in Names : pods'[n] = IF n = m THEN "absent" ELSE pods[n]
  BY <1>1 DEF RunInv, Types, ClusterType
<1>3. PodsOfConfigMap'
  BY <1>1, <1>2 DEF RunInv, PodsOfConfigMap
<1>4. ASSUME NEW t \in Terminals
      PROVE  Stage(t)'
  <2>1. /\ command'[t].pc = command[t].pc /\ command'[t].result = command[t].result
        /\ command'[t].step = command[t].step
        /\ command'[t].waiting = command[t].waiting \ {m}
    BY GoneType DEF RunInv, Types
  <2>2. Stage(t)
    BY DEF RunInv
  <2>3. command[t].pc \notin {"publish", "workload", "ready"}
    BY <1>1, <2>2 DEF Stage, Building
  <2>4. ~Ended(t, "ok")
    <3>1. SUFFICES ASSUME Complete PROVE FALSE
      BY <2>2 DEF Stage
    <3>2. QED
      BY <1>1, <3>1 DEF Complete, There
  <2>5. QED
    BY <1>2, <2>1, <2>2, <2>3, <2>4 DEF Stage, Ended
<1>5. QED
  BY <1>1, <1>3, <1>4 DEF RunInv, OneAtATime

\* Nothing that a stage is about.
LEMMA QuietStep ==
  ASSUME RunInv, Types', UNCHANGED <<pods, configMap, command>>
  PROVE  RunInv'
<1>1. PodsOfConfigMap'
  BY DEF RunInv, PodsOfConfigMap
<1>2. \A t \in Terminals : Stage(t)'
  BY DEF RunInv, Stage, Building, Complete, There, Remaining, Action, Ended
<1>3. QED
  BY <1>1, <1>2 DEF RunInv, OneAtATime

LEMMA NextRunInv == RunInv /\ [Next]_vars => RunInv'
<1> SUFFICES ASSUME RunInv, [Next]_vars PROVE RunInv'
  OBVIOUS
<1>1. Types'
  BY NextTypes DEF RunInv
<1>2. ASSUME NEW t \in Terminals, NEW s \in Scenarios, Start(t, s)
      PROVE  RunInv'
  BY <1>2, StartStep
<1>3. ASSUME NEW t \in Terminals, Step(t) \/ Refused(t) \/ Killed(t)
      PROVE  RunInv'
  BY <1>3, DeletePodsStep, PublishStep, ApplyWorkloadStep, PodReadyStep, SyncStep,
     StopsStep DEF Step
<1>4. ASSUME NEW n \in Names, Schedule(n) \/ Gone(n)
      PROVE  RunInv'
  BY <1>4, ScheduleStep, GoneStep
<1>5. ASSUME NEW node \in Nodes, OtherPod(node)
      PROVE  RunInv'
  BY <1>1, <1>5, QuietStep DEF OtherPod
<1>6. CASE Deploy
  BY <1>1, <1>6, QuietStep DEF Deploy
<1>7. CASE UNCHANGED vars
  BY <1>1, <1>7, QuietStep DEF vars, cluster
<1>8. QED
  BY <1>2, <1>3, <1>4, <1>5, <1>6, <1>7 DEF Next

\* When commands run one at a time, a Pod that is not about to go is one of the
\* scenario in the ConfigMap, wherever a command has stopped (applyScenario).
THEOREM PodsFollowConfigMap ==
  ASSUME OneAtATime
  PROVE  Spec => []PodsOfConfigMap
<1>1. Init => RunInv
  BY InitRunInv
<1>2. RunInv => PodsOfConfigMap
  BY DEF RunInv
<1>3. QED
  BY <1>1, NextRunInv, <1>2, PTL DEF Spec

\* When commands run one at a time, a scenario that was reported as applied is there
\* whole, and nothing of another one is (applyScenario).
THEOREM SuccessIsWhole ==
  ASSUME OneAtATime
  PROVE  Spec => []AppliedIsWhole
<1>1. Init => RunInv
  BY InitRunInv
<1>2. RunInv => AppliedIsWhole
  BY DEF RunInv, Stage, Complete, There, AppliedIsWhole
<1>3. QED
  BY <1>1, NextRunInv, <1>2, PTL DEF Spec

-----------------------------------------------------------------------------
(* The fabric *)

FaultInv == (~job => fabric = "normal") /\ FaultEndsWithScenario

\* Nobody who has ended is disturbed, and no fault is new.
LEMMA FaultKept ==
  ASSUME FaultInv, fabric' = fabric \/ fabric' = "normal",
         ~job' => fabric' = "normal",
         \A t \in Terminals : Ended(t, "ok")' /\ calm'[t]
                                => Ended(t, "ok") /\ calm[t] /\ configMap' = configMap
  PROVE  FaultInv'
BY DEF FaultInv, FaultEndsWithScenario

LEMMA CommandFault ==
  ASSUME RunInv, FaultInv, NEW t \in Terminals,
         Step(t) \/ Refused(t) \/ Killed(t)
  PROVE  FaultInv'
<1>1. CASE Sync(t)
  <2>1. /\ job' = job /\ configMap' = configMap /\ Building(t)
        /\ command[t].scenario \in Scenarios
    BY <1>1 DEF Sync, RunInv, Stage, Types, CommandType, Commands
  <2>2. CASE UNCHANGED fabric /\ Trouble
    BY <2>1, <2>2 DEF Trouble, FaultInv, FaultEndsWithScenario
  <2>3. CASE fabric' = IF job THEN FabricControlForScenario(command[t].scenario)
                              ELSE fabric
    <3>1. fabric' = "fault" => configMap \in FabricFaults
      BY <2>1, <2>3 DEF FaultInv, FabricControlForScenario, Building
    <3>2. ~job' => fabric' = "normal"
      BY <2>1, <2>3 DEF FaultInv
    <3>3. QED
      BY <2>1, <3>1, <3>2 DEF FaultInv, FaultEndsWithScenario
  <2>4. QED
    BY <1>1, <2>2, <2>3 DEF Sync
<1>2. CASE ~Sync(t)
  <2>1. fabric' = fabric /\ job' = job
    BY <1>2 DEF Step, DeletePods, PodsGone, Publish, ApplyWorkload, PodReady, WaitTimesOut,
                Refused, Killed, cluster
  <2>2. \/ \E pc \in Places \ {"idle"} : Goes(t, pc)
        \/ NextStep(t) \/ AwaitsDeletion(t)
        \/ End(t, "failed") \/ End(t, "killed")
    BY <1>2 DEF Step, DeletePods, PodsGone, Publish, ApplyWorkload, AwaitsReady, PodReady,
                WaitTimesOut, Refused, Killed, Then, Places
  <2>3. ~Ended(t, "ok")'
    BY <2>2, GoesType, NextStepType, AwaitsDeletionType, EndType
       DEF RunInv, Types, Ended, Results
  <2>4. \A u \in Terminals : u = t
    BY DEF RunInv, OneAtATime
  <2>5. QED
    BY <2>1, <2>3, <2>4, FaultKept DEF FaultInv
<1>3. QED
  BY <1>1, <1>2

LEMMA NextFault == RunInv /\ FaultInv /\ [Next]_vars => FaultInv'
<1> SUFFICES ASSUME RunInv, FaultInv, [Next]_vars PROVE FaultInv'
  OBVIOUS
<1>1. ASSUME NEW t \in Terminals, NEW s \in Scenarios, Start(t, s)
      PROVE  FaultInv'
  <2>1. command'[t].pc = "delete" /\ \A u \in Terminals : u = t
    BY <1>1, StartType DEF RunInv, Types, OneAtATime
  <2>2. UNCHANGED <<fabric, job>>
    BY <1>1 DEF Start, cluster
  <2>3. QED
    BY <2>1, <2>2, FaultKept DEF Ended, FaultInv
<1>2. ASSUME NEW t \in Terminals, Step(t) \/ Refused(t) \/ Killed(t)
      PROVE  FaultInv'
  BY <1>2, CommandFault
<1>3. ASSUME NEW n \in Names, Schedule(n) \/ Gone(n)
      PROVE  FaultInv'
  <2>1. UNCHANGED <<configMap, job, fabric, calm>>
    BY <1>3 DEF Schedule, Gone
  <2>2. \A t \in Terminals : Ended(t, "ok")' => Ended(t, "ok")
    <3>1. CASE Schedule(n)
      BY <3>1 DEF Schedule, Ended
    <3>2. CASE Gone(n)
      BY <3>2, GoneType DEF RunInv, Types, Ended
    <3>3. QED
      BY <1>3, <3>1, <3>2
  <2>3. QED
    BY <2>1, <2>2, FaultKept DEF FaultInv
<1>4. ASSUME NEW node \in Nodes, OtherPod(node)
      PROVE  FaultInv'
  BY <1>4 DEF OtherPod, Trouble, FaultInv, FaultEndsWithScenario
<1>5. CASE Deploy
  BY <1>5, FaultKept DEF Deploy, Ended
<1>6. CASE UNCHANGED vars
  BY <1>6 DEF vars, cluster, FaultInv, FaultEndsWithScenario, Ended
<1>7. QED
  BY <1>1, <1>2, <1>3, <1>4, <1>5, <1>6 DEF Next

\* When commands run one at a time, and no call of the last one failed, the training
\* job suffers from the fabric only in a scenario of the fabric (SyncScenarioControl).
THEOREM FaultsEnd ==
  ASSUME OneAtATime
  PROVE  Spec => []FaultEndsWithScenario
<1>1. Init => RunInv /\ FaultInv
  BY InitRunInv DEF Init, FaultInv, FaultEndsWithScenario
<1>2. FaultInv => FaultEndsWithScenario
  BY DEF FaultInv
<1>3. QED
  BY <1>1, NextRunInv, NextFault, <1>2, PTL DEF Spec
-----------------------------------------------------------------------------
(* The verdict *)

LEMMA NamesAreFinite == IsFiniteSet(Names)
<1>1. ASSUME NEW s \in Scenarios PROVE IsFiniteSet(Of(s))
  <2> DEFINE f == [i \in 1..Len(Actions[s]) |-> Actions[s][i].name]
  <2>1. f \in Surjection(1..Len(Actions[s]), Of(s))
    BY ActionsType DEF Surjection, Of
  <2>2. IsFiniteSet(1..Len(Actions[s]))
    BY ActionsType, FS_Interval
  <2>3. QED
    BY <2>1, <2>2, FS_Surjection
<1> DEFINE all == [s \in Scenarios |-> Of(s)]
           T == {Of(s) : s \in Scenarios}
<1>2. all \in Surjection(Scenarios, T)
  BY DEF Surjection
<1>3. IsFiniteSet(T) /\ \A S \in T : IsFiniteSet(S)
  BY <1>1, <1>2, FS_Surjection, ScenarioRunAssumption
<1>4. IsFiniteSet(UNION T)
  BY <1>3, FS_UNION
<1>5. Names \subseteq UNION T
  <2>1. SUFFICES ASSUME NEW n \in Names PROVE \E s \in Scenarios : n \in Of(s)
    OBVIOUS
  <2>2. PICK w \in Workloads : n = w.name
    BY DEF Names
  <2>3. PICK s \in Scenarios : w \in {Actions[s][i] : i \in DOMAIN Actions[s]}
    BY <2>2 DEF Workloads
  <2>4. QED
    BY <2>2, <2>3 DEF Of
<1>6. QED
  BY <1>4, <1>5, FS_Subset

LEMMA NameOfWorkload ==
  ASSUME NEW n \in Names
  PROVE  Workload(n) \in Workloads /\ Workload(n).gpus \in Nat
<1>1. \E w \in Workloads : w.name = n
  BY DEF Names
<1>2. QED
  BY <1>1, ScenarioRunAssumption DEF Workload

\* More Pods hold more GPUs.
LEMMA UnitsGrow ==
  ASSUME NEW S, NEW T \in SUBSET Names, S \subseteq T
  PROVE  /\ Cardinality(Units(S)) \in Nat /\ Cardinality(Units(T)) \in Nat
         /\ Cardinality(Units(S)) <= Cardinality(Units(T))
<1>1. IsFiniteSet(T)
  BY NamesAreFinite, FS_Subset
<1>2. ASSUME NEW n \in T PROVE IsFiniteSet({n} \X (1..Workload(n).gpus))
  <2>1. Workload(n).gpus \in Int /\ 1 \in Int
    BY NameOfWorkload
  <2>2. IsFiniteSet(1..Workload(n).gpus)
    BY <2>1, FS_Interval, Zenon
  <2>3. QED
    BY <2>2, FS_Singleton, FS_Product
<1> DEFINE of == [n \in T |-> {n} \X (1..Workload(n).gpus)]
           parts == {{n} \X (1..Workload(n).gpus) : n \in T}
<1>3. of \in Surjection(T, parts)
  BY DEF Surjection
<1>4. IsFiniteSet(parts) /\ \A p \in parts : IsFiniteSet(p)
  BY <1>1, <1>2, <1>3, FS_Surjection
<1>5. IsFiniteSet(Units(T))
  BY <1>4, FS_UNION DEF Units
<1>6. Units(S) \in SUBSET Units(T)
  BY DEF Units
<1>7. QED
  BY <1>5, <1>6, FS_Subset, FS_CardinalityType

\* The workload n was applied.
Applied(t, n) ==
  \E j \in DOMAIN Actions[configMap] :
    /\ Actions[configMap][j].name = n
    /\ j < command[t].step \/ (j = command[t].step /\ command[t].pc = "ready")

Settles(t) == command[t].pc \in {"workload", "ready"} \/ Ended(t, "ok")

\* From the first workload on.
Settled(t) ==
  \A n \in Of(configMap) :
    /\ ~Workload(n).wait => pods[n] # "running"
    /\ pods[n] # "absent" => Applied(t, n)

VerdictInv ==
  /\ taken \in [Nodes -> Nat]
  /\ \A n \in Names : pods[n] = "running" => Workload(n).node \in {place[n], Anywhere}
  /\ \A t \in Terminals : Settles(t) => Settled(t)

\* The awaited Pods before it run where they belong, and leave no room for n.
LEMMA NoRoom ==
  ASSUME Crowded, RunInv, VerdictInv, NEW t \in Terminals, Settles(t),
         NEW n \in Of(configMap), ~Workload(n).wait, pods[n] = "pending", NEW node \in Nodes
  PROVE  ~Fits(n, node)
<1>1. configMap \in Scenarios
  BY DEF RunInv, Types, ClusterType
<1>2. PICK j \in DOMAIN Actions[configMap] :
        /\ Actions[configMap][j].name = n
        /\ j < command[t].step \/ (j = command[t].step /\ command[t].pc = "ready")
  BY DEF VerdictInv, Settled, Applied
<1>3. Workload(n) = Actions[configMap][j] /\ n \in Names /\ Workload(n).gpus \in Nat
  BY <1>1, <1>2, OfNames, NameOfWorkload
<1>4. ASSUME NEW i \in 1..(j - 1)
      PROVE  i \in DOMAIN Actions[configMap] /\ There(Actions[configMap][i].name)
  <2>1. i \in DOMAIN Actions[configMap] /\ i < j
    BY <1>1, ActionsType
  <2>2. CASE command[t].pc \in {"workload", "ready"}
    <3>1. command[t].step \in Nat /\ j \in Nat /\ i \in Nat
      BY <1>1, ActionsType DEF RunInv, Types, CommandType, Commands
    <3>2. i < command[t].step /\ Building(t)
      BY <1>2, <2>1, <2>2, <3>1 DEF RunInv, Stage
    <3>3. QED
      BY <2>1, <3>2 DEF Building
  <2>3. CASE Ended(t, "ok")
    BY <1>1, <2>1, <2>3, OfNames DEF RunInv, Stage, Complete
  <2>4. QED
    BY <2>1, <2>2, <2>3 DEF Settles
<1>5. Before(configMap, j, node) \subseteq {m \in Names : place[m] = node}
  <2>1. SUFFICES ASSUME NEW i \in 1..(j - 1), Actions[configMap][i].wait,
                        Actions[configMap][i].node = node
                 PROVE  /\ Actions[configMap][i].name \in Names
                        /\ place[Actions[configMap][i].name] = node
    BY DEF Before
  <2> DEFINE m == Actions[configMap][i].name
  <2>2. m \in Names /\ Workload(m) = Actions[configMap][i] /\ There(m)
    BY <1>1, <1>4, OfNames
  <2>3. pods[m] = "running"
    BY <2>1, <2>2 DEF There
  <2>4. Workload(m).node \in {place[m], Anywhere} /\ node # Anywhere
    BY <2>2, <2>3, ScenarioRunAssumption DEF VerdictInv
  <2>5. QED
    BY <2>1, <2>2, <2>4
<1>6. CASE Workload(n).node \in {node, Anywhere}
  <2> DEFINE few == Cardinality(Units(Before(configMap, j, node)))
             all == Cardinality(Units({m \in Names : place[m] = node}))
  <2>1. few + Workload(n).gpus > Capacity
    BY <1>1, <1>2, <1>3, <1>6 DEF Crowded
  <2>2. few \in Nat /\ all \in Nat /\ few <= all
    BY <1>5, UnitsGrow
  <2>3. taken[node] \in Nat /\ Held(node) = taken[node] + all
    BY DEF VerdictInv, Held
  <2>4. Capacity \in Nat
    BY ScenarioRunAssumption
  <2> HIDE DEF few, all
  <2>5. ~(Held(node) + Workload(n).gpus <= Capacity)
    BY <1>3, <2>1, <2>2, <2>3, <2>4
  <2>6. QED
    BY <2>5 DEF Fits
<1>7. QED
  BY <1>6 DEF Fits
\* What was applied stays so when the command goes on.
LEMMA AppliedStays ==
  ASSUME RunInv, NEW t \in Terminals, NEW n, Applied(t, n), configMap' = configMap,
         \/ /\ command[t].pc # "ready" /\ command'[t].step \in Nat
            /\ command'[t].step >= command[t].step
         \/ command'[t].step = command[t].step + 1
  PROVE  Applied(t, n)'
<1>1. PICK j \in DOMAIN Actions[configMap] :
        /\ Actions[configMap][j].name = n
        /\ j < command[t].step \/ (j = command[t].step /\ command[t].pc = "ready")
  BY DEF Applied
<1>2. j \in Nat /\ command[t].step \in Nat
  BY ActionsType DEF RunInv, Types, ClusterType, CommandType, Commands
<1>3. j < command'[t].step
  BY <1>1, <1>2
<1>4. QED
  BY <1>1, <1>3 DEF Applied

LEMMA CommandVerdict ==
  ASSUME RunInv, VerdictInv, NEW t \in Terminals, Step(t) \/ Refused(t) \/ Killed(t)
  PROVE  VerdictInv'
<1>1. UNCHANGED <<taken, place>>
  BY DEF Step, DeletePods, PodsGone, Publish, ApplyWorkload, PodReady, Sync, WaitTimesOut,
         Refused, Killed, cluster
<1>2. command[t].pc \in Places /\ command[t].step \in Nat
  BY DEF RunInv, Types, CommandType, Commands
<1>3. Stage(t) /\ (Settles(t) => Settled(t))
  BY DEF RunInv, VerdictInv
<1>4. ASSUME UNCHANGED pods \/ \A n \in Names : pods'[n] = "running" => pods[n] = "running",
             Settles(t)' => Settled(t)'
      PROVE  VerdictInv'
  <2>1. \A u \in Terminals : Settles(u)' => Settled(u)'
    BY <1>4 DEF RunInv, OneAtATime
  <2>2. \A n \in Names : pods'[n] = "running" => Workload(n).node \in {place'[n], Anywhere}
    BY <1>1, <1>4 DEF VerdictInv
  <2>3. QED
    BY <1>1, <2>1, <2>2 DEF VerdictInv
<1>5. ASSUME End(t, "failed") \/ End(t, "killed") PROVE ~Settles(t)'
  BY <1>5, EndType DEF RunInv, Types, Results, Settles, Ended
<1>6. CASE DeletePods(t)
  <2>1. \A n \in Names : pods'[n] = "running" => pods[n] = "running"
    BY <1>6 DEF DeletePods, Terminating
  <2>2. ~Settles(t)'
    <3>1. ASSUME AwaitsDeletion(t) PROVE ~Settles(t)'
      BY <3>1, AwaitsDeletionType DEF RunInv, Types, Settles, Ended
    <3>2. QED
      BY <1>5, <1>6, <3>1 DEF DeletePods
  <2>3. QED
    BY <1>4, <2>1, <2>2
<1>7. CASE PodsGone(t) \/ WaitTimesOut(t) \/ Refused(t) \/ Killed(t)
  <2>1. UNCHANGED pods
    BY <1>7 DEF PodsGone, WaitTimesOut, Refused, Killed, cluster
  <2>2. ~Settles(t)'
    <3>1. ASSUME Goes(t, "publish") PROVE ~Settles(t)'
      BY <3>1, GoesType DEF RunInv, Types, Settles, Ended, Places
    <3>2. QED
      BY <1>5, <1>7, <3>1 DEF PodsGone, WaitTimesOut, Refused, Killed
  <2>3. QED
    BY <1>4, <2>1, <2>2
<1>8. CASE Publish(t)
  <2>1. UNCHANGED pods /\ \A n \in Names : pods[n] = "absent"
    BY <1>3, <1>8 DEF Publish, Stage
  <2>2. configMap' \in Scenarios
    BY <1>8, OtherStepTypes DEF RunInv, Types, ClusterType
  <2>3. Of(configMap') \subseteq Names
    BY <2>2, OfNames DEF Of
  <2>4. Settled(t)'
    BY <2>1, <2>3 DEF Settled
  <2>5. QED
    BY <1>4, <2>1, <2>4
<1>9. CASE ApplyWorkload(t) /\ ~End(t, "failed")
  <2> DEFINE name == Action(t).name
  <2>1. /\ Building(t) /\ Remaining(t) /\ configMap' = configMap /\ command[t].pc = "workload"
        /\ pods' = [pods EXCEPT ![name] = IF pods[name] = "absent" THEN "pending"
                                                                  ELSE pods[name]]
        /\ AwaitsReady(t)
    BY <1>3, <1>9 DEF ApplyWorkload, Stage
  <2>2. /\ name \in Names /\ configMap = command[t].scenario
        /\ command[t].step \in DOMAIN Actions[configMap]
        /\ name = Actions[configMap][command[t].step].name
    BY <2>1, ActionFacts DEF RunInv, Types, Building
  <2>3. \A n \in Names : pods'[n] = pods[n] \/ (n = name /\ pods'[n] = "pending")
    BY <2>1, <2>2 DEF RunInv, Types, ClusterType
  <2>4. \/ command'[t].pc = "ready" /\ command'[t].step = command[t].step
        \/ command'[t].step = command[t].step + 1
    BY <2>1, GoesType, NextStepType DEF RunInv, Types, AwaitsReady, Places
  <2>5. Settled(t)
    BY <1>3, <2>1 DEF Settles
  <2>6. ASSUME NEW n \in Of(configMap), pods'[n] # "absent" PROVE Applied(t, n)'
    <3>1. CASE n = name
      <4>1. \/ command[t].step < command'[t].step
            \/ command[t].step = command'[t].step /\ command'[t].pc = "ready"
        BY <1>2, <2>4
      <4>2. QED
        BY <2>1, <2>2, <3>1, <4>1 DEF Applied
    <3>2. CASE n # name
      <4>1. n \in Names
        BY OfNames DEF Of, RunInv, Types, ClusterType
      <4>2. Applied(t, n)
        BY <2>3, <2>5, <2>6, <3>2, <4>1 DEF Settled
      <4>3. command'[t].step \in Nat /\ command'[t].step >= command[t].step
        BY <1>2, <2>4
      <4>4. QED
        BY <2>1, <4>2, <4>3, AppliedStays
    <3>3. QED
      BY <3>1, <3>2
  <2>7. Of(configMap) \subseteq Names
    BY OfNames DEF Of, RunInv, Types, ClusterType
  <2>8. \A n \in Of(configMap) : ~Workload(n).wait => pods'[n] # "running"
    BY <2>3, <2>5, <2>7 DEF Settled
  <2>9. Settled(t)'
    BY <2>1, <2>6, <2>8 DEF Settled
  <2>10. QED
    BY <1>4, <2>3, <2>9
<1>10. CASE ApplyWorkload(t) /\ End(t, "failed")
  <2>1. \A n \in Names : pods'[n] = "running" => pods[n] = "running"
    BY <1>10 DEF ApplyWorkload, RunInv, Types, ClusterType
  <2>2. QED
    BY <1>4, <1>5, <1>10, <2>1
<1>11. CASE PodReady(t) \/ Sync(t)
  <2>1. UNCHANGED <<pods, configMap>> /\ Settled(t)
    BY <1>3, <1>11 DEF PodReady, Sync, cluster, Settles
  <2>2. \/ command[t].pc # "ready" /\ command'[t].step = command[t].step
        \/ command'[t].step = command[t].step + 1
    <3>1. CASE PodReady(t)
      BY <3>1, NextStepType DEF PodReady, RunInv, Types
    <3>2. CASE Sync(t)
      BY <3>2, EndType DEF Sync, Dropped, RunInv, Types, Results
    <3>3. QED
      BY <1>11, <3>1, <3>2
  <2>3. \A n : Applied(t, n) => Applied(t, n)'
    BY <1>2, <2>1, <2>2, AppliedStays
  <2>4. Settled(t)'
    BY <2>1, <2>3 DEF Settled
  <2>5. QED
    BY <1>4, <2>1, <2>4
<1>12. QED
  BY <1>6, <1>7, <1>8, <1>9, <1>10, <1>11 DEF Step

\* A Pod that is to stay pending finds no node, and no other takes part.
LEMMA ScheduleVerdict ==
  ASSUME Crowded, RunInv, VerdictInv, NEW m \in Names, Schedule(m)
  PROVE  VerdictInv'
<1>1. PICK node \in Nodes : Fits(m, node) /\ place' = [place EXCEPT ![m] = node]
  BY DEF Schedule
<1>2. /\ pods[m] = "pending" /\ UNCHANGED <<configMap, command, taken>>
      /\ \A n \in Names : pods'[n] = IF n = m THEN "running" ELSE pods[n]
      /\ \A n \in Names : place'[n] = IF n = m THEN node ELSE place[n]
  BY <1>1 DEF Schedule, RunInv, Types, ClusterType
<1>3. \A n \in Names : pods'[n] = "running" => Workload(n).node \in {place'[n], Anywhere}
  BY <1>1, <1>2 DEF Fits, VerdictInv
<1>4. ASSUME NEW t \in Terminals, Settles(t)' PROVE Settled(t)'
  <2>1. Settles(t) /\ Settled(t)
    BY <1>2, <1>4 DEF Settles, Ended, VerdictInv
  <2>2. m \in Of(configMap) /\ Of(configMap) \subseteq Names
    BY <1>2, OfNames DEF RunInv, PodsOfConfigMap, Of, Types, ClusterType
  <2>3. Workload(m).wait
    BY <1>1, <1>2, <2>1, <2>2, NoRoom
  <2>4. \A n : Applied(t, n) => Applied(t, n)'
    BY <1>2 DEF Applied
  <2>5. QED
    BY <1>2, <2>1, <2>2, <2>3, <2>4 DEF Settled
<1>5. QED
  BY <1>2, <1>3, <1>4 DEF VerdictInv

LEMMA GoneVerdict ==
  ASSUME RunInv, VerdictInv, NEW m \in Names, Gone(m)
  PROVE  VerdictInv'
<1>1. /\ pods[m] = "terminating" /\ UNCHANGED <<configMap, taken>>
      /\ \A n \in Names : pods'[n] = IF n = m THEN "absent" ELSE pods[n]
      /\ \A n \in Names : place'[n] = IF n = m THEN Anywhere ELSE place[n]
  BY DEF Gone, RunInv, Types, ClusterType
<1>2. ASSUME NEW t \in Terminals PROVE ~Settles(t)'
  <2>1. command'[t].pc = command[t].pc /\ command'[t].result = command[t].result
    BY GoneType DEF RunInv, Types
  <2>2. ~Building(t) /\ ~Complete
    BY <1>1 DEF Building, Complete, There
  <2>3. QED
    BY <2>1, <2>2 DEF Settles, Ended, RunInv, Stage
<1>3. \A n \in Names : pods'[n] = "running" => Workload(n).node \in {place'[n], Anywhere}
  BY <1>1 DEF VerdictInv
<1>4. QED
  BY <1>1, <1>2, <1>3 DEF VerdictInv

\* Neither the commands of a scenario nor its Pods.
LEMMA OutsideVerdict ==
  ASSUME VerdictInv, UNCHANGED <<pods, place, configMap, command>>, taken' \in [Nodes -> Nat]
  PROVE  VerdictInv'
BY DEF VerdictInv, Settles, Settled, Applied, Ended

LEMMA NextVerdict ==
  ASSUME Crowded
  PROVE  RunInv /\ VerdictInv /\ [Next]_vars => VerdictInv'
<1> SUFFICES ASSUME RunInv, VerdictInv, [Next]_vars PROVE VerdictInv'
  OBVIOUS
<1>1. ASSUME NEW t \in Terminals, NEW s \in Scenarios, Start(t, s)
      PROVE  VerdictInv'
  <2>1. ~Settles(t)' /\ \A u \in Terminals : u = t
    BY <1>1, StartType DEF RunInv, Types, OneAtATime, Settles, Ended
  <2>2. UNCHANGED <<pods, place, taken>>
    BY <1>1 DEF Start, cluster
  <2>3. QED
    BY <2>1, <2>2 DEF VerdictInv
<1>2. ASSUME NEW t \in Terminals, Step(t) \/ Refused(t) \/ Killed(t)
      PROVE  VerdictInv'
  BY <1>2, CommandVerdict
<1>3. ASSUME NEW n \in Names, Schedule(n) \/ Gone(n)
      PROVE  VerdictInv'
  BY <1>3, ScheduleVerdict, GoneVerdict
<1>4. ASSUME NEW node \in Nodes, OtherPod(node)
      PROVE  VerdictInv'
  <2>1. taken' \in [Nodes -> Nat]
    BY <1>4 DEF OtherPod, VerdictInv
  <2>2. QED
    BY <1>4, <2>1, OutsideVerdict DEF OtherPod
<1>5. CASE Deploy
  BY <1>5, OutsideVerdict DEF Deploy, VerdictInv
<1>6. CASE UNCHANGED vars
  BY <1>6, OutsideVerdict DEF vars, cluster, VerdictInv
<1>7. QED
  BY <1>1, <1>2, <1>3, <1>4, <1>5, <1>6 DEF Next

\* When commands run one at a time, and each scenario awaits as many Pods on a node as
\* leave no room there for the one that is to stay pending, that one is pending when the
\* scenario was reported as applied, and stays so (applyScenario, WaitForScenarioPod).
THEOREM VerdictsStay ==
  ASSUME OneAtATime, Crowded
  PROVE  Spec => []VerdictStays
<1>1. Init => RunInv /\ VerdictInv
  <2>1. Init => VerdictInv
    BY DEF Init, Fresh, VerdictInv, Settles, Ended
  <2>2. QED
    BY <2>1, InitRunInv
<1>2. RunInv /\ VerdictInv => VerdictStays
  BY DEF VerdictInv, Settles, Settled, VerdictStays
<1>3. QED
  BY <1>1, NextRunInv, NextVerdict, <1>2, PTL DEF Spec

-----------------------------------------------------------------------------
(* A command that nothing disturbs *)

\* Only what the scheduler has placed holds GPUs, and nothing else does while a command
\* is not disturbed.
CalmInv ==
  /\ \A n \in Names : pods[n] \in {"absent", "pending"} => place[n] = Anywhere
  /\ \A t \in Terminals : calm[t] => \A node \in Nodes : taken[node] = 0
  /\ \A t \in Terminals : command[t].pc = "ready" => Action(t).wait
  /\ CalmSucceeds

\* The Pod that is awaited, and not yet placed, has a node.
LEMMA RoomForAwaited ==
  ASSUME Roomy, RunInv, VerdictInv, CalmInv, NEW t \in Terminals, calm[t],
         command[t].pc = "ready", pods[Action(t).name] = "pending"
  PROVE  \E node \in Nodes : Fits(Action(t).name, node)
<1> DEFINE j == command[t].step
           name == Action(t).name
<1>1. /\ Building(t) /\ configMap = command[t].scenario /\ configMap \in Scenarios
      /\ Settled(t) /\ Types
  BY DEF RunInv, Stage, Building, Types, ClusterType, VerdictInv, Settles
<1>2. /\ j \in DOMAIN Actions[configMap] /\ Action(t) = Actions[configMap][j]
      /\ Action(t).wait /\ Workload(name) = Action(t) /\ name \in Names
      /\ Workload(name).gpus \in Nat
  BY <1>1, ActionFacts, NameOfWorkload DEF RunInv, Types, Stage, CalmInv
<1> HIDE DEF j, name
<1>3. PICK node \in Nodes :
        /\ Actions[configMap][j].node \in {node, Anywhere}
        /\ Cardinality(Units(Beside(configMap, j, node))) + Actions[configMap][j].gpus <= Capacity
  BY <1>1, <1>2 DEF Roomy
<1> DEFINE there == {m \in Names : place[m] = node}
<1>4. there \subseteq Beside(configMap, j, node)
  <2> SUFFICES ASSUME NEW m \in Names, place[m] = node
               PROVE  m \in Beside(configMap, j, node)
    OBVIOUS
  <2>1. pods[m] = "running"
    <3>1. pods[m] \in {"running", "terminating"}
      BY <1>1, ScenarioRunAssumption DEF Types, ClusterType, CalmInv
    <3>2. QED
      BY <1>1, <3>1 DEF Building
  <2>2. m \in Of(configMap)
    BY <1>1, <2>1 DEF Building
  <2>3. Workload(m).wait /\ Applied(t, m) /\ Workload(m).node \in {node, Anywhere}
    BY <1>1, <2>1, <2>2 DEF Settled, VerdictInv
  <2>4. PICK i \in DOMAIN Actions[configMap] : Actions[configMap][i].name = m /\ i <= j
    <3>1. PICK i \in DOMAIN Actions[configMap] :
            Actions[configMap][i].name = m /\ (i < j \/ i = j)
      BY <2>3 DEF Applied, j
    <3>2. i \in Nat /\ j \in Nat
      BY <1>1, <1>2, ActionsType
    <3>3. QED
      BY <3>1, <3>2
  <2>5. i # j
    BY <1>2, <2>1, <2>4 DEF name
  <2>6. i \in 1 .. (j - 1) /\ Workload(m) = Actions[configMap][i]
    <3>1. i \in Nat \ {0} /\ j \in Nat
      BY <1>1, <1>2, ActionsType
    <3>2. QED
      BY <1>1, <2>4, <2>5, <3>1, OfNames
  <2>7. m \in Before(configMap, j, node) \/ m \in Before(configMap, j, Anywhere)
    BY <2>3, <2>4, <2>6 DEF Before
  <2>8. QED
    BY <2>7 DEF Beside
<1>5. Beside(configMap, j, node) \subseteq Names
  <2>1. \A i \in 1 .. (j - 1) : i \in DOMAIN Actions[configMap]
    BY <1>1, <1>2, ActionsType
  <2>2. QED
    BY <1>1, <2>1, OfNames DEF Beside, Before
<1> DEFINE few == Cardinality(Units(there))
           all == Cardinality(Units(Beside(configMap, j, node)))
<1>6. few \in Nat /\ all \in Nat /\ few <= all
  BY <1>4, <1>5, UnitsGrow
<1>7. Held(node) = few
  <2>1. taken[node] = 0
    BY DEF CalmInv
  <2>2. Held(node) = taken[node] + few
    BY DEF Held
  <2>3. QED
    BY <1>6, <2>1, <2>2
<1>8. all + Workload(name).gpus <= Capacity /\ Workload(name).node \in {node, Anywhere}
  BY <1>2, <1>3
<1> HIDE DEF few, all
<1>9. Held(node) + Workload(name).gpus <= Capacity
  <2>1. Capacity \in Nat
    BY ScenarioRunAssumption
  <2>2. QED
    BY <1>2, <1>6, <1>7, <1>8, <2>1
<1>10. QED
  BY <1>8, <1>9 DEF Fits, name

\* It does not give up.
LEMMA NoWaitTimesOut ==
  ASSUME Roomy, RunInv, VerdictInv, CalmInv, NEW t \in Terminals, WaitTimesOut(t)
  PROVE  ~calm[t]
<1> SUFFICES ASSUME calm[t] PROVE FALSE
  OBVIOUS
<1>1. command[t].pc = "ready" /\ Building(t) /\ Remaining(t)
  BY DEF WaitTimesOut, RunInv, Stage
<1>2. Action(t).name \in Of(configMap) /\ Action(t).name \in Names
  BY <1>1, ActionFacts DEF RunInv, Types, Building
<1>3. pods[Action(t).name] \notin {"absent", "terminating"}
  BY <1>1, <1>2 DEF RunInv, Stage, Building
<1>4. pods[Action(t).name] = "pending" => \E node \in Nodes : Fits(Action(t).name, node)
  BY <1>1, RoomForAwaited
<1>5. QED
  BY <1>3, <1>4 DEF WaitTimesOut

LEMMA CommandCalm ==
  ASSUME Roomy, RunInv, VerdictInv, CalmInv, NEW t \in Terminals,
         Step(t) \/ Refused(t) \/ Killed(t)
  PROVE  CalmInv'
<1>1. UNCHANGED <<taken, place>> /\ \A u \in Terminals : u = t
  BY DEF Step, DeletePods, PodsGone, Publish, ApplyWorkload, PodReady, Sync, WaitTimesOut,
         Refused, Killed, cluster, RunInv, OneAtATime
<1>2. \A n \in Names :
        pods'[n] \in {"absent", "pending"} => pods[n] \in {"absent", "pending"}
  <2>1. pods \in [Names -> {"absent", "pending", "running", "terminating"}]
    BY DEF RunInv, Types, ClusterType
  <2>2. CASE DeletePods(t)
    BY <2>1, <2>2 DEF DeletePods, Terminating
  <2>3. CASE ApplyWorkload(t)
    BY <2>1, <2>3 DEF ApplyWorkload
  <2>4. CASE UNCHANGED pods
    BY <2>4
  <2>5. QED
    BY <2>2, <2>3, <2>4 DEF Step, PodsGone, Publish, PodReady, Sync, WaitTimesOut, Refused,
                            Killed, cluster
<1>3. CommandType /\ (command[t].pc = "ready" => Action(t).wait)
  BY DEF RunInv, Types, CalmInv
<1>4. Trouble => ~calm'[t]
  BY DEF Trouble
<1>5. calm'[t] => calm[t]
  BY <1>4 DEF Step, DeletePods, PodsGone, Publish, ApplyWorkload, PodReady, Sync,
              WaitTimesOut, Refused, Killed, Smooth, Then
<1>6. /\ command'[t].pc = "ready" => Action(t)'.wait
      /\ command'[t].pc = "idle" /\ calm'[t] => command'[t].result = "ok"
  <2>1. ASSUME End(t, "failed") \/ End(t, "killed") PROVE command'[t].pc = "idle"
    BY <1>3, <2>1, EndType DEF Results
  <2>2. CASE DeletePods(t)
    <3>1. CASE AwaitsDeletion(t)
      BY <1>3, <3>1, AwaitsDeletionType
    <3>2. QED
      BY <1>4, <2>1, <2>2, <3>1 DEF DeletePods
  <2>3. CASE PodsGone(t)
    BY <1>3, <2>3, GoesType DEF PodsGone, Places
  <2>4. CASE Publish(t)
    <3>1. CASE Goes(t, "workload")
      BY <1>3, <3>1, GoesType DEF Places
    <3>2. QED
      BY <1>4, <2>1, <2>4, <3>1 DEF Publish, Then
  <2>5. CASE ApplyWorkload(t)
    <3>1. CASE NextStep(t)
      BY <1>3, <3>1, NextStepType
    <3>2. CASE Goes(t, "ready") /\ Action(t).wait
      <4>1. /\ command'[t].pc = "ready" /\ command'[t].step = command[t].step
            /\ command'[t].scenario = command[t].scenario
        BY <1>3, <3>2, GoesType DEF Places
      <4>2. QED
        BY <3>2, <4>1 DEF Action
    <3>3. QED
      BY <1>4, <2>1, <2>5, <3>1, <3>2 DEF ApplyWorkload, AwaitsReady
  <2>6. CASE PodReady(t)
    BY <1>3, <2>6, NextStepType DEF PodReady
  <2>7. CASE Sync(t)
    BY <1>3, <2>7, EndType DEF Sync, Dropped, Results
  <2>8. CASE WaitTimesOut(t)
    BY <1>5, <2>1, <2>8, NoWaitTimesOut DEF WaitTimesOut
  <2>9. CASE Refused(t) \/ Killed(t)
    BY <1>4, <2>1, <2>9 DEF Refused, Killed
  <2>10. QED
    BY <2>2, <2>3, <2>4, <2>5, <2>6, <2>7, <2>8, <2>9 DEF Step
<1>7. QED
  BY <1>1, <1>2, <1>5, <1>6 DEF CalmInv, CalmSucceeds

LEMMA NextCalm ==
  ASSUME Roomy
  PROVE  RunInv /\ VerdictInv /\ CalmInv /\ [Next]_vars => CalmInv'
<1> SUFFICES ASSUME RunInv, VerdictInv, CalmInv, [Next]_vars PROVE CalmInv'
  OBVIOUS
<1>1. ASSUME NEW t \in Terminals, NEW s \in Scenarios, Start(t, s)
      PROVE  CalmInv'
  <2>1. \A u \in Terminals : u = t /\ command'[u].pc = "delete" /\ command'[u].result = "none"
    BY <1>1, StartType DEF RunInv, Types, OneAtATime
  <2>2. UNCHANGED <<pods, place, taken>>
    BY <1>1 DEF Start, cluster
  <2>3. calm'[t] <=> \A node \in Nodes : taken[node] = 0
    BY <1>1 DEF Start, RunInv, Types, ClusterType
  <2>4. QED
    BY <2>1, <2>2, <2>3 DEF CalmInv, CalmSucceeds
<1>2. ASSUME NEW t \in Terminals, Step(t) \/ Refused(t) \/ Killed(t)
      PROVE  CalmInv'
  BY <1>2, CommandCalm
<1>3. ASSUME NEW n \in Names, Schedule(n)
      PROVE  CalmInv'
  <2>1. PICK node \in Nodes : place' = [place EXCEPT ![n] = node]
    BY <1>3 DEF Schedule
  <2>2. /\ \A m \in Names : pods'[m] = IF m = n THEN "running" ELSE pods[m]
        /\ \A m \in Names : place'[m] = IF m = n THEN node ELSE place[m]
        /\ UNCHANGED <<taken, calm, command>>
    BY <1>3, <2>1 DEF Schedule, RunInv, Types, ClusterType
  <2>3. QED
    BY <2>2 DEF CalmInv, CalmSucceeds, Action
<1>4. ASSUME NEW n \in Names, Gone(n)
      PROVE  CalmInv'
  <2>1. /\ \A m \in Names : pods'[m] = IF m = n THEN "absent" ELSE pods[m]
        /\ \A m \in Names : place'[m] = IF m = n THEN Anywhere ELSE place[m]
        /\ UNCHANGED <<taken, calm>>
    BY <1>4 DEF Gone, RunInv, Types, ClusterType
  <2>2. \A t \in Terminals :
          /\ command'[t].pc = command[t].pc /\ command'[t].result = command[t].result
          /\ command'[t].scenario = command[t].scenario /\ command'[t].step = command[t].step
    BY <1>4, GoneType DEF RunInv, Types
  <2>3. QED
    BY <2>1, <2>2 DEF CalmInv, CalmSucceeds, Action
<1>5. ASSUME NEW node \in Nodes, OtherPod(node)
      PROVE  CalmInv'
  BY <1>5 DEF OtherPod, Trouble, CalmInv, CalmSucceeds, Action
<1>6. CASE UNCHANGED <<pods, place, taken, command, calm>>
  BY <1>6 DEF CalmInv, CalmSucceeds, Action
<1>7. QED
  BY <1>1, <1>2, <1>3, <1>4, <1>5, <1>6 DEF Next, Deploy, vars, cluster

\* Of commands that run one at a time, for scenarios whose awaited Pods have room and leave
\* none to those that are not: one that nothing disturbs succeeds, whatever the commands
\* before it have left (applyScenario, WaitForScenarioPod).
THEOREM CalmCommandsSucceed ==
  ASSUME OneAtATime, Crowded, Roomy
  PROVE  Spec => []CalmSucceeds
<1>1. Init => RunInv /\ VerdictInv /\ CalmInv
  <2>1. Init => VerdictInv
    BY DEF Init, Fresh, VerdictInv, Settles, Ended
  <2>2. Init => CalmInv
    BY DEF Init, Fresh, CalmInv, CalmSucceeds
  <2>3. QED
    BY <2>1, <2>2, InitRunInv
<1>2. CalmInv => CalmSucceeds
  BY DEF CalmInv
<1>3. QED
  BY <1>1, <1>2, NextRunInv, NextVerdict, NextCalm, PTL DEF Spec

-----------------------------------------------------------------------------
(* The control document *)

\* What the gate lets pass has no fault in it that a worker would read.
LEMMA GateIsSound == Documents!GateSound
<1> SUFFICES ASSUME Documents!EvaluateTrainingControl(doc)
             PROVE  Documents!ActsOn(doc) = Documents!NoFault
  BY DEF Documents!GateSound
<1>1. /\ doc.straggler = "absent" /\ doc.crash = "absent"
      /\ doc.straggler_rank \in {"absent", "null"} /\ doc.crash_rank \in {"absent", "null"}
  BY DEF Documents!EvaluateTrainingControl, Documents!Strict, Documents!Unset,
         Documents!Absent, Documents!Null
<1>2. Documents!EffectiveFabricMode(Documents!Lower(Documents!Text(doc.fabric_mode))) = "normal"
  BY DEF Documents!EvaluateTrainingControl, Documents!EffectiveFabricMode
<1>3. Documents!Reading(doc) = Documents!NoFault
  BY <1>1, <1>2 DEF Documents!Reading, Documents!NoFault, Documents!NonNegative,
                    Documents!NestedCounts
<1>4. QED
  BY <1>3 DEF Documents!ActsOn

\* A document that was recovered: every field of a fault is gone.
Repaired(d) ==
  /\ d.shape = "object" /\ d.generation = "#1" /\ d.fabric_mode = "normal"
  /\ \A k \in Documents!Keys \ {"shape", "generation", "fabric_mode"} : d[k] = "absent"

LEMMA RepairedPasses ==
  ASSUME NEW d, Repaired(d)
  PROVE  Documents!EvaluateTrainingControl(d) /\ Documents!Readable(d)
<1>1. /\ d.straggler = "absent" /\ d.crash = "absent" /\ d.straggler_rank = "absent"
      /\ d.straggler_delay = "absent" /\ d.crash_rank = "absent" /\ d.crash_token = "absent"
      /\ d.fabric_target_node = "absent" /\ d.fabric_delay = "absent"
      /\ d.shape = "object" /\ d.generation = "#1" /\ d.fabric_mode = "normal"
  BY DEF Repaired, Documents!Keys, Documents!Values
<1> USE DEF Documents!Absent, Documents!Null, Documents!Unset, Documents!Odd
<1>2. Documents!OptionalText("absent") /\ Documents!OptionalText("normal")
  BY DEF Documents!OptionalText, Documents!Texts
<1>3. Documents!OptionalNumber("absent") /\ Documents!OptionalNumber("#1")
  BY DEF Documents!OptionalNumber, Documents!Numbers
<1>4. /\ Documents!Text("absent") = "" /\ Documents!Text("normal") = "normal"
      /\ Documents!Trim("") = "" /\ Documents!Lower("normal") = "normal"
  BY DEF Documents!Text, Documents!IsText, Documents!Texts, Documents!Trim, Documents!Lower
<1>5. Documents!Strict(d)
  BY <1>1, <1>2, <1>3 DEF Documents!Strict
<1>6. Documents!EvaluateTrainingControl(d)
  BY <1>1, <1>4, <1>5 DEF Documents!EvaluateTrainingControl
<1>7. Documents!Readable(d)
  BY <1>1, <1>2 DEF Documents!Readable, Documents!StragglerReadable, Documents!CrashReadable,
                    Documents!DelayReadable
<1>8. QED
  BY <1>6, <1>7

\* What the commands write is an object, and only theirs.
LEMMA DecodedIs ==
  ASSUME NEW d
  PROVE  /\ DOMAIN Documents!Decoded(d) = Documents!Keys
         /\ Documents!Decoded(d).shape = "object" /\ Documents!Decoded(d).generation = "#1"
         /\ Documents!Decoded(d).straggler = "absent" /\ Documents!Decoded(d).crash = "absent"
         /\ \A k \in {"straggler_rank", "straggler_delay", "crash_rank", "crash_token"} :
              Documents!Decoded(d)[k] =
                IF d.shape = "null" \/ d[k] \in {"absent", "null", ""} THEN "absent" ELSE d[k]
BY DEF Documents!Decoded, Documents!Keys, Documents!Values, Documents!Absent, Documents!Null,
       Documents!Unset

LEMMA RecoverRepairsIt ==
  Documents!Recover /\ Documents!Decodes(doc) => Repaired(doc')
<1> SUFFICES ASSUME Documents!Recover, Documents!Decodes(doc) PROVE Repaired(doc')
  OBVIOUS
<1> DEFINE d == Documents!Decoded(doc)
           r == Documents!Recovered(d)
<1>1. doc' = Documents!JSON(r)
  BY DEF Documents!Recover, Documents!Mutate
<1>2. /\ DOMAIN d = Documents!Keys /\ d.shape = "object" /\ d.generation = "#1"
      /\ d.straggler = "absent" /\ d.crash = "absent"
  BY DecodedIs
<1>3. Documents!Keys = {"shape", "generation", "straggler", "crash", "straggler_rank",
                        "straggler_delay", "crash_rank", "crash_token", "fabric_mode",
                        "fabric_target_node", "fabric_delay"}
  BY DEF Documents!Keys, Documents!Values
<1> HIDE DEF d
<1>4. /\ DOMAIN r = Documents!Keys /\ r.fabric_mode = "normal" /\ Repaired(r)
  BY <1>2, <1>3 DEF Documents!Recovered, Documents!ClearFabric, Repaired, Documents!Absent
<1> HIDE DEF r
<1>5. Documents!Lower(Documents!Text("normal")) = "normal"
  BY DEF Documents!Text, Documents!IsText, Documents!Texts, Documents!Lower, Documents!Trim
<1>6. Documents!JSON(r) = [r EXCEPT !.fabric_mode = "normal", !.fabric_target_node = "absent",
                                    !.fabric_delay = "absent"]
  BY <1>4, <1>5 DEF Documents!JSON, Documents!Absent
<1>7. QED
  BY <1>1, <1>3, <1>4, <1>6 DEF Repaired

\* What of a document a worker reads of the straggler and the crash.
Flat == {"straggler_rank", "straggler_delay", "crash_rank", "crash_token"}

\* Synchronizing changes the fabric only.
LEMMA SyncIs ==
  ASSUME Documents!SyncScenario, Documents!Decodes(doc)
  PROVE  /\ doc'.shape = "object" /\ doc'.straggler = "absent" /\ doc'.crash = "absent"
         /\ \A k \in Flat : doc'[k] = Documents!Decoded(doc)[k]
         /\ doc'.fabric_mode \in {"normal", "down"}
         /\ doc'.fabric_target_node \in {"absent", "gpu-node-02"}
         /\ doc'.fabric_delay = "absent"
<1> DEFINE d == Documents!Decoded(doc)
<1>1. /\ DOMAIN d = Documents!Keys /\ d.shape = "object" /\ d.generation = "#1"
      /\ d.straggler = "absent" /\ d.crash = "absent"
  BY DecodedIs
<1>2. Documents!Keys = {"shape", "generation", "straggler", "crash", "straggler_rank",
                        "straggler_delay", "crash_rank", "crash_token", "fabric_mode",
                        "fabric_target_node", "fabric_delay"}
  BY DEF Documents!Keys, Documents!Values
<1>3. PICK c \in {Documents!ClearFabric(d), Documents!FabricDown(d)} : doc' = Documents!JSON(c)
  BY DEF Documents!SyncScenario, Documents!Mutate
<1> HIDE DEF d
<1>4. /\ DOMAIN c = Documents!Keys /\ c.shape = "object"
      /\ c.straggler = "absent" /\ c.crash = "absent" /\ \A k \in Flat : c[k] = d[k]
      /\ c.fabric_mode \in {"normal", "down"} /\ c.fabric_delay = "absent"
      /\ c.fabric_target_node \in {"absent", "gpu-node-02"}
  <2>1. CASE c = Documents!ClearFabric(d)
    BY <1>1, <1>2, <2>1 DEF Documents!ClearFabric, Flat, Documents!Absent
  <2>2. CASE c = Documents!FabricDown(d)
    BY <1>1, <1>2, <2>2 DEF Documents!FabricDown, Flat, Documents!Absent
  <2>3. QED
    BY <1>3, <2>1, <2>2
<1>5. Documents!Lower(Documents!Text(c.fabric_mode)) = c.fabric_mode
  BY <1>4 DEF Documents!Text, Documents!IsText, Documents!Texts, Documents!Lower, Documents!Trim
<1>6. \/ doc' = [c EXCEPT !.fabric_mode = "normal", !.fabric_target_node = "absent",
                          !.fabric_delay = "absent"]
      \/ doc' = [c EXCEPT !.fabric_mode = c.fabric_mode]
  BY <1>3, <1>5 DEF Documents!JSON, Documents!Absent
<1>7. \A k \in Documents!Keys \ {"fabric_mode", "fabric_target_node", "fabric_delay"} :
        doc'[k] = c[k]
  BY <1>4, <1>6
<1>8. /\ doc'.fabric_mode \in {"normal", "down"} /\ doc'.fabric_delay = "absent"
      /\ doc'.fabric_target_node \in {"absent", "gpu-node-02"}
  BY <1>2, <1>4, <1>6
<1>9. QED
  BY <1>2, <1>4, <1>7, <1>8 DEF Flat, d

\* The workers read the straggler and the crash as before.
LEMMA SyncKeepsFaults ==
  ASSUME Documents!SyncScenario, Documents!Decodes(doc), Documents!Readable(doc),
         doc.straggler \in Documents!Unset, doc.crash \in Documents!Unset
  PROVE  /\ Documents!ActsOn(doc').straggler = Documents!ActsOn(doc).straggler
         /\ Documents!ActsOn(doc').crash = Documents!ActsOn(doc).crash
<1> USE DEF Documents!Absent, Documents!Null, Documents!Unset, Documents!Odd
<1> DEFINE Later(k) == IF doc.shape = "null" \/ doc[k] \in {"absent", "null", ""}
                       THEN "absent" ELSE doc[k]
<1>1. /\ doc'.shape = "object" /\ doc'.straggler = "absent" /\ doc'.crash = "absent"
      /\ doc'.straggler_rank = Later("straggler_rank") /\ doc'.crash_rank = Later("crash_rank")
      /\ doc'.straggler_delay = Later("straggler_delay") /\ doc'.crash_token = Later("crash_token")
  <2>1. \A k \in Flat : Documents!Decoded(doc)[k] = Later(k)
    BY DecodedIs DEF Flat
  <2>2. \A k \in Flat : doc'[k] = Later(k)
    BY <2>1, SyncIs
  <2>3. QED
    BY <2>2, SyncIs DEF Flat
<1>2. doc.shape \in {"null", "object"}
  BY DEF Documents!Decodes
<1>3. Documents!StragglerReadable(doc') /\ Documents!CrashReadable(doc')
  <2>1. CASE doc.shape = "null"
    BY <1>1, <2>1 DEF Documents!StragglerReadable, Documents!CrashReadable
  <2>2. CASE doc.shape = "object"
    <3>1. Documents!StragglerReadable(doc) /\ Documents!CrashReadable(doc)
      BY <2>2 DEF Documents!Readable
    <3>2. Documents!StragglerReadable(doc')
      BY <1>1, <3>1 DEF Documents!StragglerReadable, Documents!NonNegative
    <3>3. Documents!CrashReadable(doc')
      BY <1>1, <3>1 DEF Documents!CrashReadable, Documents!NonNegative, Documents!OptionalText
    <3>4. QED
      BY <3>2, <3>3
  <2>3. QED
    BY <1>2, <2>1, <2>2
<1>4. Documents!Readable(doc')
  <2>1. /\ Documents!OptionalText("normal") /\ Documents!OptionalText("down")
        /\ Documents!OptionalText("absent") /\ Documents!OptionalText("gpu-node-02")
    BY DEF Documents!OptionalText, Documents!Texts
  <2>2. /\ Documents!OptionalText(doc'.fabric_mode) /\ Documents!DelayReadable(doc'.fabric_delay)
        /\ Documents!OptionalText(doc'.fabric_target_node)
    BY <2>1, SyncIs DEF Documents!DelayReadable
  <2>3. QED
    BY <1>1, <1>3, <2>2 DEF Documents!Readable
<1>5. /\ Documents!ActsOn(doc') = Documents!Reading(doc')
      /\ Documents!ActsOn(doc) = Documents!Reading(doc)
  BY <1>4 DEF Documents!ActsOn
<1>6. Documents!Reading(doc').straggler = Documents!Reading(doc).straggler
  BY <1>1, <1>2 DEF Documents!Reading, Documents!NonNegative, Documents!NestedCounts
<1>7. Documents!Text(Later("crash_token")) # "" <=>
        doc.shape # "null" /\ Documents!Text(doc.crash_token) # ""
  BY DEF Documents!Text, Documents!IsText, Documents!Texts
<1>8. Documents!Reading(doc').crash = Documents!Reading(doc).crash
  BY <1>1, <1>2, <1>7 DEF Documents!Reading, Documents!NonNegative, Documents!NestedCounts
<1>9. QED
  BY <1>5, <1>6, <1>8

\* ControlDocumentHolds: whoever edits the document or writes it, and however often, the
\* recovery gate is not laxer than the workers, gpu training recover repairs what it can
\* decode, and synchronizing a scenario keeps the straggler and the crash of a flat document
\* (internal/training/control.go, internal/trainingjob, internal/verification/recovery.go).
THEOREM ControlDocumentsHold == Documents!Spec => ControlDocumentHolds
<1> DEFINE Inv == last = "recover" => Repaired(doc)
           Holds == Documents!GateSound /\ Documents!RecoverRepairs
           Keeps == last' = "sync" /\ written' # written /\ Documents!Decodes(doc)
                    /\ Documents!Readable(doc) /\ doc.straggler \in Documents!Unset
                    /\ doc.crash \in Documents!Unset
                    => /\ Documents!ActsOn(doc').straggler = Documents!ActsOn(doc).straggler
                       /\ Documents!ActsOn(doc').crash = Documents!ActsOn(doc).crash
<1>1. Documents!Init => Inv
  BY DEF Documents!Init
<1>2. Inv /\ [Documents!Next]_(Documents!vars) => Inv'
  <2> SUFFICES ASSUME Inv, [Documents!Next]_(Documents!vars) PROVE Inv'
    OBVIOUS
  <2>1. CASE Documents!Edit
    BY <2>1 DEF Documents!Edit
  <2>2. CASE Documents!Recover
    <3>1. CASE Documents!Decodes(doc)
      BY <2>2, <3>1, RecoverRepairsIt
    <3>2. CASE ~Documents!Decodes(doc)
      <4>1. doc' = doc /\ last' = last
        BY <2>2, <3>2 DEF Documents!Recover, Documents!Mutate
      <4>2. QED
        BY <4>1
    <3>3. QED
      BY <3>1, <3>2
  <2>3. CASE Documents!SyncScenario \/ Documents!Inject
    <3>1. (doc' = doc /\ last' = last) \/ last' \in {"sync", "inject"}
      BY <2>3 DEF Documents!SyncScenario, Documents!Inject, Documents!Mutate
    <3>2. QED
      BY <3>1
  <2>4. CASE UNCHANGED Documents!vars
    <3>1. doc' = doc /\ last' = last
      BY <2>4 DEF Documents!vars
    <3>2. QED
      BY <3>1
  <2>5. QED
    BY <2>1, <2>2, <2>3, <2>4 DEF Documents!Next
<1>3. Inv => Holds
  BY GateIsSound, RepairedPasses DEF Documents!RecoverRepairs
<1>4. [Documents!Next]_(Documents!vars) => [Keeps]_(Documents!vars)
  <2> SUFFICES ASSUME Documents!Next, last' = "sync", written' # written,
                      Documents!Decodes(doc), Documents!Readable(doc),
                      doc.straggler \in Documents!Unset, doc.crash \in Documents!Unset
               PROVE  /\ Documents!ActsOn(doc').straggler = Documents!ActsOn(doc).straggler
                      /\ Documents!ActsOn(doc').crash = Documents!ActsOn(doc).crash
    OBVIOUS
  <2>1. Documents!SyncScenario
    BY DEF Documents!Next, Documents!Edit, Documents!Recover, Documents!Inject, Documents!Mutate
  <2>2. QED
    BY <2>1, SyncKeepsFaults
<1>5. [][Keeps]_(Documents!vars) => Documents!SyncKeepsFlatFaults
  BY PTL DEF Documents!SyncKeepsFlatFaults
<1> HIDE DEF Inv, Holds, Keeps
<1>6. Documents!Spec => []Holds /\ [][Keeps]_(Documents!vars)
  BY <1>1, <1>2, <1>3, <1>4, PTL DEF Documents!Spec
<1>7. QED
  BY <1>5, <1>6 DEF ControlDocumentHolds, Holds
=============================================================================
