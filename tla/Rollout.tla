------------------------------- MODULE Rollout -------------------------------
(***************************************************************************)
(* Rolling out a new template of the training StatefulSet under running    *)
(* workers.  The controller replaces the Pods one by one from the highest  *)
(* ordinal, each when the ones above it are Ready, so that the coordinator *)
(* in rank 0 comes last: until then new workers ask a coordinator that has *)
(* the old image, or the old WORLD_SIZE.  What a session does once it runs *)
(* is in Collective; here a session is who has joined it.                  *)
(***************************************************************************)
EXTENDS Integers, Sequences

CONSTANTS
  Templates,      \* applied one after the other: [image, world]
  MaxCrashes      \* BOUND: processes that die by themselves

Ordinals == 0 .. 2     \* BOUND: the largest world has three ranks

(* What a module that uses this one assumes of the templates.              *)
RolloutAssumption ==
  /\ Templates \in Seq([image : {"old", "new"}, world : 1 .. 3])
  /\ Len(Templates) >= 1 /\ MaxCrashes \in Nat

VARIABLES
  applied,        \* how many templates were applied, the last one stands
  pod,            \* the template each Pod was made from
  terminating,    \* Pods that were deleted and whose processes still run
  proc,           \* "off", "starting", "joining" or "training"
  ready,          \* what the kubelet's last probe of each Pod has seen
  member,         \* whose join is in the coordinator's session: "none",
                  \* "current", or "gone" when that process has ended
  crashes

vars == <<applied, pod, terminating, proc, ready, member, crashes>>

NoPod    == [image |-> "none", world |-> 0]
Template == Templates[applied]
Exists(r) == pod[r] # NoPod

\* Everyone trains in one session, or works with the old image.
Init ==
  /\ applied = 1
  /\ pod = [r \in Ordinals |-> IF r < Templates[1].world THEN Templates[1] ELSE NoPod]
  /\ terminating = {}
  /\ proc = [r \in Ordinals |-> IF r < Templates[1].world THEN "training" ELSE "off"]
  /\ ready = [r \in Ordinals |-> r < Templates[1].world]
  /\ member = [r \in Ordinals |-> IF r < Templates[1].world /\ Templates[1].image = "new"
                                  THEN "current" ELSE "none"]
  /\ crashes = 0

---------------------------------------------------------------------------
(* gpu training run, and the StatefulSet controller *)

Apply ==
  /\ applied < Len(Templates) /\ applied' = applied + 1
  /\ UNCHANGED <<pod, terminating, proc, ready, member, crashes>>

\* podManagementPolicy is Parallel: no Pod waits for another to be made.
CreatePod(r) ==
  /\ r < Template.world /\ ~Exists(r)
  /\ pod' = [pod EXCEPT ![r] = Template]
  /\ UNCHANGED <<applied, terminating, proc, ready, member, crashes>>

Healthy(r) == Exists(r) /\ ready[r] /\ r \notin terminating

Outdated(r) ==
  /\ pod[r] # Template
  /\ \A q \in r + 1 .. Template.world - 1 : pod[q] = Template /\ Healthy(q)

DeletePod(r) ==
  /\ Exists(r) /\ r \notin terminating
  /\ r >= Template.world \/ Outdated(r)
  /\ terminating' = terminating \cup {r}
  /\ UNCHANGED <<applied, pod, proc, ready, member, crashes>>

---------------------------------------------------------------------------
(* Processes *)

\* Mutant: a coordinator that ends leaves its session to the next one.
KeepsSession(r) == [member EXCEPT ![r] = IF @ = "current" THEN "gone" ELSE @]

\* The session lives in the process of rank 0.
Forget(r) ==
  IF r = 0 THEN [q \in Ordinals |-> "none"]
           ELSE [member EXCEPT ![r] = IF @ = "current" THEN "gone" ELSE @]

Exit(r) ==
  /\ proc' = [proc EXCEPT ![r] = "off"] /\ ready' = [ready EXCEPT ![r] = FALSE]
  /\ member' = Forget(r)

\* SIGTERM ends Run wherever it is; the Pod goes with its emptyDir.
Removed(r) ==
  /\ r \in terminating /\ Exit(r)
  /\ terminating' = terminating \ {r} /\ pod' = [pod EXCEPT ![r] = NoPod]
  /\ UNCHANGED <<applied, crashes>>

Crash(r) ==
  /\ proc[r] # "off" /\ crashes < MaxCrashes /\ crashes' = crashes + 1
  /\ Exit(r)
  /\ UNCHANGED <<applied, pod, terminating>>

Start(r) ==
  /\ Exists(r) /\ r \notin terminating /\ proc[r] = "off"
  /\ proc' = [proc EXCEPT ![r] = "starting"]
  /\ UNCHANGED <<applied, pod, terminating, ready, member, crashes>>

\* The checkpoint is loaded, rank 0 listens, and ready is stored.
Initialised(r) ==
  /\ proc[r] = "starting" /\ proc' = [proc EXCEPT ![r] = "joining"]
  /\ UNCHANGED <<applied, pod, terminating, ready, member, crashes>>

\* Mutant: readiness is rank_up.
RankUp(r) == proc[r] = "training"

IsReady(r) == proc[r] \in {"joining", "training"}

Probe(r) ==
  /\ Exists(r) /\ ready[r] # IsReady(r)
  /\ ready' = [ready EXCEPT ![r] = IsReady(r)]
  /\ UNCHANGED <<applied, pod, terminating, proc, member, crashes>>

---------------------------------------------------------------------------
(* Joining *)

Serving == proc[0] \in {"joining", "training"}
Asks(r) == proc[r] = "joining" /\ pod[r].image = "new" /\ Serving

\* A coordinator with sessions has refused the rank, which its world does not have.
\* One with the old image refuses every join, without the header of the protocol:
\* the worker tries again.
Permanent(r) == pod[0].image = "new" /\ r >= pod[0].world

Refused(r) ==
  /\ Asks(r) /\ Permanent(r) /\ Exit(r)
  /\ UNCHANGED <<applied, pod, terminating, crashes>>

\* A join that the coordinator records; a rank that had joined opens a new session.
Join(r) ==
  /\ Asks(r) /\ pod[0].image = "new" /\ r < pod[0].world /\ member[r] # "current"
  /\ member' = [q \in Ordinals |-> IF q = r THEN "current"
                                   ELSE IF member[r] = "gone" THEN "none" ELSE member[q]]
  /\ UNCHANGED <<applied, pod, terminating, proc, ready, crashes>>

Started == \A q \in Ordinals : q < pod[0].world => member[q] # "none"

Joined(r) ==
  /\ proc[r] = "joining"
  /\ pod[r].image = "old" \/ (Serving /\ Started /\ member[r] = "current")
  /\ proc' = [proc EXCEPT ![r] = "training"]
  /\ UNCHANGED <<applied, pod, terminating, ready, member, crashes>>

\* Mutant: the reduce is repeated in the session that was.
Repeats(r) == UNCHANGED vars

\* A reduce of another session is answered "session changed": the worker rejoins.
SessionChanged(r) ==
  /\ proc[r] = "training" /\ pod[r].image = "new"
  /\ Serving /\ pod[0].image = "new" /\ r < pod[0].world /\ member[r] # "current"
  /\ proc' = [proc EXCEPT ![r] = "joining"]
  /\ UNCHANGED <<applied, pod, terminating, ready, member, crashes>>

---------------------------------------------------------------------------
Step(r) ==
  \/ CreatePod(r) \/ DeletePod(r) \/ Removed(r) \/ Start(r) \/ Initialised(r)
  \/ Probe(r) \/ Refused(r) \/ Join(r) \/ Joined(r) \/ SessionChanged(r)

Next == Apply \/ \E r \in Ordinals : Step(r) \/ Crash(r)

Spec == Init /\ [][Next]_vars

\* The controller, the kubelets and the workers go on; nobody must apply again.
Fairness == \A r \in Ordinals :
  /\ WF_vars(CreatePod(r)) /\ WF_vars(DeletePod(r)) /\ WF_vars(Removed(r))
  /\ WF_vars(Start(r)) /\ WF_vars(Initialised(r)) /\ WF_vars(Probe(r))
  /\ WF_vars(Refused(r)) /\ WF_vars(Join(r)) /\ WF_vars(Joined(r))
  /\ WF_vars(SessionChanged(r))
FairSpec == Spec /\ Fairness
---------------------------------------------------------------------------
InRollout(r) == r < Template.world

\* Every variable has its type.  Whoever is in the session is a process that runs,
\* and only a coordinator that serves has a session.
TypeOK ==
  /\ applied \in DOMAIN Templates /\ terminating \subseteq {r \in Ordinals : Exists(r)}
  /\ \A r \in Ordinals :
       /\ Exists(r) => \E i \in DOMAIN Templates : pod[r] = Templates[i]
       /\ proc[r] \in {"off", "starting", "joining", "training"}
       /\ proc[r] # "off" => Exists(r)
       /\ ready[r] \in BOOLEAN /\ (ready[r] => IsReady(r))
       /\ member[r] \in {"none", "current", "gone"}
       /\ member[r] = "current" => proc[r] \in {"joining", "training"}
       /\ member[r] # "none" => Serving

\* A worker trains in a session only when every rank of its coordinator's world, and
\* no rank of the world before or after it, has joined, in whichever order the Pods
\* were replaced and whichever template each was made from.
SessionIsWhole ==
  \A r \in Ordinals : proc[r] = "training" /\ member[r] = "current" =>
    {q \in Ordinals : member[q] # "none"} = {q \in Ordinals : q < pod[0].world}

\* The sequential update does not stop before rank 0: in the end every Pod of the
\* StatefulSet, and no other, is there, has the last template and is Ready.
RolloutCompletes ==
  <>[]\A r \in Ordinals : IF InRollout(r) THEN pod[r] = Template /\ Healthy(r)
                                          ELSE ~Exists(r)

\* After it all ranks train in one session, although Ready does not wait for that.
TrainingResumes ==
  <>[]\A r \in Ordinals : InRollout(r) =>
        proc[r] = "training" /\ (Template.image = "new" => member[r] = "current")
=============================================================================
