# Verification of gpu_labs

gpu_labs is a synthetic GPU laboratory on a kind cluster: a fake device plugin
advertises GPUs, an exporter serves synthetic metrics that follow fault
scenarios, a StatefulSet of workers runs a synthetic data-parallel training
job, and the `gpu` command line makes the lab, applies scenarios, injects faults
into the training job and verifies that incidents appear and are recovered.

This directory holds TLA+ models of the parts whose behaviour depends on
order, failure or time, TLC configurations that check them on small instances,
and proofs checked by TLAPS. `PROJECT.json` maps every definition to the lines it
models and lists the runs, the mutants that show that each property can fail,
the hazards of the code and the theorems.

    tlc -config lab.cfg MCLab            # any run: module and cfg are in "Runs"
    tlapm RolloutProofs.tla              # any of the *Proofs modules

## Inventory

| Component | State it keeps | Operations | What makes it correct | Modules |
|---|---|---|---|---|
| Training coordinator (`internal/training/session.go`, `allreduce.go`), in rank 0's process | the session, pending rounds, the last averages | `/join`, `/allreduce`, which wait for other ranks | an all-reduce is a barrier per session; a retry is always answerable; contributions of dead and live processes do not mix; sessions resume at the lowest checkpoint | `Collective`, `SessionBarrier` |
| Training worker (`worker.go`, `checkpoint.go`, `cmd/training-worker`) | step, session, checkpoint file | start, join, step, save, injected crash, wait for the fabric | never more than a step ahead; its file never ahead of it; back in a session after every fault | `Collective`, `TrainingControl` |
| Training control (`internal/trainingjob`, `control.go`, `gpu training`, `gpu scenario`) | one document in a ConfigMap, projected into every Pod | `run`, `inject`, `recover`, `reset`, the sync of a scenario: each a read and a later write | an injected crash happens once; a recovery ends every fault; one command does not undo another's change; its readers agree | `TrainingControl`, `ControlDocument` |
| Rollout of the StatefulSet (readiness in `worker.go`, `trainingjob.Manifest`) | Pods, their template and readiness | rolling update, probes, joins across templates | the update ends although rank 0 comes last; no session mixes two worlds | `Rollout` |
| Device plugin (`internal/deviceplugin`) | its socket, its registration, the kubelet it last saw, the retry delay | serve, register, `ListAndWatch`, restart | served again after every restart; never asleep while the kubelet does not know it | `DevicePlugin` |
| Scenario timeline and validation (`internal/scenario`) | none: pure functions | `Validate`, `PhaseAt` | what is accepted keeps to its ranges, comes back, and has one phase at every instant | `ScenarioRules`, `ScenarioInputs` |
| Exporter (`internal/exporter`) | scenario, phase, readings, expiry, the last ConfigMap version | poll, apply, refresh, serve | it shows what the clock of the ConfigMap says, as one view; it follows every accepted document | `Exporter` |
| Scenario application (`cmd/gpu-lab/scenario.go`, `scenario/manifest.go`) | Pods, ConfigMap, the fabric mode of the job | `run`, `reset`: a sequence of calls | success means that the scenario is there whole, and nothing of another | `ScenarioRun` |
| Cluster manager, kubeconfig, Helm (`internal/cluster`, `internal/kubeconfig`, `create.go`, `helm.go`, `context.go`) | the kind cluster, releases, two kubeconfigs | sequences of external commands | runs can be repeated; the user's context is what it was; Helm changes no other cluster | `Lab`, `CreateOptions` |
| Verifiers (`internal/verification`, `verify.go`) | one report | polls of Prometheus and kubectl under budgets | no verdict from old samples, of two phases or of another Pod; a good lab passes | `Monitoring`, `RecoveryVerifier`, `Verifier`, `PodEvents` |
| Inspection (`internal/inspection`, `inspect.go`, `native.go`) | none | find a tool, judge XML and samples | nothing of the lab passes for real; nothing missing passes for good | `Inspection`, `InspectionChecks` |
| `nvidia-smi`, RDMA tools, clients, dashboards, deployment | none | fetch and print | see "Not modelled" | |

How they interact: the command line patches two ConfigMaps (the scenario and
the training control); the exporter polls the first, the kubelet projects the
second into the workers' file system; workers speak HTTP to the coordinator
in rank 0; the kubelet restarts the processes and calls the device plugin;
Prometheus scrapes exporter and workers, and the verifiers query Prometheus.
The compositions modelled are: workers with coordinator (`Collective`), commands
with workers (`TrainingControl`, whose steps see the collective as its abstract
barrier), controller with workers and coordinator (`Rollout`), plugins with
kubelet, ConfigMap with exporter and readers, scenario commands with scheduler
and training job, and the verifiers with documents, exporters, workers and
Prometheus (`Monitoring`).

`PROJECT.json` lists 40 hazards, each at its line with the properties that
would catch it.

## Modules and proofs

| Module | Checked by | Proofs |
|---|---|---|
| `SessionBarrier`, `Collective`, `CollectiveInv` | `MCCollective` | `CollectiveProofs` |
| `TrainingControl`, `TrainingJob` | `MCTrainingControl`, `MCTrainingJob` | `TrainingControlProofs` |
| `Rollout` (`Update` in `TrainingJob`) | `MCTrainingJob` | `RolloutProofs` |
| `DevicePlugin` | `MCDevicePlugin` | `DevicePluginProofs` |
| `ScenarioRules`, `ScenarioInputs`, `Exporter` | `MCExporter` | `ExporterProofs` |
| `ScenarioRun`, `ControlDocument`, `ScenarioCommands` | `MCScenarioRun` | `ScenarioRunProofs` |
| `Lab`, `CreateOptions`, `Inspection`, `InspectionChecks`, `GpuCommands` | `MCLab` | `LabProofs` |
| `Monitoring`, `RecoveryVerifier`, `Verifier`, `PodEvents`, `Verdicts` | `MCVerdicts` | `VerificationProofs` |

`MCTrainingJob`, `MCExporter`, `MCScenarioRun`, `MCLab` and `MCVerdicts` check several
modules in one run. A variable `subject`, chosen in the initial state and never changed,
says which of them a behaviour is about; the variables of the others do not
move. So the state space is the sum of those of the parts, not their product,
and every part keeps bounds of its own. A property of such a run is about the
behaviours of its subject.

`TrainingJob`, `ScenarioCommands`, `GpuCommands` and `Verdicts` stand between the parts of
such a run and its MC module. They declare the variables of all parts, instantiate each,
and state the promises that belong to none of them alone, so that the run and the
proofs speak of the same definitions. A theorem about a part says so in its
hypothesis (`Tools!Spec => []ToolIsTrue`), and holds whatever the others do.

Where several statements make one promise the run checks their conjunction
(`CheckpointsHold`, `AcceptedIsSound`, `KubeconfigsInOrder`, ...), and the named
conjuncts stand, each with its comment, before it.

## Runs

| Run | Module | States | Shows |
|---|---|---|---|
| `collective_restarts` | `MCCollective` | 2 809 000 | the safety of the collective with crashes and late requests |
| `collective_recovers` | `MCCollective` | 124 000 | it refines the abstract barrier; all ranks meet again after the last fault |
| `collective_stale_join` | `MCCollective` | | violated: a session below every checkpoint |
| `training_job` | `MCTrainingJob` | 202 000 | generations, crashes, fabric waits under two terminals; two rollouts one over the other complete, and sessions are of one world |
| `control_one_shot` | `MCTrainingControl` | | violated: one injection, two crashes |
| `control_lost_update` | `MCTrainingControl` | | violated: a scenario removes a fault |
| `plugin` | `MCDevicePlugin` | 355 000 | handover, then faults: no silent loss, and it comes to rest connected |
| `exporter` | `MCExporter` | 479 000 | what is shown, and what may be accepted |
| `scenario_commands` | `MCScenarioRun` | 298 000 | four commands with failures; control documents of any origin |
| `lab` | `MCLab` | 266 000 | command sequences that are interrupted and run again; options; tools; readings |
| `lab_helm_context` | `MCLab` | | violated: Helm changes a cluster of the user |
| `verdicts` | `MCVerdicts` | 3 480 000 | what a passed verification rests on, and that good labs pass |

Runs with `CHECK_DEADLOCK FALSE` are of systems that may stop: commands end,
clocks of bounded models end. `collective_restarts` and `collective_recovers`
check for deadlock.

## The collective

### What is modelled

`Collective` has `World` workers and the coordinator in the process of rank 0.
One step is one critical section of the coordinator (`Join`, the cases of
`Reduce`), one HTTP event (`Send`, `Deliver`, `AttemptFails`), the worker's
reaction to one answer (`OnChanged`, `OnJoined`, `OnInvalidJoin`, `OnAverage`,
`OnAverageThenInjectedCrash`), or a fault (`Crash`, `DeletePod`).

| Model | Code |
|---|---|
| `pc`, `step`, `token`, `inc` | where `Run` is, `cp.Step`, `joined.Session`, the `incarnation` drawn at the start |
| `disk` | the step in the checkpoint file; `SaveCheckpoint` renames, so it is atomic |
| `call`, `offer` | the one HTTP attempt of a worker: none, sent, or in a handler; `offer` is what that handler's `select` can pick, so a closed `ready` and a closed `changed` channel are a choice |
| `sid`, `members`, `minc`, `mstep`, `resume` | `Coordinator.session`; `started` is "every rank is a member"; ids and incarnations are numbers drawn in order because `rand.Text` does not repeat |
| `values`, `completed` | `Coordinator.rounds`, `Coordinator.completed` |
| `late` | requests whose client has timed out and that the server still reads |

A gradient is a function of step and rank (`deterministicGradient`), so a round
is the set of ranks that contributed, and the answer "rank changed its
contribution" cannot occur; the average is the step it belongs to. The HTTP
method and body checks, metrics, delays and logging are left out. `TOTAL_STEPS`
is not set by the deployment: training does not end, and `MaxStep` is only a
bound (the round after it is never completed). A request without a session is
the protocol of older workers and is not modelled. A failure to save a
checkpoint ends the process, which is a `Crash`.

When rank 0's process ends, the coordinator's memory and every connection to
it are gone. When another process ends, its attempt is gone; what a handler
recorded for it stays.

### Bounds

Two workers, since every hazard is between one rank and the rest; the proofs
hold for any number. `MaxStep` is 3 for safety, so that checkpoints may lie two
steps apart, and 2 for liveness. `MaxCrashes`, of crashes, injected crashes and Pod
deletions, is 2, and 1 for liveness: two reach the cases with a member, the coordinator or both restarted, and a
crash during the recovery from one. `MaxLate` is one late request. `Window` (128
averages in the code) is 1, the hardest value, and `MaxRounds` (128) 1 (2 for
liveness), so that the limit is met. Attempts may fail without bound.

### Properties

`collective_restarts`: `IInv`, the invariant of the proofs; `Lockstep`;
`TrainsAsMember`; `RetryIsAnswerable`; `PendingIsNext` (a retry never opens a
round nobody will finish); and `CheckpointsHold`: a rank's file is not ahead of
it, no join is refused as invalid, a session resumes at the lowest checkpoint,
and a step that every rank has saved stays saved. `PendingIsNext` and the last
three parts are claimed until a request outlives its client (`lates = 0`);
`collective_stale_join` shows what happens to a checkpoint then.
`collective_recovers`: `ImplementsBarrier` and `Recovers`.

`SessionBarrier` is what the collective promises, without messages: ranks enter
a session at the step of those already in it, may do the next step when no rank
of the session is behind, and may leave at any time. The refinement maps a rank in the step loop to its
session and step (`At`, `Done`); everything else is a stutter.

### Fairness

`FairSpec` asks that a stopped container is started again (the kubelet), that
an idle worker sends (the retry loops have no limit: `joinWithRetry` loops for
the life of the process and the step loop comes back after `ReduceWithRetry`
gave up), both weakly; and that a request and an answer that are possible again and
again get through in the end, strongly, because an attempt may time out any
number of times first. Nothing is asked of the faults, which the bounds make
finite; nothing is asked of late requests.

### What is proved

`CollectiveProofs` proves, for every `World`, `Window`, `MaxRounds` >= 1 and
every bound:

- `TypeCorrect`: `Spec => []TypeOK`;
- `InductiveInvariant`: `Spec => []IInv`;
- `LockstepHolds`, `TrainsAsMemberHolds`, `RetryIsAnswerableHolds`,
  `PendingIsNextHolds`;
- `CheckpointsAreKept`: `Spec => CheckpointsHold`;
- `BarrierImplemented`: `Spec => ImplementsBarrier`, the refinement of
  `SessionBarrier` under `At` and `Done`.

`Lockstep` alone is not inductive: that a rank is never two steps ahead depends
on who may still be answered, on which contributions the next round holds, on
which requests are under way and on whether a rank that has not yet entered
the session may still enter it. `IInv` says so in named parts. `Fresh` and
`Attempts` say what ids and replies can exist; `SessionLockstep` and
`SessionEntry` state the barrier for every session a rank may still be in, the
replaced ones too; `CurrentMembers` and `CurrentProgress` tie the current
session to its members: there is a frontier `h`, everyone in the session is at
`h` or `h - 1`, a contribution to round `h + 1` comes only from a rank at `h`
(or from a process that is gone), and once a round has completed nobody who is
still to enter is left. That is why a round that completes finds everyone at
`h`, and why the cache, which always holds `h`, is enough for every retry. The
proof has one lemma per action; the cases of `Reduce` rest on
`ReduceRequestFacts`, which says what is known of a request of the current
session, live or late.

`PendingIsNext` and `CheckpointsHold` rest on `PromptInv` besides, which says what holds
until a request outlives its client. A member has nothing to do with an earlier
session, and its record is of its step and its file (`Records`); a session resumes
at its lowest record, and somebody's checkpoint is not above that until all
have entered (`Resumes`); while anyone is offered the entry to a session, replaced
or not, no other one trains, so no file moves away from the offered step
(`Admissions`); and a round is pending only behind all completed ones
(`PendingAfter`). A late join breaks `Records`, which is the finding below.

The proofs use only the assumptions on the constants and the library's
arithmetic. `Recovers` is model-checked only.

### Finding: a join that arrives late

The comment on `join` says that after a restart "all peers then rendezvous at
their lowest available checkpoint" (`session.go:39-41`). `collective_stale_join`
shows a run where they do not. Rank 0 sends a join at step 0, times out and
retries; the retry starts a session and training goes on; every rank saves a
later step; rank 1 restarts and opens a new session. Now the coordinator reads
rank 0's first join. Nothing tells it from a live one (the incarnation is the
same), so rank 0 is a member with step 0; when rank 0 joins for real, its record
is kept (`session.go:63-65`). The session starts at step 0 and every rank
saves it over its checkpoint. Lockstep and the barrier survive this; the saved
progress does not.

## The training control

### What is modelled

`TrainingControl` has the control document, `Clients` commands and one worker
per rank. `Mutate` is two steps, `ReadDocument` and one of `InjectStraggler`,
`InjectCrash`, `Recover` and `SyncScenario`, because nothing keeps another
command out between `kubectl get` and `kubectl patch`; `RunJob` and `Reset` are one.

| Model | Code |
|---|---|
| `doc` | `control.json` in the ConfigMap; `Absent` when there is none |
| `held[c]` | the `ControlState` command `c` has read and not yet written |
| `file[r]`, `control[r]` | the projected file in rank `r`'s Pod; what its process read at the start of the step (`control` in `Run`) |
| `phase[r]`, `joined[r]` | where `Run` is; whether its session is the one its peers are in |
| `applied[r]` | `AppliedCrashGenerations` in the checkpoint, gone with the Pod |
| `fired` | the tokens of the injections that have made a process crash |

A generation is a number: a run's first one is a time in nanoseconds, so runs are
`Span` apart and increments never reach the next run. A crash token is a fresh
time too. All fabric modes but "down" only delay a step and are the mode
"normal" here; node names and delays are left out. The barrier of a step is one
action, `AllReduce`, and a rendezvous is one action, `JoinAll`: the collective of
the previous section, seen through its abstract specification.
The Pods of a deleted StatefulSet stay `doomed` until they are removed, and a
new run may come first. The model may stop for good (no job, no commands left), so
its runs do not check for deadlock; `TrainsOn` says that a deployed job does not stop.

### Bounds

Two ranks are enough for a rank that waits for another with an older document.
Three commands (a run counts as one) reach: a run and two changes by one or two
commands, and a run, a reset and a second run. One fault (a kill, a Pod
deletion, an unreadable file) may hit any point.

### Properties

Run `training_job` (subject `control`) has two terminals whose commands may overlap, three
commands and one fault: `GenerationIdentifiesControl` (until two commands have overlapped,
copies with one generation are equal); `SyncAlonePreservesFaults` (a scenario
that no command overlaps keeps straggler and crash); `InjectedCrashHappens`;
`CrashesEnd` (a crash left in the document is no crash loop); `TrainsOn` (once the
fabric is back, training goes on, whatever changes were lost).

### Fairness

The StatefulSet controller and the kubelet create, refresh, restart and remove in the end, and
the loop of a worker goes on; all weakly fair. Commands and faults need not happen.

### What is proved

`TrainingControlProofs` proves, for every number of ranks, commands at a time
and faults: `ControlTypeCorrect` (`Spec => []TypeOK`), `CommandInvariant`,
`GenerationIdentifies` (`Spec => []GenerationIdentifiesControl`) and
`SyncPreserves` (`Spec => SyncAlonePreservesFaults`). Uniqueness of generations
is not inductive alone: a write makes a generation that is new only because the
document written is the newest one, and because a reset, which takes the newest
one away, is followed by a run whose first generation no earlier one has
reached. `CommandInv` adds both (`Bounded`) and that a command which has read
the document finds it unchanged (`HeldIsCurrent`), all until two commands
overlap; `control_lost_update` is what happens then. The liveness properties
are model-checked only.

### Findings

`control_one_shot`: `CrashID` prefers the document's generation to the crash
token (`control.go:185-193`), and every later command increments the generation
(`trainingjob.go:213`). A scenario keeps the crash in the document, so a worker
that has crashed for it crashes once more; "identifies a one-shot crash"
(`control.go:17`) does not hold.

`control_lost_update`: a scenario reads the document, `gpu training inject` writes a
straggler, the scenario writes what it read. The straggler is gone, although
faults are "intentionally preserved when scenarios are synchronized"
(`trainingjob.go:107-108`).

### The document and its readers

`ControlDocument` has what `TrainingControl` abstracts from: the document as
JSON. Three readers parse it: `Client.ReadControl`, which decodes, changes and
writes it back whole (`Decodes`, `Decoded`, `Mutate`, `JSON`); the workers'
`ReadControl` with its two schemas (`Readable`, `Reading`); and the recovery
gate, which decodes strictly (`EvaluateTrainingControl`). A key is absent, null, of
a type nobody takes, or one of the texts and numbers that the code tells apart;
shapes are an object, trailing data, an empty or blank file, `null` and anything else.
Three edits by hand and two commands (in `scenario_commands`) reach every pair of
keys before and after a command. `ControlDocumentHolds`: what the gate lets pass
makes no worker act on a fault; `gpu training recover` repairs what it can
decode; a scenario keeps straggler and crash of a flat document. Two things it
does not claim: a scenario removes the nested `straggler` and `crash` that
workers still act on, since `ControlState` has no such fields, and the gate lets
an empty `fabric_delay` pass that a worker refuses to read (it then counts as no
fault before a step).

`ControlDocumentsHold` (in `ScenarioRunProofs`) proves it for every document the keys and
shapes can form and any number of edits and commands. The gate needs no invariant: it
decodes strictly, and what passes has no key that makes a worker act. That a
document `recover` has written is repaired is the invariant `last = "recover" =>
Repaired(doc)`, which the next edit or command ends. `SyncKeepsFaults` follows every flat key through
the decoding and the writing.

## The rollout

`Rollout` is the StatefulSet controller, the kubelets and the workers while a new
template (image and `WORLD_SIZE`) is applied. The controller and the probes are
modelled from how `trainingjob.Manifest` uses them (`Parallel` creation, a
sequential update from the highest ordinal, `readinessProbe`); the processes are
`worker.go` and `session.go`.

| Model | Code |
|---|---|
| `applied`, `pod[r]` | the template of the StatefulSet; the one rank `r`'s Pod was made from |
| `proc[r]`, `ready[r]` | where `Run` is; what the kubelet's last probe of `/readyz` saw (`w.ready`, set before the first join) |
| `member[r]` | whether rank `r` has joined rank 0's session, and whether that process is gone |

A coordinator with the old image refuses the join of a new worker without the
header of the protocol, and the worker tries again, so that nothing changes; one with
the new image refuses a rank outside its world for good, which ends the process
(`Refused`).

Run `training_job` (subject `rollout`): three Pods without sessions get the image that has them, and then
one rank fewer, with the second template applied at any point of the first
rollout and two crashes. `SessionIsWhole` (no session starts with a rank missing
or of another world), `RolloutCompletes`, `TrainingResumes`. Fairness is weak and
of the controller, kubelets and workers only.

`RolloutProofs` proves `TypeCorrect` and `SessionsAreWhole` for every sequence of
templates and every number of crashes, with world sizes up to three
(`Ordinals`). `SessionIsWhole` needs to know that whoever joined is the Pod the
coordinator's world counts: `IInv` is `Shape` (what a Pod can be), `Runs` (a
process has a Pod), `Joins` (a current member waits or trains), `Session` (only
a serving coordinator has a session, of ranks of its own world) and `Whole` (the
ranks that train in it are all there). Liveness stays with TLC.

Known limit of the code, outside of this run's bounds: with *more* workers the
new highest rank is outside the world of the coordinator that still runs, is
refused for good and restarts; its Pod is Ready only between `ready.Store` and
the refusal, and unless a probe falls there the update stops
(`docs/distributed-training.md:77` promises that it does not). The run therefore
uses fewer workers, and `RolloutCompletes` is claimed for that.

## The device plugin

`DevicePlugin` is one kubelet and a set of plugin processes that share a socket
path. A process is at one of the places between two calls of `Serve`, `listen`,
`registrationLoop` and `register`; streams, dials and the tracker's `closed` channel
are the kubelet's half.

| Model | Code |
|---|---|
| `sock`, `kub` | the socket files at the two paths, by identity (inode and modification time) |
| `lis`, `own` | the file the listener has bound, and the one `socketIdentity` read after it |
| `last`, `missing`, `registered`, `delay`, `until` | `lastKubelet`, `kubeletWasMissing`, `registered`, `retryDelay`, `nextAttempt` |
| `active`, `closed` | `streamTrackingServer` |
| `dials`, `open` | registrations the kubelet has accepted and not dialled; its streams |

An identity is a number; a new file has the least one that nobody remembers,
which no comparison tells from one never used. The retry delay counts poll
intervals. The device list and the answer of `Allocate` are constants of the
configuration and are left out.

Run `plugin`: one process is told to stop while another starts (a rolling update
of the DaemonSet), and, once it has gone (`Gone`), three faults: kubelet stops, a
path removed, a call refused or answered too late, a stream dropped, a server
that fails, a kill. Faults during the handover are excluded: the
identity is read after the bind, so a process may take the file of the other one for its
own, and when that one is killed for good nobody listens behind a path that looks
right; `ComesToRest` would fail. `NoSilentLoss` (a process that believes it is registered, with its
socket and kubelet unchanged, has a stream, a dial to come or a token that will
wake it) and `ComesToRest` (once nothing more goes wrong the node is served for
good, and nobody registers or restarts again). Fairness: processes, kubelet and dials go
on weakly; reading the `closed` channel strongly, because Go's `select` picks among the
ready cases at random.

`DevicePluginProofs` proves `TypeCorrect` and `NobodySleepsUnknown` (`Spec =>
[]NoSilentLoss`) for any set of processes, identities and faults. `IInv`: `Types`;
`Distinct` (no two listeners on one file); and, for each process, that it owns
what it took for its own while it is in the loop, remembers the kubelet it has
looked at, and has been heard of (`Owns`, `Remembers`, `Heard`, `Called`): between
the accepted call and `registered = true` a dial, a stream or the token of one
that has already ended is there.

Another limit of the code that no run claims anything about: closing a
Go Unix listener unlinks its path, whatever file is there by then
(`plugin.go:133`), before the careful `removeSocketIfOwned`.

## Scenario documents and the exporter

`ScenarioRules` is `Validate` with everything it calls, and `PhaseAt`: a document is a
record, its metrics a function from the fields it sets, its timeline a sequence.
`ScenarioInputs` has the documents: every combination of five durations,
twelve sets of metrics, ten targets, seven timelines, nine lists of actions and
two identities, and every timeline with four offsets out of seven under a
clock that starts before it. `AcceptedIsSound`: an accepted document changes
nothing of the node when it names GPUs, a staged one comes back, no view is out
of range, the phase is the last one reached and phases come one after the other.

`Exporter` is the poller (`Fetch`, `Commit`, `LogApplied`), the `Model` behind its
lock, and requests, each of which reads the clock, then locks and refreshes, then
locks again and reads (`Request`, `Refresh`, `CheckFault`, `Read`).

| Model | Code |
|---|---|
| `cm` | the ConfigMap: resource version, document, generation, start |
| `model[n]` | `Model`: scenario, generation, start, phase, readings, fabric, fault, expiry |
| `poll[n]`, `seen[n]` | the document between `applyScenarioConfig` and its log line; `lastResourceVersion` |
| `req[n][r]` | where a request is and the time it has read |

Run `exporter`: a fault with a duration, one for another node, a staged scenario,
workload metrics and an invalid document; two writes, of which the second may
spoil the document or lose its generation and time; one crash; a clock to 4,
which passes every phase and expiry; two concurrent requests, one once
a crash or second document has come (`Narrow`), which keeps the run within minutes
and every pair of a request with another, with a commit and with a phase change.
One exporter: they share nothing but the ConfigMap, and `ShownByTheClock` says that
each shows a function of that and the time, so that any two agree.
`ModelIsOneView`, `FollowsAccepted` (the last accepted document is shown in the
end, a refused one changes nothing). Fairness is that of the poller.

`refreshExpired` reads the clock before the lock, so of two requests the one with the
earlier time may refresh last and set an earlier phase, or no expiry, until the
next one; the model does it, and the properties therefore speak of the view a
request with the current time gets. A percentage, temperature or power of `.nan` is neither below its range
nor above it and is accepted, as the documents of the run show; "in range" (`Within`) therefore
means here that no reading is a number out of range.

`ExporterProofs` proves `TypeCorrect`, `ModelsAreOneView`, `ClockIsShown` and
`RefusedChangesNothing` for any exporters, readers, documents (whose durations and
offsets are integers), writes, crashes and length of time. The clock property is not inductive: a model
of the current generation either still has what the ConfigMap holds and may be refreshed
by it (`Runs`), or is back at normal after its duration (`HasRun`), and that a
request with an earlier time cannot undo an expiry is because `ToNormal` forgets it. `IInv`
adds that a generation names one write (`Used`) and that what the poller is about
to apply is what it validated, of the write it read (`Taken`).

`AcceptedDocumentsAreSound` proves `AcceptedIsSound` of any document and any two ages of it. Its hypotheses
are what a decoded document is (`IsDocument`: durations and offsets are integers,
readings are numbers or `.nan`, a timeline is a sequence) and that the clock does not run
backwards (`TimeGoesOn`); `DraftsAreDocuments` shows that the documents of the run
meet them. It rests on `LastReachedIs`: in a timeline that `Validate` accepts
exactly one phase is the last one reached, at any age.

## Scenario commands

`ScenarioRun` is `applyScenario`, which both `gpu scenario run` and `reset` call:
`DeletePods`, `PodsGone`, `Publish`, `ApplyWorkload` and `PodReady` for each action, `Sync`.
A call may be refused, may fail although it had its effect, and the command may
be killed between any two (`Trouble`); the scheduler and kubelets act in between.

| Model | Code |
|---|---|
| `command[t]` | the step of `applyScenario`, its scenario, the Pods it waits for, its exit |
| `pods`, `place`, `taken` | the workloads by name, their nodes, GPUs of other Pods |
| `configMap`, `job`, `fabric` | the scenario ConfigMap; the training job and its fabric mode (`SyncScenarioControl`) |
| `calm[t]` | nothing has failed or taken GPUs since the command began |

Run `scenario_commands`: scenarios after `scenarios/` (a Pod that is awaited, Pods
that fill both nodes and one that fits nowhere behind them, one that asks for
too much, a fabric fault, normal), four commands one after another, two
troubles, one deployment or reset of the job. `PodsOfConfigMap`, `AppliedIsWhole`,
`VerdictStays` (the Pod that is to stay pending does), `FaultEndsWithScenario`,
`CommandsSucceed` (a command ends, and well when nothing disturbs it), and
`ControlDocumentHolds` (above). Fairness: the command, scheduler and kubelets go on.

`ScenarioRunProofs` proves `TypeCorrect` for any number of terminals, and for
commands that run one at a time (`OneAtATime`, stated in each theorem)
`PodsFollowConfigMap`, `SuccessIsWhole`, `FaultsEnd`, `VerdictsStay` and
`CalmCommandsSucceed`, for every set of scenarios, nodes and failures. `RunInv` says stage by stage what a command may rely on: before
the ConfigMap is written no Pod lives that is not about to go, behind it
exactly the Pods up to its step do (`Stage`, `Complete`); `FaultInv` adds that
without a job there is no fault.

A Pod that is to stay pending is a matter of counting: the GPUs that running Pods
and others hold are sets of units (`Units`, `Held`). `VerdictInv` adds that a running Pod is on a node it may go to and that, from the first workload on,
only what has been applied is there and what is to wait does not run (`Settled`); then `NoRoom` finds no node with enough
GPUs left. Its hypothesis on the scenarios, `Crowded`, says what makes such a
scenario one: a Pod that is to stay pending asks for more than what the awaited
Pods before it leave on any node it may go to. The run assumes it of its scenarios
(`MCAssumption`), which are those of `scenarios/`.

`CalmCommandsSucceed` is the safety half of `CommandsSucceed`: a command that nothing
disturbs and that has ended has ended well, whatever the ones before it left behind.
What is to be excluded is the wait that times out (`WaitTimesOut`, possible only when the
Pod has no place): by `CalmInv` nobody else holds GPUs and what the scheduler
has not placed holds none, so the awaited Pod finds a node (`RoomForAwaited`). That needs `Roomy`
of the scenarios: an awaited workload fits beside the awaited ones before it, wherever those
are. The run assumes it of its scenarios too.

What the assumption excludes happens: with two terminals, one command may pass its
deletion before the other, both report success, and the Pods of one remain under
the ConfigMap of the other. And `Sync`'s error is dropped (`scenario.go:313`): a reset
that fails there reports success and leaves the job in its fault, which is why
`FaultEndsWithScenario` speaks of undisturbed commands.

## The lab

`Lab` has every command as a sequence of calls (`Setup`, `Create`, `Install`, ...), and
what each call needs and does to the cluster, the releases and the two
kubeconfigs. A call may fail, have its effect and still be the last, or be killed in the
middle (`KindCreateKilled`, a release left `pending`, some of the manifests).

| Model | Code |
|---|---|
| `lab` | kind's cluster, the images on its nodes, the saved image, the Helm releases |
| `primary`, `own` | the user's kubeconfig; `~/.kube/gpu-lab.config` |
| `proc[t]` | the command of a terminal: calls still to make, image, saved context |
| `foreign` | Helm has changed a cluster the user did not name |

Run `lab`, by subject (`lab_helm_context` has the same ones): `manage` (one terminal, 4
commands, 2 faults), `reruns` (creates with
`--all`, 3 and 2), `helm` (3 and 1), `shared` (two terminals, 3 commands, no
faults), and three of pure decisions: `options`, `tools`, `checks`. Four commands
reach create, an interrupted one, destroy and create again with the old file left.

- `ImagesLoaded`: nodes have the saved image and those of all releases.
- `KubeconfigsInOrder`: a command that succeeded leaves both files in order,
  whatever they were; commands other than create and use leave the current
  context; two setups at a time do not leave kind's name in the own file.
- `RerunContinues`: `gpu create [--all]` can be run again after anything but a
  kill that left a cluster or release half made (`HalfMade`).
- `ImageFitsSource` (`CreateOptions`, all environments, versions and two
  arguments): local images are built, others pulled, unless `--image-source auto` is asked for
  by name, over which the environment's `local` has already won.

`lab_helm_context` is expected to be violated. `OnlyTheLab`: a Helm command that names
no context changes no cluster but the lab; what changes a cluster is Helm's to say
(`ChangingVerbs`, `IsWord`, external). The architecture promises it: "cluster-aware Helm
명령은 기본적으로 `gpu-lab` context를 사용하고" (by default cluster-aware Helm commands use the
`gpu-lab` context; `docs/architecture.md:393`), "CLI는 `gpu-lab` context를 확인하며, 다른
context에 apply하지 않는다" (the CLI does not apply to another context; `:402`), and every
mutation names the context, whichever is the current one (`:404`). `helmUsesCluster`
(`manager.go:424-437`) takes the first argument without a dash for the verb and knows one
list of verbs. In `gpu helm --namespace demo install` it takes `demo`, and in `gpu helm un`
it does not know the short name of `uninstall` (nor `del`): Helm runs in the
current context of the user. Either alone violates the property.

Setup interrupted between the export and the restore leaves kind's context as the
current one, and a `gpu context use` in another terminal during a setup is
undone by its restore; the properties about the context are of commands that
succeeded, alone.

`LabProofs` proves, for any terminals, commands, images, contexts and faults:

- `TypeCorrect`, `KubeconfigsStay`, `RerunStays`,
- `ImagesStay`, for behaviours in which the lab is deleted from the only terminal in use
  (`DestroysAlone`): `gpu destroy` does not ask whether another command is at
  work, and one that has its image loaded would save it for the next cluster.

A command is a sequence of calls that other calls shorten and lengthen, so the proofs need
to know a sequence by what may follow what: `Shape` (each call may follow the one before it,
`May`; no image is loaded behind the reading of the saved one) and `Speaks`
(only calls that the command makes). Both hold of every program as it begins and
of what is left of it. On them stand the named parts of the invariants: `Carried`,
an image that is still to be saved or installed is on the nodes or still to be
loaded (`InLab`); `Counted`, no more clusters than commands begun, which keeps the ids
apart; `Files`, what the calls made so far have done to both files, for a
command alone (`SetUp`); `UsedUp`, a cluster that is up has set a context; `Cleaned`,
kind's name in the own file is always about to be taken out; `Creating`, what a `gpu create` that goes
on has found or made (`Made`: what is not there has nothing in it), so the call
that fails is one that can be made again.

`Inspection` is the choice of the tool, in both places that make it
(`Inspect`, `SelectNative`): a PATH of up to three files of every kind, the override and
the evidence of the lab. `ToolIsTrue`: what is shown as real comes from no tool of
the lab; the lab is shown only on positive evidence and not because a real tool
fails; both places agree. `InspectionChecks` is what `inspect.go` concludes from the XML
fields (up to three edits of empty ones) and `synthetic.go` from Prometheus samples
(up to four in any order). `ChecksAreTrue`: no check passes without all of its numbers, the
health is of one fresh sample, the order of samples does not matter.

These three parts are small state machines: arguments are read one by one, files are put
on a PATH, XML fields are edited and samples arrive. `ImageFits`, `ToolsAreTrue` and
`ChecksHold` prove their promises for any number of each. `ReadingOK` is the
invariant behind the last: what the samples read so far make of a field is nothing, its only value,
or "ambiguous", in whatever order they came.

## The verifiers

`Monitoring` is what they look at: the two ConfigMaps, exporters and ranks that
follow them within `Lag`, scrapes, and instant queries that serve the last sample
for `Lookback`. Times are ages, which grow at a `Tick`; the clock waits for what is due.
`RecoveryVerifier` (`gpu verify --recovery`: value and freshness gates under one
budget, then a window for training progress) and `Verifier` (`gpu verify` of a
timeline, or of a scenario) extend it. `PodEvents` is the check of
the scheduler's event for a Pod that may be replaced between any two calls.

| Model | Code |
|---|---|
| `pc`, `gate`/`check`, `deadline`, `elapsed` | where the command is, which check it polls, the contexts' deadlines |
| `first` | the age of the first training step it saw; a smaller age is a newer step |
| `sample`, `left` | the last sample of each target; since when an exporter has not published "normal" (a ghost) |
| `identity`, `found` | the Pod that was read, and the event to be confirmed by a second read |

Run `verdicts`, by subject: a recovery and a timeline, each disturbed (writes, a
death, a stall, a call that fails or is slow), a recovery in a lab that is left alone once it was
set, and a Pod that is replaced. The lab that is left alone (`Healthy`), and the timeline, have the
time to adopt and scrape in the command what was written before it (`EnoughTime`). Ages are
capped where no comparison tells them apart. A timeline of the run lasts 5 ticks,
two phases of 2 and one more; it may have been applied up to 7 ticks ago (`LongApplied`), so
commands begin before its end, at it and after it, and meet samples of a first application
that expires while a second one goes on. `since` keeps the age of each.

- `NoOldRecovery`: what passed was published within `MaxAge` before the
  command began, and training has moved since.
- `NoLateReport`: budget and window bound a report when no call outside of the budget
  takes long (`prompt`); a slow call inside it counts against it.
- `TimelineIsOne`: a passed timeline is in one phase, of samples from before it expired; when
  nothing disturbs the command, it is also the application in the ConfigMap.
- `GoodLabsPass`: a lab that is and stays good passes: one that is back to normal, and one that
  runs the scenario until the report. A timeline ends after its duration (`refreshExpired`,
  `model.go:426`, `437-446`; three minutes in `thermal-escalation.yaml`): its exporters then publish
  normal without a phase, although nobody has touched the ConfigMap, and `gpu verify` fails.
  `SampledAge`, `Expired` and `Active` have this, and `AppliedPasses` asks for a report before it.
- `EventOfCurrentPod`: the accepted event is of the Pod that had the name at
  the last read and not before it was made.

They claim no more than the code: a sample from before a short fault is of
scenario normal too and passes for up to `maxSampleAge`; training that stops
between two scrapes shows one increase and passes; scenarios other than the timeline
are judged by values alone, whichever run they are of.

`VerificationProofs` proves `RecoveryIsRecentHolds` (`NoOldRecovery`) and `ReportsInTime`
(`NoLateReport`, with the types) for any number of exporters and ranks, documents, disturbances
and failing calls, under the two assumptions on the times (`MonitoringAssumption`,
`TimesAssumption`, which `MCVerdicts` assumes of the run's instances). `IInv` says what a sample tells of the time behind it (`ExporterSeen`,
`RankSeen`: no step between the one it shows and its scrape), and, place by place, what
the gates that have passed still say: behind the adoption gate every exporter had
published normal (`Adopted`), behind the last gate every rank's sample is young
(`Fresh`), so a step newer than the first one seen is young too (`Following`,
`Progressed`), all of which age at the rate of the command. `Timely` bounds the
deadlines. That the gates come in this order is `GateFacts`, about the sequence `Gates`.

`TimelineIsOneHolds` proves `TimelineIsOne` for any exporters, applications and times that
`VerifierAssumption` allows; it asks that the last phase begins before the duration ends, as
`Validate` does, and that a duration of 0 is none. `NoneExpired` follows where the phase is seen: a
sample with one is at most `FreshAge` old and of a document younger than `Duration` when it was taken. What a passed phase says is of samples, not of exporters; the invariant
adds that a sample which shows the application in the ConfigMap is of an exporter that
still does (`Taken`): a new application is a document that nothing shows yet, and a
scrape shows what the exporter has. `OneApplication` says that the generation of a command nothing
disturbs is the one in the ConfigMap, `ScenarioStages` that no phase is seen before the last check.

`GoodLabsPassHolds` proves `GoodLabsPass` for both verifiers, any exporters, ranks and
documents, and any bounds: a command that nothing disturbed passes. It is an argument of time,
with `EnoughTime` of either as its hypothesis (`MCVerdicts` assumes both of the run's instances).
What lives is scraped and adopts within `Lag`, so a sample taken more than `Lag`
after the start shows what was written before it (`TakenUp`, `BackToNormal`), and from `2 * Lag + 1` on every
sample is such a one. While nothing disturbs a command no time passes in its calls, so a poll falls on
every tick: a gate of the recovery that does not pass does so before that time
(`InBudget`, `EveryGatePasses`), which is within the budget. Behind the gates a sampled step is at most `2 * Lag` old
(`StepsAreYoung`), and the first one ages with the window until it is older (`Observing`). For a
timeline samples may still be of two phases, for at most `Lag` ticks from the start of a phase
(`Mixed`, `OnePhaseUnlessMixed`); `Waiting` counts them by the age of the phase (`Since`), so the
check passes by `3 * Lag + 1`.

`Lag` is one number, for adoption, scrapes and steps. In the code they differ: exporters poll every 2 s,
fabric targets are scraped every 15 s and training every 5 s (`recovery.go:84`). The sums that
`EnoughTime` is made of are within the defaults with these: adoption and a scrape within
the budget of 120 s, a step and a scrape of training within the window of 30 s, and for a timeline an adoption and two
scrapes within 45 s (`verification.go:58`).

`EventTypeCorrect` and `EventIsOfCurrentPod` hold for any number of Pods,
events and errors; the invariant adds that between the two reads the found event
is evidence for the Pod that was read (`Evidence`).

## What is only model-checked

Liveness is out of the prover's reach: `Recovers`, `InjectedCrashHappens`, `CrashesEnd`,
`TrainsOn`, `RolloutCompletes`, `TrainingResumes`, `ComesToRest`, `FollowsAccepted` (whose
safety half, `LastGoodStays`, is proved: `RefusedChangesNothing`) and `CommandEnds`
of `CommandsSucceed` (whose safety half, `CalmSucceeds`, is proved: `CalmCommandsSucceed`).
Every invariant that a passing run checks is stated by a theorem.

No run lists `TypeOK`: it is proved, or a conjunct of a property that is checked
(`ImagesLoaded`, `ModelIsOneView`, `NoLateReport`, `TimelineIsOne`).

## Not modelled

- `nvidia-smi` and the RDMA tools (`nvidiasmi`, `rdmacompat`, their `cmd/`): they fetch
  one snapshot and format it; they keep no state, and what is hard in them is layout.
- `runner`, `stateclient`, `monitoring.Client`: one external command or request each.
- `gpu doctor`, `dashboard`, `metrics`, `ib` and the dispatch of `gpu`: read-only.
- Charts, manifests, dashboards and scripts.
- Of the device plugin: the device list, `Allocate` and the health stream's content.
- Of the cluster manager: where component charts come from, the check for missing
  tools, and `RemoveLegacyComponents`, which no command calls.
- Of the inspection: identity, temperature, Xid, `dcgmi`, and the report's text.
- Of the verifiers: the thresholds of single scenarios, which are whether a
  sample shows the scenario; the decoding of Prometheus' JSON beyond its errors.
- Of the scenarios: reading YAML. Of the collective: requests of workers without
  sessions, and the numbers in gradients and the loss.
