--------------------------- MODULE TrainingControl ---------------------------
(***************************************************************************)
(* The control document of the training job: one ConfigMap that the        *)
(* commands "gpu training" and "gpu scenario" change with an unlocked read *)
(* and a later write, that the kubelet copies into every Pod some time     *)
(* afterwards, and that every worker reads before each step and acts on    *)
(* after it.  A step is the barrier of SessionBarrier; what fails inside   *)
(* it is the subject of Collective and is left out here.                   *)
(***************************************************************************)
EXTENDS Integers, FiniteSets

CONSTANTS
  World,      \* WORLD_SIZE
  Clients,    \* gpu commands that may run at the same time
  MaxOps,     \* bound: commands
  MaxFaults   \* bound: kills, Pod deletions, unreadable control files

ASSUME WorldAssumption  == World \in Nat \ {0}
ASSUME BoundsAssumption == MaxOps \in Nat /\ MaxFaults \in Nat

Ranks == 0 .. World - 1
NoRank == -1                   \* a nil *int
Modes == {"normal", "down"}    \* the other modes only delay a step

\* ControlState.  The generation of a run is a time in nanoseconds, so no
\* number of later increments reaches that of another run: runs are Span apart.
Control == [gen : Nat, straggler : Ranks \cup {NoRank},
            crash : Ranks \cup {NoRank}, token : Nat, mode : Modes]

Span == MaxOps + 1
Document(g) == [gen |-> g, straggler |-> NoRank, crash |-> NoRank,
                token |-> 0, mode |-> "normal"]
Absent == Document(0)          \* no ConfigMap, no file, or a file not read

VARIABLES
  doc,        \* control.json in the ConfigMap
  held,       \* what a command has read and not yet written, Absent if nothing
  runs,       \* number of "gpu training run", which number their generations
  tokens,     \* crash tokens drawn: times in nanoseconds, never repeated
  file,       \* the projected file in the Pod of a rank
  phase,      \* where the worker of a rank is
  joined,     \* it is in the session its peers are in
  control,    \* the document it read at the start of the step
  applied,    \* AppliedCrashGenerations in its checkpoint
  doomed,     \* ranks whose Pod belongs to a StatefulSet already deleted
  fired,      \* tokens of the crashes that have happened
  ops, faults,
  overlapped  \* a command has begun between the read and the write of another

docVars    == <<doc, held, runs, tokens>>
podVars    == <<file, applied, doomed>>
workerVars == <<phase, joined, control>>
vars == <<docVars, podVars, workerVars, fired, ops, faults, overlapped>>

Deployed == doc # Absent

Init ==
  /\ doc = Absent /\ runs = 0 /\ tokens = 0
  /\ held = [c \in Clients |-> Absent]
  /\ file = [r \in Ranks |-> Absent]
  /\ phase = [r \in Ranks |-> "none"]
  /\ joined = [r \in Ranks |-> FALSE]
  /\ control = [r \in Ranks |-> Absent]
  /\ applied = [r \in Ranks |-> {}]
  /\ doomed = {} /\ fired = {} /\ ops = 0 /\ faults = 0
  /\ overlapped = FALSE

-----------------------------------------------------------------------------
(* The commands. *)

Begin(c) ==
  /\ held[c] = Absent /\ ops < MaxOps /\ ops' = ops + 1
  /\ overlapped' = (overlapped \/ \E d \in Clients : held[d] # Absent)

FreshGeneration == (runs + 1) * Span

\* gpu training run: kubectl apply of a whole new document and the StatefulSet.
RunJob(c) ==
  /\ Begin(c)
  /\ runs' = runs + 1
  /\ doc' = Document(FreshGeneration)
  /\ UNCHANGED <<held, tokens, podVars, workerVars, fired, faults>>

\* gpu training reset: StatefulSet, service and ConfigMap are deleted; the
\* Pods follow later.
Reset(c) ==
  /\ Begin(c)
  /\ doc' = Absent
  /\ doomed' = {r \in Ranks : phase[r] # "none"}
  /\ UNCHANGED <<held, runs, tokens, file, applied, workerVars, fired, faults>>

\* Mutate, first half: a command reads the document; without one it fails.
ReadDocument(c) ==
  /\ Begin(c) /\ Deployed
  /\ held' = [held EXCEPT ![c] = doc]
  /\ UNCHANGED <<doc, runs, tokens, podVars, workerVars, fired, faults>>

\* Mutants: the generation stays; a scenario replaces the document.
SameGeneration(d) == d.gen
ScenarioReplaces(d, m) == [Document(d.gen) EXCEPT !.mode = m]

NextGeneration(d) == d.gen + 1

WithStraggler(d, r) == [d EXCEPT !.straggler = r, !.crash = NoRank, !.token = 0]
WithCrash(d, r)     == [d EXCEPT !.crash = r, !.token = tokens + 1]
WithScenario(d, m)  == [d EXCEPT !.mode = m]
Recovered(d)        == Document(d.gen)

\* Mutate, second half: the patch replaces the document, whatever it is by
\* now; it fails if the ConfigMap is gone.
Write(c, d) ==
  /\ held[c] # Absent
  /\ held' = [held EXCEPT ![c] = Absent]
  /\ doc' = IF Deployed THEN [d EXCEPT !.gen = NextGeneration(d)] ELSE doc
  /\ UNCHANGED <<runs, podVars, workerVars, fired, ops, faults, overlapped>>

InjectStraggler(c) ==
  \E r \in Ranks : Write(c, WithStraggler(held[c], r)) /\ UNCHANGED tokens

InjectCrash(c) ==
  \E r \in Ranks : Write(c, WithCrash(held[c], r)) /\ tokens' = tokens + 1

Recover(c) == Write(c, Recovered(held[c])) /\ UNCHANGED tokens

SyncScenario(c) ==
  \E m \in Modes : Write(c, WithScenario(held[c], m)) /\ UNCHANGED tokens

\* A command is interrupted or times out between the two.
GiveUp(c) ==
  /\ held[c] # Absent
  /\ held' = [held EXCEPT ![c] = Absent]
  /\ UNCHANGED <<doc, runs, tokens, podVars, workerVars, fired, ops, faults, overlapped>>

-----------------------------------------------------------------------------
(* Pods. *)

\* A Pod starts once its ConfigMap volume can be mounted.
CreatePod(r) ==
  /\ Deployed /\ phase[r] = "none"
  /\ phase' = [phase EXCEPT ![r] = "off"]
  /\ file' = [file EXCEPT ![r] = doc]
  /\ UNCHANGED <<docVars, applied, doomed, joined, control, fired, ops, faults, overlapped>>

\* The kubelet refreshes the projected file; it keeps the last one when the
\* ConfigMap is gone.
Project(r) ==
  /\ Deployed /\ phase[r] # "none" /\ file[r] # doc
  /\ file' = [file EXCEPT ![r] = doc]
  /\ UNCHANGED <<docVars, applied, doomed, workerVars, fired, ops, faults, overlapped>>

\* The process of r ends; s is what is left of its Pod.
Exit(r, s) ==
  /\ phase' = [phase EXCEPT ![r] = s]
  /\ joined' = [joined EXCEPT ![r] = FALSE]
  /\ control' = [control EXCEPT ![r] = Absent]

Vanish(r) ==
  /\ Exit(r, "none")
  /\ file' = [file EXCEPT ![r] = Absent]
  /\ applied' = [applied EXCEPT ![r] = {}]
  /\ doomed' = doomed \ {r}
  /\ UNCHANGED <<docVars, fired, ops, overlapped>>

\* The Pod of a deleted StatefulSet is removed.
RemovePod(r) == r \in doomed /\ Vanish(r) /\ UNCHANGED faults

\* A Pod is deleted, and its emptyDir with it; the StatefulSet makes a new one.
DeletePod(r) ==
  /\ phase[r] # "none" /\ faults < MaxFaults
  /\ Vanish(r)
  /\ faults' = faults + 1

Kill(r) ==
  /\ phase[r] \notin {"none", "off"} /\ faults < MaxFaults
  /\ Exit(r, "off")
  /\ faults' = faults + 1
  /\ UNCHANGED <<docVars, podVars, fired, ops, overlapped>>

-----------------------------------------------------------------------------
(* Workers. *)

Move(r, p) == phase' = [phase EXCEPT ![r] = p]

\* A restarted process joins as a new incarnation, which replaces the session.
Start(r) ==
  /\ phase[r] = "off"
  /\ Move(r, "joining")
  /\ joined' = [q \in Ranks |-> FALSE]
  /\ UNCHANGED <<docVars, podVars, control, fired, ops, faults, overlapped>>

\* The rendezvous: every rank is in join and they leave it in one session.
JoinAll ==
  /\ \A r \in Ranks : phase[r] = "joining"
  /\ phase' = [r \in Ranks |-> "ready"]
  /\ joined' = [r \in Ranks |-> TRUE]
  /\ UNCHANGED <<docVars, podVars, control, fired, ops, faults, overlapped>>

\* The step begins with the document c: a link that is down holds the rank.
BeginStep(r, c) ==
  /\ phase[r] = "ready"
  /\ control' = [control EXCEPT ![r] = c]
  /\ Move(r, IF c.mode = "down" THEN "stalled" ELSE "reducing")
  /\ UNCHANGED <<docVars, podVars, joined, fired, ops, overlapped>>

ReadControl(r) == BeginStep(r, file[r]) /\ UNCHANGED faults

\* An unreadable or malformed file counts as a neutral one.
ControlIgnored(r) ==
  /\ faults < MaxFaults /\ faults' = faults + 1
  /\ BeginStep(r, Absent)

\* Mutant: the wait looks at the control it came with.
KeepControl(r) == control[r]

Reread(r) == file[r]

\* waitForFabricRecovery polls; on an unreadable file it keeps what it has.
Poll(r) ==
  /\ phase[r] = "stalled"
  /\ control' = [control EXCEPT ![r] = Reread(r)]
  /\ Move(r, IF Reread(r).mode = "down" THEN "stalled" ELSE "reducing")
  /\ UNCHANGED <<docVars, podVars, joined, fired, ops, faults, overlapped>>

\* 409: the session was replaced while r was waiting or stalled.
Rejoin(r) ==
  /\ phase[r] = "reducing" /\ ~joined[r]
  /\ Move(r, "joining")
  /\ UNCHANGED <<docVars, podVars, joined, control, fired, ops, faults, overlapped>>

\* The barrier of the step.
AllReduce ==
  /\ \A r \in Ranks : phase[r] = "reducing" /\ joined[r]
  /\ phase' = [r \in Ranks |-> "reduced"]
  /\ UNCHANGED <<docVars, podVars, joined, control, fired, ops, faults, overlapped>>

\* CrashID prefers the generation of the document to the token of the crash.
CrashID(d) == d.gen

\* Mutant: the crash is not recorded in the checkpoint.
ForgetCrash(r) == applied[r]

Remember(r) == applied[r] \cup {CrashID(control[r])}

CrashDue(r) == control[r].crash = r /\ CrashID(control[r]) \notin applied[r]

\* After the step: the checkpoint records the crash, then the process fails.
InjectedCrash(r) ==
  /\ phase[r] = "reduced" /\ CrashDue(r)
  /\ applied' = [applied EXCEPT ![r] = Remember(r)]
  /\ fired' = fired \cup {control[r].token}
  /\ Exit(r, "off")
  /\ UNCHANGED <<docVars, file, doomed, ops, faults, overlapped>>

EndStep(r) ==
  /\ phase[r] = "reduced" /\ ~CrashDue(r)
  /\ Move(r, "ready")
  /\ UNCHANGED <<docVars, podVars, joined, control, fired, ops, faults, overlapped>>

Step(r) == ReadControl(r) \/ Poll(r) \/ Rejoin(r) \/ InjectedCrash(r) \/ EndStep(r)

-----------------------------------------------------------------------------
Command(c) ==
  \/ RunJob(c) \/ Reset(c) \/ ReadDocument(c) \/ GiveUp(c)
  \/ InjectStraggler(c) \/ InjectCrash(c) \/ Recover(c) \/ SyncScenario(c)

Next ==
  \/ \E c \in Clients : Command(c)
  \/ \E r \in Ranks :
       \/ CreatePod(r) \/ Project(r) \/ RemovePod(r) \/ DeletePod(r) \/ Kill(r)
       \/ Start(r) \/ ControlIgnored(r) \/ Step(r)
  \/ JoinAll
  \/ AllReduce

Spec == Init /\ [][Next]_vars

\* The kubelet creates, refreshes, removes and restarts; the workers' loops do
\* not stop.  Nothing is asked of the commands and the faults.
Fairness ==
  /\ WF_vars(JoinAll) /\ WF_vars(AllReduce)
  /\ \A r \in Ranks : /\ WF_vars(CreatePod(r)) /\ WF_vars(Project(r))
                      /\ WF_vars(RemovePod(r))
                      /\ WF_vars(Start(r)) /\ WF_vars(Step(r))

FairSpec == Spec /\ Fairness

-----------------------------------------------------------------------------
(* Properties. *)

\* Every copy of the document that may still be read, written or acted on.
Copies == {doc} \cup {held[c] : c \in Clients}
                \cup {file[r] : r \in Ranks} \cup {control[r] : r \in Ranks}

\* Types; a crash rank and its token come and go together.
TypeOK ==
  /\ doc \in Control /\ held \in [Clients -> Control]
  /\ file \in [Ranks -> Control] /\ control \in [Ranks -> Control]
  /\ \A d \in Copies : d.crash = NoRank <=> d.token = 0
  /\ phase \in [Ranks -> {"none", "off", "joining", "ready", "stalled",
                          "reducing", "reduced"}]
  /\ joined \in [Ranks -> BOOLEAN]
  /\ applied \in [Ranks -> SUBSET Nat] /\ doomed \subseteq Ranks
  /\ fired \subseteq Nat
  /\ runs \in Nat /\ tokens \in Nat /\ ops \in Nat /\ faults \in Nat
  /\ overlapped \in BOOLEAN

\* What makes a generation fit to identify a crash (CrashID): copies of the
\* document that differ, however old, have different generations, until two
\* commands overlap.
GenerationIdentifiesControl ==
  ~overlapped => \A d, e \in Copies : d.gen = e.gen => d = e

\* The copies, and the neutral document that a missing one stands for.
Known == Copies \cup {Absent}

\* No known document is newer than the ConfigMap, if there is one, or than
\* the runs and commands so far can have made it.
Bounded ==
  \A d \in Known : /\ Deployed => d.gen <= doc.gen
                   /\ d.gen <= runs * Span + ops

\* The one command that has read the document will find it unchanged.
HeldIsCurrent ==
  \A c \in Clients : held[c] # Absent =>
    /\ Deployed /\ held[c] = doc /\ doc.gen < runs * Span + ops
    /\ \A d \in Clients : held[d] # Absent => d = c

Unique == \A d, e \in Known : d.gen = e.gen => d = e

\* The inductive invariant of commands that do not overlap.
CommandInv ==
  ops <= MaxOps /\ (~overlapped => Bounded /\ HeldIsCurrent /\ Unique)

\* ApplyFabricControl: "Existing straggler and crash controls are intentionally
\* preserved when scenarios are synchronized."
SyncPreservesFaults ==
  [][\A c \in Clients :
       SyncScenario(c) /\ Deployed =>
         /\ doc'.straggler = doc.straggler
         /\ doc'.crash = doc.crash /\ doc'.token = doc.token]_vars

\* That is so until two commands overlap.
SyncAlonePreservesFaults ==
  [][\A c \in Clients :
       SyncScenario(c) /\ Deployed /\ ~overlapped =>
         /\ doc'.straggler = doc.straggler
         /\ doc'.crash = doc.crash /\ doc'.token = doc.token]_vars

\* Control: "CrashGeneration (or Token) identifies a one-shot crash": one
\* injection, one crash.
CrashIsOneShot ==
  [][\A r \in Ranks : InjectedCrash(r) => control[r].token \notin fired]_vars

\* A crash that stays in the document is not a crash loop: once commands and
\* faults have ended, so have the injected crashes.
CrashesEnd == <>[][\A r \in Ranks : ~InjectedCrash(r)]_vars

\* A crash that stays in the document of a job with a working fabric happens,
\* unless commands overlap.
InjectedCrashHappens ==
  \A t \in 1 .. MaxOps :
    <>[](doc.token = t /\ doc.mode # "down" /\ ~overlapped) => <>(t \in fired)

\* A fabric fault that is cleared releases every rank, in whatever order they
\* learn of it and whatever happened to them meanwhile: training goes on.
TrainsOn ==
  <>[](Deployed /\ doc.mode # "down") => []<><<AllReduce>>_vars
=============================================================================
