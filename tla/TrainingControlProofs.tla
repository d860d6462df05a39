------------------------ MODULE TrainingControlProofs ------------------------
(***************************************************************************)
(* Proofs about TrainingControl: type correctness for any number of        *)
(* commands at the same time, and, until two of them overlap, that a       *)
(* generation identifies a document and that a scenario keeps the faults.  *)
(***************************************************************************)
EXTENDS TrainingControl, TLAPS

USE DEF Ranks, NoRank, Modes

-----------------------------------------------------------------------------
(* Documents. *)

Coupled(d) == d.crash = NoRank <=> d.token = 0

\* A new document is well formed and neutral.
LEMMA DocumentType ==
  ASSUME NEW g \in Nat
  PROVE  Document(g) \in Control /\ Coupled(Document(g)) /\ Document(g).gen = g
BY DEF Document, Control, Coupled

LEMMA AbsentType == Absent \in Control /\ Coupled(Absent) /\ Absent.gen = 0
BY DocumentType DEF Absent

LEMMA SpanType == Span \in Nat /\ Span = MaxOps + 1
BY BoundsAssumption DEF Span

\* What a command may make of the document it has read.
Edits(d) == {WithStraggler(d, r) : r \in Ranks} \cup {WithCrash(d, r) : r \in Ranks}
              \cup {Recovered(d)} \cup {WithScenario(d, m) : m \in Modes}

LEMMA EditType ==
  ASSUME NEW d \in Control, Coupled(d), tokens \in Nat, NEW e \in Edits(d)
  PROVE  e \in Control /\ Coupled(e) /\ e.gen = d.gen
<1>1. CASE \E r \in Ranks : e = WithStraggler(d, r)
  <2>1. PICK r \in Ranks : e = WithStraggler(d, r)
    BY <1>1
  <2>2. QED
    BY <2>1 DEF WithStraggler, Control, Coupled
<1>2. CASE \E r \in Ranks : e = WithCrash(d, r)
  <2>1. PICK r \in Ranks : e = WithCrash(d, r)
    BY <1>2
  <2>2. r # NoRank /\ tokens + 1 \in Nat /\ tokens + 1 # 0
    BY WorldAssumption
  <2>3. e = [d EXCEPT !.crash = r, !.token = tokens + 1]
    BY <2>1 DEF WithCrash
  <2>4. e \in Control /\ e.gen = d.gen /\ e.crash = r /\ e.token = tokens + 1
    BY <2>2, <2>3 DEF Control
  <2>5. QED
    BY <2>2, <2>4 DEF Coupled
<1>3. CASE e = Recovered(d)
  BY <1>3, DocumentType DEF Recovered, Control
<1>4. CASE \E m \in Modes : e = WithScenario(d, m)
  BY <1>4 DEF WithScenario, Control, Coupled
<1>5. QED
  BY <1>1, <1>2, <1>3, <1>4 DEF Edits

\* What is written has the next generation.
Bump(e) == [e EXCEPT !.gen = NextGeneration(e)]

LEMMA BumpType ==
  ASSUME NEW e \in Control, Coupled(e)
  PROVE  Bump(e) \in Control /\ Coupled(Bump(e)) /\ Bump(e).gen = e.gen + 1
BY DEF Bump, NextGeneration, Control, Coupled

-----------------------------------------------------------------------------
(* What a step does to the documents. *)

\* A command writes back.
Written ==
  \E c \in Clients : \E e \in Edits(held[c]) : Write(c, e)

\* The workers and the kubelet do not touch what the commands hold.
LEMMA StepKinds ==
  ASSUME Next
  PROVE  \/ \E c \in Clients : RunJob(c) \/ Reset(c) \/ ReadDocument(c) \/ GiveUp(c)
         \/ Written
         \/ UNCHANGED <<doc, held, runs, ops, overlapped>>
<1>1. CASE \E c \in Clients : Command(c)
  <2>1. PICK c \in Clients : Command(c)
    BY <1>1
  <2>2. CASE InjectStraggler(c) \/ InjectCrash(c) \/ Recover(c) \/ SyncScenario(c)
    BY <2>2 DEF InjectStraggler, InjectCrash, Recover, SyncScenario, Written, Edits
  <2>3. QED
    BY <2>1, <2>2 DEF Command
<1>2. CASE \E r \in Ranks :
             \/ CreatePod(r) \/ Project(r) \/ RemovePod(r) \/ DeletePod(r) \/ Kill(r)
             \/ Start(r) \/ ControlIgnored(r) \/ Step(r)
  BY <1>2 DEF CreatePod, Project, RemovePod, DeletePod, Vanish, Kill, Start,
       ControlIgnored, BeginStep, Step, ReadControl, Poll, Rejoin, InjectedCrash,
       EndStep, docVars
<1>3. CASE JoinAll \/ AllReduce
  BY <1>3 DEF JoinAll, AllReduce, docVars
<1>4. QED
  BY <1>1, <1>2, <1>3 DEF Next

Documents ==
  doc \in Control /\ held \in [Clients -> Control]
  /\ file \in [Ranks -> Control] /\ control \in [Ranks -> Control]

\* A copy is taken from an older copy or from the ConfigMap.
Copied ==
  /\ held' \in [Clients -> Control]
  /\ file' \in [Ranks -> Control] /\ control' \in [Ranks -> Control]
  /\ \A c \in Clients : held'[c] \in {held[c], doc, Absent}
  /\ \A r \in Ranks : file'[r] \in {file[r], doc, Absent}
  /\ \A r \in Ranks : control'[r] \in {control[r], file[r], Absent}

LEMMA StepCopies ==
  ASSUME Documents, Next
  PROVE  Copied
<1> USE AbsentType DEF Documents, Copied, docVars, podVars, workerVars
<1>1. CASE \E c \in Clients : RunJob(c) \/ Reset(c) \/ ReadDocument(c) \/ GiveUp(c)
  BY <1>1 DEF RunJob, Reset, ReadDocument, GiveUp
<1>2. CASE Written
  <2>1. PICK c \in Clients : \E e \in Edits(held[c]) : Write(c, e)
    BY <1>2 DEF Written
  <2>2. /\ held' = [held EXCEPT ![c] = Absent]
        /\ UNCHANGED <<file, control>>
    BY <2>1 DEF Write
  <2>3. QED
    BY <2>2
<1>3. ASSUME NEW r \in Ranks,
             CreatePod(r) \/ Project(r) \/ RemovePod(r) \/ DeletePod(r) \/ Kill(r)
      PROVE  Copied
  <2>1. CASE CreatePod(r) \/ Project(r)
    BY <2>1 DEF CreatePod, Project
  <2>2. CASE RemovePod(r) \/ DeletePod(r)
    <3>1. /\ control' = [control EXCEPT ![r] = Absent]
          /\ file' = [file EXCEPT ![r] = Absent]
          /\ UNCHANGED held
      BY <2>2 DEF RemovePod, DeletePod, Vanish, Exit
    <3>2. QED
      BY <3>1
  <2>3. CASE Kill(r)
    BY <2>3 DEF Kill, Exit
  <2>4. QED
    BY <1>3, <2>1, <2>2, <2>3
<1>4. ASSUME NEW r \in Ranks, Start(r) \/ ControlIgnored(r) \/ ReadControl(r)
      PROVE  Copied
  <2>1. CASE Start(r)
    BY <2>1 DEF Start
  <2>2. CASE ControlIgnored(r) \/ ReadControl(r)
    <3>1. /\ control' = [control EXCEPT ![r] = Absent]
             \/ control' = [control EXCEPT ![r] = file[r]]
          /\ UNCHANGED <<held, file>>
      BY <2>2 DEF ControlIgnored, BeginStep, ReadControl
    <3>2. QED
      BY <3>1
  <2>3. QED
    BY <1>4, <2>1, <2>2
<1>5. ASSUME NEW r \in Ranks,
             Poll(r) \/ Rejoin(r) \/ InjectedCrash(r) \/ EndStep(r)
      PROVE  Copied
  BY <1>5 DEF Poll, Reread, Rejoin, InjectedCrash, Exit, EndStep
<1>6. CASE JoinAll \/ AllReduce
  BY <1>6 DEF JoinAll, AllReduce
<1>7. CASE \E c \in Clients : Command(c)
  <2>1. PICK c \in Clients : Command(c)
    BY <1>7
  <2>2. CASE InjectStraggler(c) \/ InjectCrash(c) \/ Recover(c) \/ SyncScenario(c)
    <3>1. Written
      BY <2>2 DEF InjectStraggler, InjectCrash, Recover, SyncScenario, Written, Edits
    <3>2. QED
      BY <3>1, <1>2
  <2>3. QED
    BY <2>1, <2>2, <1>1 DEF Command
<1>8. QED
  BY <1>3, <1>4, <1>5, <1>6, <1>7 DEF Next, Step

LEMMA NewCopies ==
  ASSUME Documents, Next
  PROVE  Known' \subseteq Known \cup {doc'}
<1>1. Copied
  BY StepCopies
<1>2. QED
  BY <1>1 DEF Copied, Known, Copies, Absent, Document

-----------------------------------------------------------------------------
(* Types. *)

\* The ConfigMap after a step.
LEMMA DocType ==
  ASSUME TypeOK, Next
  PROVE  doc' \in Control /\ Coupled(doc')
<1>1. Coupled(doc) /\ \A c \in Clients : held[c] \in Control /\ Coupled(held[c])
  BY DEF TypeOK, Copies, Coupled
<1>2. CASE \E c \in Clients : RunJob(c)
  <2>1. (runs + 1) * Span \in Nat
    BY SpanType DEF TypeOK
  <2>2. QED
    BY <1>2, <2>1, DocumentType DEF RunJob, FreshGeneration
<1>3. CASE Written
  <2>1. PICK c \in Clients : \E e \in Edits(held[c]) : Write(c, e)
    BY <1>3 DEF Written
  <2>2. PICK e \in Edits(held[c]) : Write(c, e)
    BY <2>1
  <2>3. e \in Control /\ Coupled(e)
    BY <1>1, EditType DEF TypeOK
  <2>4. doc' \in {doc, Bump(e)}
    BY <2>2 DEF Write, Bump
  <2>5. QED
    BY <1>1, <2>3, <2>4, BumpType DEF TypeOK
<1>4. CASE doc' \in {doc, Absent}
  BY <1>1, <1>4, AbsentType DEF TypeOK
<1>5. \/ \E c \in Clients : RunJob(c)
      \/ Written
      \/ doc' \in {doc, Absent}
  BY StepKinds DEF Reset, ReadDocument, GiveUp
<1>6. QED
  BY <1>2, <1>3, <1>4, <1>5

Bookkeeping ==
  /\ phase \in [Ranks -> {"none", "off", "joining", "ready", "stalled",
                          "reducing", "reduced"}]
  /\ joined \in [Ranks -> BOOLEAN]
  /\ applied \in [Ranks -> SUBSET Nat] /\ doomed \subseteq Ranks
  /\ fired \subseteq Nat
  /\ runs \in Nat /\ tokens \in Nat /\ ops \in Nat /\ faults \in Nat

LEMMA OverlapType ==
  ASSUME TypeOK, Next
  PROVE  overlapped' \in BOOLEAN
BY StepKinds DEF TypeOK, RunJob, Reset, ReadDocument, GiveUp, Begin, Written, Write

LEMMA BookkeepingType ==
  ASSUME TypeOK, Next
  PROVE  Bookkeeping'
<1> USE DEF Bookkeeping, podVars, workerVars, docVars
<1>0. Bookkeeping
  BY DEF TypeOK
<1>1. ASSUME NEW c \in Clients, RunJob(c) \/ Reset(c) \/ ReadDocument(c) \/ GiveUp(c)
      PROVE  Bookkeeping'
  <2>1. /\ runs' \in {runs, runs + 1} /\ ops' \in {ops, ops + 1}
        /\ doomed' \subseteq doomed \cup Ranks
        /\ UNCHANGED <<phase, joined, applied, fired, tokens, faults>>
    BY <1>1 DEF RunJob, Reset, ReadDocument, GiveUp, Begin
  <2>2. QED
    BY <1>0, <2>1
<1>2. ASSUME NEW c \in Clients,
             InjectStraggler(c) \/ InjectCrash(c) \/ Recover(c) \/ SyncScenario(c)
      PROVE  Bookkeeping'
  <2>1. tokens' \in {tokens, tokens + 1}
    BY <1>2 DEF InjectStraggler, InjectCrash, Recover, SyncScenario
  <2>2. \E e \in Edits(held[c]) : Write(c, e)
    BY <1>2 DEF InjectStraggler, InjectCrash, Recover, SyncScenario, Edits
  <2>3. UNCHANGED <<phase, joined, applied, doomed, fired, runs, ops, faults>>
    BY <2>2 DEF Write
  <2>4. QED
    BY <1>0, <2>1, <2>3
<1>3. ASSUME NEW r \in Ranks, CreatePod(r) \/ Project(r) \/ Kill(r)
      PROVE  Bookkeeping'
  <2>1. /\ phase' \in {phase, [phase EXCEPT ![r] = "off"]}
        /\ joined' \in {joined, [joined EXCEPT ![r] = FALSE]}
        /\ faults' \in {faults, faults + 1}
        /\ UNCHANGED <<applied, doomed, fired, runs, tokens, ops>>
    BY <1>3 DEF CreatePod, Project, Kill, Exit
  <2>2. joined' \in [Ranks -> BOOLEAN]
    BY <1>0, <2>1
  <2>3. phase' \in [Ranks -> {"none", "off", "joining", "ready", "stalled",
                              "reducing", "reduced"}]
    BY <1>0, <2>1
  <2>4. QED
    BY <1>0, <2>1, <2>2, <2>3
<1>4. ASSUME NEW r \in Ranks, RemovePod(r) \/ DeletePod(r)
      PROVE  Bookkeeping'
  <2>1. /\ phase' = [phase EXCEPT ![r] = "none"]
        /\ joined' = [joined EXCEPT ![r] = FALSE]
        /\ applied' = [applied EXCEPT ![r] = {}]
        /\ doomed' = doomed \ {r}
        /\ faults' \in {faults, faults + 1}
        /\ UNCHANGED <<fired, runs, tokens, ops>>
    BY <1>4 DEF RemovePod, DeletePod, Vanish, Exit
  <2>2. QED
    BY <1>0, <2>1
<1>5. ASSUME NEW r \in Ranks, Start(r) \/ Rejoin(r) \/ EndStep(r)
      PROVE  Bookkeeping'
  <2>1. /\ \/ phase' = [phase EXCEPT ![r] = "joining"]
           \/ phase' = [phase EXCEPT ![r] = "ready"]
        /\ joined' \in {joined, [q \in Ranks |-> FALSE]}
        /\ UNCHANGED <<applied, doomed, fired, runs, tokens, ops, faults>>
    BY <1>5 DEF Start, Move, Rejoin, EndStep
  <2>2. QED
    BY <1>0, <2>1
<1>6. ASSUME NEW r \in Ranks, ControlIgnored(r) \/ ReadControl(r) \/ Poll(r)
      PROVE  Bookkeeping'
  <2>1. /\ \/ phase' = [phase EXCEPT ![r] = "stalled"]
           \/ phase' = [phase EXCEPT ![r] = "reducing"]
        /\ faults' \in {faults, faults + 1}
        /\ UNCHANGED <<joined, applied, doomed, fired, runs, tokens, ops>>
    BY <1>6 DEF ControlIgnored, ReadControl, BeginStep, Poll, Move
  <2>2. QED
    BY <1>0, <2>1
<1>7. ASSUME NEW r \in Ranks, InjectedCrash(r)
      PROVE  Bookkeeping'
  <2>1. control[r].gen \in Nat /\ control[r].token \in Nat
    BY DEF TypeOK, Control
  <2>2. /\ phase' = [phase EXCEPT ![r] = "off"]
        /\ joined' = [joined EXCEPT ![r] = FALSE]
        /\ applied' = [applied EXCEPT ![r] = applied[r] \cup {control[r].gen}]
        /\ fired' = fired \cup {control[r].token}
        /\ UNCHANGED <<doomed, runs, tokens, ops, faults>>
    BY <1>7 DEF InjectedCrash, Remember, CrashID, Exit
  <2>3. applied[r] \cup {control[r].gen} \in SUBSET Nat
    BY <1>0, <2>1
  <2>4. QED
    BY <1>0, <2>1, <2>2, <2>3
<1>8. CASE JoinAll \/ AllReduce
  BY <1>0, <1>8 DEF JoinAll, AllReduce
<1>9. QED
  BY <1>1, <1>2, <1>3, <1>4, <1>5, <1>6, <1>7, <1>8 DEF Next, Command, Step

\* Type correctness, for any number of ranks and of commands at a time.
THEOREM ControlTypeCorrect == Spec => []TypeOK
<1>1. Init => TypeOK
  <2>1. Init => overlapped \in BOOLEAN
    BY Zenon DEF Init
  <2>2. ASSUME Init
        PROVE  /\ Bookkeeping /\ Documents
               /\ \A d \in Copies : Coupled(d)
    BY <2>2, AbsentType DEF Init, Bookkeeping, Documents, Copies
  <2>3. QED
    BY <2>1, <2>2 DEF TypeOK, Bookkeeping, Documents, Coupled
<1>2. TypeOK /\ [Next]_vars => TypeOK'
  <2>1. ASSUME TypeOK, Next
        PROVE  TypeOK'
    <3>1. Bookkeeping' /\ doc' \in Control /\ overlapped' \in BOOLEAN
      BY <2>1, BookkeepingType, DocType, OverlapType
    <3>2. /\ held' \in [Clients -> Control]
          /\ file' \in [Ranks -> Control] /\ control' \in [Ranks -> Control]
      BY <2>1, StepCopies DEF TypeOK, Documents, Copied
    <3>3. Copies' \subseteq Copies \cup {Absent, doc'}
      BY <2>1, NewCopies DEF TypeOK, Documents, Known
    <3>4. \A d \in Copies \cup {Absent, doc'} : Coupled(d)
      BY <2>1, AbsentType, DocType DEF TypeOK, Coupled
    <3>5. \A d \in Copies' : Coupled(d)
      BY <3>3, <3>4
    <3>6. QED
      BY <3>1, <3>2, <3>5 DEF TypeOK, Bookkeeping, Coupled
  <2>2. CASE UNCHANGED vars
    BY <2>2 DEF TypeOK, Copies, vars, docVars, podVars, workerVars
  <2>3. QED
    BY <2>1, <2>2
<1>3. QED
  BY <1>1, <1>2, PTL DEF Spec

-----------------------------------------------------------------------------
(* Commands that do not overlap. *)

\* The copies after a step: some of those known before, and the ConfigMap,
\* which is one of them or newer than all of them.
LEMMA UniqueKept ==
  ASSUME Unique, Known' \subseteq Known \cup {doc'},
         doc' \in Known \/ \A d \in Known : d.gen < doc'.gen,
         \A d \in Known : d.gen \in Nat, doc'.gen \in Nat
  PROVE  Unique'
<1>1. \A d, e \in Known \cup {doc'} : d.gen = e.gen => d = e
  BY DEF Unique
<1>2. QED
  BY <1>1 DEF Unique

LEMMA GenerationTypes ==
  ASSUME TypeOK
  PROVE  /\ \A d \in Known : d.gen \in Nat
         /\ doc \in Known /\ Absent \in Known
         /\ runs * Span \in Nat
         /\ (runs + 1) * Span = runs * Span + Span
<1>1. \A d \in Known : d.gen \in Nat
  <2>1. \A d \in Known : d \in Control
    BY AbsentType DEF TypeOK, Known, Copies
  <2>2. QED
    BY <2>1 DEF Control
<1>2. runs \in Nat /\ Span \in Nat
  BY SpanType DEF TypeOK
<1>3. runs * Span \in Nat /\ (runs + 1) * Span = runs * Span + Span
  BY <1>2
<1>4. QED
  BY <1>1, <1>3 DEF Known, Copies

\* What CommandInv says as long as no two commands have overlapped.
AloneInv == Bounded /\ HeldIsCurrent /\ Unique

\* A command that begins keeps them from overlapping only when none is under way.
LEMMA BeginsAlone ==
  ASSUME TypeOK, NEW c \in Clients, Begin(c), ~overlapped'
  PROVE  ~overlapped /\ \A d \in Clients : held[d] = Absent
BY DEF Begin, TypeOK

\* The commands.
LEMMA AloneCommand ==
  ASSUME TypeOK, TypeOK', AloneInv, ops <= MaxOps, ops' <= MaxOps, ~overlapped', Next,
         NEW c \in Clients, RunJob(c) \/ Reset(c) \/ ReadDocument(c) \/ GiveUp(c)
  PROVE  AloneInv'
<1> USE GenerationTypes, SpanType, BoundsAssumption
<1>0. /\ ops \in Nat /\ runs \in Nat /\ doc.gen \in Nat /\ doc'.gen \in Nat
      /\ Known' \subseteq Known \cup {doc'}
  BY NewCopies DEF TypeOK, Documents, Control
<1>1. CASE RunJob(c)
  <2>1. /\ ops' = ops + 1 /\ runs' = runs + 1 /\ UNCHANGED held
        /\ doc' = Document((runs + 1) * Span) /\ \A d \in Clients : held[d] = Absent
    BY <1>1, BeginsAlone DEF RunJob, FreshGeneration, Begin
  <2>2. doc'.gen = runs * Span + Span /\ runs' * Span = runs * Span + Span
    BY <2>1, DocumentType
  <2>3. \A d \in Known : d.gen < doc'.gen
    BY <1>0, <2>2 DEF AloneInv, Bounded
  <2>4. Unique'
    BY <1>0, <2>3, UniqueKept DEF AloneInv
  <2>5. Bounded'
    BY <1>0, <2>1, <2>2, <2>3 DEF Bounded
  <2>6. HeldIsCurrent'
    BY <2>1 DEF HeldIsCurrent
  <2>7. QED
    BY <2>4, <2>5, <2>6 DEF AloneInv
<1>2. CASE Reset(c) \/ ReadDocument(c) \/ GiveUp(c)
  <2>1. /\ ops' \in {ops, ops + 1} /\ UNCHANGED runs
        /\ doc' \in {doc, Absent}
    BY <1>0, <1>2 DEF Reset, ReadDocument, GiveUp, Begin
  <2>2. Unique'
    BY <1>0, <2>1, UniqueKept DEF AloneInv
  <2>3. Bounded'
    <3>1. \A d \in Known' : d \in Known
      BY <1>0, <2>1
    <3>2. \A d \in Known : d.gen <= runs * Span + ops'
      BY <1>0, <2>1 DEF AloneInv, Bounded
    <3>3. Deployed' => Deployed /\ doc' = doc
      BY <2>1 DEF Deployed
    <3>4. QED
      BY <2>1, <3>1, <3>2, <3>3 DEF AloneInv, Bounded
  <2>4. HeldIsCurrent'
    <3>1. CASE Reset(c)
      BY <3>1, BeginsAlone DEF Reset, HeldIsCurrent
    <3>2. CASE ReadDocument(c)
      <4>1. /\ Deployed /\ ops' = ops + 1 /\ UNCHANGED <<doc, runs>>
            /\ held' = [held EXCEPT ![c] = doc]
            /\ \A d \in Clients : held[d] = Absent
        BY <3>2, BeginsAlone DEF ReadDocument, Begin
      <4>2. doc.gen < runs * Span + ops'
        BY <1>0, <4>1 DEF AloneInv, Bounded
      <4>3. held'[c] = doc /\ \A d \in Clients : d # c => held'[d] = Absent
        BY <4>1 DEF TypeOK
      <4>4. QED
        BY <4>1, <4>2, <4>3 DEF HeldIsCurrent, Deployed
    <3>3. CASE GiveUp(c)
      <4>1. /\ \A d \in Clients : held'[d] # Absent => held[d] # Absent /\ held'[d] = held[d]
            /\ UNCHANGED <<doc, runs, ops>>
        BY <3>3 DEF GiveUp, TypeOK
      <4>2. QED
        BY <4>1 DEF AloneInv, HeldIsCurrent, Deployed
    <3>4. QED
      BY <1>2, <3>1, <3>2, <3>3
  <2>5. QED
    BY <2>2, <2>3, <2>4 DEF AloneInv
<1>3. QED
  BY <1>1, <1>2

\* A write.
LEMMA AloneWrite ==
  ASSUME TypeOK, TypeOK', AloneInv, Next, NEW c \in Clients, NEW e \in Edits(held[c]),
         Write(c, e)
  PROVE  AloneInv'
<1> USE GenerationTypes, SpanType, BoundsAssumption
<1>0. /\ ops \in Nat /\ runs \in Nat /\ doc.gen \in Nat /\ doc'.gen \in Nat
      /\ Known' \subseteq Known \cup {doc'}
  BY NewCopies DEF TypeOK, Documents, Control
<1>1. /\ Deployed /\ held[c] = doc /\ doc.gen < runs * Span + ops
      /\ \A d \in Clients : d # c => held[d] = Absent
  BY DEF Write, AloneInv, HeldIsCurrent
<1>2. /\ doc' = Bump(e) /\ UNCHANGED <<runs, ops>>
      /\ held' = [held EXCEPT ![c] = Absent]
  BY <1>1 DEF Write, Bump
<1>3. doc'.gen = doc.gen + 1
  <2>1. held[c] \in Control /\ Coupled(held[c])
    BY DEF TypeOK, Copies, Coupled
  <2>2. e \in Control /\ Coupled(e) /\ e.gen = held[c].gen
    BY <2>1, EditType DEF TypeOK
  <2>3. QED
    BY <1>1, <1>2, <2>2, BumpType
<1>4. \A d \in Known : d.gen < doc'.gen
  BY <1>0, <1>1, <1>3 DEF AloneInv, Bounded
<1>5. Unique'
  BY <1>0, <1>4, UniqueKept DEF AloneInv
<1>6. Bounded'
  BY <1>0, <1>1, <1>2, <1>3, <1>4 DEF Bounded
<1>7. HeldIsCurrent'
  <2>1. \A d \in Clients : held'[d] = Absent
    BY <1>1, <1>2 DEF TypeOK
  <2>2. QED
    BY <2>1 DEF HeldIsCurrent
<1>8. QED
  BY <1>5, <1>6, <1>7 DEF AloneInv

LEMMA CommandInvKept ==
  ASSUME TypeOK, TypeOK', CommandInv, [Next]_vars
  PROVE  CommandInv'
<1>1. CASE UNCHANGED vars
  BY <1>1 DEF CommandInv, Bounded, HeldIsCurrent, Unique, Known, Copies, Deployed,
              vars, docVars, podVars, workerVars
<1>2. ASSUME Next
      PROVE  ops' <= MaxOps /\ (~overlapped' => ~overlapped)
  <2>1. \/ \E c \in Clients : Begin(c)
        \/ UNCHANGED <<ops, overlapped>>
    BY <1>2, StepKinds DEF RunJob, Reset, ReadDocument, GiveUp, Written, Write
  <2>2. QED
    BY <2>1, BoundsAssumption DEF Begin, CommandInv, TypeOK
<1>3. ASSUME Next, ~overlapped'
      PROVE  AloneInv'
  <2>1. AloneInv /\ ops <= MaxOps /\ ops' <= MaxOps
    BY <1>2, <1>3 DEF CommandInv, AloneInv
  <2>2. CASE Written
    BY <1>3, <2>1, <2>2, AloneWrite DEF Written
  <2>3. CASE UNCHANGED <<doc, held, runs, ops, overlapped>>
    <3>1. Known' \subseteq Known
      BY <1>3, <2>3, NewCopies DEF TypeOK, Documents, Known, Copies
    <3>2. QED
      BY <2>1, <2>3, <3>1 DEF AloneInv, Bounded, HeldIsCurrent, Unique, Deployed
  <2>4. QED
    BY <1>3, <2>1, <2>2, <2>3, AloneCommand, StepKinds
<1>4. QED
  BY <1>1, <1>2, <1>3 DEF CommandInv, AloneInv

\* The inductive invariant of commands that do not overlap, for every number of
\* ranks, commands and faults.
THEOREM CommandInvariant == Spec => []CommandInv
<1>1. Init => CommandInv
  <2>1. ASSUME Init
        PROVE  Known = {Absent} /\ ~Deployed /\ runs * Span = 0 /\ ops = 0
    <3>1. runs * Span = 0
      BY <2>1, SpanType DEF Init
    <3>2. QED
      BY <2>1, <3>1 DEF Init, Known, Copies, Deployed
  <2>2. ASSUME Init
        PROVE  Bounded /\ HeldIsCurrent /\ Unique
    <3>1. \A c \in Clients : held[c] = Absent
      BY <2>2 DEF Init
    <3>2. Absent.gen = 0
      BY AbsentType
    <3>3. QED
      BY <2>1, <2>2, <3>1, <3>2 DEF Bounded, HeldIsCurrent, Unique
  <2>3. QED
    BY <2>1, <2>2, BoundsAssumption DEF CommandInv
<1>2. TypeOK /\ TypeOK' /\ CommandInv /\ [Next]_vars => CommandInv'
  BY CommandInvKept
<1>3. QED
  BY <1>1, <1>2, ControlTypeCorrect, PTL DEF Spec

\* Until two commands overlap, a generation identifies a document: what the
\* workers record as the identity of a crash never means two documents.
THEOREM GenerationIdentifies == Spec => []GenerationIdentifiesControl
<1>1. CommandInv => GenerationIdentifiesControl
  BY DEF CommandInv, Unique, Known, GenerationIdentifiesControl
<1>2. QED
  BY <1>1, CommandInvariant, PTL

\* Until two commands overlap, a scenario that is synchronized preserves the
\* straggler and the crash in the document (ApplyFabricControl).
THEOREM SyncPreserves == Spec => SyncAlonePreservesFaults
<1>1. TypeOK /\ CommandInv /\ [Next]_vars =>
        [\A c \in Clients :
           SyncScenario(c) /\ Deployed /\ ~overlapped =>
             /\ doc'.straggler = doc.straggler
             /\ doc'.crash = doc.crash /\ doc'.token = doc.token]_vars
  <2>1. ASSUME TypeOK, CommandInv, ~overlapped, NEW c \in Clients, SyncScenario(c), Deployed
        PROVE  /\ doc'.straggler = doc.straggler
               /\ doc'.crash = doc.crash /\ doc'.token = doc.token
    <3>1. PICK m \in Modes : Write(c, WithScenario(held[c], m))
      BY <2>1 DEF SyncScenario
    <3>2. held[c] = doc /\ doc' = Bump(WithScenario(doc, m))
      BY <2>1, <3>1 DEF Write, Bump, CommandInv, HeldIsCurrent
    <3>3. doc \in Control
      BY <2>1 DEF TypeOK
    <3>4. QED
      BY <3>2, <3>3 DEF Bump, WithScenario, Control
  <2>2. QED
    BY <2>1
<1>2. QED
  BY <1>1, ControlTypeCorrect, CommandInvariant, PTL DEF Spec, SyncAlonePreservesFaults
=============================================================================
