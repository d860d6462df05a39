---------------------------- MODULE RolloutProofs ----------------------------
(***************************************************************************)
(* Proofs about Rollout, which TrainingJob calls Update, for every         *)
(* sequence of templates and any number of crashes: the types, and that a  *)
(* worker only trains in a session that all ranks of its coordinator's     *)
(* world have joined.                                                      *)
(***************************************************************************)
EXTENDS TrainingJob, TLAPS

USE TemplatesAssumption DEF Update!RolloutAssumption, Update!Ordinals

Image == {"old", "new"}
Applied == [image : Image, world : 1 .. 3]

Pods == {Templates[i] : i \in DOMAIN Templates} \cup {Update!NoPod}

-----------------------------------------------------------------------------
(* The invariant.  A session is kept by the coordinator that runs, and     *)
(* "current" is said of a process that is in it; Pods that have no process *)
(* are what makes the controller free to replace them.                     *)

Shape == /\ template \in DOMAIN Templates
         /\ terminating \subseteq {r \in Update!Ordinals : Update!Exists(r)}
         /\ pod \in [Update!Ordinals -> Pods]
         /\ proc \in [Update!Ordinals -> {"off", "starting", "joining", "training"}]
         /\ ready \in [Update!Ordinals -> BOOLEAN]
         /\ member \in [Update!Ordinals -> {"none", "current", "gone"}]
         /\ crashes \in 0 .. MaxCrashes

\* A process has a Pod, and nobody has seen it Ready who has not initialised.
Runs == \A r \in Update!Ordinals : /\ proc[r] # "off" => Update!Exists(r)
                                   /\ ready[r] => Update!IsReady(r)

\* A join that counts is one of a worker with sessions that runs.
Joins == \A r \in Update!Ordinals : member[r] = "current" =>
           pod[r].image = "new" /\ proc[r] \in {"joining", "training"}

\* A session is of the coordinator that serves, and of its world.
Session == \A r \in Update!Ordinals : member[r] # "none" => Update!Serving /\ r < pod[0].world

\* Nobody trains in it before it has started.
Whole == \A r \in Update!Ordinals :
           proc[r] = "training" /\ member[r] = "current" => Update!Started

IInv == Shape /\ Runs /\ Joins /\ Session /\ Whole

-----------------------------------------------------------------------------
LEMMA TemplateType == /\ \A i \in DOMAIN Templates : Templates[i] \in Applied
                      /\ DOMAIN Templates = 1 .. Len(Templates) /\ Len(Templates) \in Nat
                      /\ Templates[1] \in Applied
<1>1. Templates \in Seq(Applied) /\ Len(Templates) >= 1
  BY DEF Applied, Image
<1>2. DOMAIN Templates = 1 .. Len(Templates) /\ Len(Templates) \in Nat
  BY <1>1
<1>3. \A i \in 1 .. Len(Templates) : Templates[i] \in Applied
  BY <1>1
<1>4. QED
  BY <1>1, <1>2, <1>3

LEMMA NoPodIsNoTemplate == /\ Update!NoPod \notin Applied
                           /\ Update!NoPod.world = 0 /\ Update!NoPod.image = "none"
BY DEF Update!NoPod, Applied, Image

\* The invariant gives the properties.
LEMMA IInvTypeOK == IInv => Update!TypeOK
BY DEF IInv, Shape, Runs, Joins, Session, Pods, Update!TypeOK, Update!Exists

LEMMA IInvSessionIsWhole == IInv => SessionIsWhole
BY DEF IInv, Session, Whole, SessionIsWhole, Update!SessionIsWhole,
       Update!Started

\* Everyone trains in one session, or nobody is in one.
LEMMA InitIInv == Update!Init => IInv
<1> SUFFICES ASSUME Update!Init PROVE IInv
  OBVIOUS
<1> DEFINE w == Templates[1].world
<1>1. w \in 1 .. 3 /\ Templates[1].image \in Image /\ 1 \in DOMAIN Templates
  BY TemplateType DEF Applied
<1>2. \A r \in Update!Ordinals :
        /\ pod[r] = IF r < w THEN Templates[1] ELSE Update!NoPod
        /\ proc[r] = IF r < w THEN "training" ELSE "off"
        /\ ready[r] = (r < w)
        /\ member[r] = IF r < w /\ Templates[1].image = "new" THEN "current" ELSE "none"
  BY DEF Update!Init
<1>3. \A r \in Update!Ordinals : r < w => Update!Exists(r)
  BY <1>2, TemplateType, NoPodIsNoTemplate DEF Update!Exists
<1>4. Shape
  BY <1>1 DEF Update!Init, Shape, Pods, Update!Exists
<1>5. Runs
  BY <1>2, <1>3 DEF Runs, Update!IsReady
<1>6. Joins
  BY <1>2 DEF Joins
<1>7. 0 \in Update!Ordinals /\ pod[0] = Templates[1] /\ proc[0] = "training"
  BY <1>1, <1>2
<1>8. Session
  BY <1>2, <1>7 DEF Session, Update!Serving
<1>9. Whole
  BY <1>2, <1>7 DEF Whole, Update!Started
<1>10. QED
  BY <1>4, <1>5, <1>6, <1>8, <1>9 DEF IInv

-----------------------------------------------------------------------------
(* Templates and Pods. *)

LEMMA ApplyStep == ASSUME IInv, Update!Apply PROVE IInv'
<1>1. template' \in DOMAIN Templates
  BY TemplateType DEF Update!Apply, IInv, Shape
<1>2. UNCHANGED <<pod, terminating, proc, ready, member, crashes>>
  BY DEF Update!Apply
<1>3. QED
  BY <1>1, <1>2 DEF IInv, Shape, Runs, Joins, Session, Whole, Update!Exists,
                    Update!IsReady, Update!Serving, Update!Started

\* A Pod that is made has no process yet; without the one of rank 0 nobody is in a
\* session.
LEMMA CreateStep ==
  ASSUME IInv, NEW r \in Update!Ordinals, Update!CreatePod(r)
  PROVE  IInv'
<1>1. UNCHANGED <<template, terminating, proc, ready, member, crashes>> /\ ~Update!Exists(r)
  BY DEF Update!CreatePod
<1>2. Update!Template \in {Templates[i] : i \in DOMAIN Templates}
  BY DEF Update!Template, IInv, Shape
<1>3. pod' = [pod EXCEPT ![r] = Update!Template]
  BY DEF Update!CreatePod
<1>4. Shape'
  <2>1. pod' \in [Update!Ordinals -> Pods]
    BY <1>2, <1>3 DEF IInv, Shape, Pods
  <2>2. \A q \in Update!Ordinals : Update!Exists(q) => Update!Exists(q)'
    BY <1>1, <1>3 DEF Update!Exists, IInv, Shape
  <2>3. QED
    BY <1>1, <2>1, <2>2 DEF IInv, Shape
<1>5. \A q \in Update!Ordinals : q # r => pod'[q] = pod[q]
  BY <1>3 DEF IInv, Shape
<1>6. proc[r] = "off"
  BY <1>1 DEF IInv, Runs
<1>7. Runs'
  BY <1>1, <1>5, <1>6 DEF IInv, Runs, Update!Exists, Update!IsReady
<1>8. Joins'
  BY <1>1, <1>5, <1>6 DEF IInv, Joins
<1>9. Session' /\ Whole'
  <2>1. CASE r = 0
    BY <1>1, <1>6, <2>1 DEF IInv, Session, Whole, Update!Serving, Update!Started
  <2>2. CASE r # 0
    BY <1>1, <1>5, <2>2 DEF IInv, Session, Whole, Update!Serving, Update!Started
  <2>3. QED
    BY <2>1, <2>2
<1>10. QED
  BY <1>4, <1>7, <1>8, <1>9 DEF IInv

LEMMA DeleteStep ==
  ASSUME IInv, NEW r \in Update!Ordinals, Update!DeletePod(r)
  PROVE  IInv'
BY DEF Update!DeletePod, IInv, Shape, Runs, Joins, Session, Whole, Update!Exists,
       Update!IsReady, Update!Serving, Update!Started

-----------------------------------------------------------------------------
(* Processes *)

\* What is left of a process that ends: a join that does not count any more, and of
\* the coordinator nothing.
LEMMA ExitFacts ==
  ASSUME IInv, NEW r \in Update!Ordinals, Update!Exit(r)
  PROVE  /\ proc' \in [Update!Ordinals -> {"off", "starting", "joining", "training"}]
         /\ ready' \in [Update!Ordinals -> BOOLEAN]
         /\ member' \in [Update!Ordinals -> {"none", "current", "gone"}]
         /\ proc'[r] = "off" /\ ~ready'[r] /\ member'[r] # "current"
         /\ \A q \in Update!Ordinals : q # r => proc'[q] = proc[q] /\ ready'[q] = ready[q]
         /\ r = 0 => \A q \in Update!Ordinals : member'[q] = "none"
         /\ r # 0 => \A q \in Update!Ordinals : /\ q # r => member'[q] = member[q]
                                                /\ member'[q] = "none" <=> member[q] = "none"
<1>1. /\ proc' = [proc EXCEPT ![r] = "off"] /\ ready' = [ready EXCEPT ![r] = FALSE]
      /\ Shape
  BY DEF Update!Exit, IInv
<1>2. CASE r = 0
  <2>1. member' = [q \in Update!Ordinals |-> "none"]
    BY <1>2 DEF Update!Exit, Update!Forget
  <2>2. QED
    BY <1>1, <1>2, <2>1 DEF Shape
<1>3. CASE r # 0
  <2>1. member' = [member EXCEPT ![r] = IF member[r] = "current" THEN "gone"
                                                              ELSE member[r]]
    BY <1>3 DEF Update!Exit, Update!Forget
  <2>2. QED
    BY <1>1, <1>3, <2>1 DEF Shape
<1>4. QED
  BY <1>2, <1>3

\* A process ends, and its Pod may go with it.
LEMMA ExitStep ==
  ASSUME IInv, NEW r \in Update!Ordinals, Update!Exit(r),
         template' = template, crashes' \in 0 .. MaxCrashes,
         \/ UNCHANGED <<pod, terminating>>
         \/ pod' = [pod EXCEPT ![r] = Update!NoPod] /\ terminating' = terminating \ {r}
  PROVE  IInv'
<1>1. /\ pod' \in [Update!Ordinals -> Pods]
      /\ \A q \in Update!Ordinals : q # r => pod'[q] = pod[q]
      /\ \A q \in Update!Ordinals : Update!Exists(q) /\ q # r => Update!Exists(q)'
  BY DEF IInv, Shape, Update!Exists
<1>2. terminating' \subseteq {q \in Update!Ordinals : Update!Exists(q)'}
  BY <1>1 DEF IInv, Shape, Update!Exists
<1>3. Shape'
  BY <1>1, <1>2, ExitFacts DEF IInv, Shape
<1>4. Runs'
  BY <1>1, ExitFacts DEF IInv, Runs, Update!IsReady
<1>5. Joins'
  <2>1. SUFFICES ASSUME NEW q \in Update!Ordinals, member'[q] = "current"
                 PROVE  pod'[q].image = "new" /\ proc'[q] \in {"joining", "training"}
    BY DEF Joins
  <2>2. q # r /\ r # 0 /\ member[q] = "current"
    BY <2>1, ExitFacts
  <2>3. QED
    BY <1>1, <2>2, ExitFacts DEF IInv, Joins
<1>6. Session' /\ Whole'
  <2>1. CASE r = 0
    BY <2>1, ExitFacts DEF Session, Whole
  <2>2. CASE r # 0
    <3>1. pod'[0] = pod[0] /\ (Update!Serving' <=> Update!Serving)
      BY <1>1, <2>2, ExitFacts DEF Update!Serving
    <3>2. Session'
      BY <2>2, <3>1, ExitFacts DEF IInv, Session
    <3>3. Update!Started' <=> Update!Started
      BY <2>2, <3>1, ExitFacts DEF Update!Started
    <3>4. \A q \in Update!Ordinals : proc'[q] = "training" /\ member'[q] = "current"
                              => proc[q] = "training" /\ member[q] = "current"
      BY <2>2, ExitFacts
    <3>5. QED
      BY <3>2, <3>3, <3>4 DEF IInv, Whole
  <2>3. QED
    BY <2>1, <2>2
<1>7. QED
  BY <1>3, <1>4, <1>5, <1>6 DEF IInv

LEMMA EndsStep ==
  ASSUME IInv, NEW r \in Update!Ordinals,
         Update!Removed(r) \/ Update!Crash(r) \/ Update!Refused(r)
  PROVE  IInv'
<1>1. Update!Exit(r) /\ template' = template
  BY DEF Update!Removed, Update!Crash, Update!Refused
<1>2. crashes' \in 0 .. MaxCrashes
  BY DEF Update!Removed, Update!Crash, Update!Refused, IInv, Shape
<1>3. \/ UNCHANGED <<pod, terminating>>
      \/ pod' = [pod EXCEPT ![r] = Update!NoPod] /\ terminating' = terminating \ {r}
  BY DEF Update!Removed, Update!Crash, Update!Refused
<1>4. QED
  BY <1>1, <1>2, <1>3, ExitStep

\* A process goes on with what it was made for; its join is what it was.
LEMMA GoesOnStep ==
  ASSUME IInv, NEW r \in Update!Ordinals, NEW place \in {"starting", "joining", "training"},
         proc' = [proc EXCEPT ![r] = place], Update!Exists(r),
         UNCHANGED <<template, pod, terminating, ready, member, crashes>>,
         Update!IsReady(r) => place # "starting",
         Update!Serving /\ r = 0 => place # "starting",
         place = "training" /\ member[r] = "current" => Update!Started
  PROVE  IInv'
<1>1. /\ proc' \in [Update!Ordinals -> {"off", "starting", "joining", "training"}]
      /\ proc'[r] = place /\ \A q \in Update!Ordinals : q # r => proc'[q] = proc[q]
  BY DEF IInv, Shape
<1>2. Shape'
  BY <1>1 DEF IInv, Shape, Update!Exists
<1>3. Runs'
  BY <1>1 DEF IInv, Runs, Update!IsReady, Update!Exists
<1>4. Joins'
  BY <1>1 DEF IInv, Joins, Update!IsReady
<1>5. Update!Serving => Update!Serving'
  BY <1>1 DEF Update!Serving, Update!IsReady
<1>6. Session'
  BY <1>5 DEF IInv, Session
<1>7. Whole'
  BY <1>1 DEF IInv, Whole, Update!Started
<1>8. QED
  BY <1>2, <1>3, <1>4, <1>6, <1>7 DEF IInv

LEMMA ProcessStep ==
  ASSUME IInv, NEW r \in Update!Ordinals,
         Update!Start(r) \/ Update!Initialised(r) \/ Update!Joined(r) \/ Update!SessionChanged(r)
  PROVE  IInv'
<1>1. CASE Update!Start(r)
  BY <1>1, GoesOnStep DEF Update!Start, Update!IsReady, Update!Serving
<1>2. CASE Update!Initialised(r)
  <2>1. Update!Exists(r)
    BY <1>2 DEF Update!Initialised, IInv, Runs
  <2>2. QED
    BY <1>2, <2>1, GoesOnStep DEF Update!Initialised
<1>3. CASE Update!Joined(r)
  <2>1. Update!Exists(r)
    BY <1>3 DEF Update!Joined, IInv, Runs
  <2>2. member[r] = "current" => Update!Started
    BY <1>3 DEF Update!Joined, IInv, Joins
  <2>3. QED
    BY <1>3, <2>1, <2>2, GoesOnStep DEF Update!Joined
<1>4. CASE Update!SessionChanged(r)
  <2>1. Update!Exists(r)
    BY <1>4 DEF Update!SessionChanged, IInv, Runs
  <2>2. QED
    BY <1>4, <2>1, GoesOnStep DEF Update!SessionChanged
<1>5. QED
  BY <1>1, <1>2, <1>3, <1>4

LEMMA ProbeStep ==
  ASSUME IInv, NEW r \in Update!Ordinals, Update!Probe(r)
  PROVE  IInv'
<1>1. /\ ready' = [ready EXCEPT ![r] = Update!IsReady(r)]
      /\ UNCHANGED <<template, pod, terminating, proc, member, crashes>>
  BY DEF Update!Probe
<1>2. /\ ready' \in [Update!Ordinals -> BOOLEAN] /\ ready'[r] = Update!IsReady(r)
      /\ \A q \in Update!Ordinals : q # r => ready'[q] = ready[q]
  <2>1. Update!IsReady(r) \in BOOLEAN
    BY DEF Update!IsReady
  <2>2. QED
    BY <1>1, <2>1 DEF IInv, Shape
<1>3. Runs'
  BY <1>1, <1>2 DEF IInv, Runs, Update!IsReady, Update!Exists
<1>4. QED
  BY <1>1, <1>2, <1>3 DEF IInv, Shape, Joins, Session, Whole, Update!Exists, Update!Serving,
                               Update!Started

\* A rank that joins for the first time was missing, so that nobody trains in the
\* session; one that joins again is alone in the next.
LEMMA JoinStep ==
  ASSUME IInv, NEW r \in Update!Ordinals, Update!Join(r)
  PROVE  IInv'
<1>1. /\ Update!Asks(r) /\ pod[0].image = "new" /\ r < pod[0].world /\ member[r] # "current"
      /\ UNCHANGED <<template, pod, terminating, proc, ready, crashes>>
  BY DEF Update!Join
<1>2. /\ member' \in [Update!Ordinals -> {"none", "current", "gone"}] /\ member'[r] = "current"
      /\ \A q \in Update!Ordinals : q # r =>
           member'[q] = IF member[r] = "gone" THEN "none" ELSE member[q]
  BY DEF Update!Join, IInv, Shape
<1>3. Shape' /\ Runs'
  BY <1>1, <1>2 DEF IInv, Shape, Runs, Update!Exists, Update!IsReady
<1>4. Joins'
  BY <1>1, <1>2 DEF IInv, Joins, Update!Asks
<1>5. Session'
  BY <1>1, <1>2 DEF IInv, Session, Update!Asks, Update!Serving
<1>6. Whole'
  <2>1. SUFFICES ASSUME NEW q \in Update!Ordinals, proc'[q] = "training", member'[q] = "current"
                 PROVE  FALSE
    BY DEF Whole
  <2>2. q # r
    BY <1>1, <2>1 DEF Update!Asks
  <2>3. member[q] = "current" /\ proc[q] = "training" /\ member[r] # "gone"
    BY <1>1, <1>2, <2>1, <2>2
  <2>4. member[r] # "none"
    BY <1>1, <2>3 DEF IInv, Whole, Update!Started
  <2>5. member[r] \in {"none", "current", "gone"}
    BY DEF IInv, Shape
  <2>6. QED
    BY <1>1, <2>3, <2>4, <2>5
<1>7. QED
  BY <1>3, <1>4, <1>5, <1>6 DEF IInv

-----------------------------------------------------------------------------
\* Every step keeps the invariant.
LEMMA NextIInv == IInv /\ [Update!Next]_(Update!vars) => IInv'
<1> SUFFICES ASSUME IInv, [Update!Next]_(Update!vars) PROVE IInv'
  OBVIOUS
<1>1. CASE Update!Apply
  BY <1>1, ApplyStep
<1>2. ASSUME NEW r \in Update!Ordinals, Update!Step(r) \/ Update!Crash(r)
      PROVE  IInv'
  BY <1>2, CreateStep, DeleteStep, EndsStep, ProcessStep, ProbeStep, JoinStep DEF Update!Step
<1>3. CASE UNCHANGED Update!vars
  BY <1>3 DEF Update!vars, IInv, Shape, Runs, Joins, Session, Whole, Update!Exists,
              Update!IsReady, Update!Serving, Update!Started
<1>4. QED
  BY <1>1, <1>2, <1>3 DEF Update!Next

\* A join that counts is one of a process that runs, and Ready is only seen of a
\* process that has initialised (Worker.Run stores ready before it joins).
THEOREM TypeCorrect == Update!Spec => []Update!TypeOK
BY InitIInv, NextIInv, IInvTypeOK, PTL DEF Update!Spec

\* A worker trains in no session that has lost a rank, or that has a rank of another
\* world, whichever template each Pod was made from (Coordinator.join counts ranks).
THEOREM SessionsAreWhole == Update!Spec => []SessionIsWhole
BY InitIInv, NextIInv, IInvSessionIsWhole, PTL DEF Update!Spec
=============================================================================
