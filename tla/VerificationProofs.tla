---------------------------- MODULE VerificationProofs -----------------------------
(***************************************************************************)
(* Proofs about what gpu verify reports, for any exporters, ranks, Pods,   *)
(* documents, disturbances and times: that a recovery is not reported on   *)
(* old samples or for stuck training, nor later than its budget and window *)
(* (RecoveryVerifier); that a timeline is reported in one phase and only   *)
(* for the application that is in the ConfigMap (Verifier); that both      *)
(* pass in a good lab that nothing disturbs, when there is time; and that  *)
(* an event is one of the Pod that has the name (PodEvents).               *)
(*                                                                         *)
(* The two verifiers are never run as one: they share variables.           *)
(***************************************************************************)
EXTENDS Verdicts, FiniteSetTheorems, SequenceTheorems, WellFoundedInduction, TLAPS

Assumptions == Recovery!MonitoringAssumption /\ Recovery!TimesAssumption

-----------------------------------------------------------------------------
(* RecoveryVerifier: its gates *)

LastGate == Len(Recovery!Gates)         \* the gate of the age of the steps
AdoptionAge == LastGate - 2    \* the gate of the age of the adopted scenario

\* An instance has operators of its own for finite sets.
LEMMA SameFinite ==
  ASSUME NEW S PROVE /\ Recovery!IsFiniteSet(S) <=> IsFiniteSet(S)
                     /\ Recovery!Cardinality(S) = Cardinality(S)
<1>1. Recovery!IsFiniteSet(S) <=> IsFiniteSet(S)
  BY DEF Recovery!IsFiniteSet, IsFiniteSet
<1>2. Recovery!Cardinality(S) = Cardinality(S)
  BY DEF Recovery!Cardinality, Cardinality
<1>3. QED
  BY <1>1, <1>2

LEMMA SetToSeqIsSeq ==
  ASSUME NEW S, IsFiniteSet(S)
  PROVE  Recovery!SetToSeq(S) \in Seq(S)
<1>1. Cardinality(S) \in Nat /\ ExistsBijection(1..Cardinality(S), S)
  BY FS_CardinalityType
<1>2. PICK f \in [1..Cardinality(S) -> S] : IsInjective(f)
  <2>1. PICK f : f \in Bijection(1..Cardinality(S), S)
    BY <1>1 DEF ExistsBijection
  <2>2. f \in [1..Cardinality(S) -> S] /\ IsInjective(f)
    BY <2>1 DEF Bijection, Injection, IsInjective
  <2>3. QED
    BY <2>2
<1>3. Recovery!SetToSeq(S) \in [1..Cardinality(S) -> S]
  <2>1. Recovery!SetToSeq(S)
          = CHOOSE g \in [1..Recovery!Cardinality(S) -> S] : Recovery!IsInjective(g)
    BY DEF Recovery!SetToSeq
  <2>2. Recovery!IsInjective(f)
    BY <1>2 DEF Recovery!IsInjective, IsInjective
  <2>3. Recovery!Cardinality(S) = Cardinality(S)
    BY SameFinite
  <2>4. QED
    BY <1>2, <2>1, <2>2, <2>3
<1>4. QED
  BY <1>1, <1>3

LEMMA OneIsSeq == ASSUME NEW A, NEW a \in A PROVE <<a>> \in Seq(A) /\ Len(<<a>>) = 1
OBVIOUS

LEMMA SevenIsSeq ==
  ASSUME NEW A, NEW a \in A, NEW b \in A, NEW c \in A, NEW d \in A, NEW e \in A,
         NEW f \in A, NEW g \in A
  PROVE  /\ <<a, b, c, d, e, f, g>> \in Seq(A) /\ Len(<<a, b, c, d, e, f, g>>) = 7
         /\ <<a, b, c, d, e, f, g>>[5] = e /\ <<a, b, c, d, e, f, g>>[7] = g
OBVIOUS

Kinds    == {"adopted", "training", "up", "up age", "adoption", "adoption age", "steps",
             "step age"}
AllGates == {[is |-> i] : i \in Kinds} \cup {[is |-> "fabric", node |-> e] : e \in Exporters}

LEMMA GatesAre ==
  ASSUME IsFiniteSet(Exporters)
  PROVE  /\ LastGate \in Nat /\ AdoptionAge \in 2..(LastGate - 1)
         /\ Recovery!Gates[AdoptionAge].is = "adoption age"
         /\ Recovery!Gates[LastGate].is = "step age"
         /\ Recovery!Gates \in Seq(AllGates)
<1> DEFINE A == AllGates
           one == <<[is |-> "adopted"]>>
           fabric == [i \in 1 .. Len(Recovery!Nodes) |->
                        [is |-> "fabric", node |-> Recovery!Nodes[i]]]
           rest == <<[is |-> "training"], [is |-> "up"], [is |-> "up age"],
                     [is |-> "adoption"], [is |-> "adoption age"],
                     [is |-> "steps"], [is |-> "step age"]>>
           front == one \o fabric
<1>1. Recovery!Nodes \in Seq(Exporters)
  BY SetToSeqIsSeq DEF Recovery!Nodes
<1>2. fabric \in Seq(A) /\ Len(fabric) \in Nat
  <2>1. /\ Len(Recovery!Nodes) \in Nat
        /\ \A i \in 1 .. Len(Recovery!Nodes) : Recovery!Nodes[i] \in Exporters
    BY <1>1
  <2>2. \A i \in 1 .. Len(Recovery!Nodes) : [is |-> "fabric", node |-> Recovery!Nodes[i]] \in A
    BY <2>1 DEF AllGates
  <2> HIDE DEF A
  <2>3. QED
    BY <2>1, <2>2
<1>3. /\ [is |-> "adopted"] \in A /\ [is |-> "training"] \in A /\ [is |-> "up"] \in A
      /\ [is |-> "up age"] \in A /\ [is |-> "adoption"] \in A
      /\ [is |-> "adoption age"] \in A /\ [is |-> "steps"] \in A /\ [is |-> "step age"] \in A
  <2>1. \A i \in Kinds : [is |-> i] \in A
    BY DEF AllGates
  <2> HIDE DEF A
  <2>2. QED
    BY <2>1 DEF Kinds
<1> HIDE DEF A
<1>4. one \in Seq(A) /\ Len(one) = 1
  BY <1>3, OneIsSeq
<1>5. rest \in Seq(A)
  BY <1>3, SevenIsSeq, Zenon
<1>6. Len(rest) = 7
  OBVIOUS
<1>7. rest[5].is = "adoption age" /\ rest[7].is = "step age"
  OBVIOUS
<1> HIDE DEF fabric, rest, one
<1>8. front \in Seq(A) /\ Len(front) = Len(one) + Len(fabric)
  BY <1>2, <1>4, ConcatProperties
<1>9. Recovery!Gates = front \o rest
  BY DEF Recovery!Gates, front, one, fabric, rest
<1> HIDE DEF front
<1>10. /\ Len(Recovery!Gates) = Len(front) + Len(rest)
      /\ \A i \in 1 .. Len(front) + Len(rest) :
           Recovery!Gates[i] = IF i <= Len(front) THEN front[i] ELSE rest[i - Len(front)]
  <2>1. \A s, t \in Seq(A) :
           /\ Len(s \o t) = Len(s) + Len(t)
           /\ \A i \in 1 .. Len(s) + Len(t) :
                (s \o t)[i] = IF i <= Len(s) THEN s[i] ELSE t[i - Len(s)]
    BY ConcatProperties
  <2>2. QED
    BY <1>5, <1>8, <1>9, <2>1, Zenon
<1>11. Len(front) = Len(fabric) + 1 /\ Len(Recovery!Gates) = Len(fabric) + 8
  <2>1. Len(Recovery!Gates) = Len(front) + Len(rest)
    BY <1>10
  <2>2. Len(front) = Len(fabric) + 1
    BY <1>2, <1>4, <1>8
  <2>3. Len(fabric) \in Nat
    BY <1>2
  <2>4. QED
    BY <2>1, <2>2, <2>3, <1>6
<1>12. Recovery!Gates[Len(fabric) + 6] = rest[5] /\ Recovery!Gates[Len(fabric) + 8] = rest[7]
  <2>1. ASSUME NEW i \in 1 .. Len(fabric) + 8, i > Len(fabric) + 1
        PROVE  Recovery!Gates[i] = rest[i - (Len(fabric) + 1)]
    <3>1. Len(fabric) \in Nat /\ Len(front) = Len(fabric) + 1 /\ Len(rest) = 7
      BY <1>2, <1>6, <1>11
    <3>2. i \in 1 .. Len(front) + Len(rest) /\ ~(i <= Len(front))
      BY <2>1, <3>1
    <3>3. Recovery!Gates[i] = IF i <= Len(front) THEN front[i] ELSE rest[i - Len(front)]
      BY <1>10, <3>2, Zenon
    <3>4. QED
      BY <3>1, <3>2, <3>3
  <2>2. QED
    BY <2>1, <1>2
<1>13. LastGate = Len(fabric) + 8 /\ AdoptionAge = Len(fabric) + 6
  BY <1>2, <1>11 DEF LastGate, AdoptionAge
<1>14. LastGate \in Nat /\ AdoptionAge \in 2..(LastGate - 1)
  BY <1>2, <1>13
<1>15. Recovery!Gates[AdoptionAge].is = "adoption age" /\ Recovery!Gates[LastGate].is = "step age"
  BY <1>7, <1>12, <1>13
<1>16. Recovery!Gates \in Seq(AllGates)
  BY <1>5, <1>8, <1>9, ConcatProperties DEF A
<1>17. QED
  BY <1>14, <1>15, <1>16

LEMMA GateFacts ==
  ASSUME Assumptions
  PROVE  /\ LastGate \in Nat /\ AdoptionAge \in 2..(LastGate - 1)
         /\ Recovery!Gates[AdoptionAge].is = "adoption age"
         /\ Recovery!Gates[LastGate].is = "step age"
BY GatesAre, SameFinite DEF Assumptions, Recovery!MonitoringAssumption

LEMMA GateNumbers ==
  ASSUME Assumptions
  PROVE  LastGate \in Nat /\ AdoptionAge \in 2..(LastGate - 1)
BY GateFacts, Zenon

-----------------------------------------------------------------------------
(* The world: what a sample says of the time behind it *)

\* An exporter that is alive and shows "normal" has not left it; one whose last
\* sample shows "normal" has not left it before the sample was taken.
ExporterSeen(e) ==
  /\ "step" \notin DOMAIN sample[e].shows
  /\ e \in live /\ Recovery!Normal(shown[e]) => left[e] = Recovery!Never
  /\ sample[e].up /\ Recovery!Normal(sample[e].shows.document) => left[e] <= sample[e].age

\* A sample shows a step of the past, and no later one was taken before it.
RankSeen(r) ==
  sample[r].up =>
    /\ "step" \in DOMAIN sample[r].shows /\ sample[r].shows.step \in Recovery!Ages
    /\ step <= sample[r].shows.step
    /\ step < sample[r].shows.step => step <= sample[r].age

Sampled(t) == /\ DOMAIN sample[t] = {"age", "up", "shows"}
              /\ sample[t].age \in Recovery!Ages /\ sample[t].up \in BOOLEAN
              /\ ~sample[t].up => "step" \notin DOMAIN sample[t].shows

WorldTypes == /\ Recovery!WorldOK /\ step \in Recovery!Ages /\ DOMAIN sample = Recovery!Targets
              /\ \A t \in Recovery!Targets : Sampled(t)

WorldInv == /\ WorldTypes
            /\ \A e \in Exporters : ExporterSeen(e)
            /\ \A r \in Ranks : RankSeen(r)

\* What a step of the lab does to the ages.
Younger ==
  /\ \A e \in Exporters : left'[e] <= left[e] \/ left'[e] <= 0
  /\ \A t \in Recovery!Targets : sample'[t].age <= sample[t].age
  /\ step' = step \/ step' = 0

\* What a tick does to them.
Aged ==
  /\ \A e \in Exporters : left'[e] <= left[e] + 1 \/ left'[e] = Recovery!Never
  /\ \A t \in Recovery!Targets : sample'[t].age <= sample[t].age + 1
  /\ Ranks # {} => step' = Recovery!Older(step)

LEMMA Times ==
  ASSUME Recovery!MonitoringAssumption
  PROVE  /\ Old \in Nat /\ Settled \in Nat /\ Lag \in Nat /\ 0 \in Recovery!Ages
         /\ \A age \in Recovery!Ages :
              /\ Recovery!Older(age) \in Recovery!Ages
              /\ age <= Recovery!Older(age) /\ Recovery!Older(age) <= age + 1
         /\ \A a, b \in Recovery!Ages : a <= b => Recovery!Older(a) <= Recovery!Older(b)
         /\ \A a, b \in Recovery!Ages : Recovery!Older(a) < Recovery!Older(b) => a < b
BY DEF Recovery!MonitoringAssumption, Recovery!Older, Recovery!UpTo, Recovery!Ages

LEMMA WorldInit == ASSUME Recovery!MonitoringAssumption, Recovery!MonitoringInit PROVE WorldInv
<1>1. 0 \in Recovery!Ages
  BY Times
<1>2. document \in Documents
  BY DEF Recovery!MonitoringInit, Recovery!MonitoringAssumption
<1>3. ASSUME NEW t \in Recovery!Targets
      PROVE  /\ DOMAIN sample[t] = {"age", "up", "shows"} /\ sample[t].age = 0
             /\ sample[t].up = TRUE /\ sample[t].shows = Recovery!Publishes(t)
  BY DEF Recovery!MonitoringInit
<1>4. Recovery!WorldOK
  <2>1. /\ {applied, written, step} \subseteq Nat /\ stalled \in BOOLEAN
        /\ live \subseteq Recovery!Targets
        /\ control \in Recovery!Modes
    <3>1. applied = 0 /\ written = 0 /\ step = 0
      BY DEF Recovery!MonitoringInit
    <3>2. {applied, written, step} \subseteq Nat
      BY <3>1
    <3>3. stalled \in BOOLEAN /\ live \subseteq Recovery!Targets
      BY DEF Recovery!MonitoringInit
    <3>4. control \in Recovery!Modes
      BY DEF Recovery!MonitoringInit, Recovery!Modes
    <3>5. QED
      BY <3>2, <3>3, <3>4
  <2>2. shown \in [Exporters -> Documents] /\ mode \in [Ranks -> Recovery!Modes]
    BY <1>2 DEF Recovery!MonitoringInit, Recovery!Modes
  <2>3. left \in [Exporters -> Recovery!Ages \cup {Recovery!Never}]
    BY DEF Recovery!MonitoringInit
  <2>4. QED
    BY <1>1, <1>2, <1>3, <2>1, <2>2, <2>3 DEF Recovery!WorldOK
<1>5. WorldTypes
  BY <1>1, <1>3, <1>4 DEF WorldTypes, Sampled, Recovery!MonitoringInit
<1>6. ASSUME NEW e \in Exporters PROVE ExporterSeen(e)
  <2>1. e \in Recovery!Targets
    BY DEF Recovery!Targets
  <2>2. left[e] = -1 /\ sample[e].age = 0 /\ sample[e].shows = [document |-> shown[e]]
    BY <1>3, <2>1 DEF Recovery!Publishes, Recovery!MonitoringInit, Recovery!Never
  <2>3. "step" \notin DOMAIN sample[e].shows
    BY <2>2
  <2>4. left[e] <= sample[e].age /\ left[e] = Recovery!Never
    BY <2>2 DEF Recovery!Never
  <2>5. QED
    BY <2>3, <2>4 DEF ExporterSeen
<1>7. ASSUME NEW r \in Ranks PROVE RankSeen(r)
  <2>1. r \in Recovery!Targets /\ r \notin Exporters
    BY DEF Recovery!Targets, Recovery!MonitoringAssumption
  <2>2. sample[r].shows = [mode |-> mode[r], step |-> step] /\ sample[r].age = 0 /\ step = 0
    BY <1>3, <2>1 DEF Recovery!Publishes, Recovery!MonitoringInit
  <2>3. "step" \in DOMAIN sample[r].shows /\ sample[r].shows.step = 0
    BY <2>2
  <2>4. QED
    BY <1>1, <2>2, <2>3 DEF RankSeen
<1>8. QED
  BY <1>5, <1>6, <1>7 DEF WorldInv

\* No disturbance changes a sample or makes the last step newer.
LEMMA DisturbWorld ==
  ASSUME Recovery!MonitoringAssumption, WorldInv, Recovery!Disturb
  PROVE  WorldInv' /\ Younger
<1>1. 0 \in Recovery!Ages
  BY Times
<1>2. UNCHANGED <<shown, mode, step, sample>> /\ live' \subseteq live
      /\ {applied', written'} \subseteq Nat /\ document' \in Documents
      /\ control' \in Recovery!Modes
      /\ stalled' \in BOOLEAN
  <2>1. CASE Recovery!Apply
    BY <2>1 DEF Recovery!Apply, WorldInv, WorldTypes, Recovery!WorldOK
  <2>2. CASE Recovery!SetControl
    BY <2>2 DEF Recovery!SetControl, WorldInv, WorldTypes, Recovery!WorldOK
  <2>3. CASE Recovery!Stall
    BY <2>3 DEF Recovery!Stall, WorldInv, WorldTypes, Recovery!WorldOK
  <2>4. CASE \E t \in Recovery!Targets : Recovery!Die(t)
    BY <2>4 DEF Recovery!Die, WorldInv, WorldTypes, Recovery!WorldOK
  <2>5. QED
    BY <2>1, <2>2, <2>3, <2>4 DEF Recovery!Disturb
<1>3. /\ left' \in [Exporters -> Recovery!Ages \cup {Recovery!Never}]
      /\ \A e \in Exporters :
           left'[e] = left[e] \/ (left'[e] = 0 /\ e \notin live' /\ left[e] = Recovery!Never)
  <2>1. CASE UNCHANGED left
    BY <2>1 DEF WorldInv, WorldTypes, Recovery!WorldOK
  <2>2. CASE \E t \in Recovery!Targets : Recovery!Die(t)
    <3>1. PICK t \in Recovery!Targets : Recovery!Die(t)
      BY <2>2
    <3>2. \/ left' = left
          \/ t \in Exporters /\ left[t] = Recovery!Never /\ left' = [left EXCEPT ![t] = 0]
      BY <3>1 DEF Recovery!Die
    <3>3. t \notin live'
      BY <3>1 DEF Recovery!Die
    <3>4. QED
      BY <1>1, <3>2, <3>3 DEF WorldInv, WorldTypes, Recovery!WorldOK
  <2>3. QED
    BY <2>1, <2>2 DEF Recovery!Disturb, Recovery!Apply, Recovery!SetControl, Recovery!Stall
<1>4. WorldTypes'
  BY <1>2, <1>3 DEF WorldInv, WorldTypes, Recovery!WorldOK, Sampled
<1>5. ASSUME NEW e \in Exporters PROVE ExporterSeen(e)'
  <2>1. ExporterSeen(e) /\ sample[e].age \in Recovery!Ages /\ sample[e].age >= 0
    BY DEF WorldInv, WorldTypes, Sampled, Recovery!Targets, Recovery!Ages
  <2>2. QED
    BY <1>2, <1>3, <2>1 DEF ExporterSeen
<1>6. ASSUME NEW r \in Ranks PROVE RankSeen(r)'
  BY <1>2 DEF WorldInv, RankSeen
<1>7. Younger
  <2>1. \A e \in Exporters : left[e] \in Int
    <3>1. left \in [Exporters -> Recovery!Ages \cup {Recovery!Never}]
      BY DEF WorldInv, WorldTypes, Recovery!WorldOK
    <3>2. QED
      BY <3>1, Times DEF Recovery!Ages, Recovery!Never
  <2>2. \A t \in Recovery!Targets : sample[t].age \in Nat
    BY DEF WorldInv, WorldTypes, Sampled, Recovery!Ages
  <2>3. QED
    BY <1>2, <1>3, <2>1, <2>2 DEF Younger
<1>8. QED
  BY <1>4, <1>5, <1>6, <1>7 DEF WorldInv

LEMMA LeftInt ==
  ASSUME Recovery!MonitoringAssumption, WorldInv, NEW e \in Exporters
  PROVE  left[e] \in Int
BY Times DEF WorldInv, WorldTypes, Recovery!WorldOK, Recovery!Ages, Recovery!Never

LEMMA AdoptWorld ==
  ASSUME Recovery!MonitoringAssumption, WorldInv, NEW e \in Exporters, Recovery!Adopt(e)
  PROVE  WorldInv' /\ Younger
<1>1. 0 \in Recovery!Ages
  BY Times
<1>2. /\ UNCHANGED <<document, applied, control, written, live, mode, step, stalled, sample>>
      /\ shown' = [shown EXCEPT ![e] = document] /\ e \in live
      /\ left' = [left EXCEPT ![e] = IF Recovery!Normal(document) THEN Recovery!Never
                                     ELSE IF @ = Recovery!Never THEN 0 ELSE @]
  BY DEF Recovery!Adopt
<1>3. WorldTypes'
  BY <1>1, <1>2 DEF WorldInv, WorldTypes, Recovery!WorldOK, Sampled
<1>4. ASSUME NEW k \in Exporters PROVE ExporterSeen(k)'
  <2>1. ExporterSeen(k) /\ sample[k].age >= 0 /\ left[k] \in Int /\ sample[k].age \in Int
    BY LeftInt DEF WorldInv, WorldTypes, Sampled, Recovery!Targets, Recovery!Ages
  <2>2. CASE k # e
    BY <1>2, <2>1, <2>2 DEF ExporterSeen, WorldInv, WorldTypes, Recovery!WorldOK
  <2>3. CASE k = e
    <3>1. shown'[e] = document
          /\ left'[e] = (IF Recovery!Normal(document) THEN Recovery!Never
                         ELSE IF left[e] = Recovery!Never THEN 0 ELSE left[e])
      BY <1>2 DEF WorldInv, WorldTypes, Recovery!WorldOK
    <3>2. QED
      BY <1>2, <2>1, <2>3, <3>1 DEF ExporterSeen, Recovery!Never
  <2>4. QED
    BY <2>2, <2>3
<1>5. ASSUME NEW r \in Ranks PROVE RankSeen(r)'
  BY <1>2 DEF WorldInv, RankSeen
<1>6. Younger
  <2>1. \A k \in Exporters : left[k] \in Int
    BY LeftInt
  <2>2. \A t \in Recovery!Targets : sample[t].age \in Nat
    BY DEF WorldInv, WorldTypes, Sampled, Recovery!Ages
  <2>3. QED
    BY <1>2, <2>1, <2>2 DEF Younger, Recovery!Never, WorldInv, WorldTypes, Recovery!WorldOK
<1>7. QED
  BY <1>3, <1>4, <1>5, <1>6 DEF WorldInv

LEMMA StepWorld ==
  ASSUME Recovery!MonitoringAssumption, WorldInv,
         Recovery!Step \/ \E r \in Ranks : Recovery!ObserveControl(r)
  PROVE  WorldInv' /\ Younger
<1>1. 0 \in Recovery!Ages
  BY Times
<1>2. /\ UNCHANGED <<document, applied, control, written, live, shown, stalled, sample, left>>
      /\ mode' \in [Ranks -> Recovery!Modes] /\ (step' = step \/ step' = 0)
  BY DEF Recovery!Step, Recovery!ObserveControl, WorldInv, WorldTypes, Recovery!WorldOK
<1>3. WorldTypes'
  BY <1>1, <1>2 DEF WorldInv, WorldTypes, Recovery!WorldOK, Sampled
<1>4. ASSUME NEW e \in Exporters PROVE ExporterSeen(e)'
  BY <1>2 DEF WorldInv, ExporterSeen
<1>5. ASSUME NEW r \in Ranks PROVE RankSeen(r)'
  <2>1. RankSeen(r) /\ sample[r].age \in Recovery!Ages
    BY DEF WorldInv, WorldTypes, Sampled, Recovery!Targets
  <2>2. QED
    BY <1>2, <2>1 DEF RankSeen, Recovery!Ages
<1>6. Younger
  <2>1. \A k \in Exporters : left[k] \in Int
    BY LeftInt
  <2>2. \A t \in Recovery!Targets : sample[t].age \in Nat
    BY DEF WorldInv, WorldTypes, Sampled, Recovery!Ages
  <2>3. QED
    BY <1>2, <2>1, <2>2 DEF Younger
<1>7. QED
  BY <1>3, <1>4, <1>5, <1>6 DEF WorldInv

LEMMA ScrapeWorld ==
  ASSUME Recovery!MonitoringAssumption, WorldInv, NEW t \in Recovery!Targets, Recovery!Scrape(t)
  PROVE  WorldInv' /\ Younger
<1>1. 0 \in Recovery!Ages
  BY Times
<1>2. /\ UNCHANGED <<document, applied, control, written, live, shown, mode, step, stalled, left>>
      /\ DOMAIN sample' = Recovery!Targets
      /\ \A u \in Recovery!Targets : u # t => sample'[u] = sample[u]
      /\ sample'[t] = IF t \in live THEN [age |-> 0, up |-> TRUE, shows |-> Recovery!Publishes(t)]
                                    ELSE [age |-> 0, up |-> FALSE, shows |-> Recovery!Gone]
  BY DEF Recovery!Scrape, WorldInv, WorldTypes
<1>3. Sampled(t)' /\ sample'[t].age = 0
  BY <1>1, <1>2 DEF Sampled, Recovery!Gone
<1>4. WorldTypes'
  <2>1. Recovery!WorldOK'
    BY <1>2, <1>3 DEF WorldInv, WorldTypes, Recovery!WorldOK, Sampled
  <2>2. \A u \in Recovery!Targets : Sampled(u)'
    BY <1>2, <1>3 DEF WorldInv, WorldTypes, Sampled
  <2>3. QED
    BY <1>2, <2>1, <2>2 DEF WorldInv, WorldTypes
<1>5. ASSUME NEW e \in Exporters PROVE ExporterSeen(e)'
  <2>1. ExporterSeen(e) /\ e \in Recovery!Targets
    BY DEF WorldInv, Recovery!Targets
  <2>2. CASE e # t
    BY <1>2, <2>1, <2>2 DEF ExporterSeen
  <2>3. CASE e = t /\ e \in live
    <3>1. /\ sample'[e].shows = [document |-> shown[e]] /\ sample'[e].age = 0
          /\ live' = live /\ shown' = shown /\ left' = left
      BY <1>2, <2>3 DEF Recovery!Publishes
    <3>2. "step" \notin DOMAIN sample'[e].shows /\ sample'[e].shows.document = shown[e]
      BY <3>1
    <3>3. QED
      BY <2>1, <2>3, <3>1, <3>2 DEF ExporterSeen, Recovery!Never
  <2>4. CASE e = t /\ e \notin live
    <3>1. sample'[e].shows = [gone |-> TRUE] /\ sample'[e].up = FALSE /\ live' = live
      BY <1>2, <2>4 DEF Recovery!Gone
    <3>2. "step" \notin DOMAIN sample'[e].shows
      BY <3>1
    <3>3. QED
      BY <2>4, <3>1, <3>2 DEF ExporterSeen
  <2>5. QED
    BY <2>2, <2>3, <2>4
<1>6. ASSUME NEW r \in Ranks PROVE RankSeen(r)'
  <2>1. RankSeen(r) /\ r \in Recovery!Targets /\ r \notin Exporters /\ step \in Recovery!Ages
    BY DEF WorldInv, WorldTypes, Recovery!Targets, Recovery!MonitoringAssumption
  <2>2. CASE r # t
    BY <1>2, <2>1, <2>2 DEF RankSeen
  <2>3. CASE r = t /\ r \in live
    <3>1. sample'[r].shows = [mode |-> mode[r], step |-> step] /\ step' = step
      BY <1>2, <2>1, <2>3 DEF Recovery!Publishes
    <3>2. "step" \in DOMAIN sample'[r].shows /\ sample'[r].shows.step = step
      BY <3>1
    <3>3. QED
      BY <2>1, <3>1, <3>2 DEF RankSeen, Recovery!Ages
  <2>4. CASE r = t /\ r \notin live
    BY <1>2, <2>4 DEF RankSeen
  <2>5. QED
    BY <2>2, <2>3, <2>4
<1>7. Younger
  <2>1. \A k \in Exporters : left[k] \in Int
    BY LeftInt
  <2>2. \A u \in Recovery!Targets : sample[u].age \in Nat
    BY DEF WorldInv, WorldTypes, Sampled, Recovery!Ages
  <2>3. QED
    BY <1>2, <1>3, <2>1, <2>2 DEF Younger
<1>8. QED
  BY <1>4, <1>5, <1>6, <1>7 DEF WorldInv

LEMMA OlderSampleIs ==
  ASSUME Recovery!MonitoringAssumption, NEW t, Sampled(t)
  PROVE  LET o == Recovery!OlderSample(sample[t])
         IN  /\ DOMAIN o = {"age", "up", "shows"}
             /\ o.age = Recovery!Older(sample[t].age) /\ o.up = sample[t].up
             /\ "step" \notin DOMAIN sample[t].shows => o.shows = sample[t].shows
             /\ "step" \in DOMAIN sample[t].shows =>
                  /\ DOMAIN o.shows = DOMAIN sample[t].shows
                  /\ o.shows.step = Recovery!Older(sample[t].shows.step)
<1> DEFINE o == Recovery!OlderSample(sample[t])
<1>1. /\ DOMAIN o = {"age", "up", "shows"} /\ o.age = Recovery!Older(sample[t].age)
      /\ o.up = sample[t].up /\ o.shows = Recovery!OlderShows(sample[t].shows)
  BY DEF Recovery!OlderSample, Sampled
<1> HIDE DEF o
<1>2. QED
  BY <1>1 DEF Recovery!OlderShows, o

LEMMA TickWorld ==
  ASSUME Recovery!MonitoringAssumption, WorldInv, Recovery!Tick
  PROVE  WorldInv' /\ Aged
<1> DEFINE older(t) == Recovery!OlderSample(sample[t])
<1>1. /\ UNCHANGED <<document, control, live, shown, mode, stalled, changes, faults>>
      /\ applied' = Recovery!UpTo(applied, Settled) /\ written' = Recovery!UpTo(written, Lag)
      /\ step' = (IF Ranks = {} THEN step ELSE Recovery!Older(step))
      /\ sample' = [t \in Recovery!Targets |-> older(t)]
      /\ left' = [e \in Exporters |-> IF left[e] = Recovery!Never THEN Recovery!Never
                                      ELSE Recovery!Older(left[e])]
  BY DEF Recovery!Tick
<1>2. \A t \in Recovery!Targets :
        /\ Sampled(t) /\ DOMAIN older(t) = {"age", "up", "shows"}
        /\ older(t).age = Recovery!Older(sample[t].age) /\ older(t).up = sample[t].up
        /\ "step" \notin DOMAIN sample[t].shows => older(t).shows = sample[t].shows
        /\ "step" \in DOMAIN sample[t].shows =>
             /\ DOMAIN older(t).shows = DOMAIN sample[t].shows
             /\ older(t).shows.step = Recovery!Older(sample[t].shows.step)
  BY OlderSampleIs DEF WorldInv, WorldTypes
<1> HIDE DEF older
<1>3. step \in Recovery!Ages /\ step' \in Recovery!Ages /\ step' <= Recovery!Older(step)
  BY <1>1, Times DEF WorldInv, WorldTypes, Recovery!Ages
<1>4. /\ left' \in [Exporters -> Recovery!Ages \cup {Recovery!Never}]
      /\ \A e \in Exporters : \/ left[e] = Recovery!Never /\ left'[e] = Recovery!Never
                              \/ left[e] \in Recovery!Ages /\ left'[e] = Recovery!Older(left[e])
  <2>1. \A e \in Exporters : left[e] \in Recovery!Ages \cup {Recovery!Never}
    BY DEF WorldInv, WorldTypes, Recovery!WorldOK
  <2>2. \A e \in Exporters :
          left[e] \in Recovery!Ages => Recovery!Older(left[e]) \in Recovery!Ages
    BY Times
  <2>3. \A a \in Recovery!Ages : a # Recovery!Never
    BY DEF Recovery!Ages, Recovery!Never
  <2>4. QED
    BY <1>1, <2>1, <2>2, <2>3
<1>5. \A t \in Recovery!Targets : Sampled(t)'
  <2> SUFFICES ASSUME NEW t \in Recovery!Targets PROVE Sampled(t)'
    OBVIOUS
  <2>1. sample'[t] = older(t)
    BY <1>1
  <2>2. Recovery!Older(sample[t].age) \in Recovery!Ages
    BY <1>2, Times DEF Sampled
  <2>3. QED
    BY <1>2, <2>1, <2>2 DEF Sampled
<1>6. WorldTypes'
  <2>1. {applied', written', step'} \subseteq Nat
    BY <1>1, <1>3, Times DEF WorldInv, WorldTypes, Recovery!WorldOK, Recovery!UpTo, Recovery!Ages
  <2>2. Recovery!WorldOK'
    BY <1>1, <1>4, <1>5, <2>1 DEF WorldInv, WorldTypes, Recovery!WorldOK, Sampled
  <2>3. QED
    BY <1>1, <1>3, <1>5, <2>2 DEF WorldTypes
<1>7. ASSUME NEW e \in Exporters PROVE ExporterSeen(e)'
  <2>1. /\ ExporterSeen(e) /\ e \in Recovery!Targets /\ sample'[e] = older(e)
        /\ sample[e].age \in Recovery!Ages
    BY <1>1, <1>2 DEF WorldInv, Recovery!Targets, Sampled
  <2>2. /\ sample'[e].shows = sample[e].shows /\ sample'[e].up = sample[e].up
        /\ sample'[e].age = Recovery!Older(sample[e].age)
    BY <1>2, <2>1 DEF ExporterSeen
  <2>3. left[e] <= sample[e].age => left'[e] <= sample'[e].age
    <3>1. CASE left'[e] = Recovery!Never
      BY <2>1, <2>2, <3>1, Times DEF Recovery!Ages, Recovery!Never
    <3>2. CASE left[e] \in Recovery!Ages /\ left'[e] = Recovery!Older(left[e])
      BY <2>1, <2>2, <3>2, Times
    <3>3. QED
      BY <1>4, <3>1, <3>2
  <2>4. left[e] = Recovery!Never => left'[e] = Recovery!Never
    BY <1>1
  <2>5. QED
    BY <1>1, <2>1, <2>2, <2>3, <2>4 DEF ExporterSeen
<1>8. ASSUME NEW r \in Ranks PROVE RankSeen(r)'
  <2>1. /\ RankSeen(r) /\ r \in Recovery!Targets /\ sample'[r] = older(r)
        /\ sample[r].age \in Recovery!Ages
    BY <1>1, <1>2 DEF WorldInv, Recovery!Targets, Sampled
  <2> SUFFICES ASSUME sample'[r].up
               PROVE  /\ "step" \in DOMAIN sample'[r].shows
                      /\ sample'[r].shows.step \in Recovery!Ages
                      /\ step' <= sample'[r].shows.step
                      /\ step' < sample'[r].shows.step => step' <= sample'[r].age
    BY DEF RankSeen
  <2>2. sample[r].up
    BY <1>2, <2>1
  <2>3. /\ "step" \in DOMAIN sample[r].shows /\ sample[r].shows.step \in Recovery!Ages
        /\ step <= sample[r].shows.step
        /\ step < sample[r].shows.step => step <= sample[r].age
    BY <2>1, <2>2 DEF RankSeen
  <2>4. /\ "step" \in DOMAIN sample'[r].shows
        /\ sample'[r].shows.step = Recovery!Older(sample[r].shows.step)
        /\ sample'[r].age = Recovery!Older(sample[r].age)
    BY <1>2, <2>1, <2>3
  <2>5. step' = Recovery!Older(step)
    BY <1>1
  <2>6. QED
    BY <1>3, <2>1, <2>3, <2>4, <2>5, Times
<1>9. Aged
  <2>1. \A e \in Exporters : left'[e] <= left[e] + 1 \/ left'[e] = Recovery!Never
    BY <1>4, Times
  <2>2. \A t \in Recovery!Targets : sample'[t].age <= sample[t].age + 1
    BY <1>1, <1>2, Times DEF Sampled
  <2>3. QED
    BY <1>1, <2>1, <2>2 DEF Aged
<1>10. QED
  BY <1>6, <1>7, <1>8, <1>9 DEF WorldInv

-----------------------------------------------------------------------------
(* RecoveryVerifier: the command *)

Places == {"idle", "scenario", "control", "poll", "wait", "first", "watching", "watch",
           "done"}
Early == {"idle", "scenario", "control"}
Polling == {"poll", "wait"}
Watching == {"watching", "watch"}

CommandTypes ==
  /\ pc \in Places /\ gate \in 1 .. LastGate + 1 /\ first \in Recovery!Ages
  /\ elapsed \in 0 .. Outer /\ deadline \in 0 .. Outer
  /\ failed \in BOOLEAN /\ prompt \in BOOLEAN /\ calm \in BOOLEAN

\* The gates come one after the other, and all of them before the end.
Stages ==
  /\ pc \in Early => gate = 1
  /\ pc \in Polling => gate <= LastGate
  /\ pc \in Watching \cup {"first"} => gate = LastGate + 1
  /\ pc = "done" /\ ~failed => gate = LastGate + 1

\* Behind the gate of the age of the adopted scenario no exporter had left "normal" long
\* before the command started.
Adopted ==
  gate > AdoptionAge /\ ~failed => \A e \in Exporters : left[e] <= elapsed + MaxAge

\* Behind the gate of the age of the steps every sample of a rank is young ...
Fresh ==
  pc = "first" /\ ~failed => \A r \in Ranks : sample[r].age <= elapsed + MaxAge

\* ... so that a step after the first one that was seen is young as well ...
Following ==
  pc \in Watching /\ ~failed =>
    /\ Ranks # {} /\ step <= first
    /\ step < first => step <= elapsed + MaxAge

\* ... and there has been one in the end.
Progressed == pc = "done" /\ ~failed => step <= elapsed + MaxAge

\* A command whose calls outside the budget are prompt waits for no more than its budget
\* and window.
Timely ==
  prompt =>
    /\ pc \in Early => elapsed = 0
    /\ pc \in Polling \cup {"first"} => elapsed <= Budget
    /\ pc \in Polling => deadline <= Budget
    /\ pc \in Watching => deadline <= Budget + Window
    /\ elapsed <= Budget + Window

CommandInv == CommandTypes /\ Stages /\ Adopted /\ Fresh /\ Following /\ Progressed /\ Timely
IInv == WorldInv /\ CommandInv

USE DEF Assumptions, Early, Polling, Watching

LEMMA Numbers ==
  ASSUME Assumptions
  PROVE  /\ Budget \in Nat /\ Window \in Nat /\ Outer \in Nat /\ MaxAge \in Nat
         /\ Budget + Window <= Outer /\ MaxAge <= Lookback
BY DEF Assumptions, Recovery!TimesAssumption

LEMMA IInvTypeOK == ASSUME Assumptions, IInv PROVE Recovery!TypeOK
<1>1. {elapsed, deadline} \subseteq 0 .. Outer /\ {failed, prompt, calm} \subseteq BOOLEAN
  BY DEF IInv, CommandInv, CommandTypes
<1>2. QED
  BY <1>1 DEF IInv, WorldInv, WorldTypes, CommandInv, CommandTypes, Recovery!TypeOK, Places,
     LastGate

LEMMA IInvPassed ==
  ASSUME Assumptions, IInv
  PROVE  Recovery!PassedIsRecent /\ Recovery!ProgressIsRecent /\ Recovery!InTime
<1>1. AdoptionAge < LastGate + 1
  BY GateNumbers
<1>2. Recovery!PassedIsRecent
  BY <1>1 DEF IInv, CommandInv, Stages, Adopted, Recovery!PassedIsRecent, Recovery!Passed
<1>3. Recovery!ProgressIsRecent
  BY DEF IInv, CommandInv, Progressed, Recovery!ProgressIsRecent, Recovery!Passed
<1>4. Recovery!InTime
  BY DEF IInv, CommandInv, Timely, Recovery!InTime
<1>5. QED
  BY <1>2, <1>3, <1>4

LEMMA InitIInv == ASSUME Assumptions, Recovery!Init PROVE IInv
<1>1. WorldInv
  BY WorldInit DEF Recovery!Init
<1>2. 0 \in Recovery!Ages /\ 0 \in 0 .. Outer /\ 1 \in 1 .. LastGate + 1 /\ ~(1 > AdoptionAge)
  BY Times, Numbers, GateNumbers
<1>3. CommandTypes
  BY <1>2 DEF Recovery!Init, CommandTypes, Places
<1>4. Stages /\ Adopted /\ Fresh /\ Following /\ Progressed
  BY <1>2 DEF Recovery!Init, Stages, Adopted, Fresh, Following, Progressed
<1>5. Timely
  BY Numbers DEF Recovery!Init, Timely
<1>6. QED
  BY <1>1, <1>3, <1>4, <1>5 DEF IInv, CommandInv

\* The lab at work, or disturbed, only makes ages smaller.
LEMMA LabIInv ==
  ASSUME Assumptions, IInv, Recovery!Disturb \/ Recovery!Work, pc # "done",
         UNCHANGED <<Recovery!command, prompt>>,
         calm' \in BOOLEAN
  PROVE  IInv'
<1>1. WorldInv' /\ Younger
  <2>1. CASE Recovery!Disturb
    BY <2>1, DisturbWorld DEF IInv
  <2>2. CASE Recovery!Work
    BY <2>2, AdoptWorld, StepWorld, ScrapeWorld DEF Recovery!Work, IInv
  <2>3. QED
    BY <2>1, <2>2
<1>2. /\ UNCHANGED <<pc, gate, failed, elapsed, deadline, first, prompt>>
      /\ elapsed \in Nat /\ MaxAge \in Nat /\ first \in Recovery!Ages
  BY Numbers DEF Recovery!command, IInv, CommandInv, CommandTypes
<1>3. CommandTypes' /\ Stages' /\ Timely'
  BY <1>2 DEF IInv, CommandInv, CommandTypes, Stages, Timely
<1>4. Adopted'
  <2>1. \A e \in Exporters : left[e] \in Int /\ left'[e] \in Int
    BY <1>1 DEF IInv, WorldInv, WorldTypes, Recovery!WorldOK, Recovery!Ages, Recovery!Never
  <2>2. QED
    BY <1>1, <1>2, <2>1 DEF IInv, CommandInv, Adopted, Younger
<1>5. Fresh'
  <2>1. \A r \in Ranks : sample[r].age \in Nat /\ sample'[r].age \in Nat
                         /\ sample'[r].age <= sample[r].age
    BY <1>1 DEF IInv, WorldInv, WorldTypes, Sampled, Recovery!Targets, Recovery!Ages, Younger
  <2>2. QED
    BY <1>2, <2>1 DEF IInv, CommandInv, Fresh
<1>6. Following' /\ Progressed'
  BY <1>1, <1>2 DEF IInv, CommandInv, Following, Progressed, Younger, Recovery!Ages
<1>7. QED
  BY <1>1, <1>3, <1>4, <1>5, <1>6 DEF IInv, CommandInv

LEMMA WorldKept == ASSUME WorldInv, UNCHANGED Recovery!world PROVE WorldInv'
BY DEF WorldInv, WorldTypes, Recovery!WorldOK, Sampled, ExporterSeen, RankSeen, Recovery!world

LEMMA TimePassesIInv == ASSUME Assumptions, IInv, Recovery!TimePasses PROVE IInv'
<1>1. WorldInv' /\ Aged
  BY TickWorld DEF Recovery!TimePasses, IInv
<1>2. /\ UNCHANGED <<gate, failed, deadline>> /\ first' = Recovery!Older(first) /\ pc # "done"
      /\ elapsed' = (IF pc = "idle" THEN 0 ELSE elapsed + 1)
      /\ pc' = (CASE pc = "wait" -> "poll" [] pc = "watching" -> "watch" [] OTHER -> pc)
      /\ ~Recovery!Due
  BY DEF Recovery!TimePasses, Recovery!Woken
<1>3. /\ pc \in Places /\ gate \in 1 .. LastGate + 1 /\ first \in Recovery!Ages
      /\ elapsed \in 0 .. Outer /\ deadline \in 0 .. Outer /\ failed \in BOOLEAN
  BY DEF IInv, CommandInv, CommandTypes
<1>4. /\ pc' \in Places /\ pc' # "done"
      /\ pc' \in Early <=> pc \in Early
      /\ pc' \in Polling <=> pc \in Polling
      /\ pc' \in Watching <=> pc \in Watching
      /\ pc' = "first" <=> pc = "first"
  BY <1>2, <1>3 DEF Places
<1>5. elapsed' \in 0 .. Outer /\ (pc # "idle" => elapsed' = elapsed + 1)
  BY <1>2, <1>3, Numbers DEF Recovery!Due, Recovery!Calling, Places
<1>6. CommandTypes'
  <2>1. prompt' \in BOOLEAN /\ calm' \in BOOLEAN
    BY DEF Recovery!TimePasses, Recovery!Troubled, IInv, CommandInv, CommandTypes
  <2>2. first' \in Recovery!Ages
    BY <1>2, <1>3, Times
  <2>3. QED
    BY <1>2, <1>3, <1>4, <1>5, <2>1, <2>2 DEF CommandTypes
<1>7. Stages'
  BY <1>2, <1>4 DEF IInv, CommandInv, Stages
<1>8. Adopted'
  <2>1. pc = "idle" => ~(gate > AdoptionAge)
    BY GateNumbers DEF IInv, CommandInv, Stages
  <2>2. \A e \in Exporters : left[e] \in Int /\ left'[e] \in Int
    BY <1>1 DEF IInv, WorldInv, WorldTypes, Recovery!WorldOK, Recovery!Ages, Recovery!Never
  <2>3. QED
    BY <1>1, <1>2, <1>3, <1>5, <2>1, <2>2, Numbers DEF IInv, CommandInv, Adopted, Aged,
       Recovery!Never
<1>9. Fresh'
  <2>1. \A r \in Ranks : sample[r].age \in Nat /\ sample'[r].age \in Nat
                         /\ sample'[r].age <= sample[r].age + 1
    BY <1>1 DEF IInv, WorldInv, WorldTypes, Sampled, Recovery!Targets, Recovery!Ages, Aged
  <2>2. QED
    BY <1>2, <1>3, <1>4, <1>5, <2>1, Numbers DEF IInv, CommandInv, Fresh
<1>10. Following'
  <2> SUFFICES ASSUME pc \in Watching, ~failed
               PROVE  /\ Ranks # {} /\ step' <= first'
                      /\ step' < first' => step' <= elapsed' + MaxAge
    BY <1>2, <1>4 DEF Following
  <2>1. Ranks # {} /\ step <= first /\ (step < first => step <= elapsed + MaxAge)
    BY DEF IInv, CommandInv, Following
  <2>2. step' = Recovery!Older(step) /\ step \in Recovery!Ages
    BY <1>1, <2>1 DEF Aged, IInv, WorldInv, WorldTypes
  <2>3. /\ Recovery!Older(step) <= Recovery!Older(first)
        /\ Recovery!Older(step) < Recovery!Older(first) => step < first
        /\ Recovery!Older(step) <= step + 1 /\ Recovery!Older(step) \in Recovery!Ages
    BY <1>3, <2>1, <2>2, Times
  <2>4. QED
    BY <1>2, <1>3, <1>5, <2>1, <2>2, <2>3, Numbers DEF Recovery!Ages
<1>11. Progressed'
  BY <1>4 DEF Progressed
<1>12. Timely'
  <2>1. CASE Recovery!Calling /\ pc # "poll"
    BY <2>1 DEF Recovery!TimePasses, Timely
  <2>2. CASE pc = "idle"
    BY <1>2, <1>4, <2>2, Numbers DEF Timely
  <2>3. CASE pc \in {"poll", "wait", "watching"}
    <3>1. elapsed < deadline
      BY <1>2, <1>3, <2>3, Numbers DEF Recovery!Due
    <3>2. prompt' = (prompt /\ pc = "poll") \/ prompt' = prompt
      BY DEF Recovery!TimePasses
    <3>3. prompt' => prompt
      BY <3>2, Zenon
    <3>4. QED
      BY <1>2, <1>3, <1>4, <1>5, <2>3, <3>1, <3>3, Numbers DEF IInv, CommandInv, Timely
  <2>4. QED
    BY <1>2, <1>3, <2>1, <2>2, <2>3 DEF Recovery!Calling, Places
<1>13. QED
  BY <1>1, <1>6, <1>7, <1>8, <1>9, <1>10, <1>11, <1>12 DEF IInv, CommandInv

LEMMA StartIInv ==
  ASSUME Assumptions, IInv, Recovery!Start \/ Recovery!ReadScenario, UNCHANGED Recovery!world
  PROVE  IInv'
<1>1. WorldInv'
  BY WorldKept DEF IInv
<1>2. /\ UNCHANGED <<gate, elapsed, deadline, first, prompt>> /\ pc \in Early
      /\ pc' \in {"scenario", "control", "done"} /\ (pc' = "done" => failed' = TRUE)
      /\ failed' \in BOOLEAN /\ calm' \in BOOLEAN
  BY DEF Recovery!Start, Recovery!ReadScenario, Recovery!Outcome, Recovery!Troubled, IInv,
     CommandInv, CommandTypes
<1>3. gate = 1 /\ ~(gate > AdoptionAge) /\ (prompt => elapsed = 0) /\ 0 <= Budget + Window
  BY <1>2, GateNumbers, Numbers DEF IInv, CommandInv, Stages, Timely
<1>4. CommandTypes'
  BY <1>2 DEF IInv, CommandInv, CommandTypes, Places
<1>5. Stages' /\ Adopted' /\ Fresh' /\ Following' /\ Progressed'
  BY <1>2, <1>3 DEF Stages, Adopted, Fresh, Following, Progressed
<1>6. Timely'
  BY <1>2, <1>3 DEF Timely
<1>7. QED
  BY <1>1, <1>4, <1>5, <1>6 DEF IInv, CommandInv

LEMMA ReadControlIInv ==
  ASSUME Assumptions, IInv, Recovery!ReadControl, UNCHANGED Recovery!world PROVE IInv'
<1>1. WorldInv'
  BY WorldKept DEF IInv
<1>2. /\ UNCHANGED <<elapsed, first, prompt>> /\ pc = "control" /\ pc' = "poll" /\ gate' = 1
      /\ deadline' = Recovery!Sooner(elapsed + Budget, Outer)
      /\ failed' \in BOOLEAN /\ calm' \in BOOLEAN
  BY DEF Recovery!ReadControl, Recovery!Outcome, Recovery!Troubled, IInv, CommandInv, CommandTypes
<1>3. /\ elapsed \in 0 .. Outer /\ first \in Recovery!Ages /\ prompt \in BOOLEAN
      /\ (prompt => elapsed = 0)
  BY <1>2 DEF IInv, CommandInv, CommandTypes, Timely
<1>4. deadline' \in 0 .. Outer /\ (elapsed = 0 => deadline' <= Budget)
  BY <1>2, <1>3, Numbers DEF Recovery!Sooner
<1>5. 1 \in 1 .. LastGate + 1 /\ 1 <= LastGate /\ ~(1 > AdoptionAge)
  BY GateNumbers
<1>6. CommandTypes'
  BY <1>2, <1>3, <1>4, <1>5 DEF CommandTypes, Places
<1>7. Stages' /\ Adopted' /\ Fresh' /\ Following' /\ Progressed'
  BY <1>2, <1>5 DEF Stages, Adopted, Fresh, Following, Progressed
<1>8. Timely'
  BY <1>2, <1>3, <1>4, Numbers DEF Timely
<1>9. QED
  BY <1>1, <1>6, <1>7, <1>8 DEF IInv, CommandInv

\* What a passed gate says of the lab.
LEMMA AdoptionPassed ==
  ASSUME Assumptions, WorldInv, gate = AdoptionAge, Recovery!Passes(Recovery!Gates[gate])
  PROVE  \A e \in Exporters : left[e] <= MaxAge
<1>1. \A e \in Exporters : Recovery!PublishesNormal(e) /\ Recovery!AgeFits(sample[e].age)
  <2>1. Recovery!Gates[gate].is = "adoption age"
    BY GateFacts
  <2>2. QED
    BY <2>1, Zenon DEF Recovery!Passes
<1>2. ASSUME NEW e \in Exporters PROVE left[e] <= MaxAge
  <2>1. ExporterSeen(e) /\ left[e] \in Int
    BY LeftInt DEF WorldInv
  <2>2. left[e] <= sample[e].age
    BY <1>1, <2>1 DEF ExporterSeen, Recovery!PublishesNormal, Recovery!Present
  <2>3. sample[e].age \in 0 .. MaxAge
    BY <1>1 DEF Recovery!AgeFits
  <2>4. QED
    BY <2>1, <2>2, <2>3, Numbers
<1>3. QED
  BY <1>2

LEMMA StepAgePassed ==
  ASSUME Assumptions, gate = LastGate, Recovery!Passes(Recovery!Gates[gate])
  PROVE  \A r \in Ranks : sample[r].age \in 0 .. MaxAge
<1>1. Recovery!Gates[gate].is = "step age"
  BY GateFacts
<1>2. \A r \in Ranks : Recovery!AgeFits(sample[r].age)
  BY <1>1, Zenon DEF Recovery!Passes
<1>3. QED
  BY <1>2 DEF Recovery!AgeFits

LEMMA GateDoneIInv ==
  ASSUME Assumptions, IInv, UNCHANGED <<Recovery!world, elapsed, first, prompt>>,
         pc \in Polling, Recovery!NextGate, failed' \in BOOLEAN, calm' \in BOOLEAN,
         ~failed' => ~failed /\ Recovery!Passes(Recovery!Gates[gate])
  PROVE  IInv'
<1>1. WorldInv'
  BY WorldKept DEF IInv
<1>2. /\ gate' = gate + 1 /\ deadline' = deadline
      /\ pc' = (IF gate = LastGate THEN "first" ELSE "poll")
      /\ gate \in 1 .. LastGate + 1 /\ gate <= LastGate
  BY DEF Recovery!NextGate, Recovery!BudgetOfNext, LastGate, IInv, CommandInv, CommandTypes,
     Stages
<1>3. LastGate \in Nat /\ AdoptionAge \in 2..(LastGate - 1)
  BY GateNumbers
<1>4. /\ elapsed \in 0 .. Outer /\ deadline \in 0 .. Outer /\ first \in Recovery!Ages
      /\ prompt \in BOOLEAN
  BY DEF IInv, CommandInv, CommandTypes
<1>5. CommandTypes'
  BY <1>2, <1>3, <1>4 DEF CommandTypes, Places
<1>6. Stages' /\ Following' /\ Progressed'
  BY <1>2, <1>3 DEF Stages, Following, Progressed
<1>7. Adopted'
  <2> SUFFICES ASSUME gate + 1 > AdoptionAge, ~failed', NEW e \in Exporters
               PROVE  left[e] <= elapsed + MaxAge
    BY <1>2 DEF Adopted, Recovery!world
  <2>1. left[e] \in Int
    BY LeftInt DEF IInv
  <2>2. CASE gate > AdoptionAge
    BY <2>2 DEF IInv, CommandInv, Adopted
  <2>3. CASE gate = AdoptionAge
    BY <1>4, <2>1, <2>3, AdoptionPassed, Numbers DEF IInv
  <2>4. QED
    BY <1>2, <1>3, <2>2, <2>3
<1>8. Fresh'
  <2> SUFFICES ASSUME gate = LastGate, ~failed', NEW r \in Ranks
               PROVE  sample[r].age <= elapsed + MaxAge
    BY <1>2 DEF Fresh, Recovery!world
  <2>1. sample[r].age \in 0 .. MaxAge
    BY StepAgePassed
  <2>2. QED
    BY <1>4, <2>1, Numbers
<1>9. Timely'
  BY <1>2, <1>4, Numbers DEF IInv, CommandInv, Timely
<1>10. QED
  BY <1>1, <1>5, <1>6, <1>7, <1>8, <1>9 DEF IInv, CommandInv

LEMMA PollIInv ==
  ASSUME Assumptions, IInv, Recovery!Poll \/ Recovery!OutOfBudget, UNCHANGED Recovery!world
  PROVE  IInv'
<1>1. /\ UNCHANGED <<elapsed, first, prompt>> /\ pc \in Polling /\ calm' \in BOOLEAN
      /\ failed \in BOOLEAN
  BY DEF Recovery!Poll, Recovery!OutOfBudget, Recovery!Outcome, Recovery!Troubled, IInv,
     CommandInv, CommandTypes
<1>2. CASE /\ Recovery!NextGate
           /\ failed' = TRUE \/ (failed' = failed /\ Recovery!Passes(Recovery!Gates[gate]))
  <2>1. UNCHANGED <<Recovery!world, elapsed, first, prompt>>
    BY <1>1
  <2>2. failed' \in BOOLEAN /\ (~failed' => ~failed /\ Recovery!Passes(Recovery!Gates[gate]))
    <3>1. CASE failed' = TRUE
      BY <3>1
    <3>2. CASE failed' = failed /\ Recovery!Passes(Recovery!Gates[gate])
      <4>1. failed \in BOOLEAN
        BY <1>1
      <4>2. failed' \in BOOLEAN
        BY <3>2, <4>1
      <4>3. ~failed' => ~failed
        BY <3>2
      <4>4. QED
        BY <3>2, <4>2, <4>3, Zenon
    <3>3. QED
      BY <1>2, <3>1, <3>2, Zenon
  <2>3. Recovery!NextGate
    BY <1>2
  <2>4. QED
    BY <1>1, <2>1, <2>2, <2>3, GateDoneIInv
<1>3. CASE Recovery!Again
  <2>1. WorldInv'
    BY WorldKept DEF IInv
  <2>2. pc' = "wait" /\ UNCHANGED <<gate, deadline, failed>>
    BY <1>3 DEF Recovery!Again
  <2>3. CommandTypes' /\ Stages' /\ Fresh' /\ Following' /\ Progressed' /\ Timely'
    BY <1>1, <2>2 DEF IInv, CommandInv, CommandTypes, Places, Stages, Fresh, Following,
                      Progressed, Timely
  <2>4. Adopted'
    BY <1>1, <2>2 DEF IInv, CommandInv, Adopted, Recovery!world
  <2>5. QED
    BY <2>1, <2>3, <2>4 DEF IInv, CommandInv
<1>4. QED
  BY <1>2, <1>3 DEF Recovery!Poll, Recovery!OutOfBudget

LEMMA LeastExists ==
  ASSUME NEW S \in SUBSET Nat, S # {} PROVE \E s \in S : \A u \in S : s <= u
<1>1. PICK s \in S : \A u \in S : ~(<<u, s>> \in OpToRel(<, Nat))
  BY NatLessThanWellFounded, WFMin
<1>2. \A u \in S : ~(u < s)
  BY <1>1 DEF OpToRel
<1>3. QED
  BY <1>2

\* The highest step that was seen is one of a rank, and there is one.
LEMMA MaxStepIs ==
  ASSUME Assumptions, WorldInv, Recovery!ObservedSteps # {}
  PROVE  \E r \in Ranks : Recovery!Present(r) /\ sample[r].shows.step = Recovery!MaxStep
<1>1. Recovery!ObservedSteps \subseteq Nat
  <2>1. \A r \in Ranks : Recovery!Present(r) => sample[r].shows.step \in Recovery!Ages
    BY DEF WorldInv, RankSeen, Recovery!Present
  <2>2. QED
    BY <2>1 DEF Recovery!ObservedSteps, Recovery!Ages
<1>2. \E s \in Recovery!ObservedSteps : \A u \in Recovery!ObservedSteps : s <= u
  BY <1>1, LeastExists
<1>3. Recovery!MaxStep \in Recovery!ObservedSteps
  BY <1>2 DEF Recovery!MaxStep
<1>4. QED
  BY <1>3 DEF Recovery!ObservedSteps

\* What the last step is, seen from the highest step on the samples.
LEMMA MaxStepAge ==
  ASSUME Assumptions, WorldInv, Recovery!ObservedSteps # {}
  PROVE  /\ Ranks # {} /\ step \in Nat /\ Recovery!MaxStep \in Recovery!Ages
         /\ step <= Recovery!MaxStep
         /\ \E r \in Ranks : step < Recovery!MaxStep => step <= sample[r].age
<1>1. PICK r \in Ranks : Recovery!Present(r) /\ sample[r].shows.step = Recovery!MaxStep
  BY MaxStepIs
<1>2. RankSeen(r) /\ step \in Nat
  BY DEF WorldInv, WorldTypes, Recovery!Ages
<1>3. QED
  BY <1>1, <1>2 DEF RankSeen, Recovery!Present

LEMMA FirstStepIInv ==
  ASSUME Assumptions, IInv, Recovery!FirstStep, UNCHANGED Recovery!world PROVE IInv'
<1>1. WorldInv /\ WorldInv'
  BY WorldKept DEF IInv
<1>2. UNCHANGED <<gate, elapsed, prompt>> /\ pc = "first" /\ calm' \in BOOLEAN
  BY DEF Recovery!FirstStep, Recovery!Outcome, Recovery!Troubled, IInv, CommandInv, CommandTypes
<1>3. /\ elapsed \in 0 .. Outer /\ deadline \in 0 .. Outer /\ first \in Recovery!Ages
      /\ prompt \in BOOLEAN /\ failed \in BOOLEAN /\ gate = LastGate + 1
      /\ gate \in 1 .. LastGate + 1 /\ (prompt => elapsed <= Budget)
  BY <1>2 DEF IInv, CommandInv, CommandTypes, Stages, Timely
<1>4. \/ pc' = "done" /\ failed' = TRUE /\ UNCHANGED <<first, deadline>>
      \/ /\ Recovery!ObservedSteps # {} /\ first' = Recovery!MaxStep /\ UNCHANGED failed
         /\ deadline' = Recovery!Sooner(elapsed + Window, Outer) /\ pc' = "watching"
  BY DEF Recovery!FirstStep, Recovery!Finish
<1>5. /\ deadline' \in 0 .. Outer
      /\ pc' = "watching" /\ elapsed <= Budget => deadline' <= Budget + Window
  BY <1>3, <1>4, Numbers DEF Recovery!Sooner
<1>6. CommandTypes'
  BY <1>1, <1>2, <1>3, <1>4, <1>5, MaxStepAge DEF CommandTypes, Places
<1>7. Stages' /\ Fresh' /\ Progressed'
  BY <1>2, <1>3, <1>4 DEF Stages, Fresh, Progressed
<1>8. Adopted'
  BY <1>2, <1>4 DEF IInv, CommandInv, Adopted, Recovery!world
<1>9. Following'
  <2> SUFFICES ASSUME pc' = "watching", ~failed'
               PROVE  /\ Ranks # {} /\ step <= first'
                      /\ step < first' => step <= elapsed + MaxAge
    BY <1>2, <1>4 DEF Following, Recovery!world
  <2>1. Recovery!ObservedSteps # {} /\ first' = Recovery!MaxStep /\ ~failed
    BY <1>4
  <2>2. PICK r \in Ranks : step < Recovery!MaxStep => step <= sample[r].age
    BY <1>1, <2>1, MaxStepAge
  <2>3. sample[r].age <= elapsed + MaxAge /\ sample[r].age \in Nat
    BY <1>2, <2>1 DEF IInv, CommandInv, Fresh, WorldInv, WorldTypes, Sampled, Recovery!Targets,
       Recovery!Ages
  <2>4. /\ Ranks # {} /\ step \in Nat /\ Recovery!MaxStep \in Recovery!Ages
        /\ step <= Recovery!MaxStep
    BY <1>1, <2>1, MaxStepAge
  <2>5. QED
    BY <1>3, <2>1, <2>2, <2>3, <2>4, Numbers
<1>10. Timely'
  BY <1>2, <1>3, <1>4, <1>5, Numbers DEF Timely
<1>11. QED
  BY <1>1, <1>6, <1>7, <1>8, <1>9, <1>10 DEF IInv, CommandInv

LEMMA WatchIInv ==
  ASSUME Assumptions, IInv, Recovery!Watch \/ Recovery!WindowEnds, UNCHANGED Recovery!world
  PROVE  IInv'
<1>1. WorldInv /\ WorldInv'
  BY WorldKept DEF IInv
<1>2. /\ UNCHANGED <<gate, elapsed, deadline, first, prompt>> /\ pc \in Watching
      /\ calm' \in BOOLEAN
  BY DEF Recovery!Watch, Recovery!WindowEnds, Recovery!Outcome, Recovery!Troubled, IInv,
     CommandInv, CommandTypes
<1>3. /\ elapsed \in 0 .. Outer /\ failed \in BOOLEAN /\ gate = LastGate + 1
      /\ first \in Recovery!Ages
  BY <1>2 DEF IInv, CommandInv, CommandTypes, Stages
<1>4. \/ pc' = "watching" /\ failed' = failed
      \/ pc' = "done" /\ failed' = TRUE
      \/ /\ pc' = "done" /\ failed' = failed
         /\ Recovery!ObservedSteps # {} /\ Recovery!MaxStep < first
  BY <1>3 DEF Recovery!Watch, Recovery!WindowEnds, Recovery!Finish, Recovery!Advanced
<1>5. CommandTypes'
  BY <1>2, <1>4 DEF IInv, CommandInv, CommandTypes, Places
<1>6. Stages' /\ Fresh'
  BY <1>2, <1>3, <1>4 DEF Stages, Fresh
<1>7. Adopted'
  BY <1>2, <1>4 DEF IInv, CommandInv, Adopted, Recovery!world
<1>8. Following'
  BY <1>2, <1>4 DEF IInv, CommandInv, Following, Recovery!world
<1>9. Progressed'
  <2> SUFFICES ASSUME ~failed', pc' = "done" PROVE step <= elapsed + MaxAge
    BY <1>2 DEF Progressed, Recovery!world
  <2>1. ~failed /\ Recovery!ObservedSteps # {} /\ Recovery!MaxStep < first
    BY <1>4
  <2>2. step \in Nat /\ Recovery!MaxStep \in Recovery!Ages /\ step <= Recovery!MaxStep
    BY <1>1, <2>1, MaxStepAge
  <2>3. step < first => step <= elapsed + MaxAge
    BY <1>2, <2>1 DEF IInv, CommandInv, Following
  <2>4. QED
    BY <1>3, <2>1, <2>2, <2>3 DEF Recovery!Ages
<1>10. Timely'
  BY <1>2, <1>4 DEF IInv, CommandInv, Timely
<1>11. QED
  BY <1>1, <1>5, <1>6, <1>7, <1>8, <1>9, <1>10 DEF IInv, CommandInv

LEMMA NextIInv == ASSUME Assumptions, IInv, [Recovery!Next]_(Recovery!vars) PROVE IInv'
<1>1. CASE Recovery!Command
  BY <1>1, StartIInv, ReadControlIInv, PollIInv, FirstStepIInv, WatchIInv DEF Recovery!Command
<1>2. CASE pc # "done" /\ Recovery!Disturb /\ calm' = FALSE
           /\ UNCHANGED <<Recovery!command, trouble, prompt>>
  <2>1. UNCHANGED <<Recovery!command, prompt>> /\ calm' \in BOOLEAN
    BY <1>2
  <2>2. QED
    BY <1>2, <2>1, LabIInv
<1>3. CASE pc # "done" /\ Recovery!Work /\ UNCHANGED <<Recovery!command, trouble, prompt, calm>>
  <2>1. UNCHANGED <<Recovery!command, prompt>> /\ calm' \in BOOLEAN
    BY <1>3 DEF IInv, CommandInv, CommandTypes
  <2>2. QED
    BY <1>3, <2>1, LabIInv
<1>4. CASE Recovery!TimePasses
  BY <1>4, TimePassesIInv
<1>5. CASE UNCHANGED Recovery!vars
  <2>1. WorldInv'
    BY <1>5, WorldKept DEF IInv, Recovery!vars
  <2>2. CommandInv'
    BY <1>5 DEF Recovery!vars, Recovery!command, Recovery!world, IInv, CommandInv, CommandTypes,
       Stages, Adopted, Fresh,
                Following, Progressed, Timely
  <2>3. QED
    BY <2>1, <2>2 DEF IInv
<1>6. QED
  BY <1>1, <1>2, <1>3, <1>4, <1>5 DEF Recovery!Next

-----------------------------------------------------------------------------
LEMMA Invariant == ASSUME Assumptions PROVE Recovery!Spec => []IInv
<1>1. Recovery!Init => IInv
  BY InitIInv
<1>2. IInv /\ [Recovery!Next]_(Recovery!vars) => IInv'
  BY NextIInv
<1>3. QED
  BY <1>1, <1>2, PTL DEF Recovery!Spec

\* gpu verify --recovery does not report a recovery that is only in the samples Prometheus still
\* serves: when it passes, every exporter published "normal" and training made its last step no
\* longer than maxSampleAge before the command started, whatever failed or was applied since.
THEOREM RecoveryIsRecentHolds ==
  ASSUME Assumptions PROVE Recovery!Spec => []Recovery!RecoveryIsRecent /\ []NoOldRecovery
<1>1. IInv => Recovery!RecoveryIsRecent /\ NoOldRecovery
  BY IInvPassed DEF Recovery!RecoveryIsRecent, NoOldRecovery
<1>2. QED
  BY <1>1, Invariant, PTL

\* The variables of gpu verify --recovery and of the lab it watches keep their types: there is
\* always a gate to poll or none left, and no wait ends after the deadline of the command. All
\* gates are polled under one deadline: unless a call of its own hangs, the command has not run
\* for longer than Timeout and ProgressWindow together.
THEOREM ReportsInTime ==
  ASSUME Assumptions PROVE Recovery!Spec => []Recovery!RecoveryInTime /\ []NoLateReport
<1>1. IInv => Recovery!RecoveryInTime /\ NoLateReport
  BY IInvPassed, IInvTypeOK DEF Recovery!RecoveryInTime, NoLateReport
<1>2. QED
  BY <1>1, Invariant, PTL

(* A lab that was set to normal, and that nothing disturbs *)

EnoughRecovery == /\ Healthy!MonitoringAssumption /\ Healthy!TimesAssumption
                  /\ Healthy!EnoughTime

LEMMA HealthyNumbers ==
  ASSUME EnoughRecovery
  PROVE  /\ Lag \in Nat /\ Lookback \in Nat /\ MaxAge \in Nat /\ LongOld \in Nat /\ Settled \in Nat
         /\ LongBudget \in Nat /\ LongWindow \in Nat /\ LongOuter \in Nat
         /\ Lag <= Lookback /\ Lag <= MaxAge /\ Lag <= Settled /\ Lag < LongOld
         /\ LongBudget + LongWindow <= LongOuter /\ LongOuter < LongOld
         /\ 2 * Lag + 1 < LongBudget /\ 2 * Lag + 1 < LongWindow
         /\ Ranks # {} /\ Exporters \cap Ranks = {} /\ NormalDocuments \subseteq Documents
<1>1. /\ {Lookback, Lag, LongOld, Settled} \subseteq Nat
      /\ {LongBudget, LongWindow, LongOuter, MaxAge} \subseteq Nat
  BY DEF EnoughRecovery, Healthy!MonitoringAssumption, Healthy!TimesAssumption
<1>2. /\ Lag \in Nat /\ Lookback \in Nat /\ MaxAge \in Nat /\ LongOld \in Nat /\ Settled \in Nat
      /\ LongBudget \in Nat /\ LongWindow \in Nat /\ LongOuter \in Nat
  BY <1>1
<1>3. /\ Lag <= Lookback /\ Lag <= MaxAge /\ Lag <= Settled /\ Lookback < LongOld
      /\ LongBudget + LongWindow <= LongOuter /\ Lookback + LongOuter < LongOld
      /\ 2 * Lag + 1 < LongBudget /\ 2 * Lag + 1 < LongWindow
      /\ Ranks # {} /\ Exporters \cap Ranks = {} /\ NormalDocuments \subseteq Documents
  BY DEF EnoughRecovery, Healthy!MonitoringAssumption, Healthy!TimesAssumption,
         Healthy!EnoughTime
<1>4. QED
  BY <1>2, <1>3

LEMMA SameGates == Healthy!Gates = Recovery!Gates
<1>1. Healthy!SetToSeq(Exporters) = Recovery!SetToSeq(Exporters)
  BY DEF Healthy!SetToSeq, Recovery!SetToSeq, Healthy!IsInjective, Recovery!IsInjective,
         Healthy!Cardinality, Recovery!Cardinality
<1>2. QED
  BY <1>1 DEF Healthy!Gates, Recovery!Gates, Healthy!Nodes, Recovery!Nodes

LEMMA HealthyGatesAre ==
  ASSUME EnoughRecovery
  PROVE  /\ Len(Healthy!Gates) \in Nat \ {0}
         /\ \A i \in 1 .. Len(Healthy!Gates) : Healthy!Gates[i] \in AllGates
<1>1. IsFiniteSet(Exporters)
  BY DEF EnoughRecovery, Healthy!MonitoringAssumption, Healthy!IsFiniteSet, IsFiniteSet
<1>2. Healthy!Gates \in Seq(AllGates) /\ Len(Healthy!Gates) = LastGate
  BY <1>1, GatesAre, SameGates DEF LastGate
<1>3. LastGate \in Nat /\ AdoptionAge \in 2 .. (LastGate - 1)
  BY <1>1, GatesAre, Zenon
<1>4. QED
  BY <1>2, <1>3

\* Prometheus keeps up with what lives, and the steps with what trains.
LiveSample(t) ==
  /\ DOMAIN sample[t] = {"age", "up", "shows"}
  /\ sample[t].age \in 0 .. Lag /\ sample[t].up = TRUE
  /\ t \in Exporters => "step" \notin DOMAIN sample[t].shows
  /\ t \in Ranks => DOMAIN sample[t].shows = {"mode", "step"} /\ sample[t].shows.step \in Nat

Trains == Ranks \subseteq live /\ ~stalled

KeptUp ==
  /\ {applied, written, step} \subseteq Nat /\ live \subseteq Healthy!Targets
  /\ DOMAIN sample = Healthy!Targets /\ DOMAIN shown = Exporters /\ DOMAIN mode = Ranks
  /\ \A t \in live : LiveSample(t)
  /\ Trains => step <= Lag /\ \A r \in Ranks : sample[r].shows.step <= sample[r].age + Lag

\* What parts and samples show of the documents, the longer the command runs.
BackToNormal ==
  /\ live = Healthy!Targets /\ ~stalled /\ Healthy!Normal(document) /\ control = "normal"
  /\ elapsed <= applied \/ Settled <= applied
  /\ elapsed <= written \/ Lag <= written
  /\ elapsed > Lag => /\ \A e \in Exporters : shown[e] = document
                      /\ \A r \in Ranks : mode[r] = "normal"
  /\ \A e \in Exporters :
       elapsed - sample[e].age > Lag => Healthy!Normal(sample[e].shows.document)
  /\ \A r \in Ranks : elapsed - sample[r].age > Lag => sample[r].shows.mode = "normal"

\* The window is still open when a new step must have been scraped.
Observing ==
  /\ deadline \in Nat /\ deadline <= LongOuter /\ first \in Nat
  /\ deadline <= elapsed + LongWindow
  /\ elapsed + LongWindow - deadline <= first
  /\ elapsed + LongWindow - deadline <= 2 * Lag + (IF pc = "watch" THEN 1 ELSE 0)

InBudget ==
  /\ BackToNormal /\ failed = FALSE
  /\ pc \in {"scenario", "control"} => elapsed = 0
  /\ pc \in {"poll", "wait"} => deadline = LongBudget /\ gate \in 1 .. Len(Healthy!Gates)
  /\ pc \in {"poll", "first"} => elapsed <= 2 * Lag + 1
  /\ pc = "wait" => elapsed <= 2 * Lag
  /\ pc \in Watching => Observing

HealthyInv ==
  /\ KeptUp /\ pc \in Places /\ elapsed \in Nat
  /\ pc = "idle" => elapsed = 0 /\ failed = FALSE
  /\ calm /\ pc # "idle" => InBudget

LEMMA HealthyTargets == Healthy!Targets = Exporters \cup Ranks
BY DEF Healthy!Targets

LEMMA HealthyInitInv == ASSUME EnoughRecovery, Healthy!Init PROVE HealthyInv
<1>1. /\ pc = "idle" /\ elapsed = 0 /\ failed = FALSE /\ live = Healthy!Targets
      /\ applied = 0 /\ written = 0 /\ step = 0
      /\ shown = [e \in Exporters |-> document] /\ mode = [r \in Ranks |-> "normal"]
      /\ sample = [t \in Healthy!Targets |->
                     [age |-> 0, up |-> TRUE, shows |-> Healthy!Publishes(t)]]
  BY DEF Healthy!Init, Healthy!MonitoringInit
<1>2. ASSUME NEW t \in live PROVE LiveSample(t)
  <2>1. sample[t] = [age |-> 0, up |-> TRUE, shows |-> Healthy!Publishes(t)]
    BY <1>1, <1>2
  <2>2. CASE t \in Exporters
    BY <1>1, <2>1, <2>2, HealthyNumbers DEF LiveSample, Healthy!Publishes
  <2>3. CASE t \in Ranks
    BY <1>1, <2>1, <2>3, HealthyNumbers DEF LiveSample, Healthy!Publishes
  <2>4. QED
    BY <1>1, <1>2, <2>2, <2>3, HealthyTargets
<1>3. ASSUME NEW r \in Ranks PROVE sample[r].shows.step = 0 /\ sample[r].age = 0
  BY <1>1, HealthyNumbers, HealthyTargets DEF Healthy!Publishes
<1>4. KeptUp
  BY <1>1, <1>2, <1>3, HealthyNumbers DEF KeptUp
<1>5. QED
  BY <1>1, <1>4 DEF HealthyInv, Places

\* Disturbances only take away; nothing is promised for what is taken.
LEMMA HealthyDisturbInv ==
  ASSUME EnoughRecovery, HealthyInv, pc # "done", Healthy!Disturb, calm' = FALSE,
         UNCHANGED Healthy!command
  PROVE  HealthyInv'
<1>1. UNCHANGED <<pc, failed, elapsed>>
  BY DEF Healthy!command
<1>2. /\ live' \subseteq live /\ (stalled => stalled') /\ UNCHANGED <<shown, mode, step, sample>>
      /\ {applied', written'} \subseteq {applied, written, 0}
  <2>1. CASE Healthy!Apply \/ Healthy!SetControl
    BY <2>1 DEF Healthy!Apply, Healthy!SetControl
  <2>2. CASE Healthy!Stall
    BY <2>2 DEF Healthy!Stall
  <2>3. ASSUME NEW t \in Healthy!Targets, Healthy!Die(t)
        PROVE  /\ live' \subseteq live /\ UNCHANGED <<stalled, shown, mode, step, sample>>
               /\ applied' = applied /\ written' = written
    BY <2>3 DEF Healthy!Die
  <2>4. QED
    BY <2>1, <2>2, <2>3 DEF Healthy!Disturb
<1>3. KeptUp'
  BY <1>2 DEF HealthyInv, KeptUp, LiveSample, Trains
<1>4. QED
  BY <1>1, <1>3 DEF HealthyInv

\* The lab takes up its documents.
LEMMA HealthyAdoptInv ==
  ASSUME EnoughRecovery, HealthyInv, UNCHANGED <<Healthy!command, calm>>,
         \/ \E e \in Exporters : Healthy!Adopt(e)
         \/ \E r \in Ranks : Healthy!ObserveControl(r)
         \/ Healthy!Step
  PROVE  HealthyInv'
<1>1. UNCHANGED <<pc, gate, failed, elapsed, deadline, first>>
  BY DEF Healthy!command
<1>2. /\ UNCHANGED <<document, applied, control, written, live, stalled, sample>>
      /\ DOMAIN shown' = DOMAIN shown /\ DOMAIN mode' = DOMAIN mode
      /\ step' \in {step, 0}
      /\ \A e \in Exporters : shown[e] = document => shown'[e] = document
      /\ \A r \in Ranks : mode[r] = control => mode'[r] = control
  <2>1. ASSUME NEW e \in Exporters, Healthy!Adopt(e)
        PROVE  /\ UNCHANGED <<document, applied, control, written, live,
                           mode, step, stalled, sample>>
               /\ shown' = [shown EXCEPT ![e] = document]
    BY <2>1 DEF Healthy!Adopt
  <2>2. ASSUME NEW r \in Ranks, Healthy!ObserveControl(r)
        PROVE  /\ UNCHANGED <<document, applied, control, written, live,
                           shown, step, stalled, sample>>
               /\ mode' = [mode EXCEPT ![r] = control]
    BY <2>2 DEF Healthy!ObserveControl
  <2>3. ASSUME Healthy!Step
        PROVE  /\ UNCHANGED <<document, applied, control, written, live,
                           shown, mode, stalled, sample>>
               /\ step' = 0
    BY <2>3 DEF Healthy!Step
  <2>4. DOMAIN shown = Exporters /\ DOMAIN mode = Ranks
    BY DEF HealthyInv, KeptUp
  <2>5. QED
    BY <2>1, <2>2, <2>3, <2>4
<1>3. KeptUp'
  BY <1>2, HealthyNumbers DEF HealthyInv, KeptUp, LiveSample, Trains
<1>4. BackToNormal => BackToNormal'
  BY <1>1, <1>2 DEF BackToNormal, Healthy!Normal
<1>5. Observing => Observing'
  BY <1>1 DEF Observing
<1>6. QED
  BY <1>1, <1>3, <1>4, <1>5 DEF HealthyInv, InBudget

LEMMA HealthyScrapeInv ==
  ASSUME EnoughRecovery, HealthyInv, UNCHANGED <<Healthy!command, calm>>,
         NEW t \in Healthy!Targets, Healthy!Scrape(t)
  PROVE  HealthyInv'
<1>1. UNCHANGED <<pc, gate, failed, elapsed, deadline, first>>
  BY DEF Healthy!command
<1>2. /\ UNCHANGED <<document, applied, control, written, live, shown, mode, step, stalled>>
      /\ DOMAIN sample' = Healthy!Targets
      /\ \A u \in Healthy!Targets : u # t => sample'[u] = sample[u]
      /\ t \in live => sample'[t] = [age |-> 0, up |-> TRUE, shows |-> Healthy!Publishes(t)]
  BY DEF Healthy!Scrape, HealthyInv, KeptUp
<1>3. /\ t \in live /\ t \in Exporters =>
           /\ sample'[t] = [age |-> 0, up |-> TRUE, shows |-> [document |-> shown[t]]]
           /\ t \notin Ranks
      /\ t \in live /\ t \in Ranks =>
           /\ sample'[t] = [age |-> 0, up |-> TRUE, shows |-> [mode |-> mode[t], step |-> step]]
           /\ t \notin Exporters
  BY <1>2, HealthyNumbers DEF Healthy!Publishes
<1>4. /\ live \subseteq Healthy!Targets /\ step \in Nat /\ Lag \in Nat /\ elapsed \in Nat
      /\ Exporters \subseteq Healthy!Targets /\ Ranks \subseteq Healthy!Targets
  BY HealthyTargets, HealthyNumbers DEF HealthyInv, KeptUp
<1>5. ASSUME NEW u \in live PROVE LiveSample(u)'
  <2>1. CASE u # t
    BY <1>2, <1>4, <2>1 DEF HealthyInv, KeptUp, LiveSample
  <2>2. CASE u = t /\ t \in Exporters
    BY <1>3, <1>4, <2>2 DEF LiveSample
  <2>3. CASE u = t /\ t \in Ranks
    BY <1>3, <1>4, <2>3 DEF LiveSample
  <2>4. QED
    BY <1>4, <2>1, <2>2, <2>3, HealthyTargets
<1>6. ASSUME Trains, NEW r \in Ranks PROVE sample'[r].shows.step <= sample'[r].age + Lag
  <2>1. CASE r # t
    BY <1>2, <1>4, <1>6, <2>1 DEF HealthyInv, KeptUp
  <2>2. CASE r = t
    <3>1. step <= Lag /\ r \in live
      BY <1>6 DEF HealthyInv, KeptUp, Trains
    <3>2. sample'[r].shows.step = step /\ sample'[r].age = 0
      BY <1>3, <2>2, <3>1
    <3>3. QED
      BY <1>4, <3>1, <3>2
  <2>3. QED
    BY <2>1, <2>2
<1>7. KeptUp'
  BY <1>2, <1>5, <1>6 DEF HealthyInv, KeptUp, Trains
<1>8. BackToNormal => BackToNormal'
  <2> SUFFICES ASSUME BackToNormal PROVE BackToNormal'
    OBVIOUS
  <2>1. t \in live
    BY DEF BackToNormal
  <2>2. ASSUME NEW e \in Exporters, elapsed - sample'[e].age > Lag
        PROVE  Healthy!Normal(sample'[e].shows.document)
    <3>1. CASE e # t
      BY <1>2, <1>4, <2>2, <3>1 DEF BackToNormal
    <3>2. CASE e = t
      <4>1. sample'[e].age = 0 /\ sample'[e].shows.document = shown[e]
        BY <1>3, <2>1, <3>2
      <4>2. QED
        BY <1>4, <2>2, <4>1 DEF BackToNormal
    <3>3. QED
      BY <3>1, <3>2
  <2>3. ASSUME NEW r \in Ranks, elapsed - sample'[r].age > Lag
        PROVE  sample'[r].shows.mode = "normal"
    <3>1. CASE r # t
      BY <1>2, <1>4, <2>3, <3>1 DEF BackToNormal
    <3>2. CASE r = t
      <4>1. sample'[r].age = 0 /\ sample'[r].shows.mode = mode[r]
        BY <1>3, <2>1, <3>2
      <4>2. QED
        BY <1>4, <2>3, <4>1 DEF BackToNormal
    <3>3. QED
      BY <3>1, <3>2
  <2>4. QED
    BY <1>1, <1>2, <2>2, <2>3 DEF BackToNormal, Healthy!Normal
<1>9. Observing => Observing'
  BY <1>1 DEF Observing
<1>10. QED
  BY <1>1, <1>7, <1>8, <1>9 DEF HealthyInv, InBudget

\* The clock waits for what is due.
LEMMA HealthyTick ==
  ASSUME EnoughRecovery, KeptUp, elapsed \in Nat, Healthy!Tick
  PROVE  KeptUp' /\ (BackToNormal /\ elapsed' = elapsed + 1 => BackToNormal')
<1> DEFINE Older(t) == Healthy!OlderSample(sample[t])
<1>1. /\ UNCHANGED <<document, control, live, shown, mode, stalled>>
      /\ \A t \in live : sample[t].age < Lag
      /\ applied < Lag \/ \A e \in live \cap Exporters : shown[e] = document
      /\ written < Lag \/ \A r \in live \cap Ranks : mode[r] = control
      /\ stalled \/ ~(Ranks \subseteq live) \/ step < Lag
      /\ applied' = Healthy!UpTo(applied, Settled) /\ written' = Healthy!UpTo(written, Lag)
      /\ step' = IF Ranks = {} THEN step ELSE Healthy!Older(step)
      /\ sample' = [t \in Healthy!Targets |-> Older(t)]
  BY DEF Healthy!Tick
<1>2. /\ Lag \in Nat /\ LongOld \in Nat /\ Lag < LongOld /\ Settled \in Nat /\ Lag <= Settled
      /\ Ranks # {} /\ Exporters \cap Ranks = {}
  BY HealthyNumbers
<1>3. /\ applied \in Nat /\ written \in Nat /\ step \in Nat /\ live \subseteq Healthy!Targets
      /\ \A t \in live : LiveSample(t)
  BY DEF KeptUp
<1>4. ASSUME NEW t \in live
      PROVE  /\ DOMAIN sample'[t] = {"age", "up", "shows"}
             /\ sample'[t].age = sample[t].age + 1 /\ sample'[t].up = TRUE
             /\ sample[t].age \in Nat /\ sample[t].age + 1 <= Lag
             /\ t \in Exporters => /\ "step" \notin DOMAIN sample'[t].shows
                                   /\ sample'[t].shows = sample[t].shows
             /\ t \in Ranks => /\ DOMAIN sample'[t].shows = {"mode", "step"}
                               /\ sample'[t].shows.mode = sample[t].shows.mode
                               /\ sample[t].shows.step \in Nat /\ sample'[t].shows.step \in Nat
                               /\ sample'[t].shows.step <= sample[t].shows.step + 1
  <2>1. LiveSample(t) /\ sample[t].age < Lag /\ t \in Healthy!Targets
    BY <1>1, <1>3
  <2>2. sample'[t] = [sample[t] EXCEPT !.age = Healthy!Older(@), !.shows = Healthy!OlderShows(@)]
    BY <1>1, <2>1 DEF Healthy!OlderSample
  <2>3. /\ DOMAIN sample'[t] = {"age", "up", "shows"} /\ sample'[t].up = TRUE
        /\ sample'[t].age = Healthy!Older(sample[t].age)
        /\ sample'[t].shows = Healthy!OlderShows(sample[t].shows)
    BY <2>1, <2>2 DEF LiveSample
  <2>4. Healthy!Older(sample[t].age) = sample[t].age + 1 /\ sample[t].age \in Nat
        /\ sample[t].age + 1 <= Lag
    BY <1>2, <2>1 DEF LiveSample, Healthy!Older, Healthy!UpTo
  <2>5. CASE t \in Exporters
    BY <1>2, <2>1, <2>3, <2>4, <2>5 DEF LiveSample, Healthy!OlderShows
  <2>6. CASE t \in Ranks
    <3>1. DOMAIN sample[t].shows = {"mode", "step"} /\ sample[t].shows.step \in Nat
      BY <2>1, <2>6 DEF LiveSample
    <3>2. sample'[t].shows = [sample[t].shows EXCEPT !.step = Healthy!Older(@)]
      BY <2>3, <3>1 DEF Healthy!OlderShows
    <3>3. /\ Healthy!Older(sample[t].shows.step) \in Nat
          /\ Healthy!Older(sample[t].shows.step) <= sample[t].shows.step + 1
      BY <1>2, <3>1 DEF Healthy!Older, Healthy!UpTo
    <3>4. QED
      BY <1>2, <2>3, <2>4, <2>6, <3>1, <3>2, <3>3
  <2>7. QED
    BY <2>1, <2>5, <2>6, HealthyTargets
<1> HIDE DEF Older
<1>5. applied' \in Nat /\ written' \in Nat /\ step' \in Nat
  BY <1>1, <1>2, <1>3 DEF Healthy!UpTo, Healthy!Older
<1>6. ASSUME NEW t \in live PROVE LiveSample(t)'
  <2>1. sample'[t].age \in 0 .. Lag
    <3>1. sample'[t].age = sample[t].age + 1 /\ sample[t].age \in Nat /\ sample[t].age + 1 <= Lag
      BY <1>4
    <3>2. QED
      BY <1>2, <3>1
  <2>2. QED
    BY <1>4, <2>1 DEF LiveSample
<1>7. ASSUME Trains' PROVE step' <= Lag
  BY <1>1, <1>2, <1>3, <1>7 DEF Trains, Healthy!Older, Healthy!UpTo
<1>8. ASSUME Trains', NEW r \in Ranks PROVE sample'[r].shows.step <= sample'[r].age + Lag
  <2>1. Trains /\ r \in live
    BY <1>1, <1>8 DEF Trains
  <2>2. sample[r].shows.step <= sample[r].age + Lag
    BY <2>1 DEF KeptUp
  <2>3. /\ sample'[r].age = sample[r].age + 1 /\ sample[r].age \in Nat
        /\ sample[r].shows.step \in Nat /\ sample'[r].shows.step \in Nat
        /\ sample'[r].shows.step <= sample[r].shows.step + 1
    BY <1>4, <2>1
  <2>4. QED
    BY <1>2, <2>2, <2>3
<1>9. KeptUp'
  <2>1. DOMAIN sample' = Healthy!Targets
    BY <1>1
  <2>2. QED
    BY <1>1, <1>3, <1>5, <1>6, <1>7, <1>8, <2>1 DEF KeptUp
<1>10. ASSUME BackToNormal, elapsed' = elapsed + 1 PROVE BackToNormal'
  <2>1. live = Healthy!Targets /\ Exporters \subseteq live /\ Ranks \subseteq live
    BY <1>10, HealthyTargets DEF BackToNormal
  <2>2. elapsed' <= applied' \/ Settled <= applied'
    BY <1>1, <1>2, <1>3, <1>10 DEF BackToNormal, Healthy!UpTo
  <2>3. elapsed' <= written' \/ Lag <= written'
    BY <1>1, <1>2, <1>3, <1>10 DEF BackToNormal, Healthy!UpTo
  <2>4. elapsed' > Lag => /\ \A e \in Exporters : shown'[e] = document'
                          /\ \A r \in Ranks : mode'[r] = "normal"
    BY <1>1, <1>2, <1>3, <1>10, <2>1 DEF BackToNormal
  <2>5. ASSUME NEW t \in live PROVE elapsed' - sample'[t].age = elapsed - sample[t].age
    <3>1. sample'[t].age = sample[t].age + 1 /\ sample[t].age \in Nat
      BY <1>4
    <3>2. QED
      BY <1>10, <3>1
  <2>6. \A e \in Exporters : sample'[e].shows = sample[e].shows
    BY <1>4, <2>1
  <2>7. \A e \in Exporters :
          elapsed' - sample'[e].age > Lag => Healthy!Normal(sample'[e].shows.document)
    BY <1>10, <2>1, <2>5, <2>6 DEF BackToNormal
  <2>8. \A r \in Ranks : sample'[r].shows.mode = sample[r].shows.mode
    BY <1>4, <2>1
  <2>9. \A r \in Ranks : elapsed' - sample'[r].age > Lag => sample'[r].shows.mode = "normal"
    BY <1>10, <2>1, <2>5, <2>8 DEF BackToNormal
  <2>10. QED
    BY <1>1, <1>10, <2>2, <2>3, <2>4, <2>7, <2>9 DEF BackToNormal, Healthy!Normal
<1>11. QED
  BY <1>9, <1>10

\* Once there was time to adopt and to scrape, every gate passes.
LEMMA EveryGatePasses ==
  ASSUME EnoughRecovery, HealthyInv, BackToNormal, 2 * Lag < elapsed, NEW g \in AllGates
  PROVE  Healthy!Passes(g)
<1>1. /\ Lag \in Nat /\ Lookback \in Nat /\ MaxAge \in Nat /\ Lag <= Lookback /\ Lag <= MaxAge
      /\ elapsed \in Nat
  BY HealthyNumbers DEF HealthyInv
<1>2. ASSUME NEW t \in Healthy!Targets
      PROVE  /\ Healthy!Served(t) /\ sample[t].up /\ Healthy!Present(t)
             /\ Healthy!AgeFits(sample[t].age) /\ elapsed - sample[t].age > Lag
  <2>1. sample[t].age \in 0 .. Lag /\ sample[t].up = TRUE
    BY DEF HealthyInv, KeptUp, BackToNormal, LiveSample
  <2>2. QED
    BY <1>1, <2>1 DEF Healthy!Served, Healthy!Present, Healthy!AgeFits
<1>3. ASSUME NEW e \in Exporters
      PROVE  /\ Healthy!Served(e) /\ sample[e].up /\ Healthy!Present(e)
             /\ Healthy!AgeFits(sample[e].age) /\ Healthy!PublishesNormal(e)
  BY <1>2, HealthyTargets DEF BackToNormal, Healthy!PublishesNormal
<1>4. ASSUME NEW r \in Ranks
      PROVE  /\ Healthy!Present(r) /\ Healthy!AgeFits(sample[r].age)
             /\ sample[r].shows.mode = "normal"
  BY <1>2, HealthyTargets DEF BackToNormal
<1>5. ASSUME NEW e \in Exporters, g = [is |-> "fabric", node |-> e] PROVE Healthy!Passes(g)
  <2>1. g.is = "fabric" /\ g.node = e
    BY <1>5
  <2>2. QED
    BY <1>3, <2>1 DEF Healthy!Passes
<1>6. ASSUME NEW i \in Kinds, g = [is |-> i] PROVE Healthy!Passes(g)
  <2>1. g.is = i
    BY <1>6
  <2>2. CASE i \in {"adopted", "adoption"}
    BY <1>3, <2>1, <2>2 DEF Healthy!Passes
  <2>3. CASE i = "training"
    BY <1>4, <2>1, <2>3 DEF Healthy!Passes
  <2>4. CASE i \in {"up", "up age"}
    BY <1>3, <2>1, <2>4 DEF Healthy!Passes
  <2>5. CASE i = "adoption age"
    BY <1>3, <2>1, <2>5 DEF Healthy!Passes
  <2>6. CASE i \in {"steps", "step age"}
    BY <1>4, <2>1, <2>6 DEF Healthy!Passes
  <2>7. QED
    BY <1>6, <2>2, <2>3, <2>4, <2>5, <2>6 DEF Kinds
<1>7. QED
  BY <1>5, <1>6 DEF AllGates

\* There is a step to be seen, and none that is seen is old.
LEMMA StepsAreYoung ==
  ASSUME EnoughRecovery, HealthyInv, BackToNormal
  PROVE  /\ Healthy!ObservedSteps # {} /\ Healthy!MaxStep \in Healthy!ObservedSteps
         /\ Healthy!MaxStep \in 0 .. 2 * Lag
<1>1. Lag \in Nat /\ Lookback \in Nat /\ Lag <= Lookback /\ Ranks # {}
  BY HealthyNumbers
<1>2. ASSUME NEW r \in Ranks
      PROVE  Healthy!Present(r) /\ sample[r].shows.step \in 0 .. 2 * Lag
  <2>1. LiveSample(r) /\ Trains
    BY HealthyTargets DEF BackToNormal, HealthyInv, KeptUp, Trains
  <2>2. sample[r].age \in 0 .. Lag /\ sample[r].up = TRUE /\ sample[r].shows.step \in Nat
    BY <2>1 DEF LiveSample
  <2>3. sample[r].shows.step <= sample[r].age + Lag
    BY <2>1 DEF HealthyInv, KeptUp
  <2>4. QED
    BY <1>1, <2>2, <2>3 DEF Healthy!Present, Healthy!Served
<1>3. Healthy!ObservedSteps # {} /\ Healthy!ObservedSteps \subseteq 0 .. 2 * Lag
  BY <1>1, <1>2 DEF Healthy!ObservedSteps
<1>4. \E s \in Healthy!ObservedSteps : \A u \in Healthy!ObservedSteps : s <= u
  BY <1>1, <1>3, LeastExists
<1>5. Healthy!MaxStep \in Healthy!ObservedSteps
  BY <1>4 DEF Healthy!MaxStep
<1>6. QED
  BY <1>3, <1>5

LEMMA HealthyWorldKept ==
  ASSUME UNCHANGED Healthy!world
  PROVE  /\ KeptUp => KeptUp'
         /\ BackToNormal /\ UNCHANGED elapsed => BackToNormal'
         /\ UNCHANGED document
<1>1. UNCHANGED <<document, applied, control, written, live, shown, mode, step, stalled, sample>>
  BY DEF Healthy!world
<1>2. KeptUp => KeptUp'
  BY <1>1 DEF KeptUp, Trains, LiveSample
<1>3. BackToNormal /\ UNCHANGED elapsed => BackToNormal'
  BY <1>1 DEF BackToNormal, Healthy!Normal
<1>4. QED
  BY <1>1, <1>2, <1>3

\* A call that fails, or that takes long, disturbs.
LEMMA CalmCalls ==
  ASSUME NEW err \in BOOLEAN, Healthy!Outcome(err), calm', elapsed < LongOuter
  PROVE  calm /\ ~err
BY DEF Healthy!Outcome, Healthy!Troubled

LEMMA HealthyStartInv ==
  ASSUME EnoughRecovery, HealthyInv, UNCHANGED Healthy!world,
         Healthy!Start \/ Healthy!ReadScenario \/ Healthy!ReadControl
  PROVE  HealthyInv'
<1>1. KeptUp' /\ UNCHANGED elapsed
  BY HealthyWorldKept DEF HealthyInv, Healthy!Start, Healthy!ReadScenario, Healthy!ReadControl
<1>2. pc' \in {"scenario", "done", "control", "poll"}
  BY DEF Healthy!Start, Healthy!ReadScenario, Healthy!ReadControl
<1>3. /\ LongBudget \in Nat /\ LongOuter \in Nat /\ 0 < LongOuter /\ LongBudget <= LongOuter
      /\ Lag \in Nat
  BY HealthyNumbers
<1> SUFFICES ASSUME calm' PROVE InBudget'
  BY <1>1, <1>2 DEF HealthyInv, Places
<1>4. CASE Healthy!Start
  <2>1. /\ pc = "idle" /\ pc' = "scenario" /\ elapsed = 0 /\ failed' = FALSE
        /\ Healthy!Normal(document) /\ control = "normal" /\ live = Healthy!Targets /\ ~stalled
    BY <1>4 DEF Healthy!Start, HealthyInv
  <2>2. /\ applied \in Nat /\ written \in Nat /\ \A t \in live : sample[t].age \in 0 .. Lag
    BY DEF HealthyInv, KeptUp, LiveSample
  <2>3. BackToNormal
    BY <1>3, <2>1, <2>2, HealthyTargets DEF BackToNormal
  <2>4. BackToNormal'
    BY <1>1, <2>3, HealthyWorldKept
  <2>5. QED
    BY <1>1, <2>1, <2>4 DEF InBudget, Watching
<1>5. CASE Healthy!ReadScenario
  <2>1. PICK err \in BOOLEAN :
          /\ Healthy!Outcome(err) /\ failed' = (err \/ ~Healthy!Normal(document))
          /\ pc' = IF failed' THEN "done" ELSE "control"
    BY <1>5 DEF Healthy!ReadScenario
  <2>2. pc = "scenario"
    BY <1>5 DEF Healthy!ReadScenario
  <2>3. calm /\ elapsed = 0 /\ ~err /\ BackToNormal
    BY <1>3, <2>1, <2>2 DEF Healthy!Outcome, Healthy!Troubled, HealthyInv, InBudget
  <2>4. failed' = FALSE /\ pc' = "control"
    BY <2>1, <2>3 DEF BackToNormal
  <2>5. QED
    BY <1>1, <2>3, <2>4, HealthyWorldKept DEF InBudget, Watching
<1>6. CASE Healthy!ReadControl
  <2>1. PICK err \in BOOLEAN :
          /\ Healthy!Outcome(err) /\ failed' = (err \/ control # "normal")
    BY <1>6 DEF Healthy!ReadControl
  <2>2. /\ pc = "control" /\ pc' = "poll" /\ gate' = 1
        /\ deadline' = Healthy!Sooner(elapsed + LongBudget, LongOuter)
    BY <1>6 DEF Healthy!ReadControl
  <2>3. calm /\ elapsed = 0 /\ ~err /\ BackToNormal
    BY <1>3, <2>1, <2>2 DEF Healthy!Outcome, Healthy!Troubled, HealthyInv, InBudget
  <2>4. failed' = FALSE /\ deadline' = LongBudget
    BY <1>3, <2>1, <2>2, <2>3 DEF BackToNormal, Healthy!Sooner
  <2>5. 1 \in 1 .. Len(Healthy!Gates)
    BY HealthyGatesAre
  <2>6. BackToNormal'
    BY <1>1, <2>3, HealthyWorldKept
  <2>7. QED
    BY <1>1, <1>3, <2>2, <2>3, <2>4, <2>5, <2>6 DEF InBudget, Watching
<1>7. QED
  BY <1>4, <1>5, <1>6

LEMMA HealthyPollInv ==
  ASSUME EnoughRecovery, HealthyInv, UNCHANGED Healthy!world,
         Healthy!Poll \/ Healthy!OutOfBudget
  PROVE  HealthyInv'
<1>1. KeptUp' /\ UNCHANGED elapsed /\ pc \in {"poll", "wait"}
  BY HealthyWorldKept DEF HealthyInv, Healthy!Poll, Healthy!OutOfBudget
<1>2. pc' \in {"first", "poll", "wait"}
  BY DEF Healthy!Poll, Healthy!OutOfBudget, Healthy!NextGate, Healthy!Again
<1>3. /\ LongBudget \in Nat /\ LongOuter \in Nat /\ LongWindow \in Nat /\ Lag \in Nat
      /\ 2 * Lag + 1 < LongBudget /\ LongBudget + LongWindow <= LongOuter /\ elapsed \in Nat
  BY HealthyNumbers DEF HealthyInv
<1> SUFFICES ASSUME calm' PROVE InBudget'
  BY <1>1, <1>2 DEF HealthyInv, Places
<1>4. CASE Healthy!OutOfBudget
  <2>1. calm /\ elapsed >= deadline
    BY <1>4 DEF Healthy!OutOfBudget
  <2>2. deadline = LongBudget /\ elapsed <= 2 * Lag + 1
    BY <1>1, <1>3, <2>1 DEF HealthyInv, InBudget
  <2>3. QED
    BY <1>3, <2>1, <2>2
<1>5. CASE Healthy!Poll
  <2>1. PICK err \in BOOLEAN :
          /\ Healthy!Outcome(err)
          /\ \/ ~err /\ Healthy!Passes(Healthy!Gates[gate]) /\ Healthy!NextGate /\ UNCHANGED failed
             \/ (err \/ ~Healthy!Passes(Healthy!Gates[gate])) /\ Healthy!Again
    BY <1>5 DEF Healthy!Poll
  <2>2. pc = "poll" /\ elapsed < deadline
    BY <1>5 DEF Healthy!Poll
  <2>3. calm
    BY <2>1 DEF Healthy!Outcome, Healthy!Troubled
  <2>4. /\ BackToNormal /\ failed = FALSE /\ deadline = LongBudget /\ elapsed <= 2 * Lag + 1
        /\ gate \in 1 .. Len(Healthy!Gates)
    BY <2>2, <2>3 DEF HealthyInv, InBudget
  <2>5. ~err
    BY <1>3, <2>1, <2>2, <2>4, CalmCalls
  <2>6. BackToNormal'
    BY <1>1, <2>4, HealthyWorldKept
  <2>7. CASE Healthy!NextGate /\ UNCHANGED failed
    <3>1. /\ gate' = gate + 1 /\ deadline' = deadline
          /\ pc' = IF gate = Len(Healthy!Gates) THEN "first" ELSE "poll"
      BY <2>7 DEF Healthy!NextGate, Healthy!BudgetOfNext
    <3>2. pc' = "poll" => gate' \in 1 .. Len(Healthy!Gates)
      BY <2>4, <3>1, HealthyGatesAre
    <3>3. QED
      BY <1>1, <2>4, <2>6, <2>7, <3>1, <3>2 DEF InBudget, Watching
  <2>8. CASE ~Healthy!Passes(Healthy!Gates[gate]) /\ Healthy!Again
    <3>1. pc' = "wait" /\ UNCHANGED <<gate, deadline, failed>>
      BY <2>8 DEF Healthy!Again
    <3>2. Healthy!Gates[gate] \in AllGates
      BY <2>4, HealthyGatesAre
    <3>3. elapsed <= 2 * Lag
      BY <1>3, <2>4, <2>8, <3>2, EveryGatePasses
    <3>4. QED
      BY <1>1, <2>4, <2>6, <3>1, <3>3 DEF InBudget, Watching
  <2>9. QED
    BY <2>1, <2>5, <2>7, <2>8
<1>6. QED
  BY <1>4, <1>5

LEMMA HealthyWatchInv ==
  ASSUME EnoughRecovery, HealthyInv, UNCHANGED Healthy!world,
         Healthy!FirstStep \/ Healthy!Watch \/ Healthy!WindowEnds
  PROVE  HealthyInv'
<1>1. KeptUp' /\ UNCHANGED elapsed /\ pc \in {"first", "watch", "watching"}
  BY HealthyWorldKept DEF HealthyInv, Healthy!FirstStep, Healthy!Watch, Healthy!WindowEnds,
                          Healthy!Finish
<1>2. pc' \in {"watching", "done"}
  BY DEF Healthy!FirstStep, Healthy!Watch, Healthy!WindowEnds, Healthy!Finish
<1>3. /\ LongBudget \in Nat /\ LongOuter \in Nat /\ LongWindow \in Nat /\ Lag \in Nat
      /\ 2 * Lag + 1 < LongBudget /\ LongBudget + LongWindow <= LongOuter /\ elapsed \in Nat
      /\ 2 * Lag + 1 < LongWindow
  BY HealthyNumbers DEF HealthyInv
<1> SUFFICES ASSUME calm' PROVE InBudget'
  BY <1>1, <1>2 DEF HealthyInv, Places
<1>4. calm
  BY DEF Healthy!FirstStep, Healthy!Watch, Healthy!WindowEnds, Healthy!Outcome, Healthy!Troubled
<1>5. InBudget /\ BackToNormal /\ failed = FALSE
  BY <1>1, <1>4 DEF HealthyInv, InBudget
<1>6. /\ pc = "first" => elapsed <= 2 * Lag + 1
      /\ pc \in {"watch", "watching"} => Observing
  BY <1>5 DEF InBudget, Watching
<1>7. BackToNormal'
  BY <1>1, <1>5, HealthyWorldKept
<1>8. Healthy!ObservedSteps # {} /\ Healthy!MaxStep \in 0 .. 2 * Lag
  BY <1>5, StepsAreYoung
<1>9. CASE Healthy!FirstStep
  <2>1. pc = "first" /\ elapsed < LongOuter
    BY <1>3, <1>6, <1>9 DEF Healthy!FirstStep
  <2>2. PICK err \in BOOLEAN :
          /\ Healthy!Outcome(err)
          /\ ~(err \/ Healthy!ObservedSteps = {}) =>
               /\ first' = Healthy!MaxStep
               /\ deadline' = Healthy!Sooner(elapsed + LongWindow, LongOuter)
               /\ pc' = "watching" /\ UNCHANGED failed
    BY <1>9 DEF Healthy!FirstStep
  <2>3. ~err
    BY <2>1, <2>2, CalmCalls
  <2>4. /\ first' \in Nat /\ deadline' = elapsed + LongWindow /\ pc' = "watching"
        /\ failed' = FALSE
    BY <1>3, <1>5, <1>6, <1>8, <2>1, <2>2, <2>3 DEF Healthy!Sooner
  <2>5. Observing'
    BY <1>1, <1>3, <1>6, <2>1, <2>4 DEF Observing
  <2>6. QED
    BY <1>7, <2>4, <2>5 DEF InBudget
<1>10. CASE Healthy!Watch
  <2>1. pc = "watch" /\ Observing /\ UNCHANGED <<deadline, first>>
    BY <1>6, <1>10 DEF Healthy!Watch
  <2>2. elapsed < deadline /\ elapsed < LongOuter
    BY <1>3, <2>1 DEF Observing
  <2>3. PICK err \in BOOLEAN :
          /\ Healthy!Outcome(err)
          /\ IF ~err /\ Healthy!ObservedSteps # {} /\ Healthy!Advanced(Healthy!MaxStep)
             THEN Healthy!Finish(TRUE)
             ELSE pc' = "watching" /\ UNCHANGED failed
    BY <1>10 DEF Healthy!Watch
  <2>4. ~err
    BY <2>2, <2>3, CalmCalls
  <2>5. CASE Healthy!Advanced(Healthy!MaxStep)
    <3>1. pc' = "done" /\ failed' = FALSE
      BY <1>5, <1>8, <2>3, <2>4, <2>5 DEF Healthy!Finish
    <3>2. QED
      BY <1>7, <3>1 DEF InBudget, Watching
  <2>6. CASE ~Healthy!Advanced(Healthy!MaxStep)
    <3>1. pc' = "watching" /\ failed' = FALSE
      BY <1>5, <2>3, <2>6
    <3>2. first <= 2 * Lag
      BY <1>3, <1>8, <2>1, <2>6 DEF Healthy!Advanced, Observing
    <3>3. Observing'
      BY <1>1, <1>3, <2>1, <3>1, <3>2 DEF Observing
    <3>4. QED
      BY <1>7, <3>1, <3>3 DEF InBudget
  <2>7. QED
    BY <2>5, <2>6
<1>11. CASE Healthy!WindowEnds
  <2>1. elapsed >= deadline /\ Observing
    BY <1>6, <1>11 DEF Healthy!WindowEnds
  <2>2. FALSE
    BY <1>3, <2>1 DEF Observing
  <2>3. QED
    BY <2>2
<1>12. QED
  BY <1>9, <1>10, <1>11

LEMMA HealthyTimeInv ==
  ASSUME EnoughRecovery, HealthyInv, Healthy!TimePasses PROVE HealthyInv'
<1>1. /\ Healthy!Tick /\ pc # "done" /\ pc' = Healthy!Woken
      /\ elapsed' = (IF pc = "idle" THEN 0 ELSE elapsed + 1)
      /\ first' = Healthy!Older(first) /\ UNCHANGED <<gate, failed, deadline>>
  BY DEF Healthy!TimePasses
<1>2. /\ Lag \in Nat /\ LongWindow \in Nat /\ LongOld \in Nat /\ LongOuter \in Nat
      /\ 2 * Lag + 1 < LongWindow /\ LongOuter < LongOld /\ elapsed \in Nat /\ KeptUp
      /\ LongWindow <= LongOuter
  BY HealthyNumbers DEF HealthyInv
<1>3. KeptUp' /\ (BackToNormal /\ elapsed' = elapsed + 1 => BackToNormal')
  BY <1>1, <1>2, HealthyTick
<1>4. /\ pc' = "idle" <=> pc = "idle"
      /\ pc = "wait" => pc' = "poll"
      /\ pc = "watching" => pc' = "watch"
  BY <1>1 DEF HealthyInv, Places, Healthy!Woken
<1>5. pc' \in Places
  BY <1>1 DEF HealthyInv, Places, Healthy!Woken
<1>6. ASSUME calm', pc # "idle" PROVE InBudget'
  <2>1. calm /\ pc \in {"wait", "watching"}
    BY <1>1, <1>6 DEF Healthy!TimePasses, Healthy!Calling, Healthy!Troubled, HealthyInv, Places
  <2>2. InBudget /\ BackToNormal /\ failed = FALSE
    BY <1>6, <2>1 DEF HealthyInv, InBudget
  <2>3. elapsed' = elapsed + 1 /\ BackToNormal' /\ failed' = FALSE
    BY <1>1, <1>3, <1>6, <2>2
  <2>4. CASE pc = "wait"
    <3>1. elapsed <= 2 * Lag /\ deadline = LongBudget /\ gate \in 1 .. Len(Healthy!Gates)
      BY <2>2, <2>4 DEF InBudget
    <3>2. elapsed' <= 2 * Lag + 1
      BY <1>2, <2>3, <3>1
    <3>3. QED
      BY <1>1, <1>4, <2>3, <2>4, <3>1, <3>2 DEF InBudget, Watching
  <2>5. CASE pc = "watching"
    <3>1. Observing
      BY <2>2, <2>5 DEF InBudget, Watching
    <3>2. /\ deadline \in Nat /\ deadline <= LongOuter /\ first \in Nat
          /\ deadline <= elapsed + LongWindow
          /\ elapsed + LongWindow - deadline <= first
          /\ elapsed + LongWindow - deadline <= 2 * Lag
      <4>1. (IF pc = "watch" THEN 1 ELSE 0) = 0
        BY <2>5
      <4>2. elapsed + LongWindow - deadline <= 2 * Lag + 0
        BY <3>1, <4>1, Zenon DEF Observing
      <4>3. 2 * Lag + 0 = 2 * Lag
        BY <1>2
      <4>4. QED
        BY <3>1, <4>2, <4>3 DEF Observing
    <3>3. /\ first' \in Nat
          /\ first' = first + 1 \/ LongOld <= first'
      BY <1>1, <1>2, <3>2 DEF Healthy!Older, Healthy!UpTo
    <3>4. /\ elapsed' + LongWindow - deadline' <= first'
          /\ elapsed' + LongWindow - deadline' <= 2 * Lag + 1
          /\ deadline' <= elapsed' + LongWindow
      BY <1>1, <1>2, <2>3, <3>2, <3>3
    <3>5. Observing'
      BY <1>1, <1>4, <2>5, <3>2, <3>3, <3>4 DEF Observing
    <3>6. QED
      BY <1>4, <2>3, <2>5, <3>5 DEF InBudget
  <2>6. QED
    BY <2>1, <2>4, <2>5
<1>7. elapsed' \in Nat /\ (pc = "idle" => elapsed' = 0 /\ failed' = FALSE)
  BY <1>1, <1>2 DEF HealthyInv
<1>8. QED
  BY <1>3, <1>4, <1>5, <1>6, <1>7 DEF HealthyInv

LEMMA HealthyNextInv ==
  ASSUME EnoughRecovery, HealthyInv, [Healthy!Next]_(Healthy!vars) PROVE HealthyInv'
<1>1. CASE Healthy!Command
  BY <1>1, HealthyStartInv, HealthyPollInv, HealthyWatchInv DEF Healthy!Command
<1>2. CASE pc # "done" /\ Healthy!Disturb /\ calm' = FALSE
           /\ UNCHANGED <<Healthy!command, trouble, prompt>>
  BY <1>2, HealthyDisturbInv
<1>3. CASE pc # "done" /\ Healthy!Work /\ UNCHANGED <<Healthy!command, trouble, prompt, calm>>
  BY <1>3, HealthyAdoptInv, HealthyScrapeInv DEF Healthy!Work
<1>4. CASE Healthy!TimePasses
  BY <1>4, HealthyTimeInv
<1>5. CASE UNCHANGED Healthy!vars
  <2>1. UNCHANGED <<Healthy!world, pc, gate, failed, elapsed, deadline, first, calm>>
    BY <1>5, Zenon DEF Healthy!vars, Healthy!command
  <2>2. QED
    BY <2>1, HealthyWorldKept DEF HealthyInv, InBudget, Observing
<1>6. QED
  BY <1>1, <1>2, <1>3, <1>4, <1>5 DEF Healthy!Next

LEMMA HealthyPassesHolds ==
  ASSUME EnoughRecovery PROVE Healthy!Spec => []Healthy!HealthyPasses
<1>1. Healthy!Init => HealthyInv
  BY HealthyInitInv
<1>2. HealthyInv /\ [Healthy!Next]_(Healthy!vars) => HealthyInv'
  BY HealthyNextInv
<1>3. HealthyInv => Healthy!HealthyPasses
  BY DEF HealthyInv, InBudget, Healthy!HealthyPasses
<1>4. QED
  BY <1>1, <1>2, <1>3, PTL DEF Healthy!Spec

-----------------------------------------------------------------------------
(* Verifier *)

ScenarioAssumptions == Scenario!MonitoringAssumption /\ Scenario!VerifierAssumption

\* A sample that shows the scenario in the ConfigMap is one of an exporter that still does:
\* when the document was applied nothing showed it.
Taken ==
  \A e \in Fleet :
    Scenario!Selected(document) /\ sample[e].up /\ sample[e].shows.document = document
      => shown[e] = document

\* The samples of the lab are records, and none has a step.
LabTypes ==
  /\ Scenario!WorldOK /\ DOMAIN sample = Fleet
  /\ \A e \in Fleet : DOMAIN sample[e] = {"age", "up", "shows"}
                      /\ "step" \notin DOMAIN sample[e].shows

\* The scenario in the ConfigMap has its age, as the others have theirs.
Ages ==
  /\ since \in [Scenario!Selections -> 0 .. LongApplied]
  /\ Scenario!Selected(document) => since[document] = applied

LabInv == LabTypes /\ Taken /\ Ages

LEMMA AgesUpTo ==
  ASSUME NEW cap \in Nat, NEW age \in 0 .. cap PROVE Scenario!UpTo(age, cap) \in 0 .. cap
BY DEF Scenario!UpTo

LEMMA AgesKept ==
  ASSUME Ages, UNCHANGED <<document, applied, since>> PROVE Ages'
BY DEF Ages, Scenario!Selected, Scenario!Selections

LEMMA ScenarioTargets == Scenario!Targets = Fleet
BY DEF Scenario!Targets

LEMMA ScenarioInitLab == ASSUME ScenarioAssumptions, Scenario!Init PROVE LabInv
<1> USE ScenarioTargets DEF Scenario!Modes, Scenario!Never, Scenario!Ages
<1>1. Scenario!MonitoringInit
  BY DEF Scenario!Init
<1>2. OldSample \in Nat /\ NormalApplications \subseteq Applications
  BY DEF ScenarioAssumptions, Scenario!MonitoringAssumption
<1>3. /\ sample = [t \in Fleet |-> [age |-> 0, up |-> TRUE,
                                    shows |-> Scenario!Publishes(t)]]
      /\ \A e \in Fleet : Scenario!Publishes(e) = [document |-> document]
  BY <1>1 DEF Scenario!MonitoringInit, Scenario!Publishes
<1>4. Scenario!WorldOK
  <2>1. 0 \in Scenario!Ages
    BY <1>2
  <2>2. \A t \in Fleet : sample[t].age \in Scenario!Ages /\ sample[t].up \in BOOLEAN
    BY <1>3, <2>1
  <2>3. document \in Applications
    BY <1>1, <1>2 DEF Scenario!MonitoringInit
  <2>4. /\ shown = [e \in Fleet |-> document] /\ mode = [r \in {} |-> "normal"]
        /\ left = [e \in Fleet |-> -1] /\ live = Fleet /\ stalled = FALSE
        /\ control = "normal" /\ applied = 0 /\ written = 0 /\ step = 0
    BY <1>1 DEF Scenario!MonitoringInit
  <2>5. /\ shown \in [Fleet -> Applications] /\ mode \in [{} -> Scenario!Modes]
        /\ left \in [Fleet -> Scenario!Ages \cup {Scenario!Never}]
    BY <2>3, <2>4
  <2>6. /\ control \in Scenario!Modes /\ {applied, written, step} \subseteq Nat
        /\ stalled \in BOOLEAN /\ live \subseteq Scenario!Targets
    <3>1. control \in Scenario!Modes
      BY <2>4
    <3>2. {applied, written, step} \subseteq Nat
      BY <2>4
    <3>3. stalled \in BOOLEAN
      BY <2>4
    <3>4. live \subseteq Scenario!Targets
      BY <2>4
    <3>5. QED
      BY <3>1, <3>2, <3>3, <3>4
  <2> HIDE DEF Scenario!Modes, Scenario!Never, Scenario!Ages
  <2>7. QED
    BY <2>2, <2>3, <2>5, <2>6 DEF Scenario!WorldOK
<1>5. LabTypes
  BY <1>3, <1>4 DEF LabTypes
<1>6. Taken
  BY <1>1 DEF Scenario!MonitoringInit, Taken
<1>7. Ages
  <2>1. LongApplied \in Nat
    BY DEF ScenarioAssumptions, Scenario!MonitoringAssumption
  <2>2. since = [d \in Scenario!Selections |-> LongApplied] /\ document \in NormalApplications
    BY <1>1 DEF Scenario!Init, Scenario!MonitoringInit
  <2>3. QED
    BY <2>1, <2>2 DEF Ages, Scenario!Selected
<1>8. QED
  BY <1>5, <1>6, <1>7 DEF LabInv

LEMMA ApplyNewLab ==
  ASSUME ScenarioAssumptions, LabInv, Scenario!ApplyNew PROVE LabInv'
<1>1. Scenario!Apply /\ LabTypes
  BY DEF Scenario!ApplyNew, LabInv
<1>2. LabTypes'
  BY <1>1, ScenarioTargets DEF Scenario!Apply, LabTypes, Scenario!WorldOK
<1>3. Taken'
  <2> SUFFICES ASSUME NEW e \in Fleet, Scenario!Selected(document'), sample'[e].up
               PROVE  sample'[e].shows.document # document'
    BY DEF Taken, Scenario!Selected
  <2>1. sample' = sample
    BY <1>1 DEF Scenario!Apply
  <2>2. document' \notin Scenario!Traces
    BY DEF Scenario!ApplyNew
  <2>3. QED
    BY <2>1, <2>2 DEF Scenario!Traces
<1>4. Ages'
  <2>1. LongApplied \in Nat /\ applied' = 0 /\ document' \in Applications
    BY <1>1 DEF ScenarioAssumptions, Scenario!MonitoringAssumption, Scenario!Apply
  <2>2. since' = [d \in Scenario!Selections |-> IF d = document' THEN 0 ELSE since[d]]
    BY DEF Scenario!ApplyNew
  <2>3. since' \in [Scenario!Selections -> 0 .. LongApplied]
    BY <2>1, <2>2 DEF LabInv, Ages
  <2>4. Scenario!Selected(document)' => document' \in Scenario!Selections
    BY <2>1 DEF Scenario!Selected, Scenario!Selections
  <2>5. QED
    BY <2>1, <2>2, <2>3, <2>4 DEF Ages
<1>5. QED
  BY <1>2, <1>3, <1>4 DEF LabInv

LEMMA DieLab ==
  ASSUME ScenarioAssumptions, LabInv, NEW e \in Fleet, Scenario!Die(e), UNCHANGED since
  PROVE  LabInv'
<1>1. /\ UNCHANGED <<document, applied, control, written, shown, mode, step, stalled, sample>>
      /\ live' = live \ {e}
      /\ left' = IF left[e] = Scenario!Never THEN [left EXCEPT ![e] = 0] ELSE left
  BY DEF Scenario!Die
<1>2. left' \in [Fleet -> Scenario!Ages \cup {Scenario!Never}]
  <2>1. 0 \in Scenario!Ages
    BY DEF Scenario!Ages, ScenarioAssumptions, Scenario!MonitoringAssumption
  <2>2. QED
    BY <1>1, <2>1 DEF LabInv, LabTypes, Scenario!WorldOK
<1>3. LabTypes'
  BY <1>1, <1>2, ScenarioTargets DEF LabInv, LabTypes, Scenario!WorldOK
<1>4. Taken' /\ Ages'
  BY <1>1, AgesKept DEF LabInv, Taken
<1>5. QED
  BY <1>3, <1>4 DEF LabInv

LEMMA AdoptLab ==
  ASSUME ScenarioAssumptions, LabInv, NEW e \in Fleet, Scenario!Adopt(e), UNCHANGED since
  PROVE  LabInv' /\ UNCHANGED document
<1>1. /\ UNCHANGED <<document, applied, control, written, live, mode, step, stalled, sample>>
      /\ shown' = [shown EXCEPT ![e] = document]
      /\ left' = [left EXCEPT ![e] = IF Scenario!Normal(document) THEN Scenario!Never
                                     ELSE IF @ = Scenario!Never THEN 0 ELSE @]
  BY DEF Scenario!Adopt
<1>2. left' \in [Fleet -> Scenario!Ages \cup {Scenario!Never}]
  <2>1. 0 \in Scenario!Ages
    BY DEF Scenario!Ages, ScenarioAssumptions, Scenario!MonitoringAssumption
  <2>2. QED
    BY <1>1, <2>1 DEF LabInv, LabTypes, Scenario!WorldOK
<1>3. LabTypes'
  BY <1>1, <1>2, ScenarioTargets DEF LabInv, LabTypes, Scenario!WorldOK
<1>4. Taken' /\ Ages'
  BY <1>1, AgesKept DEF LabInv, Taken, LabTypes, Scenario!WorldOK
<1>5. QED
  BY <1>1, <1>3, <1>4 DEF LabInv

LEMMA ScrapeLab ==
  ASSUME ScenarioAssumptions, LabInv, NEW e \in Fleet, Scenario!Scrape(e), UNCHANGED since
  PROVE  LabInv' /\ UNCHANGED document
<1>1. /\ UNCHANGED <<document, applied, control, written, live, shown, mode, step, stalled, left>>
      /\ DOMAIN sample' = Fleet
      /\ \A u \in Fleet : u # e => sample'[u] = sample[u]
      /\ sample'[e] = IF e \in live
                      THEN [age |-> 0, up |-> TRUE, shows |-> [document |-> shown[e]]]
                      ELSE [age |-> 0, up |-> FALSE, shows |-> Scenario!Gone]
  BY DEF Scenario!Scrape, Scenario!Publishes, LabInv, LabTypes
<1>2. /\ sample'[e].age = 0 /\ sample'[e].up \in BOOLEAN
      /\ DOMAIN sample'[e] = {"age", "up", "shows"}
      /\ "step" \notin DOMAIN sample'[e].shows
  <2>1. DOMAIN Scenario!Gone = {"gone"}
    BY DEF Scenario!Gone
  <2>2. CASE e \in live
    BY <1>1, <2>2
  <2>3. CASE e \notin live
    BY <1>1, <2>1, <2>3
  <2>4. QED
    BY <2>2, <2>3
<1>3. 0 \in Scenario!Ages
  BY DEF Scenario!Ages, ScenarioAssumptions, Scenario!MonitoringAssumption
<1>4. LabTypes'
  BY <1>1, <1>2, <1>3, ScenarioTargets DEF LabInv, LabTypes, Scenario!WorldOK
<1>5. Taken'
  <2> SUFFICES ASSUME NEW k \in Fleet, Scenario!Selected(document'), sample'[k].up,
                      sample'[k].shows.document = document'
               PROVE  shown'[k] = document'
    BY DEF Taken, Scenario!Selected
  <2>1. CASE k # e
    BY <1>1, <2>1 DEF LabInv, Taken, Scenario!Selected
  <2>2. CASE k = e
    <3>1. sample'[e].shows.document = shown[e]
      BY <1>1, <2>2
    <3>2. QED
      BY <1>1, <2>2, <3>1
  <2>3. QED
    BY <2>1, <2>2
<1>6. Ages'
  BY <1>1, AgesKept DEF LabInv
<1>7. QED
  BY <1>1, <1>4, <1>5, <1>6 DEF LabInv

LEMMA TickLab ==
  ASSUME ScenarioAssumptions, LabInv, Scenario!Tick, Scenario!Ageing
  PROVE  LabInv' /\ UNCHANGED document
<1> DEFINE older(t) == Scenario!OlderSample(sample[t])
<1>1. /\ UNCHANGED <<document, control, live, shown, mode, stalled, step>>
      /\ applied' = Scenario!UpTo(applied, LongApplied) /\ written' = Scenario!UpTo(written, Lag)
      /\ sample' = [t \in Fleet |-> older(t)]
      /\ left' = [e \in Fleet |-> IF left[e] = Scenario!Never THEN Scenario!Never
                                  ELSE Scenario!Older(left[e])]
  BY ScenarioTargets DEF Scenario!Tick
<1>2. OldSample \in Nat /\ \A n \in Scenario!Ages : Scenario!Older(n) \in Scenario!Ages
  BY DEF Scenario!Ages, Scenario!Older, Scenario!UpTo, ScenarioAssumptions,
         Scenario!MonitoringAssumption
<1>3. ASSUME NEW e \in Fleet
      PROVE  /\ sample'[e].age \in Scenario!Ages /\ sample'[e].up = sample[e].up
             /\ sample'[e].shows = sample[e].shows
             /\ DOMAIN sample'[e] = {"age", "up", "shows"}
  <2>1. /\ DOMAIN sample[e] = {"age", "up", "shows"} /\ "step" \notin DOMAIN sample[e].shows
        /\ sample[e].age \in Scenario!Ages
    BY ScenarioTargets DEF LabInv, LabTypes, Scenario!WorldOK
  <2>2. Scenario!OlderShows(sample[e].shows) = sample[e].shows
    BY <2>1 DEF Scenario!OlderShows
  <2>3. older(e) = [sample[e] EXCEPT !.age = Scenario!Older(@), !.shows = Scenario!OlderShows(@)]
    BY DEF Scenario!OlderSample
  <2>4. sample'[e] = older(e)
    BY <1>1
  <2>5. QED
    BY <1>2, <2>1, <2>2, <2>3, <2>4
<1>4. left' \in [Fleet -> Scenario!Ages \cup {Scenario!Never}]
  BY <1>1, <1>2 DEF LabInv, LabTypes, Scenario!WorldOK
<1>5. applied' \in Nat /\ written' \in Nat /\ step' \in Nat
  BY <1>1 DEF LabInv, LabTypes, Scenario!WorldOK, Scenario!UpTo
<1>6. DOMAIN sample' = Fleet
  BY <1>1
<1> HIDE DEF older
<1>7. Scenario!WorldOK'
  BY <1>1, <1>3, <1>4, <1>5, ScenarioTargets DEF LabInv, LabTypes, Scenario!WorldOK
<1>8. LabTypes'
  BY <1>3, <1>6, <1>7 DEF LabInv, LabTypes
<1>9. Taken'
  BY <1>1, <1>3 DEF LabInv, Taken, Scenario!Selected
<1>10. Ages'
  <2>1. LongApplied \in Nat
    BY DEF ScenarioAssumptions, Scenario!MonitoringAssumption
  <2>2. since' = [d \in Scenario!Selections |->
                    IF d \in Scenario!Traces THEN Scenario!UpTo(since[d], LongApplied)
                    ELSE LongApplied]
    BY DEF Scenario!Ageing
  <2>3. since' \in [Scenario!Selections -> 0 .. LongApplied]
    BY <2>1, <2>2, AgesUpTo DEF LabInv, Ages
  <2>4. document \in Scenario!Traces
    BY DEF Scenario!Traces
  <2>5. Scenario!Selected(document) => document \in Scenario!Selections
    BY DEF Scenario!Selections, LabInv, LabTypes, Scenario!WorldOK
  <2>6. Scenario!Selected(document') => since'[document'] = applied'
    BY <1>1, <2>2, <2>4, <2>5 DEF LabInv, Ages, Scenario!Selected
  <2>7. QED
    BY <2>3, <2>6 DEF Ages, Scenario!Selected, Scenario!Selections
<1>11. QED
  BY <1>1, <1>8, <1>9, <1>10 DEF LabInv

Busy == {"scenario", "generation", "poll", "wait"}

ScenarioTypes ==
  /\ pc \in Busy \cup {"idle", "done"} /\ check \in 1 .. 3 /\ generation \in Applications
  /\ elapsed \in 0 .. Deadline /\ deadline \in 0 .. Deadline /\ seen \subseteq 0 .. LastPhase
  /\ failed \in BOOLEAN /\ calm \in BOOLEAN

\* There are two checks, and no phase is seen before the second one passes.
ScenarioStages ==
  /\ pc \in {"idle", "scenario"} => check = 1
  /\ pc = "generation" => check = 2 /\ Timeline
  /\ pc \in {"poll", "wait"} => check \in 1 .. 2
  /\ pc # "done" => seen = {}

\* A command that nothing disturbs is about one application from its start; behind the first
\* check it has its generation.
OneApplication ==
  calm => /\ Scenario!Selected(document)
          /\ pc \in {"poll", "wait"} /\ check = 2 /\ Timeline => generation = document

\* A report that is good is one of the last check.
Reported == Scenario!TimelineIsApplied /\ Scenario!OnePhase /\ Scenario!NoneExpired

ScenarioInv ==
  LabInv /\ ScenarioTypes /\ ScenarioStages /\ OneApplication /\ Reported

LEMMA ScenarioNumbers ==
  ASSUME ScenarioAssumptions
  PROVE  /\ Timeout \in Nat /\ Deadline \in Nat /\ LastPhase \in Nat /\ Timeline \in BOOLEAN
         /\ \A n \in 0 .. Deadline : Scenario!Sooner(n + Timeout, Deadline) \in 0 .. Deadline
BY DEF ScenarioAssumptions, Scenario!VerifierAssumption, Scenario!Sooner

\* The checks of a timeline: its targets, then its phase.
LEMMA ChecksAre ==
  /\ Len(Scenario!Checks) = 2
  /\ Scenario!Checks[1] = "up"
  /\ Scenario!Checks[2] = IF Timeline THEN "phase" ELSE "readings"
BY DEF Scenario!Checks

LEMMA ScenarioInitInv == ASSUME ScenarioAssumptions, Scenario!Init PROVE ScenarioInv
<1>1. LabInv /\ document \in Applications
  BY ScenarioInitLab DEF LabInv, LabTypes, Scenario!WorldOK
<1>2. /\ pc = "idle" /\ check = 1 /\ generation = document /\ failed = FALSE
      /\ elapsed = 0 /\ deadline = 0 /\ seen = {} /\ calm = FALSE
  BY DEF Scenario!Init
<1>3. ScenarioTypes
  <2>1. elapsed \in 0 .. Deadline /\ deadline \in 0 .. Deadline
    BY <1>2, ScenarioNumbers
  <2>2. pc \in Busy \cup {"idle", "done"} /\ check \in 1 .. 3 /\ generation \in Applications
    BY <1>1, <1>2
  <2>3. seen \subseteq 0 .. LastPhase /\ failed \in BOOLEAN /\ calm \in BOOLEAN
    BY <1>2
  <2>4. QED
    BY <2>1, <2>2, <2>3 DEF ScenarioTypes
<1>4. ScenarioStages /\ OneApplication
  BY <1>2 DEF ScenarioStages, OneApplication
<1>5. Reported
  BY <1>2 DEF Reported, Scenario!TimelineIsApplied, Scenario!OnePhase, Scenario!NoneExpired,
         Scenario!Passed
<1>6. QED
  BY <1>1, <1>3, <1>4, <1>5 DEF ScenarioInv

\* Until the report there is nothing that could be wrong with it.
LEMMA NotReported == pc # "done" \/ failed => Reported
BY DEF Reported, Scenario!TimelineIsApplied, Scenario!OnePhase, Scenario!NoneExpired,
         Scenario!Passed

LEMMA NotReportedNext == (pc # "done" \/ failed => Reported)'
BY NotReported, PTL

LEMMA SameLab ==
  ASSUME UNCHANGED <<Scenario!world, since>> PROVE LabInv => LabInv' /\ UNCHANGED document
<1>1. LabTypes => LabTypes'
  BY DEF LabTypes, Scenario!WorldOK, Scenario!world
<1>2. UNCHANGED <<document, applied, sample, shown, since>>
  BY DEF Scenario!world
<1>3. (Taken => Taken') /\ (Ages => Ages')
  BY <1>2, AgesKept DEF Taken, Scenario!Selected
<1>4. QED
  BY <1>1, <1>2, <1>3 DEF LabInv

LEMMA ScenarioReadInv ==
  ASSUME ScenarioAssumptions, ScenarioInv, UNCHANGED <<Scenario!world, since>>,
         Scenario!Start \/ Scenario!ReadScenario \/ Scenario!ReadGeneration
  PROVE  ScenarioInv'
<1>1. LabInv' /\ document' = document /\ document \in Applications
  BY SameLab DEF ScenarioInv, LabInv, LabTypes, Scenario!WorldOK
<1>2. ScenarioTypes /\ ScenarioStages /\ OneApplication
  BY DEF ScenarioInv
<1>3. UNCHANGED <<check, elapsed, seen>> /\ pc' # "idle" /\ pc # "done"
  BY DEF Scenario!Start, Scenario!ReadScenario, Scenario!ReadGeneration, Scenario!Finish
<1>4. calm' \in BOOLEAN /\ (calm' => Scenario!Selected(document))
  BY <1>2 DEF Scenario!Start, Scenario!ReadScenario, Scenario!ReadGeneration,
              Scenario!Outcome, Scenario!Troubled, ScenarioTypes, OneApplication
<1>5. \/ pc' = "done" /\ failed' = TRUE /\ UNCHANGED <<deadline, generation>>
      \/ pc = "idle" /\ pc' = "scenario" /\ UNCHANGED <<deadline, generation, failed>>
      \/ /\ pc = "scenario" /\ pc' = "poll" /\ UNCHANGED <<failed, generation>>
         /\ deadline' = Scenario!Sooner(elapsed + Timeout, Deadline)
      \/ /\ pc = "generation" /\ pc' = "poll" /\ generation' = document /\ UNCHANGED failed
         /\ deadline' = Scenario!Sooner(elapsed + Timeout, Deadline)
  BY DEF Scenario!Start, Scenario!ReadScenario, Scenario!ReadGeneration, Scenario!Finish
<1>6. ScenarioTypes'
  BY <1>1, <1>2, <1>3, <1>4, <1>5, ScenarioNumbers DEF ScenarioTypes, Busy
<1>7. ScenarioStages'
  BY <1>2, <1>3, <1>5 DEF ScenarioStages
<1>8. OneApplication'
  BY <1>1, <1>2, <1>3, <1>4, <1>5 DEF OneApplication, Scenario!Selected, ScenarioStages
<1>9. Reported'
  BY <1>5, NotReportedNext
<1>10. QED
  BY <1>1, <1>6, <1>7, <1>8, <1>9 DEF ScenarioInv

LEMMA NextCheckInv ==
  ASSUME ScenarioAssumptions, ScenarioInv,
         UNCHANGED <<Scenario!world, since, generation, elapsed, calm>>,
         pc \in {"poll", "wait"}, Scenario!NextCheck, failed' \in BOOLEAN,
         seen' \subseteq 0 .. LastPhase, check = 1 => seen' = seen,
         Reported'
  PROVE  ScenarioInv'
<1>1. LabInv' /\ document' = document /\ document \in Applications
  BY SameLab DEF ScenarioInv, LabInv, LabTypes, Scenario!WorldOK
<1>2. ScenarioTypes /\ ScenarioStages /\ OneApplication
  BY DEF ScenarioInv
<1>3. /\ check \in 1 .. 2 /\ check' = check + 1 /\ seen = {}
      /\ deadline' = Scenario!Sooner(elapsed + Timeout, Deadline)
      /\ pc' = IF check = 2 THEN "done" ELSE IF Timeline THEN "generation" ELSE "poll"
  BY <1>2, ChecksAre DEF ScenarioStages, Scenario!NextCheck
<1>4. ScenarioTypes'
  BY <1>2, <1>3, ScenarioNumbers DEF ScenarioTypes, Busy
<1>5. ScenarioStages'
  BY <1>3 DEF ScenarioStages
<1>6. OneApplication'
  BY <1>1, <1>2, <1>3 DEF OneApplication, Scenario!Selected
<1>7. QED
  BY <1>1, <1>4, <1>5, <1>6 DEF ScenarioInv

LEMMA LabFacts ==
  ASSUME ScenarioInv
  PROVE  /\ applied \in Nat /\ elapsed \in Nat /\ live \subseteq Fleet
         /\ \A e \in Fleet : sample[e].age \in Nat
         /\ shown \in [Fleet -> Applications]
<1>1. Scenario!WorldOK
  BY DEF ScenarioInv, LabInv, LabTypes
<1>2. \A e \in Fleet : sample[e].age \in Nat
  BY <1>1, ScenarioTargets DEF Scenario!WorldOK, Scenario!Ages
<1>3. elapsed \in Nat
  BY DEF ScenarioInv, ScenarioTypes
<1>4. applied \in Nat /\ live \subseteq Fleet /\ shown \in [Fleet -> Applications]
  BY <1>1, ScenarioTargets DEF Scenario!WorldOK
<1>5. QED
  BY <1>2, <1>3, <1>4

\* What a good answer to the last check of a timeline says.
LEMMA PhasePassed ==
  ASSUME ScenarioAssumptions, ScenarioInv, pc = "poll", check = 2, Timeline,
         NEW phase \in 0 .. LastPhase, Scenario!Passes(Scenario!Checks[check], phase)
  PROVE  /\ calm => \A e \in Fleet : shown[e] = document
         /\ Fleet # {} => /\ Scenario!Selected(generation)
                          /\ Duration = 0 \/ since[generation] - FreshAge < Duration
<1>1. Scenario!Checks[check] = "phase"
  BY ChecksAre
<1>2. \A e \in Fleet : Scenario!FreshPhase(e, phase)
  BY <1>1, Zenon DEF Scenario!Passes
<1>3. \A e \in Fleet : sample[e].up /\ sample[e].shows.document = generation
  BY <1>2 DEF Scenario!FreshPhase, Scenario!Present, Scenario!OfGeneration
<1>4. Taken /\ OneApplication
  BY DEF ScenarioInv, LabInv
<1>5. ASSUME NEW e \in Fleet
      PROVE  /\ Scenario!Selected(generation)
             /\ Duration = 0 \/ since[generation] - FreshAge < Duration
  <2>1. /\ sample[e].age <= FreshAge /\ sample[e].shows.document = generation
        /\ Scenario!Selected(generation)
        /\ ~Scenario!Expired(since[generation] - sample[e].age)
    BY <1>2 DEF Scenario!FreshPhase, Scenario!OfGeneration, Scenario!Active, Scenario!SampledAge
  <2>2. /\ Duration \in Nat /\ FreshAge \in Nat /\ sample[e].age \in Nat
        /\ generation \in Scenario!Selections /\ since[generation] \in Nat
    BY <2>1, LabFacts DEF ScenarioAssumptions, Scenario!VerifierAssumption, Scenario!Selections,
         ScenarioInv, ScenarioTypes, LabInv, Ages
  <2>3. QED
    BY <2>1, <2>2 DEF Scenario!Expired
<1>6. QED
  BY <1>3, <1>4, <1>5 DEF Taken, OneApplication

LEMMA ScenarioPollInv ==
  ASSUME ScenarioAssumptions, ScenarioInv, UNCHANGED <<Scenario!world, since>>, Scenario!Poll
  PROVE  ScenarioInv'
<1>1. LabInv' /\ document' = document
  BY SameLab DEF ScenarioInv
<1>2. ScenarioTypes /\ ScenarioStages /\ OneApplication
  BY DEF ScenarioInv
<1>3. pc = "poll" /\ UNCHANGED <<generation, elapsed>> /\ check \in 1 .. 2 /\ seen = {}
  BY <1>2 DEF Scenario!Poll, ScenarioStages
<1>4. CASE Scenario!Again /\ UNCHANGED seen
  <2>1. pc' = "wait" /\ UNCHANGED <<check, deadline, failed>>
    BY <1>4 DEF Scenario!Again
  <2>2. calm' = calm \/ calm' = FALSE
    BY DEF Scenario!Poll, Scenario!Outcome, Scenario!Troubled
  <2>3. ScenarioTypes' /\ ScenarioStages'
    BY <1>2, <1>3, <1>4, <2>1, <2>2 DEF ScenarioTypes, ScenarioStages, Busy
  <2>4. OneApplication'
    BY <1>1, <1>2, <1>3, <2>1, <2>2 DEF OneApplication, Scenario!Selected
  <2>5. Reported'
    BY <2>1, NotReportedNext
  <2>6. QED
    BY <1>1, <2>3, <2>4, <2>5 DEF ScenarioInv
<1>5. ASSUME NEW phase \in 0 .. LastPhase,
             Scenario!Passes(Scenario!Checks[check], phase),
             seen' = IF Scenario!Checks[check] = "phase" THEN seen \cup {phase} ELSE seen,
             Scenario!NextCheck, UNCHANGED <<failed, calm>>
      PROVE  ScenarioInv'
  <2>1. seen' \subseteq 0 .. LastPhase /\ (check = 1 => seen' = seen)
    BY <1>2, <1>3, <1>5, ChecksAre DEF ScenarioTypes
  <2>2. Reported'
    <3>1. CASE check = 1 \/ ~Timeline
      <4>1. Timeline => pc' # "done"
        BY <1>5, <3>1, ChecksAre DEF Scenario!NextCheck
      <4>2. QED
        BY <4>1 DEF Reported, Scenario!TimelineIsApplied, Scenario!OnePhase,
                    Scenario!NoneExpired, Scenario!Passed
    <3>2. CASE check = 2 /\ Timeline
      <4>1. seen' = {phase}
        BY <1>3, <1>5, <3>2, ChecksAre
      <4>2. calm' => \A e \in Fleet : shown'[e] = document'
        BY <1>1, <1>3, <1>5, <3>2, PhasePassed DEF Scenario!world
      <4>3. Fleet # {} => /\ Scenario!Selected(generation')
                          /\ Duration = 0 \/ since'[generation'] - FreshAge < Duration
        BY <1>3, <1>5, <3>2, PhasePassed
      <4>4. (Scenario!OnePhase)' /\ (Scenario!TimelineIsApplied)'
        BY <4>1, <4>2 DEF Scenario!TimelineIsApplied, Scenario!OnePhase
      <4>5. QED
        BY <4>3, <4>4 DEF Reported, Scenario!NoneExpired, Scenario!Selected
    <3>3. QED
      BY <1>3, <3>1, <3>2
  <2>3. failed' \in BOOLEAN
    BY <1>2, <1>5 DEF ScenarioTypes
  <2>4. UNCHANGED <<Scenario!world, since, generation, elapsed, calm>>
    BY <1>3, <1>5
  <2>5. QED
    BY <1>3, <1>5, <2>1, <2>2, <2>3, <2>4, NextCheckInv
<1>6. PICK err \in BOOLEAN :
        /\ Scenario!Outcome(err)
        /\ \/ /\ ~err
              /\ \E phase \in 0 .. LastPhase :
                   /\ Scenario!Passes(Scenario!Checks[check], phase)
                   /\ seen' = IF Scenario!Checks[check] = "phase" THEN seen \cup {phase}
                              ELSE seen
              /\ Scenario!NextCheck /\ UNCHANGED failed
           \/ Scenario!Again /\ UNCHANGED seen
  BY DEF Scenario!Poll
<1>7. ~err => UNCHANGED calm
  BY <1>6 DEF Scenario!Outcome
<1>8. QED
  BY <1>4, <1>5, <1>6, <1>7

LEMMA ScenarioTimedOutInv ==
  ASSUME ScenarioAssumptions, ScenarioInv, UNCHANGED <<Scenario!world, since>>, Scenario!TimedOut
  PROVE  ScenarioInv'
<1>1. /\ UNCHANGED <<Scenario!world, since, generation, elapsed, calm>> /\ UNCHANGED seen
      /\ pc \in {"poll", "wait"} /\ Scenario!NextCheck /\ failed' = TRUE
  BY DEF Scenario!TimedOut
<1>2. Reported' /\ seen' \subseteq 0 .. LastPhase
  BY <1>1, NotReportedNext DEF ScenarioInv, ScenarioTypes
<1>3. QED
  BY <1>1, <1>2, NextCheckInv

\* What the lab does, and what disturbs it, while there is no report.
LEMMA ScenarioLabInv ==
  ASSUME ScenarioAssumptions, ScenarioInv, pc # "done", UNCHANGED Scenario!command,
         \/ Scenario!Disturbance /\ calm' = FALSE
         \/ Scenario!LabWork /\ UNCHANGED calm
  PROVE  ScenarioInv'
<1>1. LabInv' /\ (calm' => calm /\ UNCHANGED document)
  BY ApplyNewLab, DieLab, AdoptLab, ScrapeLab
     DEF Scenario!Disturbance, Scenario!LabWork, ScenarioInv
<1>2. ScenarioTypes /\ ScenarioStages /\ OneApplication
  BY DEF ScenarioInv
<1>3. UNCHANGED <<pc, check, generation, failed, elapsed, deadline, seen>>
      /\ calm' \in BOOLEAN
  BY <1>2 DEF Scenario!command, ScenarioTypes
<1>4. ScenarioTypes' /\ ScenarioStages'
  BY <1>1, <1>2, <1>3 DEF ScenarioTypes, ScenarioStages
<1>5. OneApplication'
  BY <1>1, <1>2, <1>3 DEF OneApplication, Scenario!Selected
<1>6. Reported'
  BY <1>3, NotReportedNext
<1>7. QED
  BY <1>1, <1>4, <1>5, <1>6 DEF ScenarioInv

LEMMA ScenarioTickInv ==
  ASSUME ScenarioAssumptions, ScenarioInv, Scenario!TimePasses PROVE ScenarioInv'
<1>1. LabInv' /\ UNCHANGED document
  BY TickLab DEF Scenario!TimePasses, ScenarioInv
<1>2. ScenarioTypes /\ ScenarioStages /\ OneApplication
  BY DEF ScenarioInv
<1>3. /\ pc # "done" /\ pc' = (IF pc = "wait" THEN "poll" ELSE pc)
      /\ elapsed' = (IF pc = "idle" THEN 0 ELSE elapsed + 1)
      /\ UNCHANGED <<check, generation, failed, deadline, seen>>
      /\ pc \in {"scenario", "generation", "poll"} => elapsed < Deadline
      /\ pc = "wait" => elapsed < deadline
  BY DEF Scenario!TimePasses, Scenario!Calling
<1>4. calm' = calm \/ calm' = FALSE
  BY DEF Scenario!TimePasses, Scenario!Troubled
<1>5. ScenarioTypes'
  <2>1. elapsed' \in 0 .. Deadline
    BY <1>2, <1>3, ScenarioNumbers DEF ScenarioTypes, Busy
  <2>2. QED
    BY <1>2, <1>3, <1>4, <2>1 DEF ScenarioTypes, Busy
<1>6. ScenarioStages'
  BY <1>2, <1>3, <1>4 DEF ScenarioStages
<1>7. OneApplication'
  BY <1>1, <1>2, <1>3, <1>4 DEF OneApplication, Scenario!Selected
<1>8. Reported'
  BY <1>3, NotReportedNext
<1>9. QED
  BY <1>1, <1>5, <1>6, <1>7, <1>8 DEF ScenarioInv

LEMMA ScenarioNextInv ==
  ASSUME ScenarioAssumptions, ScenarioInv, [Scenario!Next]_(Scenario!vars) PROVE ScenarioInv'
<1>1. CASE Scenario!Command
  BY <1>1, ScenarioReadInv, ScenarioPollInv, ScenarioTimedOutInv DEF Scenario!Command
<1>2. CASE pc # "done" /\ Scenario!Disturbance /\ calm' = FALSE
           /\ UNCHANGED <<Scenario!command, trouble>>
  BY <1>2, ScenarioLabInv
<1>3. CASE pc # "done" /\ Scenario!LabWork /\ UNCHANGED <<Scenario!command, trouble, calm>>
  BY <1>3, ScenarioLabInv
<1>4. CASE Scenario!TimePasses
  BY <1>4, ScenarioTickInv
<1>5. CASE UNCHANGED Scenario!vars
  <2>1. UNCHANGED <<Scenario!world, since, pc, check, generation, failed, elapsed, deadline, seen,
                    calm>>
    BY <1>5, Zenon DEF Scenario!vars, Scenario!command
  <2>2. LabInv' /\ UNCHANGED document
    BY <2>1, SameLab DEF ScenarioInv
  <2>3. ScenarioTypes' /\ ScenarioStages' /\ OneApplication'
    BY <2>1, <2>2 DEF ScenarioInv, ScenarioTypes, ScenarioStages, OneApplication,
                     Scenario!Selected
  <2>4. Reported'
    BY <2>1, <2>2 DEF ScenarioInv, Reported, Scenario!TimelineIsApplied, Scenario!OnePhase,
                      Scenario!NoneExpired, Scenario!Selected, Scenario!Passed, Scenario!world
  <2>5. QED
    BY <2>2, <2>3, <2>4 DEF ScenarioInv
<1>6. QED
  BY <1>1, <1>2, <1>3, <1>4, <1>5 DEF Scenario!Next

\* gpu verify of a timeline keeps its types, and reports the timeline only in one phase and
\* only on samples of before it expired; when nothing disturbs the command, also only for the
\* application that is in the ConfigMap, the one it started with; and all that whatever samples
\* of earlier applications Prometheus still serves, whatever the API server refuses and however
\* the ticks and polls interleave.
THEOREM TimelineIsOneHolds ==
  ASSUME ScenarioAssumptions PROVE Scenario!Spec => []Scenario!TimelineIsOne /\ []TimelineIsOne
<1>1. Scenario!Init => ScenarioInv
  BY ScenarioInitInv
<1>2. ScenarioInv /\ [Scenario!Next]_(Scenario!vars) => ScenarioInv'
  BY ScenarioNextInv
<1>3. ScenarioInv => Scenario!TimelineIsOne /\ TimelineIsOne
  <2> SUFFICES ASSUME ScenarioInv PROVE Scenario!TimelineIsOne
    BY DEF TimelineIsOne
  <2>1. Scenario!WorldOK
    BY DEF ScenarioInv, LabInv, LabTypes
  <2>2. Scenario!TypeOK
    BY <2>1, ChecksAre DEF ScenarioInv, ScenarioTypes, Busy, Scenario!TypeOK, LabInv, Ages
  <2>3. QED
    BY <2>2 DEF ScenarioInv, Reported, Scenario!TimelineIsOne
<1>4. QED
  BY <1>1, <1>2, <1>3, PTL DEF Scenario!Spec

-----------------------------------------------------------------------------
(* A timeline, or another scenario, that nothing disturbs *)

EnoughScenario == ScenarioAssumptions /\ Scenario!EnoughTime

\* Prometheus keeps up with the exporters that live.
Scraped == \A e \in live : sample[e].up /\ sample[e].age <= Lag

\* What exporters and samples show of the document, the longer the command runs.
TakenUp ==
  /\ live = Fleet /\ Scenario!Selected(document)
  /\ elapsed <= applied \/ LongApplied <= applied
  /\ elapsed > Lag => \A e \in Fleet : shown[e] = document
  /\ \A e \in Fleet : elapsed - sample[e].age > Lag => sample[e].shows.document = document

\* How long the current phase has lasted, and that samples may be of two phases.
Since(age) == age - PhaseLength * (age \div PhaseLength)
Mixed      == Since(applied) < Lag /\ applied < PhaseLength * LastPhase + Lag

\* The last check passes as soon as all samples show the document, and are of one phase.
Waiting ==
  /\ deadline = Timeout
  /\ check = 1 => elapsed = 0 /\ pc = "poll"
  /\ check = 2 /\ pc = "poll" =>
       /\ elapsed <= 2 * Lag + 1 + (IF Timeline THEN Since(applied) ELSE 0)
       /\ elapsed <= 3 * Lag + 1
  /\ check = 2 /\ pc = "wait" =>
       elapsed <= 2 * Lag \/ /\ Timeline /\ Mixed
                             /\ elapsed <= 2 * Lag + 1 + Since(applied)

InGoodTime ==
  /\ TakenUp /\ failed = FALSE
  /\ pc \in {"scenario", "generation"} => elapsed = 0
  /\ pc \in {"poll", "wait"} => Waiting

AppliedInv ==
  /\ Scraped
  /\ pc = "idle" => elapsed = 0 /\ failed = FALSE
  /\ calm /\ pc # "idle" /\ ~Scenario!Expired(applied) => InGoodTime

LEMMA Division ==
  ASSUME NEW d \in Nat \ {0}, NEW n \in Nat
  PROVE  /\ n \div d \in Nat /\ d * (n \div d) \in Nat
         /\ d * (n \div d) <= n /\ n < d * (n \div d) + d
OBVIOUS

LEMMA DivisionIs ==
  ASSUME NEW d \in Nat \ {0}, NEW n \in Nat, NEW q \in Nat, d * q <= n, n < d * q + d
  PROVE  n \div d = q
OBVIOUS

LEMMA EnoughFacts ==
  ASSUME EnoughScenario
  PROVE  /\ Lag \in Nat /\ OldSample \in Nat /\ LongApplied \in Nat /\ Lookback \in Nat
         /\ Timeout \in Nat /\ Deadline \in Nat /\ FreshAge \in Nat /\ LastPhase \in Nat
         /\ PhaseLength \in Nat \ {0} /\ Timeline \in BOOLEAN
         /\ Lag <= Lookback /\ Lookback < OldSample /\ Lag <= LongApplied /\ Lag <= FreshAge
         /\ 3 * Lag + 1 < Timeout /\ Timeout <= Deadline /\ Fleet # {}
         /\ LastPhase * PhaseLength + Lookback <= LongApplied
         /\ Duration \in Nat /\ Duration + Lookback <= LongApplied
         /\ Timeline => Lag < PhaseLength
BY DEF EnoughScenario, ScenarioAssumptions, Scenario!MonitoringAssumption,
       Scenario!VerifierAssumption, Scenario!EnoughTime

\* Samples that are no older than Lag are of one phase, unless one has just begun.
LEMMA OnePhaseUnlessMixed ==
  ASSUME EnoughScenario, Timeline, applied \in Nat, Lag <= applied, ~Mixed, NEW age \in 0 .. Lag
  PROVE  Scenario!PhaseOf(applied - age) = Scenario!PhaseOf(applied)
<1> DEFINE n == applied - age
           q == applied \div PhaseLength
<1>1. /\ Lag \in Nat /\ LastPhase \in Nat /\ PhaseLength \in Nat \ {0} /\ Lag < PhaseLength
      /\ n \in Nat /\ applied \in Nat /\ applied - Lag <= n /\ n <= applied
  BY EnoughFacts
<1>2. /\ q \in Nat /\ PhaseLength * q \in Nat
      /\ PhaseLength * q <= applied /\ applied < PhaseLength * q + PhaseLength
  BY <1>1, Division
<1> HIDE DEF n, q
<1>3. CASE ~(Since(applied) < Lag)
  <2>1. PhaseLength * q <= n /\ n < PhaseLength * q + PhaseLength
    BY <1>1, <1>2, <1>3 DEF Since, q
  <2>2. n \div PhaseLength = q
    BY <1>1, <1>2, <2>1, DivisionIs
  <2>3. QED
    BY <2>2 DEF Scenario!PhaseOf, n, q
<1>4. CASE ~(applied < PhaseLength * LastPhase + Lag)
  <2>1. ASSUME NEW m \in Nat, PhaseLength * LastPhase <= m PROVE Scenario!PhaseOf(m) = LastPhase
    <3>1. /\ m \div PhaseLength \in Nat
          /\ m < PhaseLength * (m \div PhaseLength) + PhaseLength
      BY <1>1, Division
    <3>2. LastPhase <= m \div PhaseLength
      BY <1>1, <2>1, <3>1
    <3>3. QED
      BY <1>1, <3>1, <3>2 DEF Scenario!PhaseOf
  <2>2. PhaseLength * LastPhase \in Nat
    BY <1>1
  <2>3. PhaseLength * LastPhase <= n /\ PhaseLength * LastPhase <= applied
    BY <1>1, <1>4, <2>2
  <2>4. QED
    BY <1>1, <2>1, <2>3 DEF n
<1>5. QED
  BY <1>3, <1>4 DEF Mixed

LEMMA PhaseIsPhase ==
  ASSUME EnoughScenario, NEW n \in Nat PROVE Scenario!PhaseOf(n) \in 0 .. LastPhase
<1>1. n \div PhaseLength \in Nat /\ LastPhase \in Nat
  BY EnoughFacts, Division
<1>2. QED
  BY <1>1 DEF Scenario!PhaseOf

\* Once there was time to adopt and to scrape, the samples show the document.
LEMMA ShowsDocument ==
  ASSUME EnoughScenario, ScenarioInv, Scraped, TakenUp, NEW e \in Fleet
  PROVE  /\ Scenario!Served(e) /\ sample[e].up /\ sample[e].age \in 0 .. Lag
         /\ Scenario!Present(e) /\ sample[e].age <= FreshAge
         /\ 2 * Lag < elapsed => sample[e].shows.document = document
<1>1. sample[e].up /\ sample[e].age <= Lag /\ sample[e].age \in Nat /\ elapsed \in Nat
  BY LabFacts DEF Scraped, TakenUp
<1>2. Lag \in Nat /\ Lag <= Lookback /\ Lag <= FreshAge /\ Lookback \in Nat /\ FreshAge \in Nat
  BY EnoughFacts
<1>3. 2 * Lag < elapsed => elapsed - sample[e].age > Lag
  BY <1>1, <1>2
<1>4. QED
  BY <1>1, <1>2, <1>3 DEF TakenUp, Scenario!Served, Scenario!Present

\* A sample is not of an application that is older than the one in the ConfigMap.
LEMMA SampledIsActive ==
  ASSUME EnoughScenario, ScenarioInv, TakenUp, ~Scenario!Expired(applied), NEW e \in Fleet,
         sample[e].shows.document = document
  PROVE  Scenario!Active(e) /\ Scenario!SampledAge(e) = applied - sample[e].age
<1>1. Scenario!Selected(document) /\ since[document] = applied
  BY DEF TakenUp, ScenarioInv, LabInv, Ages
<1>2. Duration \in Nat /\ applied \in Nat /\ sample[e].age \in Nat
  BY LabFacts, EnoughFacts
<1>3. ~Scenario!Expired(applied - sample[e].age)
  BY <1>2 DEF Scenario!Expired
<1>4. QED
  BY <1>1, <1>3 DEF Scenario!Active, Scenario!SampledAge

\* By then a check passes, unless a phase has just begun.
LEMMA LastCheckPasses ==
  ASSUME EnoughScenario, ScenarioInv, Scraped, TakenUp, ~Scenario!Expired(applied),
         check \in 1 .. 2,
         check = 2 => 2 * Lag < elapsed /\ ~(Timeline /\ Mixed)
                      /\ (Timeline => generation = document)
  PROVE  \E phase \in 0 .. LastPhase : Scenario!Passes(Scenario!Checks[check], phase)
<1>1. 0 \in 0 .. LastPhase /\ Lag \in Nat /\ LongApplied \in Nat /\ Lag <= LongApplied
  BY EnoughFacts
<1>2. CASE check = 1
  <2>1. Scenario!Passes("up", 0)
    BY ShowsDocument DEF Scenario!Passes
  <2>2. QED
    BY <1>1, <1>2, <2>1, ChecksAre
<1>3. CASE check = 2 /\ ~Timeline
  <2>1. PICK e \in Fleet : TRUE
    BY EnoughFacts
  <2>2. Scenario!Present(e) /\ Scenario!Active(e)
    BY <1>3, ShowsDocument, SampledIsActive
  <2>3. Scenario!Passes("readings", 0)
    BY <2>2 DEF Scenario!Passes
  <2>4. QED
    BY <1>1, <1>3, <2>3, ChecksAre
<1>4. CASE check = 2 /\ Timeline
  <2> DEFINE phase == Scenario!PhaseOf(applied)
  <2>1. applied \in Nat /\ Lag <= applied
    BY <1>1, <1>4, LabFacts DEF TakenUp
  <2>2. phase \in 0 .. LastPhase
    BY <2>1, PhaseIsPhase
  <2>3. ASSUME NEW e \in Fleet PROVE Scenario!FreshPhase(e, phase)
    <3>1. sample[e].age \in 0 .. Lag /\ Scenario!Present(e) /\ sample[e].age <= FreshAge
          /\ sample[e].shows.document = document
      BY <1>4, ShowsDocument
    <3>2. Scenario!Active(e) /\ Scenario!PhaseOf(Scenario!SampledAge(e)) = phase
      BY <1>4, <2>1, <3>1, OnePhaseUnlessMixed, SampledIsActive
    <3>3. QED
      BY <1>4, <3>1, <3>2 DEF Scenario!FreshPhase, Scenario!OfGeneration
  <2> HIDE DEF phase
  <2>4. Scenario!Passes("phase", phase)
    BY <2>3, Zenon DEF Scenario!Passes
  <2>5. QED
    BY <1>4, <2>2, <2>4, ChecksAre
<1>5. QED
  BY <1>2, <1>3, <1>4

LEMMA AppliedInitInv == ASSUME EnoughScenario, Scenario!Init PROVE AppliedInv
<1>1. /\ pc = "idle" /\ elapsed = 0 /\ failed = FALSE /\ live = Fleet
      /\ sample = [t \in Fleet |-> [age |-> 0, up |-> TRUE, shows |-> Scenario!Publishes(t)]]
  BY ScenarioTargets DEF Scenario!Init, Scenario!MonitoringInit
<1>2. Scraped
  BY <1>1, EnoughFacts DEF Scraped
<1>3. QED
  BY <1>1, <1>2 DEF AppliedInv

\* A sample that is taken is young, whatever else the lab does or disturbs it.
LEMMA AppliedLabInv ==
  ASSUME EnoughScenario, ScenarioInv, AppliedInv, pc # "done", UNCHANGED Scenario!command,
         \/ Scenario!Disturbance /\ calm' = FALSE
         \/ Scenario!LabWork /\ UNCHANGED calm
  PROVE  AppliedInv'
<1>1. UNCHANGED <<pc, check, failed, elapsed, deadline>>
  BY DEF Scenario!command
<1>2. Lag \in Nat /\ live \subseteq Fleet /\ DOMAIN sample = Fleet
      /\ shown \in [Fleet -> Applications]
      /\ elapsed \in Nat /\ \A e \in Fleet : sample[e].age \in Nat
  BY EnoughFacts, LabFacts DEF ScenarioInv, LabInv, LabTypes
<1>3. CASE Scenario!Disturbance /\ calm' = FALSE
  <2>1. live' \subseteq live /\ sample' = sample
    BY <1>3 DEF Scenario!Disturbance, Scenario!ApplyNew, Scenario!Apply, Scenario!Die
  <2>2. QED
    BY <1>1, <1>3, <2>1 DEF AppliedInv, Scraped
<1>4. ASSUME NEW e \in Fleet, Scenario!Adopt(e), UNCHANGED calm PROVE AppliedInv'
  <2>1. /\ UNCHANGED <<document, applied, live, sample>>
        /\ shown' = [shown EXCEPT ![e] = document]
    BY <1>4 DEF Scenario!Adopt
  <2>2. TakenUp => TakenUp'
    BY <1>1, <1>2, <2>1 DEF TakenUp, Scenario!Selected
  <2>3. Waiting => Waiting'
    BY <1>1, <2>1 DEF Waiting, Mixed
  <2>4. QED
    BY <1>1, <1>4, <2>1, <2>2, <2>3 DEF AppliedInv, InGoodTime, Scraped, Scenario!Expired
<1>5. ASSUME NEW e \in Fleet, Scenario!Scrape(e), UNCHANGED calm PROVE AppliedInv'
  <2>1. /\ UNCHANGED <<document, applied, live, shown>>
        /\ \A u \in Fleet : u # e => sample'[u] = sample[u]
        /\ e \in live => sample'[e] = [age |-> 0, up |-> TRUE, shows |-> [document |-> shown[e]]]
    BY <1>2, <1>5 DEF Scenario!Scrape, Scenario!Publishes
  <2>2. Scraped'
    BY <1>2, <2>1 DEF AppliedInv, Scraped
  <2>3. TakenUp => TakenUp'
    <3> SUFFICES ASSUME TakenUp PROVE TakenUp'
      OBVIOUS
    <3>1. sample'[e].age = 0 /\ sample'[e].shows.document = shown[e]
      BY <2>1 DEF TakenUp
    <3>2. ASSUME NEW u \in Fleet, elapsed' - sample'[u].age > Lag
          PROVE  sample'[u].shows.document = document'
      BY <1>1, <1>2, <2>1, <3>1, <3>2 DEF TakenUp
    <3>3. QED
      BY <1>1, <2>1, <3>2 DEF TakenUp, Scenario!Selected
  <2>4. Waiting => Waiting'
    BY <1>1, <2>1 DEF Waiting, Mixed
  <2>5. QED
    BY <1>1, <1>5, <2>1, <2>2, <2>3, <2>4 DEF AppliedInv, InGoodTime, Scenario!Expired
<1>6. QED
  BY <1>3, <1>4, <1>5 DEF Scenario!LabWork

LEMMA SinceIsNat ==
  ASSUME EnoughScenario, NEW n \in Nat PROVE Since(n) \in Nat
<1> DEFINE q == n \div PhaseLength
<1>1. PhaseLength * q \in Nat /\ PhaseLength * q <= n
  BY EnoughFacts, Division
<1> HIDE DEF q
<1>2. n - PhaseLength * q \in Nat
  BY <1>1
<1>3. QED
  BY <1>2 DEF Since, q

\* The clock waits for what is due, and the command waits no longer than it must.
LEMMA AppliedTickInv ==
  ASSUME EnoughScenario, ScenarioInv, AppliedInv, Scenario!TimePasses PROVE AppliedInv'
<1>1. /\ pc # "done" /\ pc' = (IF pc = "wait" THEN "poll" ELSE pc)
      /\ elapsed' = (IF pc = "idle" THEN 0 ELSE elapsed + 1)
      /\ UNCHANGED <<check, failed, deadline, document, live, shown>>
      /\ \A e \in live : sample[e].age < Lag
      /\ applied < Lag \/ \A e \in live \cap Fleet : shown[e] = document
      /\ applied' = Scenario!UpTo(applied, LongApplied)
      /\ sample' = [t \in Fleet |-> Scenario!OlderSample(sample[t])]
  BY ScenarioTargets DEF Scenario!TimePasses, Scenario!Tick
<1>2. /\ Lag \in Nat /\ LongApplied \in Nat /\ OldSample \in Nat /\ Lag <= LongApplied
      /\ Lag < OldSample /\ LastPhase * PhaseLength + Lag <= LongApplied
      /\ LastPhase \in Nat /\ PhaseLength \in Nat \ {0} /\ Timeline \in BOOLEAN
      /\ Duration \in Nat
  BY EnoughFacts
<1>3. /\ applied \in Nat /\ elapsed \in Nat /\ live \subseteq Fleet
      /\ \A e \in Fleet : sample[e].age \in Nat
  BY LabFacts
<1>4. ASSUME NEW e \in Fleet
      PROVE  /\ sample'[e].age = Scenario!Older(sample[e].age) /\ sample'[e].up = sample[e].up
             /\ sample'[e].shows = sample[e].shows
  <2>1. /\ DOMAIN sample[e] = {"age", "up", "shows"} /\ "step" \notin DOMAIN sample[e].shows
    BY DEF ScenarioInv, LabInv, LabTypes
  <2>2. Scenario!OlderShows(sample[e].shows) = sample[e].shows
    BY <2>1 DEF Scenario!OlderShows
  <2>3. sample'[e] = [sample[e] EXCEPT !.age = Scenario!Older(@), !.shows = Scenario!OlderShows(@)]
    BY <1>1 DEF Scenario!OlderSample
  <2>4. QED
    BY <2>1, <2>2, <2>3
<1>5. \A e \in live : sample'[e].age = sample[e].age + 1
  BY <1>1, <1>2, <1>3, <1>4 DEF Scenario!Older, Scenario!UpTo
<1>6. Scraped'
  BY <1>1, <1>2, <1>3, <1>4, <1>5 DEF AppliedInv, Scraped
<1>7. ASSUME calm', pc # "idle", ~Scenario!Expired(applied') PROVE InGoodTime'
  <2>1. calm /\ pc \notin {"scenario", "generation", "poll"}
    BY <1>7 DEF Scenario!TimePasses, Scenario!Calling, Scenario!Troubled
  <2>2. pc = "wait" /\ pc' = "poll" /\ elapsed' = elapsed + 1
    BY <1>1, <1>7, <2>1 DEF ScenarioInv, ScenarioTypes, Busy
  <2> ~Scenario!Expired(applied)
    BY <1>1, <1>2, <1>3, <1>7 DEF Scenario!Expired, Scenario!UpTo
  <2>3. TakenUp /\ Waiting /\ failed = FALSE /\ check \in 1 .. 2
    BY <1>7, <2>1, <2>2 DEF AppliedInv, InGoodTime, ScenarioInv, ScenarioStages
  <2>4. TakenUp'
    <3>1. elapsed' <= applied' \/ LongApplied <= applied'
      BY <1>1, <1>2, <1>3, <2>2, <2>3 DEF TakenUp, Scenario!UpTo
    <3>2. elapsed' > Lag => \A e \in Fleet : shown'[e] = document'
      BY <1>1, <1>2, <1>3, <2>2, <2>3 DEF TakenUp
    <3>3. \A e \in Fleet : elapsed' - sample'[e].age > Lag => sample'[e].shows.document = document'
      BY <1>1, <1>2, <1>3, <1>4, <1>5, <2>2, <2>3 DEF TakenUp
    <3>4. QED
      BY <1>1, <2>3, <3>1, <3>2, <3>3 DEF TakenUp, Scenario!Selected
  <2>5. Waiting'
    <3>1. check = 2 /\ deadline' = Timeout
      BY <1>1, <2>2, <2>3 DEF Waiting
    <3>2. CASE elapsed <= 2 * Lag
      <4>1. applied' \in Nat
        BY <1>1, <1>2, <1>3 DEF Scenario!UpTo
      <4>2. Since(applied') \in Nat
        BY <4>1, SinceIsNat
      <4>3. QED
        BY <1>1, <1>2, <1>3, <2>2, <3>1, <3>2, <4>2 DEF Waiting
    <3>3. CASE /\ Timeline /\ Since(applied) < Lag /\ applied < PhaseLength * LastPhase + Lag
               /\ elapsed <= 2 * Lag + 1 + Since(applied)
      <4> DEFINE q == applied \div PhaseLength
      <4>1. applied' = applied + 1
        BY <1>1, <1>2, <1>3, <3>3 DEF Scenario!UpTo
      <4>2. q \in Nat /\ PhaseLength * q \in Nat /\ PhaseLength * q <= applied
        BY <1>2, <1>3, Division
      <4>3. Lag < PhaseLength
        BY <3>3, EnoughFacts
      <4> HIDE DEF q
      <4>4. Since(applied) = applied - PhaseLength * q
        BY DEF Since, q
      <4>5. applied + 1 < PhaseLength * q + PhaseLength
        BY <1>2, <1>3, <3>3, <4>2, <4>3, <4>4
      <4>6. (applied + 1) \div PhaseLength = q
        BY <1>2, <1>3, <4>2, <4>5, DivisionIs
      <4>7. Since(applied') = Since(applied) + 1 /\ Since(applied) \in Nat
        BY <1>2, <1>3, <4>1, <4>2, <4>4, <4>6 DEF Since
      <4>8. /\ elapsed' <= 2 * Lag + 1 + Since(applied')
            /\ elapsed' <= 3 * Lag + 1
        BY <1>2, <1>3, <2>2, <3>3, <4>7
      <4>9. QED
        BY <1>1, <2>2, <3>1, <3>3, <4>8 DEF Waiting
    <3>4. QED
      BY <2>2, <2>3, <3>1, <3>2, <3>3 DEF Waiting, Mixed
  <2>6. QED
    BY <1>1, <2>2, <2>3, <2>4, <2>5 DEF InGoodTime
<1>8. pc' = "idle" => pc = "idle" /\ elapsed' = 0 /\ failed' = FALSE
  BY <1>1 DEF AppliedInv
<1>9. QED
  BY <1>1, <1>6, <1>7, <1>8 DEF AppliedInv, Scenario!Expired

LEMMA AppliedReadInv ==
  ASSUME EnoughScenario, ScenarioInv, AppliedInv, UNCHANGED Scenario!world,
         Scenario!Start \/ Scenario!ReadScenario \/ Scenario!ReadGeneration
  PROVE  AppliedInv'
<1>1. UNCHANGED <<document, applied, live, shown, sample>>
  BY DEF Scenario!world
<1>2. /\ Timeout \in Nat /\ Deadline \in Nat /\ Timeout <= Deadline /\ 0 < Deadline /\ Lag \in Nat
  BY EnoughFacts
<1>3. Scraped' /\ pc' # "idle" /\ UNCHANGED <<check, elapsed>>
  BY <1>1 DEF AppliedInv, Scraped, Scenario!Start, Scenario!ReadScenario,
              Scenario!ReadGeneration, Scenario!Finish
<1>4. CASE Scenario!Start
  <2>1. /\ pc = "idle" /\ pc' = "scenario" /\ UNCHANGED failed /\ elapsed = 0 /\ failed = FALSE
        /\ calm' => Scenario!Selected(document) /\ live = Fleet
    BY <1>4, ScenarioTargets DEF Scenario!Start, AppliedInv
  <2>2. calm' => TakenUp'
    BY <1>1, <1>2, <1>3, <2>1, LabFacts DEF TakenUp, Scenario!Selected
  <2>3. QED
    BY <1>3, <2>1, <2>2 DEF AppliedInv, InGoodTime
<1>5. CASE Scenario!ReadScenario \/ Scenario!ReadGeneration
  <2> SUFFICES ASSUME calm', ~Scenario!Expired(applied) PROVE InGoodTime'
    BY <1>1, <1>3 DEF AppliedInv, Scenario!Expired
  <2>1. PICK err \in BOOLEAN :
          /\ Scenario!Outcome(err)
          /\ ~err /\ Scenario!Selected(document) =>
               /\ pc' = "poll" /\ UNCHANGED failed
               /\ deadline' = Scenario!Sooner(elapsed + Timeout, Deadline)
    BY <1>5 DEF Scenario!ReadScenario, Scenario!ReadGeneration
  <2>2. pc \in {"scenario", "generation"}
    BY <1>5 DEF Scenario!ReadScenario, Scenario!ReadGeneration
  <2>3. ~(err /\ elapsed < Deadline) /\ calm
    BY <2>1 DEF Scenario!Outcome, Scenario!Troubled
  <2>4. InGoodTime /\ elapsed = 0
    BY <2>2, <2>3 DEF AppliedInv, InGoodTime
  <2>5. pc' = "poll" /\ failed' = FALSE /\ deadline' = Timeout
    BY <1>2, <2>1, <2>3, <2>4 DEF InGoodTime, TakenUp, Scenario!Sooner
  <2>6. TakenUp'
    BY <1>1, <1>3, <2>4 DEF InGoodTime, TakenUp, Scenario!Selected
  <2>7. Since(applied') \in Nat
    BY <1>1, LabFacts, SinceIsNat
  <2>8. Waiting'
    BY <1>2, <1>3, <2>4, <2>5, <2>7, EnoughFacts DEF Waiting
  <2>9. QED
    BY <2>5, <2>6, <2>8 DEF InGoodTime
<1>6. QED
  BY <1>4, <1>5

LEMMA AppliedPollInv ==
  ASSUME EnoughScenario, ScenarioInv, AppliedInv, UNCHANGED Scenario!world, Scenario!Poll
  PROVE  AppliedInv'
<1>1. UNCHANGED <<document, applied, live, shown, sample>>
  BY DEF Scenario!world
<1>2. pc = "poll" /\ pc' # "idle" /\ UNCHANGED elapsed
  BY DEF Scenario!Poll, Scenario!Again, Scenario!NextCheck
<1>3. Scraped'
  BY <1>1 DEF AppliedInv, Scraped
<1> SUFFICES ASSUME calm', ~Scenario!Expired(applied) PROVE InGoodTime'
  BY <1>1, <1>2, <1>3 DEF AppliedInv, Scenario!Expired
<1>4. PICK err \in BOOLEAN :
        /\ Scenario!Outcome(err)
        /\ \/ /\ \E phase \in 0 .. LastPhase : Scenario!Passes(Scenario!Checks[check], phase)
              /\ Scenario!NextCheck /\ UNCHANGED failed
           \/ /\ err \/ \A phase \in 0 .. LastPhase :
                          ~Scenario!Passes(Scenario!Checks[check], phase)
              /\ Scenario!Again
  BY DEF Scenario!Poll
<1>5. /\ Timeout \in Nat /\ Deadline \in Nat /\ Timeout <= Deadline /\ Lag \in Nat
      /\ 3 * Lag + 1 < Timeout /\ Timeline \in BOOLEAN
  BY EnoughFacts
<1>6. ~(err /\ elapsed < Deadline) /\ calm
  BY <1>4 DEF Scenario!Outcome, Scenario!Troubled
<1>7. InGoodTime /\ TakenUp /\ Waiting /\ failed = FALSE /\ check \in 1 .. 2
  BY <1>2, <1>6 DEF AppliedInv, InGoodTime, ScenarioInv, ScenarioStages
<1>8. elapsed \in Nat /\ Since(applied) \in Nat
  BY LabFacts, EnoughFacts, SinceIsNat
<1>9. elapsed <= 3 * Lag + 1 /\ ~err
  BY <1>2, <1>5, <1>6, <1>7, <1>8 DEF Waiting
<1>10. TakenUp'
  BY <1>1, <1>2, <1>7 DEF TakenUp, Scenario!Selected
<1>11. CASE Scenario!NextCheck /\ UNCHANGED failed
  <2>1. /\ check' = check + 1 /\ deadline' = Scenario!Sooner(elapsed + Timeout, Deadline)
        /\ pc' = IF check = 2 THEN "done" ELSE IF Timeline THEN "generation" ELSE "poll"
    BY <1>7, <1>11, ChecksAre DEF Scenario!NextCheck
  <2>2. pc' # "done" => elapsed = 0 /\ check' = 2 /\ deadline' = Timeout
    BY <1>2, <1>5, <1>7, <2>1 DEF Waiting, Scenario!Sooner
  <2>3. pc' # "done" => Waiting'
    BY <1>1, <1>2, <1>5, <1>8, <2>1, <2>2 DEF Waiting
  <2>4. QED
    BY <1>2, <1>7, <1>10, <1>11, <2>1, <2>2, <2>3 DEF InGoodTime
<1>12. CASE Scenario!Again
  <2>1. pc' = "wait" /\ UNCHANGED <<check, deadline, failed>>
    BY <1>12 DEF Scenario!Again
  <2>2. \A phase \in 0 .. LastPhase : ~Scenario!Passes(Scenario!Checks[check], phase)
    BY <1>4, <1>9, <1>12, ChecksAre DEF Scenario!Again, Scenario!NextCheck
  <2>3. check = 2
    BY <1>7, <2>2, LastCheckPasses DEF AppliedInv
  <2>4. Timeline => generation = document
    BY <1>2, <1>6, <2>3 DEF ScenarioInv, OneApplication
  <2>5. elapsed <= 2 * Lag \/ (Timeline /\ Mixed)
    BY <1>5, <1>7, <1>8, <2>2, <2>3, <2>4, LastCheckPasses DEF AppliedInv
  <2>6. Waiting'
    BY <1>1, <1>2, <1>5, <1>7, <1>8, <2>1, <2>3, <2>5 DEF Waiting, Mixed
  <2>7. QED
    BY <1>7, <1>10, <2>1, <2>6 DEF InGoodTime
<1>13. QED
  BY <1>4, <1>11, <1>12

\* The deadline of a check that passes is not reached.
LEMMA AppliedNotTimedOut ==
  ASSUME EnoughScenario, ScenarioInv, AppliedInv, Scenario!TimedOut, ~Scenario!Expired(applied)
  PROVE  ~calm'
<1>1. pc \in {"wait", "poll"} /\ elapsed >= deadline /\ UNCHANGED calm
  BY DEF Scenario!TimedOut
<1> SUFFICES ASSUME calm PROVE FALSE
  BY <1>1
<1>2. Waiting /\ check \in 1 .. 2
  BY <1>1 DEF AppliedInv, InGoodTime, ScenarioInv, ScenarioStages
<1>3. elapsed \in Nat /\ Lag \in Nat /\ Timeout \in Nat /\ 3 * Lag + 1 < Timeout
      /\ Since(applied) \in Nat
  BY LabFacts, EnoughFacts, SinceIsNat
<1>4. elapsed <= 3 * Lag + 1
  BY <1>1, <1>2, <1>3 DEF Waiting, Mixed
<1>5. QED
  BY <1>1, <1>2, <1>3, <1>4 DEF Waiting

LEMMA AppliedNextInv ==
  ASSUME EnoughScenario, ScenarioInv, AppliedInv, [Scenario!Next]_(Scenario!vars)
  PROVE  AppliedInv'
<1>1. CASE Scenario!TimedOut /\ UNCHANGED Scenario!world
  <2>1. UNCHANGED <<live, sample, applied>> /\ pc' # "idle"
    BY <1>1 DEF Scenario!world, Scenario!TimedOut, Scenario!NextCheck
  <2>2. calm' => Scenario!Expired(applied)
    BY <1>1, AppliedNotTimedOut
  <2>3. QED
    BY <2>1, <2>2 DEF AppliedInv, Scraped, Scenario!Expired
<1>2. CASE Scenario!Command /\ ~Scenario!TimedOut
  BY <1>2, AppliedReadInv, AppliedPollInv DEF Scenario!Command
<1>3. CASE pc # "done" /\ Scenario!Disturbance /\ calm' = FALSE
           /\ UNCHANGED <<Scenario!command, trouble>>
  BY <1>3, AppliedLabInv
<1>4. CASE pc # "done" /\ Scenario!LabWork /\ UNCHANGED <<Scenario!command, trouble, calm>>
  BY <1>4, AppliedLabInv
<1>5. CASE Scenario!TimePasses
  BY <1>5, AppliedTickInv
<1>6. CASE UNCHANGED Scenario!vars
  <2>1. UNCHANGED <<document, applied, live, shown, sample, pc, check, failed, elapsed, deadline,
                    calm>>
    BY <1>6, Zenon DEF Scenario!vars, Scenario!command, Scenario!world
  <2>2. QED
    BY <2>1 DEF AppliedInv, InGoodTime, Waiting, Mixed, TakenUp, Scraped, Scenario!Selected,
                   Scenario!Expired
<1>7. QED
  BY <1>1, <1>2, <1>3, <1>4, <1>5, <1>6 DEF Scenario!Next, Scenario!Command

LEMMA AppliedPassesHolds ==
  ASSUME EnoughScenario PROVE Scenario!Spec => []Scenario!AppliedPasses
<1>1. Scenario!Init => ScenarioInv /\ AppliedInv
  BY ScenarioInitInv, AppliedInitInv DEF EnoughScenario
<1>2. ScenarioInv /\ AppliedInv /\ [Scenario!Next]_(Scenario!vars) => ScenarioInv' /\ AppliedInv'
  BY ScenarioNextInv, AppliedNextInv DEF EnoughScenario
<1>3. AppliedInv /\ ScenarioInv => Scenario!AppliedPasses
  BY LabFacts, EnoughFacts DEF AppliedInv, InGoodTime, Scenario!AppliedPasses, Scenario!Expired
<1>4. QED
  BY <1>1, <1>2, <1>3, PTL DEF Scenario!Spec

\* A lab in order is reported to be: after gpu scenario reset, for any exporters, ranks and
\* documents that they may still have to take up (gpu verify --recovery), and one that runs
\* the selected scenario until the report (gpu verify), when there is time to adopt and scrape
\* it and nothing disturbs the command.
THEOREM GoodLabsPassHolds ==
  ASSUME EnoughRecovery, EnoughScenario
  PROVE  (Healthy!Spec /\ [](subject = "healthy")) \/ (Scenario!Spec /\ [](subject = "timeline"))
           => []GoodLabsPass
<1>1. Healthy!HealthyPasses /\ subject = "healthy" => GoodLabsPass
  BY DEF GoodLabsPass
<1>2. Scenario!AppliedPasses /\ subject = "timeline" => GoodLabsPass
  BY DEF GoodLabsPass
<1>3. Healthy!Spec /\ [](subject = "healthy") => []GoodLabsPass
  BY <1>1, HealthyPassesHolds, PTL
<1>4. Scenario!Spec /\ [](subject = "timeline") => []GoodLabsPass
  BY <1>2, AppliedPassesHolds, PTL
<1>5. QED
  BY <1>3, <1>4, PTL

-----------------------------------------------------------------------------
(* PodEvents *)

\* What the command knows of the event it has found, while it asks for the Pod a
\* second time; the Pod may be gone by now.
Evidence == found \in events /\ found.pod = identity /\ Event!RelevantTime(found) >= identity

EventInv == Event!TypeOK /\ (place = "recheck" => Evidence) /\ Event!EventOfCurrentPod

USE DEF Event!Pods, Event!Times, Event!None

-----------------------------------------------------------------------------
\* Nobody knows anything at first.
LEMMA EventInitInv == ASSUME Event!BoundsAssumption, Event!Init PROVE EventInv
<1>1. 0 \in Event!Times /\ 0 \in 0 .. MaxErrors
  BY DEF Event!BoundsAssumption
<1>2. Event!TypeOK
  BY <1>1 DEF Event!Init, Event!TypeOK
<1>3. QED
  BY <1>2 DEF Event!Init, EventInv, Event!EventOfCurrentPod

\* A step of the cluster is not taken once the check has ended, and only adds events.
LEMMA EventClusterStep ==
  ASSUME Event!BoundsAssumption, EventInv,
         Event!CreatePod \/ Event!DeletePod \/ Event!Schedule \/ Event!Record
  PROVE  EventInv'
<1>1. Event!Running /\ UNCHANGED <<place, identity, found, errors>>
  BY DEF Event!CreatePod, Event!DeletePod, Event!Schedule, Event!Record
<1>2. current' \in Event!Pods \cup {Event!None} /\ made' \in Event!Times /\ pending' \in BOOLEAN
  <2>1. CASE Event!CreatePod
    <3>1. made + 1 \in 1 .. MaxPods
      BY <2>1 DEF Event!BoundsAssumption, Event!CreatePod, EventInv, Event!TypeOK
    <3>2. QED
      BY <2>1, <3>1 DEF Event!CreatePod
  <2>2. CASE Event!DeletePod \/ Event!Schedule \/ Event!Record
    BY <2>2 DEF Event!DeletePod, Event!Schedule, Event!Record, EventInv, Event!TypeOK
  <2>3. QED
    BY <2>1, <2>2
<1>3. events \subseteq events' /\ events' \subseteq Event!Events
  <2>1. CASE Event!Record
    BY <2>1 DEF Event!Record, EventInv, Event!TypeOK
  <2>2. CASE Event!CreatePod \/ Event!DeletePod \/ Event!Schedule
    BY <2>2 DEF Event!CreatePod, Event!DeletePod, Event!Schedule, EventInv, Event!TypeOK
  <2>3. QED
    BY <2>1, <2>2
<1>4. Event!TypeOK'
  BY <1>1, <1>2, <1>3 DEF EventInv, Event!TypeOK
<1>5. (place = "recheck" => Evidence)'
  BY <1>1, <1>3 DEF EventInv, Evidence, Event!RelevantTime
<1>6. Event!EventOfCurrentPod'
  BY <1>1 DEF Event!Running, Event!EventOfCurrentPod
<1>7. QED
  BY <1>4, <1>5, <1>6 DEF EventInv

\* The poll starts again, and nothing that it has read is kept.
LEMMA EventAgainStep ==
  ASSUME EventInv, UNCHANGED Event!world, errors' \in 0 .. MaxErrors,
         NEW next \in {"phase", "identity"}, Event!Again(next)
  PROVE  EventInv'
BY DEF EventInv, Event!TypeOK, Evidence, Event!EventOfCurrentPod, Event!Again, Event!world

\* Until the events are read there is no event to speak of.
LEMMA EventReadStep ==
  ASSUME EventInv, Event!TimesOut \/ Event!ReadPhase \/ Event!ReadIdentity
  PROVE  EventInv'
BY DEF EventInv, Event!TypeOK, Evidence, Event!EventOfCurrentPod, Event!TimesOut,
       Event!ReadPhase, Event!ReadIdentity, Event!world

\* An event that is found is one of the Pod that was read, and is remembered with it.
LEMMA EventListStep ==
  ASSUME EventInv, Event!ReadEvents
  PROVE  EventInv'
<1>1. UNCHANGED Event!world /\ errors' \in 0 .. MaxErrors
  BY DEF Event!ReadEvents, EventInv, Event!TypeOK
<1>2. CASE Event!Again("identity")
  BY <1>1, <1>2, EventAgainStep
<1>3. CASE ~Event!Again("identity")
  <2>1. /\ \E e \in Event!Listed : Event!Accepted(e) /\ found' = e
        /\ place' = "recheck" /\ identity' = identity
    BY <1>3 DEF Event!ReadEvents, Event!AcceptAfterRecheck
  <2>2. PICK e \in Event!Listed : Event!Accepted(e) /\ found' = e
    BY <2>1
  <2>3. e \in events /\ e.pod = identity /\ Event!RelevantTime(e) >= identity
    BY <2>2 DEF Event!Listed, Event!OfIdentity, Event!Accepted
  <2>4. Evidence'
    BY <1>1, <2>1, <2>2, <2>3 DEF Evidence, Event!RelevantTime, Event!world
  <2>5. Event!TypeOK'
    BY <1>1, <2>1, <2>2, <2>3 DEF EventInv, Event!TypeOK, Event!world
  <2>6. QED
    BY <2>1, <2>4, <2>5 DEF EventInv, Event!EventOfCurrentPod
<1>4. QED
  BY <1>2, <1>3

\* The check passes when the Pod that has the name is the one the event is of.
LEMMA EventRecheckStep ==
  ASSUME EventInv, Event!Recheck
  PROVE  EventInv'
<1>1. UNCHANGED Event!world /\ errors' \in 0 .. MaxErrors
  BY DEF Event!Recheck, EventInv, Event!TypeOK
<1>2. CASE current # identity
  <2>1. Event!Again("identity")
    BY <1>2 DEF Event!Recheck
  <2>2. QED
    BY <1>1, <2>1, EventAgainStep
<1>3. CASE current = identity
  <2>1. place = "recheck" /\ place' = "passed" /\ UNCHANGED <<identity, found>>
    BY <1>3 DEF Event!Recheck
  <2>2. Event!TypeOK'
    BY <1>1, <2>1 DEF EventInv, Event!TypeOK, Event!world
  <2>3. Event!EventOfCurrentPod'
    BY <1>1, <1>3, <2>1 DEF EventInv, Evidence, Event!EventOfCurrentPod,
                     Event!RelevantTime, Event!world
  <2>4. QED
    BY <2>1, <2>2, <2>3 DEF EventInv
<1>4. QED
  BY <1>2, <1>3

\* Every step keeps the invariant.
LEMMA EventNextInv ==
  ASSUME Event!BoundsAssumption, EventInv, [Event!Next]_(Event!vars) PROVE EventInv'
<1>1. CASE Event!CreatePod \/ Event!DeletePod \/ Event!Schedule \/ Event!Record
  BY <1>1, EventClusterStep
<1>2. CASE Event!CallFails
  <2>1. errors' \in 0 .. MaxErrors
    BY <1>2 DEF Event!BoundsAssumption, Event!CallFails, EventInv, Event!TypeOK
  <2>2. PICK next \in {"phase", "identity"} : Event!Again(next)
    BY <1>2 DEF Event!CallFails
  <2>3. QED
    BY <1>2, <2>1, <2>2, EventAgainStep DEF Event!CallFails
<1>3. CASE Event!TimesOut \/ Event!ReadPhase \/ Event!ReadIdentity
  BY <1>3, EventReadStep
<1>4. CASE Event!ReadEvents
  BY <1>4, EventListStep
<1>5. CASE Event!Recheck
  BY <1>5, EventRecheckStep
<1>6. CASE UNCHANGED Event!vars
  BY <1>6 DEF EventInv, Event!TypeOK, Evidence, Event!EventOfCurrentPod,
              Event!RelevantTime, Event!vars, Event!world
<1>7. QED
  BY <1>1, <1>2, <1>3, <1>4, <1>5, <1>6 DEF Event!Next

LEMMA EventInvariant == ASSUME Event!BoundsAssumption PROVE Event!Spec => []EventInv
<1>1. Event!Init => EventInv
  BY EventInitInv
<1>2. EventInv /\ [Event!Next]_(Event!vars) => EventInv'
  BY EventNextInv
<1>3. QED
  BY <1>1, <1>2, PTL DEF Event!Spec

\* Whatever becomes of the Pods, the variables have their types, and a poll starts
\* without the answers of the one before it (Verifier.poll of verification.go).
THEOREM EventTypeCorrect ==
  ASSUME Event!BoundsAssumption PROVE Event!Spec => []Event!TypeOK
<1>1. EventInv => Event!TypeOK
  BY DEF EventInv
<1>2. QED
  BY EventInvariant, <1>1, PTL

\* podEventCheck takes no event of an earlier Pod of the name for one of the Pod that
\* has it, although the Pod may have been replaced before each of its calls.
THEOREM EventIsOfCurrentPod ==
  ASSUME Event!BoundsAssumption PROVE Event!Spec => []EventOfCurrentPod
<1>1. EventInv => EventOfCurrentPod
  BY DEF EventInv, EventOfCurrentPod
<1>2. QED
  BY EventInvariant, <1>1, PTL
=============================================================================
