-------------------------- MODULE CollectiveProofs --------------------------
(***************************************************************************)
(* Proofs about Collective for every world size, cache window, limit on    *)
(* pending rounds and number of faults.                                    *)
(***************************************************************************)
EXTENDS CollectiveInv, TLAPS

\* The session id a request that arrives finds or draws, and the facts about
\* constants used throughout.
LEMMA ConstantFacts ==
  /\ Coordinator \in Ranks
  /\ Rounds \subseteq Nat \ {0}
  /\ \A n \in Rounds : n \in 1 .. MaxStep + 1
BY WorldAssumption, BoundsAssumption DEF Ranks, Coordinator, Rounds

LEMMA RoundAfter ==
  ASSUME NEW n \in Nat, n <= MaxStep
  PROVE  n + 1 \in Rounds
BY BoundsAssumption DEF Rounds

LEMMA RequestType ==
  ASSUME TypeOK, NEW r \in Ranks
  PROVE  RequestOf(r) \in [kind : {"join", "reduce"}, rank : Ranks, tag : Nat, step : Nat]
BY DEF TypeOK, RequestOf

LEMMA RequestIsRequest ==
  ASSUME TypeOK, NEW r \in Ranks
  PROVE  RequestOf(r) \in Request
BY RequestType DEF Request

LEMMA ReplyTypes ==
  /\ Changed \in Reply
  /\ \A s, n \in Nat : Joined(s, n) \in Reply /\ Average(n) \in Reply
BY DEF Reply, Changed, Joined, Average

-----------------------------------------------------------------------------
(* Type correctness. *)

LEMMA TypeInit == Init => TypeOK
BY WorldAssumption DEF Init, TypeOK, Reply, Request

LEMMA ExitType ==
  ASSUME TypeOK, NEW r \in Ranks, Exit(r)
  PROVE  /\ pc' \in [Ranks -> {"off", "joining", "training"}]
         /\ inc' \in [Ranks -> Nat] /\ token' \in [Ranks -> Nat]
         /\ step' \in [Ranks -> Nat]
         /\ call' \in [Ranks -> {"none", "sent", "parked"}]
         /\ offer' \in [Ranks -> SUBSET Reply]
         /\ sid' \in Nat /\ issued' \in Nat /\ resume' \in Nat
         /\ members' \subseteq Ranks
         /\ minc' \in [Ranks -> Nat] /\ mstep' \in [Ranks -> Nat]
         /\ values' \in [Rounds -> SUBSET Ranks]
         /\ completed' \subseteq Nat
         /\ late' \subseteq Request
<1>1. CASE r = Coordinator
  BY <1>1 DEF TypeOK, Exit, roundVars
<1>2. CASE r # Coordinator
  BY <1>2 DEF TypeOK, Exit, roundVars
<1>3. QED BY <1>1, <1>2

LEMMA JoinType ==
  ASSUME TypeOK, NEW q \in Ranks, NEW i \in Nat, NEW n \in Nat,
         NEW waits \in BOOLEAN, Join(q, i, n, waits)
  PROVE  /\ call' \in [Ranks -> {"none", "sent", "parked"}]
         /\ offer' \in [Ranks -> SUBSET Reply]
         /\ sid' \in Nat /\ issued' \in Nat /\ resume' \in Nat
         /\ members' \subseteq Ranks
         /\ minc' \in [Ranks -> Nat] /\ mstep' \in [Ranks -> Nat]
         /\ values' \in [Rounds -> SUBSET Ranks]
         /\ completed' \subseteq Nat
<1>1. members' \subseteq Ranks
  BY DEF TypeOK, Join, Roster
<1>2. minc' \in [Ranks -> Nat] /\ mstep' \in [Ranks -> Nat]
  BY DEF TypeOK, Join, Record
<1>3. sid' \in Nat /\ issued' \in Nat /\ resume' \in Nat
  <2>1. sid' \in Nat /\ issued' \in Nat
    BY DEF TypeOK, Join
  <2>2. resume' \in Nat
    BY <1>2 DEF TypeOK, Join
  <2>3. QED BY <2>1, <2>2
<1>4. values' \in [Rounds -> SUBSET Ranks] /\ completed' \subseteq Nat
  BY DEF TypeOK, Join, roundVars
<1>5. call' \in [Ranks -> {"none", "sent", "parked"}]
  BY DEF TypeOK, Join
<1>6. offer' \in [Ranks -> SUBSET Reply]
  <2>1. Changed \in Reply /\ Joined(sid', resume') \in Reply
    BY <1>3, ReplyTypes
  <2>2. QED
    BY <2>1 DEF TypeOK, Join
<1>7. QED
  BY <1>1, <1>2, <1>3, <1>4, <1>5, <1>6

LEMMA ReduceType ==
  ASSUME TypeOK, NEW q \in Ranks, NEW n \in Nat, NEW s \in Nat,
         NEW waits \in BOOLEAN, Reduce(q, n, s, waits)
  PROVE  /\ call' \in [Ranks -> {"none", "sent", "parked"}]
         /\ offer' \in [Ranks -> SUBSET Reply]
         /\ values' \in [Rounds -> SUBSET Ranks]
         /\ completed' \subseteq Nat
<1>1. CASE WrongSession(q, n, s, waits)
  BY <1>1, ReplyTypes DEF TypeOK, WrongSession, Answer, roundVars
<1>2. CASE Cached(q, n, s, waits)
  BY <1>2, ReplyTypes DEF TypeOK, Cached, Answer, roundVars
<1>3. CASE TooManyRounds(q, n, s, waits)
  BY <1>3 DEF TypeOK, TooManyRounds, roundVars
<1>4. CASE Contribute(q, n, s, waits)
  BY <1>4 DEF TypeOK, Contribute
<1>5. CASE Complete(q, n, s, waits)
  BY <1>5, ReplyTypes DEF TypeOK, Complete
<1>6. QED
  BY <1>1, <1>2, <1>3, <1>4, <1>5 DEF Reduce

LEMMA HandleType ==
  ASSUME TypeOK, NEW m \in Request, NEW waits \in BOOLEAN, Handle(m, waits)
  PROVE  /\ call' \in [Ranks -> {"none", "sent", "parked"}]
         /\ offer' \in [Ranks -> SUBSET Reply]
         /\ sid' \in Nat /\ issued' \in Nat /\ resume' \in Nat
         /\ members' \subseteq Ranks
         /\ minc' \in [Ranks -> Nat] /\ mstep' \in [Ranks -> Nat]
         /\ values' \in [Rounds -> SUBSET Ranks]
         /\ completed' \subseteq Nat
<1>1. m.rank \in Ranks /\ m.tag \in Nat /\ m.step \in Nat
  BY DEF Request
<1>2. CASE Join(m.rank, m.tag, m.step, waits)
  BY <1>1, <1>2, JoinType
<1>3. CASE Reduce(m.rank, m.step, m.tag, waits) /\ UNCHANGED sessionVars
  BY <1>1, <1>3, ReduceType DEF TypeOK, sessionVars
<1>4. QED
  BY <1>2, <1>3 DEF Handle

LEMMA TypeNext == TypeOK /\ [Next]_vars => TypeOK'
<1> SUFFICES ASSUME TypeOK, [Next]_vars PROVE TypeOK'
  OBVIOUS
<1> USE DEF workerVars, callVars, sessionVars, roundVars, netVars
<1>1. ASSUME NEW r \in Ranks, Start(r) PROVE TypeOK'
  BY <1>1 DEF TypeOK, Start, LoadCheckpoint
<1>2. ASSUME NEW r \in Ranks, Crash(r) PROVE TypeOK'
  BY <1>2, ExitType DEF TypeOK, Crash
<1>3. ASSUME NEW r \in Ranks, DeletePod(r) PROVE TypeOK'
  BY <1>3, ExitType DEF TypeOK, DeletePod
<1>4. ASSUME NEW r \in Ranks, Send(r) PROVE TypeOK'
  BY <1>4 DEF TypeOK, Send
<1>5. ASSUME NEW r \in Ranks, AttemptFails(r) PROVE TypeOK'
  BY <1>5 DEF TypeOK, AttemptFails
<1>6. ASSUME NEW r \in Ranks, AttemptOutlivesClient(r) PROVE TypeOK'
  BY <1>6, RequestIsRequest DEF TypeOK, AttemptOutlivesClient
<1>7. ASSUME NEW r \in Ranks, Deliver(r) PROVE TypeOK'
  BY <1>7, RequestIsRequest, HandleType DEF TypeOK, Deliver
<1>8. ASSUME NEW r \in Ranks, Receive(r) PROVE TypeOK'
  <2>1. CASE OnChanged(r)
    BY <2>1 DEF TypeOK, OnChanged, HangUp
  <2>2. CASE OnJoined(r)
    BY <2>2 DEF TypeOK, OnJoined, HangUp, SaveCheckpoint, Reply
  <2>3. CASE OnInvalidJoin(r)
    BY <2>3, ExitType DEF TypeOK, OnInvalidJoin
  <2>4. CASE OnAverage(r)
    BY <2>4 DEF TypeOK, OnAverage, HangUp, SaveCheckpoint
  <2>5. QED BY <1>8, <2>1, <2>2, <2>3, <2>4 DEF Receive
<1>9. ASSUME NEW r \in Ranks, OnAverageThenInjectedCrash(r) PROVE TypeOK'
  BY <1>9, ExitType DEF TypeOK, OnAverageThenInjectedCrash, SaveCheckpoint
<1>10. CASE DeliverLate
  <2>1. PICK m \in late : Handle(m, FALSE) /\ late' = late \ {m}
    BY <1>10 DEF DeliverLate
  <2>2. m \in Request
    BY DEF TypeOK
  <2>3. QED
    BY <1>10, <2>1, <2>2, HandleType DEF TypeOK, DeliverLate
<1>11. CASE UNCHANGED vars
  BY <1>11 DEF TypeOK, vars
<1>12. QED
  BY <1>1, <1>2, <1>3, <1>4, <1>5, <1>6, <1>7, <1>8, <1>9, <1>10, <1>11 DEF Next

\* Every value the collective ever holds is one the code's types allow.
THEOREM TypeCorrect == Spec => []TypeOK
BY TypeInit, TypeNext, PTL DEF Spec

-----------------------------------------------------------------------------
(* The inductive invariant: one lemma per action. *)

LEMMA IInvInit == Init => IInv
<1> SUFFICES ASSUME Init PROVE IInv
  OBVIOUS
<1>1. TypeOK
  BY TypeInit
<1>2. Fresh
  BY ConstantFacts DEF Init, Fresh
<1>3. Bounded
  BY BoundsAssumption DEF Init, Bounded
<1>4. Attempts
  BY DEF Init, Attempts
<1>5. SessionLockstep /\ SessionEntry
  BY DEF Init, SessionLockstep, SessionEntry
<1>6. ~Started
  BY ConstantFacts DEF Init, Started
<1>7. CurrentMembers
  BY <1>6 DEF Init, CurrentMembers, Parked
<1>8. CurrentProgress
  BY <1>6 DEF CurrentProgress
<1>9. QED
  BY <1>1, <1>2, <1>3, <1>4, <1>5, <1>7, <1>8 DEF IInv

LEMMA StartIInv ==
  ASSUME IInv, TypeOK', NEW r \in Ranks, Start(r)
  PROVE  IInv'
<1> USE DEF IInv, TypeOK, workerVars, callVars, sessionVars, roundVars, netVars
<1>0. /\ \A q \in Ranks : inc[q] <= inc'[q]
      /\ inc[r] < inc'[r]
      /\ \A m \in late : m.rank \in Ranks /\ m.tag \in Nat
  BY DEF Start, Request
<1>1. Fresh'
  <2>1. \A m \in late : m.kind = "join" => m.tag <= inc'[m.rank]
    BY <1>0 DEF Fresh
  <2>2. QED
    BY <1>0, <2>1 DEF Fresh, Start
<1>2. Bounded'
  BY DEF Bounded, Start, LoadCheckpoint
<1>3. Attempts'
  BY DEF Attempts, Start
<1>4. SessionLockstep'
  BY DEF SessionLockstep, MayAdvance, Start
<1>5. SessionEntry'
  BY DEF SessionEntry, MayAdvance, Start, Attempts
<1>6. CurrentMembers'
  BY DEF CurrentMembers, Start, Attempts, Fresh, Parked, Started
<1>7. CurrentProgress'
  <2> SUFFICES ASSUME Started PROVE CurrentProgress'
    BY DEF CurrentProgress, Started, Start
  <2>1. PICK h \in completed \cup {resume} : Progress(h)
    BY DEF CurrentProgress
  <2>2. sid > 0
    BY ConstantFacts DEF Fresh, Started
  <2>3. \A q \in Ranks : HasEntered(q) => HasEntered(q)'
    BY <1>0 DEF HasEntered, Start, Fresh, Started
  <2>4. token[r] # sid
    BY <2>2 DEF Start, Attempts
  <2>5. Progress(h)'
    <3>1. Frontier(h)'
      BY <2>1 DEF Progress, Frontier, Start
    <3>2. QED
      BY <1>0, <2>1, <2>3, <2>4, <3>1 DEF Progress, Start, MayAdvance
  <2>6. QED
    BY <2>1, <2>5 DEF CurrentProgress, Start
<1>8. QED
  BY <1>1, <1>2, <1>3, <1>4, <1>5, <1>6, <1>7

\* A process ends, whatever made it end and whatever that did to the file.
LEMMA ExitIInv ==
  ASSUME IInv, TypeOK', NEW r \in Ranks, Exit(r),
         \A q \in Ranks : disk'[q] <= MaxStep
  PROVE  IInv'
<1> USE DEF IInv, TypeOK, roundVars
<1>0. /\ pc'[r] = "off" /\ token'[r] = 0 /\ step'[r] = 0
      /\ call'[r] = "none" /\ offer'[r] = {}
      /\ inc' = inc /\ issued' = issued
      /\ \A q \in Ranks : q # r => /\ pc'[q] = pc[q] /\ token'[q] = token[q]
                                   /\ step'[q] = step[q]
      /\ \A q \in Ranks : offer'[q] \subseteq offer[q]
      /\ \A q \in Ranks : call'[q] = call[q] \/ (call'[q] = "none" /\ offer'[q] = {})
      /\ late' \subseteq late
  BY DEF Exit
<1>1. Fresh'
  BY <1>0 DEF Fresh, Exit
<1>2. Bounded'
  BY <1>0, BoundsAssumption DEF Bounded, Exit
<1>3. Attempts'
  BY <1>0 DEF Attempts
<1>4. \A q \in Ranks : MayAdvance(q)' => MayAdvance(q) /\ q # r
  BY <1>0 DEF MayAdvance
<1>5. SessionLockstep'
  BY <1>0, <1>4 DEF SessionLockstep
<1>6. SessionEntry'
  BY <1>0, <1>4 DEF SessionEntry
<1>7. CASE r = Coordinator
  <2>1. sid' = 0 /\ ~Started' /\ completed' = {} /\ late' = {}
        /\ (\A n \in Rounds : values'[n] = {})
        /\ (\A q \in Ranks : offer'[q] = {} /\ call'[q] = "none")
    BY <1>7, ConstantFacts DEF Exit, Started
  <2>2. CurrentMembers'
    BY <2>1 DEF CurrentMembers, Parked
  <2>3. CurrentProgress'
    BY <2>1 DEF CurrentProgress
  <2>4. QED
    BY <1>1, <1>2, <1>3, <1>5, <1>6, <2>2, <2>3
<1>8. CASE r # Coordinator
  <2>1. UNCHANGED <<sid, members, minc, mstep, resume, values, completed, late>>
    BY <1>8 DEF Exit
  <2>2. Started' = Started
    BY <2>1 DEF Started
  <2>3. \A q \in Ranks : Parked(q)' => q # r /\ Parked(q) /\ offer'[q] = offer[q]
    BY <1>0, <1>8 DEF Parked, Exit
  <2>4. CurrentMembers'
    BY <1>0, <2>1, <2>2, <2>3 DEF CurrentMembers
  <2>5. CurrentProgress'
    <3> SUFFICES ASSUME Started PROVE CurrentProgress'
      BY <2>2 DEF CurrentProgress
    <3>1. PICK h \in completed \cup {resume} : Progress(h)
      BY DEF CurrentProgress
    <3>2. sid > 0
      BY ConstantFacts DEF Fresh, Started
    <3>3. \A q \in Ranks : HasEntered(q) => HasEntered(q)'
      BY <1>0, <2>1 DEF HasEntered
    <3>4. Frontier(h)'
      BY <2>1, <3>1 DEF Progress, Frontier
    <3>5. \A m \in late : m.rank \in Ranks
      BY DEF Request
    <3>6. Progress(h)'
      BY <1>0, <1>4, <2>1, <3>1, <3>2, <3>3, <3>4, <3>5 DEF Progress
    <3>7. QED
      BY <2>1, <3>1, <3>6 DEF CurrentProgress
  <2>6. QED
    BY <1>1, <1>2, <1>3, <1>5, <1>6, <2>4, <2>5
<1>9. QED
  BY <1>7, <1>8

\* Steps that only change an attempt: it is sent, fails, or outlives its client.
LEMMA AttemptIInv ==
  ASSUME IInv, TypeOK', NEW r \in Ranks,
         Send(r) \/ AttemptFails(r) \/ AttemptOutlivesClient(r)
  PROVE  IInv'
<1> USE DEF IInv, TypeOK, workerVars, sessionVars, roundVars, netVars
<1>0. /\ UNCHANGED <<workerVars, sessionVars, roundVars>>
      /\ call'[r] # "parked" /\ offer'[r] = {}
      /\ pc[r] = "off" => call'[r] = "none"
      /\ \A q \in Ranks : q # r => call'[q] = call[q] /\ offer'[q] = offer[q]
      /\ late' \subseteq late \cup {RequestOf(r)}
      /\ late' # late => pc[r] # "off"
  BY DEF Send, AttemptFails, AttemptOutlivesClient, Attempts
<1>1. \A q \in Ranks : MayAdvance(q)' => MayAdvance(q)
  BY <1>0 DEF MayAdvance
<1>2. \A q \in Ranks : Parked(q)' => q # r /\ Parked(q)
  BY <1>0 DEF Parked
<1>3. /\ Started' = Started
      /\ \A q \in Ranks : HasEntered(q)' = HasEntered(q)
  BY <1>0 DEF Started, HasEntered
<1>4. ASSUME NEW m \in late', m \notin late
      PROVE  /\ m = RequestOf(r) /\ pc[r] # "off" /\ m.rank = r
             /\ m.kind = "join" => m.tag = inc[r] /\ m.step = step[r]
             /\ m.kind = "reduce" =>
                  /\ pc[r] = "training" /\ m.tag = token[r] /\ m.step = step[r] + 1
             /\ m.kind \in {"join", "reduce"}
  BY <1>0, <1>4 DEF RequestOf
<1>5. Fresh'
  <2>1. \A m \in late' : /\ m.kind = "join" => m.tag <= inc[m.rank]
                         /\ m.kind = "reduce" => m.tag > 0 /\ m.tag <= issued
    BY <1>4 DEF Fresh
  <2>2. QED BY <1>0, <2>1 DEF Fresh
<1>6. Bounded'
  <2>1. \A m \in late' : IF m.kind = "join" THEN m.step <= MaxStep
                                            ELSE m.step \in Rounds
    <3>1. ASSUME NEW m \in late', m \notin late
          PROVE  /\ m.kind = "join" => m.step <= MaxStep
                 /\ m.kind = "reduce" => m.step \in Rounds
                 /\ m.kind \in {"join", "reduce"}
      <4>1. step[r] \in Nat /\ step[r] <= MaxStep
        BY DEF Bounded
      <4>2. step[r] + 1 \in Rounds
        BY <4>1, RoundAfter
      <4>3. m.kind = "reduce" => m.step = step[r] + 1
        BY <1>4, <3>1
      <4>4. m.kind = "join" => m.step = step[r]
        BY <1>4, <3>1
      <4>5. m.kind \in {"join", "reduce"}
        BY <1>4, <3>1
      <4>6. QED BY <4>1, <4>2, <4>3, <4>4, <4>5
    <3>2. QED BY <3>1 DEF Bounded
  <2>2. QED BY <1>0, <2>1 DEF Bounded
<1>7. Attempts'
  BY <1>0 DEF Attempts
<1>8. SessionLockstep' /\ SessionEntry'
  BY <1>0, <1>1 DEF SessionLockstep, SessionEntry
<1>9. CurrentMembers'
  <2>1. sid > 0 => \A m \in late' : m.kind = "reduce" /\ m.tag = sid => Started
    BY <1>4 DEF CurrentMembers
  <2>2. sid = 0 => \A m \in late' : m.kind = "reduce" => m.tag # sid
    BY <1>5, <1>0 DEF Fresh
  <2>3. \A m \in late' : m.kind = "reduce" /\ m.tag = sid => Started
    BY <2>1, <2>2
  <2>4. QED BY <1>0, <1>2, <1>3, <2>3 DEF CurrentMembers
<1>10. CurrentProgress'
  <2> SUFFICES ASSUME Started PROVE CurrentProgress'
    BY <1>3 DEF CurrentProgress
  <2>1. PICK h \in completed \cup {resume} : Progress(h)
    BY DEF CurrentProgress
  <2>2. sid > 0
    BY ConstantFacts DEF Fresh, Started
  <2>3. Frontier(h)'
    BY <1>0, <2>1 DEF Progress, Frontier
  <2>4. \A m \in late' :
          m.kind = "reduce" /\ m.tag = sid =>
            /\ resume < m.step /\ m.step <= h + 1
            /\ HasEntered(m.rank)
            /\ m.step = h + 1 /\ token[m.rank] = sid => step[m.rank] = h
    <3>1. ASSUME NEW m \in late', m \notin late, m.kind = "reduce", m.tag = sid
          PROVE /\ resume < m.step /\ m.step <= h + 1
                /\ HasEntered(m.rank)
                /\ m.step = h + 1 /\ token[m.rank] = sid => step[m.rank] = h
      <4>1. m.rank = r /\ token[r] = sid /\ m.step = step[r] + 1
        BY <1>4, <3>1
      <4>2. step[r] \in {h - 1, h} /\ resume <= step[r]
        BY <2>1, <4>1 DEF Progress
      <4>3. h \in Nat /\ step[r] \in Nat /\ resume \in Nat
        OBVIOUS
      <4>4. QED BY <4>1, <4>2, <4>3 DEF HasEntered
    <3>2. QED BY <2>1, <3>1 DEF Progress
  <2>5. \A m \in late' : m.rank \in Ranks
    BY DEF Request
  <2>6. Progress(h)'
    BY <1>0, <1>1, <1>3, <2>1, <2>3, <2>4, <2>5 DEF Progress
  <2>7. QED
    BY <1>0, <2>1, <2>6 DEF CurrentProgress
<1>11. QED
  BY <1>5, <1>6, <1>7, <1>8, <1>9, <1>10

\* The answers a worker gets, except those that end its process.
LEMMA ChangedIInv ==
  ASSUME IInv, TypeOK', NEW r \in Ranks, OnChanged(r)
  PROVE  IInv'
<1> USE DEF IInv, TypeOK, sessionVars, roundVars
<1>0. /\ UNCHANGED <<inc, step, disk, token, sessionVars, roundVars, late>>
      /\ Changed \in offer[r]
      /\ pc'[r] = "joining" /\ call'[r] = "none" /\ offer'[r] = {}
      /\ \A q \in Ranks : q # r => /\ pc'[q] = pc[q] /\ call'[q] = call[q]
                                   /\ offer'[q] = offer[q]
  BY DEF OnChanged, HangUp
<1>1. \A q \in Ranks : MayAdvance(q)' => MayAdvance(q) /\ q # r
  BY <1>0 DEF MayAdvance
<1>2. \A q \in Ranks : Parked(q)' => q # r /\ Parked(q)
  BY <1>0 DEF Parked
<1>3. Started' = Started
  BY <1>0 DEF Started
<1>4. pc[r] # "off" /\ (sid > 0 => token[r] # sid)
  BY <1>0 DEF Attempts, CurrentMembers
<1>5. Fresh'
  BY <1>0 DEF Fresh
<1>6. Bounded'
  BY <1>0 DEF Bounded
<1>7. Attempts'
  BY <1>0, <1>4 DEF Attempts
<1>8. SessionLockstep' /\ SessionEntry'
  BY <1>0, <1>1 DEF SessionLockstep, SessionEntry
<1>9. CurrentMembers'
  BY <1>0, <1>2, <1>3, <1>4 DEF CurrentMembers
<1>10. CurrentProgress'
  <2> SUFFICES ASSUME Started PROVE CurrentProgress'
    BY <1>3 DEF CurrentProgress
  <2>1. PICK h \in completed \cup {resume} : Progress(h)
    BY DEF CurrentProgress
  <2>2. Frontier(h)'
    BY <1>0, <2>1 DEF Progress, Frontier
  <2>3. \A q \in Ranks : HasEntered(q) => HasEntered(q)'
    BY <1>0, <1>4 DEF HasEntered
  <2>4. \A m \in late : m.rank \in Ranks
    BY DEF Request
  <2>5. Progress(h)'
    BY <1>0, <1>1, <2>1, <2>2, <2>3, <2>4 DEF Progress
  <2>6. QED
    BY <1>0, <2>1, <2>5 DEF CurrentProgress
<1>11. QED
  BY <1>5, <1>6, <1>7, <1>8, <1>9, <1>10

LEMMA JoinedIInv ==
  ASSUME IInv, TypeOK', NEW r \in Ranks, OnJoined(r)
  PROVE  IInv'
<1> USE DEF IInv, TypeOK, sessionVars, roundVars
<1>0. PICK j \in offer[r] :
        /\ j.kind = "joined" /\ j.step <= step[r]
        /\ pc'[r] = "training" /\ call'[r] = "none" /\ offer'[r] = {}
        /\ step'[r] = j.step /\ disk'[r] = j.step /\ token'[r] = j.session
        /\ \A q \in Ranks : q # r =>
             /\ pc'[q] = pc[q] /\ call'[q] = call[q] /\ offer'[q] = offer[q]
             /\ step'[q] = step[q] /\ disk'[q] = disk[q] /\ token'[q] = token[q]
        /\ UNCHANGED <<inc, sessionVars, roundVars, late>>
  BY DEF OnJoined, HangUp, ValidStep, SaveCheckpoint
<1>1. \A q \in Ranks : MayAdvance(q)' => MayAdvance(q) /\ q # r
  BY <1>0 DEF MayAdvance
<1>2. \A q \in Ranks : Parked(q)' => q # r /\ Parked(q)
  BY <1>0 DEF Parked
<1>3. Started' = Started
  BY <1>0 DEF Started
<1>4. /\ pc[r] = "joining"
      /\ j.session > 0 /\ j.session <= issued /\ j.session \in Nat
      /\ j.step <= MaxStep /\ j.step \in Nat
  BY <1>0 DEF Attempts, Fresh, Bounded, Reply
<1>5. sid > 0 => token[r] # sid
  BY <1>4 DEF CurrentMembers
<1>6. j.session = sid => Started /\ j.step = resume /\ minc[r] = inc[r]
  BY <1>0 DEF CurrentMembers
<1>7. Fresh'
  BY <1>0, <1>4 DEF Fresh
<1>8. Bounded'
  BY <1>0, <1>4 DEF Bounded
<1>9. Attempts'
  BY <1>0 DEF Attempts
<1>10. \A q \in Ranks : pc[q] = "training" /\ token[q] = j.session
                          => step[q] = j.step /\ ~MayAdvance(q)
  BY <1>0 DEF SessionEntry
<1>11. SessionLockstep'
  BY <1>0, <1>1, <1>4, <1>10 DEF SessionLockstep
<1>12. SessionEntry'
  <2>1. ASSUME NEW p \in Ranks, NEW m \in offer'[p], m.kind = "joined"
        PROVE  /\ m \in offer[p] /\ p # r
               /\ \A q \in Ranks : pc'[q] = "training" /\ token'[q] = m.session
                                     => step'[q] = m.step /\ ~MayAdvance(q)'
    <3>1. m \in offer[p] /\ p # r
      BY <1>0, <2>1
    <3>2. m.session = j.session => j.step = m.step
      BY <1>0, <2>1, <3>1 DEF SessionEntry
    <3>3. QED
      BY <1>0, <1>1, <2>1, <3>1, <3>2 DEF SessionEntry
  <2>2. QED
    BY <2>1 DEF SessionEntry
<1>13. CurrentMembers'
  <2>1. token'[r] = sid => Started /\ minc[r] = inc[r]
    BY <1>0, <1>6
  <2>2. QED
    BY <1>0, <1>2, <1>3, <2>1 DEF CurrentMembers
<1>14. CurrentProgress'
  <2> SUFFICES ASSUME Started PROVE CurrentProgress'
    BY <1>3 DEF CurrentProgress
  <2>1. PICK h \in completed \cup {resume} : Progress(h)
    BY DEF CurrentProgress
  <2>2. sid > 0 /\ h \in Nat
    BY ConstantFacts DEF Fresh, Started
  <2>3. Frontier(h)'
    BY <1>0, <2>1 DEF Progress, Frontier
  <2>4. j.session = sid => ~HasEntered(r)
    BY <1>4, <1>5, <1>6, <2>2 DEF HasEntered
  <2>5. j.session = sid => h = resume
    BY <2>1, <2>2, <2>4 DEF Progress, Frontier
  <2>6. \A q \in Ranks : HasEntered(q) => HasEntered(q)' /\ (q = r => j.session # sid)
    BY <1>0, <1>4, <1>5, <2>2, <2>4 DEF HasEntered
  <2>7. \A m \in late : m.rank \in Ranks
    BY DEF Request
  <2>8. Progress(h)'
    <3>1. \A q \in Ranks :
            /\ token'[q] = sid => /\ step'[q] \in {h - 1, h}
                                  /\ resume <= step'[q]
                                  /\ MayAdvance(q)' => step'[q] = h - 1
            /\ resume < h => HasEntered(q)'
      <4>1. token'[r] = sid => step'[r] = h /\ resume <= h /\ ~MayAdvance(r)'
        BY <1>0, <1>1, <1>6, <2>2, <2>5
      <4>2. QED
        BY <1>0, <1>1, <2>1, <2>6, <4>1 DEF Progress
    <3>2. \A n \in Rounds : values'[n] # {} => n <= h + 1 /\ resume < n
      BY <1>0, <2>1 DEF Progress
    <3>3. \A n \in Rounds : \A q \in values'[n] :
            n = h + 1 => HasEntered(q)' /\ (token'[q] = sid => step'[q] = h)
      BY <1>0, <2>1, <2>6 DEF Progress
    <3>4. \A m \in late' :
            m.kind = "reduce" /\ m.tag = sid =>
              /\ resume < m.step /\ m.step <= h + 1
              /\ HasEntered(m.rank)'
              /\ m.step = h + 1 /\ token'[m.rank] = sid => step'[m.rank] = h
      BY <1>0, <2>1, <2>6, <2>7 DEF Progress
    <3>5. QED
      BY <1>0, <2>3, <3>1, <3>2, <3>3, <3>4 DEF Progress
  <2>9. QED
    BY <1>0, <2>1, <2>8 DEF CurrentProgress
<1>15. QED
  BY <1>7, <1>8, <1>9, <1>11, <1>12, <1>13, <1>14

LEMMA AverageIInv ==
  ASSUME IInv, TypeOK', NEW r \in Ranks, OnAverage(r)
  PROVE  IInv'
<1> USE DEF IInv, TypeOK, sessionVars, roundVars
<1>0. /\ MayAdvance(r)
      /\ call'[r] = "none" /\ offer'[r] = {}
      /\ step'[r] = step[r] + 1
      /\ disk'[r] \in {disk[r], step[r] + 1}
      /\ \A q \in Ranks : q # r =>
           /\ call'[q] = call[q] /\ offer'[q] = offer[q]
           /\ step'[q] = step[q] /\ disk'[q] = disk[q]
      /\ UNCHANGED <<pc, inc, token, sessionVars, roundVars, late>>
  BY DEF OnAverage, HangUp, SaveCheckpoint, MayAdvance
<1>1. \A q \in Ranks : MayAdvance(q)' => MayAdvance(q) /\ q # r
  BY <1>0 DEF MayAdvance
<1>2. \A q \in Ranks : Parked(q)' => q # r /\ Parked(q)
  BY <1>0 DEF Parked
<1>3. Started' = Started
  BY <1>0 DEF Started
<1>4. pc[r] = "training" /\ step[r] + 1 <= MaxStep
  BY <1>0 DEF Attempts, Bounded, MayAdvance
<1>5. Fresh'
  BY <1>0 DEF Fresh
<1>6. Bounded'
  BY <1>0, <1>4 DEF Bounded
<1>7. Attempts'
  BY <1>0, <1>4 DEF Attempts
<1>8. SessionLockstep'
  BY <1>0, <1>1, <1>4 DEF SessionLockstep
<1>9. SessionEntry'
  <2>1. ASSUME NEW p \in Ranks, NEW m \in offer'[p], m.kind = "joined"
        PROVE  m \in offer[p] /\ m.session # token[r]
    BY <1>0, <1>4, <2>1 DEF SessionEntry
  <2>2. \A q \in Ranks : offer'[q] \subseteq offer[q]
    BY <1>0
  <2>3. QED
    BY <1>0, <1>1, <2>1, <2>2 DEF SessionEntry
<1>10. CurrentMembers'
  BY <1>0, <1>2, <1>3 DEF CurrentMembers
<1>11. CurrentProgress'
  <2> SUFFICES ASSUME Started PROVE CurrentProgress'
    BY <1>3 DEF CurrentProgress
  <2>1. PICK h \in completed \cup {resume} : Progress(h)
    BY DEF CurrentProgress
  <2>2. h \in Nat
    OBVIOUS
  <2>3. Frontier(h)'
    BY <1>0, <2>1 DEF Progress, Frontier
  <2>4. \A q \in Ranks : HasEntered(q)' = HasEntered(q)
    BY <1>0 DEF HasEntered
  <2>5. \A m \in late : m.rank \in Ranks
    BY DEF Request
  <2>6. token[r] = sid => step[r] = h - 1 /\ step'[r] = h
    BY <1>0, <2>1, <2>2 DEF Progress
  <2>7. \A q \in Ranks :
          token'[q] = sid => /\ step'[q] \in {h - 1, h}
                             /\ resume <= step'[q]
                             /\ MayAdvance(q)' => step'[q] = h - 1
    BY <1>0, <1>1, <2>1, <2>2, <2>6 DEF Progress
  <2>8. Progress(h)'
    BY <1>0, <2>1, <2>2, <2>3, <2>4, <2>5, <2>6, <2>7 DEF Progress
  <2>9. QED
    BY <1>0, <2>1, <2>8 DEF CurrentProgress
<1>12. QED
  BY <1>5, <1>6, <1>7, <1>8, <1>9, <1>10, <1>11

-----------------------------------------------------------------------------
(* A join, of a live client (waits) or of one that gave up.                  *)

\* What is known of a join request that reaches the coordinator.
JoinRequest(q, i, n, waits) ==
  /\ i <= inc[q] /\ n <= MaxStep
  /\ waits => call[q] = "sent" /\ pc[q] = "joining" /\ i = inc[q]

LEMMA FreshJoinIInv ==
  ASSUME IInv, TypeOK', NEW q \in Ranks, NEW i \in Nat, NEW n \in Nat,
         NEW waits \in BOOLEAN, Join(q, i, n, waits), JoinRequest(q, i, n, waits),
         UNCHANGED workerVars, late' \subseteq late, OpensSession(q, i)
  PROVE  IInv'
<1> USE DEF IInv, TypeOK, workerVars
<1>1. /\ UNCHANGED <<pc, inc, step, disk, token>>
      /\ members' = {q} /\ sid' = issued + 1 /\ issued' = issued + 1
      /\ completed' = {} /\ \A k \in Rounds : values'[k] = {}
      /\ minc'[q] = i /\ mstep'[q] = n
      /\ \A r \in Ranks : r # q => mstep'[r] = 0
  BY DEF Join, Roster, Record
<1>2. /\ waits => call[q] = "sent" /\ pc[q] = "joining" /\ i = inc[q] /\ offer[q] = {}
      /\ i <= inc[q] /\ n <= MaxStep
  BY DEF JoinRequest, Attempts
<1>3. \A r \in Ranks :
        call'[r] = IF waits /\ r = q THEN "parked" ELSE call[r]
  BY DEF Join
<1>4. resume' <= MaxStep
  <2>1. CASE Starts(q, i)
    BY <1>1, <1>2, <2>1, BoundsAssumption DEF Join
  <2>2. CASE ~Starts(q, i)
    BY <2>2, BoundsAssumption DEF Join
  <2>3. QED BY <2>1, <2>2
<1>5. \A r \in Ranks : call[r] = "parked" => offer'[r] = offer[r] \cup {Changed}
  BY DEF Join
<1>6. \A r \in Ranks : call[r] # "parked" /\ ~(waits /\ r = q) => offer'[r] = offer[r]
  <2> SUFFICES ASSUME NEW r \in Ranks, call[r] # "parked", ~(waits /\ r = q)
               PROVE  offer'[r] = offer[r]
    OBVIOUS
  <2>1. call'[r] # "parked"
    BY <1>3
  <2>2. QED
    BY <2>1 DEF Join
<1>7. waits => offer'[q] = IF {q} = Ranks THEN {Joined(sid', resume')} ELSE {}
  <2> SUFFICES ASSUME waits
               PROVE  offer'[q] = IF {q} = Ranks THEN {Joined(sid', resume')} ELSE {}
    OBVIOUS
  <2>1. call[q] # "parked" /\ call'[q] = "parked" /\ offer[q] = {} /\ pc[q] = "joining"
    BY <1>2, <1>3
  <2>2. offer'[q] = IF members' = Ranks THEN {Joined(sid', resume')} ELSE offer[q]
    BY <2>1 DEF Join
  <2>3. QED
    BY <1>1, <2>1, <2>2
<1>8. \A r \in Ranks : \A m \in offer'[r] :
        \/ m \in offer[r] /\ ~(waits /\ r = q)
        \/ m = Changed /\ call[r] = "parked"
        \/ waits /\ r = q /\ {q} = Ranks /\ m = Joined(sid', resume')
  BY <1>2, <1>5, <1>6, <1>7
<1>9. \A r \in Ranks : MayAdvance(r)' => MayAdvance(r)
  BY <1>8 DEF MayAdvance, Changed, Joined
<1>10. \A r \in Ranks : Parked(r)' => waits /\ r = q
  BY <1>3, <1>5 DEF Parked
<1>11. Started' = (Ranks = {q})
  BY <1>1 DEF Started
<1>12. \A r \in Ranks : token[r] # sid'
  BY <1>1 DEF Fresh
<1>13. \A r \in Ranks : \A m \in offer'[r] :
         m.kind = "joined" =>
           \/ m \in offer[r] /\ m.session > 0 /\ m.session <= issued
           \/ waits /\ r = q /\ {q} = Ranks /\ m = Joined(sid', resume')
  BY <1>8 DEF Fresh, Changed
<1>14. \A m \in late' : m.kind = "reduce" => m.tag <= issued /\ m.tag # sid'
  <2>1. \A m \in late : m.tag \in Nat
    BY DEF Request
  <2>2. QED BY <1>1, <2>1 DEF Fresh
<1>15. Fresh'
  <2>1. \A r \in Ranks : r \in members' => minc'[r] <= inc[r]
    BY <1>1, <1>2
  <2>2. \A r \in Ranks : \A m \in offer'[r] :
          m.kind = "joined" => m.session > 0 /\ m.session <= issued'
    BY <1>1, <1>13 DEF Joined, Reply
  <2>3. \A m \in late' : /\ m.kind = "join" => m.tag <= inc[m.rank]
                         /\ m.kind = "reduce" => m.tag > 0 /\ m.tag <= issued'
    <3>1. \A m \in late : m.tag \in Nat
      BY DEF Request
    <3>2. QED BY <1>1, <3>1 DEF Fresh
  <2>4. \A r \in Ranks : token[r] <= issued' /\ (pc[r] = "training" => token[r] > 0)
    BY <1>1 DEF Fresh
  <2>5. QED
    BY <1>1, <2>1, <2>2, <2>3, <2>4 DEF Fresh
<1>16. Bounded'
  <2>1. \A r \in Ranks : mstep'[r] <= MaxStep
    BY <1>1, <1>2, BoundsAssumption
  <2>2. \A r \in Ranks : \A m \in offer'[r] : m.step <= MaxStep
    BY <1>4, <1>8, BoundsAssumption DEF Bounded, Changed, Joined
  <2>3. QED
    BY <1>1, <1>4, <2>1, <2>2 DEF Bounded
<1>17. Attempts'
  <2>1. \A r \in Ranks : call'[r] # "parked" => offer'[r] = {}
    BY <1>3, <1>6 DEF Attempts
  <2>2. \A r \in Ranks : pc[r] = "off" => call'[r] = "none" /\ token[r] = 0
    BY <1>2, <1>3 DEF Attempts
  <2>3. \A r \in Ranks : \A m \in offer'[r] :
          /\ m.kind = "joined" => pc[r] = "joining"
          /\ m.kind = "average" => pc[r] = "training" /\ m.step = step[r] + 1
          /\ m.kind = "changed" => m = Changed
    BY <1>2, <1>8 DEF Attempts, Changed, Joined
  <2>4. QED
    BY <1>1, <2>1, <2>2, <2>3 DEF Attempts
<1>18. SessionLockstep'
  BY <1>1, <1>9 DEF SessionLockstep
<1>19. SessionEntry'
  <2> SUFFICES ASSUME NEW r \in Ranks, NEW m \in offer'[r], m.kind = "joined"
      PROVE /\ \A p \in Ranks : pc'[p] = "training" /\ token'[p] = m.session
                                  => step'[p] = m.step /\ ~MayAdvance(p)'
            /\ \A p \in Ranks : \A k \in offer'[p] :
                 k.kind = "joined" /\ k.session = m.session => k.step = m.step
    BY DEF SessionEntry
  <2>1. CASE m \in offer[r] /\ m.session <= issued
    <3>1. \A p \in Ranks : \A k \in offer'[p] :
            k.kind = "joined" /\ k.session = m.session => k \in offer[p]
      BY <1>1, <1>13, <2>1 DEF Joined, Reply
    <3>2. QED
      BY <1>1, <1>9, <2>1, <3>1 DEF SessionEntry
  <2>2. CASE m = Joined(sid', resume')
    <3>1. m.session = sid' /\ m.step = resume'
      BY <2>2 DEF Joined
    <3>2. \A p \in Ranks : \A k \in offer'[p] :
            k.kind = "joined" /\ k.session = sid' => k = Joined(sid', resume')
      BY <1>1, <1>13 DEF Joined, Reply
    <3>3. QED
      BY <1>1, <1>12, <3>1, <3>2 DEF Joined
  <2>3. QED
    BY <1>13, <2>1, <2>2
<1>20. CurrentMembers'
  <2>1. \A r \in Ranks : \A m \in offer'[r] :
          m.kind = "joined" /\ m.session = sid' =>
            Started' /\ m.step = resume' /\ minc'[r] = inc[r]
    BY <1>1, <1>2, <1>11, <1>13 DEF Joined, Reply
  <2>2. \A r \in Ranks : Parked(r)' =>
          pc[r] = "joining" /\ r \in members' /\ minc'[r] = inc[r]
            /\ (Started' => offer'[r] # {})
    <3> SUFFICES ASSUME NEW r \in Ranks, Parked(r)'
        PROVE  /\ pc[r] = "joining" /\ r \in members' /\ minc'[r] = inc[r]
               /\ Started' => offer'[r] # {}
      OBVIOUS
    <3>1. waits /\ r = q
      BY <1>10
    <3>2. Started' => offer'[q] = {Joined(sid', resume')}
      BY <1>7, <1>11, <3>1
    <3>3. QED
      BY <1>1, <1>2, <3>1, <3>2
  <2>3. QED
    BY <1>1, <1>12, <1>14, <2>1, <2>2 DEF CurrentMembers
<1>21. CurrentProgress'
  <2>1. PICK h \in Nat : h = resume'
    OBVIOUS
  <2>2. Progress(h)'
    BY <1>1, <1>12, <1>14, <2>1 DEF Progress, Frontier
  <2>3. QED
    BY <2>1, <2>2 DEF CurrentProgress
<1>22. QED
  BY <1>15, <1>16, <1>17, <1>18, <1>19, <1>20, <1>21

LEMMA CurrentJoinIInv ==
  ASSUME IInv, TypeOK', NEW q \in Ranks, NEW i \in Nat, NEW n \in Nat,
         NEW waits \in BOOLEAN, Join(q, i, n, waits), JoinRequest(q, i, n, waits),
         UNCHANGED workerVars, late' \subseteq late, ~OpensSession(q, i)
  PROVE  IInv'
<1> USE DEF IInv, TypeOK, workerVars
<1>1. /\ UNCHANGED <<pc, inc, step, disk, token, sid, issued, values, completed>>
      /\ members' = members \cup {q} /\ sid > 0
      /\ q \in members => minc[q] = i /\ minc' = minc /\ mstep' = mstep
      /\ q \notin members => minc'[q] = i /\ mstep'[q] = n
      /\ \A r \in Ranks : r # q => minc'[r] = minc[r] /\ mstep'[r] = mstep[r]
      /\ minc'[q] = i
  BY DEF Join, Roster, Record, OpensSession, roundVars
<1>2. /\ waits => call[q] = "sent" /\ pc[q] = "joining" /\ i = inc[q] /\ offer[q] = {}
      /\ i <= inc[q] /\ n <= MaxStep
  BY DEF JoinRequest, Attempts
<1>3. /\ \A r \in Ranks : mstep'[r] <= MaxStep
      /\ \A r \in Ranks : r \in members' => minc'[r] <= inc[r]
  BY <1>1, <1>2 DEF Bounded, Fresh
<1>4. /\ Started => Started' /\ UNCHANGED <<members, minc, mstep, resume>>
      /\ resume' # resume => Started' /\ ~Started
      /\ resume' <= MaxStep
  <2>1. CASE Starts(q, i)
    <3>1. resume' <= MaxStep
      BY <1>3, <2>1 DEF Join
    <3>2. ~Started /\ Started'
      BY <1>1, <2>1 DEF Starts, Roster, Started
    <3>3. QED BY <3>1, <3>2
  <2>2. CASE ~Starts(q, i)
    <3>1. resume' = resume /\ resume <= MaxStep
      BY <2>2 DEF Join, Bounded
    <3>2. Started => Started' /\ UNCHANGED <<members, minc, mstep>>
      BY <1>1 DEF Started
    <3>3. QED BY <3>1, <3>2
  <2>3. QED BY <2>1, <2>2
<1>5. \A r \in Ranks :
        call'[r] = IF waits /\ r = q THEN "parked" ELSE call[r]
  BY DEF Join
<1>6. \A r \in Ranks :
        offer'[r] = IF /\ Started' /\ pc[r] = "joining"
                       /\ call'[r] = "parked" /\ Changed \notin offer[r]
                    THEN {Joined(sid, resume')} ELSE offer[r]
  BY <1>1 DEF Join, Started
<1>7. \A r \in Ranks :
        call'[r] = "parked" /\ pc[r] = "joining" /\ Changed \notin offer[r]
          => /\ r \in members' /\ minc'[r] = inc[r]
             /\ token[r] # sid
  <2> SUFFICES ASSUME NEW r \in Ranks, call'[r] = "parked", pc[r] = "joining",
                      Changed \notin offer[r]
               PROVE  r \in members' /\ minc'[r] = inc[r] /\ token[r] # sid
    OBVIOUS
  <2>1. token[r] # sid
    BY <1>1 DEF CurrentMembers
  <2>2. CASE waits /\ r = q
    BY <1>1, <1>2, <2>1, <2>2
  <2>3. CASE ~(waits /\ r = q)
    <3>1. Parked(r)
      BY <1>5, <2>3 DEF Parked
    <3>2. r \in members /\ minc[r] = inc[r]
      BY <3>1 DEF CurrentMembers
    <3>3. QED BY <1>1, <2>1, <3>2
  <2>4. QED BY <2>2, <2>3
<1>8. \A r \in Ranks : \A m \in offer'[r] :
        \/ m \in offer[r]
        \/ /\ m = Joined(sid, resume') /\ Started' /\ pc[r] = "joining"
           /\ minc'[r] = inc[r] /\ token[r] # sid
  BY <1>6, <1>7
<1>9. \A r \in Ranks : MayAdvance(r)' => MayAdvance(r)
  BY <1>8 DEF MayAdvance, Joined
<1>10. Fresh'
  <2>1. sid' = 0 <=> members' = {}
    BY <1>1
  <2>2. \A r \in Ranks : \A m \in offer'[r] :
          m.kind = "joined" => m.session > 0 /\ m.session <= issued
    BY <1>1, <1>8 DEF Fresh, Joined
  <2>3. \A m \in late' : /\ m.kind = "join" => m.tag <= inc[m.rank]
                         /\ m.kind = "reduce" => m.tag > 0 /\ m.tag <= issued
    BY DEF Fresh
  <2>4. QED
    BY <1>1, <1>3, <2>1, <2>2, <2>3 DEF Fresh
<1>11. Bounded'
  <2>1. \A r \in Ranks : \A m \in offer'[r] : m.step <= MaxStep
    BY <1>4, <1>8 DEF Bounded, Joined
  <2>2. QED
    BY <1>1, <1>3, <1>4, <2>1 DEF Bounded
<1>12. Attempts'
  <2>1. \A r \in Ranks : call'[r] # "parked" => offer'[r] = {}
    BY <1>5, <1>6 DEF Attempts
  <2>2. \A r \in Ranks : pc[r] = "off" => call'[r] = "none" /\ token[r] = 0
    BY <1>2, <1>5 DEF Attempts
  <2>3. \A r \in Ranks : \A m \in offer'[r] :
          /\ m.kind = "joined" => pc[r] = "joining"
          /\ m.kind = "average" => pc[r] = "training" /\ m.step = step[r] + 1
          /\ m.kind = "changed" => m = Changed
    BY <1>8 DEF Attempts, Joined
  <2>4. QED
    BY <1>1, <2>1, <2>2, <2>3 DEF Attempts
<1>13. SessionLockstep'
  BY <1>1, <1>9 DEF SessionLockstep
\* Nobody who is told to enter the session finds that it has moved on.
<1>14. ASSUME NEW r \in Ranks, Started', minc'[r] = inc[r], token[r] # sid,
              pc[r] = "joining"
       PROVE  /\ \A p \in Ranks : token[p] = sid
                   => step[p] = resume' /\ ~MayAdvance(p)
              /\ \A p \in Ranks : \A m \in offer[p] :
                   m.kind = "joined" /\ m.session = sid => m.step = resume'
  <2>1. CASE ~Started
    BY <1>1, <2>1 DEF CurrentMembers
  <2>2. CASE Started
    <3>1. PICK h \in completed \cup {resume} : Progress(h)
      BY <2>2 DEF CurrentProgress
    <3>2. ~HasEntered(r)
      BY <1>4, <1>14, <2>2 DEF HasEntered
    <3>3. h = resume /\ h \in Nat
      BY <3>1, <3>2 DEF Progress, Frontier
    <3>4. \A p \in Ranks : token[p] = sid => step[p] = resume /\ ~MayAdvance(p)
      BY <3>1, <3>3 DEF Progress
    <3>5. QED
      BY <1>4, <2>2, <3>4 DEF CurrentMembers
  <2>3. QED BY <2>1, <2>2
<1>15. SessionEntry'
  <2> SUFFICES ASSUME NEW r \in Ranks, NEW m \in offer'[r], m.kind = "joined"
      PROVE /\ \A p \in Ranks : pc'[p] = "training" /\ token'[p] = m.session
                                  => step'[p] = m.step /\ ~MayAdvance(p)'
            /\ \A p \in Ranks : \A k \in offer'[p] :
                 k.kind = "joined" /\ k.session = m.session => k.step = m.step
    BY DEF SessionEntry
  <2>1. CASE m \in offer[r]
    <3>1. ASSUME NEW p \in Ranks, NEW k \in offer'[p], k.kind = "joined",
                 k.session = m.session
          PROVE  k.step = m.step
      <4>1. CASE k \in offer[p]
        BY <2>1, <3>1, <4>1 DEF SessionEntry
      <4>2. CASE k \notin offer[p]
        <5>1. k.session = sid /\ k.step = resume' /\ Started' /\ pc[p] = "joining"
              /\ minc'[p] = inc[p] /\ token[p] # sid
          BY <1>8, <4>2 DEF Joined
        <5>2. QED
          BY <1>14, <2>1, <3>1, <5>1
      <4>3. QED BY <4>1, <4>2
    <3>2. QED
      BY <1>1, <1>9, <2>1, <3>1 DEF SessionEntry
  <2>2. CASE m \notin offer[r]
    <3>1. m.session = sid /\ m.step = resume' /\ Started' /\ pc[r] = "joining"
          /\ minc'[r] = inc[r] /\ token[r] # sid
      BY <1>8, <2>2 DEF Joined
    <3>2. \A p \in Ranks : token[p] = sid => step[p] = m.step /\ ~MayAdvance(p)
      BY <1>14, <3>1
    <3>3. \A p \in Ranks : \A k \in offer'[p] :
            k.kind = "joined" /\ k.session = sid => k.step = resume'
      BY <1>8, <1>14, <3>1 DEF Joined
    <3>4. QED
      BY <1>1, <1>9, <3>1, <3>2, <3>3
  <2>3. QED BY <2>1, <2>2
<1>16. CurrentMembers'
  <2>1. ~Started' => ~Started
    BY <1>4
  <2>2. ~Started' => completed' = {} /\ \A k \in Rounds : values'[k] = {}
    BY <1>1, <2>1 DEF CurrentMembers
  <2>3. \A r \in Ranks : token[r] = sid =>
          pc[r] = "training" /\ Started /\ Started' /\ minc'[r] = inc[r]
          /\ Changed \notin offer'[r]
    <3>1. \A r \in Ranks : token[r] = sid =>
            pc[r] = "training" /\ Started /\ minc[r] = inc[r] /\ Changed \notin offer[r]
      BY <1>1 DEF CurrentMembers
    <3>2. QED
      BY <1>4, <1>6, <3>1
  <2>4. \A r \in Ranks : \A m \in offer'[r] :
          m.kind = "joined" /\ m.session = sid =>
            Started' /\ m.step = resume' /\ minc'[r] = inc[r]
    <3>1. ASSUME NEW r \in Ranks, NEW m \in offer[r], m.kind = "joined", m.session = sid
          PROVE  Started' /\ m.step = resume' /\ minc'[r] = inc[r]
      <4>1. Started /\ m.step = resume /\ minc[r] = inc[r]
        BY <3>1 DEF CurrentMembers
      <4>2. QED BY <1>4, <4>1
    <3>2. QED
      BY <1>8, <3>1 DEF Joined
  <2>5. ASSUME NEW r \in Ranks, Parked(r)'
        PROVE  IF pc[r] = "joining"
               THEN /\ r \in members' /\ minc'[r] = inc[r]
                    /\ Started' => offer'[r] # {}
               ELSE token[r] = sid
    <3>1. CASE pc[r] = "joining"
      <4>1. call'[r] = "parked" /\ Changed \notin offer[r]
        BY <1>6, <2>5, <3>1 DEF Parked
      <4>2. QED
        BY <1>6, <1>7, <3>1, <4>1
    <3>2. CASE pc[r] # "joining"
      <4>1. ~(waits /\ r = q)
        BY <1>2, <3>2
      <4>2. offer'[r] = offer[r]
        BY <1>6, <3>2
      <4>3. Parked(r)
        BY <1>5, <2>5, <4>1, <4>2 DEF Parked
      <4>4. QED
        BY <3>2, <4>3 DEF CurrentMembers
    <3>3. QED BY <3>1, <3>2
  <2>6. \A m \in late' : m.kind = "reduce" /\ m.tag = sid => Started'
    BY <1>4 DEF CurrentMembers
  <2>7. QED
    BY <1>1, <2>2, <2>3, <2>4, <2>5, <2>6 DEF CurrentMembers
<1>17. CurrentProgress'
  <2>1. CASE Started
    <3>1. PICK h \in completed \cup {resume} : Progress(h)
      BY <2>1 DEF CurrentProgress
    <3>2. Frontier(h)'
      BY <1>1, <1>4, <2>1, <3>1 DEF Progress, Frontier
    <3>3. \A r \in Ranks : HasEntered(r)' = HasEntered(r)
      BY <1>1, <1>4, <2>1 DEF HasEntered
    <3>4. \A m \in late : m.rank \in Ranks
      BY DEF Request
    <3>5. Progress(h)'
      BY <1>1, <1>4, <1>9, <2>1, <3>1, <3>2, <3>3, <3>4 DEF Progress
    <3>6. QED
      BY <1>1, <1>4, <2>1, <3>1, <3>5 DEF CurrentProgress
  <2>2. CASE ~Started
    <3>1. PICK h \in Nat : h = resume'
      OBVIOUS
    <3>2. /\ completed = {} /\ \A k \in Rounds : values[k] = {}
          /\ \A r \in Ranks : token[r] # sid
          /\ \A m \in late : ~(m.kind = "reduce" /\ m.tag = sid)
      BY <1>1, <2>2 DEF CurrentMembers
    <3>3. Progress(h)'
      BY <1>1, <3>1, <3>2 DEF Progress, Frontier
    <3>4. QED
      BY <3>1, <3>3 DEF CurrentProgress
  <2>3. QED BY <2>1, <2>2
<1>18. QED
  BY <1>10, <1>11, <1>12, <1>13, <1>15, <1>16, <1>17

-----------------------------------------------------------------------------
(* A reduce, of a live client (waits) or of one that gave up.                *)

\* What is known of a reduce request that reaches the coordinator.
ReduceRequest(q, n, s, waits) ==
  /\ n \in Rounds /\ s > 0
  /\ waits => call[q] = "sent" /\ pc[q] = "training" /\ s = token[q] /\ n = step[q] + 1
  /\ ~waits => \E m \in late :
                 m.kind = "reduce" /\ m.rank = q /\ m.tag = s /\ m.step = n

\* A request of the current session asks for a round after the resume step and
\* no later than the next one, and a member behind asks only for what is cached.
LEMMA ReduceRequestFacts ==
  ASSUME IInv, NEW q \in Ranks, NEW n \in Nat, NEW s \in Nat, NEW waits \in BOOLEAN,
         ReduceRequest(q, n, s, waits), Started, s = sid, NEW h \in Nat, Progress(h)
  PROVE  /\ resume < n /\ n <= h + 1
         /\ HasEntered(q)
         /\ n = h + 1 /\ token[q] = sid => step[q] = h
         /\ waits => token[q] = sid /\ step[q] \in {h - 1, h} /\ n = step[q] + 1
<1> USE DEF IInv, TypeOK
<1>1. CASE waits
  <2>1. token[q] = sid /\ n = step[q] + 1
    BY <1>1 DEF ReduceRequest
  <2>2. step[q] \in {h - 1, h} /\ resume <= step[q]
    BY <2>1 DEF Progress
  <2>3. QED BY <2>1, <2>2 DEF HasEntered
<1>2. CASE ~waits
  BY <1>2 DEF ReduceRequest, Progress
<1>3. QED BY <1>1, <1>2

\* Every outcome of a reduce but the last contribution to a round.
LEMMA QuietReduceIInv ==
  ASSUME IInv, TypeOK', NEW q \in Ranks, NEW n \in Nat, NEW s \in Nat,
         NEW waits \in BOOLEAN, ReduceRequest(q, n, s, waits),
         \/ WrongSession(q, n, s, waits) \/ Cached(q, n, s, waits)
         \/ TooManyRounds(q, n, s, waits) \/ Contribute(q, n, s, waits),
         UNCHANGED workerVars, UNCHANGED sessionVars, late' \subseteq late
  PROVE  IInv'
<1> USE DEF IInv, TypeOK, workerVars, sessionVars
<1>1. /\ waits => /\ call[q] = "sent" /\ pc[q] = "training" /\ s = token[q]
                  /\ n = step[q] + 1 /\ offer[q] = {}
      /\ n \in Rounds /\ s > 0
  BY DEF ReduceRequest, Attempts
<1>2. waits => (Started /\ s = sid) \/ token[q] # sid
  BY <1>1 DEF CurrentMembers
<1>3. /\ completed' = completed
      /\ \A r \in Ranks : ~(waits /\ r = q) => call'[r] = call[r] /\ offer'[r] = offer[r]
      /\ waits => \/ offer'[q] = {Changed} /\ token[q] # sid /\ call'[q] = "parked"
                  \/ /\ offer'[q] = {Average(n)} /\ s = sid /\ Started
                     /\ n \in completed /\ call'[q] = "parked"
                  \/ offer'[q] = {} /\ (call'[q] = "parked" => token[q] = sid)
  <2>1. CASE WrongSession(q, n, s, waits)
    BY <1>1, <1>2, <2>1 DEF WrongSession, Answer, roundVars
  <2>2. CASE Cached(q, n, s, waits)
    BY <1>1, <2>2 DEF Cached, Answer, roundVars
  <2>3. CASE TooManyRounds(q, n, s, waits)
    BY <1>1, <2>3 DEF TooManyRounds, roundVars
  <2>4. CASE Contribute(q, n, s, waits)
    BY <1>1, <2>4 DEF Contribute, Accepted
  <2>5. QED BY <2>1, <2>2, <2>3, <2>4
<1>4. \A k \in Rounds :
        \/ values'[k] = values[k]
        \/ k = n /\ values'[k] = values[k] \cup {q} /\ s = sid /\ Started
  <2>1. CASE Contribute(q, n, s, waits)
    BY <2>1 DEF Contribute, Accepted
  <2>2. CASE ~Contribute(q, n, s, waits)
    BY <2>2 DEF WrongSession, Cached, TooManyRounds, Answer, roundVars
  <2>3. QED BY <2>1, <2>2
<1>5. \A r \in Ranks : \A m \in offer'[r] :
        \/ m \in offer[r]
        \/ /\ waits /\ r = q
           /\ \/ m = Changed /\ token[q] # sid
              \/ m = Average(n) /\ s = sid /\ Started /\ n \in completed
  BY <1>3
<1>6. Started' = Started /\ \A r \in Ranks : HasEntered(r)' = HasEntered(r)
  BY DEF Started, HasEntered
<1>7. \A r \in Ranks : Parked(r)' => Parked(r) \/ (waits /\ r = q /\ token[q] = sid)
  BY <1>1, <1>3 DEF Parked, Changed
\* Only a member that missed the last round gets an answer from the cache.
<1>8. ASSUME NEW r \in Ranks, MayAdvance(r)'
      PROVE  \/ MayAdvance(r)
             \/ /\ r = q /\ token[r] = sid /\ Started
                /\ \A h \in Nat : Progress(h) => resume < h /\ step[r] = h - 1
  <2>1. CASE MayAdvance(r)
    BY <2>1
  <2>2. CASE ~MayAdvance(r)
    <3>1. waits /\ r = q /\ s = sid /\ Started /\ n \in completed
      BY <1>5, <1>8, <2>2 DEF MayAdvance, Changed
    <3>2. ASSUME NEW h \in Nat, Progress(h)
          PROVE  resume < h /\ step[r] = h - 1
      <4>1. step[q] \in {h - 1, h} /\ n = step[q] + 1
        BY <3>1, <3>2, ReduceRequestFacts
      <4>2. resume < n /\ n <= h /\ resume \in Nat
        BY <3>1, <3>2 DEF Progress, Frontier
      <4>3. QED BY <3>1, <4>1, <4>2
    <3>3. QED BY <1>1, <3>1, <3>2
  <2>3. QED BY <2>1, <2>2
<1>9. Fresh'
  BY <1>5 DEF Fresh, Changed, Average
<1>10. Bounded'
  <2>1. \A r \in Ranks : \A m \in offer'[r] : m.step <= MaxStep
    BY <1>5, BoundsAssumption DEF Bounded, Changed, Average
  <2>2. QED BY <1>3, <2>1 DEF Bounded
<1>11. Attempts'
  <2>1. \A r \in Ranks : call'[r] # "parked" => offer'[r] = {}
    BY <1>3 DEF Attempts
  <2>2. \A r \in Ranks : pc[r] = "off" => call'[r] = "none" /\ token[r] = 0
    BY <1>1, <1>3 DEF Attempts
  <2>3. \A r \in Ranks : \A m \in offer'[r] :
          /\ m.kind = "joined" => pc[r] = "joining"
          /\ m.kind = "average" => pc[r] = "training" /\ m.step = step[r] + 1
          /\ m.kind = "changed" => m = Changed
    BY <1>1, <1>5 DEF Attempts, Changed, Average
  <2>4. QED BY <2>1, <2>2, <2>3 DEF Attempts
<1>12. \A h \in completed \cup {resume} : h \in Nat
  OBVIOUS
<1>13. SessionLockstep'
  <2>1. ASSUME NEW p \in Ranks, NEW r \in Ranks, MayAdvance(p)', pc[p] = "training",
               pc[r] = "training", token[p] = token[r]
        PROVE  step[p] <= step[r]
    <3>1. CASE MayAdvance(p)
      BY <2>1, <3>1 DEF SessionLockstep
    <3>2. CASE ~MayAdvance(p)
      <4>1. token[p] = sid /\ Started
        BY <1>8, <2>1, <3>2
      <4>2. PICK h \in completed \cup {resume} : Progress(h)
        BY <4>1 DEF CurrentProgress
      <4>3. step[p] = h - 1 /\ step[r] \in {h - 1, h} /\ h \in Nat
        BY <1>8, <1>12, <2>1, <3>2, <4>1, <4>2 DEF Progress
      <4>4. QED BY <4>3
    <3>3. QED BY <3>1, <3>2
  <2>2. QED BY <2>1 DEF SessionLockstep
<1>14. SessionEntry'
  <2>1. ASSUME NEW r \in Ranks, NEW m \in offer'[r], m.kind = "joined"
        PROVE  m \in offer[r]
    BY <1>5, <2>1 DEF Changed, Average
  <2>2. ASSUME NEW r \in Ranks, NEW m \in offer[r], m.kind = "joined",
               NEW p \in Ranks, token[p] = m.session, MayAdvance(p)'
        PROVE  MayAdvance(p)
    <3> SUFFICES ASSUME ~MayAdvance(p) PROVE FALSE
      OBVIOUS
    <3>1. Started /\ m.session = sid
      BY <1>8, <2>2
    <3>2. PICK h \in completed \cup {resume} : Progress(h)
      BY <3>1 DEF CurrentProgress
    <3>3. resume < h
      BY <1>8, <1>12, <2>2, <3>2
    <3>4. HasEntered(r)
      BY <3>2, <3>3 DEF Progress
    <3>5. minc[r] = inc[r] /\ pc[r] = "joining"
      BY <2>2, <3>1 DEF CurrentMembers, Attempts
    <3>6. token[r] # sid
      BY <3>1, <3>5, ConstantFacts DEF CurrentMembers, Fresh, Started
    <3>7. QED BY <3>4, <3>5, <3>6 DEF HasEntered
  <2>3. QED
    BY <2>1, <2>2 DEF SessionEntry
<1>15. CurrentMembers'
  <2>1. ~Started => completed' = {} /\ \A k \in Rounds : values'[k] = {}
    BY <1>3, <1>4 DEF CurrentMembers
  <2>2. \A r \in Ranks : token[r] = sid /\ sid > 0 => Changed \notin offer'[r]
    BY <1>5 DEF CurrentMembers, Changed, Average
  <2>3. \A r \in Ranks : Parked(r)' =>
          IF pc[r] = "joining"
          THEN /\ r \in members /\ minc[r] = inc[r]
               /\ Started => offer'[r] # {}
          ELSE token[r] = sid
    <3>1. ASSUME NEW r \in Ranks, Parked(r)', waits /\ r = q
          PROVE  pc[r] = "training" /\ token[r] = sid
      BY <1>1, <1>3, <3>1 DEF Parked, Changed, Average
    <3>2. ASSUME NEW r \in Ranks, Parked(r)', ~(waits /\ r = q)
          PROVE  Parked(r) /\ offer'[r] = offer[r]
      BY <1>3, <3>2 DEF Parked
    <3>3. QED BY <3>1, <3>2 DEF CurrentMembers
  <2>4. \A r \in Ranks : \A m \in offer'[r] :
          m.kind = "joined" => m \in offer[r]
    BY <1>5 DEF Changed, Average
  <2>5. QED
    BY <1>6, <2>1, <2>2, <2>3, <2>4 DEF CurrentMembers
<1>16. CurrentProgress'
  <2> SUFFICES ASSUME Started PROVE CurrentProgress'
    BY <1>6 DEF CurrentProgress
  <2>1. PICK h \in completed \cup {resume} : Progress(h)
    BY DEF CurrentProgress
  <2>2. Frontier(h)'
    BY <1>3, <2>1 DEF Progress, Frontier
  <2>3. \A m \in late : m.rank \in Ranks
    BY DEF Request
  <2>4. s = sid => /\ resume < n /\ n <= h + 1 /\ HasEntered(q)
                   /\ n = h + 1 /\ token[q] = sid => step[q] = h
    BY <1>12, <2>1, ReduceRequestFacts
  <2>5. \A r \in Ranks : token[r] = sid /\ MayAdvance(r)' => step[r] = h - 1
    BY <1>8, <1>12, <2>1 DEF Progress
  <2>6. \A k \in Rounds : values'[k] # {} => k <= h + 1 /\ resume < k
    BY <1>4, <2>1, <2>4 DEF Progress
  <2>7. \A k \in Rounds : \A r \in values'[k] :
          k = h + 1 => HasEntered(r) /\ (token[r] = sid => step[r] = h)
    BY <1>4, <2>1, <2>4 DEF Progress
  <2>8. Progress(h)'
    BY <1>6, <2>1, <2>2, <2>3, <2>5, <2>6, <2>7 DEF Progress
  <2>9. QED
    BY <1>3, <2>1, <2>8 DEF CurrentProgress
<1>17. QED
  BY <1>9, <1>10, <1>11, <1>13, <1>14, <1>15, <1>16

\* The last contribution: the session's next round, or one the cache forgot.
LEMMA CompleteIInv ==
  ASSUME IInv, TypeOK', NEW q \in Ranks, NEW n \in Nat, NEW s \in Nat,
         NEW waits \in BOOLEAN, ReduceRequest(q, n, s, waits),
         Complete(q, n, s, waits),
         UNCHANGED workerVars, UNCHANGED sessionVars, late' \subseteq late
  PROVE  IInv'
<1> USE DEF IInv, TypeOK, workerVars, sessionVars
<1>1. /\ waits => /\ call[q] = "sent" /\ pc[q] = "training" /\ s = token[q]
                  /\ n = step[q] + 1 /\ offer[q] = {}
      /\ n \in Rounds /\ s > 0 /\ n <= MaxStep
      /\ s = sid /\ Started /\ n \notin completed
      /\ values[n] \cup {q} = Ranks
  BY DEF ReduceRequest, Attempts, Complete, Accepted, IsFull
<1>2. PICK h \in completed \cup {resume} : Progress(h)
  BY <1>1 DEF CurrentProgress
<1>3. /\ h \in Nat /\ resume \in Nat /\ resume <= h /\ Frontier(h)
      /\ resume < n /\ n <= h + 1 /\ HasEntered(q)
      /\ n = h + 1 /\ token[q] = sid => step[q] = h
  <2>1. h \in Nat /\ resume \in Nat /\ n \in Nat
    OBVIOUS
  <2>2. Frontier(h) /\ resume <= h
    BY <1>2 DEF Progress, Frontier
  <2>3. QED BY <1>1, <1>2, <2>1, <2>2, ReduceRequestFacts
<1>4. \A r \in Ranks :
        call'[r] = IF waits /\ r = q THEN "parked" ELSE call[r]
  BY DEF Complete
<1>5. \A r \in Ranks :
        offer'[r] = IF /\ pc[r] = "training" /\ step[r] + 1 = n
                       /\ call'[r] = "parked" /\ Changed \notin offer[r]
                    THEN {Average(n)} ELSE offer[r]
  BY DEF Complete
<1>6. \A r \in Ranks : call'[r] = "parked" /\ pc[r] = "training" /\ Changed \notin offer[r]
                         => token[r] = sid
  BY <1>1, <1>4 DEF CurrentMembers, Parked
\* Who is answered stands at the frontier, and then n is the next round.
<1>7. \A r \in Ranks : token[r] = sid /\ step[r] + 1 = n => n = h + 1 /\ step[r] = h
  <2>1. ASSUME NEW r \in Ranks, token[r] = sid, step[r] + 1 = n
        PROVE  n = h + 1 /\ step[r] = h
    <3>1. step[r] \in {h - 1, h}
      BY <1>2, <2>1 DEF Progress
    <3>2. n # h
      BY <1>1, <1>3 DEF Frontier
    <3>3. QED BY <1>3, <2>1, <3>1, <3>2
  <2>2. QED BY <2>1
<1>8. \A r \in Ranks : \A m \in offer'[r] :
        \/ m \in offer[r]
        \/ /\ m = Average(n) /\ pc[r] = "training" /\ token[r] = sid /\ step[r] + 1 = n
           /\ n = h + 1 /\ step[r] = h
  BY <1>5, <1>6, <1>7
<1>9. Started' = Started /\ \A r \in Ranks : HasEntered(r)' = HasEntered(r)
  BY DEF Started, HasEntered
\* When the next round is full, every member has entered and stands at h.
<1>10. n = h + 1 => \A r \in Ranks : HasEntered(r) /\ (token[r] = sid => step[r] = h)
  <2>1. ASSUME n = h + 1, NEW r \in Ranks
        PROVE  HasEntered(r) /\ (token[r] = sid => step[r] = h)
    <3>1. CASE r \in values[n]
      BY <1>1, <1>2, <2>1, <3>1 DEF Progress
    <3>2. CASE r = q
      BY <1>3, <2>1, <3>2
    <3>3. QED BY <1>1, <3>1, <3>2
  <2>2. QED BY <2>1
<1>11. \A r \in Ranks : MayAdvance(r)' =>
         MayAdvance(r) \/ (token[r] = sid /\ n = h + 1 /\ step[r] = h)
  BY <1>8 DEF MayAdvance
<1>12. Fresh'
  BY <1>8 DEF Fresh, Average
<1>13. Bounded'
  <2>1. \A r \in Ranks : \A m \in offer'[r] : m.step <= MaxStep
    BY <1>1, <1>8 DEF Bounded, Average
  <2>2. \A k \in completed' : k <= MaxStep
    BY <1>1 DEF Bounded, Complete
  <2>3. QED BY <2>1, <2>2 DEF Bounded
<1>14. Attempts'
  <2>1. \A r \in Ranks : call'[r] # "parked" => offer'[r] = {}
    BY <1>4, <1>5 DEF Attempts
  <2>2. \A r \in Ranks : pc[r] = "off" => call'[r] = "none" /\ token[r] = 0
    BY <1>1, <1>4 DEF Attempts
  <2>3. \A r \in Ranks : \A m \in offer'[r] :
          /\ m.kind = "joined" => pc[r] = "joining"
          /\ m.kind = "average" => pc[r] = "training" /\ m.step = step[r] + 1
          /\ m.kind = "changed" => m = Changed
    BY <1>8 DEF Attempts, Average
  <2>4. QED BY <2>1, <2>2, <2>3 DEF Attempts
<1>15. SessionLockstep'
  <2>1. ASSUME NEW p \in Ranks, NEW r \in Ranks, MayAdvance(p)', pc[p] = "training",
               pc[r] = "training", token[p] = token[r]
        PROVE  step[p] <= step[r]
    <3>1. CASE MayAdvance(p)
      BY <2>1, <3>1 DEF SessionLockstep
    <3>2. CASE ~MayAdvance(p)
      <4>1. token[p] = sid /\ n = h + 1 /\ step[p] = h
        BY <1>11, <2>1, <3>2
      <4>2. step[r] = h
        BY <1>10, <2>1, <4>1
      <4>3. QED BY <1>3, <4>1, <4>2
    <3>3. QED BY <3>1, <3>2
  <2>2. QED BY <2>1 DEF SessionLockstep
<1>16. SessionEntry'
  <2>1. ASSUME NEW r \in Ranks, NEW m \in offer'[r], m.kind = "joined"
        PROVE  m \in offer[r]
    BY <1>8, <2>1 DEF Average
  <2>2. ASSUME NEW r \in Ranks, NEW m \in offer[r], m.kind = "joined",
               NEW p \in Ranks, token[p] = m.session, MayAdvance(p)'
        PROVE  MayAdvance(p)
    <3> SUFFICES ASSUME ~MayAdvance(p) PROVE FALSE
      OBVIOUS
    <3>1. n = h + 1 /\ m.session = sid
      BY <1>11, <2>2
    <3>2. HasEntered(r)
      BY <1>10, <3>1
    <3>3. minc[r] = inc[r] /\ pc[r] = "joining"
      BY <2>2, <3>1 DEF CurrentMembers, Attempts
    <3>4. token[r] # sid
      BY <1>1, <3>3 DEF CurrentMembers
    <3>5. QED BY <3>2, <3>3, <3>4 DEF HasEntered
  <2>3. QED
    BY <2>1, <2>2 DEF SessionEntry
<1>17. CurrentMembers'
  <2>1. \A r \in Ranks : token[r] = sid => Changed \notin offer'[r]
    BY <1>1, <1>8 DEF CurrentMembers, Changed, Average
  <2>2. ASSUME NEW r \in Ranks, Parked(r)'
        PROVE  IF pc[r] = "joining"
               THEN r \in members /\ minc[r] = inc[r] /\ offer'[r] # {}
               ELSE token[r] = sid
    <3>1. CASE pc[r] = "joining"
      <4>1. offer'[r] = offer[r] /\ ~(waits /\ r = q)
        BY <1>1, <1>5, <3>1
      <4>2. Parked(r)
        BY <1>4, <2>2, <4>1 DEF Parked
      <4>3. QED BY <1>1, <3>1, <4>1, <4>2 DEF CurrentMembers
    <3>2. CASE waits /\ r = q
      BY <1>1, <3>2
    <3>3. CASE pc[r] # "joining" /\ ~(waits /\ r = q)
      <4>1. call[r] = "parked" /\ Changed \notin offer[r]
        BY <1>4, <1>5, <2>2, <3>3 DEF Parked, Average, Changed
      <4>2. QED BY <3>3, <4>1 DEF CurrentMembers, Parked
    <3>4. QED BY <3>1, <3>2, <3>3
  <2>3. \A r \in Ranks : \A m \in offer'[r] :
          m.kind = "joined" => m \in offer[r]
    BY <1>8 DEF Average
  <2>4. QED
    BY <1>1, <1>9, <2>1, <2>2, <2>3 DEF CurrentMembers
<1>18. /\ completed' = (completed \cup {n}) \ {n - Window}
       /\ \A k \in Rounds : values'[k] = IF k = n THEN {} ELSE values[k]
  BY DEF Complete, Forgotten
<1>19. Window \in Nat \ {0} /\ n - Window < n
  BY CacheAssumption
<1>20. \A m \in late : m.rank \in Ranks /\ m.step \in Nat
  BY DEF Request
<1>21. CurrentProgress'
  <2>1. CASE n = h + 1
    <3>1. n \in completed' /\ Frontier(n)'
      BY <1>3, <1>18, <1>19, <2>1 DEF Frontier
    <3>2. \A r \in Ranks : token[r] = sid => step[r] = h
      BY <1>10, <2>1
    <3>3. \A k \in Rounds : values'[k] # {} => k <= h /\ resume < k
      BY <1>2, <1>18, <2>1, ConstantFacts DEF Progress
    <3>4. \A m \in late : m.kind = "reduce" /\ m.tag = sid => m.step <= h + 1
      BY <1>2 DEF Progress
    <3>5. Progress(n)'
      <4>1. \A r \in Ranks :
              /\ token'[r] = sid => /\ step'[r] \in {n - 1, n}
                                    /\ resume <= step'[r]
                                    /\ MayAdvance(r)' => step'[r] = n - 1
              /\ resume < n => HasEntered(r)'
        BY <1>3, <1>9, <1>10, <2>1, <3>2
      <4>2. \A k \in Rounds : values'[k] # {} => k < n + 1 /\ k <= n + 1 /\ resume < k
        BY <1>3, <2>1, <3>3, ConstantFacts
      <4>3. \A m \in late' :
              m.kind = "reduce" /\ m.tag = sid =>
                /\ resume < m.step /\ m.step <= n + 1 /\ m.step # n + 1
                /\ HasEntered(m.rank)'
        BY <1>2, <1>3, <1>9, <1>20, <2>1, <3>4 DEF Progress
      <4>4. QED
        BY <3>1, <4>1, <4>2, <4>3 DEF Progress
    <3>6. QED
      BY <3>1, <3>5 DEF CurrentProgress
  <2>2. CASE n # h + 1
    <3>1. n <= h /\ n # h
      BY <1>1, <1>3, <2>2 DEF Frontier
    <3>2. h \in completed' \cup {resume} /\ Frontier(h)'
      BY <1>2, <1>3, <1>18, <1>19, <3>1 DEF Frontier
    <3>3. \A r \in Ranks : MayAdvance(r)' => MayAdvance(r)
      BY <1>11, <2>2
    <3>4. Progress(h)'
      BY <1>2, <1>9, <1>18, <1>20, <3>2, <3>3 DEF Progress
    <3>5. QED
      BY <3>2, <3>4 DEF CurrentProgress
  <2>3. QED BY <2>1, <2>2
<1>22. QED
  BY <1>12, <1>13, <1>14, <1>15, <1>16, <1>17, <1>21

-----------------------------------------------------------------------------
(* The steps together. *)

LEMMA DeliverIInv ==
  ASSUME IInv, TypeOK', NEW r \in Ranks, Deliver(r)
  PROVE  IInv'
<1> USE DEF IInv, TypeOK
<1>1. call[r] = "sent" /\ Handle(RequestOf(r), TRUE) /\ UNCHANGED workerVars
      /\ late' \subseteq late /\ pc[r] # "off"
  BY DEF Deliver, netVars, Attempts
<1>2. CASE pc[r] = "joining"
  <2>1. Join(r, inc[r], step[r], TRUE)
    BY <1>1, <1>2 DEF Handle, RequestOf
  <2>2. JoinRequest(r, inc[r], step[r], TRUE)
    BY <1>1, <1>2 DEF JoinRequest, Bounded
  <2>3. inc[r] \in Nat /\ step[r] \in Nat
    OBVIOUS
  <2>4. QED
    BY <1>1, <2>1, <2>2, <2>3, FreshJoinIInv, CurrentJoinIInv
<1>3. CASE pc[r] = "training"
  <2>1. Reduce(r, step[r] + 1, token[r], TRUE) /\ UNCHANGED sessionVars
    BY <1>1, <1>3 DEF Handle, RequestOf
  <2>2. step[r] + 1 \in Rounds
    BY RoundAfter DEF Bounded
  <2>3. ReduceRequest(r, step[r] + 1, token[r], TRUE)
    BY <1>1, <1>3, <2>2 DEF ReduceRequest, Fresh
  <2>4. token[r] \in Nat /\ step[r] + 1 \in Nat
    OBVIOUS
  <2>5. QED
    BY <1>1, <2>1, <2>3, <2>4, QuietReduceIInv, CompleteIInv DEF Reduce
<1>4. QED BY <1>1, <1>2, <1>3

LEMMA DeliverLateIInv ==
  ASSUME IInv, TypeOK', DeliverLate
  PROVE  IInv'
<1> USE DEF IInv, TypeOK
<1>1. PICK m \in late : Handle(m, FALSE) /\ late' = late \ {m}
  BY DEF DeliverLate
<1>2. /\ m.rank \in Ranks /\ m.tag \in Nat /\ m.step \in Nat
      /\ UNCHANGED workerVars /\ late' \subseteq late
  BY <1>1 DEF DeliverLate, Request
<1>3. CASE m.kind = "join" /\ Join(m.rank, m.tag, m.step, FALSE)
  <2>1. JoinRequest(m.rank, m.tag, m.step, FALSE)
    BY <1>3 DEF JoinRequest, Fresh, Bounded
  <2>2. QED
    BY <1>2, <1>3, <2>1, FreshJoinIInv, CurrentJoinIInv
<1>4. CASE m.kind = "reduce" /\ Reduce(m.rank, m.step, m.tag, FALSE)
           /\ UNCHANGED sessionVars
  <2>1. ReduceRequest(m.rank, m.step, m.tag, FALSE)
    BY <1>4 DEF ReduceRequest, Fresh, Bounded
  <2>2. QED
    BY <1>2, <1>4, <2>1, QuietReduceIInv, CompleteIInv DEF Reduce
<1>5. QED BY <1>1, <1>3, <1>4 DEF Handle

LEMMA IInvNext == IInv /\ [Next]_vars => IInv'
<1> SUFFICES ASSUME IInv, [Next]_vars PROVE IInv'
  OBVIOUS
<1>0. TypeOK' /\ \A q \in Ranks : disk[q] <= MaxStep
  BY TypeNext DEF IInv, Bounded
<1>1. ASSUME NEW r \in Ranks, Start(r) PROVE IInv'
  BY <1>0, <1>1, StartIInv
<1>2. ASSUME NEW r \in Ranks, Crash(r) PROVE IInv'
  BY <1>0, <1>2, ExitIInv DEF Crash
<1>3. ASSUME NEW r \in Ranks, DeletePod(r) PROVE IInv'
  <2>1. \A q \in Ranks : disk'[q] <= MaxStep
    BY <1>0, <1>3, BoundsAssumption DEF DeletePod, IInv, TypeOK
  <2>2. QED BY <1>0, <1>3, <2>1, ExitIInv DEF DeletePod
<1>4. ASSUME NEW r \in Ranks, Send(r) \/ AttemptFails(r) \/ AttemptOutlivesClient(r)
      PROVE  IInv'
  BY <1>0, <1>4, AttemptIInv
<1>5. ASSUME NEW r \in Ranks, Deliver(r) PROVE IInv'
  BY <1>0, <1>5, DeliverIInv
<1>6. ASSUME NEW r \in Ranks, Receive(r) PROVE IInv'
  <2>1. CASE OnChanged(r)
    BY <1>0, <2>1, ChangedIInv
  <2>2. CASE OnJoined(r)
    BY <1>0, <2>2, JoinedIInv
  <2>3. CASE OnInvalidJoin(r)
    BY <1>0, <2>3, ExitIInv DEF OnInvalidJoin
  <2>4. CASE OnAverage(r)
    BY <1>0, <2>4, AverageIInv
  <2>5. QED BY <1>6, <2>1, <2>2, <2>3, <2>4 DEF Receive
<1>7. ASSUME NEW r \in Ranks, OnAverageThenInjectedCrash(r) PROVE IInv'
  <2>1. step[r] + 1 <= MaxStep
    BY <1>7 DEF OnAverageThenInjectedCrash, IInv, Attempts, Bounded
  <2>2. \A q \in Ranks : disk'[q] <= MaxStep
    BY <1>0, <1>7, <2>1 DEF OnAverageThenInjectedCrash, SaveCheckpoint, IInv, TypeOK
  <2>3. QED BY <1>0, <1>7, <2>2, ExitIInv DEF OnAverageThenInjectedCrash
<1>8. CASE DeliverLate
  BY <1>0, <1>8, DeliverLateIInv
<1>9. CASE UNCHANGED vars
  <2> USE <1>9 DEF vars, workerVars, callVars, sessionVars, roundVars, netVars
  <2>1. /\ Started' = Started
        /\ \A q \in Ranks : /\ MayAdvance(q)' = MayAdvance(q)
                            /\ Parked(q)' = Parked(q)
                            /\ HasEntered(q)' = HasEntered(q)
    BY DEF Started, MayAdvance, Parked, HasEntered
  <2>2. Fresh' /\ Bounded' /\ Attempts'
    BY DEF IInv, Fresh, Bounded, Attempts
  <2>3. SessionLockstep' /\ SessionEntry'
    BY <2>1 DEF IInv, SessionLockstep, SessionEntry
  <2>4. CurrentMembers'
    BY <2>1 DEF IInv, CurrentMembers
  <2>5. CurrentProgress'
    BY DEF IInv, CurrentProgress, Progress, Frontier, HasEntered, MayAdvance, Started
  <2>6. QED BY <1>0, <2>2, <2>3, <2>4, <2>5 DEF IInv
<1>10. QED
  BY <1>1, <1>2, <1>3, <1>4, <1>5, <1>6, <1>7, <1>8, <1>9 DEF Next

\* The inductive invariant holds for every world size, cache window, number of
\* pending rounds, step bound and number of crashes and late requests.
THEOREM InductiveInvariant == Spec => []IInv
BY IInvInit, IInvNext, PTL DEF Spec

-----------------------------------------------------------------------------
(* What the inductive invariant gives. *)

LEMMA IInvLockstep == IInv => Lockstep
BY DEF IInv, SessionLockstep, Lockstep

\* The barrier: whatever crashes, times out or arrives late, two ranks that
\* train in the same session are at most one step apart.
THEOREM LockstepHolds == Spec => []Lockstep
BY InductiveInvariant, IInvLockstep, PTL

LEMMA IInvTrainsAsMember == IInv => TrainsAsMember
<1> SUFFICES ASSUME IInv, NEW r \in Ranks, InSession(r)
             PROVE  Started /\ minc[r] = inc[r]
  BY DEF TrainsAsMember
<1>1. token[r] = sid /\ sid > 0
  BY DEF InSession, IInv, Fresh, TypeOK
<1>2. QED
  BY <1>1 DEF IInv, CurrentMembers

\* Only the registered process of a rank trains in the current session.
THEOREM TrainsAsMemberHolds == Spec => []TrainsAsMember
BY InductiveInvariant, IInvTrainsAsMember, PTL

LEMMA IInvRetryIsAnswerable == IInv => RetryIsAnswerable
<1> SUFFICES ASSUME IInv, NEW p \in Ranks, NEW q \in Ranks,
                    InSession(p), InSession(q), step[p] < step[q]
             PROVE  step[p] + 1 \in completed
  BY DEF RetryIsAnswerable
<1> USE DEF IInv, TypeOK
<1>1. token[p] = sid /\ token[q] = sid /\ Started
  BY IInvTrainsAsMember DEF TrainsAsMember, InSession
<1>2. PICK h \in completed \cup {resume} : Progress(h)
  BY <1>1 DEF CurrentProgress
<1>3. /\ step[p] \in {h - 1, h} /\ step[q] \in {h - 1, h}
      /\ resume <= step[p] /\ h \in Nat
  BY <1>1, <1>2 DEF Progress
<1>4. step[p] + 1 = h /\ h # resume
  BY <1>3
<1>5. QED
  BY <1>2, <1>4

\* The cache of completed averages, however small, holds every round a member
\* of the current session may have to ask for again.
THEOREM RetryIsAnswerableHolds == Spec => []RetryIsAnswerable
BY InductiveInvariant, IInvRetryIsAnswerable, PTL

-----------------------------------------------------------------------------
(* The collective implements SessionBarrier. *)

LEMMA BarrierInit == Init => Barrier!Init
BY DEF Init, Barrier!Init, At, Done

\* A process that ends leaves its session, if it was in one.
LEMMA ExitLeaves ==
  ASSUME IInv, NEW r \in Ranks, Exit(r)
  PROVE  Barrier!Leave(r) \/ UNCHANGED <<At, Done>>
<1> USE DEF IInv, TypeOK
<1>1. pc' = [pc EXCEPT ![r] = "off"] /\ \A q \in Ranks : q # r =>
        token'[q] = token[q] /\ step'[q] = step[q]
  BY DEF Exit
<1>2. At' = [At EXCEPT ![r] = 0] /\ Done' = [Done EXCEPT ![r] = 0]
  BY <1>1 DEF At, Done
<1>3. CASE pc[r] = "training"
  <2>1. At[r] # 0
    BY <1>3 DEF At, Fresh
  <2>2. QED BY <1>2, <2>1 DEF Barrier!Leave
<1>4. CASE pc[r] # "training"
  BY <1>2, <1>4 DEF At, Done
<1>5. QED BY <1>3, <1>4

LEMMA BarrierStep == IInv /\ [Next]_vars => [Barrier!Next]_<<At, Done>>
<1> SUFFICES ASSUME IInv, [Next]_vars PROVE [Barrier!Next]_<<At, Done>>
  OBVIOUS
<1> USE DEF IInv, TypeOK
<1>1. UNCHANGED workerVars => UNCHANGED <<At, Done>>
  BY DEF workerVars, At, Done
<1>2. ASSUME NEW r \in Ranks, Start(r) PROVE UNCHANGED <<At, Done>>
  BY <1>2 DEF Start, At, Done
<1>3. ASSUME NEW r \in Ranks,
             \/ Crash(r) \/ DeletePod(r) \/ OnInvalidJoin(r)
             \/ OnAverageThenInjectedCrash(r)
      PROVE  Barrier!Leave(r) \/ UNCHANGED <<At, Done>>
  BY <1>3, ExitLeaves
     DEF Crash, DeletePod, OnInvalidJoin, OnAverageThenInjectedCrash
<1>4. ASSUME NEW r \in Ranks, OnChanged(r)
      PROVE  Barrier!Leave(r) \/ UNCHANGED <<At, Done>>
  <2>1. pc' = [pc EXCEPT ![r] = "joining"] /\ UNCHANGED <<token, step>>
    BY <1>4 DEF OnChanged
  <2>2. At' = [At EXCEPT ![r] = 0] /\ Done' = [Done EXCEPT ![r] = 0]
    BY <2>1 DEF At, Done
  <2>3. pc[r] = "training" => At[r] # 0
    BY DEF At, Fresh
  <2>4. pc[r] # "training" => UNCHANGED <<At, Done>>
    BY <2>2 DEF At, Done
  <2>5. QED BY <2>2, <2>3, <2>4 DEF Barrier!Leave
<1>5. ASSUME NEW r \in Ranks, OnJoined(r) PROVE Barrier!Enter(r)
  <2>1. PICK j \in offer[r] :
          /\ j.kind = "joined"
          /\ pc' = [pc EXCEPT ![r] = "training"]
          /\ step' = [step EXCEPT ![r] = j.step]
          /\ token' = [token EXCEPT ![r] = j.session]
    BY <1>5 DEF OnJoined
  <2>2. pc[r] = "joining" /\ j.session \in Nat \ {0} /\ j.step \in Nat
    BY <2>1 DEF Attempts, Fresh, Reply
  <2>3. /\ At[r] = 0 /\ At'[r] = j.session /\ Done'[r] = j.step
        /\ At' = [At EXCEPT ![r] = j.session]
        /\ Done' = [Done EXCEPT ![r] = j.step]
    BY <2>1, <2>2 DEF At, Done
  <2>4. \A q \in Ranks : At[q] = j.session => Done[q] = j.step
    BY <2>1, <2>2 DEF SessionEntry, At, Done
  <2>5. QED
    BY <2>2, <2>3, <2>4 DEF Barrier!Enter
<1>6. ASSUME NEW r \in Ranks, OnAverage(r) PROVE Barrier!Advance(r)
  <2>1. /\ MayAdvance(r) /\ pc' = pc /\ token' = token
        /\ step' = [step EXCEPT ![r] = @ + 1]
    BY <1>6 DEF OnAverage, MayAdvance
  <2>2. pc[r] = "training" /\ token[r] > 0
    BY <2>1 DEF MayAdvance, Attempts, Fresh
  <2>3. At' = At /\ At[r] # 0 /\ Done' = [Done EXCEPT ![r] = @ + 1]
    <3>1. At' = At /\ At[r] # 0
      BY <2>1, <2>2 DEF At
    <3>2. /\ Done \in [Ranks -> Nat] /\ Done[r] = step[r]
          /\ Done' = [Done EXCEPT ![r] = step[r] + 1]
      BY <2>1, <2>2 DEF Done
    <3>3. QED BY <3>1, <3>2
  <2>4. \A q \in Ranks : At[q] = At[r] => Done[r] <= Done[q]
    BY <2>1, <2>2 DEF SessionLockstep, At, Done
  <2>5. QED
    BY <2>3, <2>4 DEF Barrier!Advance
<1>7. ASSUME NEW r \in Ranks,
             \/ Send(r) \/ AttemptFails(r) \/ AttemptOutlivesClient(r) \/ Deliver(r)
      PROVE  UNCHANGED workerVars
  BY <1>7 DEF Send, AttemptFails, AttemptOutlivesClient, Deliver
<1>8. DeliverLate \/ UNCHANGED vars => UNCHANGED workerVars
  BY DEF DeliverLate, vars
<1>9. QED
  BY <1>1, <1>2, <1>3, <1>4, <1>5, <1>6, <1>7, <1>8
     DEF Next, Receive, Barrier!Next

\* The collective is a barrier per session: every behaviour of it, with all its
\* faults, is one of SessionBarrier.
THEOREM BarrierImplemented == Spec => ImplementsBarrier
<1>1. IInv /\ [Next]_vars => [Barrier!Next]_<<At, Done>>
  BY BarrierStep
<1>2. QED
  BY BarrierInit, <1>1, InductiveInvariant, PTL
     DEF Spec, ImplementsBarrier, Barrier!Spec
-----------------------------------------------------------------------------
(* Checkpoints, and the pending round, until a request outlives its client. *)

LEMMA PromptInit == Init => PromptInv
<1> SUFFICES ASSUME Init PROVE PromptInv
  OBVIOUS
<1>1. members = {} /\ members # Ranks
  BY ConstantFacts DEF Init
<1>2. CheckpointNotAhead /\ late = {} /\ Records /\ Resumes /\ Admissions /\ PendingAfter
  BY <1>1 DEF Init, CheckpointNotAhead, Records, Resumes, Admissions, PendingAfter, Started
<1>3. QED
  BY <1>2 DEF PromptInv, Prompt

\* A file is saved with the step of its process, which only goes back when the file does.
LEMMA CheckpointNext ==
  ASSUME IInv, CheckpointNotAhead, [Next]_vars
  PROVE  CheckpointNotAhead'
<1> USE DEF IInv, TypeOK
<1>1. CASE UNCHANGED workerVars
  BY <1>1 DEF workerVars, CheckpointNotAhead
<1>2. ASSUME NEW r \in Ranks, Start(r) PROVE CheckpointNotAhead'
  BY <1>2 DEF Start, LoadCheckpoint, CheckpointNotAhead
<1>3. ASSUME NEW r \in Ranks, Exit(r), \A q \in Ranks : q # r => disk'[q] = disk[q]
      PROVE  CheckpointNotAhead'
  BY <1>3 DEF Exit, CheckpointNotAhead
<1>4. ASSUME NEW r \in Ranks, OnChanged(r) PROVE CheckpointNotAhead'
  <2>1. pc[r] # "off"
    BY <1>4 DEF OnChanged, Attempts
  <2>2. QED
    BY <1>4, <2>1 DEF OnChanged, CheckpointNotAhead
<1>5. ASSUME NEW r \in Ranks, OnJoined(r) PROVE CheckpointNotAhead'
  <2>1. PICK m \in offer[r] :
          /\ pc' = [pc EXCEPT ![r] = "training"] /\ step' = [step EXCEPT ![r] = m.step]
          /\ disk' = [disk EXCEPT ![r] = m.step]
    BY <1>5 DEF OnJoined, SaveCheckpoint
  <2>2. m.step \in Nat
    BY <2>1 DEF Reply
  <2>3. QED
    BY <2>1, <2>2 DEF CheckpointNotAhead
<1>6. ASSUME NEW r \in Ranks, OnAverage(r) PROVE CheckpointNotAhead'
  <2>1. pc[r] # "off"
    BY <1>6 DEF OnAverage, Attempts
  <2>2. /\ pc' = pc /\ step' = [step EXCEPT ![r] = @ + 1]
        /\ disk' = [disk EXCEPT ![r] = step[r] + 1] \/ disk' = disk
    BY <1>6 DEF OnAverage, SaveCheckpoint
  <2>3. QED
    BY <2>1, <2>2 DEF CheckpointNotAhead
<1>7. ASSUME NEW r \in Ranks,
             Crash(r) \/ DeletePod(r) \/ OnInvalidJoin(r) \/ OnAverageThenInjectedCrash(r)
      PROVE  CheckpointNotAhead'
  <2>1. Exit(r) /\ \A q \in Ranks : q # r => disk'[q] = disk[q]
    BY <1>7 DEF Crash, DeletePod, OnInvalidJoin, OnAverageThenInjectedCrash, SaveCheckpoint
  <2>2. QED
    BY <1>3, <2>1
<1>8. ASSUME NEW r \in Ranks,
             \/ Send(r) \/ AttemptFails(r) \/ AttemptOutlivesClient(r) \/ Deliver(r)
      PROVE  UNCHANGED workerVars
  BY <1>8 DEF Send, AttemptFails, AttemptOutlivesClient, Deliver
<1>9. DeliverLate \/ UNCHANGED vars => UNCHANGED workerVars
  BY DEF DeliverLate, vars
<1>10. QED
  BY <1>1, <1>2, <1>4, <1>5, <1>6, <1>7, <1>8, <1>9 DEF Next, Receive

\* In a session that has started Admissions says nothing that the members' records and the
\* resume step do not say already.
LEMMA StartedAdmits == IInv /\ Records /\ Resumes /\ Started => Admissions
<1> USE DEF IInv, TypeOK
<1> SUFFICES ASSUME IInv, Records, Resumes, Started,
                    NEW r \in Ranks, NEW m \in offer[r], m.kind = "joined"
             PROVE  /\ m.step <= step[r]
                    /\ \E q \in Ranks : disk[q] <= m.step
                    /\ \A q \in Ranks :
                         /\ pc[q] = "training" => token[q] = m.session
                         /\ \A k \in offer[q] : k.kind = "joined" => k.session = m.session
  BY DEF Admissions
<1>1. m.session = sid /\ pc[r] = "joining" /\ r \in members
  BY DEF Records, Started, Attempts
<1>2. m.step = resume /\ minc[r] = inc[r]
  BY <1>1 DEF CurrentMembers
<1>3. sid > 0 /\ token[r] # sid
  BY <1>1 DEF Fresh, CurrentMembers
<1>4. ~HasEntered(r)
  BY <1>1, <1>2, <1>3 DEF HasEntered
<1>5. resume <= mstep[r] /\ mstep[r] <= step[r]
  BY <1>1, <1>2, <1>3 DEF Resumes, Records
<1>6. \E q \in Ranks : disk[q] <= resume
  BY <1>4 DEF Resumes
<1>7. \A q \in Ranks : /\ pc[q] = "training" => token[q] = m.session
                       /\ \A k \in offer[q] : k.kind = "joined" => k.session = m.session
  BY <1>1 DEF Records, Started
<1>8. QED
  BY <1>2, <1>5, <1>6, <1>7

LEMMA StartedAdmitsNext == IInv' /\ Records' /\ Resumes' /\ Started' => Admissions'
BY StartedAdmits, PTL

\* When a rank has an average to take, everyone has entered its session.
LEMMA NobodyEnters ==
  ASSUME IInv, Prompt, NEW r \in Ranks, MayAdvance(r)
  PROVE  /\ pc[r] = "training" /\ (r \in members => token[r] = sid /\ Started)
         /\ Started => \A q \in Ranks : HasEntered(q)
         /\ \A q \in Ranks : \A m \in offer[q] : m.kind # "joined"
<1> USE DEF IInv, TypeOK
<1>1. pc[r] = "training"
  BY DEF MayAdvance, Attempts
<1>2. r \in members => token[r] = sid /\ Started
  BY <1>1 DEF Prompt, Records, Fresh, CurrentMembers
<1>3. ASSUME Started PROVE \A q \in Ranks : HasEntered(q)
  <2>1. token[r] = sid
    BY <1>2, <1>3 DEF Started
  <2>2. PICK h \in completed \cup {resume} : Progress(h)
    BY <1>3 DEF CurrentProgress
  <2>3. h \in Nat /\ step[r] = h - 1 /\ resume <= step[r]
    BY <2>1, <2>2 DEF Progress
  <2>4. resume < h
    BY <2>3
  <2>5. QED
    BY <2>2, <2>4 DEF Progress
<1>4. ASSUME NEW q \in Ranks, NEW m \in offer[q], m.kind = "joined" PROVE FALSE
  <2>1. token[r] = m.session
    BY <1>1, <1>4 DEF Prompt, Admissions
  <2>2. QED
    BY <1>1, <1>4, <2>1 DEF SessionEntry
<1>5. QED
  BY <1>1, <1>2, <1>3, <1>4

\* Steps that leave the processes and the session alone and admit nobody.
LEMMA QuietPrompt ==
  ASSUME IInv, Prompt, UNCHANGED <<workerVars, sessionVars>>,
         \A r \in Ranks : \A m \in offer'[r] : m.kind = "joined" => m \in offer[r]
  PROVE  Records' /\ Resumes' /\ Admissions'
<1>1. UNCHANGED <<pc, inc, step, disk, token, sid, members, minc, mstep, resume>>
  BY DEF workerVars, sessionVars
<1>2. Records'
  <2>1. members \subseteq Ranks
    BY DEF IInv, TypeOK
  <2>2. QED
    BY <1>1, <2>1 DEF Prompt, Records, Started
<1>3. Resumes'
  BY <1>1 DEF Prompt, Resumes, Started, HasEntered
<1>4. Admissions'
  BY <1>1 DEF Prompt, Admissions
<1>5. QED
  BY <1>2, <1>3, <1>4

LEMMA StartPrompt ==
  ASSUME IInv, Prompt, NEW r \in Ranks, Start(r)
  PROVE  Prompt'
<1> USE DEF IInv, TypeOK
<1>1. /\ pc[r] = "off" /\ pc' = [pc EXCEPT ![r] = "joining"] /\ inc' = [inc EXCEPT ![r] = @ + 1]
      /\ \A q \in Ranks : q # r => step'[q] = step[q]
      /\ UNCHANGED <<disk, token, offer, sid, members, minc, mstep, resume, values, completed,
                     late>>
  BY DEF Start, callVars, sessionVars, roundVars, netVars
<1>2. offer[r] = {} /\ (r \in members => minc[r] # inc'[r])
  BY <1>1 DEF Attempts, Fresh
<1>3. Records'
  BY <1>1, <1>2 DEF Prompt, Records, Started
<1>4. Resumes'
  <2>1. \A q \in Ranks : HasEntered(q) => HasEntered(q)' \/ q \notin members
    <3>1. r \in members => minc[r] < inc'[r]
      BY <1>1 DEF Fresh
    <3>2. QED
      BY <1>1, <3>1 DEF HasEntered
  <2>2. QED
    BY <1>1, <2>1 DEF Prompt, Resumes, Started
<1>5. Admissions'
  <2> SUFFICES ASSUME NEW q \in Ranks, NEW m \in offer[q], m.kind = "joined"
               PROVE  /\ m.step <= step'[q]
                      /\ \E x \in Ranks : disk[x] <= m.step
                      /\ \A x \in Ranks :
                           /\ pc'[x] = "training" => token[x] = m.session
                           /\ \A k \in offer[x] : k.kind = "joined" => k.session = m.session
    BY <1>1 DEF Admissions
  <2>1. q # r
    BY <1>2
  <2>2. QED
    BY <1>1, <2>1 DEF Prompt, Admissions
<1>6. QED
  BY <1>1, <1>3, <1>4, <1>5 DEF Prompt, PendingAfter, Started

\* A process ends, with its file as it was, without it, or just saved.
LEMMA ExitPrompt ==
  ASSUME IInv, Prompt, NEW r \in Ranks, Exit(r), disk' \in [Ranks -> Nat],
         \A q \in Ranks : q # r => disk'[q] = disk[q],
         disk'[r] <= disk[r] \/ MayAdvance(r)
  PROVE  Prompt'
<1> USE DEF IInv, TypeOK
<1>1. CASE r = Coordinator
  <2>1. members' = {} /\ late' = {} /\ \A q \in Ranks : offer'[q] = {}
    BY <1>1 DEF Exit
  <2>2. ~Started'
    BY <2>1, ConstantFacts DEF Started
  <2>3. QED
    BY <2>1, <2>2 DEF Prompt, Records, Resumes, Admissions, PendingAfter
<1>2. CASE r # Coordinator
  <2>1. /\ pc' = [pc EXCEPT ![r] = "off"] /\ offer' = [offer EXCEPT ![r] = {}]
        /\ \A q \in Ranks : q # r => step'[q] = step[q] /\ token'[q] = token[q]
        /\ UNCHANGED <<inc, sid, members, minc, mstep, resume, values, completed, late>>
    BY <1>2 DEF Exit, roundVars
  <2>2. Records'
    <3> SUFFICES ASSUME NEW q \in members
                 PROVE  /\ pc'[q] = "training" => token'[q] = sid
                        /\ \A m \in offer'[q] : m.kind = "joined" => m.session = sid
                        /\ ~Started => disk'[q] <= mstep[q]
                        /\ pc'[q] # "off" /\ minc[q] = inc[q] /\ token'[q] # sid
                             => mstep[q] <= step'[q]
      BY <2>1 DEF Records, Started
    <3>1. CASE q # r
      BY <2>1, <3>1 DEF Prompt, Records
    <3>2. CASE q = r
      <4>1. pc'[q] = "off" /\ offer'[q] = {}
        BY <2>1, <3>2
      <4>2. ~Started => disk'[q] <= disk[q]
        BY <3>2, NobodyEnters
      <4>3. ~Started => disk[q] <= mstep[q]
        BY DEF Prompt, Records
      <4>4. QED
        BY <4>1, <4>2, <4>3
    <3>3. QED
      BY <3>1, <3>2
  <2>3. Resumes'
    <3> SUFFICES ASSUME Started, NEW q \in Ranks, ~HasEntered(q)'
                 PROVE  \E x \in Ranks : disk'[x] <= resume
      BY <2>1 DEF Prompt, Resumes, Started
    <3>1. ~HasEntered(q)
      BY <2>1 DEF HasEntered
    <3>2. PICK x \in Ranks : disk[x] <= resume
      BY <3>1 DEF Prompt, Resumes
    <3>3. disk'[x] <= disk[x]
      BY <3>1, NobodyEnters
    <3>4. QED
      BY <3>2, <3>3
  <2>4. Admissions'
    <3> SUFFICES ASSUME NEW q \in Ranks, NEW m \in offer'[q], m.kind = "joined"
                 PROVE  /\ m.step <= step'[q]
                        /\ \E x \in Ranks : disk'[x] <= m.step
                        /\ \A x \in Ranks :
                             /\ pc'[x] = "training" => token'[x] = m.session
                             /\ \A k \in offer'[x] :
                                  k.kind = "joined" => k.session = m.session
      BY DEF Admissions
    <3>1. q # r /\ m \in offer[q] /\ m.step \in Nat
      BY <2>1 DEF Reply
    <3>2. PICK x \in Ranks : disk[x] <= m.step
      BY <3>1 DEF Prompt, Admissions
    <3>3. disk'[x] <= disk[x]
      BY <3>1, NobodyEnters
    <3>4. \E y \in Ranks : disk'[y] <= m.step
      BY <3>1, <3>2, <3>3
    <3>5. \A y \in Ranks : /\ pc'[y] = "training" => token'[y] = m.session
                           /\ \A k \in offer'[y] : k.kind = "joined" => k.session = m.session
      BY <2>1, <3>1 DEF Prompt, Admissions
    <3>6. QED
      BY <2>1, <3>1, <3>4, <3>5 DEF Prompt, Admissions
  <2>5. QED
    BY <2>1, <2>2, <2>3, <2>4 DEF Prompt, PendingAfter, Started
<1>3. QED
  BY <1>1, <1>2

LEMMA ChangedPrompt ==
  ASSUME IInv, Prompt, NEW r \in Ranks, OnChanged(r)
  PROVE  Prompt'
<1> USE DEF IInv, TypeOK
<1>1. /\ pc' = [pc EXCEPT ![r] = "joining"] /\ offer' = [offer EXCEPT ![r] = {}]
      /\ UNCHANGED <<inc, step, disk, token, sid, members, minc, mstep, resume, values,
                     completed, late>>
  BY DEF OnChanged, HangUp, sessionVars, roundVars
<1>2. pc[r] # "off"
  BY DEF OnChanged, Attempts
<1>3. Records'
  BY <1>1, <1>2 DEF Prompt, Records, Started
<1>4. Resumes'
  <2>1. \A q \in Ranks : HasEntered(q)' <=> HasEntered(q)
    BY <1>1, <1>2 DEF HasEntered
  <2>2. QED
    BY <1>1, <2>1 DEF Prompt, Resumes, Started
<1>5. Admissions'
  BY <1>1 DEF Prompt, Admissions
<1>6. QED
  BY <1>1, <1>3, <1>4, <1>5 DEF Prompt, PendingAfter, Started

LEMMA JoinedPrompt ==
  ASSUME IInv, Prompt, NEW r \in Ranks, OnJoined(r)
  PROVE  Prompt'
<1> USE DEF IInv, TypeOK
<1>1. PICK m \in offer[r] :
        /\ m.kind = "joined" /\ m.step <= step[r]
        /\ pc' = [pc EXCEPT ![r] = "training"] /\ offer' = [offer EXCEPT ![r] = {}]
        /\ step' = [step EXCEPT ![r] = m.step] /\ disk' = [disk EXCEPT ![r] = m.step]
        /\ token' = [token EXCEPT ![r] = m.session]
        /\ UNCHANGED <<inc, sid, members, minc, mstep, resume, values, completed, late>>
  BY DEF OnJoined, ValidStep, HangUp, SaveCheckpoint, sessionVars, roundVars
<1>2. m.step \in Nat /\ m.session \in Nat /\ pc[r] = "joining"
  BY <1>1 DEF Reply, Attempts
<1>3. r \in members => m.session = sid /\ Started /\ m.step = resume
  BY <1>1 DEF Prompt, Records, CurrentMembers
<1>4. Records'
  BY <1>1, <1>2, <1>3 DEF Prompt, Records, Started
<1>5. Resumes'
  <2> SUFFICES ASSUME Started PROVE \E x \in Ranks : disk'[x] <= resume
    BY <1>1 DEF Prompt, Resumes, Started
  <2>1. disk'[r] = resume
    BY <1>1, <1>2, <1>3 DEF Started
  <2>2. QED
    BY <2>1
<1>6. Admissions'
  <2> SUFFICES ASSUME NEW q \in Ranks, NEW j \in offer'[q], j.kind = "joined"
               PROVE  /\ j.step <= step'[q]
                      /\ \E x \in Ranks : disk'[x] <= j.step
                      /\ \A x \in Ranks :
                           /\ pc'[x] = "training" => token'[x] = j.session
                           /\ \A k \in offer'[x] : k.kind = "joined" => k.session = j.session
    BY DEF Admissions
  <2>1. q # r /\ j \in offer[q]
    BY <1>1
  <2>2. m.session = j.session
    BY <1>1, <2>1 DEF Prompt, Admissions
  <2>3. m.step = j.step
    BY <1>1, <2>1, <2>2 DEF SessionEntry
  <2>4. \E x \in Ranks : disk'[x] <= j.step
    <3>1. disk'[r] = j.step
      BY <1>1, <2>3
    <3>2. QED
      BY <1>2, <2>3, <3>1
  <2>5. j.step <= step'[q]
    BY <1>1, <2>1 DEF Prompt, Admissions
  <2>6. \A x \in Ranks : /\ pc'[x] = "training" => token'[x] = j.session
                         /\ \A k \in offer'[x] : k.kind = "joined" => k.session = j.session
    BY <1>1, <2>1, <2>2 DEF Prompt, Admissions
  <2>7. QED
    BY <2>4, <2>5, <2>6
<1>7. QED
  BY <1>1, <1>4, <1>5, <1>6 DEF Prompt, PendingAfter, Started

LEMMA AveragePrompt ==
  ASSUME IInv, Prompt, NEW r \in Ranks, OnAverage(r)
  PROVE  Prompt'
<1> USE DEF IInv, TypeOK
<1>1. /\ offer' = [offer EXCEPT ![r] = {}] /\ step' = [step EXCEPT ![r] = @ + 1]
      /\ disk' = [disk EXCEPT ![r] = step[r] + 1] \/ disk' = disk
      /\ UNCHANGED <<pc, inc, token, sid, members, minc, mstep, resume, values, completed, late>>
  BY DEF OnAverage, HangUp, SaveCheckpoint, sessionVars, roundVars
<1>2. MayAdvance(r)
  BY DEF OnAverage, MayAdvance
<1>3. /\ r \in members => token[r] = sid /\ Started
      /\ Started => \A q \in Ranks : HasEntered(q)
      /\ \A q \in Ranks : \A m \in offer[q] : m.kind # "joined"
  BY <1>2, NobodyEnters
<1>4. Records'
  BY <1>1, <1>3 DEF Prompt, Records, Started
<1>5. Resumes'
  <2>1. Started => \A q \in Ranks : HasEntered(q)'
    BY <1>1, <1>3 DEF HasEntered
  <2>2. QED
    BY <1>1, <2>1 DEF Prompt, Resumes, Started
<1>6. Admissions'
  BY <1>1, <1>3 DEF Admissions
<1>7. QED
  BY <1>1, <1>4, <1>5, <1>6 DEF Prompt, PendingAfter, Started

\* What a join whose client waits for it does to the session and its records.
LEMMA DeliveredJoin ==
  ASSUME IInv, NEW r \in Ranks, Deliver(r), pc[r] = "joining"
  PROVE  /\ call[r] = "sent" /\ offer[r] = {} /\ UNCHANGED <<workerVars, netVars>>
         /\ Join(r, inc[r], step[r], TRUE)
         /\ \A q \in Ranks : \A m \in offer'[q] : m.kind = "joined" => m \in offer[q] \/ Started'
<1> USE DEF IInv, TypeOK
<1>1. call[r] = "sent" /\ offer[r] = {} /\ UNCHANGED <<workerVars, netVars>>
  BY DEF Deliver, Attempts
<1>2. Join(r, inc[r], step[r], TRUE)
  BY DEF Deliver, Handle, RequestOf
<1>3. ASSUME NEW q \in Ranks, NEW m \in offer'[q], m.kind = "joined"
      PROVE  m \in offer[q] \/ Started'
  BY <1>2, <1>3 DEF Join, Started, Changed
<1>4. QED
  BY <1>1, <1>2, <1>3

\* A join that opens a session is its only member.
LEMMA FreshJoinPrompt ==
  ASSUME IInv, IInv', CheckpointNotAhead, Prompt, NEW r \in Ranks, Deliver(r), pc[r] = "joining",
         OpensSession(r, inc[r])
  PROVE  Prompt'
<1> USE DEF IInv, TypeOK
<1>1. /\ members' = {r} /\ mstep' = [q \in Ranks |-> IF q = r THEN step[r] ELSE 0]
      /\ Starts(r, inc[r]) => \E m \in Ranks : IsLowest(mstep', m) /\ resume' = mstep'[m]
      /\ values' = [k \in Rounds |-> {}]
      /\ UNCHANGED <<pc, inc, step, disk, token, late>> /\ offer[r] = {}
      /\ Starts(r, inc[r]) <=> Started'
  BY DeliveredJoin DEF Join, Roster, Record, Starts, Started, workerVars, netVars
<1>2. disk[r] <= mstep'[r]
  BY <1>1 DEF CheckpointNotAhead
<1>3. ASSUME NEW m \in offer'[r], m.kind = "joined" PROVE m.session = sid'
  BY <1>1, <1>3, DeliveredJoin DEF Join, Changed, Joined
<1>4. Records'
  BY <1>1, <1>2, <1>3 DEF Records
<1>5. Resumes'
  <2> SUFFICES ASSUME Started'
               PROVE  (\A q \in Ranks : resume' <= mstep'[q]) /\ \E q \in Ranks : disk[q] <= resume'
    BY <1>1 DEF Resumes
  <2>1. Ranks = {r} /\ resume' = mstep'[r]
    BY <1>1 DEF Started
  <2>2. QED
    BY <1>1, <1>2, <2>1
<1>6. Admissions'
  <2>1. CASE Started'
    BY <1>4, <1>5, <2>1, StartedAdmitsNext
  <2>2. CASE ~Started'
    <3>1. \A q \in Ranks : \A m \in offer'[q] : m.kind = "joined" => m \in offer[q]
      BY <2>2, DeliveredJoin
    <3>2. QED
      BY <1>1, <3>1 DEF Prompt, Admissions
  <2>3. QED
    BY <2>1, <2>2
<1>7. PendingAfter'
  BY <1>1 DEF PendingAfter
<1>8. QED
  BY <1>1, <1>4, <1>5, <1>6, <1>7 DEF Prompt

\* Any other becomes, or stays, a member of the session.
LEMMA CurrentJoinPrompt ==
  ASSUME IInv, IInv', CheckpointNotAhead, Prompt, NEW r \in Ranks, Deliver(r), pc[r] = "joining",
         ~OpensSession(r, inc[r])
  PROVE  Prompt'
<1> USE DEF IInv, TypeOK
<1>1. /\ members' = members \cup {r} /\ (r \in members => minc[r] = inc[r])
      /\ mstep' = (IF r \in members THEN mstep ELSE [mstep EXCEPT ![r] = step[r]])
      /\ minc' = (IF r \in members THEN minc ELSE [minc EXCEPT ![r] = inc[r]])
      /\ IF Starts(r, inc[r]) THEN \E m \in Ranks : IsLowest(mstep', m) /\ resume' = mstep'[m]
                              ELSE resume' = resume
      /\ Starts(r, inc[r]) <=> Started' /\ r \notin members
      /\ UNCHANGED <<pc, inc, step, disk, token, late, sid, values, completed>> /\ offer[r] = {}
  BY DeliveredJoin
     DEF Join, Roster, Record, OpensSession, Starts, Started, workerVars, netVars, roundVars
<1>2. ASSUME NEW q \in Ranks, NEW m \in offer'[q], m.kind = "joined"
      PROVE  m \in offer[q] \/ m.session = sid
  BY <1>1, <1>2, DeliveredJoin DEF Join, Changed, Joined
<1>3. mstep'[r] <= step[r] \/ r \in members
  BY <1>1
<1>4. disk[r] <= step[r]
  BY DEF CheckpointNotAhead
<1>5. Records'
  <2> SUFFICES ASSUME NEW q \in members'
               PROVE  /\ pc[q] = "training" => token[q] = sid
                      /\ \A m \in offer'[q] : m.kind = "joined" => m.session = sid
                      /\ ~Started' => disk[q] <= mstep'[q]
                      /\ pc[q] # "off" /\ minc'[q] = inc[q] /\ token[q] # sid
                           => mstep'[q] <= step[q]
    BY <1>1 DEF Records
  <2>1. CASE q \in members
    <3>1. mstep'[q] = mstep[q] /\ minc'[q] = minc[q] /\ q \in Ranks
      BY <1>1, <2>1
    <3>2. ~Started' => ~Started
      BY <1>1 DEF Started
    <3>3. QED
      BY <1>2, <2>1, <3>1, <3>2 DEF Prompt, Records
  <2>2. CASE q = r /\ r \notin members
    <3>1. mstep'[q] = step[r]
      BY <1>1, <2>2
    <3>2. \A m \in offer'[q] : m.kind = "joined" => m.session = sid
      BY <1>1, <1>2, <2>2
    <3>3. QED
      BY <1>4, <2>2, <3>1, <3>2
  <2>3. QED
    BY <1>1, <2>1, <2>2
<1>6. Resumes'
  <2>1. CASE Starts(r, inc[r])
    <3>1. PICK m \in Ranks : IsLowest(mstep', m) /\ resume' = mstep'[m]
      BY <1>1, <2>1
    <3>2. disk[m] <= mstep'[m]
      <4>1. CASE m = r
        BY <1>1, <1>4, <2>1, <4>1
      <4>2. CASE m # r
        <5>1. m \in members /\ ~Started /\ mstep'[m] = mstep[m]
          BY <1>1, <2>1, <4>2 DEF Started
        <5>2. QED
          BY <5>1 DEF Prompt, Records
      <4>3. QED
        BY <4>1, <4>2
    <3>3. QED
      BY <1>1, <3>1, <3>2 DEF Resumes, IsLowest
  <2>2. CASE ~Starts(r, inc[r])
    <3> SUFFICES ASSUME Started'
                 PROVE  Resumes'
      BY DEF Resumes
    <3>1. r \in members /\ UNCHANGED <<members, mstep, minc, resume>>
      BY <1>1, <2>2
    <3>2. QED
      BY <1>1, <3>1 DEF Prompt, Resumes, Started, HasEntered
  <2>3. QED
    BY <2>1, <2>2
<1>7. Admissions'
  <2>1. CASE Started'
    BY <1>5, <1>6, <2>1, StartedAdmitsNext
  <2>2. CASE ~Started'
    <3>1. \A q \in Ranks : \A m \in offer'[q] : m.kind = "joined" => m \in offer[q]
      BY <2>2, DeliveredJoin
    <3>2. QED
      BY <1>1, <3>1 DEF Prompt, Admissions
  <2>3. QED
    BY <2>1, <2>2
<1>8. PendingAfter'
  <2>1. CASE Started
    <3>1. r \in members
      BY <2>1 DEF Started
    <3>2. QED
      BY <1>1, <2>1, <3>1 DEF Prompt, PendingAfter, Started
  <2>2. CASE ~Started
    BY <1>1, <2>2 DEF CurrentMembers, PendingAfter
  <2>3. QED
    BY <2>1, <2>2
<1>9. QED
  BY <1>1, <1>5, <1>6, <1>7, <1>8 DEF Prompt

\* A contribution opens no round but the next, and the last one leaves none.
LEMMA ReducePrompt ==
  ASSUME IInv, Prompt, NEW r \in Ranks, Deliver(r), pc[r] = "training"
  PROVE  Prompt'
<1> USE DEF IInv, TypeOK
<1> DEFINE n == step[r] + 1
           s == token[r]
<1>1. /\ UNCHANGED <<workerVars, netVars, sessionVars>> /\ Reduce(r, n, s, TRUE)
  BY DEF Deliver, Handle, RequestOf
<1>2. n \in Rounds /\ n \in Nat /\ s \in Nat
  BY RoundAfter DEF Bounded
<1> HIDE DEF n, s
<1>3. \A q \in Ranks : \A m \in offer'[q] : m.kind = "joined" => m \in offer[q]
  <2>1. CASE Complete(r, n, s, TRUE)
    BY <2>1 DEF Complete, Average
  <2>2. CASE ~Complete(r, n, s, TRUE)
    <3>1. \/ offer' = offer
          \/ offer' = [offer EXCEPT ![r] = {Changed}]
          \/ offer' = [offer EXCEPT ![r] = {Average(n)}]
      BY <1>1, <2>2 DEF Reduce, WrongSession, Cached, TooManyRounds, Contribute, Answer
    <3>2. QED
      BY <3>1 DEF Changed, Average
  <2>3. QED
    BY <2>1, <2>2
<1>4. Records' /\ Resumes' /\ Admissions'
  BY <1>1, <1>3, QuietPrompt
<1>5. PendingAfter'
  <2>1. CASE UNCHANGED roundVars
    BY <1>1, <2>1 DEF Prompt, PendingAfter, Started, roundVars, sessionVars
  <2>2. CASE Contribute(r, n, s, TRUE) \/ Complete(r, n, s, TRUE)
    <3>1. s = sid /\ Started /\ n \notin completed
      BY <2>2 DEF Contribute, Complete, Accepted
    <3>2. PICK h \in completed \cup {resume} : Progress(h)
      BY <3>1 DEF CurrentProgress
    <3>3. /\ h \in Nat /\ step[r] \in {h - 1, h} /\ resume <= step[r]
          /\ h = resume \/ h \in completed
          /\ \A k \in completed : k \in Nat /\ k <= h
          /\ \A i \in Rounds : i \in Nat /\ (values[i] # {} => i <= h + 1)
      BY <3>1, <3>2, ConstantFacts DEF Progress, Frontier, s
    <3>4. n = h + 1
      BY <3>1, <3>3 DEF n
    <3>5. CASE Contribute(r, n, s, TRUE)
      <4>1. completed' = completed /\ \A i \in Rounds : i # n => values'[i] = values[i]
        BY <1>2, <3>5 DEF Contribute
      <4>2. QED
        BY <3>1, <3>3, <3>4, <4>1 DEF Prompt, PendingAfter
    <3>6. CASE Complete(r, n, s, TRUE)
      <4>1. /\ completed' \subseteq completed \cup {n} /\ values'[n] = {}
            /\ \A i \in Rounds : i # n => values'[i] = values[i]
        BY <1>2, <3>6 DEF Complete
      <4>2. \A i \in Rounds : values'[i] = {}
        <5> SUFFICES ASSUME NEW i \in Rounds, values'[i] # {} PROVE FALSE
          OBVIOUS
        <5>1. i # n /\ values[i] # {}
          BY <4>1
        <5>2. i <= h /\ i \in Nat
          BY <3>3, <3>4, <5>1
        <5>3. resume < i /\ (h \in completed => h < i)
          BY <3>1, <3>2, <5>1 DEF Prompt, PendingAfter, Progress
        <5>4. QED
          BY <3>3, <5>2, <5>3
      <4>3. QED
        BY <4>2 DEF PendingAfter
    <3>7. QED
      BY <2>2, <3>5, <3>6
  <2>3. QED
    BY <1>1, <2>1, <2>2 DEF Reduce, WrongSession, Cached, TooManyRounds, Answer
<1>6. late' = {}
  BY <1>1 DEF Prompt, netVars
<1>7. QED
  BY <1>4, <1>5, <1>6 DEF Prompt

LEMMA PromptNext ==
  ASSUME IInv, IInv', PromptInv, [Next]_vars
  PROVE  PromptInv'
<1>1. CheckpointNotAhead'
  BY CheckpointNext DEF PromptInv
<1>2. ASSUME lates' = 0 PROVE Prompt'
  <2>1. lates = 0 /\ ~(\E r \in Ranks : AttemptOutlivesClient(r))
    <3>1. lates \in Nat
      BY DEF IInv, TypeOK
    <3>2. \A r \in Ranks : AttemptOutlivesClient(r) => lates' = lates + 1
      BY DEF AttemptOutlivesClient
    <3>3. lates' = lates \/ \E r \in Ranks : AttemptOutlivesClient(r)
      BY DEF Next, Receive, Start, Crash, DeletePod, Send, AttemptFails, Deliver, DeliverLate,
             OnChanged, OnJoined, OnInvalidJoin, OnAverage, OnAverageThenInjectedCrash,
             netVars, vars
    <3>4. QED
      BY <1>2, <3>1, <3>2, <3>3
  <2>2. Prompt /\ CheckpointNotAhead
    BY <2>1 DEF PromptInv
  <2>3. CASE \E r \in Ranks : Start(r)
    BY <2>2, <2>3, StartPrompt
  <2>4. ASSUME NEW r \in Ranks,
               Crash(r) \/ DeletePod(r) \/ OnInvalidJoin(r) \/ OnAverageThenInjectedCrash(r)
        PROVE  Prompt'
    <3>1. Exit(r) /\ \A q \in Ranks : q # r => disk'[q] = disk[q]
      BY <2>4 DEF Crash, DeletePod, OnInvalidJoin, OnAverageThenInjectedCrash, SaveCheckpoint,
                  IInv, TypeOK
    <3>2. disk' \in [Ranks -> Nat]
      BY DEF IInv, TypeOK
    <3>3. disk'[r] <= disk[r] \/ MayAdvance(r)
      BY <2>4 DEF Crash, DeletePod, OnInvalidJoin, OnAverageThenInjectedCrash, MayAdvance,
                  IInv, TypeOK
    <3>4. QED
      BY <2>2, <3>1, <3>2, <3>3, ExitPrompt
  <2>5. ASSUME NEW r \in Ranks, Send(r) \/ AttemptFails(r) PROVE Prompt'
    <3>1. /\ UNCHANGED <<workerVars, sessionVars, roundVars, netVars>>
          /\ \A q \in Ranks : \A m \in offer'[q] : m.kind = "joined" => m \in offer[q]
      BY <2>5 DEF Send, AttemptFails, IInv, TypeOK
    <3>2. PendingAfter' /\ late' = {}
      BY <2>2, <3>1 DEF Prompt, PendingAfter, Started, sessionVars, roundVars, netVars
    <3>3. QED
      BY <2>2, <3>1, <3>2, QuietPrompt DEF Prompt
  <2>6. ASSUME NEW r \in Ranks, Deliver(r) PROVE Prompt'
    <3>1. pc[r] = "joining" \/ pc[r] = "training"
      BY <2>6 DEF Deliver, IInv, TypeOK, Attempts
    <3>2. QED
      BY <2>2, <2>6, <3>1, FreshJoinPrompt, CurrentJoinPrompt, ReducePrompt
  <2>7. ASSUME NEW r \in Ranks, OnChanged(r) \/ OnJoined(r) \/ OnAverage(r) PROVE Prompt'
    BY <2>2, <2>7, ChangedPrompt, JoinedPrompt, AveragePrompt
  <2>8. CASE DeliverLate
    BY <2>2, <2>8 DEF DeliverLate, Prompt
  <2>9. CASE UNCHANGED vars
    <3>1. /\ UNCHANGED <<workerVars, sessionVars, roundVars, netVars, offer>>
      BY <2>9 DEF vars, callVars
    <3>2. PendingAfter' /\ late' = {}
      BY <2>2, <3>1 DEF Prompt, PendingAfter, Started, sessionVars, roundVars, netVars
    <3>3. QED
      BY <2>2, <3>1, <3>2, QuietPrompt DEF Prompt
  <2>10. QED
    BY <2>1, <2>3, <2>4, <2>5, <2>6, <2>7, <2>8, <2>9 DEF Next, Receive
<1>3. QED
  BY <1>1, <1>2 DEF PromptInv

LEMMA PromptInvariant == Spec => []PromptInv
<1>1. IInv /\ IInv' /\ PromptInv /\ [Next]_vars => PromptInv'
  BY PromptNext
<1>2. QED
  BY <1>1, PromptInit, InductiveInvariant, PTL DEF Spec

LEMMA PromptPending == IInv /\ PromptInv => PendingIsNext
<1> SUFFICES ASSUME IInv, PromptInv, NEW n \in Pending, NEW q \in Ranks, lates = 0, InSession(q)
             PROVE  n \in step[q] + 1 .. step[q] + 2
  BY DEF PendingIsNext
<1> USE DEF IInv, TypeOK
<1>1. token[q] = sid /\ Started
  BY IInvTrainsAsMember DEF TrainsAsMember, InSession
<1>2. PICK h \in completed \cup {resume} : Progress(h)
  BY <1>1 DEF CurrentProgress
<1>3. /\ n \in Rounds /\ n \in Nat /\ h \in Nat /\ step[q] \in {h - 1, h}
      /\ n <= h + 1 /\ resume < n
  BY <1>1, <1>2, ConstantFacts DEF Progress, Pending
<1>4. h \in completed => h < n
  BY <1>1, <1>3 DEF PromptInv, Prompt, PendingAfter, Pending
<1>5. QED
  BY <1>2, <1>3, <1>4

\* Until a request outlives its client the coordinator holds contributions to no round but
\* the next one of the session: a retried AllReduce never opens a round again that its peers
\* have left behind.
THEOREM PendingIsNextHolds == Spec => []PendingIsNext
BY InductiveInvariant, PromptInvariant, PromptPending, PTL

LEMMA PromptOffers == PromptInv => CheckpointNotAhead /\ JoinIsNeverInvalid
BY DEF PromptInv, Prompt, Admissions, JoinIsNeverInvalid

\* A session starts in the join that completes it, at a record that is its member's file.
LEMMA RendezvousStep ==
  ASSUME IInv, IInv', PromptInv, PromptInv', [Next]_vars, ~Started, Started', lates = 0
  PROVE  \E r \in Ranks : disk[r] <= resume'
<1> USE DEF IInv, TypeOK
<1>1. Prompt /\ CheckpointNotAhead
  BY DEF PromptInv
<1>2. PICK r \in Ranks : Deliver(r)
  <2>1. ASSUME NEW r \in Ranks, Exit(r) PROVE members' \subseteq members
    BY <2>1 DEF Exit
  <2>2. ASSUME UNCHANGED members PROVE FALSE
    BY <2>2 DEF Started
  <2>3. ~Started \/ members # Ranks
    BY DEF Started
  <2>4. QED
    BY <1>1, <2>1, <2>2, <2>3
       DEF Next, Receive, Start, Crash, DeletePod, Send, AttemptFails, AttemptOutlivesClient,
           DeliverLate, OnChanged, OnJoined, OnInvalidJoin, OnAverage,
           OnAverageThenInjectedCrash, HangUp, sessionVars, vars, Prompt, Started
<1>3. pc[r] = "joining" /\ UNCHANGED <<workerVars, netVars>>
  BY <1>2 DEF Deliver, Handle, RequestOf, sessionVars, Started, Attempts
<1>4. Join(r, inc[r], step[r], TRUE)
  BY <1>2, <1>3 DEF Deliver, Handle, RequestOf
<1>5. r \in members' /\ minc'[r] = inc[r]
  BY <1>4 DEF Join, Roster, Record, OpensSession
<1>6. /\ pc' = pc /\ inc' = inc /\ token' = token /\ disk' = disk /\ lates' = lates
  BY <1>3 DEF workerVars, netVars
<1>7. sid' > 0 /\ token[r] # sid'
  <2>1. sid' \in Nat /\ sid' # 0
    BY <1>5 DEF Fresh
  <2>2. QED
    BY <1>3, <1>6, <2>1 DEF CurrentMembers
<1>8. ~HasEntered(r)'
  BY <1>3, <1>5, <1>6, <1>7 DEF HasEntered
<1>9. Resumes'
  BY <1>6 DEF PromptInv, Prompt
<1>10. QED
  BY <1>6, <1>8, <1>9 DEF Resumes

\* Only the entry to a session makes a file older, and then not older than every other.
LEMMA SavedStep ==
  ASSUME IInv, PromptInv, [Next]_vars, lates = 0,
         NEW r \in Ranks, disk'[r] < disk[r], ~DeletePod(r)
  PROVE  \A p \in Ranks : \E q \in Ranks : disk[q] <= disk'[p]
<1> USE DEF IInv, TypeOK
<1>1. Prompt /\ CheckpointNotAhead
  BY DEF PromptInv
<1>2. ~UNCHANGED disk
  OBVIOUS
<1>3. ~(\E x \in Ranks : OnAverage(x) \/ OnAverageThenInjectedCrash(x))
  <2> SUFFICES ASSUME NEW x \in Ranks, OnAverage(x) \/ OnAverageThenInjectedCrash(x)
               PROVE  FALSE
    OBVIOUS
  <2>1. disk' = [disk EXCEPT ![x] = step[x] + 1]
    BY <1>2 DEF OnAverage, OnAverageThenInjectedCrash, SaveCheckpoint
  <2>2. pc[x] # "off"
    BY DEF OnAverage, OnAverageThenInjectedCrash, Attempts
  <2>3. disk[x] <= step[x]
    BY <1>1, <2>2 DEF CheckpointNotAhead
  <2>4. QED
    BY <2>1, <2>3
<1>4. ~(\E x \in Ranks : DeletePod(x))
  <2> SUFFICES ASSUME NEW x \in Ranks, DeletePod(x) PROVE FALSE
    OBVIOUS
  <2>1. disk' = [disk EXCEPT ![x] = 0] /\ x # r
    BY DEF DeletePod
  <2>2. QED
    BY <2>1
<1>5. PICK x \in Ranks : OnJoined(x)
  BY <1>2, <1>3, <1>4
     DEF Next, Receive, Start, Crash, Send, AttemptFails, AttemptOutlivesClient, Deliver,
         DeliverLate, OnChanged, OnInvalidJoin, workerVars, vars
<1>6. PICK m \in offer[x] : m.kind = "joined" /\ disk' = [disk EXCEPT ![x] = m.step]
  BY <1>5 DEF OnJoined, SaveCheckpoint
<1>7. PICK q \in Ranks : disk[q] <= m.step
  BY <1>1, <1>6 DEF Prompt, Admissions
<1>8. ASSUME NEW p \in Ranks PROVE \E z \in Ranks : disk[z] <= disk'[p]
  <2>1. CASE p = x
    BY <1>6, <1>7, <2>1
  <2>2. CASE p # x
    <3>1. disk[p] <= disk'[p]
      BY <1>6, <2>2
    <3>2. QED
      BY <3>1
  <2>3. QED
    BY <2>1, <2>2
<1>9. QED
  BY <1>8

\* Restarts, stale checkpoints and sessions that go back do not lose what every rank has
\* saved, nor does a session resume below every checkpoint or a worker refuse the step it is
\* offered, for any number of ranks and faults, until a request outlives its client.
THEOREM CheckpointsAreKept == Spec => CheckpointsHold
<1>1. IInv /\ IInv' /\ PromptInv /\ PromptInv' /\ [Next]_vars
        => [~Started /\ Started' /\ lates = 0 => \E r \in Ranks : disk[r] <= resume']_vars
  BY RendezvousStep
<1>2. IInv /\ PromptInv /\ [Next]_vars
        => [(lates = 0 /\ \E r \in Ranks : disk'[r] < disk[r] /\ ~DeletePod(r))
              => \A r \in Ranks : \E q \in Ranks : disk[q] <= disk'[r]]_vars
  BY SavedStep
<1>3. Spec => RendezvousAtLowest
  BY <1>1, InductiveInvariant, PromptInvariant, PTL DEF Spec, RendezvousAtLowest
<1>4. Spec => SavedByAllStaysSaved
  BY <1>2, InductiveInvariant, PromptInvariant, PTL DEF Spec, SavedByAllStaysSaved
<1>5. Spec => [](CheckpointNotAhead /\ JoinIsNeverInvalid)
  BY PromptOffers, PromptInvariant, PTL
<1>6. QED
  BY <1>3, <1>4, <1>5 DEF CheckpointsHold
=============================================================================
