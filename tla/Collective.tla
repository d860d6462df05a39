----------------------------- MODULE Collective -----------------------------
(***************************************************************************)
(* The training collective of internal/training: World worker processes,   *)
(* one per StatefulSet ordinal, and the HTTP coordinator that lives inside *)
(* the process of rank 0.  A worker joins a session, resumes at the step   *)
(* the session agreed on, and then reduces one gradient per step; every    *)
(* reduce is a barrier.  Processes crash and restart, Pods are deleted     *)
(* with their checkpoint, attempts time out and are retried, and a request *)
(* whose client gave up may still reach the coordinator later.             *)
(*                                                                         *)
(* A gradient is a function of its step and rank (deterministicGradient),  *)
(* so a round is the set of the ranks that contributed to it, and a        *)
(* repeated contribution never differs from the first one.                 *)
(***************************************************************************)
EXTENDS Integers, FiniteSets

CONSTANTS
  World,        \* WORLD_SIZE
  Window,       \* completed rounds kept for retries (128 in the code)
  MaxRounds,    \* pending rounds the coordinator accepts (128 in the code)
  MaxStep,      \* bound: the round after MaxStep is never completed
  MaxCrashes,   \* bound: process crashes, injected crashes, Pod deletions
  MaxLate       \* bound: requests delivered after their client gave up

ASSUME WorldAssumption  == World \in Nat \ {0}
ASSUME CacheAssumption  == Window \in Nat \ {0} /\ MaxRounds \in Nat \ {0}
ASSUME BoundsAssumption == MaxStep \in Nat /\ MaxCrashes \in Nat /\ MaxLate \in Nat

Ranks == 0 .. World - 1
Coordinator == 0           \* the rank whose process serves /join and /allreduce
Rounds == 1 .. MaxStep + 1

VARIABLES
  \* every worker process
  pc,          \* "off", "joining" (in join) or "training" (in the step loop)
  inc,         \* incarnation of the running, or else of the last, process
  step,        \* cp.Step in memory
  disk,        \* step in the checkpoint file, 0 when there is no file
  token,       \* joined.Session, 0 before the first join
  \* its one outstanding HTTP attempt
  call,        \* "none", "sent" or "parked" in the coordinator's handler
  offer,       \* the replies that handler's select may pick
  \* Coordinator.session
  sid,         \* session.id, 0 for a nil session
  issued,      \* session ids drawn so far: rand.Text() never repeats one
  members,     \* keys of session.members
  minc,        \* members[rank].Incarnation
  mstep,       \* members[rank].Step
  resume,      \* session.step
  \* Coordinator.rounds and Coordinator.completed
  values,      \* ranks that contributed to a pending round, {} for no round
  completed,   \* steps whose average is cached
  \* the environment
  late,        \* requests their clients no longer wait for
  crashes, lates

workerVars  == <<pc, inc, step, disk, token>>
callVars    == <<call, offer>>
sessionVars == <<sid, issued, members, minc, mstep, resume>>
roundVars   == <<values, completed>>
netVars     == <<late, crashes, lates>>
vars == <<workerVars, callVars, sessionVars, roundVars, netVars>>

-----------------------------------------------------------------------------
(* Requests and replies. *)

Changed       == [kind |-> "changed", session |-> 0, step |-> 0]
Joined(s, n)  == [kind |-> "joined",  session |-> s, step |-> n]
Average(n)    == [kind |-> "average", session |-> 0, step |-> n]

Reply == [kind : {"changed", "joined", "average"}, session : Nat, step : Nat]

\* tag is the incarnation of a join and the session of a reduce.
Request == [kind : {"join", "reduce"}, rank : Ranks, tag : Nat, step : Nat]

\* The request of r's outstanding attempt.
RequestOf(r) ==
  IF pc[r] = "joining"
  THEN [kind |-> "join",   rank |-> r, tag |-> inc[r],   step |-> step[r]]
  ELSE [kind |-> "reduce", rank |-> r, tag |-> token[r], step |-> step[r] + 1]

Serving == pc[Coordinator] # "off"
Started == members = Ranks

\* r's handler waits in the current session with nothing to answer yet.
Parked(r) == call[r] = "parked" /\ Changed \notin offer[r]

Pending == {n \in Rounds : values[n] # {}}

-----------------------------------------------------------------------------
Init ==
  /\ pc = [r \in Ranks |-> "off"]
  /\ inc = [r \in Ranks |-> 0]
  /\ step = [r \in Ranks |-> 0]
  /\ disk = [r \in Ranks |-> 0]
  /\ token = [r \in Ranks |-> 0]
  /\ call = [r \in Ranks |-> "none"]
  /\ offer = [r \in Ranks |-> {}]
  /\ sid = 0 /\ issued = 0
  /\ members = {}
  /\ minc = [r \in Ranks |-> 0]
  /\ mstep = [r \in Ranks |-> 0]
  /\ resume = 0
  /\ values = [n \in Rounds |-> {}]
  /\ completed = {}
  /\ late = {} /\ crashes = 0 /\ lates = 0

-----------------------------------------------------------------------------
(* The checkpoint file: written to a temporary file and renamed, so it is    *)
(* the old one or the new one and never a part of either.                    *)

\* Mutant: the checkpoint is not read.
IgnoreCheckpoint(r) == 0

LoadCheckpoint(r) == disk[r]
SaveCheckpoint(r, n) == disk' = [disk EXCEPT ![r] = n]

-----------------------------------------------------------------------------
(* Processes. *)

\* The kubelet starts the container: Run loads the checkpoint, draws a new
\* incarnation and enters join.  Rank 0 listens before it joins.
Start(r) ==
  /\ pc[r] = "off"
  /\ pc' = [pc EXCEPT ![r] = "joining"]
  /\ inc' = [inc EXCEPT ![r] = @ + 1]
  /\ step' = [step EXCEPT ![r] = LoadCheckpoint(r)]
  /\ UNCHANGED <<disk, token, callVars, sessionVars, roundVars, netVars>>

\* The process of r ends and its memory is gone; with rank 0, so are the
\* coordinator and every connection to it.
Exit(r) ==
  /\ pc' = [pc EXCEPT ![r] = "off"]
  /\ step' = [step EXCEPT ![r] = 0]
  /\ token' = [token EXCEPT ![r] = 0]
  /\ UNCHANGED <<inc, issued>>
  /\ IF r = Coordinator
     THEN /\ call' = [q \in Ranks |-> "none"]
          /\ offer' = [q \in Ranks |-> {}]
          /\ sid' = 0 /\ members' = {} /\ resume' = 0
          /\ minc' = [q \in Ranks |-> 0]
          /\ mstep' = [q \in Ranks |-> 0]
          /\ values' = [n \in Rounds |-> {}]
          /\ completed' = {}
          /\ late' = {}
     ELSE /\ call' = [call EXCEPT ![r] = "none"]
          /\ offer' = [offer EXCEPT ![r] = {}]
          /\ UNCHANGED <<sid, members, minc, mstep, resume, roundVars, late>>

\* The process dies anywhere in Run; the Pod's emptyDir keeps the checkpoint.
Crash(r) ==
  /\ pc[r] # "off" /\ crashes < MaxCrashes
  /\ Exit(r)
  /\ crashes' = crashes + 1
  /\ UNCHANGED <<disk, lates>>

\* The Pod is deleted and its emptyDir with it.
DeletePod(r) ==
  /\ crashes < MaxCrashes
  /\ Exit(r)
  /\ disk' = [disk EXCEPT ![r] = 0]
  /\ crashes' = crashes + 1
  /\ UNCHANGED lates

-----------------------------------------------------------------------------
(* Attempts. *)

\* joinWithRetry or ReduceWithRetry posts its request, again if need be.
Send(r) ==
  /\ pc[r] # "off" /\ call[r] = "none"
  /\ call' = [call EXCEPT ![r] = "sent"]
  /\ UNCHANGED <<workerVars, offer, sessionVars, roundVars, netVars>>

\* The attempt ends without an answer: refused, lost, or timed out, on its
\* way or in the handler.  What the handler recorded stays recorded.
AttemptFails(r) ==
  /\ call[r] # "none"
  /\ call' = [call EXCEPT ![r] = "none"]
  /\ offer' = [offer EXCEPT ![r] = {}]
  /\ UNCHANGED <<workerVars, sessionVars, roundVars, netVars>>

\* The same, while the request is still on its way to the coordinator.
AttemptOutlivesClient(r) ==
  /\ call[r] = "sent" /\ Serving /\ lates < MaxLate
  /\ late' = late \cup {RequestOf(r)}
  /\ lates' = lates + 1
  /\ call' = [call EXCEPT ![r] = "none"]
  /\ UNCHANGED <<workerVars, offer, sessionVars, roundVars, crashes>>

-----------------------------------------------------------------------------
(* Coordinator.join: the locked section and the reply its select makes     *)
(* possible.  "waits" says whether q's client waits for this request.      *)

\* Mutant: a restarted rank joins the running session.
OpensWhenNil(q, i) == sid = 0

OpensSession(q, i) == sid = 0 \/ (q \in members /\ minc[q] # i)

Roster(q, i) == IF OpensSession(q, i) THEN {q} ELSE members \cup {q}

\* The member's record: kept if it is there, all others dropped by a new session.
Record(q, i, f, v) ==
  IF OpensSession(q, i) THEN [r \in Ranks |-> IF r = q THEN v ELSE 0]
  ELSE IF q \in members THEN f
  ELSE [f EXCEPT ![q] = v]

IsLowest(f, m) == \A r \in Ranks : f[m] <= f[r]

\* The session starts with the member that completes it.
Starts(q, i) ==
  Roster(q, i) = Ranks /\ (OpensSession(q, i) \/ q \notin members)

Join(q, i, n, waits) ==
  /\ members' = Roster(q, i)
  /\ minc' = Record(q, i, minc, i)
  /\ mstep' = Record(q, i, mstep, n)
  /\ IF OpensSession(q, i)
     THEN /\ issued' = issued + 1 /\ sid' = issued + 1
          /\ values' = [k \in Rounds |-> {}] /\ completed' = {}
     ELSE UNCHANGED <<issued, sid, roundVars>>
  /\ IF Starts(q, i)
     THEN \E m \in Ranks : IsLowest(mstep', m) /\ resume' = mstep'[m]
     ELSE resume' = IF OpensSession(q, i) THEN 0 ELSE resume
  /\ call' = IF waits THEN [call EXCEPT ![q] = "parked"] ELSE call
  /\ offer' = [r \in Ranks |->
                 IF OpensSession(q, i) /\ call[r] = "parked"
                 THEN offer[r] \cup {Changed}
                 ELSE IF /\ members' = Ranks /\ pc[r] = "joining"
                         /\ call'[r] = "parked" /\ Changed \notin offer[r]
                      THEN {Joined(sid', resume')}
                      ELSE offer[r]]

-----------------------------------------------------------------------------
(* Coordinator.handle: the early returns, then the contribution.           *)

\* The handler of q's attempt, if it has one, answers m at once.
Answer(q, m, waits) ==
  /\ call' = IF waits THEN [call EXCEPT ![q] = "parked"] ELSE call
  /\ offer' = IF waits THEN [offer EXCEPT ![q] = {m}] ELSE offer
  /\ UNCHANGED roundVars

WrongSession(q, n, s, waits) ==
  /\ s # sid \/ ~Started
  /\ Answer(q, Changed, waits)

Cached(q, n, s, waits) ==
  /\ s = sid /\ Started /\ n \in completed
  /\ Answer(q, Average(n), waits)

\* 503: nothing is recorded and the attempt fails.
TooManyRounds(q, n, s, waits) ==
  /\ s = sid /\ Started /\ n \notin completed
  /\ values[n] = {} /\ Cardinality(Pending) >= MaxRounds
  /\ call' = IF waits THEN [call EXCEPT ![q] = "none"] ELSE call
  /\ UNCHANGED <<offer, roundVars>>

\* Mutants: a cached round is opened again; the average just computed is
\* forgotten; one contribution is not waited for.
AcceptedAgain(n, s) ==
  /\ s = sid /\ Started
  /\ values[n] # {} \/ Cardinality(Pending) < MaxRounds
ForgetLatest(n) == n - Window + 1
IsFullButOne(n, q) == Cardinality(values[n] \cup {q}) >= World - 1

Accepted(n, s) ==
  /\ s = sid /\ Started /\ n \notin completed
  /\ values[n] # {} \/ Cardinality(Pending) < MaxRounds

Forgotten(n) == n - Window

IsFull(n, q) == values[n] \cup {q} = Ranks

Contribute(q, n, s, waits) ==
  /\ Accepted(n, s) /\ ~IsFull(n, q)
  /\ values' = [values EXCEPT ![n] = @ \cup {q}]
  /\ call' = IF waits THEN [call EXCEPT ![q] = "parked"] ELSE call
  /\ UNCHANGED <<offer, completed>>

\* The last contribution: cache the average, forget the one Window rounds
\* older, release every handler waiting for the round and drop the round.
Complete(q, n, s, waits) ==
  /\ Accepted(n, s) /\ IsFull(n, q)
  /\ n <= MaxStep
  /\ completed' = (completed \cup {n}) \ {Forgotten(n)}
  /\ values' = [values EXCEPT ![n] = {}]
  /\ call' = IF waits THEN [call EXCEPT ![q] = "parked"] ELSE call
  /\ offer' = [r \in Ranks |->
                 IF /\ pc[r] = "training" /\ step[r] + 1 = n
                    /\ call'[r] = "parked" /\ Changed \notin offer[r]
                 THEN {Average(n)} ELSE offer[r]]

Reduce(q, n, s, waits) ==
  \/ WrongSession(q, n, s, waits)
  \/ Cached(q, n, s, waits)
  \/ TooManyRounds(q, n, s, waits)
  \/ Contribute(q, n, s, waits)
  \/ Complete(q, n, s, waits)

Handle(m, waits) ==
  \/ m.kind = "join"   /\ Join(m.rank, m.tag, m.step, waits)
  \/ m.kind = "reduce" /\ Reduce(m.rank, m.step, m.tag, waits)
                       /\ UNCHANGED sessionVars

\* The coordinator receives the request of r's outstanding attempt ...
Deliver(r) ==
  /\ Serving /\ call[r] = "sent"
  /\ Handle(RequestOf(r), TRUE)
  /\ UNCHANGED <<workerVars, netVars>>

\* ... or one whose client gave up.
DeliverLate ==
  /\ Serving
  /\ \E m \in late : Handle(m, FALSE) /\ late' = late \ {m}
  /\ UNCHANGED <<workerVars, crashes, lates>>

-----------------------------------------------------------------------------
(* The worker gets its answer. *)

HangUp(r) ==
  /\ call' = [call EXCEPT ![r] = "none"]
  /\ offer' = [offer EXCEPT ![r] = {}]
  /\ UNCHANGED <<sessionVars, roundVars, late>>

\* Mutant: the step loop retries instead of joining again.
OnChangedRetry(r) ==
  /\ Changed \in offer[r]
  /\ HangUp(r)
  /\ UNCHANGED <<workerVars, crashes, lates>>

ValidStep(r, n) == n <= step[r]

\* 409: joinWithRetry tries again, the step loop goes back to join.
OnChanged(r) ==
  /\ Changed \in offer[r]
  /\ HangUp(r)
  /\ pc' = [pc EXCEPT ![r] = "joining"]
  /\ UNCHANGED <<inc, step, disk, token, crashes, lates>>

\* join adopts the session's step and saves it before training goes on.
OnJoined(r) ==
  \E m \in offer[r] :
    /\ m.kind = "joined" /\ ValidStep(r, m.step)
    /\ HangUp(r)
    /\ pc' = [pc EXCEPT ![r] = "training"]
    /\ step' = [step EXCEPT ![r] = m.step]
    /\ SaveCheckpoint(r, m.step)
    /\ token' = [token EXCEPT ![r] = m.session]
    /\ UNCHANGED <<inc, crashes, lates>>

\* A resume step above the one offered is a permanent error: Run returns it.
OnInvalidJoin(r) ==
  /\ \E m \in offer[r] : m.kind = "joined" /\ ~ValidStep(r, m.step)
  /\ Exit(r)
  /\ UNCHANGED <<disk, crashes, lates>>

\* The step is done; the checkpoint is saved if its interval has elapsed.
OnAverage(r) ==
  /\ \E m \in offer[r] : m.kind = "average"
  /\ HangUp(r)
  /\ step' = [step EXCEPT ![r] = @ + 1]
  /\ SaveCheckpoint(r, step[r] + 1) \/ UNCHANGED disk
  /\ UNCHANGED <<pc, inc, token, crashes, lates>>

\* The step is done and the control document asks this rank to crash: the
\* checkpoint is always saved first.
OnAverageThenInjectedCrash(r) ==
  /\ \E m \in offer[r] : m.kind = "average"
  /\ crashes < MaxCrashes
  /\ Exit(r)
  /\ SaveCheckpoint(r, step[r] + 1)
  /\ crashes' = crashes + 1
  /\ UNCHANGED lates

Receive(r) == OnChanged(r) \/ OnJoined(r) \/ OnInvalidJoin(r) \/ OnAverage(r)

-----------------------------------------------------------------------------
Next ==
  \/ \E r \in Ranks :
       \/ Start(r)
       \/ Crash(r)
       \/ DeletePod(r)
       \/ Send(r)
       \/ AttemptFails(r)
       \/ AttemptOutlivesClient(r)
       \/ Deliver(r)
       \/ Receive(r)
       \/ OnAverageThenInjectedCrash(r)
  \/ DeliverLate

Spec == Init /\ [][Next]_vars

\* The kubelet restarts containers, the retry loops never give up, and an
\* attempt's timeout (RequestTimeout, seconds) is long enough that not every
\* attempt ends before its request and its answer get through.
Fairness ==
  \A r \in Ranks : /\ WF_vars(Start(r))
                   /\ WF_vars(Send(r))
                   /\ SF_vars(Deliver(r))
                   /\ SF_vars(Receive(r))

FairSpec == Spec /\ Fairness

-----------------------------------------------------------------------------
(* Properties. *)

TypeOK ==
  /\ pc \in [Ranks -> {"off", "joining", "training"}]
  /\ inc \in [Ranks -> Nat] /\ token \in [Ranks -> Nat]
  /\ step \in [Ranks -> Nat] /\ disk \in [Ranks -> Nat]
  /\ call \in [Ranks -> {"none", "sent", "parked"}]
  /\ offer \in [Ranks -> SUBSET Reply]
  /\ sid \in Nat /\ issued \in Nat /\ resume \in Nat
  /\ members \subseteq Ranks
  /\ minc \in [Ranks -> Nat] /\ mstep \in [Ranks -> Nat]
  /\ values \in [Rounds -> SUBSET Ranks]
  /\ completed \subseteq Nat
  /\ late \subseteq Request
  /\ crashes \in Nat /\ lates \in Nat

\* r takes part in the coordinator's current session.
InSession(r) == pc[r] = "training" /\ token[r] = sid

\* AllReduce is a barrier: two ranks that train in the same session, current
\* or already replaced, are never more than one step apart.
Lockstep ==
  \A p, q \in Ranks :
    pc[p] = "training" /\ pc[q] = "training" /\ token[p] = token[q]
      => step[p] <= step[q] + 1

\* A rank that missed the answer of a round its peers have left behind can
\* still get it: "completed" holds what any member may have to ask for again
\* (delete(c.completed, req.Step-128) never takes a needed average).
RetryIsAnswerable ==
  \A p, q \in Ranks :
    InSession(p) /\ InSession(q) /\ step[p] < step[q]
      => step[p] + 1 \in completed

\* Until a request outlives its client, c.rounds never holds a round that some
\* member has already been through, nor one beyond the next: a retry does not
\* open a round nobody will finish.
PendingIsNext ==
  \A n \in Pending, q \in Ranks :
    lates = 0 /\ InSession(q) => n \in step[q] + 1 .. step[q] + 2

\* Whoever trains in the current session is the process the session has
\* registered, so a contribution of that session is never a dead process's
\* successor's.
TrainsAsMember ==
  \A r \in Ranks : InSession(r) => Started /\ minc[r] = inc[r]

\* A checkpoint file never runs ahead of the process that owns it, also
\* after a session made the process go back.
CheckpointNotAhead ==
  \A r \in Ranks : pc[r] # "off" => disk[r] <= step[r]

\* All peers rendezvous at their lowest available checkpoint: a session that
\* starts does not resume below every rank's checkpoint (training would lose
\* steps that every rank has saved).
ResumesAtLowestCheckpoint ==
  [][~Started /\ Started' => \E r \in Ranks : disk[r] <= resume']_vars

\* That is so until a request outlives its client.
RendezvousAtLowest ==
  [][~Started /\ Started' /\ lates = 0 => \E r \in Ranks : disk[r] <= resume']_vars

\* What every rank has saved is saved for good, unless a Pod is deleted or a
\* request outlives its client: the lowest checkpoint never decreases.
SavedByAllStaysSaved ==
  [][(lates = 0 /\ \E r \in Ranks : disk'[r] < disk[r] /\ ~DeletePod(r))
       => \A r \in Ranks : \E q \in Ranks : disk[q] <= disk'[r]]_vars

\* The step a session resumes at is never refused by the worker that joined it,
\* until a request outlives its client.
JoinIsNeverInvalid ==
  \A r \in Ranks : \A m \in offer[r] :
    lates = 0 /\ m.kind = "joined" => m.step <= step[r]

\* What restarts, stale checkpoints and sessions that go back may not do: lose what
\* every rank has saved, resume below every checkpoint, leave a file ahead of its
\* process, or offer a worker a step that it refuses.
CheckpointsHold ==
  /\ RendezvousAtLowest /\ SavedByAllStaysSaved
  /\ [](CheckpointNotAhead /\ JoinIsNeverInvalid)

\* The collective is a barrier per session: its steps are steps of
\* SessionBarrier, whatever fails in between.
At == [r \in Ranks |-> IF pc[r] = "training" THEN token[r] ELSE 0]
Done == [r \in Ranks |-> IF pc[r] = "training" THEN step[r] ELSE 0]

Barrier == INSTANCE SessionBarrier WITH at <- At, done <- Done

ImplementsBarrier == Barrier!Spec

\* After the last fault every rank is back in one session and the collective
\* goes on, as far as the bound lets it.
Recovers ==
  <>[](\A r \in Ranks : InSession(r) /\ step[r] = MaxStep)
=============================================================================
