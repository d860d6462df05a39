-------------------------- MODULE RecoveryVerifier --------------------------
(***************************************************************************)
(* gpu verify --recovery: VerifyRecovery reads both documents once, polls  *)
(* its value and freshness gates one after the other under one budget, and *)
(* then watches the training step in a window of its own.  A poll interval *)
(* is a tick of the clock.                                                 *)
(***************************************************************************)
EXTENDS Monitoring, SequencesExt

CONSTANTS
  Struck,            \* exporters whose fabric gauges a fault changes
  Budget, Window,    \* Timeout and ProgressWindow
  Outer,             \* the deadline of the command
  MaxAge,            \* maxSampleAge
  MaxTrouble         \* BOUND on calls that fail, and on ticks that calls take

TimesAssumption ==
  /\ {Budget, Window, Outer, MaxAge, MaxTrouble} \subseteq Nat
  /\ Budget + Window <= Outer /\ MaxAge <= Lookback
  /\ Lookback + Outer < Old /\ Struck \subseteq Exporters

VARIABLES
  pc,          \* what the command does
  gate,        \* the gate it polls
  failed,      \* a check has failed
  elapsed,     \* how long it has run
  deadline,    \* when its budget, later its window, ends
  first,       \* the age of the first step it observed
  trouble,     \* calls that failed, ticks that calls took
  prompt,      \* no call outside the budget of the gates has taken long
  calm         \* the lab was normal at the start; nothing disturbed it since

command == <<pc, gate, failed, elapsed, deadline, first>>
vars == <<world, command, trouble, prompt, calm>>

Init ==
  /\ MonitoringInit
  /\ pc = "idle" /\ gate = 1 /\ failed = FALSE /\ elapsed = 0 /\ deadline = 0
  /\ first = 0 /\ trouble = 0 /\ prompt = TRUE /\ calm = FALSE

---------------------------------------------------------------------------
(* RecoveryChecks and FreshnessChecks, in their order; the gauges of a     *)
(* node are one gate, and so are those of the ranks.                       *)

Nodes == SetToSeq(Exporters)
Gates == <<[is |-> "adopted"]>>
         \o [i \in 1 .. Len(Nodes) |-> [is |-> "fabric", node |-> Nodes[i]]]
         \o <<[is |-> "training"], [is |-> "up"], [is |-> "up age"],
              [is |-> "adoption"], [is |-> "adoption age"],
              [is |-> "steps"], [is |-> "step age"]>>

\* Mutant: the age of a series is that of the evaluation.
AnyAge(age) == TRUE

AgeFits(age) == age \in 0 .. MaxAge

Passes(g) ==
  CASE g.is = "adopted"      -> \A e \in Exporters : PublishesNormal(e)
    [] g.is = "fabric"       -> Present(g.node)
                                /\ (g.node \in Struck => PublishesNormal(g.node))
    [] g.is = "training"     -> \A r \in Ranks :
                                  Present(r) /\ sample[r].shows.mode = "normal"
    [] g.is = "up"           -> \A e \in Exporters : Served(e) /\ sample[e].up
    [] g.is = "up age"       -> \A e \in Exporters : Served(e) /\ AgeFits(sample[e].age)
    [] g.is = "adoption"     -> \A e \in Exporters : PublishesNormal(e)
    [] g.is = "adoption age" -> \A e \in Exporters : PublishesNormal(e) /\ AgeFits(sample[e].age)
    [] g.is = "steps"        -> \A r \in Ranks : Present(r)
    [] g.is = "step age"     -> \A r \in Ranks : Present(r) /\ AgeFits(sample[r].age)

---------------------------------------------------------------------------
(* The command.  Any call to the API server may fail. *)

Sooner(a, b) == IF a <= b THEN a ELSE b
Troubled == trouble < MaxTrouble /\ trouble' = trouble + 1 /\ calm' = FALSE
Outcome(err) == IF err /\ elapsed < Outer THEN Troubled
                                         ELSE UNCHANGED <<trouble, calm>>

Start ==
  /\ pc = "idle" /\ pc' = "scenario"
  /\ calm' = (Normal(document) /\ control = "normal" /\ live = Targets /\ ~stalled)
  /\ UNCHANGED <<gate, failed, elapsed, deadline, first, trouble, prompt>>

\* A fault scenario ends the report at once.
ReadScenario ==
  /\ pc = "scenario"
  /\ \E err \in BOOLEAN :
       /\ elapsed >= Outer => err
       /\ Outcome(err)
       /\ failed' = (err \/ ~Normal(document))
       /\ pc' = IF failed' THEN "done" ELSE "control"
  /\ UNCHANGED <<gate, elapsed, deadline, first, prompt>>

\* A fault in the training control fails the report, which goes on.
ReadControl ==
  /\ pc = "control"
  /\ \E err \in BOOLEAN :
       /\ elapsed >= Outer => err
       /\ Outcome(err)
       /\ failed' = (err \/ control # "normal")
  /\ pc' = "poll" /\ gate' = 1
  /\ deadline' = Sooner(elapsed + Budget, Outer)
  /\ UNCHANGED <<elapsed, first, prompt>>

\* Mutant: every gate has a budget of its own.
OwnBudget == Sooner(elapsed + Budget, Outer)

BudgetOfNext == deadline

NextGate ==
  /\ gate' = gate + 1
  /\ pc' = IF gate = Len(Gates) THEN "first" ELSE "poll"
  /\ deadline' = BudgetOfNext

\* Mutant: a gate that does not pass at once fails.
NotAgain == NextGate /\ failed' = TRUE

Again == pc' = "wait" /\ UNCHANGED <<gate, deadline, failed>>

Poll ==
  /\ pc = "poll" /\ elapsed < deadline
  /\ \E err \in BOOLEAN :
       /\ Outcome(err)
       /\ \/ ~err /\ Passes(Gates[gate]) /\ NextGate /\ UNCHANGED failed
          \/ (err \/ ~Passes(Gates[gate])) /\ Again
  /\ UNCHANGED <<elapsed, first, prompt>>

\* Once the budget is spent the gates that are left fail without a query.
OutOfBudget ==
  /\ pc \in {"poll", "wait"} /\ elapsed >= deadline
  /\ NextGate /\ failed' = TRUE
  /\ UNCHANGED <<elapsed, first, trouble, prompt, calm>>

\* The highest step is the one of the least age.
MaxStep == CHOOSE s \in ObservedSteps : \A u \in ObservedSteps : s <= u

Finish(ok) == pc' = "done" /\ failed' = (failed \/ ~ok)

FirstStep ==
  /\ pc = "first"
  /\ \E err \in BOOLEAN :
       /\ elapsed >= Outer => err
       /\ Outcome(err)
       /\ IF err \/ ObservedSteps = {}
          THEN Finish(FALSE) /\ UNCHANGED <<first, deadline>>
          ELSE /\ first' = MaxStep /\ deadline' = Sooner(elapsed + Window, Outer)
               /\ pc' = "watching" /\ UNCHANGED failed
  /\ UNCHANGED <<gate, elapsed, prompt>>

Advanced(current) == current < first

\* A call that fails keeps the window.
Watch ==
  /\ pc = "watch"
  /\ \E err \in BOOLEAN :
       /\ elapsed >= Outer => err
       /\ Outcome(err)
       /\ IF ~err /\ ObservedSteps # {} /\ Advanced(MaxStep)
          THEN Finish(TRUE)
          ELSE pc' = "watching" /\ UNCHANGED failed
  /\ UNCHANGED <<gate, elapsed, deadline, first, prompt>>

\* At the end of the window the ticker may still be served first.
WindowEnds ==
  /\ pc \in {"watching", "watch"} /\ elapsed >= deadline
  /\ Finish(FALSE)
  /\ UNCHANGED <<gate, elapsed, deadline, first, trouble, prompt, calm>>

Command == /\ \/ Start \/ ReadScenario \/ ReadControl \/ Poll \/ OutOfBudget
              \/ FirstStep \/ Watch \/ WindowEnds
           /\ UNCHANGED world

---------------------------------------------------------------------------
\* Time passes between two polls, or during a call, which is then slow; no
\* call and no wait outlives its context.
Calling == pc \in {"scenario", "control", "poll", "first", "watch"}

Due == \/ pc \in {"poll", "wait", "watching"} /\ elapsed >= deadline
       \/ Calling /\ elapsed >= Outer
Woken == CASE pc = "wait" -> "poll" [] pc = "watching" -> "watch" [] OTHER -> pc

TimePasses ==
  /\ pc # "done" /\ ~Due /\ Tick /\ pc' = Woken
  /\ elapsed' = IF pc = "idle" THEN 0 ELSE elapsed + 1
  /\ first' = Older(first)
  /\ IF Calling THEN Troubled /\ prompt' = (prompt /\ pc = "poll")
                ELSE UNCHANGED <<trouble, prompt, calm>>
  /\ UNCHANGED <<gate, failed, deadline>>

Next ==
  \/ Command
  \/ pc # "done" /\ Disturb /\ calm' = FALSE /\ UNCHANGED <<command, trouble, prompt>>
  \/ pc # "done" /\ Work /\ UNCHANGED <<command, trouble, prompt, calm>>
  \/ TimePasses

Spec == Init /\ [][Next]_vars

---------------------------------------------------------------------------
Passed == pc = "done" /\ ~failed

\* Every variable has its type.
TypeOK ==
  /\ WorldOK
  /\ pc \in {"idle", "scenario", "control", "poll", "wait", "first", "watching",
             "watch", "done"}
  /\ gate \in 1 .. Len(Gates) + 1 /\ first \in Ages
  /\ {elapsed, deadline} \subseteq 0 .. Outer
  /\ {failed, prompt, calm} \subseteq BOOLEAN

\* A recovery is not reported on old samples: an exporter that died or took up
\* a fault has published "normal" within MaxAge before the command started,
\* although Prometheus serves its last sample for longer.
PassedIsRecent ==
  Passed => \A e \in Exporters : left[e] <= elapsed + MaxAge

\* Nor is it reported for training that has long been stuck, although its
\* workers still answer with the last step.
ProgressIsRecent == Passed => step <= elapsed + MaxAge

\* Both of them.
RecoveryIsRecent == PassedIsRecent /\ ProgressIsRecent

\* A lab that never recovers does not cost a budget for every gate: unless a
\* call outside the budget hangs, the report is there after the budget and the
\* window.
InTime == prompt => elapsed <= Budget + Window

\* Every variable has its type, and the report comes in time.
RecoveryInTime == TypeOK /\ InTime

\* The time it takes until every live part has adopted its document and Prometheus has
\* scraped it of all of them, and then until it has scraped a new step.
EnoughTime ==
  /\ Ranks # {} /\ Lag <= MaxAge /\ 2 * Lag + 1 < Budget /\ 2 * Lag + 1 < Window

\* A lab that was set to normal before the command started, whatever its parts
\* still had to take up, and that nothing disturbs is reported as recovered.
HealthyPasses == pc = "done" /\ calm => ~failed
=============================================================================
