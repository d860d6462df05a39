------------------------------ MODULE Verifier ------------------------------
(***************************************************************************)
(* gpu verify <scenario>: Verify polls what the scenario promises, check   *)
(* after check, each with a timeout of its own within the deadline of the  *)
(* command.  Most scenarios are judged by their readings; a timeline by    *)
(* one query that wants its generation, one phase and fresh samples of     *)
(* every exporter.  A document is one application of a scenario; when its  *)
(* duration has passed the exporters turn back to normal by themselves.    *)
(***************************************************************************)
EXTENDS Monitoring, Sequences

CONSTANTS
  Timeline,          \* whether the selected scenario is a timeline
  PhaseLength, LastPhase,
  Duration,          \* of the selected scenario; 0 when it does not expire
  Timeout,           \* of a poll
  Outer,             \* the deadline of the command
  FreshAge,          \* how old a sample of a timeline may be
  MaxTrouble         \* BOUND on calls that fail, and on ticks that calls take

VerifierAssumption ==
  /\ {LastPhase, Duration, Timeout, Outer, FreshAge, MaxTrouble} \subseteq Nat
  /\ PhaseLength \in Nat \ {0} /\ Timeout <= Outer /\ FreshAge <= Lookback
  /\ LastPhase * PhaseLength + Lookback <= Settled /\ Duration + Lookback <= Settled
  /\ Timeline \in BOOLEAN /\ (Timeline /\ Duration # 0 => LastPhase * PhaseLength < Duration)

VARIABLES
  since,             \* the age of the last application of each selected document
  pc, check,         \* what the command does, the check it polls
  generation,        \* the generation it has read
  failed,            \* a check has failed
  elapsed, deadline, \* how long it has run; when its poll ends
  seen,              \* phases its checks were passed on
  trouble, calm

command == <<pc, check, generation, failed, elapsed, deadline, seen>>
vars == <<world, since, command, trouble, calm>>

Selected(d) == d \notin NormalDocuments
Selections  == {d \in Documents : Selected(d)}

Init ==
  /\ MonitoringInit /\ since = [d \in Selections |-> Settled]
  /\ pc = "idle" /\ check = 1 /\ generation = document /\ failed = FALSE
  /\ elapsed = 0 /\ deadline = 0 /\ seen = {} /\ trouble = 0 /\ calm = FALSE

---------------------------------------------------------------------------
(* What an exporter publishes *)

PhaseOf(age) == IF age \div PhaseLength > LastPhase THEN LastPhase
                                                    ELSE age \div PhaseLength

\* From then on the readings are the normal ones, of no phase.
Expired(age) == Duration # 0 /\ age >= Duration

\* How old the application was that a sample shows.
SampledAge(e) == since[sample[e].shows.document] - sample[e].age

Active(e) == Selected(sample[e].shows.document) /\ ~Expired(SampledAge(e))

---------------------------------------------------------------------------
(* The checks *)

Checks == IF Timeline THEN <<"up", "phase">> ELSE <<"up", "readings">>

\* Mutant: the samples of any application of the scenario count.
AnyGeneration(d) == Selected(d)

OfGeneration(d) == d = generation

FreshPhase(e, phase) ==
  /\ Present(e) /\ sample[e].age <= FreshAge
  /\ OfGeneration(sample[e].shows.document)
  /\ Active(e) /\ PhaseOf(SampledAge(e)) = phase

Passes(c, phase) ==
  CASE c = "up"       -> \A e \in Exporters : Served(e) /\ sample[e].up
    [] c = "phase"    -> \A e \in Exporters : FreshPhase(e, phase)
    [] c = "readings" -> \E e \in Exporters : Present(e) /\ Active(e)

---------------------------------------------------------------------------
(* The command.  Any call to the API server may fail, and does once the    *)
(* deadline of the command has passed.                                     *)

Sooner(a, b) == IF a <= b THEN a ELSE b
Troubled == trouble < MaxTrouble /\ trouble' = trouble + 1 /\ calm' = FALSE
Outcome(err) == /\ elapsed >= Outer => err
                /\ IF err /\ elapsed < Outer THEN Troubled
                                             ELSE UNCHANGED <<trouble, calm>>

Start ==
  /\ pc = "idle" /\ pc' = "scenario"
  /\ calm' = (Selected(document) /\ live = Targets)
  /\ UNCHANGED <<check, generation, failed, elapsed, deadline, seen, trouble>>

Finish == pc' = "done" /\ failed' = TRUE

\* Another scenario ends the report.
ReadScenario ==
  /\ pc = "scenario"
  /\ \E err \in BOOLEAN :
       /\ Outcome(err)
       /\ IF err \/ ~Selected(document) THEN Finish /\ UNCHANGED deadline
          ELSE /\ pc' = "poll" /\ deadline' = Sooner(elapsed + Timeout, Outer)
               /\ UNCHANGED failed
  /\ UNCHANGED <<check, generation, elapsed, seen>>

\* The generation is read once, after the check of the targets; without it
\* there is no other check.
ReadGeneration ==
  /\ pc = "generation"
  /\ \E err \in BOOLEAN :
       /\ Outcome(err)
       /\ IF err THEN Finish /\ UNCHANGED <<deadline, generation>>
          ELSE /\ pc' = "poll" /\ generation' = document
               /\ deadline' = Sooner(elapsed + Timeout, Outer)
               /\ UNCHANGED failed
  /\ UNCHANGED <<check, elapsed, seen>>

NextCheck ==
  /\ check' = check + 1
  /\ deadline' = Sooner(elapsed + Timeout, Outer)
  /\ pc' = CASE check = Len(Checks)      -> "done"
             [] check = 1 /\ Timeline    -> "generation"
             [] OTHER                    -> "poll"

\* Mutant: a check that does not pass at once fails.
NotAgain == NextCheck /\ failed' = TRUE

Again == pc' = "wait" /\ UNCHANGED <<check, deadline, failed>>

\* poll asks before it looks at its timer; a timer and a ticker that are both
\* due may be served in either order.
Poll ==
  /\ pc = "poll"
  /\ \E err \in BOOLEAN :
       /\ Outcome(err)
       /\ \/ /\ ~err
             /\ \E phase \in 0 .. LastPhase :
                  /\ Passes(Checks[check], phase)
                  /\ seen' = IF Checks[check] = "phase" THEN seen \cup {phase} ELSE seen
             /\ NextCheck /\ UNCHANGED failed
          \/ /\ err \/ \A phase \in 0 .. LastPhase : ~Passes(Checks[check], phase)
             /\ Again /\ UNCHANGED seen
  /\ UNCHANGED <<generation, elapsed>>

TimedOut ==
  /\ pc \in {"wait", "poll"} /\ elapsed >= deadline
  /\ NextCheck /\ failed' = TRUE
  /\ UNCHANGED <<generation, elapsed, seen, trouble, calm>>

Command == /\ \/ Start \/ ReadScenario \/ ReadGeneration \/ Poll \/ TimedOut
           /\ UNCHANGED <<world, since>>

---------------------------------------------------------------------------
\* A new application is a document that nothing shows any more.
Traces == {document, generation} \cup {shown[e] : e \in Exporters}
          \cup {sample[e].shows.document : e \in {x \in Exporters : sample[x].up}}
ApplyNew ==
  /\ Apply /\ (Selected(document') => document' \notin Traces)
  /\ since' = [d \in Selections |-> IF d = document' THEN 0 ELSE since[d]]

\* How old an application was that nothing shows any more is forgotten.
Ageing ==
  since' = [d \in Selections |-> IF d \in Traces THEN UpTo(since[d], Settled) ELSE Settled]

Calling == pc \in {"scenario", "generation", "poll"}

TimePasses ==
  /\ pc # "done" /\ Tick /\ Ageing
  /\ Calling => elapsed < Outer
  /\ pc = "wait" => elapsed < deadline
  /\ pc' = IF pc = "wait" THEN "poll" ELSE pc
  /\ elapsed' = IF pc = "idle" THEN 0 ELSE elapsed + 1
  /\ IF Calling THEN Troubled ELSE UNCHANGED <<trouble, calm>>
  /\ UNCHANGED <<check, generation, failed, deadline, seen>>

Disturbance == ApplyNew \/ \E e \in Exporters : Die(e) /\ UNCHANGED since
LabWork     == \E e \in Exporters : (Adopt(e) \/ Scrape(e)) /\ UNCHANGED since

Next ==
  \/ Command
  \/ pc # "done" /\ Disturbance /\ calm' = FALSE /\ UNCHANGED <<command, trouble>>
  \/ pc # "done" /\ LabWork /\ UNCHANGED <<command, trouble, calm>>
  \/ TimePasses

Spec == Init /\ [][Next]_vars

---------------------------------------------------------------------------
Passed == pc = "done" /\ ~failed

\* Every variable has its type.
TypeOK ==
  /\ WorldOK /\ since \in [Selections -> 0 .. Settled]
  /\ Selected(document) => since[document] = applied
  /\ pc \in {"idle", "scenario", "generation", "poll", "wait", "done"}
  /\ check \in 1 .. Len(Checks) + 1 /\ generation \in Documents
  /\ {elapsed, deadline} \subseteq 0 .. Outer /\ seen \subseteq 0 .. LastPhase
  /\ {failed, calm} \subseteq BOOLEAN

\* A timeline is reported only for the application that is in the ConfigMap, when
\* nothing disturbs the command: samples of an earlier application of the same
\* scenario do not pass for it.
TimelineIsApplied ==
  Passed /\ Timeline /\ calm => \A e \in Exporters : shown[e] = document

\* The report never combines readings of different phases of a timeline.
OnePhase == Passed /\ Timeline => \E phase \in 0 .. LastPhase : seen = {phase}

\* Nor is a timeline reported on samples of it once it has expired for longer than they
\* may be old, whatever happens to the lab.
NoneExpired ==
  Passed /\ Timeline /\ Exporters # {} =>
    Selected(generation) /\ (Duration = 0 \/ since[generation] - FreshAge < Duration)

\* Every variable has its type, and what is reported is one phase of one application.
TimelineIsOne == TypeOK /\ TimelineIsApplied /\ OnePhase /\ NoneExpired

\* The time it takes until every live exporter has adopted a document, Prometheus has scraped
\* it of all of them and no phase is about to change.
EnoughTime ==
  /\ Exporters # {} /\ Lag <= FreshAge /\ 3 * Lag + 1 < Timeout
  /\ Timeline => Lag < PhaseLength

\* A lab that runs the scenario, whatever its exporters still have to take up, that nothing
\* disturbs and whose scenario has not expired by the report is reported to run it.
AppliedPasses ==
  pc = "done" /\ calm /\ (Duration = 0 \/ applied < Duration) => ~failed
=============================================================================
