------------------------------ MODULE PodEvents ------------------------------
(***************************************************************************)
(* gpu verify of the scenarios whose Pod cannot be scheduled: the phase of *)
(* the Pod, then an event of the scheduler for it (podPhaseCheck,          *)
(* podEventCheck).  Pods are known by name; another run of a scenario may  *)
(* replace the Pod between any two calls, and the events of the old one    *)
(* stay.  Pod n is the n-th of its name and created at time n.             *)
(***************************************************************************)
EXTENDS Integers, FiniteSets, FiniteSetsExt

CONSTANTS MaxPods, MaxEvents, MaxErrors    \* BOUNDS

BoundsAssumption == {MaxPods, MaxEvents, MaxErrors} \subseteq Nat

Pods == 1 .. MaxPods
None == 0                       \* no Pod; a timestamp that is not set
Times == 0 .. MaxPods

\* An event names its Pod by its UID; occurrences are the values of eventTime,
\* firstTimestamp, lastTimestamp and series.lastObservedTime that are set.
Events == [pod : Pods, matches : BOOLEAN, created : Times,
           occurrences : {o \in SUBSET (Times \ {None}) : Cardinality(o) <= 2}]

VARIABLES
  current, made, pending,   \* the Pod of the name, how many there were, its phase
  events,
  pc, identity, found,      \* the command, the Pod it has read, the event it has
  errors

world == <<current, made, pending, events>>
vars  == <<world, pc, identity, found, errors>>

Nothing == [pod |-> None]

Init ==
  /\ current = None /\ made = 0 /\ pending = FALSE /\ events = {}
  /\ pc = "phase" /\ identity = None /\ found = Nothing /\ errors = 0

---------------------------------------------------------------------------
(* The cluster *)

Running == pc \notin {"passed", "failed"}

CreatePod ==
  /\ Running /\ current = None /\ made < MaxPods
  /\ made' = made + 1 /\ current' = made' /\ pending' = TRUE
  /\ UNCHANGED <<events, pc, identity, found, errors>>

DeletePod ==
  /\ Running /\ current # None
  /\ current' = None /\ pending' = FALSE
  /\ UNCHANGED <<made, events, pc, identity, found, errors>>

Schedule ==
  /\ Running /\ pending /\ pending' = FALSE
  /\ UNCHANGED <<current, made, events, pc, identity, found, errors>>

\* The scheduler's clock need not be that of the API server.
Record ==
  /\ Running /\ current # None /\ Cardinality(events) < MaxEvents
  /\ \E e \in Events : e.pod = current /\ events' = events \cup {e}
  /\ UNCHANGED <<current, made, pending, pc, identity, found, errors>>

---------------------------------------------------------------------------
(* The checks; an error, and what is not yet there, is asked for again.    *)

Again(step) == pc' = step /\ identity' = None /\ found' = Nothing

CallFails ==
  /\ Running /\ errors < MaxErrors /\ errors' = errors + 1
  /\ Again(IF pc = "phase" THEN "phase" ELSE "identity")
  /\ UNCHANGED world

\* A check that has not passed when its time is over fails the report.
TimesOut ==
  /\ pc \in {"phase", "identity"} /\ pc' = "failed"
  /\ UNCHANGED <<world, identity, found, errors>>

ReadPhase ==
  /\ pc = "phase" /\ current # None /\ pending
  /\ pc' = "identity"
  /\ UNCHANGED <<world, identity, found, errors>>

ReadIdentity ==
  /\ pc = "identity" /\ current # None
  /\ identity' = current /\ pc' = "events"
  /\ UNCHANGED <<world, found, errors>>

\* relevantPodEventTime: the last occurrence, else the creation.
Usable(e) == e.occurrences # {} \/ e.created # None
RelevantTime(e) == IF e.occurrences # {} THEN Max(e.occurrences) ELSE e.created

\* Mutant: events are read by the name of the Pod.
ByName(e) == TRUE

OfIdentity(e) == e.pod = identity

Listed == {e \in events : OfIdentity(e)}
Accepted(e) == e.matches /\ RelevantTime(e) >= identity

AcceptAfterRecheck == pc' = "recheck"

ReadEvents ==
  /\ pc = "events"
  /\ IF (\A e \in Listed : Usable(e)) /\ \E e \in Listed : Accepted(e)
     THEN /\ \E e \in Listed : Accepted(e) /\ found' = e
          /\ AcceptAfterRecheck /\ UNCHANGED identity
     ELSE Again("identity")
  /\ UNCHANGED <<world, errors>>

Recheck ==
  /\ pc = "recheck"
  /\ IF current = identity THEN pc' = "passed" /\ UNCHANGED <<identity, found>>
                           ELSE Again("identity")
  /\ UNCHANGED <<world, errors>>

Next == \/ CreatePod \/ DeletePod \/ Schedule \/ Record
        \/ CallFails \/ TimesOut
        \/ ReadPhase \/ ReadIdentity \/ ReadEvents \/ Recheck

Spec == Init /\ [][Next]_vars

---------------------------------------------------------------------------
\* Every variable has its type, and no poll starts with the answer of another.
TypeOK ==
  /\ current \in Pods \cup {None} /\ made \in Times /\ pending \in BOOLEAN
  /\ events \subseteq Events /\ errors \in 0 .. MaxErrors
  /\ pc \in {"phase", "identity", "events", "recheck", "passed", "failed"}
  /\ identity \in Pods \cup {None} /\ found \in Events \cup {Nothing}
  /\ pc \in {"phase", "identity", "failed"} => identity = None /\ found = Nothing

\* The event that is accepted is one of the Pod that has the name then, although
\* the Pod may have been replaced before every call; an event of an earlier Pod
\* of the name, or one dated before the Pod, is never taken for it.
EventOfCurrentPod ==
  pc = "passed" => /\ found \in events /\ found.pod = current
                   /\ RelevantTime(found) >= current
=============================================================================
