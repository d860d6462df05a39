--------------------------- MODULE CollectiveInv ----------------------------
(***************************************************************************)
(* The inductive invariant of Collective behind Lockstep, TrainsAsMember   *)
(* and RetryIsAnswerable, in named parts.  It speaks of every session a    *)
(* rank may still be in (the Session parts) and of the coordinator's       *)
(* current one (the Current parts); late requests are allowed for.         *)
(* PromptInv adds what holds until a request outlives its client, which    *)
(* CheckpointsHold and PendingIsNext rest on.                              *)
(***************************************************************************)
EXTENDS Collective

\* Session ids and incarnations are drawn fresh: nothing refers to one that
\* was not drawn yet.
Fresh ==
  /\ sid <= issued
  /\ sid = 0 <=> members = {}
  /\ \A r \in Ranks : /\ token[r] <= issued
                      /\ pc[r] = "training" => token[r] > 0
                      /\ r \in members => minc[r] <= inc[r]
  /\ \A r \in Ranks : \A m \in offer[r] :
       m.kind = "joined" => m.session > 0 /\ m.session <= issued
  /\ \A m \in late : /\ m.kind = "join" => m.tag <= inc[m.rank]
                     /\ m.kind = "reduce" => m.tag > 0 /\ m.tag <= issued

\* No step, checkpoint, reply or request goes beyond the bound.
Bounded ==
  /\ \A r \in Ranks : /\ step[r] <= MaxStep /\ disk[r] <= MaxStep
                      /\ mstep[r] <= MaxStep
                      /\ \A m \in offer[r] : m.step <= MaxStep
  /\ resume <= MaxStep
  /\ \A n \in completed : n <= MaxStep
  /\ \A m \in late : IF m.kind = "join" THEN m.step <= MaxStep
                                         ELSE m.step \in Rounds

\* A process that is off has no attempt, and only a parked handler has replies,
\* of the kind its client waits for.
Attempts ==
  \A r \in Ranks :
    /\ pc[r] = "off" => call[r] = "none"
    /\ pc[r] = "off" => token[r] = 0
    /\ call[r] # "parked" => offer[r] = {}
    /\ \A m \in offer[r] :
         /\ m.kind = "joined" => pc[r] = "joining"
         /\ m.kind = "average" => pc[r] = "training" /\ m.step = step[r] + 1
         /\ m.kind = "changed" => m = Changed

\* r has a reply that takes it to the next step.
MayAdvance(r) == \E m \in offer[r] : m.kind = "average"

\* In a session, the ranks are at most one step apart and only the ones behind
\* may advance.
SessionLockstep ==
  \A p, q \in Ranks :
    /\ pc[p] = "training" /\ pc[q] = "training" /\ token[p] = token[q]
    => /\ step[p] <= step[q] + 1
       /\ MayAdvance(p) => step[p] <= step[q]

\* A rank admitted to a session it has not entered yet finds everyone who has
\* entered at the step it is admitted with.
SessionEntry ==
  \A r \in Ranks : \A m \in offer[r] :
    m.kind = "joined" =>
      /\ \A q \in Ranks : pc[q] = "training" /\ token[q] = m.session
                            => step[q] = m.step /\ ~MayAdvance(q)
      /\ \A q \in Ranks : \A k \in offer[q] :
           k.kind = "joined" /\ k.session = m.session => k.step = m.step

\* Who is in the current session.
CurrentMembers ==
  /\ ~Started => completed = {} /\ \A n \in Rounds : values[n] = {}
  /\ \A r \in Ranks :
       /\ token[r] = sid /\ sid > 0 =>
            /\ pc[r] = "training" /\ Started /\ minc[r] = inc[r]
            /\ Changed \notin offer[r]
       /\ Parked(r) =>
            IF pc[r] = "joining"
            THEN /\ r \in members /\ minc[r] = inc[r]
                 /\ Started => offer[r] # {}
            ELSE token[r] = sid
       /\ \A m \in offer[r] :
            m.kind = "joined" /\ m.session = sid =>
              Started /\ m.step = resume /\ minc[r] = inc[r]
  /\ \A m \in late : m.kind = "reduce" /\ m.tag = sid => Started

\* h is the last step the current session has reduced, or its resume step.
Frontier(h) ==
  /\ resume <= h
  /\ \A n \in completed : resume < n /\ n <= h
  /\ h = resume \/ h \in completed

\* r has entered the current session, or the process that did is gone.
HasEntered(r) == token[r] = sid \/ pc[r] = "off" \/ minc[r] < inc[r]

\* Where the members of a started session stand, and what the next round and
\* the requests still on their way hold.
Progress(h) ==
  /\ Frontier(h)
  /\ \A r \in Ranks :
       /\ token[r] = sid => /\ step[r] \in {h - 1, h}
                            /\ resume <= step[r]
                            /\ MayAdvance(r) => step[r] = h - 1
       /\ resume < h => HasEntered(r)
  /\ \A n \in Rounds : values[n] # {} => n <= h + 1 /\ resume < n
  /\ \A n \in Rounds : \A r \in values[n] :
       n = h + 1 => HasEntered(r) /\ (token[r] = sid => step[r] = h)
  /\ \A m \in late :
       m.kind = "reduce" /\ m.tag = sid =>
         /\ resume < m.step /\ m.step <= h + 1
         /\ HasEntered(m.rank)
         /\ m.step = h + 1 /\ token[m.rank] = sid => step[m.rank] = h

CurrentProgress == Started => \E h \in completed \cup {resume} : Progress(h)

IInv ==
  /\ TypeOK
  /\ Fresh
  /\ Bounded
  /\ Attempts
  /\ SessionLockstep
  /\ SessionEntry
  /\ CurrentMembers
  /\ CurrentProgress

-----------------------------------------------------------------------------
\* A member has nothing to do with an earlier session, and its record is of the
\* checkpoint and the step it joined with, until the session has started and it
\* has entered.
Records ==
  \A r \in members :
    /\ pc[r] = "training" => token[r] = sid
    /\ \A m \in offer[r] : m.kind = "joined" => m.session = sid
    /\ ~Started => disk[r] <= mstep[r]
    /\ pc[r] # "off" /\ minc[r] = inc[r] /\ token[r] # sid => mstep[r] <= step[r]

\* A session resumes at its lowest record; some checkpoint is not above it
\* for as long as somebody has still to enter.
Resumes ==
  Started =>
    /\ \A r \in Ranks : resume <= mstep[r]
    /\ (\E r \in Ranks : ~HasEntered(r)) => \E q \in Ranks : disk[q] <= resume

\* As long as a rank is offered the entry to a session, replaced or not, no other
\* session trains or admits anyone, and some checkpoint is not above its step.
Admissions ==
  \A r \in Ranks : \A m \in offer[r] :
    m.kind = "joined" =>
      /\ m.step <= step[r]
      /\ \E q \in Ranks : disk[q] <= m.step
      /\ \A q \in Ranks :
           /\ pc[q] = "training" => token[q] = m.session
           /\ \A k \in offer[q] : k.kind = "joined" => k.session = m.session

\* Only the round after the last one is pending.
PendingAfter ==
  Started => \A n \in Rounds : values[n] # {} => \A k \in completed : k < n

Prompt == late = {} /\ Records /\ Resumes /\ Admissions /\ PendingAfter

PromptInv == CheckpointNotAhead /\ (lates = 0 => Prompt)
=============================================================================
