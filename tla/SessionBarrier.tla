--------------------------- MODULE SessionBarrier ---------------------------
(***************************************************************************)
(* What the collective promises its ranks: training happens in sessions,   *)
(* and a session is a barrier.  A rank enters a session where everyone     *)
(* else in it still stands, and goes to the next step only when nobody in  *)
(* the session is behind.  Requests, retries, the coordinator, its caches  *)
(* and its restarts are not part of the promise.                           *)
(***************************************************************************)
EXTENDS Naturals

CONSTANT Ranks

VARIABLES
  at,     \* the session a rank trains in, 0 for none
  done    \* the last step it has done there

Init ==
  /\ at = [r \in Ranks |-> 0]
  /\ done = [r \in Ranks |-> 0]

Enter(r) ==
  /\ at[r] = 0
  /\ at'[r] \in Nat \ {0} /\ done'[r] \in Nat
  /\ \A q \in Ranks : at[q] = at'[r] => done[q] = done'[r]
  /\ at' = [at EXCEPT ![r] = at'[r]]
  /\ done' = [done EXCEPT ![r] = done'[r]]

Advance(r) ==
  /\ at[r] # 0
  /\ \A q \in Ranks : at[q] = at[r] => done[r] <= done[q]
  /\ done' = [done EXCEPT ![r] = @ + 1]
  /\ UNCHANGED at

Leave(r) ==
  /\ at[r] # 0
  /\ at' = [at EXCEPT ![r] = 0]
  /\ done' = [done EXCEPT ![r] = 0]

Next == \E r \in Ranks : Enter(r) \/ Advance(r) \/ Leave(r)

Spec == Init /\ [][Next]_<<at, done>>
=============================================================================
