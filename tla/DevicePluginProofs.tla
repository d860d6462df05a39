------------------------- MODULE DevicePluginProofs --------------------------
(***************************************************************************)
(* Proofs about DevicePlugin, for any number of processes that share the   *)
(* directory, any identities, delays and faults: the types, and that no    *)
(* process sleeps unknown to the kubelet it remembers.                     *)
(***************************************************************************)
EXTENDS DevicePlugin, TLAPS

Places == InLoop \cup {"down", "listen", "bind", "identify", "stop", "remove"}

-----------------------------------------------------------------------------
(* The invariant. *)

\* TypeOK, with the places of a process named.
Types ==
  /\ sock \in Ids \cup {0} /\ kub \in Ids \cup {0} /\ dials \in 0 .. MaxDials
  /\ pc \in [Procs -> Places] /\ then \in [Procs -> {"down", "listen"}]
  /\ term \in [Procs -> BOOLEAN]
  /\ lis \in [Procs -> Ids \cup {0}] /\ own \in [Procs -> Ids \cup {0}]
  /\ open \in [Procs -> Nat] /\ active \in [Procs -> Nat] /\ closed \in [Procs -> BOOLEAN]
  /\ last \in [Procs -> Ids \cup {0}] /\ missing \in [Procs -> BOOLEAN]
  /\ registered \in [Procs -> BOOLEAN]
  /\ delay \in [Procs -> RetryInitial .. RetryMaximum]
  /\ until \in [Procs -> 0 .. RetryMaximum] /\ faults \in Nat

\* No two listeners have the same file: what is dialled is answered by its owner.
Distinct == \A p, q \in Procs : lis[p] # 0 /\ lis[p] = lis[q] => p = q

\* A process in its loop has a file that it takes for its own.
Owns(p) == pc[p] \in InLoop => own[p] # 0

\* The loop thinks that the kubelet knows it, or is about to.
Called(p) == pc[p] \in InLoop /\ (registered[p] \/ pc[p] = "answer")

\* It called the kubelet only after it had seen one.
Remembers(p) == Called(p) \/ pc[p] = "register" => last[p] # 0

\* Nothing that it remembers has changed since.
Undisturbed(p) ==
  sock = own[p] /\ own[p] = lis[p] /\ kub = last[p] /\ ~missing[p]

\* The kubelet will dial, has dialled, or the end of its stream will wake the loop.
HeardOf(p) == dials > 0 \/ closed[p] \/ active[p] > 0

Heard(p) == Called(p) /\ Undisturbed(p) => HeardOf(p)

Fine(p) == Owns(p) /\ Remembers(p) /\ Heard(p)

IInv == Types /\ Distinct /\ \A p \in Procs : Fine(p)

-----------------------------------------------------------------------------
LEMMA IInvTypeOK == IInv => TypeOK
BY DEF IInv, Types, TypeOK, Places

LEMMA IInvNoSilentLoss == IInv => NoSilentLoss
BY DEF IInv, Fine, Heard, Called, Undisturbed, HeardOf, NoSilentLoss

LEMMA InitIInv == Init => IInv
<1> SUFFICES ASSUME Init PROVE IInv
  OBVIOUS
<1>1. Types
  BY PluginAssumption DEF Init, Types, Places
<1>2. Distinct
  BY DEF Init, Distinct
<1>3. \A p \in Procs : Fine(p)
  BY DEF Init, Fine, Owns, Remembers, Heard, Called, InLoop
<1>4. QED
  BY <1>1, <1>2, <1>3 DEF IInv

-----------------------------------------------------------------------------
(* Types *)

USE DEF files, streams, loop

LEMMA BackedOffType ==
  ASSUME NEW d \in RetryInitial .. RetryMaximum
  PROVE  BackedOff(d) \in RetryInitial .. RetryMaximum
BY PluginAssumption DEF BackedOff

LEMMA ListenTypes ==
  ASSUME Types, NEW p \in Procs, Start(p) \/ ClearPath(p) \/ Bind(p) \/ Identify(p)
  PROVE  Types'
<1>1. CASE Start(p)
  BY <1>1 DEF Types, Start, To, Places
<1>2. CASE ClearPath(p)
  BY <1>2 DEF Types, ClearPath, To, Places
<1>3. CASE Bind(p)
  <2>1. pc' \in [Procs -> Places]
    BY <1>3 DEF Types, Bind, To, Places
  <2>2. sock' \in Ids \cup {0} /\ (lis' = lis \/ lis' = [lis EXCEPT ![p] = sock'])
    BY <1>3 DEF Types, Bind
  <2>3. QED
    BY <1>3, <2>1, <2>2 DEF Types, Bind
<1>4. CASE Identify(p)
  <2>1. pc' \in [Procs -> Places]
    BY <1>4 DEF Types, Identify, To, Places, InLoop
  <2>2. /\ lis' \in [Procs -> Ids \cup {0}] /\ open' \in [Procs -> Nat]
        /\ active' \in [Procs -> Nat]
    <3>1. \/ UNCHANGED <<lis, open, active>>
          \/ /\ lis' = [lis EXCEPT ![p] = 0] /\ open' = [open EXCEPT ![p] = 0]
             /\ active' = [active EXCEPT ![p] = 0]
      BY <1>4 DEF Identify, Unserved
    <3>2. QED
      BY <3>1 DEF Types
  <2>3. /\ own' \in [Procs -> Ids \cup {0}] /\ closed' \in [Procs -> BOOLEAN]
        /\ last' \in [Procs -> Ids \cup {0}] /\ missing' \in [Procs -> BOOLEAN]
        /\ registered' \in [Procs -> BOOLEAN]
        /\ until' \in [Procs -> 0 .. RetryMaximum]
    <3>1. \/ UNCHANGED <<own, closed, last, missing, registered, until>>
          \/ /\ own' = [own EXCEPT ![p] = sock] /\ closed' = [closed EXCEPT ![p] = FALSE]
             /\ last' = [last EXCEPT ![p] = 0] /\ missing' = [missing EXCEPT ![p] = FALSE]
             /\ registered' = [registered EXCEPT ![p] = FALSE]
             /\ until' = [until EXCEPT ![p] = 0]
      BY <1>4 DEF Identify
    <3>2. 0 \in 0 .. RetryMaximum
      BY PluginAssumption
    <3>3. CASE UNCHANGED <<own, closed, last, missing, registered, until>>
      BY <3>3 DEF Types
    <3>4. CASE ~UNCHANGED <<own, closed, last, missing, registered, until>>
      <4>1. own' \in [Procs -> Ids \cup {0}] /\ last' \in [Procs -> Ids \cup {0}]
        BY <3>1, <3>4 DEF Types
      <4>2. /\ closed' \in [Procs -> BOOLEAN] /\ missing' \in [Procs -> BOOLEAN]
            /\ registered' \in [Procs -> BOOLEAN]
        BY <3>1, <3>4 DEF Types
      <4>3. until' \in [Procs -> 0 .. RetryMaximum]
        BY <3>1, <3>2, <3>4 DEF Types
      <4>4. QED
        BY <4>1, <4>2, <4>3
    <3>5. QED
      BY <3>3, <3>4
  <2>4. delay' \in [Procs -> RetryInitial .. RetryMaximum]
    <3>1. delay' = delay \/ delay' = [delay EXCEPT ![p] = RetryInitial]
      BY <1>4 DEF Identify
    <3>2. RetryInitial \in RetryInitial .. RetryMaximum
      BY PluginAssumption
    <3>3. QED
      BY <3>1, <3>2 DEF Types
  <2>5. QED
    BY <1>4, <2>1, <2>2, <2>3, <2>4 DEF Types, Identify
<1>5. QED
  BY <1>1, <1>2, <1>3, <1>4

LEMMA LeaveTypes ==
  ASSUME Types, NEW p \in Procs, NEW next \in {"down", "listen"}, Leave(p, next)
  PROVE  pc' \in [Procs -> Places] /\ then' \in [Procs -> {"down", "listen"}]
BY DEF Types, Leave, To, Places

LEMMA RetryLaterTypes ==
  ASSUME Types, NEW p \in Procs, RetryLater(p)
  PROVE  /\ pc' \in [Procs -> Places]
         /\ until' \in [Procs -> 0 .. RetryMaximum]
         /\ delay' \in [Procs -> RetryInitial .. RetryMaximum]
<1>1. delay[p] \in RetryInitial .. RetryMaximum /\ delay[p] \in 0 .. RetryMaximum
  BY PluginAssumption DEF Types
<1>2. BackedOff(delay[p]) \in RetryInitial .. RetryMaximum
  BY <1>1, BackedOffType
<1>3. QED
  BY <1>1, <1>2 DEF Types, RetryLater, To, Places, InLoop

LEMMA LoopTypes ==
  ASSUME Types, NEW p \in Procs,
         CheckSocket(p) \/ LookAtKubelet(p) \/ Call(p) \/ Answer(p)
  PROVE  Types'
<1>1. CASE CheckSocket(p)
  <2>1. pc' \in [Procs -> Places] /\ then' \in [Procs -> {"down", "listen"}]
    <3>1. CASE Leave(p, "listen")
      BY <3>1, LeaveTypes
    <3>2. CASE To(p, "look") /\ UNCHANGED then
      BY <3>2 DEF Types, To, Places, InLoop
    <3>3. QED
      BY <1>1, <3>1, <3>2 DEF CheckSocket
  <2>2. QED
    BY <1>1, <2>1 DEF Types, CheckSocket
<1>2. CASE LookAtKubelet(p)
  <2>1. pc' \in [Procs -> Places] /\ then' \in [Procs -> {"down", "listen"}]
    <3>1. CASE Leave(p, "listen")
      BY <3>1, LeaveTypes
    <3>2. CASE To(p, "select") /\ UNCHANGED then
      BY <3>2 DEF Types, To, Places, InLoop
    <3>3. CASE To(p, "register") /\ UNCHANGED then
      BY <3>3 DEF Types, To, Places, InLoop
    <3>4. QED
      BY <1>2, <3>1, <3>2, <3>3 DEF LookAtKubelet
  <2>2. /\ missing' \in [Procs -> BOOLEAN] /\ registered' \in [Procs -> BOOLEAN]
    <3>1. (last[p] # 0) \in BOOLEAN
      OBVIOUS
    <3>2. missing' = missing \/ missing' = [missing EXCEPT ![p] = last[p] # 0]
      BY <1>2 DEF LookAtKubelet
    <3>3. registered' = registered \/ registered' = [registered EXCEPT ![p] = FALSE]
      BY <1>2 DEF LookAtKubelet
    <3>4. QED
      BY <3>1, <3>2, <3>3 DEF Types
  <2>3. last' \in [Procs -> Ids \cup {0}]
    BY <1>2 DEF Types, LookAtKubelet
  <2>4. QED
    BY <1>2, <2>1, <2>2, <2>3 DEF Types, LookAtKubelet
<1>3. CASE Call(p)
  <2>1. dials' \in 0 .. MaxDials /\ faults' \in Nat
    BY <1>3, PluginAssumption DEF Types, Call
  <2>2. /\ pc' \in [Procs -> Places]
        /\ until' \in [Procs -> 0 .. RetryMaximum]
        /\ delay' \in [Procs -> RetryInitial .. RetryMaximum]
    <3>1. CASE RetryLater(p)
      BY <3>1, RetryLaterTypes
    <3>2. CASE To(p, "answer") /\ UNCHANGED <<delay, until>>
      BY <3>2 DEF Types, To, Places, InLoop
    <3>3. QED
      BY <1>3, <3>1, <3>2 DEF Call
  <2>3. QED
    BY <1>3, <2>1, <2>2 DEF Types, Call
<1>4. CASE Answer(p)
  <2>1. faults' \in Nat /\ registered' \in [Procs -> BOOLEAN]
    <3>1. faults' = faults \/ faults' = faults + 1
      BY <1>4 DEF Answer
    <3>2. registered' = registered \/ registered' = [registered EXCEPT ![p] = TRUE]
      BY <1>4 DEF Answer
    <3>3. faults + 1 \in Nat
      BY DEF Types
    <3>4. QED
      BY <3>1, <3>2, <3>3 DEF Types
  <2>2. /\ pc' \in [Procs -> Places]
        /\ until' \in [Procs -> 0 .. RetryMaximum]
        /\ delay' \in [Procs -> RetryInitial .. RetryMaximum]
    <3>1. CASE RetryLater(p)
      BY <3>1, RetryLaterTypes
    <3>2. CASE To(p, "select") /\ delay' = [delay EXCEPT ![p] = RetryInitial]
               /\ UNCHANGED until
      <4>1. RetryInitial \in RetryInitial .. RetryMaximum
        BY PluginAssumption
      <4>2. QED
        BY <3>2, <4>1 DEF Types, To, Places, InLoop
    <3>3. QED
      BY <1>4, <3>1, <3>2 DEF Answer
  <2>3. QED
    BY <1>4, <2>1, <2>2 DEF Types, Answer
<1>5. QED
  BY <1>1, <1>2, <1>3, <1>4

LEMMA SelectTypes ==
  ASSUME Types, NEW p \in Procs,
         Cancelled(p) \/ ServeFails(p) \/ StreamClosed(p) \/ Tick(p)
  PROVE  Types'
<1>1. CASE Cancelled(p)
  BY <1>1, LeaveTypes DEF Types, Cancelled
<1>2. CASE ServeFails(p)
  BY <1>2, LeaveTypes DEF Types, ServeFails
<1>3. CASE StreamClosed(p)
  <2>1. pc' \in [Procs -> Places]
    BY <1>3 DEF Types, StreamClosed, To, Places, InLoop
  <2>2. 0 \in 0 .. RetryMaximum
    BY PluginAssumption
  <2>3. until' = until \/ until' = [until EXCEPT ![p] = 0]
    BY <1>3 DEF StreamClosed, Types
  <2>4. until' \in [Procs -> 0 .. RetryMaximum]
    BY <2>2, <2>3 DEF Types
  <2>5. QED
    BY <1>3, <2>1, <2>4 DEF Types, StreamClosed
<1>4. CASE Tick(p)
  <2>1. pc' \in [Procs -> Places]
    BY <1>4 DEF Types, Tick, To, Places, InLoop
  <2>2. until[p] \in 0 .. RetryMaximum
    BY DEF Types
  <2>3. (IF until[p] = 0 THEN 0 ELSE until[p] - 1) \in 0 .. RetryMaximum
    BY <2>2, PluginAssumption
  <2>4. until' \in [Procs -> 0 .. RetryMaximum]
    BY <1>4, <2>3 DEF Tick, Types
  <2>5. QED
    BY <1>4, <2>1, <2>4 DEF Types, Tick
<1>5. QED
  BY <1>1, <1>2, <1>3, <1>4

LEMMA StopTypes ==
  ASSUME Types, NEW p \in Procs, StopServer(p) \/ RemoveSocketIfOwned(p) \/ Kill(p)
                                 \/ Terminate(p) \/ StreamEnds(p) \/ Disconnect(p),
         faults' \in Nat
  PROVE  Types'
<1>1. CASE StopServer(p)
  <2>1. pc' \in [Procs -> Places]
    BY <1>1 DEF Types, StopServer, To, Places
  <2>2. QED
    BY <1>1, <2>1 DEF Types, StopServer, Unserved
<1>2. CASE RemoveSocketIfOwned(p)
  <2>1. then[p] \in Places
    BY DEF Types, Places
  <2>2. pc' \in [Procs -> Places]
    BY <1>2, <2>1 DEF Types, RemoveSocketIfOwned, To
  <2>3. sock' \in Ids \cup {0}
    BY <1>2 DEF Types, RemoveSocketIfOwned
  <2>4. QED
    BY <1>2, <2>2, <2>3 DEF Types, RemoveSocketIfOwned
<1>3. CASE Kill(p)
  <2>1. pc' \in [Procs -> Places]
    BY <1>3 DEF Types, Kill, To, Places
  <2>2. QED
    BY <1>3, <2>1 DEF Types, Kill, Unserved
<1>4. CASE Terminate(p)
  BY <1>4 DEF Types, Terminate
<1>5. CASE StreamEnds(p)
  <2>1. active[p] - 1 \in Nat
    BY <1>5 DEF Types, StreamEnds
  <2>2. active' \in [Procs -> Nat]
    BY <1>5, <2>1 DEF Types, StreamEnds
  <2>3. (closed[p] \/ active[p] = 1) \in BOOLEAN
    OBVIOUS
  <2>4. closed' \in [Procs -> BOOLEAN]
    BY <1>5, <2>3 DEF Types, StreamEnds
  <2>5. QED
    BY <1>5, <2>2, <2>4 DEF Types, StreamEnds
<1>6. CASE Disconnect(p)
  <2>1. open' \in [Procs -> Nat]
    BY <1>6 DEF Types, Disconnect
  <2>2. QED
    BY <1>6, <2>1 DEF Types, Disconnect
<1>7. QED
  BY <1>1, <1>2, <1>3, <1>4, <1>5, <1>6

LEMMA KubeletTypes ==
  ASSUME Types, faults' \in Nat, StartKubelet \/ Dial \/ StopKubelet \/ RemovePath
  PROVE  Types'
<1>1. CASE StartKubelet
  BY <1>1 DEF Types, StartKubelet
<1>2. CASE Dial
  <2>1. dials' \in 0 .. MaxDials
    BY <1>2, PluginAssumption DEF Types, Dial
  <2>2. open' \in [Procs -> Nat] /\ active' \in [Procs -> Nat]
    BY <1>2 DEF Types, Dial
  <2>3. QED
    BY <1>2, <2>1, <2>2 DEF Types, Dial
<1>3. CASE StopKubelet
  <2>1. dials' \in 0 .. MaxDials /\ open' \in [Procs -> Nat]
    BY <1>3, PluginAssumption DEF StopKubelet
  <2>2. QED
    BY <1>3, <2>1 DEF Types, StopKubelet
<1>4. CASE RemovePath
  BY <1>4 DEF Types, RemovePath
<1>5. QED
  BY <1>1, <1>2, <1>3, <1>4

-----------------------------------------------------------------------------
(* What a step leaves alone *)

\* What the invariant says of q, and of q's listener, has not changed.
Same(q) == /\ pc'[q] = pc[q] /\ lis'[q] = lis[q] /\ own'[q] = own[q]
           /\ active'[q] = active[q] /\ closed'[q] = closed[q] /\ last'[q] = last[q]
           /\ missing'[q] = missing[q] /\ registered'[q] = registered[q]

\* A process stays known although another one, or the kubelet, takes a step: a file
\* that comes is none that it remembers.
LEMMA SameIsFine ==
  ASSUME IInv, NEW q \in Procs, Same(q), dials' >= dials, dials' \in Nat,
         sock' = sock \/ sock' = 0 \/ sock' # own[q],
         kub' = kub \/ kub' # last[q]
  PROVE  Fine(q)'
<1>1. Fine(q) /\ dials \in Nat
  BY DEF IInv, Types
<1>2. Owns(q)' /\ Remembers(q)' /\ (Called(q)' <=> Called(q))
  BY <1>1 DEF Same, Fine, Owns, Remembers, Called
<1>3. ASSUME Called(q), Undisturbed(q)'
      PROVE  HeardOf(q)'
  <2>1. own[q] # 0
    BY <1>1, <1>3 DEF Called, Fine, Owns
  <2>2. Undisturbed(q)
    BY <1>3, <2>1 DEF Undisturbed, Same
  <2>3. HeardOf(q)
    BY <1>1, <1>3, <2>2 DEF Fine, Heard
  <2>4. QED
    BY <1>1, <2>3 DEF HeardOf, Same
<1>4. QED
  BY <1>2, <1>3 DEF Fine, Heard

\* Outside its loop a process expects nothing.
LEMMA OutsideIsFine ==
  ASSUME NEW p \in Procs, pc'[p] \notin InLoop
  PROVE  Fine(p)'
BY DEF Fine, Owns, Remembers, Heard, Called, InLoop

\* In its loop, and not registered, it expects nothing either.
LEMMA UnregisteredIsFine ==
  ASSUME NEW p \in Procs, ~registered'[p], pc'[p] \notin {"answer", "register"},
         own'[p] # 0
  PROVE  Fine(p)'
BY DEF Fine, Owns, Remembers, Heard, Called

\* A step of p that neither binds nor closes a listener.
LEMMA StepOfOne ==
  ASSUME IInv, NEW p \in Procs, Types', Fine(p)',
         lis' = lis, dials' >= dials, sock' = sock \/ sock' = 0, kub' = kub,
         \A q \in Procs : q # p => Same(q)
  PROVE  IInv'
<1>1. dials' \in Nat
  BY DEF Types
<1>2. Distinct'
  BY DEF IInv, Distinct
<1>3. \A q \in Procs : q # p => Fine(q)'
  BY <1>1, SameIsFine
<1>4. QED
  BY <1>2, <1>3 DEF IInv

-----------------------------------------------------------------------------
(* Steps *)

LEMMA TypesOf == IInv => Types
BY DEF IInv

\* Nothing but the place of p in its loop, and what the properties do not look at.
LEMMA MovesOn ==
  ASSUME IInv, NEW p \in Procs, Types', NEW place \in InLoop, To(p, place),
         UNCHANGED <<files, kub, open, active, closed, last, missing, registered>>,
         dials' >= dials, pc[p] \in InLoop,
         place = "answer" => dials' > 0 /\ pc[p] = "register",
         place = "register" => last[p] # 0
  PROVE  IInv'
<1>1. pc'[p] = place /\ \A q \in Procs : q # p => Same(q)
  BY DEF To, IInv, Types, Same
<1>2. Fine(p) /\ dials \in Nat /\ dials' \in Nat
  BY DEF IInv, Types
<1>3. Owns(p)' /\ Remembers(p)'
  BY <1>1, <1>2 DEF Fine, Owns, Remembers, Called
<1>4. Heard(p)'
  <2>1. CASE place = "answer"
    BY <2>1 DEF Heard, HeardOf
  <2>2. CASE place # "answer"
    BY <1>1, <1>2, <2>2 DEF Fine, Heard, Called, Undisturbed, HeardOf
  <2>3. QED
    BY <2>1, <2>2
<1>5. QED
  BY <1>1, <1>3, <1>4, StepOfOne DEF Fine

\* The path is looked for and taken.
LEMMA ListenStep ==
  ASSUME IInv, NEW p \in Procs, Start(p) \/ ClearPath(p) \/ Identify(p)
  PROVE  IInv'
<1>1. Types'
  BY ListenTypes, TypesOf
<1>2. CASE Start(p) \/ ClearPath(p)
  <2>1. /\ pc'[p] \notin InLoop /\ \A q \in Procs : q # p => Same(q)
        /\ lis' = lis /\ dials' = dials /\ (sock' = sock \/ sock' = 0) /\ kub' = kub
    BY <1>2 DEF Start, ClearPath, To, IInv, Types, InLoop, Same
  <2>2. dials' >= dials
    BY <2>1 DEF IInv, Types
  <2>3. QED
    BY <1>1, <2>1, <2>2, OutsideIsFine, StepOfOne
<1>3. CASE Identify(p)
  <2>1. dials' = dials /\ sock' = sock /\ kub' = kub /\ dials' \in Nat /\ dials' >= dials
    BY <1>3 DEF Identify, IInv, Types
  <2>2. \A q \in Procs : q # p => Same(q)
    <3>1. CASE sock = 0
      BY <1>3, <3>1 DEF Identify, To, Unserved, IInv, Types, Same
    <3>2. CASE sock # 0
      BY <1>3, <3>2 DEF Identify, To, IInv, Types, Same
    <3>3. QED
      BY <3>1, <3>2
  <2>3. Fine(p)'
    <3>1. CASE sock = 0
      <4>1. pc'[p] = "down"
        BY <1>3, <3>1 DEF Identify, To, IInv, Types
      <4>2. QED
        BY <4>1, OutsideIsFine DEF InLoop
    <3>2. CASE sock # 0
      <4>1. pc'[p] = "check" /\ own'[p] = sock /\ registered'[p] = FALSE
        BY <1>3, <3>2 DEF Identify, To, IInv, Types
      <4>2. QED
        BY <3>2, <4>1, UnregisteredIsFine
    <3>3. QED
      BY <3>1, <3>2
  <2>4. Distinct'
    <3>1. \A q \in Procs : lis'[q] = lis[q] \/ lis'[q] = 0
      BY <1>3 DEF Identify, Unserved, IInv, Types
    <3>2. QED
      BY <3>1 DEF IInv, Distinct
  <2>5. \A q \in Procs : q # p => Fine(q)'
    BY <2>1, <2>2, SameIsFine
  <2>6. QED
    BY <1>1, <2>3, <2>4, <2>5 DEF IInv
<1>4. QED
  BY <1>2, <1>3

\* The file of a new listener is none that anyone remembers.
LEMMA BindStep ==
  ASSUME IInv, NEW p \in Procs, Bind(p)
  PROVE  IInv'
<1>1. /\ Types' /\ dials' = dials /\ dials' >= dials /\ dials' \in Nat /\ kub' = kub
      /\ pc'[p] \notin InLoop
  BY ListenTypes, TypesOf DEF Bind, To, IInv, Types, InLoop
<1>2. CASE UNCHANGED <<sock, lis>>
  <2>1. \A q \in Procs : q # p => Same(q)
    BY <1>2 DEF Bind, To, IInv, Types, Same
  <2>2. QED
    BY <1>1, <1>2, <2>1, OutsideIsFine, StepOfOne
<1>3. CASE ~UNCHANGED <<sock, lis>>
  <2>1. PICK id \in Ids : /\ id \notin Known /\ sock' = id
                          /\ lis' = [lis EXCEPT ![p] = id]
    BY <1>3 DEF Bind, IsFresh
  <2>2. \A q \in Procs : id # lis[q] /\ id # own[q]
    BY <2>1 DEF Known
  <2>3. \A q \in Procs : q # p => Same(q)
    BY <2>1 DEF Bind, To, IInv, Types, Same
  <2>4. \A q \in Procs : lis'[q] = IF q = p THEN id ELSE lis[q]
    BY <2>1 DEF IInv, Types
  <2>5. Distinct'
    BY <2>2, <2>4 DEF IInv, Distinct
  <2>6. \A q \in Procs : q # p => Fine(q)'
    BY <1>1, <2>1, <2>2, <2>3, SameIsFine
  <2>7. QED
    BY <1>1, <2>5, <2>6, OutsideIsFine DEF IInv
<1>4. QED
  BY <1>2, <1>3

\* It leaves its loop.
LEMMA LeaveStep ==
  ASSUME IInv, NEW p \in Procs, NEW next \in {"down", "listen"}, Leave(p, next), Types',
         UNCHANGED <<files, kub, dials, open, active, closed, last, missing, registered>>
  PROVE  IInv'
<1>1. pc'[p] \notin InLoop /\ \A q \in Procs : q # p => Same(q)
  BY DEF Leave, To, IInv, Types, InLoop, Same
<1>2. dials' >= dials
  BY DEF IInv, Types
<1>3. QED
  BY <1>1, <1>2, OutsideIsFine, StepOfOne

LEMMA CheckStep ==
  ASSUME IInv, NEW p \in Procs, CheckSocket(p)
  PROVE  IInv'
<1>1. /\ Types' /\ dials' >= dials /\ pc[p] \in InLoop
      /\ UNCHANGED <<files, kub, streams, last, missing, registered>>
  BY LoopTypes, TypesOf DEF CheckSocket, IInv, Types, InLoop
<1>2. CASE Leave(p, "listen")
  BY <1>1, <1>2, LeaveStep
<1>3. CASE To(p, "look")
  BY <1>1, <1>3, MovesOn DEF InLoop
<1>4. QED
  BY <1>2, <1>3 DEF CheckSocket

\* What it sees of the kubelet is what it has remembered, or it forgets that it had
\* registered, or it leaves.
LEMMA LookStep ==
  ASSUME IInv, NEW p \in Procs, LookAtKubelet(p)
  PROVE  IInv'
<1>1. /\ Types' /\ dials' = dials /\ dials' >= dials /\ pc[p] = "look" /\ pc[p] \in InLoop
      /\ UNCHANGED <<files, kub, streams>>
  BY LoopTypes, TypesOf DEF LookAtKubelet, IInv, Types, InLoop
<1>2. own[p] # 0 /\ (registered[p] => last[p] # 0)
  BY <1>1 DEF IInv, Fine, Owns, Remembers, Called
<1>3. CASE kub = 0
  <2>1. /\ pc'[p] = "select" /\ ~registered'[p] /\ own' = own
        /\ \A q \in Procs : q # p => Same(q)
    BY <1>3 DEF LookAtKubelet, To, IInv, Types, Same
  <2>2. Fine(p)'
    BY <1>2, <2>1, UnregisteredIsFine
  <2>3. QED
    BY <1>1, <2>1, <2>2, StepOfOne
<1>4. CASE kub # 0 /\ KubeletReplaced(p)
  <2>1. Leave(p, "listen") /\ UNCHANGED <<last, missing, registered>>
    BY <1>4 DEF LookAtKubelet
  <2>2. QED
    BY <1>1, <2>1, LeaveStep
<1>5. CASE kub # 0 /\ ~KubeletReplaced(p)
  <2>1. /\ last' = [last EXCEPT ![p] = kub] /\ UNCHANGED <<missing, registered>>
        /\ To(p, IF ~registered[p] /\ until[p] = 0 THEN "register" ELSE "select")
    BY <1>5 DEF LookAtKubelet
  <2>2. /\ last'[p] = kub /\ pc'[p] \in {"register", "select"}
        /\ \A q \in Procs : q # p => Same(q)
    BY <1>1, <2>1 DEF To, IInv, Types, Same
  <2>3. Owns(p)' /\ Remembers(p)'
    BY <1>1, <1>2, <1>5, <2>2 DEF Owns, Remembers
  <2>4. Heard(p)'
    <3>1. SUFFICES ASSUME Called(p)', Undisturbed(p)' PROVE HeardOf(p)'
      BY DEF Heard
    <3>2. registered[p]
      BY <2>1, <2>2, <3>1 DEF Called
    <3>3. last[p] # 0 /\ last[p] = kub
      BY <1>2, <1>5, <3>2 DEF KubeletReplaced
    <3>4. Called(p) /\ Undisturbed(p)
      BY <1>1, <2>1, <3>1, <3>2, <3>3 DEF Called, Undisturbed
    <3>5. QED
      BY <1>1, <3>4 DEF IInv, Fine, Heard, HeardOf
  <2>5. QED
    BY <1>1, <2>2, <2>3, <2>4, StepOfOne DEF Fine
<1>6. QED
  BY <1>3, <1>4, <1>5

\* A call that is accepted will be dialled; its answer may be late, or lost.
LEMMA CallStep ==
  ASSUME IInv, NEW p \in Procs, Call(p)
  PROVE  IInv'
<1>1. /\ Types' /\ pc[p] = "register" /\ pc[p] \in InLoop
      /\ UNCHANGED <<files, kub, open, active, closed, last, missing, registered>>
  BY LoopTypes, TypesOf DEF Call, InLoop
<1>2. CASE To(p, "answer") /\ dials' = dials + 1
  <2>1. dials' >= dials /\ dials' > 0
    BY <1>2 DEF IInv, Types
  <2>2. QED
    BY <1>1, <1>2, <2>1, MovesOn DEF InLoop
<1>3. CASE RetryLater(p) /\ UNCHANGED dials
  <2>1. dials' >= dials
    BY <1>3 DEF IInv, Types
  <2>2. QED
    BY <1>1, <1>3, <2>1, MovesOn DEF InLoop, RetryLater
<1>4. QED
  BY <1>2, <1>3 DEF Call

LEMMA AnswerStep ==
  ASSUME IInv, NEW p \in Procs, Answer(p)
  PROVE  IInv'
<1>1. /\ Types' /\ pc[p] = "answer" /\ pc[p] \in InLoop /\ dials' = dials /\ dials' >= dials
      /\ UNCHANGED <<files, kub, streams, last, missing>>
  BY LoopTypes, TypesOf DEF Answer, InLoop, IInv, Types
<1>2. CASE RetryLater(p) /\ UNCHANGED registered
  BY <1>1, <1>2, MovesOn DEF InLoop, RetryLater
<1>3. CASE To(p, "select") /\ registered' = [registered EXCEPT ![p] = TRUE]
  <2>1. /\ pc'[p] = "select" /\ \A q \in Procs : q # p => Same(q)
    BY <1>1, <1>3 DEF To, IInv, Types, Same
  <2>2. Fine(p) /\ Called(p)
    BY <1>1 DEF IInv, Called
  <2>3. Owns(p)' /\ Remembers(p)' /\ Heard(p)'
    BY <1>1, <2>1, <2>2 DEF Fine, Owns, Remembers, Heard, Undisturbed, HeardOf
  <2>4. QED
    BY <1>1, <2>1, <2>3, StepOfOne DEF Fine
<1>4. QED
  BY <1>2, <1>3 DEF Answer

LEMMA SelectStep ==
  ASSUME IInv, NEW p \in Procs,
         Cancelled(p) \/ ServeFails(p) \/ StreamClosed(p) \/ Tick(p)
  PROVE  IInv'
<1>1. Types' /\ dials' = dials /\ dials' >= dials /\ pc[p] = "select" /\ pc[p] \in InLoop
  BY SelectTypes, TypesOf
     DEF Cancelled, ServeFails, StreamClosed, Tick, IInv, Types, InLoop
<1>2. CASE Cancelled(p) \/ ServeFails(p)
  BY <1>1, <1>2, LeaveStep DEF Cancelled, ServeFails
<1>3. CASE Tick(p)
  BY <1>1, <1>3, MovesOn DEF Tick, InLoop
<1>4. CASE StreamClosed(p)
  <2>1. /\ pc'[p] = "check" /\ ~registered'[p] /\ UNCHANGED <<files, kub>>
        /\ \A q \in Procs : q # p => Same(q)
    BY <1>4 DEF StreamClosed, To, IInv, Types, Same
  <2>2. own'[p] # 0
    BY <1>1, <2>1 DEF IInv, Fine, Owns
  <2>3. Fine(p)'
    BY <2>1, <2>2, UnregisteredIsFine
  <2>4. QED
    BY <1>1, <2>1, <2>3, StepOfOne
<1>5. QED
  BY <1>2, <1>3, <1>4

\* The last stream that ends leaves its token.
LEMMA StreamEndsStep ==
  ASSUME IInv, NEW p \in Procs, StreamEnds(p)
  PROVE  IInv'
<1>1. /\ Types' /\ dials' = dials /\ dials' >= dials
      /\ UNCHANGED <<files, kub, pc, last, missing, registered>>
  BY StopTypes, TypesOf DEF StreamEnds, IInv, Types
<1>2. /\ active[p] \in Nat /\ open[p] \in Nat /\ active[p] > open[p]
      /\ active'[p] = active[p] - 1 /\ closed'[p] = (closed[p] \/ active[p] = 1)
  BY DEF StreamEnds, IInv, Types
<1>3. \A q \in Procs : q # p => Same(q)
  BY <1>1 DEF StreamEnds, IInv, Types, Same
<1>4. HeardOf(p)'
  <2>1. CASE active[p] = 1
    BY <1>2, <2>1 DEF HeardOf
  <2>2. CASE active[p] # 1
    <3>1. active'[p] > 0
      BY <1>2, <2>2
    <3>2. QED
      BY <3>1 DEF HeardOf
  <2>3. QED
    BY <2>1, <2>2
<1>5. Fine(p)'
  BY <1>1, <1>4 DEF IInv, Fine, Owns, Remembers, Heard, Called
<1>6. QED
  BY <1>1, <1>3, <1>5, StepOfOne

\* A server that is stopped, a process that is killed, and one that is told to stop.
LEMMA StopStep ==
  ASSUME IInv, NEW p \in Procs, Types',
         StopServer(p) \/ RemoveSocketIfOwned(p) \/ Kill(p)
  PROVE  IInv'
<1>1. /\ dials' = dials /\ dials' \in Nat /\ dials' >= dials /\ kub' = kub
      /\ sock' = sock \/ sock' = 0
  BY DEF StopServer, RemoveSocketIfOwned, Kill, IInv, Types
<1>2. pc'[p] \notin InLoop
  <2>1. then[p] \notin InLoop
    BY DEF IInv, Types, InLoop
  <2>2. QED
    BY <2>1 DEF StopServer, RemoveSocketIfOwned, Kill, To, IInv, Types, InLoop
<1>3. \A q \in Procs : q # p => Same(q)
  <2>1. CASE StopServer(p)
    BY <2>1 DEF StopServer, Unserved, To, IInv, Types, Same
  <2>2. CASE RemoveSocketIfOwned(p)
    BY <2>2 DEF RemoveSocketIfOwned, To, IInv, Types, Same
  <2>3. CASE Kill(p)
    BY <2>3 DEF Kill, Unserved, To, IInv, Types, Same
  <2>4. QED
    BY <2>1, <2>2, <2>3
<1>4. \A q \in Procs : lis'[q] = lis[q] \/ lis'[q] = 0
  <2>1. lis' = lis \/ lis' = [lis EXCEPT ![p] = 0]
    BY DEF StopServer, RemoveSocketIfOwned, Kill, Unserved
  <2>2. QED
    BY <2>1 DEF IInv, Types
<1>5. Distinct'
  BY <1>4 DEF IInv, Distinct
<1>6. \A q \in Procs : q # p => Fine(q)'
  BY <1>1, <1>3, SameIsFine
<1>7. QED
  BY <1>2, <1>5, <1>6, OutsideIsFine DEF IInv

\* Nothing that the invariant speaks of.
LEMMA QuietStep ==
  ASSUME IInv, NEW p \in Procs, Types', Terminate(p) \/ Disconnect(p)
  PROVE  IInv'
<1>1. /\ UNCHANGED <<files, kub, dials, pc, active, closed, last, missing, registered>>
      /\ dials' \in Nat /\ dials' >= dials
  BY DEF Terminate, Disconnect, IInv, Types
<1>2. \A q \in Procs : Same(q)
  BY <1>1 DEF Same
<1>3. Distinct'
  BY <1>1 DEF IInv, Distinct
<1>4. \A q \in Procs : Fine(q)'
  BY <1>1, <1>2, SameIsFine
<1>5. QED
  BY <1>3, <1>4 DEF IInv

\* A kubelet that starts is none that a process remembers; it may clean the directory.
LEMMA StartKubeletStep ==
  ASSUME IInv, StartKubelet
  PROVE  IInv'
<1>1. /\ sock' = sock \/ sock' = 0
      /\ UNCHANGED <<lis, own, streams, pc, loop>>
      /\ dials' \in Nat /\ dials' >= dials /\ faults' \in Nat
  BY DEF StartKubelet, IInv, Types
<1>2. \A q \in Procs : Same(q) /\ kub' # last[q]
  BY <1>1 DEF StartKubelet, IsFresh, Same
<1>3. Distinct'
  BY <1>1 DEF IInv, Distinct
<1>4. \A q \in Procs : Fine(q)'
  BY <1>1, <1>2, SameIsFine
<1>5. Types'
  BY <1>1, KubeletTypes, TypesOf
<1>6. QED
  BY <1>3, <1>4, <1>5 DEF IInv

\* Without a kubelet, or without its path, no process is undisturbed.
LEMMA FaultStep ==
  ASSUME IInv, Types', StopKubelet \/ RemovePath
  PROVE  IInv'
<1>1. /\ UNCHANGED <<lis, own, pc, active, closed, loop>>
      /\ sock' = 0 \/ kub' = 0
  BY DEF StopKubelet, RemovePath
<1>2. Distinct'
  BY <1>1 DEF IInv, Distinct
<1>3. ASSUME NEW q \in Procs
      PROVE  Fine(q)'
  <2>1. Fine(q)
    BY DEF IInv
  <2>2. Owns(q)' /\ Remembers(q)' /\ (Called(q)' <=> Called(q))
    BY <1>1, <2>1 DEF Fine, Owns, Remembers, Called
  <2>3. Called(q) => own[q] # 0 /\ last[q] # 0
    BY <2>1 DEF Fine, Owns, Remembers, Called
  <2>4. Heard(q)'
    BY <1>1, <2>2, <2>3 DEF Heard, Undisturbed
  <2>5. QED
    BY <2>2, <2>4 DEF Fine
<1>4. QED
  BY <1>2, <1>3 DEF IInv

\* Whoever has the file that is dialled has a stream then.
LEMMA DialStep ==
  ASSUME IInv, Dial
  PROVE  IInv'
<1>1. /\ Types' /\ UNCHANGED <<files, kub, closed, pc, loop>>
  <2>1. faults' \in Nat
    BY DEF Dial, IInv, Types
  <2>2. QED
    BY <2>1, KubeletTypes, TypesOf DEF Dial
<1>2. Distinct'
  BY <1>1 DEF IInv, Distinct
<1>3. ASSUME NEW q \in Procs
      PROVE  Fine(q)'
  <2>1. Fine(q)
    BY DEF IInv
  <2>2. Owns(q)' /\ Remembers(q)' /\ (Called(q)' <=> Called(q))
    BY <1>1, <2>1 DEF Fine, Owns, Remembers, Called
  <2>3. ASSUME Called(q), Undisturbed(q)'
        PROVE  HeardOf(q)'
    <3>1. sock = lis[q] /\ lis[q] # 0
      BY <1>1, <2>1, <2>3 DEF Undisturbed, Fine, Owns, Called
    <3>2. PICK p \in Procs : lis[p] = sock /\ active' = [active EXCEPT ![p] = active[p] + 1]
      BY <3>1 DEF Dial
    <3>3. p = q
      BY <3>1, <3>2 DEF IInv, Distinct
    <3>4. active[q] \in Nat /\ active'[q] = active[q] + 1
      BY <3>2, <3>3 DEF IInv, Types
    <3>5. QED
      BY <3>4 DEF HeardOf
  <2>4. QED
    BY <2>2, <2>3 DEF Fine, Heard
<1>4. QED
  BY <1>1, <1>2, <1>3 DEF IInv

-----------------------------------------------------------------------------
\* Every step keeps the invariant.
LEMMA NextIInv == IInv /\ [Next]_vars => IInv'
<1> SUFFICES ASSUME IInv, [Next]_vars PROVE IInv'
  OBVIOUS
<1>1. ASSUME NEW p \in Procs, Step(p)
      PROVE  IInv'
  <2>1. CASE StopServer(p) \/ RemoveSocketIfOwned(p)
    <3>1. faults' \in Nat
      BY <2>1 DEF StopServer, RemoveSocketIfOwned, IInv, Types
    <3>2. QED
      BY <2>1, <3>1, StopTypes, TypesOf, StopStep
  <2>2. QED
    BY <1>1, <2>1, ListenStep, BindStep, CheckStep, LookStep, CallStep, AnswerStep,
       SelectStep DEF Step
<1>2. ASSUME NEW p \in Procs, ServeFails(p) \/ StreamEnds(p) \/ Terminate(p)
      PROVE  IInv'
  <2>1. CASE Terminate(p)
    <3>1. faults' \in Nat
      BY <2>1 DEF Terminate, IInv, Types
    <3>2. QED
      BY <2>1, <3>1, StopTypes, TypesOf, QuietStep
  <2>2. QED
    BY <1>2, <2>1, SelectStep, StreamEndsStep
<1>3. CASE StartKubelet \/ Dial
  BY <1>3, StartKubeletStep, DialStep
<1>4. CASE Fault
  <2>1. faults' \in Nat
    BY <1>4 DEF Fault, IInv, Types
  <2>2. CASE StopKubelet \/ RemovePath
    BY <2>1, <2>2, KubeletTypes, TypesOf, FaultStep
  <2>3. ASSUME NEW p \in Procs, Disconnect(p) \/ Kill(p)
        PROVE  IInv'
    <3>1. Types'
      BY <2>1, <2>3, StopTypes, TypesOf
    <3>2. QED
      BY <2>3, <3>1, QuietStep, StopStep
  <2>4. QED
    BY <1>4, <2>2, <2>3 DEF Fault
<1>5. CASE UNCHANGED vars
  <2>1. UNCHANGED <<files, kub, streams, pc, term, then, loop, faults>>
    BY <1>5 DEF vars
  <2>2. Types' /\ Distinct'
    BY <2>1 DEF IInv, Types, Distinct
  <2>3. \A q \in Procs : Fine(q)'
    BY <2>1 DEF IInv, Fine, Owns, Remembers, Heard, Called, Undisturbed, HeardOf
  <2>4. QED
    BY <2>2, <2>3 DEF IInv
<1>6. QED
  BY <1>1, <1>2, <1>3, <1>4, <1>5 DEF Next

\* However many plugins share the directory, every variable has its type; the retry
\* delay stays between its limits (registrationLoop).
THEOREM TypeCorrect == Spec => []TypeOK
BY InitIInv, NextIInv, IInvTypeOK, PTL DEF Spec

\* A plugin that thinks it is registered, and whose socket and kubelet are the ones it
\* remembers, is dialled, has a stream, or will be woken: it does not sleep unknown to
\* the kubelet, whatever other plugins do with the path (registrationLoop).
THEOREM NobodySleepsUnknown == Spec => []NoSilentLoss
BY InitIInv, NextIInv, IInvNoSilentLoss, PTL DEF Spec
=============================================================================
