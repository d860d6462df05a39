---------------------------- MODULE DevicePlugin ----------------------------
(***************************************************************************)
(* The device plugin of a node (internal/deviceplugin): processes that     *)
(* bind one socket path, watch it and the kubelet's socket, register with  *)
(* the kubelet and are dialled back by it.                                 *)
(*                                                                         *)
(* A socket file is its identity, a number: inode and modification time in *)
(* the code.  A new file has the least number nobody remembers, which no   *)
(* comparison can tell from a number never used before; 0 is no file.      *)
(***************************************************************************)
EXTENDS Naturals

CONSTANTS
  Procs,          \* the plugin processes that share the directory
  Leaving,        \* those whose Pod is being replaced: they are told to stop
  Ids,            \* identities of socket files
  RetryInitial,   \* in poll intervals
  RetryMaximum,
  MaxDials,       \* BOUND on registrations that wait to be dialled
  MaxFaults       \* BOUND on what goes wrong

ASSUME PluginAssumption ==
  /\ Leaving \subseteq Procs
  /\ Ids \subseteq Nat \ {0}
  /\ RetryInitial \in Nat \ {0} /\ RetryMaximum \in Nat
  /\ RetryInitial <= RetryMaximum
  /\ MaxDials \in Nat \ {0} /\ MaxFaults \in Nat

VARIABLES
  sock,           \* the file at the plugin's path
  kub,            \* the file at the kubelet's path: the kubelet that runs
  dials,          \* registrations the kubelet has accepted and not dialled
  open,           \* the kubelet's ListAndWatch streams to a process
  pc, term,       \* where a process is; whether its context is cancelled
  then,           \* what it does once its server is stopped
  lis, own,       \* the file its listener has bound; the one it takes for it
  active, closed, \* streamTrackingServer: streams, and the closed channel
  last, missing, registered, delay, until,   \* registrationLoop
  faults

files == <<sock, lis, own>>
streams == <<dials, open, active, closed>>
loop == <<last, missing, registered, delay, until>>
vars == <<files, kub, streams, pc, term, then, loop, faults>>

InLoop == {"check", "look", "register", "answer", "select"}

Init ==
  /\ sock = 0 /\ kub = 0 /\ dials = 0 /\ faults = 0
  /\ pc = [p \in Procs |-> "down"]
  /\ then = [p \in Procs |-> "down"]
  /\ term = [p \in Procs |-> FALSE]
  /\ lis = [p \in Procs |-> 0] /\ own = [p \in Procs |-> 0]
  /\ open = [p \in Procs |-> 0] /\ active = [p \in Procs |-> 0]
  /\ closed = [p \in Procs |-> FALSE]
  /\ last = [p \in Procs |-> 0] /\ missing = [p \in Procs |-> FALSE]
  /\ registered = [p \in Procs |-> FALSE]
  /\ delay = [p \in Procs |-> RetryInitial] /\ until = [p \in Procs |-> 0]

IsFresh(id, known) == /\ id \notin known
                      /\ \A j \in Ids : j < id => j \in known
Known == {sock} \cup {lis[p] : p \in Procs} \cup {own[p] : p \in Procs}

To(p, place) == pc' = [pc EXCEPT ![p] = place]

(* A part of the process's server goes: its listener and its streams. *)
Unserved(p) ==
  /\ lis' = [lis EXCEPT ![p] = 0]
  /\ open' = [open EXCEPT ![p] = 0]
  /\ active' = [active EXCEPT ![p] = 0]

---------------------------------------------------------------------------
(* A process *)

Start(p) ==
  /\ pc[p] = "down" /\ ~term[p]
  /\ To(p, "listen")
  /\ UNCHANGED <<files, kub, streams, term, then, loop, faults>>

(* listen: whatever socket is at the path is removed. *)
ClearPath(p) ==
  /\ pc[p] = "listen"
  /\ IF term[p] THEN To(p, "down") /\ UNCHANGED sock
                ELSE To(p, "bind") /\ sock' = 0
  /\ UNCHANGED <<kub, lis, own, streams, term, then, loop, faults>>

Bind(p) ==
  /\ pc[p] = "bind"
  /\ \/ /\ sock # 0 /\ To(p, "down")          \* address already in use
        /\ UNCHANGED <<sock, lis>>
     \/ /\ sock = 0 /\ To(p, "identify")
        /\ \E id \in Ids : IsFresh(id, Known) /\ sock' = id
        /\ lis' = [lis EXCEPT ![p] = sock']
  /\ UNCHANGED <<kub, own, streams, term, then, loop, faults>>

(* The file now at the path is taken for the listener's; a new server and  *)
(* tracker, and the variables of a new registrationLoop.                   *)
Identify(p) ==
  /\ pc[p] = "identify"
  /\ \/ /\ sock = 0 /\ To(p, "down") /\ Unserved(p)
        /\ UNCHANGED <<own, closed, loop>>
     \/ /\ sock # 0 /\ To(p, "check")
        /\ own' = [own EXCEPT ![p] = sock]
        /\ closed' = [closed EXCEPT ![p] = FALSE]
        /\ last' = [last EXCEPT ![p] = 0]
        /\ missing' = [missing EXCEPT ![p] = FALSE]
        /\ registered' = [registered EXCEPT ![p] = FALSE]
        /\ delay' = [delay EXCEPT ![p] = RetryInitial]
        /\ until' = [until EXCEPT ![p] = 0]
        /\ UNCHANGED <<lis, open, active>>
  /\ UNCHANGED <<sock, kub, dials, term, then, faults>>

Leave(p, next) ==
  /\ To(p, "stop")
  /\ then' = [then EXCEPT ![p] = IF term[p] THEN "down" ELSE next]

\* Mutant: the path is not looked at.
CheckNothing(p) ==
  /\ pc[p] = "check"
  /\ IF term[p] THEN Leave(p, "listen") ELSE To(p, "look") /\ UNCHANGED then
  /\ UNCHANGED <<files, kub, streams, term, loop, faults>>

CheckSocket(p) ==
  /\ pc[p] = "check"
  /\ IF term[p] \/ sock # own[p] THEN Leave(p, "listen")
                                 ELSE To(p, "look") /\ UNCHANGED then
  /\ UNCHANGED <<files, kub, streams, term, loop, faults>>

KubeletReplaced(p) == last[p] # 0 /\ (missing[p] \/ kub # last[p])

LookAtKubelet(p) ==
  /\ pc[p] = "look"
  /\ \/ /\ kub = 0 /\ To(p, "select")
        /\ missing' = [missing EXCEPT ![p] = last[p] # 0]
        /\ registered' = [registered EXCEPT ![p] = FALSE]
        /\ UNCHANGED <<last, then>>
     \/ /\ kub # 0 /\ KubeletReplaced(p) /\ Leave(p, "listen")
        /\ UNCHANGED <<last, missing, registered>>
     \/ /\ kub # 0 /\ ~KubeletReplaced(p)
        /\ last' = [last EXCEPT ![p] = kub]
        /\ To(p, IF ~registered[p] /\ until[p] = 0 THEN "register" ELSE "select")
        /\ UNCHANGED <<missing, registered, then>>
  /\ UNCHANGED <<files, kub, streams, term, delay, until, faults>>

BackedOff(d) == IF d >= RetryMaximum \div 2 THEN RetryMaximum ELSE 2 * d

RetryLater(p) ==
  /\ To(p, "select")
  /\ until' = [until EXCEPT ![p] = delay[p]]
  /\ delay' = [delay EXCEPT ![p] = BackedOff(@)]

(* The call reaches the kubelet that has the path now, if any; a kubelet   *)
(* may refuse it, and its answer may come too late.  What an accepted call *)
(* starts may have happened before the answer.                             *)
Call(p) ==
  /\ pc[p] = "register"
  /\ \/ /\ kub # 0 /\ dials < MaxDials /\ dials' = dials + 1
        /\ To(p, "answer")
        /\ UNCHANGED <<delay, until, faults>>
     \/ /\ \/ (kub = 0 \/ term[p]) /\ UNCHANGED faults
           \/ kub # 0 /\ faults < MaxFaults /\ faults' = faults + 1
        /\ RetryLater(p)
        /\ UNCHANGED dials
  /\ UNCHANGED <<files, kub, open, active, closed, term, then, last, missing,
                 registered>>

Answer(p) ==
  /\ pc[p] = "answer"
  /\ \/ /\ To(p, "select")
        /\ registered' = [registered EXCEPT ![p] = TRUE]
        /\ delay' = [delay EXCEPT ![p] = RetryInitial]
        /\ UNCHANGED <<until, faults>>
     \/ /\ \/ term[p] /\ UNCHANGED faults
           \/ faults < MaxFaults /\ faults' = faults + 1
        /\ RetryLater(p)
        /\ UNCHANGED registered
  /\ UNCHANGED <<files, kub, streams, term, then, last, missing>>

(* select *)
Cancelled(p) ==
  /\ pc[p] = "select" /\ term[p]
  /\ Leave(p, "down")
  /\ UNCHANGED <<files, kub, streams, term, loop, faults>>

ServeFails(p) ==
  /\ pc[p] = "select" /\ faults < MaxFaults
  /\ faults' = faults + 1
  /\ Leave(p, "down")
  /\ UNCHANGED <<files, kub, streams, term, loop>>

StreamClosed(p) ==
  /\ pc[p] = "select" /\ closed[p]
  /\ To(p, "check")
  /\ closed' = [closed EXCEPT ![p] = FALSE]
  /\ registered' = [registered EXCEPT ![p] = FALSE]
  /\ until' = [until EXCEPT ![p] = IF registered[p] THEN 0 ELSE @]
  /\ UNCHANGED <<files, kub, dials, open, active, term, then, last, missing,
                 delay, faults>>

Tick(p) ==
  /\ pc[p] = "select"
  /\ To(p, "check")
  /\ until' = [until EXCEPT ![p] = IF @ = 0 THEN 0 ELSE @ - 1]
  /\ UNCHANGED <<files, kub, streams, term, then, last, missing, registered,
                 delay, faults>>

(* server.Stop ends the streams and closes the listener, and a Unix        *)
(* listener that is closed unlinks its path, whatever file is there.       *)
StopServer(p) ==
  /\ pc[p] = "stop" /\ To(p, "remove")
  /\ Unserved(p)
  /\ sock' = 0
  /\ UNCHANGED <<kub, own, dials, closed, term, then, loop, faults>>

RemoveSocketIfOwned(p) ==
  /\ pc[p] = "remove" /\ To(p, then[p])
  /\ sock' = IF sock = own[p] THEN 0 ELSE sock
  /\ own' = [own EXCEPT ![p] = 0]
  /\ UNCHANGED <<kub, lis, streams, term, then, loop, faults>>

\* Mutant: the loop is told of a stream that ends only while others are open.
StreamEndsUnseen(p) ==
  /\ active[p] > open[p]
  /\ active' = [active EXCEPT ![p] = @ - 1]
  /\ closed' = [closed EXCEPT ![p] = @ \/ active[p] > 1]
  /\ UNCHANGED <<files, kub, dials, open, pc, term, then, loop, faults>>

(* ListAndWatch returns; the last one puts a token in the closed channel. *)
StreamEnds(p) ==
  /\ active[p] > open[p]
  /\ active' = [active EXCEPT ![p] = @ - 1]
  /\ closed' = [closed EXCEPT ![p] = @ \/ active[p] = 1]
  /\ UNCHANGED <<files, kub, dials, open, pc, term, then, loop, faults>>

---------------------------------------------------------------------------
(* The kubelet and the node *)

StartKubelet ==
  /\ kub = 0
  /\ \E id \in Ids : IsFresh(id, {last[p] : p \in Procs}) /\ kub' = id
  /\ sock' \in {sock, 0}                 \* it may clean the directory
  /\ UNCHANGED <<lis, own, streams, pc, term, then, loop, faults>>

(* It dials the registered path: the process that listens there answers,   *)
(* and when nobody does the registration is lost.                          *)
Dial ==
  /\ dials > 0 /\ dials' = dials - 1
  /\ \/ \E p \in Procs :
          /\ sock # 0 /\ lis[p] = sock /\ pc[p] \in InLoop
          /\ open' = [open EXCEPT ![p] = @ + 1]
          /\ active' = [active EXCEPT ![p] = @ + 1]
     \/ /\ sock = 0 \/ \A p \in Procs : lis[p] # sock
        /\ UNCHANGED <<open, active>>
  /\ UNCHANGED <<files, kub, closed, pc, term, then, loop, faults>>

StopKubelet ==
  /\ kub # 0 /\ kub' = 0
  /\ dials' = 0 /\ open' = [p \in Procs |-> 0]
  /\ UNCHANGED <<files, active, closed, pc, term, then, loop>>

Disconnect(p) ==
  /\ open[p] > 0 /\ open' = [open EXCEPT ![p] = @ - 1]
  /\ UNCHANGED <<files, kub, dials, active, closed, pc, term, then, loop>>

RemovePath ==
  /\ sock # 0 /\ sock' = 0
  /\ UNCHANGED <<kub, lis, own, streams, pc, term, then, loop>>

Kill(p) ==
  /\ pc[p] # "down" /\ To(p, "down")
  /\ Unserved(p)
  /\ own' = [own EXCEPT ![p] = 0]
  /\ UNCHANGED <<sock, kub, dials, closed, term, then, loop>>

Fault ==
  /\ faults < MaxFaults /\ faults' = faults + 1
  /\ StopKubelet \/ RemovePath \/ \E p \in Procs : Disconnect(p) \/ Kill(p)

Terminate(p) ==
  /\ p \in Leaving /\ ~term[p]
  /\ term' = [term EXCEPT ![p] = TRUE]
  /\ UNCHANGED <<files, kub, streams, pc, then, loop, faults>>

---------------------------------------------------------------------------
Step(p) ==
  \/ Start(p) \/ ClearPath(p) \/ Bind(p) \/ Identify(p)
  \/ CheckSocket(p) \/ LookAtKubelet(p) \/ Call(p) \/ Answer(p)
  \/ Cancelled(p) \/ StreamClosed(p) \/ Tick(p)
  \/ StopServer(p) \/ RemoveSocketIfOwned(p)

Next ==
  \/ \E p \in Procs : Step(p) \/ ServeFails(p) \/ StreamEnds(p) \/ Terminate(p)
  \/ StartKubelet \/ Dial \/ Fault

Spec == Init /\ [][Next]_vars

(* Processes run and are restarted, the kubelet runs and dials; select     *)
(* takes one of the ready cases at random, so a token is not passed over   *)
(* for ever.                                                               *)
Fairness ==
  /\ WF_vars(StartKubelet) /\ WF_vars(Dial)
  /\ \A p \in Procs :
       /\ WF_vars(Step(p)) /\ WF_vars(StreamEnds(p)) /\ WF_vars(Terminate(p))
       /\ SF_vars(StreamClosed(p))
FairSpec == Spec /\ Fairness

---------------------------------------------------------------------------
TypeOK ==
  /\ sock \in Ids \cup {0} /\ kub \in Ids \cup {0} /\ dials \in 0..MaxDials
  /\ pc \in [Procs -> InLoop \cup {"down", "listen", "bind", "identify",
                                  "stop", "remove"}]
  /\ then \in [Procs -> {"down", "listen"}]
  /\ term \in [Procs -> BOOLEAN]
  /\ lis \in [Procs -> Ids \cup {0}] /\ own \in [Procs -> Ids \cup {0}]
  /\ open \in [Procs -> Nat] /\ active \in [Procs -> Nat]
  /\ closed \in [Procs -> BOOLEAN]
  /\ last \in [Procs -> Ids \cup {0}] /\ missing \in [Procs -> BOOLEAN]
  /\ registered \in [Procs -> BOOLEAN]
  /\ delay \in [Procs -> RetryInitial..RetryMaximum]
  /\ until \in [Procs -> 0..RetryMaximum]
  /\ faults \in Nat

Served(p) == sock # 0 /\ lis[p] = sock /\ open[p] > 0

(* A process that sleeps with nothing to wake it is known to the kubelet:  *)
(* while its socket and the kubelet are the ones it remembers, registered  *)
(* means a stream, a dial to come, or a token that will be read            *)
(* (registrationLoop sets registered only at :226, :245 unsets it).        *)
NoSilentLoss ==
  \A p \in Procs :
    /\ pc[p] \in InLoop /\ registered[p]
    /\ sock = own[p] /\ own[p] = lis[p] /\ kub = last[p] /\ ~missing[p]
    => dials > 0 \/ closed[p] \/ active[p] > 0

(* Once nothing more goes wrong the kubelet has a stream to the plugin,    *)
(* and keeps it: restarts, refusals and lost answers are recovered from.   *)
EventuallyServed == <>[](\E p \in Procs : Served(p))

(* And then the plugin is quiet: it neither registers nor restarts again.  *)
Settles == <>[](\A p \in Procs : pc[p] \notin {"register", "stop"})

(* So the plugin and the kubelet come to rest, connected.                  *)
ComesToRest == EventuallyServed /\ Settles
=============================================================================
