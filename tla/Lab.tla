-------------------------------- MODULE Lab --------------------------------
(***************************************************************************)
(* The commands that make, change and delete the lab (cmd/gpu-lab,         *)
(* internal/cluster and internal/kubeconfig).  Each is a sequence of calls *)
(* of docker, kind, kubectl and helm, on what other commands have left,    *)
(* and ends at the first call that fails.                                  *)
(***************************************************************************)
EXTENDS Integers, Sequences, FiniteSets

CONSTANTS
  Terminals,     \* where commands run, one at a time in each
  Commands,      \* of each terminal
  Images,        \* runtime images
  NoImage, None, \* no image and no context
  Kills,         \* whether a call may be killed in the middle
  MaxCommands, MaxFaults   \* BOUNDS on commands and calls that go wrong

ASSUME LabAssumption ==
  /\ IsFiniteSet(Terminals) /\ MaxCommands \in Nat /\ MaxFaults \in Nat
  /\ Kills \in BOOLEAN /\ NoImage \notin Images

VARIABLES
  lab,        \* the kind cluster and what is in it
  primary,    \* the kubeconfig of the user
  own,        \* the kubeconfig of the lab, ~/.kube/gpu-lab.config
  proc,       \* of each terminal, the command and the calls still to make
  foreign,    \* Helm has changed a cluster the user did not name
  begun, faults

vars == <<lab, primary, own, proc, foreign, begun, faults>>

Kind == "kind-gpu-lab"       \* contexts
Alias == "gpu-lab"
Mine == "mine"               \* of another cluster of the user
Plugin == "nvidia-device-plugin"
Exporter == "dcgm-exporter"
Monitoring == "monitoring"
Components == {Plugin, Exporter, Monitoring}

(* The arguments of gpu, as far as they change or use the lab.             *)
Arguments ==
  ({"create", "create all"} \X Images) \cup ({"install", "uninstall"} \X Components)
  \cup {<<"install all">>, <<"destroy">>, <<"setup">>, <<"status">>}
  \cup ({"use"} \X STRING) \cup ({"helm"} \X Seq(STRING))

ASSUME CommandsAssumption ==
  /\ \A t \in Terminals : Commands[t] \subseteq Arguments
  /\ None \notin {Mine, Kind, Alias}

---------------------------------------------------------------------------
(* The calls of each command *)

Setup == << <<"read current">>, <<"export">>, <<"alias">>, <<"restore">>,
            <<"export own">>, <<"look at own">>, <<"use own">> >>

\* Mutant: the image is saved before it is loaded.
SaveFirst == << <<"fetch image">>, <<"look for cluster">>, <<"kind create">> >>
  \o Setup \o << <<"save image">>, <<"load image">>, <<"wait for nodes">> >>

Create == << <<"fetch image">>, <<"look for cluster">>, <<"kind create">>,
             <<"load image">> >>
  \o Setup \o << <<"save image">>, <<"wait for nodes">> >>

Install(c) == << <<"cluster exists">> >> \o Setup \o
  << <<"read image">>, <<"helm install", c>> >> \o
  (IF c = Monitoring THEN << <<"apply assets">>, <<"wait for scrape">> >> ELSE <<>>)

InstallAll == Install(Plugin) \o Install(Exporter) \o Install(Monitoring)

Uninstall(c) == (IF c = Monitoring THEN << <<"delete assets">> >> ELSE <<>>)
  \o << <<"helm uninstall", c>> >>

Use(name) == << <<"find", name>>, <<"use", name>> >>

(* gpu helm passes its arguments on.  A command that uses the cluster and  *)
(* names no context gets the one of the lab.                               *)
ClusterVerbs == {"install", "upgrade", "uninstall", "delete", "list", "ls",
                 "status", "get", "history", "rollback", "test"}
ContextFlags == {"--kube-context", "--kubeconfig"}
Flags == ContextFlags \cup {"--namespace", "--debug"}

HelmUsesCluster(args) ==
  \E i \in DOMAIN args : /\ args[i] \in ClusterVerbs
                         /\ \A j \in 1..(i - 1) : args[j] \in Flags
HasHelmContext(args) == \E i \in DOMAIN args : args[i] \in ContextFlags

Helm(args) ==
  IF HelmUsesCluster(args) /\ ~HasHelmContext(args)
  THEN << <<"cluster exists">> >> \o Setup \o << <<"helm at lab", args>> >>
  ELSE << <<"helm at current", args>> >>

Program(c) ==
  CASE c[1] = "create"      -> Create
    [] c[1] = "create all"  -> Create \o InstallAll
    [] c[1] = "install"     -> Install(c[2])
    [] c[1] = "install all" -> InstallAll
    [] c[1] = "uninstall"   -> Uninstall(c[2])
    [] c[1] = "helm"        -> Helm(c[2])
    [] c[1] = "destroy"     -> << <<"kind delete">> >>
    [] c[1] = "setup"       -> Setup
    [] c[1] = "status"      -> Setup \o << <<"get">> >>
    [] c[1] = "use"         -> Use(c[2])

---------------------------------------------------------------------------
(* Clusters and kubeconfigs *)

NoRelease == [status |-> "none", image |-> NoImage]
Empty(state, gen) ==
  [state |-> state, gen |-> gen, images |-> {}, config |-> NoImage,
   releases |-> [c \in Components |-> NoRelease], crds |-> FALSE, assets |-> "none"]
Ready(f) == lab.state = "up" /\ f.creds = lab.gen
LabAnswers == Alias \in primary.contexts /\ Ready(primary)    \* --context gpu-lab

Exported(f) == [contexts |-> f.contexts \cup {Kind}, current |-> Kind, creds |-> lab.gen]

Init ==
  /\ lab = Empty("none", 0)
  /\ primary = [contexts |-> {Mine}, current |-> Mine, creds |-> 0]
  /\ own = [contexts |-> {}, current |-> None, creds |-> 0]
  /\ proc = [t \in Terminals |->
               [cmd |-> <<"none">>, todo |-> <<>>, image |-> NoImage, saved |-> None,
                before |-> Mine, faulty |-> FALSE, result |-> "ok"]]
  /\ foreign = FALSE /\ begun = 0 /\ faults = 0

Start(t, c) ==
  /\ proc[t].result # "running" /\ begun < MaxCommands /\ begun' = begun + 1
  /\ proc' = [proc EXCEPT ![t] =
       [cmd |-> c, todo |-> Program(c), saved |-> None, before |-> primary.current,
        image |-> IF c[1] \in {"create", "create all"} THEN c[2] ELSE NoImage,
        faulty |-> FALSE, result |-> "running"]]
  /\ UNCHANGED <<lab, primary, own, foreign, faults>>

---------------------------------------------------------------------------
(* Calls *)

Call(t) == Head(proc[t].todo)

(* What each call needs: without it the call fails.                        *)

ImageSaved == lab.config # NoImage

Possible(t) ==
  LET name == Call(t)[1] arg == Call(t)[Len(Call(t))] IN
  /\ name \in {"wait for nodes", "get", "wait for scrape", "save image", "read image",
               "helm install", "helm uninstall", "apply assets", "delete assets",
               "helm at lab"} => LabAnswers
  /\ name \in {"export", "export own"} => lab.state = "up"
  /\ name \in {"cluster exists", "load image"} => lab.state # "none"
  /\ name = "kind create" => lab.state = "none"
  /\ name = "read image" => ImageSaved
  /\ name = "read current" => primary.current # None
  /\ name = "restore" => proc[t].saved \in primary.contexts
  /\ name = "rename own" => Kind \in own.contexts /\ Alias \notin own.contexts
  /\ name = "delete own" => Kind \in own.contexts
  /\ name = "use own" => Alias \in own.contexts
  /\ name = "find" => arg \in primary.contexts \cup {Alias}
  /\ name \in {"find again", "use"} => arg \in primary.contexts
  /\ name = "helm install" => lab.releases[arg].status # "pending"
  /\ name = "helm uninstall" => lab.releases[arg].status # "none"
  /\ name \in {"apply assets", "delete assets"} => lab.crds

Calls(t, name) ==
  /\ proc[t].result = "running" /\ Call(t)[1] = name /\ Possible(t)
  /\ UNCHANGED begun

Failed(t, faulty) ==
  proc' = [proc EXCEPT ![t].todo = <<>>, ![t].result = "failed", ![t].faulty = faulty]
Fault(t) == faults < MaxFaults /\ faults' = faults + 1 /\ Failed(t, TRUE)

(* A call that has worked may be the last one: the terminal is closed, the *)
(* deadline of gpu create passes, or the answer is lost.                   *)
Becomes(t, p) ==
  \/ /\ proc' = [proc EXCEPT ![t] =
          [p EXCEPT !.result = IF p.todo = <<>> THEN "ok" ELSE "running"]]
     /\ UNCHANGED faults
  \/ Fault(t)
Then(t, todo) == Becomes(t, [proc[t] EXCEPT !.todo = todo])
Done(t) == Then(t, Tail(proc[t].todo))

(* docker build, docker pull, docker image save; kubectl wait and get.     *)
Look(t) ==
  /\ \E name \in {"fetch image", "cluster exists", "wait for nodes", "wait for scrape",
                  "get"} : Calls(t, name)
  /\ Done(t) /\ UNCHANGED <<lab, primary, own, foreign>>

\* Mutant: kind is asked to create what it has.
CreateAnyway(t) ==
  /\ Calls(t, "look for cluster") /\ Done(t)
  /\ UNCHANGED <<lab, primary, own, foreign>>

LookForCluster(t) ==
  /\ Calls(t, "look for cluster")
  /\ LET rest == Tail(proc[t].todo)
     IN  Then(t, IF lab.state = "none" THEN rest ELSE Tail(rest))
  /\ UNCHANGED <<lab, primary, own, foreign>>

KindCreate(t) ==
  /\ Calls(t, "kind create")
  /\ lab' = Empty("up", lab.gen + 1)
  /\ primary' = [contexts |-> primary.contexts \cup {Kind}, current |-> Kind,
                 creds |-> lab.gen + 1]
  /\ Done(t) /\ UNCHANGED <<own, foreign>>

(* kind removes what it could not finish, unless it is killed.             *)
KindCreateKilled(t) ==
  /\ Calls(t, "kind create") /\ Kills
  /\ lab' = Empty("half", lab.gen + 1)
  /\ Fault(t) /\ UNCHANGED <<primary, own, foreign>>

KindDelete(t) ==
  /\ Calls(t, "kind delete")
  /\ lab' = Empty("none", lab.gen)
  /\ primary' = [contexts |-> primary.contexts \ {Kind}, creds |-> 0,
                 current |-> IF primary.current = Kind THEN None ELSE primary.current]
  /\ Done(t) /\ UNCHANGED <<own, foreign>>

LoadImage(t) ==
  /\ Calls(t, "load image")
  /\ lab' = [lab EXCEPT !.images = @ \cup {proc[t].image}]
  /\ Done(t) /\ UNCHANGED <<primary, own, foreign>>

SaveImage(t) ==
  /\ Calls(t, "save image")
  /\ lab' = [lab EXCEPT !.config = proc[t].image]
  /\ Done(t) /\ UNCHANGED <<primary, own, foreign>>

ReadImage(t) ==
  /\ Calls(t, "read image")
  /\ Becomes(t, [proc[t] EXCEPT !.todo = Tail(@), !.image = lab.config])
  /\ UNCHANGED <<lab, primary, own, foreign>>

---------------------------------------------------------------------------
(* kubeconfig.Manager *)

ReadCurrent(t) ==
  /\ Calls(t, "read current")
  /\ Becomes(t, [proc[t] EXCEPT !.todo = Tail(@), !.saved = primary.current])
  /\ UNCHANGED <<lab, primary, own, foreign>>

Export(t) ==
  /\ Calls(t, "export") /\ primary' = Exported(primary)
  /\ Done(t) /\ UNCHANGED <<lab, own, foreign>>

SetAlias(t) ==
  /\ Calls(t, "alias") /\ primary' = [primary EXCEPT !.contexts = @ \cup {Alias}]
  /\ Done(t) /\ UNCHANGED <<lab, own, foreign>>

Restore(t) ==
  /\ Calls(t, "restore")
  /\ primary' = [primary EXCEPT !.current = proc[t].saved]
  /\ Done(t) /\ UNCHANGED <<lab, own, foreign>>

ExportOwn(t) ==
  /\ Calls(t, "export own") /\ own' = Exported(own)
  /\ Done(t) /\ UNCHANGED <<lab, primary, foreign>>

\* Mutant: the second export is not foreseen.
OnlyRename(t) ==
  /\ Calls(t, "look at own")
  /\ Then(t, (IF Kind \in own.contexts /\ Alias \notin own.contexts
              THEN << <<"rename own">> >> ELSE <<>>) \o Tail(proc[t].todo))
  /\ UNCHANGED <<lab, primary, own, foreign>>

LookAtOwn(t) ==
  /\ Calls(t, "look at own")
  /\ Then(t, (IF Kind \notin own.contexts THEN <<>>
              ELSE IF Alias \in own.contexts THEN << <<"delete own">> >>
              ELSE << <<"rename own">> >>) \o Tail(proc[t].todo))
  /\ UNCHANGED <<lab, primary, own, foreign>>

RenameOwn(t) ==
  /\ Calls(t, "rename own")
  /\ own' = [own EXCEPT !.contexts = (@ \ {Kind}) \cup {Alias},
                        !.current = IF @ = Kind THEN Alias ELSE @]
  /\ Done(t) /\ UNCHANGED <<lab, primary, foreign>>

DeleteOwn(t) ==
  /\ Calls(t, "delete own")
  /\ own' = [own EXCEPT !.contexts = @ \ {Kind}]
  /\ Done(t) /\ UNCHANGED <<lab, primary, foreign>>

UseOwn(t) ==
  /\ Calls(t, "use own")
  /\ own' = [own EXCEPT !.current = Alias]
  /\ Done(t) /\ UNCHANGED <<lab, primary, foreign>>

(* Only a missing context of the lab is set up, and looked for again.      *)
Find(t) ==
  /\ Calls(t, "find") \/ Calls(t, "find again")
  /\ LET rest == Tail(proc[t].todo)
     IN  Then(t, IF Call(t)[2] \in primary.contexts THEN rest
                 ELSE Setup \o << <<"find again", Alias>> >> \o rest)
  /\ UNCHANGED <<lab, primary, own, foreign>>

UseContext(t) ==
  /\ Calls(t, "use")
  /\ primary' = [primary EXCEPT !.current = Call(t)[2]]
  /\ Done(t) /\ UNCHANGED <<lab, own, foreign>>

---------------------------------------------------------------------------
(* Components *)

Release(c, status, image) ==
  lab' = [lab EXCEPT !.releases[c] = [status |-> status, image |-> image],
                     !.crds = @ \/ c = Monitoring]

(* helm upgrade --install refuses a release that an operation is pending on. *)
HelmInstall(t) ==
  /\ Calls(t, "helm install")
  /\ \/ Release(Call(t)[2], "deployed", proc[t].image) /\ Done(t)
     \/ Release(Call(t)[2], "failed", proc[t].image) /\ Fault(t)
     \/ Kills /\ Release(Call(t)[2], "pending", proc[t].image) /\ Fault(t)
  /\ UNCHANGED <<primary, own, foreign>>

HelmUninstall(t) ==
  /\ Calls(t, "helm uninstall")
  /\ lab' = [lab EXCEPT !.releases[Call(t)[2]] = NoRelease]
  /\ Done(t) /\ UNCHANGED <<primary, own, foreign>>

(* The manifests are applied and deleted one by one.                       *)
Assets(t) ==
  /\ Calls(t, "apply assets") \/ Calls(t, "delete assets")
  /\ \/ /\ lab' = [lab EXCEPT !.assets =
             IF Call(t)[1] = "apply assets" THEN "all" ELSE "none"]
        /\ Done(t)
     \/ lab' = [lab EXCEPT !.assets = "some"] /\ Fault(t)
  /\ UNCHANGED <<primary, own, foreign>>

(* Helm takes for its command the first word: the first argument that is   *)
(* neither a flag nor the value of one.  These change a cluster, two of    *)
(* them by a short name of uninstall.                                      *)
ChangingVerbs == {"install", "upgrade", "uninstall", "un", "del", "delete", "rollback", "test"}
ValueFlags == ContextFlags \cup {"--namespace"}
IsWord(args, i) ==
  args[i] \notin Flags /\ (i = 1 \/ args[i - 1] \notin ValueFlags)
ChangesCluster(args) ==
  \E i \in DOMAIN args : /\ IsWord(args, i) /\ args[i] \in ChangingVerbs
                         /\ \A j \in 1..(i - 1) : ~IsWord(args, j)

HelmOther(t) ==
  /\ \/ Calls(t, "helm at lab") /\ UNCHANGED foreign
     \/ /\ Calls(t, "helm at current")
        /\ foreign' = (foreign \/ /\ ChangesCluster(Call(t)[2])
                                  /\ ~HasHelmContext(Call(t)[2])
                                  /\ primary.current = Mine)
  /\ Done(t) /\ UNCHANGED <<lab, primary, own>>

---------------------------------------------------------------------------
Works(t) ==
  \/ Look(t) \/ LookForCluster(t) \/ KindCreate(t) \/ KindDelete(t) \/ LoadImage(t)
  \/ SaveImage(t) \/ ReadImage(t)
  \/ ReadCurrent(t) \/ Export(t) \/ SetAlias(t) \/ Restore(t) \/ ExportOwn(t)
  \/ LookAtOwn(t) \/ RenameOwn(t) \/ DeleteOwn(t) \/ UseOwn(t) \/ Find(t)
  \/ UseContext(t) \/ HelmInstall(t) \/ HelmUninstall(t) \/ Assets(t) \/ HelmOther(t)

Refused(t) ==
  /\ proc[t].result = "running"
  /\ ~Possible(t) \/ /\ Call(t)[1] = "wait for scrape"
                     /\ lab.releases[Exporter].status \in {"failed", "pending"}
  /\ Failed(t, FALSE)
  /\ UNCHANGED <<lab, primary, own, foreign, begun, faults>>

GoesWrong(t) ==
  /\ proc[t].result = "running" /\ Fault(t)
  /\ UNCHANGED <<lab, primary, own, foreign, begun>>

Next ==
  \E t \in Terminals :
    \/ \E c \in Commands[t] : Start(t, c)
    \/ Works(t) \/ KindCreateKilled(t) \/ Refused(t) \/ GoesWrong(t)

Spec == Init /\ [][Next]_vars

---------------------------------------------------------------------------
TypeOK ==
  /\ lab.state \in {"none", "half", "up"} /\ lab.gen \in 0..MaxCommands
  /\ lab.images \subseteq Images /\ lab.config \in Images \cup {NoImage}
  /\ \A c \in Components :
       \/ lab.releases[c] = NoRelease
       \/ /\ lab.releases[c].status \in {"deployed", "failed", "pending"}
          /\ lab.releases[c].image \in Images
  /\ primary.contexts \subseteq {Mine, Kind, Alias} /\ own.contexts \subseteq {Kind, Alias}
  /\ primary.current \in primary.contexts \cup {None}
  /\ \A t \in Terminals : proc[t].result \in {"ok", "running", "failed"}

(* Every variable has its type, and every node has the image of the saved  *)
(* configuration and the images of the releases, whatever was interrupted  *)
(* and whichever image a later gpu create chose (imagePullPolicy is        *)
(* IfNotPresent, and a local image cannot be pulled).                      *)
ImagesLoaded ==
  /\ TypeOK
  /\ lab.config # NoImage => lab.config \in lab.images
  /\ \A c \in Components : lab.releases[c] # NoRelease =>
       lab.releases[c].image \in lab.images

Ended(t, result, names) == proc[t].result = result /\ proc[t].cmd[1] \in names
SetsUp == {"create", "create all", "install", "install all", "setup", "status"}

(* The terminal is the only one that is used.                              *)
Alone(t) == \A u \in Terminals \ {t} : proc[u].cmd[1] = "none"

(* The lab is deleted from the only terminal that is used: gpu destroy     *)
(* does not ask whether another command is at work in the cluster.         *)
DestroysAlone == \A t \in Terminals : proc[t].cmd[1] = "destroy" => Alone(t)

(* A command that has set up the kubeconfigs leaves them so that the lab   *)
(* answers through both, and its own file names nothing else, from         *)
(* whatever state earlier commands left: a file of a deleted cluster, both *)
(* contexts in it, or an export that was not followed by a rename.         *)
KubeconfigsReady ==
  \A t \in Terminals : Ended(t, "ok", SetsUp) /\ Alone(t) =>
    LabAnswers /\ own = [contexts |-> {Alias}, current |-> Alias, creds |-> lab.gen]

(* A command other than create and use leaves the user where he was        *)
(* ("without changing the user's current context").                        *)
KeepsCurrent ==
  \A t \in Terminals :
    Ended(t, "ok", SetsUp \ {"create", "create all"}) /\ Alone(t) =>
      primary.current = proc[t].before

(* gpu create, with or without --all, can be run again after whatever went *)
(* wrong before: it fails only when something goes wrong in it, or when a  *)
(* call that was killed has left a cluster or a release half made.         *)
HalfMade == lab.state = "half" \/ \E c \in Components : lab.releases[c].status = "pending"
RerunContinues ==
  \A t \in Terminals :
    Ended(t, "failed", {"create", "create all"}) /\ Alone(t) =>
      proc[t].faulty \/ HalfMade

(* A Helm command that names no context changes no cluster but the lab     *)
(* ("the CLI checks the gpu-lab context and does not apply to another").   *)
(* A value before the verb, or a short name of uninstall, breaks it: gpu   *)
(* helm does not see the verb and leaves Helm in the user's context.       *)
OnlyTheLab == ~foreign

(* Setups at the same time do not leave the context of kind in the file of *)
(* the lab, also when one of them fails because the other was faster.      *)
OwnIsClean ==
  (\A t \in Terminals : proc[t].result # "running") /\ faults = 0 =>
    Kind \notin own.contexts

(* The kubeconfigs of the user and of the lab after every command.         *)
KubeconfigsInOrder == KubeconfigsReady /\ KeepsCurrent /\ OwnIsClean
=============================================================================
