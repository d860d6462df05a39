----------------------------- MODULE Inspection -----------------------------
(***************************************************************************)
(* Which tool gpu inspect and the native commands of gpu (nvidia-smi,      *)
(* ibstat, ...) run: an official tool of the host, or the synthetic one    *)
(* of the lab, which has the same name and may come first on the PATH.     *)
(***************************************************************************)
EXTENDS Naturals, Sequences

CONSTANT MaxPath     \* BOUND: directories on the PATH

PathAssumption == MaxPath \in Nat

\* What a file of the tool's name is: not there or not executable, the gpu binary
\* itself, a script or binary known to be of the lab, a shim of the lab that only
\* its version tells, a tool that fails --version, an official tool.
Files == {"absent", "self", "lab", "disguised", "failing", "official"}
Modes == {"auto", "real", "synthetic"}

\* Nodes of the lab's kubeconfig: no such file, unreadable, with and without labels.
Nodes == {"none", "error", "plain", "labelled"}

VARIABLES path, override, stateURL, nodes
vars == <<path, override, stateURL, nodes>>

Found(file)  == [kind |-> "found", file |-> file]
NotFound     == [kind |-> "not found", file |-> "absent"]
Failed       == [kind |-> "failed", file |-> "absent"]

---------------------------------------------------------------------------
\* Mutant: the version is not looked at.
Believes(file) == IF file = "failing" THEN Failed ELSE Found(file)

InspectNvidiaSMICandidate(file) ==
  CASE file = "failing" -> Failed [] file = "disguised" -> NotFound [] OTHER -> Found(file)

Skipped == {"absent", "self", "lab"}

\* The places on the PATH of a file that ends the search, and the first of them.
Shown == {i \in DOMAIN path :
            path[i] \notin Skipped /\ InspectNvidiaSMICandidate(path[i]) # NotFound}
Executable == {i \in DOMAIN path : path[i] \notin Skipped}
First(places) == path[CHOOSE i \in places : \A j \in places : i <= j]

FindNvidiaSMI ==
  CASE override = "relative" \/ override \in Skipped -> Failed
    [] override \in Files \ Skipped ->
         IF InspectNvidiaSMICandidate(override) = NotFound THEN Failed
         ELSE InspectNvidiaSMICandidate(override)
    [] OTHER ->
         IF Shown = {} THEN NotFound ELSE InspectNvidiaSMICandidate(First(Shown))

FindExecutable == IF Executable = {} THEN NotFound ELSE Found(First(Executable))

DetectSyntheticEvidence ==
  IF stateURL # "" THEN IF stateURL = "valid" THEN Found("state") ELSE Failed
  ELSE CASE nodes = "error"    -> Failed
         [] nodes = "labelled" -> Found("nodes")
         [] OTHER              -> NotFound

OnEvidence == IF DetectSyntheticEvidence.kind = "found" THEN "synthetic" ELSE "unavailable"

Inspect(mode) ==
  IF mode = "synthetic" THEN OnEvidence
  ELSE CASE FindNvidiaSMI.kind = "found" -> "real"
         [] mode = "auto" /\ FindNvidiaSMI = NotFound -> OnEvidence
         [] OTHER -> "unavailable"

FindTool(command) == IF command = "nvidia-smi" THEN FindNvidiaSMI ELSE FindExecutable

\* A synthetic mode that was asked for needs no evidence: the shim finds out itself.
SelectNative(command, mode) ==
  IF mode = "synthetic" THEN "synthetic"
  ELSE CASE FindTool(command).kind = "found" -> "real"
         [] mode = "auto" /\ FindTool(command) = NotFound -> OnEvidence
         [] OTHER -> "unavailable"

---------------------------------------------------------------------------
Init == /\ path = <<>> /\ override \in Files \cup {"", "relative"}
        /\ stateURL \in {"", "valid", "invalid"} /\ nodes \in Nodes
Next == /\ Len(path) < MaxPath /\ \E file \in Files : path' = Append(path, file)
        /\ UNCHANGED <<override, stateURL, nodes>>
Spec == Init /\ [][Next]_vars

Shims == {"self", "lab", "disguised"}

\* What is shown as real comes from a tool that is not the lab's, whatever shims
\* stand before it on the PATH or in the override.
RealIsOfficial ==
  FindNvidiaSMI.kind = "found" => FindNvidiaSMI.file = "official"

\* In auto mode the lab is shown only on a host without any other tool: one that is
\* there and fails is an error.
NoFallback ==
  Inspect("auto") = "synthetic" =>
    /\ override = "" /\ \A i \in DOMAIN path : path[i] \in Shims \cup {"absent"}

\* The lab is shown only with positive evidence of it, and never in real mode.
SyntheticHasEvidence ==
  \A mode \in Modes : Inspect(mode) = "synthetic" =>
    mode # "real" /\ (stateURL = "valid" \/ (stateURL = "" /\ nodes = "labelled"))

\* gpu inspect and gpu nvidia-smi, which decide in two places, decide the same.
SameChoice ==
  \A mode \in {"auto", "real"} : Inspect(mode) = SelectNative("nvidia-smi", mode)

ToolIsTrue == RealIsOfficial /\ NoFallback /\ SyntheticHasEvidence /\ SameChoice
=============================================================================
