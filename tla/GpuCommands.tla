------------------------------ MODULE GpuCommands ----------------------------
(***************************************************************************)
(* The commands of gpu around a lab: those that change it (Lab), and what  *)
(* three of them decide by themselves: the image of gpu create, the tool   *)
(* that gpu inspect and nvidia-smi choose, and what gpu inspect reads.     *)
(***************************************************************************)
EXTENDS Lab

CONSTANTS MaxPath, MaxEdits, MaxSamples                        \* BOUNDS
VARIABLES env, options, path, override, stateURL, nodes, xml, edits, reading, samples

Options == INSTANCE CreateOptions
Tools   == INSTANCE Inspection
Checks  == INSTANCE InspectionChecks

(* The local image is built and never pulled, an image of the registry is  *)
(* pulled and never built, whatever version, environment and arguments say *)
(* (cmd/gpu-lab/create.go).                                                *)
ImageFitsSource == Options!ImageFitsSource

(* gpu inspect and gpu nvidia-smi, which decide in two places, decide the   *)
(* same.  What they show as real comes from no tool of the lab, whatever    *)
(* shims come first; they show the lab only with positive evidence of it,   *)
(* never in real mode, and in auto mode not because a tool of the host      *)
(* fails (internal/inspection/native.go and inspect.go).                    *)
ToolIsTrue == Tools!ToolIsTrue

(* A check of the XML passes or warns only on numbers that nvidia-smi has   *)
(* reported; a GPU is healthy, or not, if that was measured once and not    *)
(* long ago, in whatever order the samples come                             *)
(* (internal/inspection/inspect.go and synthetic.go).                       *)
ChecksAreTrue == Checks!ChecksAreTrue
=============================================================================
