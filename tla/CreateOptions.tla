--------------------------- MODULE CreateOptions ---------------------------
(***************************************************************************)
(* Where gpu create takes its runtime image from: the version of the       *)
(* binary, the environment and the arguments (cmd/gpu-lab/create.go and    *)
(* cluster.NewManager).  "" stands for what is not set.                    *)
(***************************************************************************)
Local == "gpu-lab:dev"
Runtime == "runtime:version"     \* RuntimeImageForVersion
Sources == {"auto", "local", "registry"}

(* An argument and its value.                                              *)
Args == {<<"--local">>, <<"--registry">>, <<"--all">>, <<"--image", "custom">>,
         <<"--image", "">>, <<"--verbose">>}
        \cup {<<"--image-source", s>> : s \in Sources \cup {"mirror"}}

Source(arg) == CASE arg[1] = "--local" -> "local"
                 [] arg[1] = "--registry" -> "registry"
                 [] OTHER -> arg[2]

Parsed(options, arg) ==
  CASE arg[1] \in {"--local", "--registry", "--image-source"} ->
         [options EXCEPT !.source = Source(arg),
                         !.ok = @ /\ Source(arg) \in Sources
                                  /\ options.source \in {"", Source(arg)}]
    [] arg[1] = "--image" -> [options EXCEPT !.image = arg[2], !.ok = @ /\ arg[2] # ""]
    [] arg[1] = "--all" -> options
    [] OTHER -> [options EXCEPT !.ok = FALSE]
NoOptions == [source |-> "", image |-> "", ok |-> TRUE]

NewManager(env) ==
  LET source == IF env.source = "" THEN "auto" ELSE env.source
      built == source = "local" \/ (source = "auto" /\ ~env.release)
  IN  [source |-> source,
       image |-> IF env.image # "" THEN env.image ELSE IF built THEN Local ELSE Runtime]

\* Mutant: --registry keeps the local image.
KeepsImage(env, o) ==
  LET m == NewManager(env)
  IN  [source |-> IF o.source = "" THEN m.source ELSE o.source,
       image |-> CASE o.image # "" -> o.image
                   [] o.image = "" /\ o.source = "local" -> Local
                   [] OTHER -> m.image]

Manager(env, o) ==
  LET m == NewManager(env)
  IN  [source |-> IF o.source = "" THEN m.source ELSE o.source,
       image |-> CASE o.image # "" -> o.image
                   [] o.image = "" /\ o.source = "local" -> Local
                   [] o.image = "" /\ o.source = "registry" /\ m.image = Local -> Runtime
                   [] OTHER -> m.image]

ResolveImageSource(m, env) ==
  CASE m.source = "auto" -> IF m.image = Local /\ ~env.release THEN "local" ELSE "registry"
    [] m.source \in {"local", "registry"} -> m.source
    [] OTHER -> "invalid"

---------------------------------------------------------------------------
VARIABLES env, options
vars == <<env, options>>

Environments ==
  [source : Sources \cup {"", "mirror"}, image : {"", "custom"}, release : BOOLEAN]

Init == env \in Environments /\ options = NoOptions
(* parseCreateArgs reads one argument after the other and stops at an error. *)
ParseArg(arg) == options.ok /\ options' = Parsed(options, arg) /\ UNCHANGED env
Next == \E arg \in Args : ParseArg(arg)
Spec == Init /\ [][Next]_vars

Image == Manager(env, options).image
From == ResolveImageSource(Manager(env, options), env)

(* The local image is built and never pulled, an image of the registry is  *)
(* pulled and never built, however the environment and the arguments       *)
(* disagree about the source, unless auto is asked for by name.            *)
ImageFitsSource ==
  options.ok /\ options.source # "auto" /\ Image # "custom" =>
    /\ From = "local" => Image = Local
    /\ From = "registry" => Image = Runtime
=============================================================================
