------------------------------- MODULE MCLab -------------------------------
(***************************************************************************)
(* What a behaviour is about: the commands of one terminal, gpu create run *)
(* again, gpu helm, two terminals, the options of gpu create, the tool     *)
(* that gpu inspect and nvidia-smi choose, or what gpu inspect reads.      *)
(***************************************************************************)
EXTENDS GpuCommands

VARIABLE subject

(* The assumptions of the instances.                                       *)
ASSUME InstancesAssumption == Tools!PathAssumption /\ Checks!BoundsAssumption

optionVars == <<env, options>>
toolVars   == <<path, override, stateURL, nodes>>
checkVars  == <<xml, edits, reading, samples>>

Creates == {<<"create", i>> : i \in Images}
Manages == {<<"install", Exporter>>, <<"install", Monitoring>>, <<"uninstall", Exporter>>,
            <<"uninstall", Monitoring>>, <<"destroy">>, <<"setup">>, <<"use", Alias>>,
            <<"use", Mine>>, <<"status">>}
OneImage == CHOOSE i \in Images : TRUE
Alls == {<<"create", OneImage>>, <<"create all", OneImage>>, <<"install all">>,
         <<"destroy">>, <<"use", Mine>>}
Helms == {<<"create", OneImage>>, <<"use", Mine>>, <<"destroy">>,
          <<"helm", <<"install", "--namespace", "demo">> >>,
          <<"helm", <<"--debug", "list">> >>, <<"helm", <<"search">> >>,
          <<"helm", <<"upgrade", "--kube-context", "mine">> >>,
          <<"helm", <<"--namespace", "demo", "install">> >>, <<"helm", <<"un">> >>}
Shared == Creates \cup {<<"setup">>, <<"install", Exporter>>, <<"use", Alias>>}

(* BOUNDS of each subject: terminals, commands and calls that go wrong.    *)
Subjects ==
  [manage  |-> [terminals |-> 1, commands |-> Creates \cup Manages, begun |-> 4, faults |-> 2],
   reruns  |-> [terminals |-> 1, commands |-> Alls,    begun |-> 3, faults |-> 2],
   helm    |-> [terminals |-> 1, commands |-> Helms,   begun |-> 3, faults |-> 1],
   shared  |-> [terminals |-> 2, commands |-> Shared,  begun |-> 3, faults |-> 0],
   options |-> [terminals |-> 0, commands |-> {},      begun |-> 0, faults |-> 0],
   tools   |-> [terminals |-> 0, commands |-> {},      begun |-> 0, faults |-> 0],
   checks  |-> [terminals |-> 0, commands |-> {},      begun |-> 0, faults |-> 0]]

AllCommands ==
  [t \in Terminals |-> Creates \cup Manages \cup Alls \cup Helms \cup Shared]

First == CHOOSE t \in Terminals : TRUE
Within(b) ==
  /\ begun' <= b.begun /\ faults' <= b.faults
  /\ \A t \in Terminals : proc'[t].cmd[1] # "none" =>
       proc'[t].cmd \in b.commands /\ (b.terminals = 1 => t = First)

MCInit ==
  /\ Init /\ subject \in DOMAIN Subjects
  /\ Options!Init /\ Tools!Init /\ Checks!Init
  /\ subject # "options" => env = [source |-> "", image |-> "", release |-> TRUE]
  /\ subject # "tools" => override = "" /\ stateURL = "" /\ nodes = "none"

MCNext ==
  /\ UNCHANGED subject
  /\ \/ /\ subject \notin {"options", "tools", "checks"}
        /\ Next /\ Within(Subjects[subject])
        /\ UNCHANGED <<optionVars, toolVars, checkVars>>
     \/ subject = "options" /\ Options!Next /\ UNCHANGED <<vars, toolVars, checkVars>>
     \/ subject = "tools" /\ Tools!Next /\ UNCHANGED <<vars, optionVars, checkVars>>
     \/ subject = "checks" /\ Checks!Next /\ UNCHANGED <<vars, optionVars, toolVars>>
MCSpec == MCInit /\ [][MCNext]_<<vars, subject, optionVars, toolVars, checkVars>>
=============================================================================
