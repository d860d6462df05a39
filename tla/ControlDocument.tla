--------------------------- MODULE ControlDocument ---------------------------
(***************************************************************************)
(* control.json has three readers: the commands that rewrite it            *)
(* (trainingjob.Client.Mutate), the workers (training.ReadControl) and the *)
(* recovery gate (verification.EvaluateTrainingControl).  The document is  *)
(* meant to be edited by hand as well, so each may meet any document.      *)
(* A value that starts with # is a JSON number; Absent, Null and Odd are   *)
(* no text.                                                                *)
(***************************************************************************)
EXTENDS Integers, Sequences

CONSTANTS MaxEdits, MaxCommands    \* BOUNDS on changes by hand and by command

BoundsAssumption == MaxEdits \in Nat /\ MaxCommands \in Nat

VARIABLES doc, last, edits, commands

vars == <<doc, last, edits, commands>>

---------------------------------------------------------------------------
(* Documents.  Odd is a value of a type no reader takes.                   *)

Absent == "absent"
Null == "null"
Odd == "odd"
Unset == {Absent, Null}

Numbers == {"#0", "#1", "#-1"}
Values ==
  [shape              |-> {"object", "trailing", "empty", "blank", "null", "other"},
   generation         |-> {Absent, Null, Odd, "#1"},
   straggler          |-> {Absent, Null, Odd, "nested"},   \* nested: rank 1 and 2s
   crash              |-> {Absent, Null, Odd, "nested"},   \* nested: rank 1, enabled
   straggler_rank     |-> Unset \cup {Odd} \cup Numbers,
   straggler_delay    |-> Unset \cup {Odd, "", "2s", "-2s", "soon"},
   crash_rank         |-> Unset \cup {Odd} \cup Numbers,
   crash_token        |-> Unset \cup {Odd, "", "t"},
   fabric_mode        |-> Unset \cup {Odd, "", " Normal ", "normal",
                                      "down", "typo"},
   fabric_target_node |-> Unset \cup {Odd, "", " ", "gpu-node-02"},
   fabric_delay       |-> Unset \cup {Odd, "#0", "#1", "", " ", "0s",
                                      "1s", "-2s", "soon"}]
Keys == DOMAIN Values
Empty == [k \in Keys |-> IF k = "shape" THEN "object" ELSE Absent]

Texts == {"", " ", " Normal ", "normal", "down", "typo", "gpu-node-02", "0s", "1s",
          "2s", "-2s", "soon", "t"}
IsText(v) == v \in Texts
Text(v) == IF IsText(v) THEN v ELSE ""       \* of a key that may be unset
Trim(t) == IF t = " " THEN "" ELSE t
Duration == [d \in {"0s", "1s", "2s", "-2s"} |->
               CASE d = "0s" -> 0 [] d = "1s" -> 1 [] d = "2s" -> 2 [] OTHER -> -2]
Lower(t) == IF t = " Normal " THEN "normal" ELSE Trim(t)

OptionalNumber(v) == v \in Unset \cup Numbers
OptionalText(v) == v \in Unset \cup Texts

---------------------------------------------------------------------------
(* The workers.  A document they cannot read counts as normal before a     *)
(* step, and changes nothing for one that waits for its fabric.            *)

\* A flat field takes the place of the nested one, and clears it when null.
NestedCounts(flat, nested) == flat = Absent /\ nested = "nested"

NonNegative(v) == v \in {"#0", "#1"}
DurationText(t) == t \in DOMAIN Duration /\ Duration[t] >= 0
StragglerReadable(d) ==
  \/ d.straggler_rank \in Unset
  \/ /\ NonNegative(d.straggler_rank)
     /\ (d.straggler_delay = Absent \/ DurationText(d.straggler_delay))
CrashReadable(d) ==
  \/ d.crash_rank \in Unset
  \/ NonNegative(d.crash_rank) /\ OptionalText(d.crash_token)
DelayReadable(v) ==
  v \in Unset \/ NonNegative(v) \/ (IsText(v) /\ DurationText(Trim(v)))

Readable(d) ==
  \/ d.shape \in {"empty", "null"}
  \/ /\ d.shape = "object" /\ d.straggler # Odd /\ d.crash # Odd
     /\ StragglerReadable(d) /\ CrashReadable(d)
     /\ OptionalText(d.fabric_mode) /\ OptionalText(d.fabric_target_node)
     /\ DelayReadable(d.fabric_delay)

EffectiveFabricMode(t) == IF t = "down" THEN t ELSE "normal"

\* What a worker makes of a document it can read.
Reading(d) ==
  LET object == d.shape = "object"
  IN  [straggler |-> /\ object
                     /\ \/ NonNegative(d.straggler_rank)
                        \/ NestedCounts(d.straggler_rank, d.straggler),
       crash |-> /\ object
                 /\ \/ NonNegative(d.crash_rank) /\ Text(d.crash_token) # ""
                    \/ NestedCounts(d.crash_rank, d.crash),
       mode |-> IF object THEN EffectiveFabricMode(Lower(Text(d.fabric_mode)))
                          ELSE "normal"]
NoFault == [straggler |-> FALSE, crash |-> FALSE, mode |-> "normal"]

ActsOn(d) == IF Readable(d) THEN Reading(d) ELSE NoFault

---------------------------------------------------------------------------
(* The gate: strict decoding, then no trace of a fault *)

\* Mutant: unknown fields are accepted.
Lenient(d) ==
  /\ d.shape = "object"
  /\ \A k \in {"generation", "straggler_rank", "crash_rank"} : OptionalNumber(d[k])
  /\ \A k \in {"straggler_delay", "crash_token", "fabric_mode",
               "fabric_target_node", "fabric_delay"} : OptionalText(d[k])

Strict(d) ==
  /\ d.shape = "object" /\ d.straggler = Absent /\ d.crash = Absent
  /\ \A k \in {"generation", "straggler_rank", "crash_rank"} : OptionalNumber(d[k])
  /\ \A k \in {"straggler_delay", "crash_token", "fabric_mode",
               "fabric_target_node", "fabric_delay"} : OptionalText(d[k])

EvaluateTrainingControl(d) ==
  /\ Strict(d)
  /\ Lower(Text(d.fabric_mode)) \in {"", "normal"}
  /\ Trim(Text(d.fabric_target_node)) = ""
  /\ LET delay == Trim(Text(d.fabric_delay))
     IN  delay # "" => delay \in DOMAIN Duration /\ Duration[delay] = 0
  /\ d.straggler_rank \in Unset /\ Trim(Text(d.straggler_delay)) = ""
  /\ d.crash_rank \in Unset /\ Trim(Text(d.crash_token)) = ""

---------------------------------------------------------------------------
(* The commands: the document is decoded into a ControlState, changed, and *)
(* written back whole.                                                     *)

Decodes(d) ==
  \/ d.shape = "null"
  \/ /\ d.shape = "object"
     /\ \A k \in {"generation", "straggler_rank", "crash_rank"} : OptionalNumber(d[k])
     /\ \A k \in {"straggler_delay", "crash_token", "fabric_mode",
                  "fabric_target_node", "fabric_delay"} : OptionalText(d[k])

\* Decoding and omitempty: fields that are null or empty, and fields that the
\* type does not have, are gone.
Decoded(d) ==
  [k \in Keys |->
     CASE k = "shape" -> "object"
       [] k = "generation" -> "#1"
       [] k \in {"straggler", "crash"} -> Absent
       [] OTHER -> IF d.shape = "null" \/ d[k] \in Unset \cup {""}
                   THEN Absent ELSE d[k]]

\* ControlState.JSON.
JSON(d) ==
  LET mode == Lower(Text(d.fabric_mode))
  IN  IF mode \in {"", "normal"}
      THEN [d EXCEPT !.fabric_mode = "normal", !.fabric_target_node = Absent,
                     !.fabric_delay = Absent]
      ELSE [d EXCEPT !.fabric_mode = mode]

Mutate(name, changed) ==
  /\ commands < MaxCommands /\ commands' = commands + 1
  /\ IF Decodes(doc) THEN doc' = JSON(changed) /\ last' = name
                     ELSE UNCHANGED <<doc, last>>
  /\ UNCHANGED edits

ClearFabric(d) == [d EXCEPT !.fabric_mode = "normal", !.fabric_target_node = Absent,
                            !.fabric_delay = Absent]
FabricDown(d) == [d EXCEPT !.fabric_mode = "down", !.fabric_delay = Absent,
                           !.fabric_target_node = "gpu-node-02"]

Recovered(d) ==
  ClearFabric([d EXCEPT !.straggler_rank = Absent, !.straggler_delay = Absent,
                        !.crash_rank = Absent, !.crash_token = Absent])
WithStraggler(d) == [d EXCEPT !.straggler_rank = "#1", !.straggler_delay = "2s",
                              !.crash_rank = Absent, !.crash_token = Absent]
WithCrash(d) == [d EXCEPT !.crash_rank = "#1", !.crash_token = "t"]

SyncScenario == \/ Mutate("sync", ClearFabric(Decoded(doc)))
                \/ Mutate("sync", FabricDown(Decoded(doc)))
Recover      == Mutate("recover", Recovered(Decoded(doc)))
Inject       == \/ Mutate("inject", WithStraggler(Decoded(doc)))
                \/ Mutate("inject", WithCrash(Decoded(doc)))

\* Somebody edits the ConfigMap.
Edit ==
  /\ edits < MaxEdits /\ edits' = edits + 1
  /\ \E k \in Keys : \E v \in Values[k] : doc' = [doc EXCEPT ![k] = v]
  /\ doc' # doc /\ last' = "edit"
  /\ UNCHANGED commands

Init == doc = Empty /\ last = "edit" /\ edits = 0 /\ commands = 0
Next == Edit \/ SyncScenario \/ Recover \/ Inject
Spec == Init /\ [][Next]_vars

---------------------------------------------------------------------------
\* The gate is not laxer than the workers: no document that it lets pass makes a
\* worker act on a fault, whatever was edited and whatever the other schema is.
GateSound == EvaluateTrainingControl(doc) => ActsOn(doc) = NoFault

\* gpu training recover repairs every document that it can decode: the gate lets
\* it pass, and a worker that waits for its fabric can read it.
RecoverRepairs ==
  last = "recover" => EvaluateTrainingControl(doc) /\ Readable(doc)

\* Synchronizing a scenario leaves the straggler and the crash of a document in
\* the flat schema to the workers as they were.
SyncKeepsFlatFaults ==
  [][ last' = "sync" /\ commands' # commands /\ Decodes(doc) /\ Readable(doc)
      /\ doc.straggler \in Unset /\ doc.crash \in Unset
      => /\ ActsOn(doc').straggler = ActsOn(doc).straggler
         /\ ActsOn(doc').crash = ActsOn(doc).crash ]_vars
=============================================================================
