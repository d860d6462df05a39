-------------------------- MODULE InspectionChecks --------------------------
(***************************************************************************)
(* What gpu inspect concludes from what it has read: the XML of nvidia-smi *)
(* field by field, and the samples of Prometheus in the order they come.   *)
(* A value is a text; a number is counted in halves.                       *)
(***************************************************************************)
EXTENDS Integers, Sequences

CONSTANTS MaxEdits, MaxSamples      \* BOUNDS

BoundsAssumption == MaxEdits \in Nat /\ MaxSamples \in Nat

\* The numbers that have a number's text, in halves; the rest is no finite number.
Number == [t \in {"-1", "0", "0.5", "1", "2", "150"} |->
             CASE t = "-1" -> -2 [] t = "0" -> 0 [] t = "0.5" -> 1
               [] t = "1" -> 2 [] t = "2" -> 4 [] OTHER -> 300]
Whole(t) == Number[t] % 2 = 0 /\ Number[t] >= 0
Texts == DOMAIN Number \cup {"", "N/A", "Not Supported", "NaN"}

---------------------------------------------------------------------------
(* nvidia-smi -q -x *)

\* The first word is compared with "not supported", which has two.
ParseXMLNumber(t) == CASE t = "N/A" -> "unsupported"
                       [] t \in DOMAIN Number -> "pass"
                       [] OTHER -> "unavailable"

Utilization(x) ==
  IF ParseXMLNumber(x.util) # "pass" THEN ParseXMLNumber(x.util)
  ELSE IF Number[x.util] < 0 \/ Number[x.util] > 200 THEN "unavailable" ELSE "pass"

CombineMissingStatus(a, b) ==
  IF "unavailable" \in {a, b} THEN "unavailable" ELSE "unsupported"

Consistent(used, total) == used >= 0 /\ total > 0 /\ used <= total

Memory(x) ==
  LET u == ParseXMLNumber(x.used) t == ParseXMLNumber(x.total)
  IN  IF u # "pass" \/ t # "pass" THEN CombineMissingStatus(u, t)
      ELSE IF Consistent(Number[x.used], Number[x.total]) THEN "pass" ELSE "unavailable"

ECCCount(t) ==
  IF ParseXMLNumber(t) # "pass" THEN ParseXMLNumber(t)
  ELSE IF ~Whole(t) THEN "unavailable" ELSE IF Number[t] = 0 THEN "pass" ELSE "warn"

ModernECC(sram, dram) ==
  IF {sram, dram} \subseteq DOMAIN Number /\ Whole(sram) /\ Whole(dram)
  THEN IF Number[sram] + Number[dram] > 0 THEN "warn" ELSE "pass"
  ELSE "unavailable"

\* The older counters are taken where they are reported.
ECC(x) == IF x.legacy # "" THEN ECCCount(x.legacy) ELSE ModernECC(x.sram, x.dram)

---------------------------------------------------------------------------
(* Prometheus *)

\* A sample of health, or of its age: fresh, older than two minutes, or before now.
HealthTexts == {"0", "1", "2", "NaN", "malformed"}
AgeTexts == {"fresh", "old", "future", "NaN", "malformed"}
Samples == {<<"health", t>> : t \in HealthTexts} \cup {<<"age", t>> : t \in AgeTexts}

Nothing == [health |-> "", age |-> "", ambiguous |-> {}]

\* One sample after the other; a second one or a malformed one spoils the field.
Read(r, s) ==
  IF s[2] = "malformed" \/ r[s[1]] # "" THEN [r EXCEPT !.ambiguous = @ \cup {s[1]}]
                                        ELSE [r EXCEPT ![s[1]] = s[2]]

\* Mutant: an age that is not there is no objection.
AgeIfGiven(r) == r.ambiguous = {} /\ r.health \notin {"", "NaN"} /\ r.age \in {"", "fresh"}

Usable(r) == r.ambiguous = {} /\ r.health \notin {"", "NaN"} /\ r.age = "fresh"

Health(r) ==
  IF ~Usable(r) THEN "unavailable"
  ELSE CASE r.health = "1" -> "pass" [] r.health = "0" -> "fail" [] OTHER -> "unavailable"

---------------------------------------------------------------------------
Fields == {"util", "used", "total", "legacy", "sram", "dram"}

VARIABLES
  xml, edits,
  reading,     \* what parsePrometheusInspection has made of the samples
  samples      \* those it has read
vars == <<xml, edits, reading, samples>>

Init == /\ xml = [f \in Fields |-> ""] /\ edits = 0
        /\ reading = Nothing /\ samples = <<>>

EditXML == /\ edits < MaxEdits /\ edits' = edits + 1 /\ samples = <<>>
           /\ \E f \in Fields, t \in Texts : xml' = [xml EXCEPT ![f] = t]
           /\ UNCHANGED <<reading, samples>>
ReadSample == /\ Len(samples) < MaxSamples /\ edits = 0
              /\ \E s \in Samples : /\ samples' = Append(samples, s)
                                    /\ reading' = Read(reading, s)
              /\ UNCHANGED <<xml, edits>>
Next == EditXML \/ ReadSample
Spec == Init /\ [][Next]_vars

Numeric(S) == \A f \in S : xml[f] \in DOMAIN Number

\* "What is missing is not replaced by 0 or pass": a check passes or warns only on
\* numbers that nvidia-smi has reported, all of those it speaks of.
NothingIsInvented ==
  /\ Utilization(xml) = "pass" => Numeric({"util"})
  /\ Memory(xml) = "pass" => Numeric({"used", "total"})
  /\ ECC(xml) \in {"pass", "warn"} =>
       IF xml["legacy"] # "" THEN Numeric({"legacy"}) ELSE Numeric({"sram", "dram"})

\* The only sample of a field, in any place.
Only(field, text) ==
  \E i \in DOMAIN samples :
    /\ samples[i] = <<field, text>>
    /\ \A j \in DOMAIN samples : samples[j][1] = field => j = i

\* A GPU is healthy or unhealthy when its health was measured once, and less than two
\* minutes ago, and only then: the order in which the samples come does not matter.
MeasuredOnceAndFresh ==
  /\ Health(reading) = "pass" <=> Only("health", "1") /\ Only("age", "fresh")
  /\ Health(reading) = "fail" <=> Only("health", "0") /\ Only("age", "fresh")

ChecksAreTrue == NothingIsInvented /\ MeasuredOnceAndFresh
=============================================================================
