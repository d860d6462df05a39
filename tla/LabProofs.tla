---------------------------- MODULE LabProofs ----------------------------
(***************************************************************************)
(* Proofs about Lab, for any terminals, commands, images and faults: its   *)
(* types; that the nodes keep the images that are saved and released; that *)
(* the commands leave the kubeconfigs in order; and that gpu create can be *)
(* run again.  At the end, the same run's other parts: the options of gpu  *)
(* create (CreateOptions), the tool that gpu inspect chooses (Inspection)  *)
(* and what it concludes (InspectionChecks).                               *)
(*                                                                         *)
(* A command is a sequence of calls, and a call changes what is left of it *)
(* (kubeconfig/manager.go asks and adds calls).  What the proofs know of a *)
(* sequence is which call may follow which (May), which may not come later *)
(* (Later) and which a command makes at all (Allowed): Shape and Speaks    *)
(* hold of every program (ProgramBegins) and of all that is left of one.   *)
(***************************************************************************)
EXTENDS GpuCommands, FiniteSetTheorems, SequenceTheorems, WellFoundedInduction, TLAPS

-----------------------------------------------------------------------------
(* What is left of a command: names of calls and their order *)

CallNames == {"fetch image", "look for cluster", "kind create", "kind delete",
  "load image", "save image", "wait for nodes", "cluster exists", "read image",
  "apply assets", "delete assets", "wait for scrape", "get", "read current", "export",
  "alias", "restore", "export own", "look at own", "rename own", "delete own", "use own"}
CallSet ==
  {<<name>> : name \in CallNames} \cup ({"helm install", "helm uninstall"} \X Components)
  \cup ({"find", "find again", "use"} \X (STRING \cup {Alias}))
  \cup ({"helm at lab", "helm at current"} \X Seq(STRING))

\* A call may be followed by one of this name, or by none ("").
May(call, name) ==
  LET is == call[1] IN
  \/ is = "fetch image" /\ name = "look for cluster"
  \/ is = "look for cluster" /\ name = "kind create"
  \/ is = "kind create" /\ name = "load image"
  \/ is = "load image" /\ name = "read current"
  \/ is = "read current" /\ name = "export"
  \/ is = "export" /\ name = "alias"
  \/ is = "alias" /\ name = "restore"
  \/ is = "restore" /\ name = "export own"
  \/ is = "export own" /\ name = "look at own"
  \/ is \in {"look at own", "rename own", "delete own"} /\ name = "use own"
  \/ is = "use own" /\ name \in {"save image", "read image", "helm at lab", "get",
                                 "find again", ""}
  \/ is = "save image" /\ name = "wait for nodes"
  \/ is = "wait for nodes" /\ name \in {"cluster exists", ""}
  \/ is = "cluster exists" /\ name = "read current"
  \/ is = "read image" /\ name = "helm install"
  \/ is = "helm install" /\ IF call[2] = Monitoring THEN name = "apply assets"
                                                   ELSE name \in {"cluster exists", ""}
  \/ is = "apply assets" /\ name = "wait for scrape"
  \/ is = "delete assets" /\ name = "helm uninstall"
  \/ is \in {"find", "find again"} /\ name = "use"
  \/ /\ is \in {"wait for scrape", "helm uninstall", "use", "get", "kind delete",
                "helm at lab", "helm at current"}
     /\ name = ""

Ahead(s) == IF s = <<>> THEN "" ELSE s[1][1]
CallsIn(s) == {s[i] : i \in DOMAIN s}
Never(s, names) == \A c \in CallsIn(s) : c[1] \notin names
ImageCalls == {"load image", "save image", "kind create"}
Later(call, s) ==
  /\ call[1] = "read image" => Never(s, ImageCalls)
  /\ call[1] = "kind create" => Never(s, {"kind create"})

Linked(s) ==
  /\ s \in Seq(CallSet)
  /\ \A i \in 1 .. Len(s) - 1 : May(s[i], s[i + 1][1])
  /\ \A i, j \in 1 .. Len(s) : i < j =>
       /\ s[i][1] = "read image" => s[j][1] \notin ImageCalls
       /\ s[i][1] = "kind create" => s[j][1] # "kind create"

Shape(s) == Linked(s) /\ (s # <<>> => May(s[Len(s)], ""))

LEMMA TailCalls ==
  ASSUME NEW s \in Seq(CallSet), s # <<>>
  PROVE  /\ Head(s) \in CallSet /\ Tail(s) \in Seq(CallSet) /\ Ahead(s) = Head(s)[1]
         /\ Len(s) \in Nat \ {0} /\ Len(Tail(s)) = Len(s) - 1
         /\ \A i \in 1 .. Len(s) - 1 : Tail(s)[i] = s[i + 1]
         /\ CallsIn(s) = {Head(s)} \cup CallsIn(Tail(s))
<1>1. /\ Head(s) \in CallSet /\ Tail(s) \in Seq(CallSet) /\ Head(s) = s[1]
      /\ Len(s) \in Nat \ {0} /\ Len(Tail(s)) = Len(s) - 1
      /\ \A i \in 1 .. Len(s) - 1 : Tail(s)[i] = s[i + 1]
      /\ DOMAIN s = 1 .. Len(s) /\ DOMAIN Tail(s) = 1 .. Len(s) - 1
  OBVIOUS
<1>2. CallsIn(Tail(s)) = {s[i] : i \in 2 .. Len(s)}
  <2>1. \A i \in 2 .. Len(s) : i - 1 \in 1 .. Len(s) - 1 /\ s[i] = Tail(s)[i - 1]
    BY <1>1
  <2>2. \A i \in 1 .. Len(s) - 1 : i + 1 \in 2 .. Len(s)
    BY <1>1
  <2>3. ASSUME NEW i \in 2 .. Len(s)
        PROVE  \E j \in 1 .. Len(s) - 1 : s[i] = Tail(s)[j]
    BY <2>1, Zenon
  <2>4. ASSUME NEW j \in 1 .. Len(s) - 1
        PROVE  \E i \in 2 .. Len(s) : Tail(s)[j] = s[i]
    BY <1>1, <2>2, Zenon
  <2> DEFINE r == Tail(s)
  <2>5. CallsIn(r) = {r[j] : j \in 1 .. Len(s) - 1} BY <1>1, Zenon DEF CallsIn
  <2>6. {r[j] : j \in 1 .. Len(s) - 1} \subseteq {s[i] : i \in 2 .. Len(s)}
    BY <2>4, Zenon
  <2>7. {s[i] : i \in 2 .. Len(s)} \subseteq {r[j] : j \in 1 .. Len(s) - 1}
    BY <2>3, Zenon
  <2> QED BY <2>5, <2>6, <2>7, Zenon
<1>3. 1 .. Len(s) = {1} \cup 2 .. Len(s)
  BY <1>1
<1>4. CallsIn(s) = {Head(s)} \cup CallsIn(Tail(s))
  BY <1>1, <1>2, <1>3, Zenon DEF CallsIn
<1> QED BY <1>1, <1>4 DEF Ahead

LEMMA ShapeTail ==
  ASSUME NEW s, Shape(s), s # <<>>
  PROVE  /\ Shape(Tail(s)) /\ May(Head(s), Ahead(Tail(s)))
         /\ Later(Head(s), Tail(s))
<1>1. s \in Seq(CallSet) BY DEF Shape, Linked
<1>2. /\ Tail(s) \in Seq(CallSet) /\ Len(s) \in Nat \ {0} /\ Len(Tail(s)) = Len(s) - 1
      /\ \A i \in 1 .. Len(s) - 1 : Tail(s)[i] = s[i + 1]
      /\ Head(s) = s[1]
  BY <1>1, TailCalls
<1>3. Linked(Tail(s))
  <2>1. \A i \in 1 .. Len(Tail(s)) - 1 : May(Tail(s)[i], Tail(s)[i + 1][1])
    <3>1. SUFFICES ASSUME NEW i \in 1 .. Len(Tail(s)) - 1
                   PROVE  May(Tail(s)[i], Tail(s)[i + 1][1])
      OBVIOUS
    <3>2. i + 1 \in 1 .. Len(s) - 1 /\ i \in 1 .. Len(s) - 1 BY <1>2
    <3>3. Tail(s)[i] = s[i + 1] /\ Tail(s)[i + 1] = s[(i + 1) + 1] BY <1>2, <3>2
    <3>4. May(s[i + 1], s[(i + 1) + 1][1]) BY <3>2, Zenon DEF Shape, Linked
    <3> QED BY <3>3, <3>4
  <2>2. ASSUME NEW i \in 1 .. Len(Tail(s)), NEW j \in 1 .. Len(Tail(s)), i < j
        PROVE  /\ Tail(s)[i][1] = "read image" => Tail(s)[j][1] \notin ImageCalls
               /\ Tail(s)[i][1] = "kind create" => Tail(s)[j][1] # "kind create"
    <3>1. /\ i + 1 \in 1 .. Len(s) /\ j + 1 \in 1 .. Len(s) /\ i + 1 < j + 1
          /\ i \in 1 .. Len(s) - 1 /\ j \in 1 .. Len(s) - 1
      BY <1>2, <2>2
    <3>2. Tail(s)[i] = s[i + 1] /\ Tail(s)[j] = s[j + 1] BY <1>2, <3>1
    <3>3. /\ s[i + 1][1] = "read image" => s[j + 1][1] \notin ImageCalls
          /\ s[i + 1][1] = "kind create" => s[j + 1][1] # "kind create"
      BY <3>1, Zenon DEF Shape, Linked
    <3> QED BY <3>2, <3>3
  <2> QED BY <1>2, <2>1, <2>2 DEF Linked
<1>4. Tail(s) # <<>> => May(Tail(s)[Len(Tail(s))], "")
  <2>1. HAVE Tail(s) # <<>>
  <2>2. Len(s) - 1 \in 1 .. Len(s) - 1 BY <1>2, <2>1
  <2>3. Tail(s)[Len(Tail(s))] = s[Len(s)] BY <1>2, <2>2
  <2> QED BY <2>3 DEF Shape
<1>5. May(Head(s), Ahead(Tail(s)))
  <2>1. CASE Tail(s) = <<>>
    <3>0. Len(<<>>) = 0 OBVIOUS
    <3>1. Len(Tail(s)) = 0 BY <2>1, <3>0, Zenon
    <3> DEFINE m == Len(Tail(s)) n == Len(s)
    <3>2. n = 1
      <4>1. n \in Nat /\ m = n - 1 /\ m = 0 BY <1>2, <3>1, Zenon
      <4> HIDE DEF m, n
      <4> QED BY <4>1
    <3>3. Ahead(Tail(s)) = "" BY <2>1, Zenon DEF Ahead
    <3> QED BY <1>2, <3>2, <3>3, Zenon DEF Shape
  <2>2. CASE Tail(s) # <<>>
    <3>1. 1 \in 1 .. Len(s) - 1 BY <1>2, <2>2
    <3>2. Tail(s)[1] = s[2] BY <1>2, <3>1
    <3>3. May(s[1], s[1 + 1][1]) BY <3>1, Zenon DEF Shape, Linked
    <3>4. Ahead(Tail(s)) = Tail(s)[1][1] BY <2>2, Zenon DEF Ahead
    <3>5. s[1 + 1] = s[2] OBVIOUS
    <3> QED BY <1>2, <3>2, <3>3, <3>4, <3>5, Zenon
  <2> QED BY <2>1, <2>2
<1>6. Later(Head(s), Tail(s))
  <2>1. ASSUME NEW c \in CallsIn(Tail(s))
        PROVE  /\ Head(s)[1] = "read image" => c[1] \notin ImageCalls
               /\ Head(s)[1] = "kind create" => c[1] # "kind create"
    <3>1. PICK i \in 1 .. Len(Tail(s)) : c = Tail(s)[i] BY <1>2, <2>1 DEF CallsIn
    <3>2. i + 1 \in 1 .. Len(s) /\ 1 \in 1 .. Len(s) /\ 1 < i + 1 /\ i \in 1 .. Len(s) - 1
      BY <1>2, <3>1
    <3>3. c = s[i + 1] BY <1>2, <3>1, <3>2
    <3>4. /\ s[1][1] = "read image" => s[i + 1][1] \notin ImageCalls
          /\ s[1][1] = "kind create" => s[i + 1][1] # "kind create"
      BY <3>2, Zenon DEF Shape, Linked
    <3> QED BY <1>2, <3>3, <3>4
  <2> QED BY <2>1 DEF Later, Never
<1> QED BY <1>3, <1>4, <1>5, <1>6 DEF Shape

LEMMA Join ==
  ASSUME NEW a, NEW b, Linked(a), a # <<>>, Shape(b), May(a[Len(a)], Ahead(b)),
         \A c \in CallsIn(a) : Later(c, b)
  PROVE  /\ Shape(a \o b) /\ a \o b # <<>> /\ Ahead(a \o b) = Ahead(a)
         /\ CallsIn(a \o b) = CallsIn(a) \cup CallsIn(b)
<1> DEFINE s == a \o b  m == Len(a)  n == Len(b)
<1>1. /\ a \in Seq(CallSet) /\ b \in Seq(CallSet) /\ s \in Seq(CallSet)
      /\ m \in Nat \ {0} /\ n \in Nat /\ Len(s) = m + n
      /\ \A i \in 1 .. m : s[i] = a[i]
      /\ \A i \in 1 .. n : s[m + i] = b[i]
      /\ DOMAIN s = 1 .. m + n /\ DOMAIN a = 1 .. m /\ DOMAIN b = 1 .. n
  <2>1. a \in Seq(CallSet) /\ b \in Seq(CallSet) BY DEF Shape, Linked
  <2> QED BY <2>1
<1>2. \A i \in 1 .. m + n : i \in 1 .. m \/ (i - m \in 1 .. n /\ s[i] = b[i - m])
  <2>1. TAKE i \in 1 .. m + n
  <2>2. i \in 1 .. m \/ i - m \in 1 .. n BY <1>1
  <2>3. m + (i - m) = i BY <1>1
  <2> HIDE DEF s, m, n
  <2> QED BY <1>1, <2>2, <2>3
<1> HIDE DEF s, m, n
<1>3. CallsIn(s) = CallsIn(a) \cup CallsIn(b)
  <2>1. ASSUME NEW i \in 1 .. m + n PROVE s[i] \in CallsIn(a) \cup CallsIn(b)
    BY <1>1, <1>2, Zenon DEF CallsIn
  <2>2. ASSUME NEW i \in 1 .. m PROVE a[i] \in CallsIn(s)
    <3>1. i \in 1 .. m + n BY <1>1
    <3> QED BY <1>1, <3>1, Zenon DEF CallsIn
  <2>3. ASSUME NEW i \in 1 .. n PROVE b[i] \in CallsIn(s)
    <3>1. m + i \in 1 .. m + n BY <1>1
    <3> QED BY <1>1, <3>1, Zenon DEF CallsIn
  <2>4. CallsIn(s) \subseteq CallsIn(a) \cup CallsIn(b) BY <1>1, <2>1, Zenon DEF CallsIn
  <2>5. CallsIn(a) \subseteq CallsIn(s) BY <1>1, <2>2, Zenon DEF CallsIn
  <2>6. CallsIn(b) \subseteq CallsIn(s) BY <1>1, <2>3, Zenon DEF CallsIn
  <2> QED BY <2>4, <2>5, <2>6
<1>4. ASSUME NEW i \in 1 .. Len(s) - 1 PROVE May(s[i], s[i + 1][1])
  <2>1. CASE i \in 1 .. m - 1
    <3>1. /\ i \in 1 .. m /\ i + 1 \in 1 .. m /\ i \in 1 .. Len(a) - 1
      BY <1>1, <2>1 DEF m
    <3>2. May(a[i], a[i + 1][1]) BY <3>1, Zenon DEF Linked
    <3> QED BY <1>1, <3>1, <3>2, Zenon
  <2>2. CASE i = m
    <3>1. 1 \in 1 .. n /\ m \in 1 .. m BY <1>1, <2>2
    <3>2. s[m + 1] = b[1] /\ s[m] = a[m] BY <1>1, <3>1, Zenon
    <3>3. b # <<>> 
      <4>1. SUFFICES ASSUME b = <<>> PROVE FALSE OBVIOUS
      <4>2. Len(<<>>) = 0 OBVIOUS
      <4>3. n = 0 BY <4>1, <4>2, Zenon DEF n
      <4> QED BY <4>3, <3>1
    <3>4. May(a[m], b[1][1]) BY <3>3, Zenon DEF Ahead, m
    <3> QED BY <2>2, <3>2, <3>4, Zenon
  <2>3. CASE i \in m + 1 .. m + n - 1
    <3> DEFINE k == i - m
    <3>1. k \in 1 .. n - 1 /\ k \in 1 .. n /\ k + 1 \in 1 .. n /\ m + k = i /\ m + (k + 1) = i + 1
      BY <1>1, <2>3
    <3> HIDE DEF k
    <3>2. May(b[k], b[k + 1][1]) BY <3>1, Zenon DEF Shape, Linked, n
    <3>3. s[m + k] = b[k] /\ s[m + (k + 1)] = b[k + 1] BY <1>1, <3>1, Zenon
    <3> QED BY <3>1, <3>2, <3>3, Zenon
  <2> QED BY <1>1, <2>1, <2>2, <2>3
<1>5. ASSUME NEW i \in 1 .. Len(s), NEW j \in 1 .. Len(s), i < j
      PROVE  /\ s[i][1] = "read image" => s[j][1] \notin ImageCalls
             /\ s[i][1] = "kind create" => s[j][1] # "kind create"
  <2>1. CASE i \in 1 .. m /\ j \in 1 .. m
    <3>1. /\ a[i][1] = "read image" => a[j][1] \notin ImageCalls
          /\ a[i][1] = "kind create" => a[j][1] # "kind create"
      BY <1>5, <2>1, Zenon DEF Linked, m
    <3> QED BY <1>1, <2>1, <3>1, Zenon
  <2>2. CASE i \in 1 .. m /\ j - m \in 1 .. n
    <3>1. a[i] \in CallsIn(a) /\ b[j - m] \in CallsIn(b)
      BY <1>1, <2>2, Zenon DEF CallsIn
    <3>2. Later(a[i], b) BY <3>1
    <3>3. m + (j - m) = j BY <1>1, <2>2
    <3>4. s[i] = a[i] /\ s[j] = b[j - m] BY <1>1, <2>2, <3>3, Zenon
    <3> QED BY <3>1, <3>2, <3>4, Zenon DEF Later, Never
  <2>3. CASE i - m \in 1 .. n /\ j - m \in 1 .. n
    <3>1. i - m < j - m /\ m + (i - m) = i /\ m + (j - m) = j BY <1>1, <1>5
    <3>2. /\ b[i - m][1] = "read image" => b[j - m][1] \notin ImageCalls
          /\ b[i - m][1] = "kind create" => b[j - m][1] # "kind create"
      BY <3>1, <2>3, Zenon DEF Shape, Linked, n
    <3>3. s[i] = b[i - m] /\ s[j] = b[j - m] BY <1>1, <2>3, <3>1, Zenon
    <3> QED BY <3>2, <3>3, Zenon
  <2>4. i \in 1 .. m + n /\ j \in 1 .. m + n BY <1>1
  <2>5. ~(i - m \in 1 .. n /\ j \in 1 .. m) BY <1>1, <1>5
  <2>6. i \in 1 .. m \/ i - m \in 1 .. n BY <1>2, <2>4, Zenon
  <2>7. j \in 1 .. m \/ j - m \in 1 .. n BY <1>2, <2>4, Zenon
  <2> QED BY <2>1, <2>2, <2>3, <2>5, <2>6, <2>7, Zenon
<1>6. May(s[Len(s)], "")
  <2>1. CASE n = 0
    <3>1. b = <<>> BY <1>1, <2>1 DEF n
    <3>2. Ahead(b) = "" BY <3>1, Zenon DEF Ahead
    <3>3. s[Len(s)] = a[Len(a)]
      <4>1. m \in 1 .. m /\ m + n = m BY <1>1, <2>1
      <4> QED BY <1>1, <4>1, Zenon DEF m
    <3> QED BY <3>2, <3>3
  <2>2. CASE n # 0
    <3>1. n \in 1 .. n BY <1>1, <2>2
    <3>2. s[m + n] = b[n] BY <1>1, <3>1, Zenon
    <3>3. b # <<>>
      <4>1. SUFFICES ASSUME b = <<>> PROVE FALSE OBVIOUS
      <4>2. Len(<<>>) = 0 OBVIOUS
      <4>3. n = 0 BY <4>1, <4>2, Zenon DEF n
      <4> QED BY <4>3, <2>2
    <3>4. May(b[n], "") BY <3>3, Zenon DEF Shape, n
    <3> QED BY <1>1, <3>2, <3>4, Zenon
  <2> QED BY <2>1, <2>2
<1>7. s # <<>> /\ Ahead(s) = Ahead(a)
  <2>1. Len(<<>>) = 0 OBVIOUS
  <2>2. Len(s) # 0 BY <1>1
  <2>3. s # <<>> BY <2>1, <2>2, Zenon
  <2>4. 1 \in 1 .. m BY <1>1
  <2>5. s[1] = a[1] BY <1>1, <2>4, Zenon
  <2> QED BY <2>3, <2>5, Zenon DEF Ahead
<1>8. Linked(s) BY <1>1, <1>4, <1>5, Zenon DEF Linked
<1>9. Shape(s) BY <1>6, <1>8, Zenon DEF Shape
<1> QED BY <1>3, <1>7, <1>9 DEF s

-----------------------------------------------------------------------------
(* The programs *)

\* A program of one call.
LEMMA One ==
  ASSUME NEW c \in CallSet
  PROVE  /\ Linked(<<c>>) /\ <<c>> # <<>> /\ <<c>>[Len(<<c>>)] = c /\ CallsIn(<<c>>) = {c}
         /\ Ahead(<<c>>) = c[1]
<1>1. <<c>> \in Seq(CallSet) /\ Len(<<c>>) = 1 /\ <<c>>[1] = c /\ <<c>> # <<>>
      /\ DOMAIN <<c>> = 1 .. 1
  OBVIOUS
<1>2. CallsIn(<<c>>) = {c} BY <1>1 DEF CallsIn
<1>3. Ahead(<<c>>) = c[1] BY <1>1 DEF Ahead
<1>4. 1 .. 1 - 1 = {} /\ \A i, j \in 1 .. 1 : ~(i < j) OBVIOUS
<1>5. Linked(<<c>>) BY <1>1, <1>4, Zenon DEF Linked
<1> QED BY <1>1, <1>2, <1>3, <1>5

Fits(c, d) ==
  /\ May(c, d[1])
  /\ c[1] = "read image" => d[1] \notin ImageCalls
  /\ c[1] = "kind create" => d[1] # "kind create"

LEMMA Two ==
  ASSUME NEW c \in CallSet, NEW d \in CallSet, Fits(c, d)
  PROVE  /\ Linked(<<c, d>>) /\ <<c, d>> # <<>> /\ <<c, d>>[Len(<<c, d>>)] = d
         /\ CallsIn(<<c, d>>) = {c, d} /\ Ahead(<<c, d>>) = c[1]
<1> DEFINE s == <<c, d>>
<1>1. s \in Seq(CallSet) /\ Len(s) = 2 /\ s[1] = c /\ s[2] = d /\ s # <<>> /\ DOMAIN s = 1 .. 2
  <2>1. s \in Seq(CallSet) OBVIOUS
  <2>2. Len(s) = 2 /\ s[1] = c /\ s[2] = d OBVIOUS
  <2>3. s # <<>> /\ DOMAIN s = 1 .. 2 OBVIOUS
  <2> QED BY <2>1, <2>2, <2>3
<1>2. 1 .. 2 - 1 = {1} /\ 1 + 1 = 2 /\ 1 .. 2 = {1, 2}
      /\ \A i, j \in 1 .. 2 : i < j => i = 1 /\ j = 2
  <2>1. 1 .. 2 - 1 = {1} OBVIOUS
  <2>2. 1 + 1 = 2 OBVIOUS
  <2>3. 1 .. 2 = {1, 2} OBVIOUS
  <2>4. \A i, j \in 1 .. 2 : i < j => i = 1 /\ j = 2 OBVIOUS
  <2> QED BY <2>1, <2>2, <2>3, <2>4
<1> HIDE DEF s
<1>3. CallsIn(s) = {c, d} BY <1>1, <1>2 DEF CallsIn
<1>4. Ahead(s) = c[1] BY <1>1 DEF Ahead
<1>5. \A i \in 1 .. Len(s) - 1 : May(s[i], s[i + 1][1])
  BY <1>1, <1>2, Zenon DEF Fits
<1>6. \A i, j \in 1 .. Len(s) : i < j =>
       /\ s[i][1] = "read image" => s[j][1] \notin ImageCalls
       /\ s[i][1] = "kind create" => s[j][1] # "kind create"
  BY <1>1, <1>2, Zenon DEF Fits
<1>7. Linked(s) BY <1>1, <1>5, <1>6 DEF Linked
<1> QED BY <1>1, <1>3, <1>4, <1>7 DEF s

SetupNames == {"read current", "export", "alias", "restore", "export own", "look at own",
               "rename own", "delete own", "use own"}

LEMMA NameOf == \A n : <<n>>[1] = n
  OBVIOUS

LEMMA SetupLinked ==
  /\ Linked(Setup) /\ Setup # <<>> /\ Setup[Len(Setup)] = <<"use own">>
  /\ (\A c \in CallsIn(Setup) : c[1] \in SetupNames) /\ Ahead(Setup) = "read current"
<1> DEFINE s == Setup
<1>1. Len(s) = 7 /\ DOMAIN s = 1 .. 7 /\ s # <<>> BY DEF Setup
<1>2. /\ s[1] = <<"read current">> /\ s[2] = <<"export">> /\ s[3] = <<"alias">>
      /\ s[4] = <<"restore">> /\ s[5] = <<"export own">> /\ s[6] = <<"look at own">>
      /\ s[7] = <<"use own">>
  BY DEF Setup
<1>3. \A name \in SetupNames : <<name>> \in CallSet BY DEF SetupNames, CallSet, CallNames
<1>4. s \in Seq(CallSet)
  <2>1. \A a, b, c, d, e, f, g \in CallSet : <<a, b, c, d, e, f, g>> \in Seq(CallSet)
    OBVIOUS
  <2>2. /\ <<"read current">> \in CallSet
        /\ <<"export">> \in CallSet
        /\ <<"alias">> \in CallSet
        /\ <<"restore">> \in CallSet
        /\ <<"export own">> \in CallSet
        /\ <<"look at own">> \in CallSet
        /\ <<"use own">> \in CallSet
    BY <1>3, Zenon DEF SetupNames
  <2> QED BY <2>1, <2>2, Zenon DEF Setup
<1>5. 1 .. 7 = {1, 2, 3, 4, 5, 6, 7} /\ 1 .. 7 - 1 = {1, 2, 3, 4, 5, 6}
  <2>1. 1 .. 7 = {1, 2, 3, 4, 5, 6, 7} OBVIOUS
  <2>2. 1 .. 7 - 1 = {1, 2, 3, 4, 5, 6} OBVIOUS
  <2> QED BY <2>1, <2>2
<1> HIDE DEF s
<1>6. \A i \in 1 .. 7 : s[i][1] \in SetupNames
  <2>1. /\ s[1][1] = "read current"
        /\ s[2][1] = "export"
        /\ s[3][1] = "alias"
        /\ s[4][1] = "restore"
        /\ s[5][1] = "export own"
        /\ s[6][1] = "look at own"
        /\ s[7][1] = "use own"
    BY <1>2, NameOf, Zenon
  <2> QED BY <1>5, <2>1, Zenon DEF SetupNames
<1>7. \A i \in 1 .. Len(s) - 1 : May(s[i], s[i + 1][1])
  <2>0. /\ s[2][1] = "export"
        /\ s[3][1] = "alias"
        /\ s[4][1] = "restore"
        /\ s[5][1] = "export own"
        /\ s[6][1] = "look at own"
        /\ s[7][1] = "use own"
    BY <1>2, NameOf, Zenon
  <2>1. /\ May(<<"read current">>, "export")
        /\ May(<<"export">>, "alias")
        /\ May(<<"alias">>, "restore")
        /\ May(<<"restore">>, "export own")
        /\ May(<<"export own">>, "look at own")
        /\ May(<<"look at own">>, "use own")
    BY DEF May
  <2>2. 1 + 1 = 2 /\ 2 + 1 = 3 /\ 3 + 1 = 4 /\ 4 + 1 = 5 /\ 5 + 1 = 6 /\ 6 + 1 = 7
    OBVIOUS
  <2>3. /\ May(s[1], s[2][1])
        /\ May(s[2], s[3][1])
        /\ May(s[3], s[4][1])
        /\ May(s[4], s[5][1])
        /\ May(s[5], s[6][1])
        /\ May(s[6], s[7][1])
    BY <1>2, <2>0, <2>1, Zenon
  <2> QED BY <1>1, <1>5, <2>2, <2>3, Zenon
<1>8. \A i, j \in 1 .. Len(s) : i < j =>
       /\ s[i][1] = "read image" => s[j][1] \notin ImageCalls
       /\ s[i][1] = "kind create" => s[j][1] # "kind create"
  BY <1>1, <1>6, Zenon DEF SetupNames
<1>9. \A c \in CallsIn(s) : c[1] \in SetupNames
  BY <1>1, <1>6, Zenon DEF CallsIn
<1>10. Linked(s) BY <1>1, <1>4, <1>7, <1>8, Zenon DEF Linked, s
<1>11. Ahead(s) = "read current" BY <1>1, <1>2, NameOf, Zenon DEF Ahead
<1> QED BY <1>1, <1>2, <1>9, <1>10, <1>11, Zenon DEF s
Only(s, names) == \A c \in CallsIn(s) : c[1] \in names

LEMMA Assoc ==
  ASSUME NEW a \in Seq(CallSet), NEW b \in Seq(CallSet), NEW c \in Seq(CallSet)
  PROVE  (a \o b) \o c = a \o (b \o c) /\ a \o b \in Seq(CallSet) /\ a \o <<>> = a
  OBVIOUS

LEMMA EmptyShape == Shape(<<>>) /\ Ahead(<<>>) = "" /\ CallsIn(<<>>) = {} /\ <<>> \in Seq(CallSet)
<1>1. Len(<<>>) = 0 /\ <<>> \in Seq(CallSet) /\ DOMAIN <<>> = {} OBVIOUS
<1>2. 1 .. 0 - 1 = {} /\ 1 .. 0 = {} OBVIOUS
<1>3. Linked(<<>>) BY <1>1, <1>2, Zenon DEF Linked
<1>4. CallsIn(<<>>) = {} BY <1>1, Zenon DEF CallsIn
<1> QED BY <1>1, <1>3, <1>4, Zenon DEF Shape, Ahead

LEMMA CallThen ==
  ASSUME NEW c \in CallSet, NEW b, Shape(b), May(c, Ahead(b)), Later(c, b)
  PROVE  /\ Shape(<<c>> \o b) /\ <<c>> \o b # <<>> /\ Ahead(<<c>> \o b) = c[1]
         /\ CallsIn(<<c>> \o b) = {c} \cup CallsIn(b)
<1>1. \A d \in CallsIn(<<c>>) : Later(d, b) BY One, Zenon
<1>2. May(<<c>>[Len(<<c>>)], Ahead(b)) BY One, Zenon
<1>3. Linked(<<c>>) /\ <<c>> # <<>> /\ CallsIn(<<c>>) = {c} /\ Ahead(<<c>>) = c[1]
  BY One, Zenon
<1>4. /\ Shape(<<c>> \o b) /\ <<c>> \o b # <<>> /\ Ahead(<<c>> \o b) = Ahead(<<c>>)
      /\ CallsIn(<<c>> \o b) = CallsIn(<<c>>) \cup CallsIn(b)
  BY Join, <1>1, <1>2, <1>3, Zenon
<1> QED BY <1>3, <1>4, Zenon

LEMMA SetupThen ==
  ASSUME NEW b, Shape(b),
         Ahead(b) \in {"save image", "read image", "helm at lab", "get", "find again", ""}
  PROVE  /\ Shape(Setup \o b) /\ Setup \o b # <<>> /\ Ahead(Setup \o b) = "read current"
         /\ CallsIn(Setup \o b) = CallsIn(Setup) \cup CallsIn(b)
<1>1. \A c \in CallsIn(Setup) : Later(c, b) BY SetupLinked, Zenon DEF Later, SetupNames
<1>2. May(<<"use own">>, Ahead(b)) BY DEF May
<1>3. May(Setup[Len(Setup)], Ahead(b)) BY <1>2, SetupLinked, Zenon
<1> QED BY SetupLinked, Join, <1>1, <1>3, Zenon

InstallNames == SetupNames \cup
  {"cluster exists", "read image", "helm install", "apply assets", "wait for scrape"}
CreateNames == SetupNames \cup
  {"fetch image", "look for cluster", "kind create", "load image", "save image",
   "wait for nodes"}

LEMMA CallsAreCalls ==
  /\ \A name \in CallNames : <<name>> \in CallSet
  /\ \A c \in Components : <<"helm install", c>> \in CallSet /\ <<"helm uninstall", c>> \in CallSet
  /\ \A n \in STRING \cup {Alias} :
       /\ <<"find", n>> \in CallSet /\ <<"find again", n>> \in CallSet
                       /\ <<"use", n>> \in CallSet
  /\ \A args \in Seq(STRING) : /\ <<"helm at lab", args>> \in CallSet
                               /\ <<"helm at current", args>> \in CallSet
  BY DEF CallSet

LEMMA PairIs ==
  ASSUME NEW p \in CallSet, NEW q \in CallSet, NEW e \in Seq(CallSet)
  PROVE  <<p, q>> \o e = <<p>> \o (<<q>> \o e)
<1>1. <<p, q>> = <<p>> \o <<q>>
  <2> DEFINE r == <<p>> \o <<q>> s == <<p, q>>
  <2>1. r \in Seq(CallSet) /\ s \in Seq(CallSet) OBVIOUS
  <2>2. Len(r) = 2 /\ r[1] = p /\ r[2] = q OBVIOUS
  <2>3. Len(s) = 2 /\ s[1] = p /\ s[2] = q OBVIOUS
  <2>4. 1 .. 2 = {1, 2} OBVIOUS
  <2> HIDE DEF r, s
  <2>5. \A i \in 1 .. Len(s) : s[i] = r[i] BY <2>2, <2>3, <2>4
  <2>6. s = r BY <2>1, <2>2, <2>3, <2>5, SeqEqual, Zenon
  <2> QED BY <2>6 DEF r, s
<1>2. <<p>> \in Seq(CallSet) /\ <<q>> \in Seq(CallSet) OBVIOUS
<1>3. (<<p>> \o <<q>>) \o e = <<p>> \o (<<q>> \o e)
  <2> DEFINE r == <<p>> s == <<q>>
  <2>1. r \in Seq(CallSet) /\ s \in Seq(CallSet) BY <1>2
  <2> HIDE DEF r, s
  <2>2. (r \o s) \o e = r \o (s \o e) BY <2>1, Assoc
  <2> QED BY <2>2 DEF r, s
<1> QED BY <1>1, <1>3, Zenon

PairFits(p, q, e) == Fits(p, q) /\ May(q, Ahead(e)) /\ Later(p, e) /\ Later(q, e)

LEMMA PairThen ==
  ASSUME NEW p \in CallSet, NEW q \in CallSet, NEW e, Shape(e), PairFits(p, q, e)
  PROVE  /\ Shape(<<p, q>> \o e) /\ <<p, q>> \o e # <<>> /\ Ahead(<<p, q>> \o e) = p[1]
         /\ \A x : x \in CallsIn(<<p, q>> \o e) <=> x = p \/ x = q \/ x \in CallsIn(e)
<1> DEFINE s == <<q>> \o e
<1>1. Shape(s) /\ s # <<>> /\ Ahead(s) = q[1] /\ CallsIn(s) = {q} \cup CallsIn(e)
  BY CallThen, Zenon DEF PairFits
<1> HIDE DEF s
<1>2. May(p, Ahead(s)) BY <1>1, Zenon DEF PairFits, Fits
<1>3. Later(p, s) BY <1>1, Zenon DEF PairFits, Fits, Later, Never
<1>4. /\ Shape(<<p>> \o s) /\ <<p>> \o s # <<>> /\ Ahead(<<p>> \o s) = p[1]
      /\ CallsIn(<<p>> \o s) = {p} \cup CallsIn(s)
  BY <1>1, <1>2, <1>3, CallThen, Zenon
<1>5. e \in Seq(CallSet) BY Zenon DEF Shape, Linked
<1>6. <<p, q>> \o e = <<p>> \o s BY <1>5, PairIs, Zenon DEF s
<1> QED BY <1>1, <1>4, <1>6, Zenon

LEMMA SetupNever == Only(Setup, SetupNames) /\ Setup \in Seq(CallSet)
  BY SetupLinked, Zenon DEF Only, Linked

LEMMA PairOfCalls == \A c, d \in CallSet : <<c, d>> \in Seq(CallSet) /\ <<c>> \in Seq(CallSet)
  OBVIOUS
LEMMA PairNames == \A n, c : <<n, c>>[1] = n /\ <<n, c>>[2] = c
  OBVIOUS

Ends(c) == IF c = Monitoring THEN << <<"apply assets">>, <<"wait for scrape">> >> ELSE <<>>

LEMMA Concat ==
  ASSUME NEW a \in Seq(CallSet), NEW b \in Seq(CallSet)
  PROVE  a \o b \in Seq(CallSet)
  OBVIOUS

LEMMA EmptyFirst == ASSUME NEW b \in Seq(CallSet) PROVE <<>> \o b = b
  OBVIOUS

LEMMA InstallIs ==
  ASSUME NEW c \in Components, NEW b \in Seq(CallSet)
  PROVE  /\ Install(c) \in Seq(CallSet)
         /\ Install(c) \o b = << <<"cluster exists">> >> \o (Setup \o
              (<< <<"read image">>, <<"helm install", c>> >> \o (Ends(c) \o b)))
<1> DEFINE x == << <<"cluster exists">> >> y == Setup
           z == << <<"read image">>, <<"helm install", c>> >>  e == Ends(c)
<1>1. x \in Seq(CallSet) /\ y \in Seq(CallSet) /\ z \in Seq(CallSet) /\ e \in Seq(CallSet)
  <2>1. /\ <<"cluster exists">> \in CallSet /\ <<"read image">> \in CallSet
        /\ <<"helm install", c>> \in CallSet /\ <<"apply assets">> \in CallSet
        /\ <<"wait for scrape">> \in CallSet
    BY CallsAreCalls, Zenon DEF CallNames
  <2>2. x \in Seq(CallSet) /\ z \in Seq(CallSet) BY <2>1, PairOfCalls, Zenon
  <2>3. e \in Seq(CallSet)
    BY <2>1, PairOfCalls, EmptyShape, Zenon DEF Ends
  <2> QED BY <2>2, <2>3, SetupNever, Zenon
<1>2. Install(c) = ((x \o y) \o z) \o e BY DEF Install, Ends
<1> HIDE DEF x, y, z, e
<1>3. x \o y \in Seq(CallSet) /\ (x \o y) \o z \in Seq(CallSet) BY <1>1, Concat, Zenon
<1>4. Install(c) \in Seq(CallSet) BY <1>1, <1>2, <1>3, Concat, Zenon
<1>5. (((x \o y) \o z) \o e) \o b = ((x \o y) \o z) \o (e \o b)
  <2> DEFINE u == (x \o y) \o z
  <2>1. u \in Seq(CallSet) /\ e \in Seq(CallSet) /\ b \in Seq(CallSet)
    BY <1>1, <1>3, Zenon
  <2> HIDE DEF u
  <2>2. (u \o e) \o b = u \o (e \o b) BY <2>1, Assoc
  <2> QED BY <2>2, Zenon DEF u
<1>6. e \o b \in Seq(CallSet) BY <1>1, Concat, Zenon
<1>7. ((x \o y) \o z) \o (e \o b) = (x \o y) \o (z \o (e \o b))
  <2> DEFINE p == x \o y q == e \o b
  <2>1. p \in Seq(CallSet) /\ q \in Seq(CallSet) /\ z \in Seq(CallSet)
    BY <1>1, <1>3, <1>6, Zenon
  <2> HIDE DEF p, q
  <2>2. (p \o z) \o q = p \o (z \o q) BY <2>1, Assoc
  <2> QED BY <2>2 DEF p, q
<1>8. z \o (e \o b) \in Seq(CallSet) BY <1>1, <1>6, Concat, Zenon
<1>9. (x \o y) \o (z \o (e \o b)) = x \o (y \o (z \o (e \o b)))
  <2> DEFINE q == z \o (e \o b)
  <2>1. q \in Seq(CallSet) BY <1>8, Zenon
  <2> HIDE DEF q
  <2>2. x \in Seq(CallSet) /\ y \in Seq(CallSet) BY <1>1, Zenon
  <2>3. (x \o y) \o q = x \o (y \o q) BY <2>1, <2>2, Assoc
  <2> QED BY <2>3 DEF q
<1> QED BY <1>2, <1>4, <1>5, <1>7, <1>9, Zenon DEF x, y, z, e

LEMMA InstallThen ==
  ASSUME NEW c \in Components, NEW b, Shape(b), Never(b, ImageCalls),
         IF c = Monitoring THEN b = <<>> ELSE Ahead(b) \in {"cluster exists", ""}
  PROVE  /\ Shape(Install(c) \o b) /\ Install(c) \o b # <<>>
         /\ Ahead(Install(c) \o b) = "cluster exists"
         /\ <<"helm install", c>> \in CallsIn(Install(c) \o b)
         /\ CallsIn(b) \subseteq CallsIn(Install(c) \o b)
         /\ \A x \in CallsIn(Install(c) \o b) : x[1] \in InstallNames \/ x \in CallsIn(b)
<1> DEFINE e == Ends(c) \o b
           z == << <<"read image">>, <<"helm install", c>> >> \o e
           y == Setup \o z
           s == << <<"cluster exists">> >> \o y
<1>0. /\ <<"cluster exists">> \in CallSet /\ <<"read image">> \in CallSet
      /\ <<"helm install", c>> \in CallSet /\ <<"apply assets">> \in CallSet
      /\ <<"wait for scrape">> \in CallSet
  BY CallsAreCalls, Zenon DEF CallNames
<1>1. /\ Shape(e) /\ May(<<"helm install", c>>, Ahead(e)) /\ Never(e, ImageCalls)
      /\ CallsIn(b) \subseteq CallsIn(e)
      /\ \A x \in CallsIn(e) : x[1] \in InstallNames \/ x \in CallsIn(b)
  <2>1. CASE c = Monitoring
    <3>1. b = <<>> /\ Ends(c) = << <<"apply assets">>, <<"wait for scrape">> >>
      BY <2>1, Zenon DEF Ends
    <3>2. Fits(<<"apply assets">>, <<"wait for scrape">>) /\ May(<<"wait for scrape">>, "")
      BY DEF Fits, May
    <3>3. Later(<<"apply assets">>, b) /\ Later(<<"wait for scrape">>, b)
      BY NameOf, Zenon DEF Later
    <3>4. /\ Shape(e) /\ Ahead(e) = "apply assets"
          /\ \A x : x \in CallsIn(e) <=>
               x = <<"apply assets">> \/ x = <<"wait for scrape">> \/ x \in CallsIn(b)
      <4>1. Shape(b) /\ May(<<"wait for scrape">>, Ahead(b)) BY <3>1, <3>2, EmptyShape, Zenon
      <4>2. /\ Shape(e) /\ Ahead(e) = <<"apply assets">>[1]
            /\ \A x : x \in CallsIn(e) <=>
               x = <<"apply assets">> \/ x = <<"wait for scrape">> \/ x \in CallsIn(b)
        <5> DEFINE p == <<"apply assets">> q == <<"wait for scrape">>
        <5>1. /\ p \in CallSet /\ q \in CallSet /\ Fits(p, q) /\ Shape(b)
              /\ May(q, Ahead(b)) /\ Later(p, b) /\ Later(q, b)
          BY <1>0, <3>2, <3>3, <4>1, Zenon
        <5> HIDE DEF p, q
        <5>2. /\ Shape(<<p, q>> \o b) /\ Ahead(<<p, q>> \o b) = p[1]
              /\ \A x : x \in CallsIn(<<p, q>> \o b) <=> x = p \/ x = q \/ x \in CallsIn(b)
          <6>1. PairFits(p, q, b) BY <5>1, Zenon DEF PairFits
          <6>2. Shape(<<p, q>> \o b) BY <5>1, <6>1, PairThen, Zenon
          <6>3. Ahead(<<p, q>> \o b) = p[1] BY <5>1, <6>1, PairThen, Zenon
          <6>4. \A x : x \in CallsIn(<<p, q>> \o b) <=> x = p \/ x = q \/ x \in CallsIn(b)
            BY <5>1, <6>1, PairThen, Zenon
          <6> QED BY <6>2, <6>3, <6>4
        <5> QED BY <3>1, <5>2, Zenon DEF p, q
      <4> QED BY <4>2, NameOf, Zenon
    <3>5. May(<<"helm install", c>>, "apply assets") BY <2>1 DEF May
    <3>6. \A x \in CallsIn(e) : x[1] \in InstallNames \/ x \in CallsIn(b)
      BY <3>4, NameOf, Zenon DEF InstallNames
    <3>7. Never(e, ImageCalls)
      BY <3>4, NameOf, Zenon DEF Never, ImageCalls
    <3> QED BY <3>4, <3>5, <3>6, <3>7, Zenon
  <2>2. CASE c # Monitoring
    <3>1. e = b /\ Ends(c) = <<>>
      <4>1. Ends(c) = <<>> BY <2>2, Zenon DEF Ends
      <4>2. b \in Seq(CallSet) BY Zenon DEF Shape, Linked
      <4>3. <<>> \o b = b BY <4>2, EmptyFirst, Zenon
      <4> QED BY <4>1, <4>3, Zenon
    <3>2. Ahead(b) \in {"cluster exists", ""} BY <2>2, Zenon
    <3>3. May(<<"helm install", c>>, Ahead(b)) BY <2>2, <3>2 DEF May
    <3> QED BY <3>1, <3>3, Zenon
  <2> QED BY <2>1, <2>2
<1> HIDE DEF e
<1>2. /\ Shape(z) /\ Ahead(z) = "read image"
      /\ \A x : x \in CallsIn(z) <=>
           x = <<"read image">> \/ x = <<"helm install", c>> \/ x \in CallsIn(e)
  <2>1. Fits(<<"read image">>, <<"helm install", c>>) BY DEF Fits, May, ImageCalls
  <2>2. Later(<<"read image">>, e) /\ Later(<<"helm install", c>>, e)
    BY <1>1, NameOf, PairNames, Zenon DEF Later
  <2>3. /\ Shape(z) /\ Ahead(z) = <<"read image">>[1]
        /\ \A x : x \in CallsIn(z) <=>
           x = <<"read image">> \/ x = <<"helm install", c>> \/ x \in CallsIn(e)
    <3> DEFINE p == <<"read image">> q == <<"helm install", c>>
    <3>1. /\ p \in CallSet /\ q \in CallSet /\ Fits(p, q) /\ Shape(e) /\ May(q, Ahead(e))
          /\ Later(p, e) /\ Later(q, e)
      BY <1>0, <1>1, <2>1, <2>2, Zenon
    <3> HIDE DEF p, q
    <3>2. /\ Shape(<<p, q>> \o e) /\ Ahead(<<p, q>> \o e) = p[1]
          /\ \A x : x \in CallsIn(<<p, q>> \o e) <=> x = p \/ x = q \/ x \in CallsIn(e)
      <4>1. PairFits(p, q, e) BY <3>1, Zenon DEF PairFits
      <4>2. Shape(<<p, q>> \o e) BY <3>1, <4>1, PairThen, Zenon
      <4>3. Ahead(<<p, q>> \o e) = p[1] BY <3>1, <4>1, PairThen, Zenon
      <4>4. \A x : x \in CallsIn(<<p, q>> \o e) <=> x = p \/ x = q \/ x \in CallsIn(e)
        BY <3>1, <4>1, PairThen, Zenon
      <4> QED BY <4>2, <4>3, <4>4
    <3> QED BY <3>2, Zenon DEF p, q
  <2> QED BY <2>3, NameOf, Zenon
<1> HIDE DEF z
<1>3. Shape(y) /\ Ahead(y) = "read current" /\ CallsIn(y) = CallsIn(Setup) \cup CallsIn(z)
  BY <1>2, SetupThen, Zenon
<1> HIDE DEF y
<1>4. /\ Shape(s) /\ s # <<>> /\ Ahead(s) = "cluster exists"
      /\ CallsIn(s) = {<<"cluster exists">>} \cup CallsIn(y)
  <2>1. May(<<"cluster exists">>, "read current") /\ Later(<<"cluster exists">>, y)
    BY DEF May, Later
  <2>2. May(<<"cluster exists">>, Ahead(y)) BY <1>3, <2>1, Zenon
  <2>3. /\ Shape(s) /\ s # <<>> /\ Ahead(s) = <<"cluster exists">>[1]
        /\ CallsIn(s) = {<<"cluster exists">>} \cup CallsIn(y)
    BY <1>0, <1>3, <2>1, <2>2, CallThen, Zenon
  <2> QED BY <2>3, NameOf, Zenon
<1>5. s = Install(c) \o b
  <2>1. b \in Seq(CallSet) BY Zenon DEF Shape, Linked
  <2> QED BY <2>1, InstallIs, Zenon DEF e, y, z
<1> HIDE DEF s
<1>6. \A x \in CallsIn(s) : x[1] \in InstallNames \/ x \in CallsIn(b)
  <2>1. \A x \in CallsIn(Setup) : x[1] \in InstallNames
    BY SetupNever, Zenon DEF Only, InstallNames
  <2>2. <<"cluster exists">>[1] \in InstallNames /\ <<"read image">>[1] \in InstallNames
        /\ <<"helm install", c>>[1] \in InstallNames
    BY NameOf, PairNames, Zenon DEF InstallNames
  <2> QED BY <1>1, <1>2, <1>3, <1>4, <2>1, <2>2, Zenon
<1>7. <<"helm install", c>> \in CallsIn(s) /\ CallsIn(b) \subseteq CallsIn(s)
  BY <1>1, <1>2, <1>3, <1>4, Zenon
<1> QED BY <1>4, <1>5, <1>6, <1>7, Zenon

LEMMA ConcatAt ==
  ASSUME NEW a \in Seq(CallSet), NEW b \in Seq(CallSet)
  PROVE  /\ Len(a \o b) = Len(a) + Len(b)
         /\ \A i \in 1 .. Len(a) : (a \o b)[i] = a[i]
         /\ \A i \in 1 .. Len(b) : (a \o b)[Len(a) + i] = b[i]
  OBVIOUS

Halved(p, q, p2, q2, e) == <<p, q, p2, q2>> \o e = <<p, q>> \o (<<p2, q2>> \o e)

LEMMA FourIs ==
  ASSUME NEW p \in CallSet, NEW q \in CallSet, NEW p2 \in CallSet, NEW q2 \in CallSet,
         NEW e \in Seq(CallSet)
  PROVE  Halved(p, q, p2, q2, e)
<1> DEFINE s == <<p, q, p2, q2>> a == <<p, q>> b == <<p2, q2>> r == a \o b
<1>1. s \in Seq(CallSet) /\ Len(s) = 4 /\ s[1] = p /\ s[2] = q /\ s[3] = p2 /\ s[4] = q2
  <2>1. s \in Seq(CallSet) OBVIOUS
  <2>2. Len(s) = 4 /\ s[1] = p /\ s[2] = q /\ s[3] = p2 /\ s[4] = q2 OBVIOUS
  <2> QED BY <2>1, <2>2
<1>2. /\ a \in Seq(CallSet) /\ Len(a) = 2 /\ a[1] = p /\ a[2] = q
  <2>1. a \in Seq(CallSet) OBVIOUS
  <2>2. Len(a) = 2 /\ a[1] = p /\ a[2] = q OBVIOUS
  <2> QED BY <2>1, <2>2
<1>3. /\ b \in Seq(CallSet) /\ Len(b) = 2 /\ b[1] = p2 /\ b[2] = q2
  <2>1. b \in Seq(CallSet) OBVIOUS
  <2>2. Len(b) = 2 /\ b[1] = p2 /\ b[2] = q2 OBVIOUS
  <2> QED BY <2>1, <2>2
<1> HIDE DEF s, a, b
<1>4. /\ r \in Seq(CallSet) /\ Len(r) = 4 /\ r[1] = p /\ r[2] = q
      /\ r[3] = p2 /\ r[4] = q2
  <2>1. r \in Seq(CallSet) BY <1>2, <1>3
  <2>2. Len(r) = Len(a) + Len(b) BY <1>2, <1>3, ConcatAt, Zenon DEF r
  <2>3. \A i \in 1 .. Len(a) : r[i] = a[i] BY <1>2, <1>3, ConcatAt, Zenon DEF r
  <2>4. \A i \in 1 .. Len(b) : r[Len(a) + i] = b[i] BY <1>2, <1>3, ConcatAt, Zenon DEF r
  <2> HIDE DEF r
  <2>5. Len(r) = 4 BY <1>2, <1>3, <2>2
  <2>6. r[1] = p /\ r[2] = q BY <1>2, <2>3
  <2>7. r[2 + 1] = b[1] /\ r[2 + 2] = b[2] BY <1>2, <1>3, <2>4
  <2>8. r[3] = p2 /\ r[4] = q2 BY <1>3, <2>7
  <2> QED BY <2>1, <2>5, <2>6, <2>8
<1> HIDE DEF r
<1>5. 1 .. 4 = {1, 2, 3, 4} OBVIOUS
<1>6. \A i \in 1 .. Len(s) : s[i] = r[i] BY <1>1, <1>4, <1>5
<1>7. s = r BY <1>1, <1>4, <1>6, SeqEqual, Zenon
<1>8. (a \o b) \o e = a \o (b \o e) BY <1>2, <1>3, Assoc
<1> QED BY <1>7, <1>8, Zenon DEF s, a, b, r, Halved

LEMMA CreateIs ==
  ASSUME NEW b \in Seq(CallSet)
  PROVE  /\ Create \in Seq(CallSet)
         /\ Create \o b = << <<"fetch image">>, <<"look for cluster">> >> \o (
              << <<"kind create">>, <<"load image">> >> \o (Setup \o (
                << <<"save image">>, <<"wait for nodes">> >> \o b)))
<1> DEFINE w == << <<"fetch image">>, <<"look for cluster">>, <<"kind create">>,
                   <<"load image">> >>
           y == Setup
           z == << <<"save image">>, <<"wait for nodes">> >>
<1>1. /\ <<"fetch image">> \in CallSet /\ <<"look for cluster">> \in CallSet
      /\ <<"kind create">> \in CallSet /\ <<"load image">> \in CallSet
      /\ <<"save image">> \in CallSet /\ <<"wait for nodes">> \in CallSet
  BY CallsAreCalls, Zenon DEF CallNames
<1>2. \A p, q, p2, q2 \in CallSet : <<p, q, p2, q2>> \in Seq(CallSet) OBVIOUS
<1>3. w \in Seq(CallSet) /\ y \in Seq(CallSet) /\ z \in Seq(CallSet)
  BY <1>1, <1>2, PairOfCalls, SetupNever, Zenon
<1>4. Create = (w \o y) \o z BY DEF Create
<1> HIDE DEF y
<1>5. z \o b \in Seq(CallSet) /\ w \o y \in Seq(CallSet) BY <1>3, Concat, Zenon
<1>6. Create \in Seq(CallSet) BY <1>3, <1>4, <1>5, Concat, Zenon
<1>7. Create \o b = w \o (y \o (z \o b))
  <2> DEFINE w1 == w z1 == z q == z1 \o b
  <2>1. w1 \in Seq(CallSet) /\ z1 \in Seq(CallSet) BY <1>3, Zenon
  <2> HIDE DEF w1, z1
  <2>2. w1 \o y \in Seq(CallSet) BY <2>1, <1>3, Concat, Zenon
  <2>3. q \in Seq(CallSet) BY <2>1, Concat, Zenon
  <2>4. ((w1 \o y) \o z1) \o b = (w1 \o y) \o q
    <3> DEFINE v == w1 \o y
    <3>1. v \in Seq(CallSet) BY <2>2
    <3> HIDE DEF v
    <3>2. (v \o z1) \o b = v \o (z1 \o b) BY <2>1, <3>1, Assoc
    <3> QED BY <3>2 DEF v
  <2> HIDE DEF q
  <2>0. y \in Seq(CallSet) BY <1>3, Zenon
  <2>5. (w1 \o y) \o q = w1 \o (y \o q) BY <2>0, <2>1, <2>3, Assoc
  <2> QED BY <1>4, <2>4, <2>5, Zenon DEF w1, z1, q
<1>8. y \o (z \o b) \in Seq(CallSet) BY <1>3, <1>5, Concat, Zenon
<1>9. w \o (y \o (z \o b)) = << <<"fetch image">>, <<"look for cluster">> >> \o (
              << <<"kind create">>, <<"load image">> >> \o (y \o (z \o b)))
  <2> DEFINE p == <<"fetch image">> q == <<"look for cluster">>
             p2 == <<"kind create">> q2 == <<"load image">> e == y \o (z \o b)
  <2>1. /\ p \in CallSet /\ q \in CallSet /\ p2 \in CallSet /\ q2 \in CallSet
        /\ e \in Seq(CallSet)
    BY <1>1, <1>8, Zenon
  <2> HIDE DEF p, q, p2, q2, e
  <2>2. Halved(p, q, p2, q2, e) BY <2>1, FourIs, Zenon
  <2> QED BY <2>2, Zenon DEF Halved, p, q, p2, q2, e
<1> QED BY <1>6, <1>7, <1>9, Zenon DEF y

LEMMA CreateThen ==
  ASSUME NEW b, Shape(b), Never(b, ImageCalls), Ahead(b) \in {"cluster exists", ""}
  PROVE  /\ Shape(Create \o b) /\ Create \o b # <<>>
         /\ Ahead(Create \o b) = "fetch image"
         /\ <<"save image">> \in CallsIn(Create \o b)
         /\ <<"load image">> \in CallsIn(Create \o b)
         /\ CallsIn(b) \subseteq CallsIn(Create \o b)
         /\ \A x \in CallsIn(Create \o b) : x[1] \in CreateNames \/ x \in CallsIn(b)
<1> DEFINE p == <<"save image">>  q == <<"wait for nodes">>  z == <<p, q>> \o b
           y == Setup \o z
           p2 == <<"kind create">>  q2 == <<"load image">>  x == <<p2, q2>> \o y
           p3 == <<"fetch image">>  q3 == <<"look for cluster">>  s == <<p3, q3>> \o x
<1>0. /\ p \in CallSet /\ q \in CallSet /\ p2 \in CallSet /\ q2 \in CallSet
      /\ p3 \in CallSet /\ q3 \in CallSet
  BY CallsAreCalls, Zenon DEF CallNames
<1>1. /\ p[1] = "save image" /\ q[1] = "wait for nodes" /\ p2[1] = "kind create"
      /\ q2[1] = "load image" /\ p3[1] = "fetch image" /\ q3[1] = "look for cluster"
  BY NameOf, Zenon
<1>2. b \in Seq(CallSet) BY Zenon DEF Shape, Linked
<1>3. s = Create \o b BY <1>2, CreateIs, Zenon
<1> HIDE DEF p, q, p2, q2, p3, q3
<1>4. PairFits(p, q, b)
  BY <1>1, Zenon DEF PairFits, Fits, May, Later
<1>5. /\ Shape(z) /\ Ahead(z) = p[1]
      /\ \A c : c \in CallsIn(z) <=> c = p \/ c = q \/ c \in CallsIn(b)
  <2>1. Shape(z) BY <1>0, <1>4, PairThen, Zenon
  <2>2. Ahead(z) = p[1] BY <1>0, <1>4, PairThen, Zenon
  <2>3. \A c : c \in CallsIn(z) <=> c = p \/ c = q \/ c \in CallsIn(b)
    BY <1>0, <1>4, PairThen, Zenon
  <2> QED BY <2>1, <2>2, <2>3
<1> HIDE DEF z
<1>6. Shape(y) /\ Ahead(y) = "read current" /\ CallsIn(y) = CallsIn(Setup) \cup CallsIn(z)
  BY <1>1, <1>5, SetupThen, Zenon
<1> HIDE DEF y
<1>7. Never(y, {"kind create"})
  <2>1. Never(Setup, {"kind create"}) BY SetupNever, Zenon DEF Only, Never, SetupNames
  <2> QED BY <1>1, <1>5, <1>6, <2>1, Zenon DEF Never, ImageCalls
<1>8. PairFits(p2, q2, y)
  BY <1>1, <1>6, <1>7, Zenon DEF PairFits, Fits, May, Later
<1>9. /\ Shape(x) /\ Ahead(x) = p2[1]
      /\ \A c : c \in CallsIn(x) <=> c = p2 \/ c = q2 \/ c \in CallsIn(y)
  <2>1. Shape(x) BY <1>0, <1>6, <1>8, PairThen, Zenon
  <2>2. Ahead(x) = p2[1] BY <1>0, <1>6, <1>8, PairThen, Zenon
  <2>3. \A c : c \in CallsIn(x) <=> c = p2 \/ c = q2 \/ c \in CallsIn(y)
    BY <1>0, <1>6, <1>8, PairThen, Zenon
  <2> QED BY <2>1, <2>2, <2>3
<1> HIDE DEF x
<1>10. PairFits(p3, q3, x)
  BY <1>1, <1>9, Zenon DEF PairFits, Fits, May, Later
<1>11. /\ Shape(s) /\ s # <<>> /\ Ahead(s) = p3[1]
       /\ \A c : c \in CallsIn(s) <=> c = p3 \/ c = q3 \/ c \in CallsIn(x)
  <2>1. Shape(s) /\ s # <<>> BY <1>0, <1>9, <1>10, PairThen, Zenon
  <2>2. Ahead(s) = p3[1] BY <1>0, <1>9, <1>10, PairThen, Zenon
  <2>3. \A c : c \in CallsIn(s) <=> c = p3 \/ c = q3 \/ c \in CallsIn(x)
    BY <1>0, <1>9, <1>10, PairThen, Zenon
  <2> QED BY <2>1, <2>2, <2>3
<1> HIDE DEF s
<1>12. p \in CallsIn(s) /\ q2 \in CallsIn(s) /\ CallsIn(b) \subseteq CallsIn(s)
  BY <1>5, <1>6, <1>9, <1>11, Zenon
<1>13. \A c \in CallsIn(s) : c[1] \in CreateNames \/ c \in CallsIn(b)
  <2>1. \A c \in CallsIn(Setup) : c[1] \in CreateNames
    BY SetupNever, Zenon DEF Only, CreateNames
  <2>2. /\ p[1] \in CreateNames /\ q[1] \in CreateNames /\ p2[1] \in CreateNames
        /\ q2[1] \in CreateNames /\ p3[1] \in CreateNames /\ q3[1] \in CreateNames
    BY <1>1 DEF CreateNames
  <2> QED BY <1>5, <1>6, <1>9, <1>11, <2>1, <2>2, Zenon
<1> QED BY <1>1, <1>3, <1>11, <1>12, <1>13, Zenon DEF p, q2

Creates == {"create", "create all"}
Allowed(cmd, name) ==
  /\ name \in ImageCalls \cup {"fetch image", "look for cluster"} => cmd \in Creates
  /\ name = "kind delete" => cmd = "destroy"
  /\ name \in {"find", "find again", "use"} => cmd = "use"
  /\ name \in {"delete assets", "helm uninstall"} => cmd = "uninstall"
  /\ name = "wait for scrape" => cmd # "create"
  /\ name = "helm at current" => cmd = "helm"
Speaks(cmd, s) == \A c \in CallsIn(s) : Allowed(cmd, c[1])

\* What every program gives its command to start with.
Begins(c, s) ==
  /\ Shape(s) /\ s # <<>> /\ Speaks(c[1], s)
  /\ Ahead(s) # "helm install"
  /\ c[1] \in SetsUp => Ahead(s) \in {"fetch image", "cluster exists", "read current"}
  /\ c[1] \in Creates => /\ Ahead(s) = "fetch image"
                         /\ <<"save image">> \in CallsIn(s) /\ <<"load image">> \in CallsIn(s)
  /\ c[1] = "create all" => <<"helm install", Exporter>> \in CallsIn(s)

LEMMA NamesAllowed ==
  /\ \A name \in InstallNames : \A cmd : cmd # "create" => Allowed(cmd, name)
  /\ \A name \in CreateNames : \A cmd \in Creates : Allowed(cmd, name)
  /\ \A name \in {"get", "helm at lab"} : \A cmd : Allowed(cmd, name)
  /\ Allowed("helm", "helm at current")
  BY DEF InstallNames, CreateNames, SetupNames, Allowed, ImageCalls, Creates

LEMMA InstallShape ==
  ASSUME NEW c \in Components
  PROVE  /\ Shape(Install(c)) /\ Install(c) # <<>> /\ Ahead(Install(c)) = "cluster exists"
         /\ <<"helm install", c>> \in CallsIn(Install(c))
         /\ \A x \in CallsIn(Install(c)) : x[1] \in InstallNames
<1>1. Never(<<>>, ImageCalls) BY EmptyShape, Zenon DEF Never
<1>2. IF c = Monitoring THEN <<>> = <<>> ELSE Ahead(<<>>) \in {"cluster exists", ""}
  BY EmptyShape, Zenon
<1> DEFINE s == Install(c) \o <<>>
<1>3. /\ Shape(s) /\ s # <<>> /\ Ahead(s) = "cluster exists"
      /\ <<"helm install", c>> \in CallsIn(s)
      /\ \A x \in CallsIn(s) : x[1] \in InstallNames \/ x \in CallsIn(<<>>)
  BY <1>1, <1>2, EmptyShape, InstallThen, Zenon
<1>4. s = Install(c)
  <2> DEFINE p == Install(c)
  <2>1. p \in Seq(CallSet) BY EmptyShape, InstallIs, Zenon
  <2> HIDE DEF p
  <2>2. p \o <<>> = p BY <2>1
  <2> QED BY <2>2, Zenon DEF p
<1> HIDE DEF s
<1> QED BY <1>3, <1>4, EmptyShape, Zenon

LEMMA InstallAllShape ==
  /\ Shape(InstallAll) /\ InstallAll # <<>> /\ Ahead(InstallAll) = "cluster exists"
  /\ <<"helm install", Exporter>> \in CallsIn(InstallAll)
  /\ \A x \in CallsIn(InstallAll) : x[1] \in InstallNames
  /\ Never(InstallAll, ImageCalls)
<1> DEFINE m == Install(Monitoring)  e == Install(Exporter) \o m  p == Install(Plugin) \o e
<1>1. Plugin \in Components /\ Exporter \in Components /\ Monitoring \in Components
      /\ Plugin # Monitoring /\ Exporter # Monitoring
  BY DEF Components, Plugin, Exporter, Monitoring
<1>0. \A s : (\A x \in CallsIn(s) : x[1] \in InstallNames) => Never(s, ImageCalls)
  <2>1. InstallNames \cap ImageCalls = {} BY DEF InstallNames, SetupNames, ImageCalls
  <2> QED BY <2>1, Zenon DEF Never
<1>2. /\ Shape(m) /\ Ahead(m) = "cluster exists" /\ Never(m, ImageCalls)
      /\ \A x \in CallsIn(m) : x[1] \in InstallNames
  BY <1>0, <1>1, InstallShape, Zenon
<1>3. /\ Shape(e) /\ Ahead(e) = "cluster exists" /\ Never(e, ImageCalls)
      /\ <<"helm install", Exporter>> \in CallsIn(e)
      /\ \A x \in CallsIn(e) : x[1] \in InstallNames
  <2> HIDE DEF m
  <2>1. /\ Shape(e) /\ Ahead(e) = "cluster exists"
        /\ <<"helm install", Exporter>> \in CallsIn(e)
        /\ \A x \in CallsIn(e) : x[1] \in InstallNames \/ x \in CallsIn(m)
    BY <1>1, <1>2, InstallThen, Zenon
  <2>2. \A x \in CallsIn(e) : x[1] \in InstallNames BY <1>2, <2>1, Zenon
  <2> QED BY <1>0, <2>1, <2>2, Zenon
<1>4. /\ Shape(p) /\ p # <<>> /\ Ahead(p) = "cluster exists"
      /\ <<"helm install", Exporter>> \in CallsIn(p)
      /\ \A x \in CallsIn(p) : x[1] \in InstallNames
  <2> HIDE DEF e
  <2>1. /\ Shape(p) /\ p # <<>> /\ Ahead(p) = "cluster exists"
        /\ CallsIn(e) \subseteq CallsIn(p)
        /\ \A x \in CallsIn(p) : x[1] \in InstallNames \/ x \in CallsIn(e)
    BY <1>1, <1>3, InstallThen, Zenon
  <2>2. \A x \in CallsIn(p) : x[1] \in InstallNames BY <1>3, <2>1, Zenon
  <2>3. <<"helm install", Exporter>> \in CallsIn(p) BY <1>3, <2>1, Zenon
  <2> QED BY <2>1, <2>2, <2>3
<1>5. p = InstallAll
  <2> DEFINE a == Install(Plugin) b == Install(Exporter)
  <2>1. a \in Seq(CallSet) /\ b \in Seq(CallSet) /\ m \in Seq(CallSet)
    BY <1>1, EmptyShape, InstallIs, Zenon
  <2>2. InstallAll = (a \o b) \o m BY DEF InstallAll
  <2> HIDE DEF a, b, m
  <2>3. (a \o b) \o m = a \o (b \o m) BY <2>1, Assoc
  <2> QED BY <2>2, <2>3, Zenon DEF a, b
<1> HIDE DEF p
<1> QED BY <1>0, <1>4, <1>5, Zenon

LEMMA OneShape ==
  ASSUME NEW c \in CallSet, May(c, "")
  PROVE  /\ Shape(<<c>>) /\ <<c>> # <<>> /\ Ahead(<<c>>) = c[1]
         /\ \A x \in CallsIn(<<c>>) : x = c
<1>1. Linked(<<c>>) /\ <<c>> # <<>> /\ <<c>>[Len(<<c>>)] = c /\ CallsIn(<<c>>) = {c}
      /\ Ahead(<<c>>) = c[1]
  BY One, Zenon
<1> QED BY <1>1, Zenon DEF Shape

LEMMA PairShape ==
  ASSUME NEW c \in CallSet, NEW d \in CallSet, Fits(c, d), May(d, "")
  PROVE  /\ Shape(<<c, d>>) /\ <<c, d>> # <<>> /\ Ahead(<<c, d>>) = c[1]
         /\ \A x \in CallsIn(<<c, d>>) : x = c \/ x = d
<1>1. Linked(<<c, d>>) BY Two, Zenon
<1>2. <<c, d>> # <<>> /\ <<c, d>>[Len(<<c, d>>)] = d BY Two, Zenon
<1>3. Ahead(<<c, d>>) = c[1] BY Two, Zenon
<1>4. CallsIn(<<c, d>>) = {c, d} BY Two, Zenon
<1> QED BY <1>1, <1>2, <1>3, <1>4, Zenon DEF Shape

LEMMA CreateBegins ==
  ASSUME NEW c, c[1] \in Creates
  PROVE  Begins(c, Program(c))
<1> DEFINE b == IF c[1] = "create" THEN <<>> ELSE InstallAll  s == Create \o b
<1>1. /\ Shape(b) /\ Ahead(b) \in {"cluster exists", ""} /\ Never(b, ImageCalls)
      /\ \A x \in CallsIn(b) : x[1] \in InstallNames
      /\ c[1] = "create all" => <<"helm install", Exporter>> \in CallsIn(b)
  <2>1. CASE c[1] = "create"
    <3>1. b = <<>> BY <2>1, Zenon
    <3>2. c[1] # "create all" BY <2>1
    <3>3. Never(<<>>, ImageCalls) BY EmptyShape, Zenon DEF Never
    <3> QED BY <3>1, <3>2, <3>3, EmptyShape, Zenon
  <2>2. CASE c[1] # "create"
    <3>1. b = InstallAll BY <2>2, Zenon
    <3> QED BY <3>1, InstallAllShape, Zenon
  <2> QED BY <2>1, <2>2
<1>2. Program(c) = s
  <2>1. CASE c[1] = "create"
    <3>1. Program(c) = Create BY <2>1 DEF Program
    <3>2. b = <<>> BY <2>1, Zenon
    <3>3. Create \in Seq(CallSet) BY CreateIs, EmptyShape, Zenon
    <3> DEFINE a == Create
    <3>4. a \in Seq(CallSet) BY <3>3, Zenon
    <3> HIDE DEF a
    <3>5. a \o <<>> = a BY <3>4
    <3> QED BY <3>1, <3>2, <3>5, Zenon DEF a
  <2>2. CASE c[1] = "create all"
    <3>1. Program(c) = Create \o InstallAll
      <4>1. c[1] # "create" BY <2>2
      <4> HIDE DEF Create, InstallAll
      <4> QED BY <2>2, <4>1 DEF Program
    <3>2. b = InstallAll BY <2>2, Zenon
    <3> QED BY <3>1, <3>2, Zenon
  <2> QED BY <2>1, <2>2 DEF Creates
<1> HIDE DEF b
<1>3. /\ Shape(s) /\ s # <<>> /\ Ahead(s) = "fetch image"
      /\ <<"save image">> \in CallsIn(s) /\ <<"load image">> \in CallsIn(s)
      /\ CallsIn(b) \subseteq CallsIn(s)
      /\ \A x \in CallsIn(s) : x[1] \in CreateNames \/ x \in CallsIn(b)
  BY <1>1, CreateThen, Zenon
<1> HIDE DEF s
<1>4. Speaks(c[1], s)
  <2>1. CASE c[1] = "create"
    <3>1. b = <<>> BY <2>1, Zenon DEF b
    <3>2. \A x \in CallsIn(s) : x[1] \in CreateNames
      BY <1>3, <3>1, EmptyShape, Zenon
    <3> QED BY <3>2, NamesAllowed, Zenon DEF Speaks
  <2>2. CASE c[1] # "create"
    <3>1. \A x \in CallsIn(s) : x[1] \in CreateNames \/ x[1] \in InstallNames
      BY <1>1, <1>3, Zenon
    <3> QED BY <2>2, <3>1, NamesAllowed, Zenon DEF Speaks
  <2> QED BY <2>1, <2>2
<1>5. Ahead(s) # "helm install" BY <1>3
<1>6. c[1] = "create all" => <<"helm install", Exporter>> \in CallsIn(s)
  BY <1>1, <1>3, Zenon
<1> QED BY <1>2, <1>3, <1>4, <1>5, <1>6, Zenon DEF Begins

LEMMA NotCreate ==
  ASSUME NEW c, NEW s, c[1] \notin Creates, Shape(s), s # <<>>, Speaks(c[1], s),
         Ahead(s) # "helm install",
         c[1] \in SetsUp => Ahead(s) \in {"fetch image", "cluster exists", "read current"}
  PROVE  Begins(c, s)
<1>1. c[1] # "create all" BY DEF Creates
<1> QED BY <1>1, Zenon DEF Begins

LEMMA SetupBegins ==
  ASSUME NEW b, Shape(b),
         Ahead(b) \in {"save image", "read image", "helm at lab", "get", "find again", ""}
  PROVE  /\ Shape(Setup \o b) /\ Setup \o b # <<>> /\ Ahead(Setup \o b) = "read current"
         /\ \A x \in CallsIn(Setup \o b) : x[1] \in InstallNames \/ x \in CallsIn(b)
<1>1. \A x \in CallsIn(Setup) : x[1] \in InstallNames
  BY SetupNever, Zenon DEF Only, InstallNames
<1> QED BY <1>1, SetupThen, Zenon

LEMMA ArgumentsAre ==
  ASSUME NEW c \in Arguments
  PROVE  /\ c[1] \in {"create", "create all", "install", "uninstall", "install all",
                      "destroy", "setup", "status", "use", "helm"}
         /\ c[1] \in Creates => c[2] \in Images
         /\ c[1] \in {"install", "uninstall"} => c[2] \in Components
         /\ c[1] = "use" => c[2] \in STRING
         /\ c[1] = "helm" => c[2] \in Seq(STRING)
<1>1. CASE c \in {"create", "create all"} \X Images
  BY <1>1 DEF Creates
<1>2. CASE c \in {"install", "uninstall"} \X Components
  BY <1>2 DEF Creates
<1>3. CASE c \in {<<"install all">>, <<"destroy">>, <<"setup">>, <<"status">>}
  <2>1. c[1] \in {"install all", "destroy", "setup", "status"} BY <1>3, NameOf, Zenon
  <2> QED BY <2>1 DEF Creates
<1>4. CASE c \in {"use"} \X STRING
  BY <1>4 DEF Creates
<1>5. CASE c \in {"helm"} \X Seq(STRING)
  BY <1>5 DEF Creates
<1> QED BY <1>1, <1>2, <1>3, <1>4, <1>5 DEF Arguments

LEMMA InstallBegins ==
  ASSUME NEW c \in Arguments, c[1] \in {"install", "install all"}
  PROVE  Begins(c, Program(c))
<1> DEFINE s == IF c[1] = "install" THEN Install(c[2]) ELSE InstallAll
<1>1. Program(c) = s
  <2>1. CASE c[1] = "install"
    <3> HIDE DEF Install, InstallAll
    <3>1. Program(c) = Install(c[2]) BY <2>1 DEF Program
    <3> QED BY <2>1, <3>1, Zenon
  <2>2. CASE c[1] = "install all"
    <3> HIDE DEF Install, InstallAll
    <3>1. Program(c) = InstallAll BY <2>2 DEF Program
    <3>2. c[1] # "install" BY <2>2
    <3> QED BY <3>1, <3>2, Zenon
  <2> QED BY <2>1, <2>2
<1>2. /\ Shape(s) /\ s # <<>> /\ Ahead(s) = "cluster exists"
      /\ \A x \in CallsIn(s) : x[1] \in InstallNames
  <2>1. CASE c[1] = "install"
    <3>1. c[2] \in Components BY <2>1, ArgumentsAre
    <3> QED BY <2>1, <3>1, InstallShape, Zenon
  <2>2. CASE c[1] # "install" BY <2>2, InstallAllShape, Zenon
  <2> QED BY <2>1, <2>2
<1> HIDE DEF s
<1>0. c[1] # "create" OBVIOUS
<1>3. Speaks(c[1], s) BY <1>0, <1>2, NamesAllowed, Zenon DEF Speaks
<1>4. c[1] \notin Creates BY DEF Creates
<1>5. "cluster exists" # "helm install" OBVIOUS
<1> QED BY <1>1, <1>2, <1>3, <1>4, <1>5, NotCreate, Zenon

LEMMA UninstallBegins ==
  ASSUME NEW c, c[1] = "uninstall", c[2] \in Components
  PROVE  Begins(c, Program(c))
<1> DEFINE p == <<"delete assets">> q == <<"helm uninstall", c[2]>>
           s == Uninstall(c[2])
<1>1. p \in CallSet /\ q \in CallSet /\ p[1] = "delete assets" /\ q[1] = "helm uninstall"
  BY CallsAreCalls, NameOf, PairNames, Zenon DEF CallNames
<1>2. Program(c) = s BY DEF Program
<1>3. Fits(p, q) /\ May(q, "") BY <1>1, Zenon DEF Fits, May
<1>4. /\ Shape(s) /\ s # <<>> /\ Ahead(s) \in {"delete assets", "helm uninstall"}
      /\ \A x \in CallsIn(s) : x = p \/ x = q
  <2>1. CASE c[2] = Monitoring
    <3>1. s = <<p>> \o <<q>> BY <2>1 DEF Uninstall
    <3> HIDE DEF p, q, s
    <3>2. Shape(<<q>>) /\ Ahead(<<q>>) = q[1] /\ \A x \in CallsIn(<<q>>) : x = q
      BY <1>1, <1>3, OneShape, Zenon
    <3>3. May(p, Ahead(<<q>>)) /\ Later(p, <<q>>)
      BY <1>1, <1>3, <3>2, Zenon DEF Fits, Later
    <3>4. /\ Shape(<<p>> \o <<q>>) /\ <<p>> \o <<q>> # <<>> /\ Ahead(<<p>> \o <<q>>) = p[1]
          /\ CallsIn(<<p>> \o <<q>>) = {p} \cup CallsIn(<<q>>)
      BY <1>1, <3>2, <3>3, CallThen, Zenon
    <3>5. \A x \in CallsIn(<<p>> \o <<q>>) : x = p \/ x = q BY <3>2, <3>4, Zenon
    <3> QED BY <1>1, <3>1, <3>4, <3>5, Zenon
  <2>2. CASE c[2] # Monitoring
    <3>1. s = <<>> \o <<q>> BY <2>2 DEF Uninstall
    <3>2. <<>> \o <<q>> = <<q>> OBVIOUS
    <3> HIDE DEF p, q, s
    <3>3. Shape(<<q>>) /\ <<q>> # <<>> /\ Ahead(<<q>>) = q[1] /\ \A x \in CallsIn(<<q>>) : x = q
      BY <1>1, <1>3, OneShape, Zenon
    <3> QED BY <1>1, <3>1, <3>2, <3>3, Zenon
  <2> QED BY <2>1, <2>2
<1> HIDE DEF p, q, s
<1>5. Speaks(c[1], s)
  <2>1. Allowed("uninstall", "delete assets") /\ Allowed("uninstall", "helm uninstall")
    BY DEF Allowed, ImageCalls
  <2> QED BY <1>1, <1>4, <2>1, Zenon DEF Speaks
<1>6. c[1] \notin Creates /\ c[1] \notin SetsUp BY DEF Creates, SetsUp
<1>7. Ahead(s) # "helm install" BY <1>4
<1> QED BY <1>2, <1>4, <1>5, <1>6, <1>7, NotCreate, Zenon

LEMMA DestroyBegins ==
  ASSUME NEW c, c[1] = "destroy"
  PROVE  Begins(c, Program(c)) /\ Program(c) = << <<"kind delete">> >>
<1> DEFINE p == <<"kind delete">>
<1>1. p \in CallSet /\ p[1] = "kind delete" BY CallsAreCalls, NameOf, Zenon DEF CallNames
<1>2. Program(c) = <<p>> BY DEF Program
<1>3. May(p, "") BY <1>1, Zenon DEF May
<1> HIDE DEF p
<1>4. Shape(<<p>>) /\ <<p>> # <<>> /\ Ahead(<<p>>) = p[1] /\ \A x \in CallsIn(<<p>>) : x = p
  BY <1>1, <1>3, OneShape, Zenon
<1>5. Speaks(c[1], <<p>>)
  <2>1. Allowed("destroy", "kind delete") BY DEF Allowed, ImageCalls
  <2> QED BY <1>1, <1>4, <2>1, Zenon DEF Speaks
<1>6. c[1] \notin Creates /\ c[1] \notin SetsUp BY DEF Creates, SetsUp
<1>7. Ahead(<<p>>) # "helm install" BY <1>1, <1>4
<1>8. Begins(c, Program(c)) BY <1>2, <1>4, <1>5, <1>6, <1>7, NotCreate, Zenon
<1> QED BY <1>2, <1>8, Zenon DEF p

LEMMA SetupCommandBegins ==
  ASSUME NEW c, c[1] \in {"setup", "status"}
  PROVE  Begins(c, Program(c))
<1> DEFINE p == <<"get">> b == IF c[1] = "setup" THEN <<>> ELSE <<p>> s == Setup \o b
<1>1. p \in CallSet /\ p[1] = "get" BY CallsAreCalls, NameOf, Zenon DEF CallNames
<1>2. May(p, "") BY <1>1, Zenon DEF May
<1>3. Program(c) = s
  <2>1. CASE c[1] = "setup"
    <3>1. Program(c) = Setup BY <2>1 DEF Program
    <3> DEFINE a == Setup
    <3>2. a \in Seq(CallSet) BY SetupNever, Zenon
    <3> HIDE DEF a
    <3>3. a \o <<>> = a BY <3>2
    <3> QED BY <2>1, <3>1, <3>3, Zenon DEF a
  <2>2. CASE c[1] = "status"
    <3> HIDE DEF Setup
    <3>1. Program(c) = Setup \o <<p>> BY <2>2 DEF Program
    <3>2. c[1] # "setup" BY <2>2
    <3> QED BY <3>1, <3>2, Zenon
  <2> QED BY <2>1, <2>2
<1> HIDE DEF p
<1>4. Shape(b) /\ Ahead(b) \in {"get", ""} /\ \A x \in CallsIn(b) : x = p
  <2>1. CASE c[1] = "setup" BY <2>1, EmptyShape, Zenon
  <2>2. CASE c[1] # "setup" BY <1>1, <1>2, <2>2, OneShape, Zenon
  <2> QED BY <2>1, <2>2
<1> HIDE DEF b
<1>5. /\ Shape(s) /\ s # <<>> /\ Ahead(s) = "read current"
      /\ \A x \in CallsIn(s) : x[1] \in InstallNames \/ x \in CallsIn(b)
  BY <1>4, SetupBegins, Zenon
<1> HIDE DEF s
<1>0. c[1] # "create" OBVIOUS
<1>6. Speaks(c[1], s)
  BY <1>0, <1>1, <1>4, <1>5, NamesAllowed, Zenon DEF Speaks
<1>7. c[1] \notin Creates /\ Ahead(s) # "helm install" BY <1>5 DEF Creates
<1> QED BY <1>3, <1>5, <1>6, <1>7, NotCreate, Zenon

LEMMA UseBegins ==
  ASSUME NEW c, c[1] = "use", c[2] \in STRING
  PROVE  Begins(c, Program(c))
<1> DEFINE p == <<"find", c[2]>> q == <<"use", c[2]>> s == <<p, q>>
<1>1. p \in CallSet /\ q \in CallSet /\ p[1] = "find" /\ q[1] = "use"
  BY CallsAreCalls, PairNames, Zenon
<1>2. Program(c) = s BY DEF Program, Use
<1>3. Fits(p, q) /\ May(q, "") BY <1>1, Zenon DEF Fits, May
<1> HIDE DEF p, q
<1>4. Shape(s) /\ s # <<>> /\ Ahead(s) = p[1] /\ \A x \in CallsIn(s) : x = p \/ x = q
  BY <1>1, <1>3, PairShape, Zenon
<1> HIDE DEF s
<1>5. Speaks(c[1], s)
  <2>1. Allowed("use", "find") /\ Allowed("use", "use") BY DEF Allowed, ImageCalls
  <2> QED BY <1>1, <1>4, <2>1, Zenon DEF Speaks
<1>6. c[1] \notin Creates /\ c[1] \notin SetsUp BY DEF Creates, SetsUp
<1>7. Ahead(s) # "helm install" BY <1>1, <1>4
<1> QED BY <1>2, <1>4, <1>5, <1>6, <1>7, NotCreate, Zenon

LEMMA HelmBegins ==
  ASSUME NEW c, c[1] = "helm", c[2] \in Seq(STRING)
  PROVE  Begins(c, Program(c))
<1> DEFINE args == c[2]  p == <<"helm at lab", args>>  q == <<"helm at current", args>>
           e == <<"cluster exists">>  s == Program(c)
<1>1. /\ p \in CallSet /\ q \in CallSet /\ e \in CallSet /\ p[1] = "helm at lab"
      /\ q[1] = "helm at current" /\ e[1] = "cluster exists"
  BY CallsAreCalls, NameOf, PairNames, Zenon DEF CallNames
<1>2. May(p, "") /\ May(q, "") /\ May(e, "read current")
  BY <1>1, Zenon DEF May
<1>3. \/ s = <<q>>
      \/ s = <<e>> \o (Setup \o <<p>>)
  <2>1. s = Helm(args) BY DEF Program
  <2>2. CASE HelmUsesCluster(args) /\ ~HasHelmContext(args)
    <3>1. s = (<<e>> \o Setup) \o <<p>> BY <2>1, <2>2, Zenon DEF Helm
    <3> DEFINE a == <<e>> b == Setup d == <<p>>
    <3>2. a \in Seq(CallSet) /\ b \in Seq(CallSet) /\ d \in Seq(CallSet)
      BY <1>1, PairOfCalls, SetupNever, Zenon
    <3> HIDE DEF a, b, d
    <3>3. (a \o b) \o d = a \o (b \o d) BY <3>2, Assoc
    <3> QED BY <3>1, <3>3, Zenon DEF a, b, d
  <2>3. CASE ~(HelmUsesCluster(args) /\ ~HasHelmContext(args))
    BY <2>1, <2>3, Zenon DEF Helm
  <2> QED BY <2>2, <2>3
<1> HIDE DEF p, q, e, s
<1>4. /\ Shape(s) /\ s # <<>> /\ Ahead(s) # "helm install" /\ Speaks(c[1], s)
  <2>1. CASE s = <<q>>
    <3>1. Shape(s) /\ s # <<>> /\ Ahead(s) = q[1] /\ \A x \in CallsIn(s) : x = q
      BY <1>1, <1>2, <2>1, OneShape, Zenon
    <3>2. Speaks(c[1], s) BY <1>1, <3>1, NamesAllowed, Zenon DEF Speaks
    <3>3. "helm at current" # "helm install" OBVIOUS
    <3> QED BY <1>1, <3>1, <3>2, <3>3, Zenon
  <2>2. CASE s = <<e>> \o (Setup \o <<p>>)
    <3> DEFINE y == Setup \o <<p>>
    <3>1. Shape(<<p>>) /\ Ahead(<<p>>) = p[1] /\ \A x \in CallsIn(<<p>>) : x = p
      BY <1>1, <1>2, OneShape, Zenon
    <3>2. /\ Shape(y) /\ Ahead(y) = "read current"
          /\ \A x \in CallsIn(y) : x[1] \in InstallNames \/ x \in CallsIn(<<p>>)
      BY <1>1, <3>1, SetupBegins, Zenon
    <3> HIDE DEF y
    <3>3. Later(e, y) BY <1>1, Zenon DEF Later
    <3>4. /\ Shape(<<e>> \o y) /\ <<e>> \o y # <<>> /\ Ahead(<<e>> \o y) = e[1]
          /\ CallsIn(<<e>> \o y) = {e} \cup CallsIn(y)
      BY <1>1, <1>2, <3>2, <3>3, CallThen, Zenon
    <3>5. s = <<e>> \o y BY <2>2, Zenon DEF y
    <3>6. "cluster exists" \in InstallNames BY DEF InstallNames
    <3>7. \A x \in CallsIn(s) : x[1] \in InstallNames \/ x[1] = "helm at lab"
      BY <1>1, <3>1, <3>2, <3>4, <3>5, <3>6, Zenon
    <3>8. Speaks(c[1], s)
      <4>1. c[1] # "create" OBVIOUS
      <4> QED BY <3>7, <4>1, NamesAllowed, Zenon DEF Speaks
    <3>9. "cluster exists" # "helm install" OBVIOUS
    <3> QED BY <1>1, <3>4, <3>5, <3>8, <3>9, Zenon
  <2> QED BY <1>3, <2>1, <2>2
<1>5. c[1] \notin Creates /\ c[1] \notin SetsUp BY DEF Creates, SetsUp
<1>6. Begins(c, s) BY <1>4, <1>5, NotCreate, Zenon
<1> QED BY <1>6 DEF s

LEMMA ProgramBegins ==
  ASSUME NEW c \in Arguments PROVE Begins(c, Program(c))
<1>1. CASE c[1] \in Creates
  BY <1>1, CreateBegins, Zenon
<1>2. CASE c[1] \in {"install", "install all"}
  BY <1>2, InstallBegins, Zenon
<1>3. CASE c[1] = "uninstall" BY <1>3, ArgumentsAre, UninstallBegins, Zenon
<1>4. CASE c[1] = "destroy" BY <1>4, DestroyBegins, Zenon
<1>5. CASE c[1] \in {"setup", "status"}
  BY <1>5, SetupCommandBegins
<1>6. CASE c[1] = "use" BY <1>6, ArgumentsAre, UseBegins, Zenon
<1>7. CASE c[1] = "helm" BY <1>7, ArgumentsAre, HelmBegins, Zenon
<1> QED BY ArgumentsAre, <1>1, <1>2, <1>3, <1>4, <1>5, <1>6, <1>7, Zenon DEF Creates

-----------------------------------------------------------------------------
(* Types *)

Contexts == {Mine, Kind, Alias}
Releases == [status : {"none", "deployed", "failed", "pending"}, image : Images \cup {NoImage}]
States == {"none", "half", "up"}
LabSet ==
  [state : States, gen : Nat, images : SUBSET Images,
   config : Images \cup {NoImage}, releases : [Components -> Releases], crds : BOOLEAN,
   assets : {"none", "some", "all"}]
FileSet == [contexts : SUBSET Contexts, current : Contexts \cup {None}, creds : Nat]
ProcSet ==
  [cmd : Arguments \cup {<<"none">>}, todo : Seq(CallSet), image : Images \cup {NoImage},
   saved : Contexts \cup {None}, before : Contexts \cup {None}, faulty : BOOLEAN,
   result : {"ok", "running", "failed"}]
Typed ==
  /\ lab \in LabSet /\ primary \in FileSet /\ own \in FileSet
  /\ proc \in [Terminals -> ProcSet]
  /\ foreign \in BOOLEAN /\ begun \in Nat /\ faults \in Nat

LoadCalls == {"load image", "save image"}
ProcOK(p) ==
  /\ Shape(p.todo) /\ Speaks(p.cmd[1], p.todo)
  /\ Never(p.todo, LoadCalls) \/ p.image \in Images
  /\ p.result = "running" <=> p.todo # <<>>
  /\ p.cmd[1] = "none" => p.result = "ok"
ProcsOK == \A t \in Terminals : ProcOK(proc[t])

Others(t) == \A u \in Terminals \ {t} : proc'[u] = proc[u]
Kept(t) == proc'[t].cmd = proc[t].cmd /\ proc'[t].before = proc[t].before
Stopped(t) ==
  /\ Others(t) /\ Kept(t) /\ proc'[t].todo = <<>> /\ proc'[t].result = "failed"
Faulted(t) == Stopped(t) /\ proc'[t].faulty /\ faults' = faults + 1
Moved(t, s) ==
  /\ Others(t) /\ Kept(t) /\ proc'[t].todo = s /\ proc'[t].faulty = proc[t].faulty
  /\ proc'[t].result = IF s = <<>> THEN "ok" ELSE "running"
  /\ faults' = faults

LEMMA FailedMeans ==
  ASSUME proc \in [Terminals -> ProcSet], NEW t \in Terminals, NEW faulty \in BOOLEAN,
         Failed(t, faulty)
  PROVE  /\ Stopped(t) /\ proc'[t].faulty = faulty /\ proc' \in [Terminals -> ProcSet]
         /\ proc'[t].image = proc[t].image /\ proc'[t].saved = proc[t].saved
<1>1. <<>> \in Seq(CallSet) OBVIOUS
<1>2. proc[t] \in ProcSet OBVIOUS
<1> DEFINE q == [proc[t] EXCEPT !.todo = <<>>, !.result = "failed", !.faulty = faulty]
<1>3. proc' = [proc EXCEPT ![t] = q] BY DEF Failed
<1>4. /\ q.cmd = proc[t].cmd /\ q.before = proc[t].before /\ q.todo = <<>>
      /\ q.result = "failed" /\ q.faulty = faulty
      /\ q.image = proc[t].image /\ q.saved = proc[t].saved
  BY <1>2 DEF ProcSet
<1>5. q \in ProcSet BY <1>1, <1>2 DEF ProcSet
<1> HIDE DEF q
<1>6. proc'[t] = q /\ Others(t) /\ proc' \in [Terminals -> ProcSet]
  BY <1>3, <1>5 DEF Others
<1> QED BY <1>4, <1>6 DEF Stopped, Kept

LEMMA BecomesMeans ==
  ASSUME proc \in [Terminals -> ProcSet], faults \in Nat, NEW t \in Terminals,
         NEW p \in ProcSet, p.cmd = proc[t].cmd, p.before = proc[t].before,
         p.faulty = proc[t].faulty, Becomes(t, p)
  PROVE  /\ proc' \in [Terminals -> ProcSet] /\ faults' \in Nat
         /\ \/ /\ Moved(t, p.todo) /\ proc'[t].image = p.image /\ proc'[t].saved = p.saved
            \/ /\ Faulted(t) /\ proc'[t].image = proc[t].image
               /\ proc'[t].saved = proc[t].saved
<1>1. CASE /\ proc' = [proc EXCEPT ![t] =
                [p EXCEPT !.result = IF p.todo = <<>> THEN "ok" ELSE "running"]]
           /\ UNCHANGED faults
  <2> DEFINE r == IF p.todo = <<>> THEN "ok" ELSE "running"
             q == [p EXCEPT !.result = r]
  <2>1. r \in {"ok", "running"} OBVIOUS
  <2>2. proc' = [proc EXCEPT ![t] = q] BY <1>1, Zenon
  <2> HIDE DEF r
  <2>3. /\ q \in ProcSet /\ q.cmd = p.cmd /\ q.before = p.before /\ q.todo = p.todo
        /\ q.result = r /\ q.faulty = p.faulty /\ q.image = p.image /\ q.saved = p.saved
    BY <2>1 DEF ProcSet
  <2> HIDE DEF q
  <2>4. proc'[t] = q /\ Others(t) /\ proc' \in [Terminals -> ProcSet]
    BY <2>2, <2>3 DEF Others
  <2>5. Moved(t, p.todo)
    BY <1>1, <2>3, <2>4, Zenon DEF Moved, Kept, r
  <2>6. faults' \in Nat BY <1>1
  <2> QED BY <2>3, <2>4, <2>5, <2>6, Zenon
<1>2. CASE Fault(t)
  <2>1. Failed(t, TRUE) /\ faults' = faults + 1 BY <1>2, Zenon DEF Fault
  <2>2. TRUE \in BOOLEAN OBVIOUS
  <2>3. /\ Stopped(t) /\ proc'[t].faulty = TRUE /\ proc' \in [Terminals -> ProcSet]
        /\ proc'[t].image = proc[t].image /\ proc'[t].saved = proc[t].saved
    BY <2>1, <2>2, FailedMeans, Zenon
  <2>4. faults' \in Nat BY <2>1
  <2> QED BY <2>1, <2>3, <2>4, Zenon DEF Faulted
<1> QED BY <1>1, <1>2, Zenon DEF Becomes

LEMMA ThenMeans ==
  ASSUME proc \in [Terminals -> ProcSet], faults \in Nat, NEW t \in Terminals,
         NEW s \in Seq(CallSet), Then(t, s)
  PROVE  /\ proc' \in [Terminals -> ProcSet] /\ faults' \in Nat
         /\ proc'[t].image = proc[t].image /\ proc'[t].saved = proc[t].saved
         /\ Moved(t, s) \/ Faulted(t)
<1> DEFINE p == [proc[t] EXCEPT !.todo = s]
<1>1. proc[t] \in ProcSet OBVIOUS
<1>2. /\ p \in ProcSet /\ p.cmd = proc[t].cmd /\ p.before = proc[t].before
      /\ p.faulty = proc[t].faulty /\ p.image = proc[t].image /\ p.saved = proc[t].saved
      /\ p.todo = s
  BY <1>1 DEF ProcSet
<1>3. Becomes(t, p) BY Zenon DEF Then
<1> HIDE DEF p
<1>4. /\ proc' \in [Terminals -> ProcSet] /\ faults' \in Nat
      /\ \/ /\ Moved(t, p.todo) /\ proc'[t].image = p.image /\ proc'[t].saved = p.saved
         \/ /\ Faulted(t) /\ proc'[t].image = proc[t].image
            /\ proc'[t].saved = proc[t].saved
  BY <1>2, <1>3, BecomesMeans, Zenon
<1> QED BY <1>2, <1>4, Zenon

\* What the calls keep of the processes.
LEMMA MovedOK ==
  ASSUME ProcsOK, NEW t \in Terminals, NEW s, Moved(t, s), Shape(s),
         Speaks(proc[t].cmd[1], s),
         Never(s, LoadCalls) \/ proc'[t].image \in Images, proc[t].result = "running"
  PROVE  ProcsOK'
<1>1. ProcOK(proc[t])  BY DEF ProcsOK
<1>2. ProcOK(proc'[t])
  <2>1. /\ proc'[t].todo = s /\ proc'[t].cmd = proc[t].cmd
        /\ proc'[t].result = IF s = <<>> THEN "ok" ELSE "running"
    BY Zenon DEF Moved, Kept
  <2>2. proc'[t].result = "running" <=> s # <<>> BY <2>1
  <2>3. proc[t].cmd[1] # "none" BY <1>1 DEF ProcOK
  <2> QED BY <2>1, <2>2, <2>3, Zenon DEF ProcOK
<1>3. \A u \in Terminals : u # t => proc'[u] = proc[u] BY Zenon DEF Moved, Others
<1> QED BY <1>2, <1>3, Zenon DEF ProcsOK

LEMMA StoppedOK ==
  ASSUME ProcsOK, NEW t \in Terminals, Stopped(t), proc[t].result = "running"
  PROVE  ProcsOK'
<1>1. ProcOK(proc[t])  BY DEF ProcsOK
<1>2. ProcOK(proc'[t])
  <2>1. proc'[t].todo = <<>> /\ proc'[t].cmd = proc[t].cmd /\ proc'[t].result = "failed"
    BY Zenon DEF Stopped, Kept
  <2>2. /\ Shape(<<>>) /\ Speaks(proc[t].cmd[1], <<>>)
        /\ Never(<<>>, LoadCalls)
    BY EmptyShape, Zenon DEF Speaks, Never
  <2>3. proc[t].cmd[1] # "none" BY <1>1 DEF ProcOK
  <2>4. "failed" # "running" OBVIOUS
  <2> QED BY <2>1, <2>2, <2>3, <2>4, Zenon DEF ProcOK
<1>3. \A u \in Terminals : u # t => proc'[u] = proc[u] BY Zenon DEF Stopped, Others
<1> QED BY <1>2, <1>3, Zenon DEF ProcsOK

LEMMA CallParts ==
  ASSUME NEW c \in CallSet
  PROVE  /\ c[1] \in {"helm install", "helm uninstall"} =>
              c[2] \in Components /\ c[Len(c)] = c[2]
         /\ c[1] \in {"find", "find again", "use"} => c[Len(c)] = c[2]
<1>1. CASE c \in {<<name>> : name \in CallNames}
  <2>1. PICK name \in CallNames : c = <<name>> BY <1>1
  <2>2. c[1] \in CallNames BY <2>1, NameOf, Zenon
  <2> QED BY <2>2 DEF CallNames
<1>2. CASE c \in {"helm install", "helm uninstall"} \X Components
  <2>1. c[2] \in Components /\ Len(c) = 2 BY <1>2
  <2>2. c[1] \notin {"find", "find again", "use"} BY <1>2
  <2> QED BY <2>1, <2>2, Zenon
<1>3. CASE c \in {"find", "find again", "use"} \X (STRING \cup {Alias})
  <2>1. Len(c) = 2 BY <1>3
  <2>2. c[1] \notin {"helm install", "helm uninstall"} BY <1>3
  <2> QED BY <2>1, <2>2, Zenon
<1>4. CASE c \in {"helm at lab", "helm at current"} \X Seq(STRING)
  BY <1>4
<1> QED BY <1>1, <1>2, <1>3, <1>4 DEF CallSet

\* A terminal that runs has a call to make, and what stands behind it.
CallNow(t) ==
  LET s == proc[t].todo IN
  /\ s \in Seq(CallSet) /\ s # <<>> /\ Call(t) \in CallSet /\ Ahead(s) = Call(t)[1]
  /\ CallsIn(s) = {Call(t)} \cup CallsIn(Tail(s))
Behind(t) ==
  LET s == Tail(proc[t].todo) c == proc[t].cmd IN
  /\ Shape(s) /\ May(Call(t), Ahead(s)) /\ Later(Call(t), s)
  /\ Speaks(c[1], s) /\ (Never(s, LoadCalls) \/ proc[t].image \in Images)
  /\ Allowed(c[1], Call(t)[1]) /\ c[1] # "none"

LEMMA Running ==
  ASSUME ProcsOK, NEW t \in Terminals, proc[t].result = "running"
  PROVE  CallNow(t) /\ Behind(t)
<1> DEFINE s == proc[t].todo c == proc[t].cmd r == Tail(s)
<1>1. /\ Shape(s) /\ Speaks(c[1], s) /\ s # <<>>
      /\ Never(s, LoadCalls) \/ proc[t].image \in Images
  BY Zenon DEF ProcsOK, ProcOK
<1>2. s \in Seq(CallSet) BY <1>1, Zenon DEF Shape, Linked
<1> HIDE DEF s
<1>3. /\ Head(s) \in CallSet /\ Ahead(s) = Head(s)[1]
      /\ CallsIn(s) = {Head(s)} \cup CallsIn(r)
  BY <1>1, <1>2, TailCalls, Zenon
<1>4. Shape(r) /\ May(Head(s), Ahead(r)) /\ Later(Head(s), r) BY <1>1, ShapeTail, Zenon
<1> HIDE DEF r
<1>5. Speaks(c[1], r) /\ Allowed(c[1], Head(s)[1]) BY <1>1, <1>3, Zenon DEF Speaks
<1>7. Never(r, LoadCalls) \/ proc[t].image \in Images BY <1>1, <1>3, Zenon DEF Never
<1>8. c[1] # "none"
  <2>1. c[1] = "none" => proc[t].result = "ok" BY Zenon DEF ProcsOK, ProcOK
  <2> QED BY <2>1
<1>9. Call(t) = Head(s) BY DEF Call, s
<1>10. CallNow(t) BY <1>1, <1>2, <1>3, <1>9, Zenon DEF CallNow, s, r
<1>11. Behind(t) BY <1>4, <1>5, <1>7, <1>8, <1>9, Zenon DEF Behind, s, r
<1> QED BY <1>10, <1>11

\* What a call that is made leaves of the processes.
Ran(t, s) ==
  /\ proc' \in [Terminals -> ProcSet] /\ faults' \in Nat /\ ProcsOK'
  /\ proc'[t].image = proc[t].image /\ proc'[t].saved = proc[t].saved
  /\ Moved(t, s) \/ Faulted(t)

LEMMA ThenRan ==
  ASSUME Typed, ProcsOK, NEW t \in Terminals, proc[t].result = "running",
         NEW s, Shape(s), Speaks(proc[t].cmd[1], s),
         Never(s, LoadCalls) \/ proc[t].image \in Images, Then(t, s)
  PROVE  Ran(t, s)
<1>1. s \in Seq(CallSet) BY Zenon DEF Shape, Linked
<1>2. proc \in [Terminals -> ProcSet] /\ faults \in Nat BY Zenon DEF Typed
<1>3. /\ proc' \in [Terminals -> ProcSet] /\ faults' \in Nat
      /\ proc'[t].image = proc[t].image /\ proc'[t].saved = proc[t].saved
      /\ Moved(t, s) \/ Faulted(t)
  BY <1>1, <1>2, ThenMeans, Zenon
<1>4. CASE Moved(t, s)
  <2>1. Never(s, LoadCalls) \/ proc'[t].image \in Images BY <1>3, Zenon
  <2>2. ProcsOK' BY <1>4, <2>1, MovedOK, Zenon
  <2> QED BY <1>3, <2>2, Zenon DEF Ran
<1>5. CASE Faulted(t)
  <2>1. ProcsOK' BY <1>5, StoppedOK, Zenon DEF Faulted
  <2> QED BY <1>3, <2>1, Zenon DEF Ran
<1> QED BY <1>3, <1>4, <1>5

LEMMA DoneRan ==
  ASSUME Typed, ProcsOK, NEW t \in Terminals, proc[t].result = "running", Done(t)
  PROVE  Ran(t, Tail(proc[t].todo))
<1> DEFINE s == Tail(proc[t].todo)
<1>1. /\ Shape(s) /\ Speaks(proc[t].cmd[1], s)
      /\ Never(s, LoadCalls) \/ proc[t].image \in Images
  BY Running, Zenon DEF Behind
<1>2. Then(t, s) BY Zenon DEF Done
<1> HIDE DEF s
<1>3. Ran(t, s) BY <1>1, <1>2, ThenRan, Zenon
<1> QED BY <1>3 DEF s

LEMMA StopRan ==
  ASSUME Typed, ProcsOK, NEW t \in Terminals, proc[t].result = "running",
         NEW faulty \in BOOLEAN, Failed(t, faulty)
  PROVE  /\ proc' \in [Terminals -> ProcSet] /\ ProcsOK' /\ Stopped(t)
         /\ proc'[t].faulty = faulty
         /\ proc'[t].image = proc[t].image /\ proc'[t].saved = proc[t].saved
<1>1. proc \in [Terminals -> ProcSet] BY Zenon DEF Typed
<1>2. /\ Stopped(t) /\ proc'[t].faulty = faulty /\ proc' \in [Terminals -> ProcSet]
      /\ proc'[t].image = proc[t].image /\ proc'[t].saved = proc[t].saved
  BY <1>1, FailedMeans, Zenon
<1>3. ProcsOK' BY <1>2, StoppedOK, Zenon
<1> QED BY <1>2, <1>3, Zenon

LEMMA FaultRan ==
  ASSUME Typed, ProcsOK, NEW t \in Terminals, proc[t].result = "running", Fault(t),
         NEW s
  PROVE  Ran(t, s) /\ Faulted(t)
<1>1. TRUE \in BOOLEAN OBVIOUS
<1>2. Failed(t, TRUE) /\ faults' = faults + 1 BY Zenon DEF Fault
<1>3. /\ proc' \in [Terminals -> ProcSet] /\ ProcsOK' /\ Stopped(t)
      /\ proc'[t].faulty = TRUE
      /\ proc'[t].image = proc[t].image /\ proc'[t].saved = proc[t].saved
  BY <1>1, <1>2, StopRan, Zenon
<1>4. faults' \in Nat BY <1>2 DEF Typed
<1>5. Faulted(t) BY <1>2, <1>3, Zenon DEF Faulted
<1> QED BY <1>3, <1>4, <1>5, Zenon DEF Ran

LEMMA CallsRun ==
  ASSUME NEW t, NEW name, Calls(t, name)
  PROVE  proc[t].result = "running" /\ Call(t)[1] = name /\ Possible(t) /\ begun' = begun
  BY Zenon DEF Calls

\* After "look for cluster" the creation of the cluster, which it skips when it is there.
LEMMA LookForClusterRan ==
  ASSUME Typed, ProcsOK, NEW t \in Terminals, LookForCluster(t)
  PROVE  \E s : /\ Ran(t, s) /\ Ahead(s) \in {"kind create", "load image"}
                /\ Ahead(s) = "kind create" => lab.state = "none"
                /\ Ahead(s) = "load image" => lab.state # "none"
                /\ \A x \in CallsIn(s) : x \in CallsIn(proc[t].todo)
                /\ \A x \in CallsIn(proc[t].todo) :
                     x[1] \in {"look for cluster", "kind create"} \/ x \in CallsIn(s)
                /\ ~Never(s, {"load image"})
<1> DEFINE q == proc[t].todo rest == Tail(q) s == IF lab.state = "none" THEN rest ELSE Tail(rest)
<1>1. proc[t].result = "running" /\ Call(t)[1] = "look for cluster"
  BY CallsRun, Zenon DEF LookForCluster
<1>2. CallNow(t) /\ Behind(t) BY <1>1, Running, Zenon
<1>3. Then(t, s) BY Zenon DEF LookForCluster
<1>4. /\ Shape(rest) /\ May(Call(t), Ahead(rest)) /\ Speaks(proc[t].cmd[1], rest)
      /\ (Never(rest, LoadCalls) \/ proc[t].image \in Images)
      /\ CallsIn(q) = {Call(t)} \cup CallsIn(rest)
  BY <1>2, Zenon DEF Behind, CallNow
<1> HIDE DEF rest, q
<1>5. Ahead(rest) = "kind create"
  BY <1>1, <1>4 DEF May
<1>6. rest # <<>> BY <1>5, EmptyShape
<1>7. rest \in Seq(CallSet) BY <1>4, Zenon DEF Shape, Linked
<1>8. /\ CallsIn(rest) = {Head(rest)} \cup CallsIn(Tail(rest)) /\ Head(rest)[1] = "kind create"
      /\ Tail(rest) \in Seq(CallSet)
  BY <1>5, <1>6, <1>7, TailCalls, Zenon
<1>9. Shape(Tail(rest)) /\ May(Head(rest), Ahead(Tail(rest)))
  BY <1>4, <1>6, ShapeTail, Zenon
<1> DEFINE r == Tail(rest)
<1>10. Ahead(r) = "load image" BY <1>8, <1>9 DEF May
<1>11. r # <<>> BY <1>10, EmptyShape
<1>12. CallsIn(r) = {Head(r)} \cup CallsIn(Tail(r)) /\ Head(r)[1] = "load image"
  BY <1>8, <1>10, <1>11, TailCalls, Zenon
<1>13. ~Never(r, {"load image"}) BY <1>12, Zenon DEF Never
<1>14. CASE lab.state = "none"
  <2>1. s = rest BY <1>14, Zenon
  <2>2. ~Never(rest, {"load image"}) BY <1>8, <1>13, Zenon DEF Never
  <2>3. Ran(t, rest) BY <1>1, <1>3, <1>4, <2>1, ThenRan, Zenon
  <2>4. "kind create" # "load image" OBVIOUS
  <2>5. \A x \in CallsIn(q) : x[1] = "look for cluster" \/ x \in CallsIn(rest)
    BY <1>1, <1>4, Zenon
  <2>6. \A x \in CallsIn(rest) : x \in CallsIn(q) BY <1>4, Zenon
  <2> QED BY <1>5, <1>14, <2>2, <2>3, <2>4, <2>5, <2>6, Zenon DEF q
<1>15. CASE lab.state # "none"
  <2>1. s = r BY <1>15, Zenon
  <2> HIDE DEF r
  <2>2. Speaks(proc[t].cmd[1], r) BY <1>4, <1>8, Zenon DEF Speaks, r
  <2>4. Never(r, LoadCalls) \/ proc[t].image \in Images BY <1>4, <1>8, Zenon DEF Never, r
  <2>5. Shape(r) BY <1>9, Zenon DEF r
  <2>6. Ran(t, r) BY <1>1, <1>3, <2>1, <2>2, <2>4, <2>5, ThenRan, Zenon
  <2>7. "load image" # "kind create" OBVIOUS
  <2>8. \A x \in CallsIn(q) :
          x[1] \in {"look for cluster", "kind create"} \/ x \in CallsIn(r)
    BY <1>1, <1>4, <1>8, Zenon DEF r
  <2>9. \A x \in CallsIn(r) : x \in CallsIn(q) BY <1>4, <1>8, Zenon DEF r
  <2> QED BY <1>10, <1>13, <1>15, <2>6, <2>7, <2>8, <2>9, Zenon DEF q
<1> QED BY <1>14, <1>15

\* The two calls that read something into the process.
LEMMA BecomesRan ==
  ASSUME Typed, ProcsOK, NEW t \in Terminals, proc[t].result = "running",
         NEW p \in ProcSet, p.cmd = proc[t].cmd, p.before = proc[t].before,
         p.faulty = proc[t].faulty, Becomes(t, p), p.todo = Tail(proc[t].todo),
         Never(p.todo, LoadCalls) \/ p.image \in Images
  PROVE  /\ proc' \in [Terminals -> ProcSet] /\ faults' \in Nat /\ ProcsOK'
         /\ \/ /\ Moved(t, Tail(proc[t].todo)) /\ proc'[t].image = p.image
               /\ proc'[t].saved = p.saved
            \/ Faulted(t) /\ proc'[t].image = proc[t].image /\ proc'[t].saved = proc[t].saved
<1>1. proc \in [Terminals -> ProcSet] /\ faults \in Nat BY Zenon DEF Typed
<1>2. /\ proc' \in [Terminals -> ProcSet] /\ faults' \in Nat
      /\ \/ /\ Moved(t, p.todo) /\ proc'[t].image = p.image /\ proc'[t].saved = p.saved
         \/ Faulted(t) /\ proc'[t].image = proc[t].image /\ proc'[t].saved = proc[t].saved
  BY <1>1, BecomesMeans, Zenon
<1>3. CASE Moved(t, p.todo) /\ proc'[t].image = p.image /\ proc'[t].saved = p.saved
  <2>1. /\ Shape(p.todo) /\ Speaks(proc[t].cmd[1], p.todo)
    BY Running, Zenon DEF Behind
  <2>2. Never(p.todo, LoadCalls) \/ proc'[t].image \in Images BY <1>3, Zenon
  <2>3. Moved(t, p.todo) BY <1>3
  <2> DEFINE s == p.todo
  <2>4. Moved(t, s) /\ Shape(s) /\ Speaks(proc[t].cmd[1], s)
        /\ (Never(s, LoadCalls) \/ proc'[t].image \in Images)
    BY <2>1, <2>2, <2>3
  <2> HIDE DEF s
  <2>5. ProcsOK' BY <2>4, MovedOK, Zenon
  <2> QED BY <1>2, <1>3, <2>5, Zenon
<1>4. CASE Faulted(t) /\ proc'[t].image = proc[t].image /\ proc'[t].saved = proc[t].saved
  <2>1. ProcsOK' BY <1>4, StoppedOK, Zenon DEF Faulted
  <2> QED BY <1>2, <1>4, <2>1, Zenon
<1> QED BY <1>2, <1>3, <1>4, Zenon

LEMMA ReadImageRan ==
  ASSUME Typed, ProcsOK, NEW t \in Terminals, ReadImage(t)
  PROVE  /\ proc' \in [Terminals -> ProcSet] /\ faults' \in Nat /\ ProcsOK'
         /\ \/ /\ Moved(t, Tail(proc[t].todo)) /\ proc'[t].image = lab.config
               /\ proc'[t].saved = proc[t].saved
            \/ Faulted(t) /\ proc'[t].image = proc[t].image /\ proc'[t].saved = proc[t].saved
<1> DEFINE p == [proc[t] EXCEPT !.todo = Tail(@), !.image = lab.config]
<1>1. proc[t].result = "running" /\ Call(t)[1] = "read image"
  BY CallsRun, Zenon DEF ReadImage
<1>2. proc[t] \in ProcSet BY DEF Typed
<1>3. lab.config \in Images \cup {NoImage} BY DEF Typed, LabSet
<1>4. Shape(Tail(proc[t].todo)) /\ Later(Call(t), Tail(proc[t].todo))
  BY <1>1, Running, Zenon DEF Behind
<1>5. Tail(proc[t].todo) \in Seq(CallSet) BY <1>4, Zenon DEF Shape, Linked
<1> DEFINE s == Tail(proc[t].todo)
<1>6. /\ p \in ProcSet /\ p.cmd = proc[t].cmd /\ p.before = proc[t].before
      /\ p.faulty = proc[t].faulty /\ p.image = lab.config /\ p.saved = proc[t].saved
      /\ p.todo = s
  <2>1. p = [proc[t] EXCEPT !.todo = s, !.image = lab.config]
    BY <1>2 DEF ProcSet
  <2>2. s \in Seq(CallSet) BY <1>5
  <2> HIDE DEF s, p
  <2> QED BY <1>2, <1>3, <2>1, <2>2 DEF ProcSet
<1>7. Becomes(t, p) BY Zenon DEF ReadImage
<1>8. Never(s, LoadCalls)
  BY <1>1, <1>4, Zenon DEF Later, Never, LoadCalls, ImageCalls
<1> HIDE DEF p
<1>9. Never(p.todo, LoadCalls) BY <1>6, <1>8, Zenon
<1>10. /\ proc' \in [Terminals -> ProcSet] /\ faults' \in Nat /\ ProcsOK'
       /\ \/ /\ Moved(t, Tail(proc[t].todo)) /\ proc'[t].image = p.image
             /\ proc'[t].saved = p.saved
          \/ Faulted(t) /\ proc'[t].image = proc[t].image /\ proc'[t].saved = proc[t].saved
  BY <1>1, <1>6, <1>7, <1>9, BecomesRan, Zenon
<1> QED BY <1>6, <1>10, Zenon

LEMMA ReadCurrentRan ==
  ASSUME Typed, ProcsOK, NEW t \in Terminals, ReadCurrent(t)
  PROVE  /\ proc' \in [Terminals -> ProcSet] /\ faults' \in Nat /\ ProcsOK'
         /\ proc'[t].image = proc[t].image
         /\ \/ Moved(t, Tail(proc[t].todo)) /\ proc'[t].saved = primary.current
            \/ Faulted(t) /\ proc'[t].saved = proc[t].saved
<1> DEFINE p == [proc[t] EXCEPT !.todo = Tail(@), !.saved = primary.current]
<1>1. proc[t].result = "running" /\ Call(t)[1] = "read current"
  BY CallsRun, Zenon DEF ReadCurrent
<1>2. proc[t] \in ProcSet BY DEF Typed
<1>3. primary.current \in Contexts \cup {None} BY DEF Typed, FileSet
<1>4. /\ Shape(Tail(proc[t].todo))
      /\ Never(Tail(proc[t].todo), LoadCalls) \/ proc[t].image \in Images
  BY <1>1, Running, Zenon DEF Behind
<1>5. Tail(proc[t].todo) \in Seq(CallSet) BY <1>4, Zenon DEF Shape, Linked
<1> DEFINE s == Tail(proc[t].todo)
<1>6. /\ p \in ProcSet /\ p.cmd = proc[t].cmd /\ p.before = proc[t].before
      /\ p.faulty = proc[t].faulty /\ p.image = proc[t].image /\ p.saved = primary.current
      /\ p.todo = s
  <2>1. p = [proc[t] EXCEPT !.todo = s, !.saved = primary.current]
    BY <1>2 DEF ProcSet
  <2>2. s \in Seq(CallSet) BY <1>5
  <2> HIDE DEF s, p
  <2> QED BY <1>2, <1>3, <2>1, <2>2 DEF ProcSet
<1>7. Becomes(t, p) BY Zenon DEF ReadCurrent
<1> HIDE DEF p
<1>8. Never(p.todo, LoadCalls) \/ p.image \in Images BY <1>4, <1>6, Zenon
<1>9. /\ proc' \in [Terminals -> ProcSet] /\ faults' \in Nat /\ ProcsOK'
      /\ \/ /\ Moved(t, Tail(proc[t].todo)) /\ proc'[t].image = p.image
            /\ proc'[t].saved = p.saved
         \/ Faulted(t) /\ proc'[t].image = proc[t].image /\ proc'[t].saved = proc[t].saved
  BY <1>1, <1>6, <1>7, <1>8, BecomesRan, Zenon
<1> QED BY <1>6, <1>9, Zenon

\* The call on the context of kind, in front of the rest of the setup.
LEMMA LookAtOwnRan ==
  ASSUME Typed, ProcsOK, NEW t \in Terminals, LookAtOwn(t)
  PROVE  \E s : /\ Ran(t, s)
                /\ Ahead(s) = IF Kind \notin own.contexts THEN "use own"
                              ELSE IF Alias \in own.contexts THEN "delete own"
                              ELSE "rename own"
                /\ \A x \in CallsIn(s) :
                     x \in CallsIn(proc[t].todo) \/ x[1] \in {"rename own", "delete own"}
                /\ \A x \in CallsIn(proc[t].todo) : x[1] = "look at own" \/ x \in CallsIn(s)
<1> DEFINE q == proc[t].todo rest == Tail(q)
           d == <<"delete own">> r == <<"rename own">>
           head == IF Kind \notin own.contexts THEN <<>>
                   ELSE IF Alias \in own.contexts THEN <<d>> ELSE <<r>>
<1>1. proc[t].result = "running" /\ Call(t)[1] = "look at own"
  BY CallsRun, Zenon DEF LookAtOwn
<1>2. CallNow(t) /\ Behind(t) BY <1>1, Running, Zenon
<1>3. Then(t, head \o rest) BY Zenon DEF LookAtOwn
<1>4. /\ Shape(rest) /\ May(Call(t), Ahead(rest)) /\ Speaks(proc[t].cmd[1], rest)
      /\ (Never(rest, LoadCalls) \/ proc[t].image \in Images)
      /\ CallsIn(q) = {Call(t)} \cup CallsIn(rest)
  BY <1>2, Zenon DEF Behind, CallNow
<1>5. d \in CallSet /\ r \in CallSet /\ d[1] = "delete own" /\ r[1] = "rename own"
  BY CallsAreCalls, NameOf, Zenon DEF CallNames
<1> HIDE DEF rest, q, d, r
<1>6. Ahead(rest) = "use own"
  BY <1>1, <1>4 DEF May
<1>7. \A x \in CallsIn(q) : x[1] = "look at own" \/ x \in CallsIn(rest)
  BY <1>1, <1>4, Zenon
<1>8. \A x \in CallsIn(rest) : x \in CallsIn(q) BY <1>4, Zenon
<1>9. rest \in Seq(CallSet) BY <1>4, Zenon DEF Shape, Linked
<1>10. ASSUME NEW c \in CallSet, c[1] \in {"rename own", "delete own"}, Then(t, <<c>> \o rest)
       PROVE  /\ Ran(t, <<c>> \o rest) /\ Ahead(<<c>> \o rest) = c[1]
              /\ CallsIn(<<c>> \o rest) = {c} \cup CallsIn(rest)
  <2> DEFINE s == <<c>> \o rest
  <2>1. May(c, Ahead(rest)) /\ Later(c, rest) BY <1>6, <1>10 DEF May, Later
  <2>2. Shape(s) /\ s # <<>> /\ Ahead(s) = c[1] /\ CallsIn(s) = {c} \cup CallsIn(rest)
    BY <1>4, <2>1, CallThen, Zenon
  <2>3. Then(t, s) BY <1>10
  <2> HIDE DEF s
  <2>4. Allowed(proc[t].cmd[1], c[1]) /\ c[1] \notin LoadCalls
    BY <1>10 DEF Allowed, ImageCalls, LoadCalls
  <2>5. Speaks(proc[t].cmd[1], s) BY <1>4, <2>2, <2>4, Zenon DEF Speaks
  <2>7. Never(s, LoadCalls) \/ proc[t].image \in Images
    BY <1>4, <2>2, <2>4, Zenon DEF Never
  <2>8. Ran(t, s) BY <1>1, <2>2, <2>3, <2>5, <2>7, ThenRan, Zenon
  <2> QED BY <2>2, <2>8, Zenon DEF s
<1>11. CASE Kind \notin own.contexts
  <2>1. head = <<>> BY <1>11, Zenon
  <2>2. <<>> \o rest = rest BY <1>9, EmptyFirst, Zenon
  <2>3. Then(t, rest) BY <1>3, <2>1, <2>2, Zenon
  <2>4. Ran(t, rest) BY <1>1, <1>4, <2>3, ThenRan, Zenon
  <2> QED BY <1>6, <1>7, <1>8, <1>11, <2>4, Zenon DEF q
<1>12. CASE Kind \in own.contexts /\ Alias \in own.contexts
  <2>1. head = <<d>> BY <1>12, Zenon
  <2>2. Then(t, <<d>> \o rest) BY <1>3, <2>1, Zenon
  <2> DEFINE s == <<d>> \o rest
  <2>3. /\ Ran(t, s) /\ Ahead(s) = d[1] /\ CallsIn(s) = {d} \cup CallsIn(rest)
    BY <1>5, <1>10, <2>2, Zenon
  <2> HIDE DEF s
  <2>4. \A x \in CallsIn(s) : x \in CallsIn(q) \/ x[1] \in {"rename own", "delete own"}
    BY <1>5, <1>8, <2>3, Zenon
  <2>5. \A x \in CallsIn(q) : x[1] = "look at own" \/ x \in CallsIn(s)
    BY <1>7, <2>3, Zenon
  <2> QED BY <1>5, <1>12, <2>3, <2>4, <2>5, Zenon DEF q
<1>13. CASE Kind \in own.contexts /\ Alias \notin own.contexts
  <2>1. head = <<r>> BY <1>13, Zenon
  <2>2. Then(t, <<r>> \o rest) BY <1>3, <2>1, Zenon
  <2> DEFINE s == <<r>> \o rest
  <2>3. /\ Ran(t, s) /\ Ahead(s) = r[1] /\ CallsIn(s) = {r} \cup CallsIn(rest)
    BY <1>5, <1>10, <2>2, Zenon
  <2> HIDE DEF s
  <2>4. \A x \in CallsIn(s) : x \in CallsIn(q) \/ x[1] \in {"rename own", "delete own"}
    BY <1>5, <1>8, <2>3, Zenon
  <2>5. \A x \in CallsIn(q) : x[1] = "look at own" \/ x \in CallsIn(s)
    BY <1>7, <2>3, Zenon
  <2> QED BY <1>5, <1>13, <2>3, <2>4, <2>5, Zenon DEF q
<1> QED BY <1>11, <1>12, <1>13, Zenon

\* A missing context of the lab is set up first.
LEMMA FindRan ==
  ASSUME Typed, ProcsOK, NEW t \in Terminals, Find(t)
  PROVE  \E s : /\ Ran(t, s) /\ Ahead(s) \in {"use", "read current"}
                /\ proc[t].cmd[1] = "use"
<1> DEFINE q == proc[t].todo rest == Tail(q)
           f == <<"find again", Alias>>  fs == <<f>>
           s == IF Call(t)[2] \in primary.contexts THEN rest ELSE Setup \o fs \o rest
<1>1. proc[t].result = "running" /\ Call(t)[1] \in {"find", "find again"}
  BY CallsRun, Zenon DEF Find
<1>2. CallNow(t) /\ Behind(t) BY <1>1, Running, Zenon
<1>3. Then(t, s) BY Zenon DEF Find
<1>4. /\ Shape(rest) /\ May(Call(t), Ahead(rest)) /\ Speaks(proc[t].cmd[1], rest)
      /\ (Never(rest, LoadCalls) \/ proc[t].image \in Images)
      /\ Allowed(proc[t].cmd[1], Call(t)[1])
  BY <1>2, Zenon DEF Behind
<1>5. f \in CallSet /\ f[1] = "find again"
  BY CallsAreCalls, PairNames, Zenon
<1> HIDE DEF rest, q, f
<1>6. Ahead(rest) = "use" BY <1>1, <1>4 DEF May
<1>7. rest \in Seq(CallSet) BY <1>4, Zenon DEF Shape, Linked
<1>8. proc[t].cmd[1] = "use" BY <1>1, <1>4, Zenon DEF Allowed
<1>9. CASE Call(t)[2] \in primary.contexts
  <2>1. Then(t, rest) BY <1>3, <1>9, Zenon
  <2>2. Ran(t, rest) BY <1>1, <1>4, <2>1, ThenRan, Zenon
  <2> QED BY <1>6, <1>8, <2>2, Zenon
<1>10. CASE Call(t)[2] \notin primary.contexts
  <2> DEFINE a == <<f>> \o rest z == Setup \o a b == Setup
  <2>1. s = (b \o fs) \o rest BY <1>10, Zenon
  <2>2. (b \o fs) \o rest = z
    <3> DEFINE x == fs
    <3>1. b \in Seq(CallSet) /\ x \in Seq(CallSet) /\ rest \in Seq(CallSet)
      BY <1>5, <1>7, SetupNever, PairOfCalls, Zenon
    <3>2. z = b \o (x \o rest) OBVIOUS
    <3> HIDE DEF b, x, z
    <3>3. (b \o x) \o rest = b \o (x \o rest) BY <3>1, Assoc
    <3> QED BY <3>2, <3>3, Zenon DEF x
  <2>3. May(f, Ahead(rest)) /\ Later(f, rest) BY <1>5, <1>6 DEF May, Later
  <2>4. Shape(a) /\ Ahead(a) = f[1] /\ CallsIn(a) = {f} \cup CallsIn(rest)
    BY <1>4, <1>5, <2>3, CallThen, Zenon
  <2> HIDE DEF a
  <2>5. Ahead(a) \in {"save image", "read image", "helm at lab", "get", "find again", ""}
    BY <1>5, <2>4, Zenon
  <2>6. /\ Shape(z) /\ Ahead(z) = "read current"
        /\ \A x \in CallsIn(z) : x[1] \in InstallNames \/ x \in CallsIn(a)
    BY <2>4, <2>5, SetupBegins, Zenon
  <2>7. Then(t, z) BY <1>3, <2>1, <2>2, Zenon
  <2> HIDE DEF z
  <2>8. \A x \in CallsIn(z) : x[1] \in InstallNames \cup {"find again"} \/ x \in CallsIn(rest)
    BY <1>5, <2>4, <2>6, Zenon
  <2>9. \A name \in InstallNames \cup {"find again"} :
          Allowed("use", name) /\ name \notin LoadCalls
    BY DEF Allowed, InstallNames, SetupNames, ImageCalls, LoadCalls
  <2>10. Speaks(proc[t].cmd[1], z) BY <1>4, <1>8, <2>8, <2>9, Zenon DEF Speaks
  <2>12. Never(z, LoadCalls) \/ proc[t].image \in Images
    BY <1>4, <2>8, <2>9, Zenon DEF Never
  <2>13. Ran(t, z) BY <1>1, <2>6, <2>7, <2>10, <2>12, ThenRan, Zenon
  <2> QED BY <1>8, <2>6, <2>13, Zenon
<1> QED BY <1>9, <1>10

Blank(l) ==
  /\ l.images = {} /\ l.config = NoImage /\ l.crds = FALSE
  /\ \A c \in Components : l.releases[c] = NoRelease

LEMMA EmptyTyped ==
  ASSUME NEW state \in States, NEW gen \in Nat
  PROVE  /\ Empty(state, gen) \in LabSet
         /\ Empty(state, gen).state = state /\ Empty(state, gen).gen = gen
         /\ Blank(Empty(state, gen))
<1>1. NoRelease \in Releases BY DEF NoRelease, Releases
<1> DEFINE r == [c \in Components |-> NoRelease]
<1>2. r \in [Components -> Releases] BY <1>1
<1>3. \A c \in Components : r[c] = NoRelease OBVIOUS
<1> HIDE DEF r
<1>4. Empty(state, gen) = [state |-> state, gen |-> gen, images |-> {}, config |-> NoImage,
        releases |-> r, crds |-> FALSE, assets |-> "none"]
  BY DEF Empty, r
<1> DEFINE e == Empty(state, gen)
<1>5. /\ e \in LabSet /\ e.state = state /\ e.gen = gen /\ e.images = {}
      /\ e.config = NoImage /\ e.releases = r /\ e.crds = FALSE
  BY <1>2, <1>4 DEF LabSet
<1> HIDE DEF e
<1>6. Blank(e) BY <1>3, <1>5, Zenon DEF Blank
<1> QED BY <1>5, <1>6 DEF e

\* A call that names a context of the user's file.
LEMMA NamedContext ==
  ASSUME Typed, ProcsOK, NEW t \in Terminals, proc[t].result = "running", Possible(t),
         Call(t)[1] = "use"
  PROVE  Call(t)[2] \in primary.contexts /\ Call(t)[2] \in Contexts
<1>1. Call(t) \in CallSet BY Running, Zenon DEF CallNow
<1>2. Call(t)[Len(Call(t))] = Call(t)[2] BY <1>1, CallParts
<1>3. Call(t)[Len(Call(t))] \in primary.contexts BY Zenon DEF Possible
<1>4. primary.contexts \subseteq Contexts BY DEF Typed, FileSet
<1> QED BY <1>2, <1>3, <1>4

LEMMA NamedComponent ==
  ASSUME Typed, ProcsOK, NEW t \in Terminals, proc[t].result = "running",
         Call(t)[1] \in {"helm install", "helm uninstall"}
  PROVE  Call(t)[2] \in Components /\ Call(t)[Len(Call(t))] = Call(t)[2]
<1>1. Call(t) \in CallSet BY Running, Zenon DEF CallNow
<1> QED BY <1>1, CallParts

LEMMA ReleaseTyped ==
  ASSUME Typed, NEW c \in Components, NEW status \in {"deployed", "failed", "pending"},
         NEW image \in Images \cup {NoImage}, Release(c, status, image)
  PROVE  /\ lab' \in LabSet /\ lab'.state = lab.state /\ lab'.gen = lab.gen
         /\ lab'.images = lab.images /\ lab'.config = lab.config
         /\ lab'.releases[c].status = status /\ lab'.releases[c].image = image
         /\ \A d \in Components \ {c} : lab'.releases[d] = lab.releases[d]
         /\ lab.crds => lab'.crds
         /\ c = Monitoring => lab'.crds
<1> DEFINE e == [status |-> status, image |-> image]
           b == lab.crds \/ c = Monitoring
           r == [lab.releases EXCEPT ![c] = e]
<1>1. lab \in LabSet BY DEF Typed
<1>2. e \in Releases /\ e.status = status /\ e.image = image BY DEF Releases
<1>3. b \in BOOLEAN OBVIOUS
<1>4. lab.releases \in [Components -> Releases] BY <1>1 DEF LabSet
<1>5. r \in [Components -> Releases] /\ r[c] = e
      /\ \A d \in Components \ {c} : r[d] = lab.releases[d]
  <2> HIDE DEF e
  <2> QED BY <1>2, <1>4
<1>6. lab' = [lab EXCEPT !.releases = r, !.crds = b]
  <2>1. lab' = [lab EXCEPT !.releases[c] = e, !.crds = @ \/ c = Monitoring]
    BY Zenon DEF Release
  <2> HIDE DEF e
  <2> QED BY <1>1, <2>1 DEF LabSet
<1>7. (lab.crds => b) /\ (c = Monitoring => b) OBVIOUS
<1> HIDE DEF r, b, e
<1>8. /\ lab' \in LabSet /\ lab'.state = lab.state /\ lab'.gen = lab.gen
      /\ lab'.images = lab.images /\ lab'.config = lab.config
      /\ lab'.releases = r /\ lab'.crds = b
  BY <1>1, <1>3, <1>5, <1>6 DEF LabSet
<1> QED BY <1>2, <1>5, <1>7, <1>8, Zenon

LEMMA UninstallTyped ==
  ASSUME Typed, NEW c \in Components,
         lab' = [lab EXCEPT !.releases[c] = NoRelease]
  PROVE  /\ lab' \in LabSet /\ lab'.state = lab.state /\ lab'.gen = lab.gen
         /\ lab'.images = lab.images /\ lab'.config = lab.config
         /\ lab'.releases[c] = NoRelease /\ lab'.crds = lab.crds
         /\ \A d \in Components \ {c} : lab'.releases[d] = lab.releases[d]
<1> DEFINE r == [lab.releases EXCEPT ![c] = NoRelease]
<1>1. lab \in LabSet BY DEF Typed
<1>2. NoRelease \in Releases BY DEF NoRelease, Releases
<1>4. lab.releases \in [Components -> Releases] BY <1>1 DEF LabSet
<1>5. r \in [Components -> Releases] /\ r[c] = NoRelease
      /\ \A d \in Components \ {c} : r[d] = lab.releases[d]
  BY <1>2, <1>4
<1>6. lab' = [lab EXCEPT !.releases = r]
  BY <1>1 DEF LabSet
<1> HIDE DEF r
<1>8. /\ lab' \in LabSet /\ lab'.state = lab.state /\ lab'.gen = lab.gen
      /\ lab'.images = lab.images /\ lab'.config = lab.config
      /\ lab'.releases = r /\ lab'.crds = lab.crds
  BY <1>1, <1>5, <1>6 DEF LabSet
<1> QED BY <1>5, <1>8, Zenon

LEMMA FilesTyped ==
  ASSUME NEW f \in FileSet
  PROVE  /\ \A gen \in Nat :
              [contexts |-> f.contexts \cup {Kind}, current |-> Kind, creds |-> gen] \in FileSet
         /\ [f EXCEPT !.contexts = @ \cup {Alias}] \in FileSet
         /\ [f EXCEPT !.contexts = (@ \ {Kind}) \cup {Alias},
                      !.current = IF @ = Kind THEN Alias ELSE @] \in FileSet
         /\ [f EXCEPT !.contexts = @ \ {Kind}] \in FileSet
         /\ \A c \in Contexts \cup {None} : [f EXCEPT !.current = c] \in FileSet
         /\ [contexts |-> f.contexts \ {Kind}, creds |-> 0,
             current |-> IF f.current = Kind THEN None ELSE f.current] \in FileSet
<1>1. Kind \in Contexts /\ Alias \in Contexts BY DEF Contexts
<1> HIDE DEF Contexts, Kind, Alias
<1> QED BY <1>1 DEF FileSet

LEMMA Together ==
  ASSUME lab' \in LabSet, primary' \in FileSet, own' \in FileSet,
         proc' \in [Terminals -> ProcSet], foreign' \in BOOLEAN, begun' \in Nat,
         faults' \in Nat, ProcsOK'
  PROVE  Typed' /\ ProcsOK'
  BY Zenon DEF Typed

-----------------------------------------------------------------------------
(* The steps keep the types *)

\* The command a terminal begins with.
Began(t, c) ==
  /\ Others(t) /\ proc'[t].cmd = c /\ proc'[t].todo = Program(c)
  /\ proc'[t].before = primary.current /\ proc'[t].result = "running"
  /\ proc'[t].image = IF c[1] \in Creates THEN c[2] ELSE NoImage

LEMMA StartOK ==
  ASSUME Typed, ProcsOK, NEW t \in Terminals, NEW c \in Commands[t], Start(t, c)
  PROVE  Typed' /\ ProcsOK' /\ Began(t, c) /\ c \in Arguments
<1>1. c \in Arguments BY CommandsAssumption, Zenon
<1>2. Begins(c, Program(c)) BY <1>1, ProgramBegins, Zenon
<1>3. c[1] \in Creates => c[2] \in Images BY <1>1, ArgumentsAre, Zenon
<1> DEFINE s == Program(c) image == IF c[1] \in Creates THEN c[2] ELSE NoImage
           p == [cmd |-> c, todo |-> s, saved |-> None, before |-> primary.current,
                 image |-> image, faulty |-> FALSE, result |-> "running"]
<1>4. proc' = [proc EXCEPT ![t] = p]
  BY Zenon DEF Start, Creates
<1>5. s \in Seq(CallSet) /\ Shape(s) /\ Speaks(c[1], s) /\ s # <<>>
  BY <1>2, Zenon DEF Begins, Shape, Linked
<1>6. image \in Images \cup {NoImage} /\ (c[1] \in Creates => image \in Images)
  BY <1>3, Zenon
<1>7. Never(s, LoadCalls) \/ image \in Images
  <2>1. CASE c[1] \in Creates BY <1>6, <2>1, Zenon
  <2>2. CASE c[1] \notin Creates
    <3>1. \A x \in LoadCalls : x \in ImageCalls BY DEF LoadCalls, ImageCalls
    <3> QED BY <1>5, <2>2, <3>1, Zenon DEF Speaks, Allowed, Never
  <2> QED BY <2>1, <2>2
<1>8. c[1] # "none" BY <1>1, ArgumentsAre
<1> HIDE DEF s, image
<1>9. primary.current \in Contexts \cup {None} BY DEF Typed, FileSet
<1>10. /\ p \in ProcSet /\ p.cmd = c /\ p.todo = s /\ p.before = primary.current
       /\ p.image = image /\ p.result = "running"
  <2>1. c \in Arguments \cup {<<"none">>} BY <1>1
  <2> QED BY <1>5, <1>6, <1>9, <2>1 DEF ProcSet
<1> HIDE DEF p
<1>11. proc \in [Terminals -> ProcSet] /\ begun \in Nat /\ faults \in Nat
  BY Zenon DEF Typed
<1>12. proc' \in [Terminals -> ProcSet] /\ proc'[t] = p /\ Others(t)
  BY <1>4, <1>10, <1>11 DEF Others
<1>13. ProcOK(p)
  BY <1>5, <1>7, <1>8, <1>10, Zenon DEF ProcOK
<1>14. ProcsOK' BY <1>12, <1>13, Zenon DEF ProcsOK, Others
<1>15. Began(t, c) BY <1>10, <1>12, Zenon DEF Began, s, image
<1>16. begun' \in Nat
  <2>1. begun' = begun + 1 BY Zenon DEF Start
  <2> QED BY <1>11, <2>1
<1>17. Typed'
  <2>1. UNCHANGED <<lab, primary, own, foreign, faults>> BY Zenon DEF Start
  <2>2. /\ lab' \in LabSet /\ primary' \in FileSet /\ own' \in FileSet
        /\ foreign' \in BOOLEAN /\ faults' \in Nat
    BY <2>1 DEF Typed
  <2> QED BY <1>12, <1>14, <1>16, <2>2, Together, Zenon
<1> QED BY <1>1, <1>14, <1>15, <1>17

\* The calls that change none of the files and nothing of the lab.
LEMMA QuietOK ==
  ASSUME Typed, ProcsOK, NEW t \in Terminals,
         Look(t) \/ LookForCluster(t) \/ ReadImage(t) \/ ReadCurrent(t) \/ LookAtOwn(t)
           \/ Find(t) \/ HelmOther(t)
  PROVE  Typed' /\ ProcsOK' /\ UNCHANGED <<lab, primary, own>>
<1>1. UNCHANGED <<lab, primary, own, begun>>
  BY Zenon DEF Look, LookForCluster, ReadImage, ReadCurrent, LookAtOwn, Find, HelmOther, Calls
<1>2. foreign' \in BOOLEAN
  BY DEF Look, LookForCluster, ReadImage, ReadCurrent, LookAtOwn, Find, HelmOther, Typed
<1>3. /\ lab' \in LabSet /\ primary' \in FileSet /\ own' \in FileSet /\ begun' \in Nat
  BY <1>1 DEF Typed
<1>4. proc' \in [Terminals -> ProcSet] /\ faults' \in Nat /\ ProcsOK'
  <2>1. CASE Look(t)
    <3>1. proc[t].result = "running" /\ Done(t) BY <2>1, CallsRun, Zenon DEF Look
    <3> QED BY <3>1, DoneRan, Zenon DEF Ran
  <2>2. CASE HelmOther(t)
    <3>1. proc[t].result = "running" /\ Done(t) BY <2>2, CallsRun, Zenon DEF HelmOther
    <3> QED BY <3>1, DoneRan, Zenon DEF Ran
  <2>3. CASE LookForCluster(t) BY <2>3, LookForClusterRan, Zenon DEF Ran
  <2>4. CASE ReadImage(t) BY <2>4, ReadImageRan, Zenon
  <2>5. CASE ReadCurrent(t) BY <2>5, ReadCurrentRan, Zenon
  <2>6. CASE LookAtOwn(t) BY <2>6, LookAtOwnRan, Zenon DEF Ran
  <2>7. CASE Find(t) BY <2>7, FindRan, Zenon DEF Ran
  <2> QED BY <2>1, <2>2, <2>3, <2>4, <2>5, <2>6, <2>7
<1> QED BY <1>1, <1>2, <1>3, <1>4, Together, Zenon

\* The calls that change the file of the user or of the lab.
LEMMA FilesOK ==
  ASSUME Typed, ProcsOK, NEW t \in Terminals,
         Export(t) \/ SetAlias(t) \/ Restore(t) \/ UseContext(t)
           \/ ExportOwn(t) \/ RenameOwn(t) \/ DeleteOwn(t) \/ UseOwn(t)
  PROVE  /\ Typed' /\ ProcsOK' /\ lab' = lab
         /\ proc[t].result = "running" /\ Ran(t, Tail(proc[t].todo))
<1>1. UNCHANGED <<lab, begun, foreign>> /\ Done(t) /\ proc[t].result = "running"
  BY CallsRun, Zenon DEF Export, SetAlias, Restore, UseContext, ExportOwn, RenameOwn, DeleteOwn,
               UseOwn, Calls
<1>2. Ran(t, Tail(proc[t].todo)) BY <1>1, DoneRan, Zenon
<1>3. proc' \in [Terminals -> ProcSet] /\ faults' \in Nat /\ ProcsOK' BY <1>2, Zenon DEF Ran
<1>4. lab' \in LabSet /\ begun' \in Nat /\ foreign' \in BOOLEAN BY <1>1 DEF Typed
<1>5. lab.gen \in Nat BY DEF Typed, LabSet
<1>6. primary \in FileSet /\ own \in FileSet BY Zenon DEF Typed
<1>7. primary' \in FileSet /\ own' \in FileSet
  <2>1. CASE Export(t)
    <3>1. primary' = Exported(primary) /\ own' = own BY <2>1, Zenon DEF Export
    <3> QED BY <1>5, <1>6, <3>1, FilesTyped, Zenon DEF Exported
  <2>2. CASE SetAlias(t)
    <3>1. primary' = [primary EXCEPT !.contexts = @ \cup {Alias}] /\ own' = own
      BY <2>2, Zenon DEF SetAlias
    <3> QED BY <1>6, <3>1, FilesTyped, Zenon
  <2>3. CASE Restore(t)
    <3>1. primary' = [primary EXCEPT !.current = proc[t].saved] /\ own' = own
      BY <2>3, Zenon DEF Restore
    <3>2. proc[t].saved \in Contexts \cup {None} BY DEF Typed, ProcSet
    <3> QED BY <1>6, <3>1, <3>2, FilesTyped, Zenon
  <2>4. CASE UseContext(t)
    <3>1. primary' = [primary EXCEPT !.current = Call(t)[2]] /\ own' = own
      BY <2>4, Zenon DEF UseContext
    <3>2. Call(t)[1] = "use" /\ Possible(t) BY <2>4, CallsRun, Zenon DEF UseContext
    <3>3. Call(t)[2] \in Contexts \cup {None} BY <1>1, <3>2, NamedContext
    <3> QED BY <1>6, <3>1, <3>3, FilesTyped, Zenon
  <2>5. CASE ExportOwn(t)
    <3>1. own' = Exported(own) /\ primary' = primary BY <2>5, Zenon DEF ExportOwn
    <3> QED BY <1>5, <1>6, <3>1, FilesTyped, Zenon DEF Exported
  <2>6. CASE RenameOwn(t)
    <3>1. /\ own' = [own EXCEPT !.contexts = (@ \ {Kind}) \cup {Alias},
                               !.current = IF @ = Kind THEN Alias ELSE @]
          /\ primary' = primary
      BY <2>6, Zenon DEF RenameOwn
    <3> QED BY <1>6, <3>1, FilesTyped, Zenon
  <2>7. CASE DeleteOwn(t)
    <3>1. own' = [own EXCEPT !.contexts = @ \ {Kind}] /\ primary' = primary
      BY <2>7, Zenon DEF DeleteOwn
    <3> QED BY <1>6, <3>1, FilesTyped, Zenon
  <2>8. CASE UseOwn(t)
    <3>1. own' = [own EXCEPT !.current = Alias] /\ primary' = primary
      BY <2>8, Zenon DEF UseOwn
    <3>2. Alias \in Contexts \cup {None} BY DEF Contexts
    <3> QED BY <1>6, <3>1, <3>2, FilesTyped, Zenon
  <2> QED BY <2>1, <2>2, <2>3, <2>4, <2>5, <2>6, <2>7, <2>8
<1> QED BY <1>1, <1>2, <1>3, <1>4, <1>7, Together, Zenon

\* The calls that make, fill and delete the cluster.
LEMMA ClusterOK ==
  ASSUME Typed, ProcsOK, NEW t \in Terminals,
         KindCreate(t) \/ KindDelete(t) \/ LoadImage(t) \/ SaveImage(t) \/ KindCreateKilled(t)
  PROVE  /\ Typed' /\ ProcsOK' /\ own' = own
         /\ proc[t].result = "running" /\ Ran(t, Tail(proc[t].todo))
         /\ KindCreateKilled(t) => Faulted(t)
<1>1. UNCHANGED <<own, begun, foreign>> /\ proc[t].result = "running"
  BY CallsRun, Zenon DEF KindCreate, KindDelete, LoadImage, SaveImage, KindCreateKilled, Calls
<1>2. Ran(t, Tail(proc[t].todo)) /\ (KindCreateKilled(t) => Faulted(t))
  <2>1. CASE KindCreateKilled(t)
    <3>1. Fault(t) BY <2>1, Zenon DEF KindCreateKilled
    <3> QED BY <1>1, <3>1, FaultRan, Zenon
  <2>2. CASE ~KindCreateKilled(t)
    <3>1. Done(t) BY <2>2, Zenon DEF KindCreate, KindDelete, LoadImage, SaveImage
    <3> QED BY <1>1, <2>2, <3>1, DoneRan, Zenon
  <2> QED BY <2>1, <2>2
<1>3. proc' \in [Terminals -> ProcSet] /\ faults' \in Nat /\ ProcsOK' BY <1>2, Zenon DEF Ran
<1>4. own' \in FileSet /\ begun' \in Nat /\ foreign' \in BOOLEAN BY <1>1 DEF Typed
<1>5. lab.gen \in Nat /\ lab.gen + 1 \in Nat /\ lab \in LabSet BY DEF Typed, LabSet
<1>6. primary \in FileSet BY Zenon DEF Typed
<1>7. lab' \in LabSet /\ primary' \in FileSet
  <2>1. CASE KindCreate(t)
    <3>1. /\ lab' = Empty("up", lab.gen + 1)
          /\ primary' = [contexts |-> primary.contexts \cup {Kind}, current |-> Kind,
                         creds |-> lab.gen + 1]
      BY <2>1, Zenon DEF KindCreate
    <3>2. "up" \in States BY DEF States
    <3> QED BY <1>5, <1>6, <3>1, <3>2, EmptyTyped, FilesTyped, Zenon
  <2>2. CASE KindDelete(t)
    <3>1. /\ lab' = Empty("none", lab.gen)
          /\ primary' = [contexts |-> primary.contexts \ {Kind}, creds |-> 0,
               current |-> IF primary.current = Kind THEN None ELSE primary.current]
      BY <2>2, Zenon DEF KindDelete
    <3>2. "none" \in States BY DEF States
    <3> QED BY <1>5, <1>6, <3>1, <3>2, EmptyTyped, FilesTyped, Zenon
  <2>3. CASE KindCreateKilled(t)
    <3>1. lab' = Empty("half", lab.gen + 1) /\ primary' = primary
      BY <2>3, Zenon DEF KindCreateKilled
    <3>2. "half" \in States BY DEF States
    <3> QED BY <1>5, <1>6, <3>1, <3>2, EmptyTyped, Zenon
  <2>4. CASE LoadImage(t)
    <3>1. lab' = [lab EXCEPT !.images = @ \cup {proc[t].image}] /\ primary' = primary
          /\ Call(t)[1] = "load image"
      BY <2>4, CallsRun, Zenon DEF LoadImage
    <3>2. proc[t].image \in Images
      <4>1. CallNow(t) BY <1>1, Running, Zenon
      <4>2. Call(t) \in CallsIn(proc[t].todo) BY <4>1, Zenon DEF CallNow
      <4>3. Call(t)[1] \in LoadCalls BY <3>1 DEF LoadCalls
      <4> QED BY <4>2, <4>3, Zenon DEF ProcsOK, ProcOK, Never
    <3>3. lab' \in LabSet BY <1>5, <3>1, <3>2 DEF LabSet
    <3> QED BY <1>6, <3>1, <3>3, Zenon
  <2>5. CASE SaveImage(t)
    <3>1. lab' = [lab EXCEPT !.config = proc[t].image] /\ primary' = primary
      BY <2>5, CallsRun, Zenon DEF SaveImage
    <3>2. proc[t].image \in Images \cup {NoImage} BY DEF Typed, ProcSet
    <3>3. lab' \in LabSet BY <1>5, <3>1, <3>2 DEF LabSet
    <3> QED BY <1>6, <3>1, <3>3, Zenon
  <2> QED BY <2>1, <2>2, <2>3, <2>4, <2>5
<1> QED BY <1>1, <1>2, <1>3, <1>4, <1>7, Together, Zenon

\* The calls on the releases and the manifests in the cluster.
LEMMA ReleasesOK ==
  ASSUME Typed, ProcsOK, NEW t \in Terminals,
         HelmInstall(t) \/ HelmUninstall(t) \/ Assets(t)
  PROVE  /\ Typed' /\ ProcsOK' /\ UNCHANGED <<primary, own>>
         /\ proc[t].result = "running" /\ Ran(t, Tail(proc[t].todo))
         /\ lab'.state = lab.state /\ lab'.gen = lab.gen /\ lab'.images = lab.images
         /\ lab'.config = lab.config
<1>1. UNCHANGED <<primary, own, begun, foreign>> /\ proc[t].result = "running"
  BY CallsRun, Zenon DEF HelmInstall, HelmUninstall, Assets, Calls
<1>2. Ran(t, Tail(proc[t].todo))
  <2>1. Done(t) \/ Fault(t) BY Zenon DEF HelmInstall, HelmUninstall, Assets
  <2> QED BY <1>1, <2>1, DoneRan, FaultRan, Zenon
<1>3. proc' \in [Terminals -> ProcSet] /\ faults' \in Nat /\ ProcsOK' BY <1>2, Zenon DEF Ran
<1>4. /\ primary' \in FileSet /\ own' \in FileSet /\ begun' \in Nat /\ foreign' \in BOOLEAN
  BY <1>1 DEF Typed
<1>5. /\ lab' \in LabSet /\ lab'.state = lab.state /\ lab'.gen = lab.gen
      /\ lab'.images = lab.images /\ lab'.config = lab.config
  <2>1. CASE HelmInstall(t)
    <3>1. Call(t)[1] = "helm install" BY <2>1, CallsRun, Zenon DEF HelmInstall
    <3>2. Call(t)[2] \in Components BY <1>1, <3>1, NamedComponent
    <3>3. proc[t].image \in Images \cup {NoImage} BY DEF Typed, ProcSet
    <3>4. PICK status \in {"deployed", "failed", "pending"} :
            Release(Call(t)[2], status, proc[t].image)
      BY <2>1 DEF HelmInstall
    <3> QED BY <3>2, <3>3, <3>4, ReleaseTyped, Zenon
  <2>2. CASE HelmUninstall(t)
    <3>1. /\ Call(t)[1] = "helm uninstall"
          /\ lab' = [lab EXCEPT !.releases[Call(t)[2]] = NoRelease]
      BY <2>2, CallsRun, Zenon DEF HelmUninstall
    <3>2. Call(t)[2] \in Components BY <1>1, <3>1, NamedComponent
    <3> QED BY <3>1, <3>2, UninstallTyped, Zenon
  <2>3. CASE Assets(t)
    <3>1. PICK assets \in {"all", "none", "some"} : lab' = [lab EXCEPT !.assets = assets]
      BY <2>3 DEF Assets
    <3> QED BY <3>1 DEF Typed, LabSet
  <2> QED BY <2>1, <2>2, <2>3
<1> QED BY <1>1, <1>2, <1>3, <1>4, <1>5, Together, Zenon

LEMMA StopOK ==
  ASSUME Typed, ProcsOK, NEW t \in Terminals, Refused(t) \/ GoesWrong(t)
  PROVE  /\ Typed' /\ ProcsOK' /\ UNCHANGED <<lab, primary, own, foreign>> /\ Stopped(t)
         /\ proc[t].result = "running"
         /\ GoesWrong(t) => Faulted(t)
<1>1. UNCHANGED <<lab, primary, own, begun, foreign>> /\ proc[t].result = "running"
  BY Zenon DEF Refused, GoesWrong
<1>2. /\ proc' \in [Terminals -> ProcSet] /\ faults' \in Nat /\ ProcsOK' /\ Stopped(t)
      /\ GoesWrong(t) => Faulted(t)
  <2>1. CASE GoesWrong(t)
    <3>1. Fault(t) BY <2>1, Zenon DEF GoesWrong
    <3> QED BY <1>1, <3>1, FaultRan, Zenon DEF Ran, Faulted
  <2>2. CASE Refused(t) /\ ~GoesWrong(t)
    <3>1. FALSE \in BOOLEAN OBVIOUS
    <3>2. Failed(t, FALSE) /\ faults' = faults BY <2>2, Zenon DEF Refused
    <3>3. faults' \in Nat BY <3>2 DEF Typed
    <3> QED BY <1>1, <2>2, <3>1, <3>2, <3>3, StopRan, Zenon
  <2> QED BY <2>1, <2>2
<1>3. /\ lab' \in LabSet /\ primary' \in FileSet /\ own' \in FileSet /\ begun' \in Nat
      /\ foreign' \in BOOLEAN
  BY <1>1 DEF Typed
<1> QED BY <1>1, <1>2, <1>3, Together, Zenon

\* The steps of a terminal, by what they may change.
Step(t) ==
  \/ \E c \in Commands[t] : Start(t, c)
  \/ Look(t) \/ LookForCluster(t) \/ ReadImage(t) \/ ReadCurrent(t) \/ LookAtOwn(t)
     \/ Find(t) \/ HelmOther(t)
  \/ Export(t) \/ SetAlias(t) \/ Restore(t) \/ UseContext(t)
     \/ ExportOwn(t) \/ RenameOwn(t) \/ DeleteOwn(t) \/ UseOwn(t)
  \/ KindCreate(t) \/ KindDelete(t) \/ LoadImage(t) \/ SaveImage(t)
     \/ KindCreateKilled(t)
  \/ HelmInstall(t) \/ HelmUninstall(t) \/ Assets(t)
  \/ Refused(t) \/ GoesWrong(t)

LEMMA Steps == Next => \E t \in Terminals : Step(t)
  BY Zenon DEF Next, Works, Step

LEMMA TypedInit == Init => Typed /\ ProcsOK
<1> SUFFICES ASSUME Init PROVE Typed /\ ProcsOK OBVIOUS
<1>1. lab \in LabSet
  <2>1. lab = Empty("none", 0) BY Zenon DEF Init
  <2>2. "none" \in States /\ 0 \in Nat BY DEF States
  <2> QED BY <2>1, <2>2, EmptyTyped, Zenon
<1>2. primary \in FileSet /\ own \in FileSet
  <2>1. /\ primary = [contexts |-> {Mine}, current |-> Mine, creds |-> 0]
        /\ own = [contexts |-> {}, current |-> None, creds |-> 0]
    BY Zenon DEF Init
  <2>2. Mine \in Contexts BY DEF Contexts
  <2> HIDE DEF Contexts, Mine
  <2> QED BY <2>1, <2>2 DEF FileSet
<1> DEFINE p == [cmd |-> <<"none">>, todo |-> <<>>, image |-> NoImage, saved |-> None,
                 before |-> Mine, faulty |-> FALSE, result |-> "ok"]
<1>3. proc = [t \in Terminals |-> p] BY Zenon DEF Init
<1>4. p \in ProcSet /\ ProcOK(p)
  <2> DEFINE c == <<"none">> s == <<>>
  <2>1. c \in Arguments \cup {<<"none">>} /\ c[1] = "none" BY NameOf, Zenon
  <2>2. s \in Seq(CallSet) /\ Shape(s) /\ CallsIn(s) = {} /\ s = <<>> BY EmptyShape, Zenon
  <2>3. p = [cmd |-> c, todo |-> s, image |-> NoImage, saved |-> None,
             before |-> Mine, faulty |-> FALSE, result |-> "ok"]
    BY Zenon
  <2>4. Mine \in Contexts BY DEF Contexts
  <2> HIDE DEF c, s, p, Contexts, Mine
  <2>5. p \in ProcSet BY <2>1, <2>2, <2>3, <2>4 DEF ProcSet
  <2>6. p.cmd = c /\ p.todo = s /\ p.result = "ok" BY <2>3
  <2>7. p.result # "running" BY <2>6
  <2>8. ProcOK(p)
    BY <2>1, <2>2, <2>6, <2>7, Zenon DEF ProcOK, Speaks, Never
  <2> QED BY <2>5, <2>8
<1> HIDE DEF p
<1>5. proc \in [Terminals -> ProcSet] /\ ProcsOK
  BY <1>3, <1>4 DEF ProcsOK
<1>6. foreign \in BOOLEAN /\ begun \in Nat /\ faults \in Nat BY DEF Init
<1> QED BY <1>1, <1>2, <1>5, <1>6, Zenon DEF Typed

LEMMA TypedNext == Typed /\ ProcsOK /\ [Next]_vars => Typed' /\ ProcsOK'
<1> SUFFICES ASSUME Typed, ProcsOK, [Next]_vars PROVE Typed' /\ ProcsOK' OBVIOUS
<1>1. CASE UNCHANGED vars
  <2>1. /\ lab' = lab /\ primary' = primary /\ own' = own /\ proc' = proc
        /\ foreign' = foreign /\ begun' = begun /\ faults' = faults
    BY <1>1 DEF vars
  <2> QED BY <2>1 DEF Typed, ProcsOK
<1>2. CASE Next
  BY <1>2, Steps, StartOK, QuietOK, FilesOK, ClusterOK, ReleasesOK, StopOK, Zenon DEF Step
<1> QED BY <1>1, <1>2

-----------------------------------------------------------------------------
(* Files, releases and images on their way *)

\* What the files and the releases are beyond their types.
FilesFine ==
  own.contexts \subseteq {Kind, Alias} /\ primary.current \in primary.contexts \cup {None}
ReleasesFine ==
  \A c \in Components :
    \/ lab.releases[c] = NoRelease
    \/ /\ lab.releases[c].status \in {"deployed", "failed", "pending"}
       /\ lab.releases[c].image \in Images
LEMMA FilesFineNext ==
  ASSUME Typed, ProcsOK, FilesFine, Next
  PROVE  FilesFine'
<1>0. primary \in FileSet /\ own \in FileSet BY Zenon DEF Typed
<1>1. PICK t \in Terminals : Step(t) BY Steps, Zenon
<1>2. CASE UNCHANGED <<primary, own>> BY <1>2, Zenon DEF FilesFine
<1>3. CASE Export(t)
  <2>1. primary' = Exported(primary) /\ own' = own BY <1>3, Zenon DEF Export
  <2>2. primary'.current = Kind /\ Kind \in primary'.contexts BY <2>1 DEF Exported
  <2> QED BY <2>1, <2>2 DEF FilesFine
<1>4. CASE SetAlias(t)
  <2>1. primary' = [primary EXCEPT !.contexts = @ \cup {Alias}] /\ own' = own
    BY <1>4, Zenon DEF SetAlias
  <2>2. primary'.current = primary.current /\ primary.contexts \subseteq primary'.contexts
    BY <1>0, <2>1 DEF FileSet
  <2> QED BY <2>1, <2>2 DEF FilesFine
<1>5. CASE Restore(t)
  <2>1. primary' = [primary EXCEPT !.current = proc[t].saved] /\ own' = own
    BY <1>5, Zenon DEF Restore
  <2>2. Call(t)[1] = "restore" /\ Possible(t) BY <1>5, CallsRun, Zenon DEF Restore
  <2>3. proc[t].saved \in primary.contexts BY <2>2, Zenon DEF Possible
  <2>4. primary'.current = proc[t].saved /\ primary'.contexts = primary.contexts
    BY <1>0, <2>1 DEF FileSet
  <2> QED BY <2>1, <2>3, <2>4 DEF FilesFine
<1>6. CASE UseContext(t)
  <2>1. primary' = [primary EXCEPT !.current = Call(t)[2]] /\ own' = own
    BY <1>6, Zenon DEF UseContext
  <2>2. proc[t].result = "running" /\ Call(t)[1] = "use" /\ Possible(t)
    BY <1>6, CallsRun, Zenon DEF UseContext
  <2>3. Call(t)[2] \in primary.contexts BY <2>2, NamedContext
  <2>4. primary'.current = Call(t)[2] /\ primary'.contexts = primary.contexts
    BY <1>0, <2>1 DEF FileSet
  <2> QED BY <2>1, <2>3, <2>4 DEF FilesFine
<1>7. CASE ExportOwn(t)
  <2>1. own' = Exported(own) /\ primary' = primary BY <1>7, Zenon DEF ExportOwn
  <2>2. own'.contexts = own.contexts \cup {Kind} BY <2>1 DEF Exported
  <2> QED BY <2>1, <2>2 DEF FilesFine
<1>8. CASE RenameOwn(t)
  <2>1. /\ own' = [own EXCEPT !.contexts = (@ \ {Kind}) \cup {Alias},
                              !.current = IF @ = Kind THEN Alias ELSE @]
        /\ primary' = primary
    BY <1>8, Zenon DEF RenameOwn
  <2>2. own'.contexts = (own.contexts \ {Kind}) \cup {Alias} BY <1>0, <2>1 DEF FileSet
  <2> QED BY <2>1, <2>2 DEF FilesFine
<1>9. CASE DeleteOwn(t)
  <2>1. own' = [own EXCEPT !.contexts = @ \ {Kind}] /\ primary' = primary
    BY <1>9, Zenon DEF DeleteOwn
  <2>2. own'.contexts = own.contexts \ {Kind} BY <1>0, <2>1 DEF FileSet
  <2> QED BY <2>1, <2>2 DEF FilesFine
<1>10. CASE UseOwn(t)
  <2>1. own' = [own EXCEPT !.current = Alias] /\ primary' = primary
    BY <1>10, Zenon DEF UseOwn
  <2>2. own'.contexts = own.contexts BY <1>0, <2>1 DEF FileSet
  <2> QED BY <2>1, <2>2 DEF FilesFine
<1>11. CASE KindCreate(t)
  <2>1. /\ own' = own
        /\ primary' = [contexts |-> primary.contexts \cup {Kind}, current |-> Kind,
                       creds |-> lab.gen + 1]
    BY <1>11, Zenon DEF KindCreate
  <2>2. primary'.current = Kind /\ Kind \in primary'.contexts BY <2>1
  <2> QED BY <2>1, <2>2 DEF FilesFine
<1>12. CASE KindDelete(t)
  <2>1. /\ own' = own
        /\ primary' = [contexts |-> primary.contexts \ {Kind}, creds |-> 0,
               current |-> IF primary.current = Kind THEN None ELSE primary.current]
    BY <1>12, Zenon DEF KindDelete
  <2>2. /\ primary'.contexts = primary.contexts \ {Kind}
        /\ primary'.current = IF primary.current = Kind THEN None ELSE primary.current
    BY <2>1
  <2> QED BY <2>1, <2>2 DEF FilesFine
<1>13. CASE \E c \in Commands[t] : Start(t, c)
  BY <1>2, <1>13, Zenon DEF Start
<1>14. CASE Look(t) \/ LookForCluster(t) \/ ReadImage(t) \/ ReadCurrent(t) \/ LookAtOwn(t)
              \/ Find(t) \/ HelmOther(t)
  BY <1>2, <1>14, QuietOK, Zenon
<1>15. CASE LoadImage(t) \/ SaveImage(t) \/ KindCreateKilled(t)
  BY <1>2, <1>15, Zenon DEF LoadImage, SaveImage, KindCreateKilled
<1>16. CASE HelmInstall(t) \/ HelmUninstall(t) \/ Assets(t) BY <1>2, <1>16, ReleasesOK, Zenon
<1>17. CASE Refused(t) \/ GoesWrong(t) BY <1>2, <1>17, StopOK, Zenon
<1> QED BY <1>1, <1>3, <1>4, <1>5, <1>6, <1>7, <1>8, <1>9, <1>10, <1>11, <1>12, <1>13, <1>14,
           <1>15, <1>16, <1>17, Zenon DEF Step

LEMMA NoReleases ==
  ASSUME Typed, ProcsOK, NEW t \in Terminals,
         KindCreate(t) \/ KindDelete(t) \/ KindCreateKilled(t)
  PROVE  /\ Blank(lab')
         /\ KindDelete(t) => lab'.state = "none" /\ lab'.gen = lab.gen
         /\ KindCreate(t) => lab'.state = "up" /\ lab'.gen = lab.gen + 1 /\ lab.state = "none"
         /\ KindCreateKilled(t) =>
              lab'.state = "half" /\ lab'.gen = lab.gen + 1 /\ lab.state = "none"
<1>1. lab.gen \in Nat /\ lab.gen + 1 \in Nat BY DEF Typed, LabSet
<1>3. KindDelete(t) => lab' = Empty("none", lab.gen) BY Zenon DEF KindDelete
<1>4. /\ KindCreate(t) => lab' = Empty("up", lab.gen + 1) /\ Call(t)[1] = "kind create"
                          /\ Possible(t)
      /\ KindCreateKilled(t) => lab' = Empty("half", lab.gen + 1) /\ Call(t)[1] = "kind create"
                                /\ Possible(t)
  BY CallsRun, Zenon DEF KindCreate, KindCreateKilled
<1>5. KindCreate(t) \/ KindCreateKilled(t) => lab.state = "none"
  BY <1>4, Zenon DEF Possible
<1>6. "none" \in States /\ "half" \in States /\ "up" \in States BY DEF States
<1>7. ASSUME NEW state \in States, NEW gen \in Nat, lab' = Empty(state, gen)
      PROVE  Blank(lab') /\ lab'.state = state /\ lab'.gen = gen
  BY <1>7, EmptyTyped, Zenon
<1>8. KindDelete(t) => Blank(lab') /\ lab'.state = "none" /\ lab'.gen = lab.gen
  BY <1>1, <1>3, <1>6, <1>7, Zenon
<1>9. KindCreate(t) => Blank(lab') /\ lab'.state = "up" /\ lab'.gen = lab.gen + 1
  BY <1>1, <1>4, <1>6, <1>7, Zenon
<1>10. KindCreateKilled(t) => Blank(lab') /\ lab'.state = "half" /\ lab'.gen = lab.gen + 1
  BY <1>1, <1>4, <1>6, <1>7, Zenon
<1> QED BY <1>5, <1>8, <1>9, <1>10, Zenon

\* What an image still needs to be where its process wants it.
Carried(p, S) ==
  /\ Never(p.todo, {"save image"}) \/ ~Never(p.todo, {"load image"}) \/ p.image \in S
  /\ Ahead(p.todo) = "helm install" => p.image \in S

LEMMA CarriedNothing ==
  ASSUME NEW p, p.todo = <<>>, NEW S
  PROVE  Carried(p, S)
<1>1. "" # "helm install" OBVIOUS
<1> QED BY <1>1, EmptyShape, Zenon DEF Carried, Never

LEMMA CarriedDone ==
  ASSUME Typed, ProcsOK, NEW t \in Terminals, proc[t].result = "running",
         Ran(t, Tail(proc[t].todo)), NEW S, Carried(proc[t], S),
         Call(t)[1] # "read image", Call(t)[1] = "load image" => proc[t].image \in S
  PROVE  Carried(proc'[t], S)
<1>1. /\ May(Call(t), Ahead(Tail(proc[t].todo)))
      /\ CallsIn(proc[t].todo) = {Call(t)} \cup CallsIn(Tail(proc[t].todo))
  BY Running, Zenon DEF Behind, CallNow
<1>2. CASE Faulted(t)
  <2>1. proc'[t].todo = <<>> BY <1>2, Zenon DEF Faulted, Stopped
  <2> QED BY <2>1, CarriedNothing, Zenon
<1>3. CASE Moved(t, Tail(proc[t].todo))
  <2> DEFINE q == proc[t].todo s == Tail(q)
  <2>1. proc'[t].todo = s /\ proc'[t].image = proc[t].image BY <1>3, Zenon DEF Moved, Ran
  <2>2. May(Call(t), Ahead(s)) /\ CallsIn(q) = {Call(t)} \cup CallsIn(s) BY <1>1
  <2> HIDE DEF s, q
  <2>3. Ahead(s) # "helm install" BY <2>2 DEF May
  <2>4. Never(s, {"save image"}) \/ ~Never(s, {"load image"}) \/ proc[t].image \in S
    <3>1. CASE Call(t)[1] = "load image" BY <3>1
    <3>2. CASE Call(t)[1] # "load image"
      <4>1. Never(q, {"save image"}) \/ ~Never(q, {"load image"}) \/ proc[t].image \in S
        BY Zenon DEF Carried, q
      <4> QED BY <2>2, <3>2, <4>1, Zenon DEF Never
    <3> QED BY <3>1, <3>2
  <2> QED BY <2>1, <2>3, <2>4, Zenon DEF Carried
<1> QED BY <1>2, <1>3, Zenon DEF Ran

LEMMA CarriedOthers ==
  ASSUME NEW t \in Terminals, Others(t), NEW S, \A u \in Terminals : Carried(proc[u], S),
         Carried(proc'[t], S)
  PROVE  \A u \in Terminals : Carried(proc'[u], S)
  BY Zenon DEF Others

LEMMA RanOthers ==
  ASSUME NEW t \in Terminals, NEW s, Ran(t, s)
  PROVE  Others(t)
  BY Zenon DEF Ran, Moved, Faulted, Stopped

\* What a step keeps of the images on their way, if the saved one is where it should be.
LEMMA CarriedNext ==
  ASSUME Typed, ProcsOK, NEW t \in Terminals, Step(t), NEW S,
         \A u \in Terminals : Carried(proc[u], S), lab.config \in S \cup {NoImage},
         LoadImage(t) => proc[t].image \in S
  PROVE  \A u \in Terminals : Carried(proc'[u], S)
<1>0. Carried(proc[t], S) OBVIOUS
<1>1. CASE \E c \in Commands[t] : Start(t, c)
  <2>1. PICK c \in Commands[t] : Start(t, c) BY <1>1
  <2>2. Began(t, c) /\ c \in Arguments BY <2>1, StartOK, Zenon
  <2>3. Begins(c, Program(c)) BY <2>2, ProgramBegins, Zenon
  <2> DEFINE s == Program(c)
  <2>4. proc'[t].todo = s /\ Others(t) BY <2>2, Zenon DEF Began
  <2>5. Never(s, {"save image"}) \/ ~Never(s, {"load image"})
    <3>1. CASE c[1] \in Creates
      <4>1. <<"load image">> \in CallsIn(s) BY <2>3, <3>1, Zenon DEF Begins
      <4> QED BY <4>1, NameOf, Zenon DEF Never
    <3>2. CASE c[1] \notin Creates
      <4>1. Speaks(c[1], s) BY <2>3, Zenon DEF Begins
      <4>2. "save image" \in ImageCalls BY DEF ImageCalls
      <4> QED BY <3>2, <4>1, <4>2, Zenon DEF Speaks, Allowed, Never
    <3> QED BY <3>1, <3>2
  <2>6. Ahead(s) # "helm install" BY <2>3, Zenon DEF Begins
  <2>7. Carried(proc'[t], S) BY <2>4, <2>5, <2>6, Zenon DEF Carried
  <2> QED BY <2>4, <2>7, CarriedOthers, Zenon
<1>2. CASE Look(t) \/ HelmOther(t)
  <2>1. /\ proc[t].result = "running" /\ Done(t)
        /\ Call(t)[1] \in {"fetch image", "cluster exists", "wait for nodes",
             "wait for scrape", "get", "helm at lab", "helm at current"}
    BY <1>2, CallsRun, Zenon DEF Look, HelmOther
  <2>2. Ran(t, Tail(proc[t].todo)) BY <2>1, DoneRan, Zenon
  <2>3. Call(t)[1] # "read image" /\ Call(t)[1] # "load image" BY <2>1
  <2> QED BY <1>0, <2>1, <2>2, <2>3, CarriedDone, CarriedOthers, RanOthers, Zenon
<1>3. CASE LookForCluster(t)
  <2>1. PICK s : /\ Ran(t, s) /\ Ahead(s) \in {"kind create", "load image"}
                 /\ ~Never(s, {"load image"})
    BY <1>3, LookForClusterRan, Zenon
  <2>2. Carried(proc'[t], S)
    <3>1. CASE Moved(t, s)
      <4>1. proc'[t].todo = s BY <3>1, Zenon DEF Moved
      <4>2. Ahead(s) # "helm install" BY <2>1
      <4> QED BY <2>1, <4>1, <4>2, Zenon DEF Carried
    <3>2. CASE Faulted(t) BY <3>2, CarriedNothing, Zenon DEF Faulted, Stopped
    <3> QED BY <2>1, <3>1, <3>2, Zenon DEF Ran
  <2> QED BY <2>1, <2>2, CarriedOthers, RanOthers, Zenon
<1>4. CASE ReadImage(t)
  <2>1. /\ proc[t].result = "running" /\ Call(t)[1] = "read image" /\ Possible(t)
    BY <1>4, CallsRun, Zenon DEF ReadImage
  <2>2. \/ Moved(t, Tail(proc[t].todo)) /\ proc'[t].image = lab.config
        \/ Faulted(t)
    BY <1>4, ReadImageRan, Zenon
  <2>3. lab.config \in S
    <3>1. ImageSaved BY <2>1, Zenon DEF Possible
    <3> QED BY <3>1 DEF ImageSaved
  <2>4. Carried(proc'[t], S)
    <3>1. CASE Moved(t, Tail(proc[t].todo)) /\ proc'[t].image = lab.config
      BY <2>3, <3>1, Zenon DEF Carried
    <3>2. CASE Faulted(t) BY <3>2, CarriedNothing, Zenon DEF Faulted, Stopped
    <3> QED BY <2>2, <3>1, <3>2
  <2>5. Others(t) BY <2>2, Zenon DEF Moved, Faulted, Stopped
  <2> QED BY <2>4, <2>5, CarriedOthers, Zenon
<1>5. CASE ReadCurrent(t)
  <2>1. /\ proc[t].result = "running" /\ Call(t)[1] = "read current"
    BY <1>5, CallsRun, Zenon DEF ReadCurrent
  <2>2. /\ proc' \in [Terminals -> ProcSet] /\ faults' \in Nat /\ ProcsOK'
        /\ proc'[t].image = proc[t].image
        /\ Moved(t, Tail(proc[t].todo)) \/ Faulted(t)
    BY <1>5, ReadCurrentRan, Zenon
  <2>3. Others(t) BY <2>2, Zenon DEF Moved, Faulted, Stopped
  <2>4. Carried(proc'[t], S)
    <3>1. CASE Faulted(t) BY <3>1, CarriedNothing, Zenon DEF Faulted, Stopped
    <3>2. CASE Moved(t, Tail(proc[t].todo))
      <4> DEFINE q == proc[t].todo s == Tail(q)
      <4>1. May(Call(t), Ahead(s)) /\ CallsIn(q) = {Call(t)} \cup CallsIn(s)
        BY <2>1, Running, Zenon DEF Behind, CallNow
      <4>2. proc'[t].todo = s BY <3>2, Zenon DEF Moved
      <4>3. Never(q, {"save image"}) \/ ~Never(q, {"load image"}) \/ proc[t].image \in S
        BY <1>0, Zenon DEF Carried
      <4> HIDE DEF s, q
      <4>4. Ahead(s) # "helm install" BY <2>1, <4>1 DEF May
      <4>5. Call(t)[1] # "load image" BY <2>1
      <4>6. Never(s, {"save image"}) \/ ~Never(s, {"load image"}) \/ proc[t].image \in S
        BY <4>1, <4>3, <4>5, Zenon DEF Never
      <4> QED BY <2>2, <4>2, <4>4, <4>6, Zenon DEF Carried
    <3> QED BY <2>2, <3>1, <3>2
  <2> QED BY <2>3, <2>4, CarriedOthers, Zenon
<1>6. CASE LookAtOwn(t)
  <2>1. PICK s : /\ Ran(t, s)
                 /\ Ahead(s) \in {"use own", "delete own", "rename own"}
                 /\ \A x \in CallsIn(s) :
                     x \in CallsIn(proc[t].todo) \/ x[1] \in {"rename own", "delete own"}
                 /\ \A x \in CallsIn(proc[t].todo) : x[1] = "look at own" \/ x \in CallsIn(s)
    BY <1>6, LookAtOwnRan
  <2>2. Carried(proc'[t], S)
    <3>1. CASE Faulted(t) BY <3>1, CarriedNothing, Zenon DEF Faulted, Stopped
    <3>2. CASE Moved(t, s)
      <4>1. proc'[t].todo = s /\ proc'[t].image = proc[t].image
        BY <2>1, <3>2, Zenon DEF Moved, Ran
      <4>2. Ahead(s) # "helm install" BY <2>1
      <4> DEFINE q == proc[t].todo
      <4>3. Never(q, {"save image"}) \/ ~Never(q, {"load image"}) \/ proc[t].image \in S
        BY <1>0, Zenon DEF Carried
      <4>4. Never(q, {"save image"}) => Never(s, {"save image"})
        <5>1. "save image" \notin {"rename own", "delete own"} OBVIOUS
        <5> QED BY <2>1, <5>1, Zenon DEF Never
      <4>5. ~Never(q, {"load image"}) => ~Never(s, {"load image"})
        <5>1. "load image" # "look at own" OBVIOUS
        <5> QED BY <2>1, <5>1, Zenon DEF Never
      <4> QED BY <4>1, <4>2, <4>3, <4>4, <4>5, Zenon DEF Carried
    <3> QED BY <2>1, <3>1, <3>2, Zenon DEF Ran
  <2> QED BY <2>1, <2>2, CarriedOthers, RanOthers, Zenon
<1>7. CASE Find(t)
  <2>1. PICK s : /\ Ran(t, s) /\ Ahead(s) \in {"use", "read current"} /\ proc[t].cmd[1] = "use"
    BY <1>7, FindRan, Zenon
  <2>2. Carried(proc'[t], S)
    <3>1. CASE Faulted(t) BY <3>1, CarriedNothing, Zenon DEF Faulted, Stopped
    <3>2. CASE Moved(t, s)
      <4>1. proc'[t].todo = s /\ proc'[t].cmd[1] = "use" BY <2>1, <3>2, Zenon DEF Moved, Kept
      <4>2. Ahead(s) # "helm install" BY <2>1
      <4>3. Speaks("use", s) BY <2>1, <4>1, Zenon DEF Ran, ProcsOK, ProcOK
      <4>4. "use" \notin Creates /\ "save image" \in ImageCalls BY DEF Creates, ImageCalls
      <4>5. Never(s, {"save image"}) BY <4>3, <4>4, Zenon DEF Never, Speaks, Allowed
      <4> QED BY <4>1, <4>2, <4>5, Zenon DEF Carried
    <3> QED BY <2>1, <3>1, <3>2, Zenon DEF Ran
  <2> QED BY <2>1, <2>2, CarriedOthers, RanOthers, Zenon
<1>8. CASE Export(t) \/ SetAlias(t) \/ Restore(t) \/ UseContext(t)
           \/ ExportOwn(t) \/ RenameOwn(t) \/ DeleteOwn(t) \/ UseOwn(t)
  <2>1. Call(t)[1] \in {"export", "alias", "restore", "use", "export own", "rename own",
                        "delete own", "use own"}
    BY <1>8, CallsRun, Zenon DEF Export, SetAlias, Restore, UseContext, ExportOwn, RenameOwn,
                                 DeleteOwn, UseOwn
  <2>2. Call(t)[1] # "read image" /\ Call(t)[1] # "load image" BY <2>1
  <2>3. proc[t].result = "running" /\ Ran(t, Tail(proc[t].todo)) BY <1>8, FilesOK, Zenon
  <2> QED BY <1>0, <2>2, <2>3, CarriedDone, CarriedOthers, RanOthers, Zenon
<1>9. CASE KindCreate(t) \/ KindDelete(t) \/ LoadImage(t) \/ SaveImage(t) \/ KindCreateKilled(t)
  <2>1. /\ Call(t)[1] \in {"kind create", "kind delete", "load image", "save image"}
        /\ LoadImage(t) \/ Call(t)[1] \in {"kind create", "kind delete", "save image"}
    BY <1>9, CallsRun, Zenon DEF KindCreate, KindDelete, LoadImage, SaveImage, KindCreateKilled
  <2>2. Call(t)[1] # "read image" /\ (Call(t)[1] = "load image" => LoadImage(t)) BY <2>1
  <2>3. proc[t].result = "running" /\ Ran(t, Tail(proc[t].todo)) BY <1>9, ClusterOK, Zenon
  <2> QED BY <1>0, <2>2, <2>3, CarriedDone, CarriedOthers, RanOthers, Zenon
<1>10. CASE HelmInstall(t) \/ HelmUninstall(t) \/ Assets(t)
  <2>1. Call(t)[1] \in {"helm install", "helm uninstall", "apply assets", "delete assets"}
    BY <1>10, CallsRun, Zenon DEF HelmInstall, HelmUninstall, Assets
  <2>2. Call(t)[1] # "read image" /\ Call(t)[1] # "load image" BY <2>1
  <2>3. proc[t].result = "running" /\ Ran(t, Tail(proc[t].todo)) BY <1>10, ReleasesOK, Zenon
  <2> QED BY <1>0, <2>2, <2>3, CarriedDone, CarriedOthers, RanOthers, Zenon
<1>11. CASE Refused(t) \/ GoesWrong(t)
  <2>1. Stopped(t) BY <1>11, StopOK, Zenon
  <2>2. Carried(proc'[t], S) BY <2>1, CarriedNothing, Zenon DEF Stopped
  <2> QED BY <2>1, <2>2, CarriedOthers, Zenon DEF Stopped
<1> QED BY <1>1, <1>2, <1>3, <1>4, <1>5, <1>6, <1>7, <1>8, <1>9, <1>10, <1>11, Zenon DEF Step

LEMMA ReleasesFineNext ==
  ASSUME Typed, ProcsOK, ReleasesFine, NEW t \in Terminals, Step(t), Carried(proc[t], Images)
  PROVE  ReleasesFine'
<1>1. CASE UNCHANGED lab BY <1>1, Zenon DEF ReleasesFine
<1>2. CASE \E c \in Commands[t] : Start(t, c) BY <1>1, <1>2, Zenon DEF Start
<1>3. CASE Look(t) \/ LookForCluster(t) \/ ReadImage(t) \/ ReadCurrent(t) \/ LookAtOwn(t)
             \/ Find(t) \/ HelmOther(t)
  BY <1>1, <1>3, QuietOK, Zenon
<1>4. CASE Export(t) \/ SetAlias(t) \/ Restore(t) \/ UseContext(t)
             \/ ExportOwn(t) \/ RenameOwn(t) \/ DeleteOwn(t) \/ UseOwn(t)
  BY <1>1, <1>4, FilesOK, Zenon
<1>5. CASE KindCreate(t) \/ KindDelete(t) \/ KindCreateKilled(t)
  BY <1>5, NoReleases, Zenon DEF Blank, ReleasesFine
<1>6. CASE LoadImage(t) \/ SaveImage(t)
  <2>1. \/ lab' = [lab EXCEPT !.images = @ \cup {proc[t].image}]
        \/ lab' = [lab EXCEPT !.config = proc[t].image]
    BY <1>6, Zenon DEF LoadImage, SaveImage
  <2>2. lab'.releases = lab.releases BY <2>1 DEF Typed, LabSet
  <2> QED BY <2>2, Zenon DEF ReleasesFine
<1>7. CASE Assets(t)
  <2>1. PICK assets \in {"all", "none", "some"} : lab' = [lab EXCEPT !.assets = assets]
    BY <1>7 DEF Assets
  <2>2. lab'.releases = lab.releases BY <2>1 DEF Typed, LabSet
  <2> QED BY <2>2, Zenon DEF ReleasesFine
<1>8. CASE HelmUninstall(t)
  <2>1. /\ Call(t)[1] = "helm uninstall" /\ proc[t].result = "running"
        /\ lab' = [lab EXCEPT !.releases[Call(t)[2]] = NoRelease]
    BY <1>8, CallsRun, Zenon DEF HelmUninstall
  <2>2. Call(t)[2] \in Components BY <2>1, NamedComponent
  <2>3. /\ lab'.releases[Call(t)[2]] = NoRelease
        /\ \A d \in Components \ {Call(t)[2]} : lab'.releases[d] = lab.releases[d]
    BY <2>1, <2>2, UninstallTyped, Zenon
  <2> QED BY <2>3, Zenon DEF ReleasesFine
<1>9. CASE HelmInstall(t)
  <2>1. Call(t)[1] = "helm install" /\ proc[t].result = "running"
    BY <1>9, CallsRun, Zenon DEF HelmInstall
  <2>2. Call(t)[2] \in Components BY <2>1, NamedComponent
  <2>3. proc[t].image \in Images
    <3>1. Ahead(proc[t].todo) = "helm install" BY <2>1, Running, Zenon DEF CallNow
    <3> QED BY <3>1, Zenon DEF Carried
  <2>4. PICK status \in {"deployed", "failed", "pending"} :
          Release(Call(t)[2], status, proc[t].image)
    BY <1>9 DEF HelmInstall
  <2> DEFINE c == Call(t)[2]
  <2>5. /\ lab'.releases[c].status = status /\ lab'.releases[c].image = proc[t].image
        /\ \A d \in Components \ {c} : lab'.releases[d] = lab.releases[d]
    <3>1. proc[t].image \in Images \cup {NoImage} BY <2>3
    <3> QED BY <2>2, <2>4, <3>1, ReleaseTyped, Zenon
  <2> HIDE DEF c
  <2> QED BY <2>3, <2>5, Zenon DEF ReleasesFine
<1>10. CASE Refused(t) \/ GoesWrong(t) BY <1>1, <1>10, StopOK, Zenon
<1> QED BY <1>2, <1>3, <1>4, <1>5, <1>6, <1>7, <1>8, <1>9, <1>10, Zenon DEF Step

-----------------------------------------------------------------------------
(* The clusters that were made, and TypeOK *)

\* The commands that may still make a cluster, and how many have begun.
Makers == {t \in Terminals : ~Never(proc[t].todo, {"kind create"})}
Counted == lab.gen + Cardinality(Makers) <= begun /\ begun <= MaxCommands

LEMMA FewerMakers ==
  ASSUME ProcsOK, NEW t \in Terminals, proc[t].result = "running",
         Ran(t, Tail(proc[t].todo)) \/ Stopped(t)
  PROVE  Makers' \subseteq Makers /\ (Call(t)[1] = "kind create" => t \in Makers \ Makers')
<1>1. /\ CallsIn(proc[t].todo) = {Call(t)} \cup CallsIn(Tail(proc[t].todo))
      /\ Later(Call(t), Tail(proc[t].todo))
  BY Running, Zenon DEF Behind, CallNow
<1>2. Never(<<>>, {"kind create"}) BY EmptyShape, Zenon DEF Never
<1>3. Others(t) /\ proc'[t].todo \in {<<>>, Tail(proc[t].todo)}
  BY Zenon DEF Ran, Moved, Faulted, Stopped
<1>4. Never(proc[t].todo, {"kind create"}) => Never(proc'[t].todo, {"kind create"})
  BY <1>1, <1>2, <1>3, Zenon DEF Never
<1>5. Makers' \subseteq Makers BY <1>3, <1>4, Zenon DEF Makers, Others
<1>6. ASSUME Call(t)[1] = "kind create"
      PROVE  t \in Makers \ Makers'
  <2>1. ~Never(proc[t].todo, {"kind create"}) BY <1>1, <1>6, Zenon DEF Never
  <2>2. Never(Tail(proc[t].todo), {"kind create"}) BY <1>1, <1>6, Zenon DEF Later
  <2>3. Never(proc'[t].todo, {"kind create"}) BY <1>2, <1>3, <2>2, Zenon
  <2> QED BY <2>1, <2>3, Zenon DEF Makers
<1> QED BY <1>5, <1>6

LEMMA SameMakers ==
  ASSUME ProcsOK, NEW t \in Terminals, Others(t),
         Never(proc[t].todo, {"kind create"}) => Never(proc'[t].todo, {"kind create"})
  PROVE  Makers' \subseteq Makers
  BY Zenon DEF Makers, Others

LEMMA QuietMakers ==
  ASSUME Typed, ProcsOK, NEW t \in Terminals,
         LookForCluster(t) \/ ReadImage(t) \/ ReadCurrent(t) \/ LookAtOwn(t) \/ Find(t)
  PROVE  Makers' \subseteq Makers
<1>0. Never(<<>>, {"kind create"}) BY EmptyShape, Zenon DEF Never
<1>1. CASE LookForCluster(t)
  <2>1. PICK s : Ran(t, s) /\ \A x \in CallsIn(s) : x \in CallsIn(proc[t].todo)
    BY <1>1, LookForClusterRan, Zenon
  <2>2. Others(t) /\ proc'[t].todo \in {<<>>, s}
    BY <2>1, Zenon DEF Ran, Moved, Faulted, Stopped
  <2>3. Never(proc[t].todo, {"kind create"}) => Never(proc'[t].todo, {"kind create"})
    BY <1>0, <2>1, <2>2, Zenon DEF Never
  <2> QED BY <2>2, <2>3, SameMakers, Zenon
<1>2. CASE ReadImage(t)
  <2>1. proc[t].result = "running" /\ (Moved(t, Tail(proc[t].todo)) \/ Faulted(t))
    BY <1>2, CallsRun, ReadImageRan, Zenon DEF ReadImage
  <2>2. CallsIn(proc[t].todo) = {Call(t)} \cup CallsIn(Tail(proc[t].todo))
    BY <1>2, CallsRun, Running, Zenon DEF CallNow, ReadImage
  <2>3. Others(t) /\ proc'[t].todo \in {<<>>, Tail(proc[t].todo)}
    BY <2>1, Zenon DEF Moved, Faulted, Stopped
  <2>4. Never(proc[t].todo, {"kind create"}) => Never(proc'[t].todo, {"kind create"})
    BY <1>0, <2>2, <2>3, Zenon DEF Never
  <2> QED BY <2>3, <2>4, SameMakers, Zenon
<1>3. CASE ReadCurrent(t)
  <2>1. proc[t].result = "running" /\ (Moved(t, Tail(proc[t].todo)) \/ Faulted(t))
    BY <1>3, CallsRun, ReadCurrentRan, Zenon DEF ReadCurrent
  <2>2. CallsIn(proc[t].todo) = {Call(t)} \cup CallsIn(Tail(proc[t].todo))
    BY <1>3, CallsRun, Running, Zenon DEF CallNow, ReadCurrent
  <2>3. Others(t) /\ proc'[t].todo \in {<<>>, Tail(proc[t].todo)}
    BY <2>1, Zenon DEF Moved, Faulted, Stopped
  <2>4. Never(proc[t].todo, {"kind create"}) => Never(proc'[t].todo, {"kind create"})
    BY <1>0, <2>2, <2>3, Zenon DEF Never
  <2> QED BY <2>3, <2>4, SameMakers, Zenon
<1>4. CASE LookAtOwn(t)
  <2>1. PICK s : /\ Ran(t, s)
                 /\ \A x \in CallsIn(s) :
                      x \in CallsIn(proc[t].todo) \/ x[1] \in {"rename own", "delete own"}
    BY <1>4, LookAtOwnRan, Zenon
  <2>2. Others(t) /\ proc'[t].todo \in {<<>>, s}
    BY <2>1, Zenon DEF Ran, Moved, Faulted, Stopped
  <2>3. "kind create" \notin {"rename own", "delete own"} OBVIOUS
  <2>4. Never(proc[t].todo, {"kind create"}) => Never(proc'[t].todo, {"kind create"})
    BY <1>0, <2>1, <2>2, <2>3, Zenon DEF Never
  <2> QED BY <2>2, <2>4, SameMakers, Zenon
<1>5. CASE Find(t)
  <2>1. PICK s : Ran(t, s) /\ proc[t].cmd[1] = "use"
    BY <1>5, FindRan, Zenon
  <2>2. Others(t) /\ Kept(t) BY <2>1, Zenon DEF Ran, Moved, Faulted, Stopped
  <2>3. Speaks("use", proc'[t].todo) BY <2>1, <2>2, Zenon DEF Ran, ProcsOK, ProcOK, Kept
  <2>4. "use" \notin Creates /\ "kind create" \in ImageCalls BY DEF Creates, ImageCalls
  <2>5. Never(proc'[t].todo, {"kind create"})
    BY <2>3, <2>4, Zenon DEF Never, Speaks, Allowed
  <2> QED BY <2>2, <2>5, SameMakers, Zenon
<1> QED BY <1>1, <1>2, <1>3, <1>4, <1>5

LEMMA CountedNext ==
  ASSUME Typed, ProcsOK, Counted, NEW t \in Terminals, Step(t)
  PROVE  Counted'
<1>0. /\ IsFiniteSet(Makers) /\ Cardinality(Makers) \in Nat /\ lab.gen \in Nat /\ begun \in Nat
      /\ MaxCommands \in Nat
  BY LabAssumption, FS_Subset, FS_CardinalityType DEF Makers, Typed, LabSet
<1>1. CASE Makers' \subseteq Makers /\ begun' = begun /\ lab'.gen = lab.gen
  <2>1. Cardinality(Makers') <= Cardinality(Makers) /\ Cardinality(Makers') \in Nat
    BY <1>0, <1>1, FS_Subset, FS_CardinalityType
  <2> QED BY <1>0, <1>1, <2>1 DEF Counted
<1>2. CASE \E c \in Commands[t] : Start(t, c)
  <2>1. PICK c \in Commands[t] : Start(t, c) BY <1>2
  <2>2. begun < MaxCommands /\ begun' = begun + 1 /\ lab' = lab BY <2>1, Zenon DEF Start
  <2>3. Others(t) BY <2>1, StartOK, Zenon DEF Began
  <2>4. Makers' \subseteq Makers \cup {t} BY <2>3, Zenon DEF Makers, Others
  <2>5. /\ IsFiniteSet(Makers \cup {t})
        /\ Cardinality(Makers \cup {t}) <= Cardinality(Makers) + 1
    <3>1. /\ IsFiniteSet(Makers \cup {t})
          /\ Cardinality(Makers \cup {t}) =
               IF t \in Makers THEN Cardinality(Makers) ELSE Cardinality(Makers) + 1
      BY <1>0, FS_AddElement, Zenon
    <3>2. t \in Makers \/ t \notin Makers OBVIOUS
    <3> QED BY <1>0, <3>1, <3>2
  <2>6. /\ Cardinality(Makers') <= Cardinality(Makers \cup {t}) /\ Cardinality(Makers') \in Nat
        /\ Cardinality(Makers \cup {t}) \in Nat
    BY <2>4, <2>5, FS_Subset, FS_CardinalityType
  <2> QED BY <1>0, <2>2, <2>5, <2>6 DEF Counted
<1>3. CASE KindCreate(t) \/ KindCreateKilled(t)
  <2>1. /\ proc[t].result = "running" /\ Ran(t, Tail(proc[t].todo))
        /\ Call(t)[1] = "kind create" /\ begun' = begun /\ lab'.gen = lab.gen + 1
    <3>1. proc[t].result = "running" /\ Ran(t, Tail(proc[t].todo)) BY <1>3, ClusterOK, Zenon
    <3>2. Call(t)[1] = "kind create" /\ begun' = begun
      BY <1>3, CallsRun, Zenon DEF KindCreate, KindCreateKilled
    <3>3. lab'.gen = lab.gen + 1 BY <1>3, NoReleases, Zenon
    <3> QED BY <3>1, <3>2, <3>3
  <2>2. Makers' \subseteq Makers /\ t \in Makers \ Makers' BY <2>1, FewerMakers, Zenon
  <2>3. Makers' \subseteq Makers \ {t} BY <2>2
  <2>4. IsFiniteSet(Makers \ {t}) /\ Cardinality(Makers \ {t}) = Cardinality(Makers) - 1
    BY <1>0, <2>2, FS_RemoveElement
  <2>5. Cardinality(Makers') <= Cardinality(Makers \ {t}) /\ Cardinality(Makers') \in Nat
    BY <2>3, <2>4, FS_Subset, FS_CardinalityType
  <2> DEFINE m == Cardinality(Makers) n == Cardinality(Makers \ {t}) k == Cardinality(Makers')
  <2>6. /\ m \in Nat /\ k \in Nat /\ n = m - 1 /\ k <= n /\ lab.gen + m <= begun
        /\ begun <= MaxCommands
    BY <1>0, <2>4, <2>5, Zenon DEF Counted
  <2> HIDE DEF m, n, k
  <2>7. (lab.gen + 1) + k <= begun BY <1>0, <2>6
  <2>8. lab'.gen + k <= begun' /\ begun' <= MaxCommands BY <2>1, <2>6, <2>7
  <2> QED BY <2>8 DEF Counted, k
<1>4. CASE Look(t) \/ HelmOther(t)
  <2>1. proc[t].result = "running" /\ Done(t) /\ begun' = begun /\ lab' = lab
    BY <1>4, CallsRun, Zenon DEF Look, HelmOther
  <2> QED BY <1>1, <2>1, DoneRan, FewerMakers, Zenon
<1>5. CASE LookForCluster(t) \/ ReadImage(t) \/ ReadCurrent(t) \/ LookAtOwn(t) \/ Find(t)
  <2>1. begun' = begun /\ lab' = lab
    BY <1>5, CallsRun, Zenon DEF LookForCluster, ReadImage, ReadCurrent, LookAtOwn, Find
  <2> QED BY <1>1, <1>5, <2>1, QuietMakers, Zenon
<1>6. CASE Export(t) \/ SetAlias(t) \/ Restore(t) \/ UseContext(t)
             \/ ExportOwn(t) \/ RenameOwn(t) \/ DeleteOwn(t) \/ UseOwn(t)
  <2>1. begun' = begun
    BY <1>6, CallsRun, Zenon DEF Export, SetAlias, Restore, UseContext, ExportOwn, RenameOwn,
                                 DeleteOwn, UseOwn
  <2> QED BY <1>1, <1>6, <2>1, FilesOK, FewerMakers, Zenon
<1>7. CASE KindDelete(t)
  <2>1. begun' = begun BY <1>7, CallsRun, Zenon DEF KindDelete
  <2> QED BY <1>1, <1>7, <2>1, ClusterOK, NoReleases, FewerMakers, Zenon
<1>8. CASE LoadImage(t) \/ SaveImage(t)
  <2>1. begun' = begun BY <1>8, CallsRun, Zenon DEF LoadImage, SaveImage
  <2>2. \/ lab' = [lab EXCEPT !.images = @ \cup {proc[t].image}]
        \/ lab' = [lab EXCEPT !.config = proc[t].image]
    BY <1>8, Zenon DEF LoadImage, SaveImage
  <2>3. lab'.gen = lab.gen BY <2>2 DEF Typed, LabSet
  <2> QED BY <1>1, <1>8, <2>1, <2>3, ClusterOK, FewerMakers, Zenon
<1>9. CASE HelmInstall(t) \/ HelmUninstall(t) \/ Assets(t)
  <2>1. begun' = begun BY <1>9, CallsRun, Zenon DEF HelmInstall, HelmUninstall, Assets
  <2> QED BY <1>1, <1>9, <2>1, ReleasesOK, FewerMakers, Zenon
<1>10. CASE Refused(t) \/ GoesWrong(t)
  <2>1. begun' = begun BY <1>10, Zenon DEF Refused, GoesWrong
  <2> QED BY <1>1, <1>10, <2>1, StopOK, FewerMakers, Zenon
<1> QED BY <1>2, <1>3, <1>4, <1>5, <1>6, <1>7, <1>8, <1>9, <1>10, Zenon DEF Step

\* The types, and what keeps them.
Carries == \A t \in Terminals : Carried(proc[t], Images)
TypeInv == Typed /\ ProcsOK /\ FilesFine /\ ReleasesFine /\ Carries /\ Counted

LEMMA IdleProc ==
  Init => \A t \in Terminals : proc[t].todo = <<>> /\ proc[t].cmd[1] = "none"
<1> SUFFICES ASSUME Init, NEW t \in Terminals
             PROVE  proc[t].todo = <<>> /\ proc[t].cmd[1] = "none"
  OBVIOUS
<1> DEFINE p == [cmd |-> <<"none">>, todo |-> <<>>, image |-> NoImage, saved |-> None,
                 before |-> Mine, faulty |-> FALSE, result |-> "ok"]
<1>1. proc = [u \in Terminals |-> p] BY Zenon DEF Init
<1>2. p.todo = <<>> /\ p.cmd = <<"none">> OBVIOUS
<1> HIDE DEF p
<1>3. proc[t] = p BY <1>1
<1>4. proc[t].cmd = <<"none">> BY <1>2, <1>3, Zenon
<1>5. proc[t].cmd[1] = "none" BY <1>4, NameOf, Zenon
<1> QED BY <1>2, <1>3, <1>5, Zenon

LEMMA BlankInit == Init => Blank(lab) /\ lab.state = "none" /\ lab.gen = 0
<1> SUFFICES ASSUME Init PROVE Blank(lab) /\ lab.state = "none" /\ lab.gen = 0 OBVIOUS
<1>1. lab = Empty("none", 0) BY Zenon DEF Init
<1>2. "none" \in States /\ 0 \in Nat BY DEF States
<1> QED BY <1>1, <1>2, EmptyTyped, Zenon

LEMMA TypeInvInit == Init => TypeInv
<1> SUFFICES ASSUME Init PROVE TypeInv OBVIOUS
<1>1. Typed /\ ProcsOK BY TypedInit
<1>2. FilesFine
  <2>1. /\ primary = [contexts |-> {Mine}, current |-> Mine, creds |-> 0]
        /\ own = [contexts |-> {}, current |-> None, creds |-> 0]
    BY Zenon DEF Init
  <2>2. primary.contexts = {Mine} /\ primary.current = Mine /\ own.contexts = {} BY <2>1
  <2> QED BY <2>2 DEF FilesFine
<1>3. Blank(lab) /\ lab.gen = 0 BY BlankInit
<1>4. ReleasesFine BY <1>3, Zenon DEF ReleasesFine, Blank
<1>5. Carries BY IdleProc, CarriedNothing, Zenon DEF Carries
<1>6. Counted
  <2>1. Never(<<>>, {"kind create"}) BY EmptyShape, Zenon DEF Never
  <2>2. Makers = {} BY <2>1, IdleProc, Zenon DEF Makers
  <2>3. Cardinality(Makers) = 0 BY <2>2, FS_EmptySet, Zenon
  <2>4. begun = 0 BY Zenon DEF Init
  <2> QED BY <1>3, <2>3, <2>4, LabAssumption DEF Counted
<1> QED BY <1>1, <1>2, <1>4, <1>5, <1>6, Zenon DEF TypeInv

LEMMA TypeInvNext == TypeInv /\ [Next]_vars => TypeInv'
<1> SUFFICES ASSUME TypeInv, [Next]_vars PROVE TypeInv' OBVIOUS
<1>0. Typed /\ ProcsOK /\ FilesFine /\ ReleasesFine /\ Carries /\ Counted
  BY Zenon DEF TypeInv
<1>1. CASE UNCHANGED vars
  <2>1. /\ lab' = lab /\ primary' = primary /\ own' = own /\ proc' = proc /\ begun' = begun
    BY <1>1 DEF vars
  <2>2. Typed' /\ ProcsOK' BY <1>0, TypedNext, Zenon
  <2>3. FilesFine' /\ ReleasesFine' /\ Carries' /\ Counted'
    BY <1>0, <2>1 DEF FilesFine, ReleasesFine, Carries, Counted, Makers
  <2> QED BY <2>2, <2>3, Zenon DEF TypeInv
<1>2. CASE Next
  <2>1. PICK t \in Terminals : Step(t) BY <1>2, Steps, Zenon
  <2>2. Typed' /\ ProcsOK' BY <1>0, TypedNext, Zenon
  <2>3. FilesFine' BY <1>0, <1>2, FilesFineNext, Zenon
  <2>4. Carried(proc[t], Images) BY <1>0, Zenon DEF Carries
  <2>5. ReleasesFine' BY <1>0, <2>1, <2>4, ReleasesFineNext, Zenon
  <2>6. Counted' BY <1>0, <2>1, CountedNext, Zenon
  <2>7. lab.config \in Images \cup {NoImage} BY <1>0 DEF Typed, LabSet
  <2>8. LoadImage(t) => proc[t].image \in Images
    <3>1. HAVE LoadImage(t)
    <3>2. proc[t].result = "running" /\ Call(t)[1] = "load image"
      BY <3>1, CallsRun, Zenon DEF LoadImage
    <3>3. Call(t) \in CallsIn(proc[t].todo) BY <1>0, <3>2, Running, Zenon DEF CallNow
    <3>4. "load image" \in LoadCalls BY DEF LoadCalls
    <3> QED BY <1>0, <3>2, <3>3, <3>4, Zenon DEF ProcsOK, ProcOK, Never
  <2>9. Carries' BY <1>0, <2>1, <2>7, <2>8, CarriedNext, Zenon DEF Carries
  <2> QED BY <2>2, <2>3, <2>5, <2>6, <2>9, Zenon DEF TypeInv
<1> QED BY <1>1, <1>2

LEMMA TypeInvTypes == TypeInv => TypeOK
<1> SUFFICES ASSUME TypeInv PROVE TypeOK OBVIOUS
<1>0. Typed /\ FilesFine /\ ReleasesFine /\ Counted BY Zenon DEF TypeInv
<1>1. /\ lab.state \in {"none", "half", "up"} /\ lab.gen \in Nat
      /\ lab.images \subseteq Images /\ lab.config \in Images \cup {NoImage}
  BY <1>0 DEF Typed, LabSet, States
<1>2. lab.gen \in 0 .. MaxCommands
  <2>1. IsFiniteSet(Makers) BY LabAssumption, FS_Subset DEF Makers
  <2>2. Cardinality(Makers) \in Nat BY <2>1, FS_CardinalityType
  <2>3. begun \in Nat /\ MaxCommands \in Nat BY <1>0, LabAssumption DEF Typed
  <2> QED BY <1>0, <1>1, <2>2, <2>3 DEF Counted
<1>3. primary.contexts \subseteq {Mine, Kind, Alias} BY <1>0 DEF Typed, FileSet, Contexts
<1>4. \A t \in Terminals : proc[t].result \in {"ok", "running", "failed"}
  BY <1>0 DEF Typed, ProcSet
<1> QED BY <1>0, <1>1, <1>2, <1>3, <1>4, Zenon DEF TypeOK, FilesFine, ReleasesFine

(* TypeOK: at any time every variable has its type: no context but those   *)
(* of kind, of the lab and of the user is in the files, the current one is *)
(* in its file, a release has an image that a command chose, and no more   *)
(* clusters are made than commands begun (cmd/gpu-lab, cluster/manager.go  *)
(* and kubeconfig/manager.go).                                             *)
THEOREM TypeCorrect == Spec => []TypeOK
<1>1. Spec => []TypeInv
  <2>1. Init => TypeInv BY TypeInvInit
  <2>2. TypeInv /\ [Next]_vars => TypeInv' BY TypeInvNext
  <2> QED BY <2>1, <2>2, PTL DEF Spec
<1>2. TypeInv => TypeOK BY TypeInvTypes
<1> QED BY <1>1, <1>2, PTL

-----------------------------------------------------------------------------
(* The images in the nodes *)

LEMMA Lengths == \A s \in Seq(CallSet) : Len(s) \in Nat /\ DOMAIN s = 1 .. Len(s)
  OBVIOUS
LEMMA Previous ==
  ASSUME NEW n \in Nat, NEW i \in 1 .. n, i # 1
  PROVE  i - 1 \in 1 .. n - 1 /\ i - 1 \in 1 .. n /\ (i - 1) + 1 = i
  OBVIOUS

LEMMA LoadIsNear ==
  ASSUME NEW s, Shape(s), s # <<>>, Ahead(s) = "save image"
  PROVE  Never(s, {"load image"})
<1>0. s \in Seq(CallSet) BY Zenon DEF Shape, Linked
<1>1. \A i \in 1 .. Len(s) - 1 : May(s[i], s[i + 1][1])
  BY Zenon DEF Shape, Linked
<1>2. s[1][1] = "save image" BY Zenon DEF Ahead
<1> DEFINE n == Len(s)
<1>3. n \in Nat /\ DOMAIN s = 1 .. n BY <1>0, Lengths, Zenon
<1>4. ASSUME NEW i \in 1 .. n, i # 1
      PROVE  i - 1 \in 1 .. n /\ May(s[i - 1], s[i][1])
  <2>1. i - 1 \in 1 .. n - 1 /\ i - 1 \in 1 .. n /\ (i - 1) + 1 = i
    BY <1>3, <1>4, Previous, Zenon
  <2>2. May(s[i - 1], s[(i - 1) + 1][1]) BY <1>1, <2>1
  <2> QED BY <2>1, <2>2
<1> HIDE DEF n
<1>5. \A c : /\ May(c, "load image") => c[1] = "kind create"
             /\ May(c, "kind create") => c[1] = "look for cluster"
             /\ May(c, "look for cluster") => c[1] = "fetch image"
             /\ ~May(c, "fetch image")
  BY DEF May
<1>6. ASSUME NEW i \in 1 .. n
      PROVE  s[i][1] # "load image"
  <2>1. \A j \in 1 .. n : s[j][1] # "fetch image"
    <3>1. ASSUME NEW j \in 1 .. n, s[j][1] = "fetch image" PROVE FALSE
      <4>1. j # 1 BY <1>2, <3>1
      <4>2. May(s[j - 1], s[j][1]) BY <1>4, <4>1, Zenon
      <4> QED BY <1>5, <3>1, <4>2, Zenon
    <3> QED BY <3>1, Zenon
  <2>2. \A j \in 1 .. n : s[j][1] # "look for cluster"
    <3>1. ASSUME NEW j \in 1 .. n, s[j][1] = "look for cluster" PROVE FALSE
      <4>1. j # 1 BY <1>2, <3>1
      <4>2. j - 1 \in 1 .. n /\ May(s[j - 1], s[j][1]) BY <1>4, <4>1, Zenon
      <4> QED BY <1>5, <2>1, <3>1, <4>2, Zenon
    <3> QED BY <3>1, Zenon
  <2>3. \A j \in 1 .. n : s[j][1] # "kind create"
    <3>1. ASSUME NEW j \in 1 .. n, s[j][1] = "kind create" PROVE FALSE
      <4>1. j # 1 BY <1>2, <3>1
      <4>2. j - 1 \in 1 .. n /\ May(s[j - 1], s[j][1]) BY <1>4, <4>1, Zenon
      <4> QED BY <1>5, <2>2, <3>1, <4>2, Zenon
    <3> QED BY <3>1, Zenon
  <2>4. ASSUME s[i][1] = "load image" PROVE FALSE
    <3>1. i # 1 BY <1>2, <2>4
    <3>2. i - 1 \in 1 .. n /\ May(s[i - 1], s[i][1]) BY <1>4, <3>1, Zenon
    <3> QED BY <1>5, <2>3, <2>4, <3>2, Zenon
  <2> QED BY <2>4
<1> QED BY <1>3, <1>6, Zenon DEF Never, CallsIn

LEMMA CarriedMore ==
  ASSUME NEW p, NEW S, NEW T, S \subseteq T, Carried(p, S)
  PROVE  Carried(p, T)
  BY Zenon DEF Carried

InLab ==
  /\ lab.state = "none" => Blank(lab)
  /\ lab.config \in lab.images \cup {NoImage}
  /\ \A c \in Components : lab.releases[c] = NoRelease \/ lab.releases[c].image \in lab.images
  /\ \A t \in Terminals : Carried(proc[t], lab.images)

LEMMA InLabInit == Init => InLab
<1> SUFFICES ASSUME Init PROVE InLab OBVIOUS
<1>1. Blank(lab) BY BlankInit
<1>2. \A t \in Terminals : Carried(proc[t], lab.images) BY IdleProc, CarriedNothing, Zenon
<1>3. lab.config \in lab.images \cup {NoImage} BY <1>1 DEF Blank
<1> QED BY <1>1, <1>2, <1>3, Zenon DEF InLab, Blank

\* A call on the nodes or with kubectl needs a cluster.
LEMMA NeedsCluster ==
  ASSUME NEW t \in Terminals,
         LoadImage(t) \/ SaveImage(t) \/ HelmInstall(t) \/ HelmUninstall(t) \/ Assets(t)
  PROVE  lab.state # "none"
<1>1. /\ Possible(t)
      /\ Call(t)[1] \in {"load image", "save image", "helm install", "helm uninstall",
                         "apply assets", "delete assets"}
  BY CallsRun, Zenon DEF LoadImage, SaveImage, HelmInstall, HelmUninstall, Assets
<1>2. LabAnswers => lab.state # "none" BY DEF LabAnswers, Ready
<1> QED BY <1>1, <1>2 DEF Possible

LEMMA InLabNext ==
  ASSUME TypeInv, InLab, DestroysAlone, Next
  PROVE  InLab'
<1>0. Typed /\ ProcsOK /\ ReleasesFine /\ Carries BY Zenon DEF TypeInv
<1>1. PICK t \in Terminals : Step(t) BY Steps, Zenon
<1> DEFINE R(images) ==
      \A c \in Components : lab'.releases[c] = NoRelease \/ lab'.releases[c].image \in images
<1>2. /\ lab.state = "none" => Blank(lab)
      /\ lab.config \in lab.images \cup {NoImage}
      /\ \A u \in Terminals : Carried(proc[u], lab.images)
      /\ \A c \in Components :
           lab.releases[c] = NoRelease \/ lab.releases[c].image \in lab.images
  BY Zenon DEF InLab
<1>3. ~LoadImage(t) => \A u \in Terminals : Carried(proc'[u], lab.images)
  BY <1>0, <1>1, <1>2, CarriedNext, Zenon
<1>4. CASE UNCHANGED lab /\ ~LoadImage(t) BY <1>2, <1>3, <1>4, Zenon DEF InLab
<1>5. CASE KindCreate(t) \/ KindCreateKilled(t)
  <2>1. Blank(lab') /\ lab.state = "none" BY <1>0, <1>5, NoReleases, Zenon
  <2>2. lab.images = {} /\ lab'.images = {} /\ lab'.config = NoImage
    BY <1>2, <2>1, Zenon DEF Blank
  <2>3. ~LoadImage(t)
    <3>1. Call(t)[1] = "kind create" BY <1>5, CallsRun, Zenon DEF KindCreate, KindCreateKilled
    <3>2. LoadImage(t) => Call(t)[1] = "load image" BY CallsRun, Zenon DEF LoadImage
    <3> QED BY <3>1, <3>2
  <2>4. \A u \in Terminals : Carried(proc'[u], lab'.images) BY <1>3, <2>2, <2>3, Zenon
  <2>5. lab'.config \in lab'.images \cup {NoImage} BY <2>2
  <2> QED BY <2>1, <2>4, <2>5, Zenon DEF InLab, Blank
<1>6. CASE KindDelete(t)
  <2>1. Blank(lab') BY <1>0, <1>6, NoReleases, Zenon
  <2>2. proc[t].result = "running" /\ Call(t)[1] = "kind delete"
    BY <1>6, CallsRun, Zenon DEF KindDelete
  <2>3. Ran(t, Tail(proc[t].todo)) BY <1>0, <1>6, ClusterOK, Zenon
  <2>4. proc[t].cmd[1] = "destroy" BY <1>0, <2>2, Running, Zenon DEF Behind, Allowed
  <2>5. Carried(proc'[t], lab'.images)
    <3>1. CASE Faulted(t) BY <3>1, CarriedNothing, Zenon DEF Faulted, Stopped
    <3>2. CASE Moved(t, Tail(proc[t].todo))
      <4> DEFINE s == Tail(proc[t].todo)
      <4>1. May(Call(t), Ahead(s)) /\ Speaks("destroy", s)
        BY <1>0, <2>2, <2>4, Running, Zenon DEF Behind
      <4>2. proc'[t].todo = s BY <3>2, Zenon DEF Moved
      <4> HIDE DEF s
      <4>3. Ahead(s) # "helm install" BY <2>2, <4>1 DEF May
      <4>4. "destroy" \notin Creates /\ "save image" \in ImageCalls BY DEF Creates, ImageCalls
      <4>5. Never(s, {"save image"}) BY <4>1, <4>4, Zenon DEF Never, Speaks, Allowed
      <4> QED BY <4>2, <4>3, <4>5, Zenon DEF Carried
    <3> QED BY <2>3, <3>1, <3>2, Zenon DEF Ran
  <2>6. ASSUME NEW u \in Terminals, u # t
        PROVE  Carried(proc'[u], lab'.images)
    <3>1. proc[u].cmd[1] = "none" BY <2>4, <2>6, Zenon DEF DestroysAlone, Alone
    <3>2. proc[u].result = "ok" BY <1>0, <3>1, Zenon DEF ProcsOK, ProcOK
    <3>3. proc[u].result # "running" BY <3>2
    <3>4. proc[u].todo = <<>> BY <1>0, <3>3, Zenon DEF ProcsOK, ProcOK
    <3>5. proc'[u] = proc[u] BY <2>3, <2>6, RanOthers, Zenon DEF Others
    <3> QED BY <3>4, <3>5, CarriedNothing, Zenon
  <2>7. lab'.config = NoImage /\ \A c \in Components : lab'.releases[c] = NoRelease
    BY <2>1, Zenon DEF Blank
  <2>8. lab'.config \in lab'.images \cup {NoImage} BY <2>7
  <2> QED BY <2>1, <2>5, <2>6, <2>7, <2>8, Zenon DEF InLab
<1>7. CASE LoadImage(t)
  <2> DEFINE T == lab.images \cup {proc[t].image}
  <2>1. lab' = [lab EXCEPT !.images = @ \cup {proc[t].image}] BY <1>7, Zenon DEF LoadImage
  <2>2. /\ lab'.images = T /\ lab'.state = lab.state /\ lab'.config = lab.config
        /\ lab'.releases = lab.releases
    BY <1>0, <2>1 DEF Typed, LabSet
  <2>3. lab.images \subseteq T /\ proc[t].image \in T OBVIOUS
  <2>4. lab.config \in T \cup {NoImage} BY <1>2, <2>3
  <2> HIDE DEF T
  <2>5. \A u \in Terminals : Carried(proc[u], T) BY <1>2, <2>3, CarriedMore, Zenon
  <2>6. \A u \in Terminals : Carried(proc'[u], T)
    BY <1>0, <1>1, <2>3, <2>4, <2>5, CarriedNext, Zenon
  <2>7. R(T) BY <1>2, <2>2, <2>3, Zenon
  <2>8. lab'.state # "none" BY <1>7, <2>2, NeedsCluster, Zenon
  <2> QED BY <2>2, <2>4, <2>6, <2>7, <2>8, Zenon DEF InLab
<1>8. CASE SaveImage(t)
  <2>1. /\ lab' = [lab EXCEPT !.config = proc[t].image] /\ proc[t].result = "running"
        /\ Call(t)[1] = "save image"
    BY <1>8, CallsRun, Zenon DEF SaveImage
  <2>2. /\ lab'.images = lab.images /\ lab'.state = lab.state /\ lab'.config = proc[t].image
        /\ lab'.releases = lab.releases
    BY <1>0, <2>1 DEF Typed, LabSet
  <2>3. proc[t].image \in lab.images
    <3> DEFINE q == proc[t].todo
    <3>1. Shape(q) BY <1>0, Zenon DEF ProcsOK, ProcOK
    <3>2. q # <<>> /\ Ahead(q) = "save image" /\ Call(t) \in CallsIn(q)
      BY <1>0, <2>1, Running, Zenon DEF CallNow
    <3>3. Carried(proc[t], lab.images) BY <1>2, Zenon
    <3>4. Never(q, {"save image"}) \/ ~Never(q, {"load image"}) \/ proc[t].image \in lab.images
      BY <3>3, Zenon DEF Carried
    <3> HIDE DEF q
    <3>5. Never(q, {"load image"}) BY <3>1, <3>2, LoadIsNear, Zenon
    <3>6. ~Never(q, {"save image"}) BY <2>1, <3>2, Zenon DEF Never
    <3> QED BY <3>4, <3>5, <3>6
  <2>4. ~LoadImage(t)
    <3>1. LoadImage(t) => Call(t)[1] = "load image" BY CallsRun, Zenon DEF LoadImage
    <3> QED BY <2>1, <3>1
  <2>5. R(lab'.images) BY <1>2, <2>2, Zenon
  <2>6. lab'.state # "none" BY <1>8, <2>2, NeedsCluster, Zenon
  <2>7. lab'.config \in lab'.images \cup {NoImage} BY <2>2, <2>3
  <2> QED BY <1>3, <2>2, <2>4, <2>5, <2>6, <2>7, Zenon DEF InLab
<1>9. CASE HelmInstall(t) \/ HelmUninstall(t) \/ Assets(t)
  <2>1. /\ lab'.state = lab.state /\ lab'.images = lab.images /\ lab'.config = lab.config
    BY <1>0, <1>9, ReleasesOK, Zenon
  <2>2. ~LoadImage(t)
    <3>1. LoadImage(t) => Call(t)[1] = "load image" BY CallsRun, Zenon DEF LoadImage
    <3>2. Call(t)[1] \in {"helm install", "helm uninstall", "apply assets", "delete assets"}
      BY <1>9, CallsRun, Zenon DEF HelmInstall, HelmUninstall, Assets
    <3> QED BY <3>1, <3>2
  <2>3. lab'.state # "none" BY <1>9, <2>1, NeedsCluster, Zenon
  <2>4. R(lab.images)
    <3>1. CASE HelmInstall(t)
      <4>1. Call(t)[1] = "helm install" /\ proc[t].result = "running"
        BY <3>1, CallsRun, Zenon DEF HelmInstall
      <4>2. Call(t)[2] \in Components BY <1>0, <4>1, NamedComponent
      <4>3. Ahead(proc[t].todo) = "helm install" BY <1>0, <4>1, Running, Zenon DEF CallNow
      <4>4. proc[t].image \in lab.images /\ proc[t].image \in Images
        BY <1>0, <1>2, <4>3, Zenon DEF Carried, Carries
      <4>5. PICK status \in {"deployed", "failed", "pending"} :
              Release(Call(t)[2], status, proc[t].image)
        BY <3>1 DEF HelmInstall
      <4> DEFINE c == Call(t)[2]
      <4>6. /\ lab'.releases[c].image = proc[t].image
            /\ \A d \in Components \ {c} : lab'.releases[d] = lab.releases[d]
        <5>1. proc[t].image \in Images \cup {NoImage} BY <4>4
        <5> QED BY <1>0, <4>2, <4>5, <5>1, ReleaseTyped, Zenon
      <4> HIDE DEF c
      <4> QED BY <1>2, <4>4, <4>6, Zenon
    <3>2. CASE HelmUninstall(t)
      <4>1. /\ Call(t)[1] = "helm uninstall" /\ proc[t].result = "running"
            /\ lab' = [lab EXCEPT !.releases[Call(t)[2]] = NoRelease]
        BY <3>2, CallsRun, Zenon DEF HelmUninstall
      <4>2. Call(t)[2] \in Components BY <1>0, <4>1, NamedComponent
      <4>3. /\ lab'.releases[Call(t)[2]] = NoRelease
            /\ \A d \in Components \ {Call(t)[2]} : lab'.releases[d] = lab.releases[d]
        BY <1>0, <4>1, <4>2, UninstallTyped, Zenon
      <4> DEFINE c == Call(t)[2]
      <4>4. /\ lab'.releases[c] = NoRelease
            /\ \A d \in Components : d # c => lab'.releases[d] = lab.releases[d]
        BY <4>3, Zenon
      <4> HIDE DEF c
      <4>5. ASSUME NEW d \in Components
            PROVE  lab'.releases[d] = NoRelease \/ lab'.releases[d].image \in lab.images
        <5>1. CASE d = c BY <4>4, <5>1
        <5>2. CASE d # c
          <6>1. lab'.releases[d] = lab.releases[d] BY <4>4, <5>2, Zenon
          <6> QED BY <1>2, <6>1
        <5> QED BY <5>1, <5>2
      <4> QED BY <4>5, Zenon
    <3>3. CASE Assets(t)
      <4>1. PICK assets \in {"all", "none", "some"} : lab' = [lab EXCEPT !.assets = assets]
        BY <3>3 DEF Assets
      <4>2. lab'.releases = lab.releases BY <1>0, <4>1 DEF Typed, LabSet
      <4> QED BY <1>2, <4>2, Zenon
    <3> QED BY <1>9, <3>1, <3>2, <3>3
  <2>5. lab'.config \in lab'.images \cup {NoImage} BY <1>2, <2>1, Zenon
  <2> QED BY <1>3, <2>1, <2>2, <2>3, <2>4, <2>5, Zenon DEF InLab
<1>10. CASE (\E c \in Commands[t] : Start(t, c)) /\ ~LoadImage(t)
  BY <1>4, <1>10, Zenon DEF Start
<1>11. CASE /\ \/ Look(t) \/ LookForCluster(t) \/ ReadImage(t) \/ ReadCurrent(t)
               \/ LookAtOwn(t) \/ Find(t) \/ HelmOther(t)
            /\ ~LoadImage(t)
  BY <1>0, <1>4, <1>11, QuietOK, Zenon
<1>12. CASE /\ \/ Export(t) \/ SetAlias(t) \/ Restore(t) \/ UseContext(t)
               \/ ExportOwn(t) \/ RenameOwn(t) \/ DeleteOwn(t) \/ UseOwn(t)
            /\ ~LoadImage(t)
  BY <1>0, <1>4, <1>12, FilesOK, Zenon
<1>13. CASE (Refused(t) \/ GoesWrong(t)) /\ ~LoadImage(t)
  BY <1>0, <1>4, <1>13, StopOK, Zenon
<1> QED BY <1>1, <1>5, <1>6, <1>7, <1>8, <1>9, <1>10, <1>11, <1>12, <1>13, Zenon DEF Step

(* ImagesLoaded: whatever was interrupted, the nodes have the image of the *)
(* saved configuration and the images of the releases, if the lab is only  *)
(* deleted when no other command is at work (cmd/gpu-lab/create.go,        *)
(* cluster/manager.go).                                                    *)
THEOREM ImagesStay == Spec /\ []DestroysAlone => []ImagesLoaded
<1>1. Spec => []TypeInv
  <2>1. Init => TypeInv BY TypeInvInit
  <2>2. TypeInv /\ [Next]_vars => TypeInv' BY TypeInvNext
  <2> QED BY <2>1, <2>2, PTL DEF Spec
<1>2. Init => InLab BY InLabInit
<1>3. TypeInv /\ InLab /\ DestroysAlone /\ [Next]_vars => InLab'
  <2>1. ASSUME InLab, UNCHANGED vars PROVE InLab'
    <3>1. lab' = lab /\ proc' = proc BY <2>1 DEF vars
    <3> QED BY <2>1, <3>1 DEF InLab, Blank
  <2> QED BY <2>1, InLabNext
<1>4. TypeInv /\ InLab => ImagesLoaded
  <2> SUFFICES ASSUME TypeInv, InLab PROVE ImagesLoaded OBVIOUS
  <2>1. TypeOK BY TypeInvTypes
  <2>2. lab.config # NoImage => lab.config \in lab.images BY DEF InLab
  <2>3. \A c \in Components : lab.releases[c] # NoRelease =>
          lab.releases[c].image \in lab.images
    BY Zenon DEF InLab
  <2> QED BY <2>1, <2>2, <2>3, Zenon DEF ImagesLoaded
<1> QED BY <1>1, <1>2, <1>3, <1>4, PTL DEF Spec

-----------------------------------------------------------------------------
(* The file of the lab *)

\* A step of a terminal that makes or refuses a call.
LEMMA RunsRunning ==
  ASSUME NEW t, Step(t)
  PROVE  (\E c \in Commands[t] : Start(t, c)) \/ proc[t].result = "running"
  BY CallsRun, Zenon DEF Step, Refused, GoesWrong, Look, LookForCluster, ReadImage, ReadCurrent,
       LookAtOwn, Find, HelmOther, Export, SetAlias, Restore, UseContext, ExportOwn, RenameOwn,
       DeleteOwn, UseOwn, KindCreate, KindDelete, LoadImage, SaveImage, KindCreateKilled,
       HelmInstall, HelmUninstall, Assets

LEMMA StepOthers ==
  ASSUME Typed, ProcsOK, NEW t \in Terminals, Step(t)
  PROVE  /\ Others(t)
         /\ \A c \in Commands[t] : Start(t, c) => faults' = faults
         /\ \/ Faulted(t)
            \/ proc[t].result = "running" /\ ~Stopped(t) /\ faults' = faults
            \/ Refused(t) /\ Stopped(t) /\ faults' = faults
            \/ \E c \in Commands[t] : Start(t, c)
<1>0. \A s : Moved(t, s) => ~Stopped(t) /\ faults' = faults /\ Others(t)
  <2>1. "failed" # "ok" /\ "failed" # "running" OBVIOUS
  <2> QED BY <2>1, Zenon DEF Moved, Stopped
<1>1. \A s : Ran(t, s) =>
        /\ Others(t)
        /\ Faulted(t) \/ (~Stopped(t) /\ faults' = faults)
  BY <1>0, Zenon DEF Ran, Faulted, Stopped
<1>2. CASE \E c \in Commands[t] : Start(t, c)
  <2>1. \A c \in Commands[t] : Start(t, c) => faults' = faults BY Zenon DEF Start
  <2> QED BY <1>2, <2>1, StartOK, Zenon DEF Began
<1>3. CASE ~\E c \in Commands[t] : Start(t, c)
  <2>0. proc[t].result = "running" BY <1>3, RunsRunning, Zenon
  <2>1. CASE Look(t) \/ HelmOther(t)
    <3>1. Done(t) BY <2>1, Zenon DEF Look, HelmOther
    <3> QED BY <1>1, <1>3, <2>0, <3>1, DoneRan, Zenon
  <2>2. CASE LookForCluster(t) BY <1>1, <1>3, <2>0, <2>2, LookForClusterRan, Zenon
  <2>3. CASE ReadImage(t)
    BY <1>0, <1>3, <2>0, <2>3, ReadImageRan, Zenon DEF Faulted, Stopped
  <2>4. CASE ReadCurrent(t)
    BY <1>0, <1>3, <2>0, <2>4, ReadCurrentRan, Zenon DEF Faulted, Stopped
  <2>5. CASE LookAtOwn(t) BY <1>1, <1>3, <2>0, <2>5, LookAtOwnRan, Zenon
  <2>6. CASE Find(t) BY <1>1, <1>3, <2>0, <2>6, FindRan, Zenon
  <2>7. CASE Export(t) \/ SetAlias(t) \/ Restore(t) \/ UseContext(t)
               \/ ExportOwn(t) \/ RenameOwn(t) \/ DeleteOwn(t) \/ UseOwn(t)
    BY <1>1, <1>3, <2>0, <2>7, FilesOK, Zenon
  <2>8. CASE KindCreate(t) \/ KindDelete(t) \/ LoadImage(t) \/ SaveImage(t)
               \/ KindCreateKilled(t)
    BY <1>1, <1>3, <2>0, <2>8, ClusterOK, Zenon
  <2>9. CASE HelmInstall(t) \/ HelmUninstall(t) \/ Assets(t)
    BY <1>1, <1>3, <2>0, <2>9, ReleasesOK, Zenon
  <2>10. CASE Refused(t)
    <3>1. Stopped(t) /\ faults' = faults BY <2>10, StopOK, Zenon DEF Refused
    <3> QED BY <1>3, <2>10, <3>1, Zenon DEF Stopped
  <2>11. CASE GoesWrong(t)
    <3>1. Faulted(t) BY <2>11, StopOK, Zenon
    <3> QED BY <1>3, <3>1, Zenon DEF Stopped, Faulted
  <2> QED BY <1>3, <2>1, <2>2, <2>3, <2>4, <2>5, <2>6, <2>7, <2>8, <2>9, <2>10, <2>11, Zenon
          DEF Step
<1> QED BY <1>2, <1>3

\* The terminal will take the context of kind out of the file of the lab.
Cleaning(p) ==
  \/ Ahead(p.todo) = "look at own"
  \/ Ahead(p.todo) = "rename own" /\ Alias \notin own.contexts
  \/ Ahead(p.todo) = "delete own" /\ Alias \in own.contexts
Cleaned ==
  faults = 0 /\ Kind \in own.contexts => \E t \in Terminals : Cleaning(proc[t])

LEMMA CleanedNext ==
  ASSUME Typed, ProcsOK, Cleaned, Next
  PROVE  Cleaned'
<1>1. PICK t \in Terminals : Step(t) BY Steps, Zenon
<1>2. SUFFICES ASSUME faults' = 0, Kind \in own'.contexts
               PROVE  \E u \in Terminals : Cleaning(proc[u])'
  BY Zenon DEF Cleaned
<1>3. own \in FileSet /\ faults \in Nat BY Zenon DEF Typed
<1>4. faults = 0 /\ ~Faulted(t)
  <2>1. Faulted(t) => faults' = faults + 1 BY Zenon DEF Faulted
  <2>2. ~Faulted(t) BY <1>2, <1>3, <2>1
  <2>3. faults' = faults BY <1>1, <2>2, StepOthers, Zenon
  <2> QED BY <1>2, <2>2, <2>3
<1>5. Others(t) BY <1>1, StepOthers, Zenon
<1>6. CASE ExportOwn(t)
  <2>1. Call(t)[1] = "export own" BY <1>6, CallsRun, Zenon DEF ExportOwn
  <2>2. proc[t].result = "running" /\ Ran(t, Tail(proc[t].todo)) BY <1>6, FilesOK, Zenon
  <2> DEFINE s == Tail(proc[t].todo)
  <2>3. May(Call(t), Ahead(s)) BY <2>2, Running, Zenon DEF Behind
  <2>4. proc'[t].todo = s BY <1>4, <2>2, Zenon DEF Ran, Moved
  <2> HIDE DEF s
  <2>5. Ahead(s) = "look at own" BY <2>1, <2>3 DEF May
  <2>6. Cleaning(proc[t])' BY <2>4, <2>5 DEF Cleaning
  <2> QED BY <2>6
<1>7. CASE RenameOwn(t)
  <2>1. own' = [own EXCEPT !.contexts = (@ \ {Kind}) \cup {Alias},
                           !.current = IF @ = Kind THEN Alias ELSE @]
    BY <1>7, Zenon DEF RenameOwn
  <2>2. own'.contexts = (own.contexts \ {Kind}) \cup {Alias} BY <1>3, <2>1 DEF FileSet
  <2> QED BY <1>2, <2>2 DEF Kind, Alias
<1>8. CASE DeleteOwn(t)
  <2>1. own' = [own EXCEPT !.contexts = @ \ {Kind}] BY <1>8, Zenon DEF DeleteOwn
  <2>2. own'.contexts = own.contexts \ {Kind} BY <1>3, <2>1 DEF FileSet
  <2> QED BY <1>2, <2>2
<1>9. CASE LookAtOwn(t)
  <2>1. PICK s : /\ Ran(t, s)
                 /\ Ahead(s) = IF Kind \notin own.contexts THEN "use own"
                               ELSE IF Alias \in own.contexts THEN "delete own"
                               ELSE "rename own"
    BY <1>9, LookAtOwnRan, Zenon
  <2>2. own' = own BY <1>9, Zenon DEF LookAtOwn
  <2>3. proc'[t].todo = s BY <1>4, <2>1, Zenon DEF Ran, Moved
  <2>4. Cleaning(proc[t])' BY <1>2, <2>1, <2>2, <2>3 DEF Cleaning
  <2> QED BY <2>4
<1>10. CASE /\ own'.contexts = own.contexts
            /\ \A u \in Terminals : Cleaning(proc[u]) => u # t
  <2>1. PICK u \in Terminals : Cleaning(proc[u]) BY <1>2, <1>4, <1>10, Zenon DEF Cleaned
  <2>2. proc'[u] = proc[u] BY <1>5, <1>10, <2>1, Zenon DEF Others
  <2>3. Cleaning(proc[u])' BY <1>10, <2>1, <2>2 DEF Cleaning
  <2> QED BY <2>3
<1>11. ASSUME own' = own, \/ proc[t].result # "running"
                         \/ Call(t)[1] \notin {"look at own", "rename own", "delete own"}
       PROVE  \E u \in Terminals : Cleaning(proc[u])'
  <2>1. ~Cleaning(proc[t])
    <3>1. CASE proc[t].result # "running"
      <4>1. proc[t].todo = <<>> BY <3>1, Zenon DEF ProcsOK, ProcOK
      <4>2. Ahead(proc[t].todo) = "" BY <4>1, EmptyShape, Zenon
      <4> QED BY <4>2 DEF Cleaning
    <3>2. CASE proc[t].result = "running"
      <4>1. Ahead(proc[t].todo) = Call(t)[1] BY <3>2, Running, Zenon DEF CallNow
      <4>2. Call(t)[1] \notin {"look at own", "rename own", "delete own"}
        BY <1>11, <3>2
      <4> QED BY <4>1, <4>2 DEF Cleaning
    <3> QED BY <3>1, <3>2
  <2>2. \A u \in Terminals : Cleaning(proc[u]) => u # t BY <2>1, Zenon
  <2> QED BY <1>10, <1>11, <2>2
<1>12. CASE \E c \in Commands[t] : Start(t, c)
  BY <1>11, <1>12, Zenon DEF Start
<1>13. CASE Look(t) \/ LookForCluster(t) \/ ReadImage(t) \/ ReadCurrent(t) \/ Find(t)
             \/ HelmOther(t)
  <2>1. Call(t)[1] \in {"fetch image", "cluster exists", "wait for nodes", "wait for scrape",
          "get", "look for cluster", "read image", "read current", "find", "find again",
          "helm at lab", "helm at current"}
    BY <1>13, CallsRun, Zenon DEF Look, LookForCluster, ReadImage, ReadCurrent, Find, HelmOther
  <2>2. own' = own BY <1>13, QuietOK, Zenon
  <2>3. Call(t)[1] \notin {"look at own", "rename own", "delete own"} BY <2>1
  <2> QED BY <1>11, <2>2, <2>3, Zenon
<1>14. CASE Export(t) \/ SetAlias(t) \/ Restore(t) \/ UseContext(t)
  <2>1. Call(t)[1] \in {"export", "alias", "restore", "use"} /\ own' = own
    BY <1>14, CallsRun, Zenon DEF Export, SetAlias, Restore, UseContext
  <2>3. Call(t)[1] \notin {"look at own", "rename own", "delete own"} BY <2>1
  <2> QED BY <1>11, <2>1, <2>3, Zenon
<1>15. CASE UseOwn(t)
  <2>1. /\ Call(t)[1] = "use own" /\ proc[t].result = "running"
        /\ own' = [own EXCEPT !.current = Alias]
    BY <1>15, CallsRun, Zenon DEF UseOwn
  <2>2. own'.contexts = own.contexts BY <1>3, <2>1 DEF FileSet
  <2>3. Ahead(proc[t].todo) = "use own" BY <2>1, Running, Zenon DEF CallNow
  <2>4. ~Cleaning(proc[t]) BY <2>3 DEF Cleaning
  <2> QED BY <1>10, <2>2, <2>4, Zenon
<1>16. CASE KindCreate(t) \/ KindDelete(t) \/ LoadImage(t) \/ SaveImage(t)
               \/ KindCreateKilled(t) \/ HelmInstall(t) \/ HelmUninstall(t) \/ Assets(t)
  <2>1. /\ Call(t)[1] \in {"kind create", "kind delete", "load image", "save image",
             "helm install", "helm uninstall", "apply assets", "delete assets"}
        /\ own' = own
    BY <1>16, CallsRun, Zenon DEF KindCreate, KindDelete, LoadImage, SaveImage, KindCreateKilled,
                            HelmInstall, HelmUninstall, Assets
  <2>3. Call(t)[1] \notin {"look at own", "rename own", "delete own"} BY <2>1
  <2> QED BY <1>11, <2>1, <2>3, Zenon
<1>17. CASE Refused(t)
  <2>1. own' = own /\ proc[t].result = "running" BY <1>17, StopOK, Zenon
  <2>2. ~Cleaning(proc[t])
    <3>1. SUFFICES ASSUME Cleaning(proc[t]) PROVE FALSE OBVIOUS
    <3>2. Ahead(proc[t].todo) = Call(t)[1] BY <2>1, Running, Zenon DEF CallNow
    <3>3. Kind \in own.contexts BY <1>2, <2>1
    <3>4. Call(t)[1] # "wait for scrape" BY <3>1, <3>2 DEF Cleaning
    <3>5. ~Possible(t) BY <1>17, <3>4, Zenon DEF Refused
    <3>6. Possible(t) BY <3>1, <3>2, <3>3 DEF Cleaning, Possible
    <3> QED BY <3>5, <3>6
  <2>3. own'.contexts = own.contexts BY <2>1
  <2> QED BY <1>10, <2>2, <2>3, Zenon
<1>18. CASE GoesWrong(t) BY <1>4, <1>18, StopOK, Zenon
<1> QED BY <1>1, <1>6, <1>7, <1>8, <1>9, <1>12, <1>13, <1>14, <1>15, <1>16, <1>17, <1>18, Zenon
        DEF Step

LEMMA OwnStaysClean == Spec => []OwnIsClean
<1>1. Spec => []TypeInv
  <2>1. Init => TypeInv BY TypeInvInit
  <2>2. TypeInv /\ [Next]_vars => TypeInv' BY TypeInvNext
  <2> QED BY <2>1, <2>2, PTL DEF Spec
<1>2. Init => Cleaned
  <2> SUFFICES ASSUME Init PROVE Cleaned OBVIOUS
  <2>1. own = [contexts |-> {}, current |-> None, creds |-> 0] BY Zenon DEF Init
  <2>2. own.contexts = {} BY <2>1
  <2> QED BY <2>2 DEF Cleaned
<1>3. TypeInv /\ Cleaned /\ [Next]_vars => Cleaned'
  <2>1. ASSUME Cleaned, UNCHANGED vars PROVE Cleaned'
    <3>1. own' = own /\ proc' = proc /\ faults' = faults BY <2>1 DEF vars
    <3> QED BY <2>1, <3>1 DEF Cleaned, Cleaning
  <2> QED BY <2>1, CleanedNext, Zenon DEF TypeInv
<1>4. TypeInv /\ Cleaned => OwnIsClean
  <2> SUFFICES ASSUME TypeInv, Cleaned, \A t \in Terminals : proc[t].result # "running",
                      faults = 0, Kind \in own.contexts
               PROVE  FALSE
    BY Zenon DEF OwnIsClean
  <2>1. PICK t \in Terminals : Cleaning(proc[t]) BY Zenon DEF Cleaned
  <2>2. proc[t].todo = <<>> BY Zenon DEF TypeInv, ProcsOK, ProcOK
  <2>3. Ahead(proc[t].todo) = "" BY <2>2, EmptyShape, Zenon
  <2> QED BY <2>1, <2>3 DEF Cleaning
<1> QED BY <1>1, <1>2, <1>3, <1>4, PTL DEF Spec

-----------------------------------------------------------------------------
(* The kubeconfigs after a command that sets them up *)

\* The calls before the kubeconfig of the user, and that of the lab, is written, and
\* before that of the lab is cleaned.
Before == {"fetch image", "look for cluster", "kind create", "load image", "cluster exists",
           "read current", "export"}
Exports == Before \cup {"alias", "restore", "export own"}
Cleans == Exports \cup {"look at own", "rename own", "delete own"}

\* What holds of the cluster l and of the kubeconfigs f and o before the call h.
Files(h, cmd, saved, before, l, f, o) ==
  /\ h \notin Before => l.state = "up" /\ f.creds = l.gen
  /\ h \notin Before \cup {"alias"} => Alias \in f.contexts
  /\ h \in {"export", "alias", "restore"} => saved \in f.contexts
  /\ cmd \notin Creates =>
       /\ h \in {"export", "alias", "restore"} => saved = before
       /\ h \notin {"alias", "restore"} => f.current = before
  /\ h \notin Exports => o.creds = l.gen
  /\ h = "look at own" => Kind \in o.contexts
  /\ h = "rename own" => o.contexts = {Kind}
  /\ h = "delete own" => o.contexts = {Kind, Alias}
  /\ h \notin Cleans => o.contexts = {Alias}
  /\ h \notin Cleans \cup {"use own"} => o.current = Alias
FilesOf(p) == Files(Ahead(p.todo), p.cmd[1], p.saved, p.before, lab, primary, own)
SetUp(t) == Alone(t) /\ proc[t].cmd[1] \in SetsUp /\ proc[t].result # "failed" => FilesOf(proc[t])

\* A call that changes neither of the files.
LEMMA FilesQuiet ==
  ASSUME NEW h, NEW h2, NEW cmd, NEW saved, NEW before, NEW l, NEW l2, NEW f, NEW o,
         Files(h, cmd, saved, before, l, f, o), l2.state = l.state, l2.gen = l.gen,
         \/ h \notin {"alias", "restore"} /\ h2 \in Before \ {"export"}
         \/ h \notin Cleans \cup {"use own"} /\ h2 \notin Cleans
  PROVE  Files(h2, cmd, saved, before, l2, f, o)
  BY DEF Files, Before, Exports, Cleans

LEMMA GoesOn ==
  ASSUME Typed, ProcsOK, NEW t \in Terminals, proc[t].result = "running",
         Ran(t, Tail(proc[t].todo)), proc'[t].result # "failed"
  PROVE  /\ May(Call(t), Ahead(proc'[t].todo)) /\ Kept(t)
         /\ proc'[t].saved = proc[t].saved /\ proc'[t].todo = Tail(proc[t].todo)
<1>1. Moved(t, Tail(proc[t].todo)) BY Zenon DEF Ran, Faulted, Stopped
<1>2. May(Call(t), Ahead(Tail(proc[t].todo))) BY Running, Zenon DEF Behind
<1> QED BY <1>1, <1>2, Zenon DEF Moved, Ran

\* The names of the calls of a command that sets up, and of those after them.
LEMMA SetsUpNames ==
  ASSUME Typed, ProcsOK, NEW t \in Terminals, proc[t].result = "running",
         proc[t].cmd[1] \in SetsUp
  PROVE  /\ Call(t)[1] \notin {"kind delete", "find", "find again", "use", "delete assets",
                               "helm uninstall", "helm at current"}
         /\ Call(t)[1] \in ImageCalls \cup {"fetch image", "look for cluster"} =>
              proc[t].cmd[1] \in Creates
         /\ Ahead(proc[t].todo) = Call(t)[1]
<1>1. Allowed(proc[t].cmd[1], Call(t)[1]) /\ Ahead(proc[t].todo) = Call(t)[1]
  BY Running, Zenon DEF CallNow, Behind
<1> DEFINE c == proc[t].cmd[1] h == Call(t)[1]
<1>2. c \in SetsUp /\ Allowed(c, h) BY <1>1
<1> HIDE DEF c, h
<1>3. h \notin {"kind delete", "find", "find again", "use", "delete assets", "helm uninstall",
                "helm at current"}
  BY <1>2 DEF SetsUp, Allowed
<1>4. h \in ImageCalls \cup {"fetch image", "look for cluster"} => c \in Creates
  BY <1>2 DEF Allowed
<1> QED BY <1>1, <1>3, <1>4, Zenon DEF c, h

LEMMA NamesAfter ==
  ASSUME NEW c, NEW n, May(c, n)
  PROVE  /\ c[1] \in {"fetch image", "load image", "cluster exists"} => n \in Before \ {"export"}
         /\ c[1] = "kind create" => n = "load image"
         /\ c[1] = "read current" => n = "export"
         /\ c[1] = "export" => n = "alias"
         /\ c[1] = "alias" => n = "restore"
         /\ c[1] = "restore" => n = "export own"
         /\ c[1] = "export own" => n = "look at own"
         /\ c[1] \in {"rename own", "delete own"} => n = "use own"
         /\ c[1] \in {"save image", "wait for nodes", "read image", "helm install",
                      "apply assets", "wait for scrape", "get", "helm at lab"} =>
              n \in Before \ {"export"} \/ n \notin Cleans
<1>1. /\ c[1] = "fetch image" => n = "look for cluster"
      /\ c[1] = "load image" => n = "read current"
      /\ c[1] = "cluster exists" => n = "read current"
      /\ c[1] = "kind create" => n = "load image"
      /\ c[1] = "read current" => n = "export"
      /\ c[1] = "export" => n = "alias"
      /\ c[1] = "alias" => n = "restore"
  BY DEF May
<1>2. /\ c[1] = "restore" => n = "export own"
      /\ c[1] = "export own" => n = "look at own"
      /\ c[1] \in {"rename own", "delete own"} => n = "use own"
  BY DEF May
<1>3. /\ c[1] = "save image" => n = "wait for nodes"
      /\ c[1] = "wait for nodes" => n \in {"cluster exists", ""}
      /\ c[1] = "read image" => n = "helm install"
      /\ c[1] = "helm install" => n \in {"apply assets", "cluster exists", ""}
      /\ c[1] = "apply assets" => n = "wait for scrape"
      /\ c[1] \in {"wait for scrape", "get", "helm at lab"} => n = ""
  BY DEF May
<1>4. c[1] \in {"save image", "wait for nodes", "read image", "helm install",
                      "apply assets", "wait for scrape", "get", "helm at lab"} =>
              n \in Before \ {"export"} \/ n \notin Cleans
  BY <1>3 DEF Before, Cleans, Exports
<1>5. c[1] \in {"fetch image", "load image", "cluster exists"} => n \in Before \ {"export"}
  BY <1>1 DEF Before
<1> QED BY <1>1, <1>2, <1>4, <1>5

\* The cluster that is up has made a context current.
UsedUp == lab.state = "up" => primary.current # None

\* A call that works on the files.
FileCall(h, h2, cmd, saved, saved2, l, l2, f, f2, o, o2) ==
  \/ /\ h = "read current" /\ h2 = "export" /\ saved2 = f.current
     /\ f.current \in f.contexts /\ l2 = l /\ f2 = f /\ o2 = o
  \/ /\ h = "export" /\ h2 = "alias" /\ l.state = "up" /\ l2 = l /\ o2 = o
     /\ f2.contexts = f.contexts \cup {Kind} /\ f2.creds = l.gen /\ saved2 = saved
  \/ /\ h = "alias" /\ h2 = "restore" /\ l2 = l /\ o2 = o /\ saved2 = saved
     /\ f2.contexts = f.contexts \cup {Alias} /\ f2.creds = f.creds
  \/ /\ h = "restore" /\ h2 = "export own" /\ l2 = l /\ o2 = o
     /\ f2.contexts = f.contexts /\ f2.creds = f.creds /\ f2.current = saved
  \/ /\ h = "export own" /\ h2 = "look at own" /\ l2 = l /\ f2 = f
     /\ o2.contexts = o.contexts \cup {Kind} /\ o2.creds = l.gen
  \/ /\ h = "look at own" /\ l2 = l /\ f2 = f /\ o2 = o
     /\ \/ Alias \in o.contexts /\ h2 = "delete own"
        \/ Alias \notin o.contexts /\ h2 = "rename own"
  \/ /\ h = "rename own" /\ h2 = "use own" /\ l2 = l /\ f2 = f
     /\ o2.contexts = (o.contexts \ {Kind}) \cup {Alias} /\ o2.creds = o.creds
  \/ /\ h = "delete own" /\ h2 = "use own" /\ l2 = l /\ f2 = f
     /\ o2.contexts = o.contexts \ {Kind} /\ o2.creds = o.creds
  \/ /\ h = "use own" /\ h2 \notin Cleans /\ l2 = l /\ f2 = f
     /\ o2.contexts = o.contexts /\ o2.creds = o.creds /\ o2.current = Alias
  \/ cmd \in Creates /\ h2 \in {"kind create", "load image"}

\* What each call that works makes of the files.
LEMMA FilesChanged ==
  ASSUME NEW h, NEW h2, NEW cmd \in SetsUp, NEW saved, NEW saved2, NEW before,
         NEW l \in LabSet, NEW l2 \in LabSet, NEW f \in FileSet, NEW f2 \in FileSet,
         NEW o \in FileSet, NEW o2 \in FileSet, o.contexts \subseteq {Kind, Alias},
         Files(h, cmd, saved, before, l, f, o),
         FileCall(h, h2, cmd, saved, saved2, l, l2, f, f2, o, o2)
  PROVE  Files(h2, cmd, saved2, before, l2, f2, o2)
<1> USE DEF Files, Before, Exports, Cleans
<1>0. Kind # Alias BY DEF Kind, Alias
<1>1. CASE h = "read current" /\ h2 = "export" /\ saved2 = f.current
            /\ f.current \in f.contexts /\ l2 = l /\ f2 = f /\ o2 = o
  BY <1>1
<1>2. CASE /\ h = "export" /\ h2 = "alias" /\ l.state = "up" /\ l2 = l /\ o2 = o
            /\ f2.contexts = f.contexts \cup {Kind} /\ f2.creds = l.gen /\ saved2 = saved
  BY <1>2
<1>3. CASE /\ h = "alias" /\ h2 = "restore" /\ l2 = l /\ o2 = o /\ saved2 = saved
            /\ f2.contexts = f.contexts \cup {Alias} /\ f2.creds = f.creds
  BY <1>3
<1>4. CASE /\ h = "restore" /\ h2 = "export own" /\ l2 = l /\ o2 = o
            /\ f2.contexts = f.contexts /\ f2.creds = f.creds /\ f2.current = saved
  BY <1>4
<1>5. CASE /\ h = "export own" /\ h2 = "look at own" /\ l2 = l /\ f2 = f
            /\ o2.contexts = o.contexts \cup {Kind} /\ o2.creds = l.gen
  BY <1>5
<1>6. CASE /\ h = "look at own" /\ l2 = l /\ f2 = f /\ o2 = o
            /\ \/ Alias \in o.contexts /\ h2 = "delete own"
               \/ Alias \notin o.contexts /\ h2 = "rename own"
  <2>1. Kind \in o.contexts BY <1>6
  <2> QED BY <1>0, <1>6, <2>1
<1>7. CASE /\ h = "rename own" /\ h2 = "use own" /\ l2 = l /\ f2 = f
            /\ o2.contexts = (o.contexts \ {Kind}) \cup {Alias} /\ o2.creds = o.creds
  <2>1. o.contexts = {Kind} BY <1>7
  <2>2. o2.contexts = {Alias} BY <1>0, <1>7, <2>1
  <2> QED BY <1>7, <2>2
<1>8. CASE /\ h = "delete own" /\ h2 = "use own" /\ l2 = l /\ f2 = f
            /\ o2.contexts = o.contexts \ {Kind} /\ o2.creds = o.creds
  <2>1. o.contexts = {Kind, Alias} BY <1>8
  <2>2. o2.contexts = {Alias} BY <1>0, <1>8, <2>1
  <2> QED BY <1>8, <2>2
<1>9. CASE /\ h = "use own" /\ h2 \notin Cleans /\ l2 = l /\ f2 = f
            /\ o2.contexts = o.contexts /\ o2.creds = o.creds /\ o2.current = Alias
  BY <1>9
<1>10. CASE cmd \in Creates /\ h2 \in {"kind create", "load image"} BY <1>10
<1> QED BY <1>1, <1>2, <1>3, <1>4, <1>5, <1>6, <1>7, <1>8, <1>9, <1>10, Zenon DEF FileCall

LEMMA UsedUpNext ==
  ASSUME TypeInv, UsedUp, Next
  PROVE  UsedUp'
<1>0. Typed /\ ProcsOK BY Zenon DEF TypeInv
<1>1. PICK t \in Terminals : Step(t) BY Steps, Zenon
<1>2. CASE lab'.state = lab.state /\ primary' = primary BY <1>2 DEF UsedUp
<1>3. None \notin Contexts /\ Kind # None BY CommandsAssumption DEF Contexts
<1>4. primary \in FileSet BY <1>0, Zenon DEF Typed
<1>5. CASE Export(t) \/ KindCreate(t)
  <2>1. primary'.current = Kind
    <3>1. CASE Export(t)
      <4>1. primary' = [contexts |-> primary.contexts \cup {Kind}, current |-> Kind,
                        creds |-> lab.gen]
        BY <3>1, Zenon DEF Export, Exported
      <4> QED BY <4>1
    <3>2. CASE KindCreate(t)
      <4>1. primary' = [contexts |-> primary.contexts \cup {Kind}, current |-> Kind,
                        creds |-> lab.gen + 1]
        BY <3>2, Zenon DEF KindCreate
      <4> QED BY <4>1
    <3> QED BY <1>5, <3>1, <3>2
  <2> QED BY <1>3, <2>1 DEF UsedUp
<1>6. CASE SetAlias(t)
  <2>1. /\ primary' = [primary EXCEPT !.contexts = @ \cup {Alias}] /\ lab' = lab
    BY <1>6, Zenon DEF SetAlias
  <2>2. primary'.current = primary.current BY <1>4, <2>1 DEF FileSet
  <2> QED BY <2>1, <2>2 DEF UsedUp
<1>7. CASE Restore(t)
  <2>1. /\ primary' = [primary EXCEPT !.current = proc[t].saved]
        /\ Call(t)[1] = "restore" /\ Possible(t)
    BY <1>7, CallsRun, Zenon DEF Restore
  <2>2. proc[t].saved \in primary.contexts BY <2>1 DEF Possible
  <2>3. primary'.current = proc[t].saved BY <1>4, <2>1 DEF FileSet
  <2>4. primary.contexts \subseteq Contexts BY <1>4 DEF FileSet
  <2> QED BY <1>3, <2>2, <2>3, <2>4 DEF UsedUp
<1>8. CASE UseContext(t)
  <2>1. /\ primary' = [primary EXCEPT !.current = Call(t)[2]] /\ proc[t].result = "running"
        /\ Call(t)[1] = "use" /\ Possible(t)
    BY <1>8, CallsRun, Zenon DEF UseContext
  <2>2. Call(t)[2] \in Contexts BY <1>0, <2>1, NamedContext, Zenon
  <2> DEFINE n == Call(t)[2]
  <2>3. primary' = [primary EXCEPT !.current = n] /\ n \in Contexts BY <2>1, <2>2
  <2> HIDE DEF n
  <2>4. primary'.current = n BY <1>4, <2>3 DEF FileSet
  <2> QED BY <1>3, <2>3, <2>4 DEF UsedUp
<1>9. CASE KindDelete(t) \/ KindCreateKilled(t)
  <2>1. lab'.state \in {"none", "half"} BY <1>0, <1>9, NoReleases, Zenon
  <2>2. lab'.state # "up" BY <2>1
  <2> QED BY <2>2 DEF UsedUp
<1>10. CASE LoadImage(t) \/ SaveImage(t)
  <2>1. /\ \/ lab' = [lab EXCEPT !.images = @ \cup {proc[t].image}]
           \/ lab' = [lab EXCEPT !.config = proc[t].image]
        /\ primary' = primary
    BY <1>10, Zenon DEF LoadImage, SaveImage
  <2>2. lab \in LabSet BY <1>0, Zenon DEF Typed
  <2>3. lab'.state = lab.state BY <2>1, <2>2 DEF LabSet
  <2> QED BY <1>2, <2>1, <2>3
<1>11. CASE HelmInstall(t) \/ HelmUninstall(t) \/ Assets(t)
  BY <1>0, <1>2, <1>11, ReleasesOK, Zenon
<1>12. CASE \E c \in Commands[t] : Start(t, c)
  <2>1. lab' = lab /\ primary' = primary BY <1>12, Zenon DEF Start
  <2> QED BY <1>2, <2>1
<1>13. CASE ExportOwn(t) \/ RenameOwn(t) \/ DeleteOwn(t) \/ UseOwn(t)
  <2>1. lab' = lab /\ primary' = primary
    BY <1>13, Zenon DEF ExportOwn, RenameOwn, DeleteOwn, UseOwn
  <2> QED BY <1>2, <2>1
<1>14. CASE \/ Look(t) \/ LookForCluster(t) \/ ReadImage(t) \/ ReadCurrent(t)
            \/ LookAtOwn(t) \/ Find(t) \/ HelmOther(t)
  <2>1. lab' = lab /\ primary' = primary BY <1>0, <1>14, QuietOK, Zenon
  <2> QED BY <1>2, <2>1
<1>15. CASE Refused(t) \/ GoesWrong(t)
  <2>1. lab' = lab /\ primary' = primary BY <1>0, <1>15, StopOK, Zenon
  <2> QED BY <1>2, <2>1
<1> QED BY <1>1, <1>5, <1>6, <1>7, <1>8, <1>9, <1>10, <1>11, <1>12, <1>13, <1>14, <1>15, Zenon
        DEF Step

LEMMA Kepts ==
  ASSUME Typed, ProcsOK, NEW t \in Terminals, Step(t), ~\E c \in Commands[t] : Start(t, c)
  PROVE  Kept(t)
<1>1. Faulted(t) \/ Stopped(t) => Kept(t) BY Zenon DEF Faulted, Stopped
<1>2. \A s : Moved(t, s) => Kept(t) BY Zenon DEF Moved
<1>3. \A s : Ran(t, s) => Kept(t) BY <1>1, <1>2, Zenon DEF Ran
<1>4. proc[t].result = "running" BY RunsRunning, Zenon
<1>5. CASE Look(t) \/ HelmOther(t)
  <2>1. Done(t) BY <1>5, Zenon DEF Look, HelmOther
  <2> QED BY <1>3, <1>4, <2>1, DoneRan, Zenon
<1>6. CASE LookForCluster(t) BY <1>3, <1>6, LookForClusterRan, Zenon
<1>7. CASE ReadImage(t) BY <1>1, <1>2, <1>7, ReadImageRan, Zenon
<1>8. CASE ReadCurrent(t) BY <1>1, <1>2, <1>8, ReadCurrentRan, Zenon
<1>9. CASE LookAtOwn(t) BY <1>3, <1>9, LookAtOwnRan, Zenon
<1>10. CASE Find(t) BY <1>3, <1>10, FindRan, Zenon
<1>11. CASE Export(t) \/ SetAlias(t) \/ Restore(t) \/ UseContext(t)
              \/ ExportOwn(t) \/ RenameOwn(t) \/ DeleteOwn(t) \/ UseOwn(t)
  BY <1>3, <1>11, FilesOK, Zenon
<1>12. CASE KindCreate(t) \/ KindDelete(t) \/ LoadImage(t) \/ SaveImage(t)
              \/ KindCreateKilled(t)
  BY <1>3, <1>12, ClusterOK, Zenon
<1>13. CASE HelmInstall(t) \/ HelmUninstall(t) \/ Assets(t)
  BY <1>3, <1>13, ReleasesOK, Zenon
<1>14. CASE Refused(t) \/ GoesWrong(t) BY <1>1, <1>14, StopOK, Zenon
<1> QED BY <1>5, <1>6, <1>7, <1>8, <1>9, <1>10, <1>11, <1>12, <1>13, <1>14, Zenon DEF Step

\* A step in another terminal: the terminal is not the only one that is used.
LEMMA NotAlone ==
  ASSUME Typed, ProcsOK, NEW t \in Terminals, NEW u \in Terminals, Step(u), u # t
  PROVE  ~Alone(t)'
<1>1. proc'[u].cmd[1] # "none"
  <2>1. CASE \E c \in Commands[u] : Start(u, c)
    <3>1. PICK c \in Commands[u] : Start(u, c) BY <2>1
    <3>2. proc'[u].cmd = c /\ c \in Arguments BY <3>1, StartOK, Zenon DEF Began
    <3>3. c[1] # "none" BY <3>2, ArgumentsAre
    <3> QED BY <3>2, <3>3, Zenon
  <2>2. CASE ~\E c \in Commands[u] : Start(u, c)
    <3>1. proc[u].result = "running" BY <2>2, RunsRunning, Zenon
    <3>2. proc[u].cmd[1] # "none" BY <3>1, Running, Zenon DEF Behind
    <3>3. Kept(u) BY <2>2, Kepts, Zenon
    <3> QED BY <3>2, <3>3, Zenon DEF Kept
  <2> QED BY <2>1, <2>2
<1> QED BY <1>1, Zenon DEF Alone

LEMMA AloneNow ==
  ASSUME NEW t \in Terminals, Others(t), Alone(t)'
  PROVE  Alone(t)
  BY Zenon DEF Others, Alone

\* In the only terminal that is used, a call leaves the files as the next one needs.
LEMMA FilesOfNext ==
  ASSUME TypeInv, UsedUp, NEW t \in Terminals, Step(t), Next,
         proc[t].result = "running", proc[t].cmd[1] \in SetsUp, FilesOf(proc[t]),
         ~\E c \in Commands[t] : Start(t, c),
         proc'[t].result # "failed"
  PROVE  Files(Ahead(proc'[t].todo), proc[t].cmd[1], proc'[t].saved, proc[t].before,
               lab', primary', own')
<1>0. Typed /\ ProcsOK /\ FilesFine BY Zenon DEF TypeInv
<1> DEFINE h == Call(t)[1] h2 == Ahead(proc'[t].todo) cmd == proc[t].cmd[1]
           saved == proc[t].saved saved2 == proc'[t].saved before == proc[t].before
           Goal == Files(h2, cmd, saved2, before, lab', primary', own')
<1>1. /\ h \notin {"kind delete", "find", "find again", "use", "delete assets",
                   "helm uninstall", "helm at current"}
      /\ h \in ImageCalls \cup {"fetch image", "look for cluster"} => cmd \in Creates
      /\ Files(h, cmd, saved, before, lab, primary, own)
  <2>1. Ahead(proc[t].todo) = h BY <1>0, SetsUpNames, Zenon
  <2> QED BY <1>0, <2>1, SetsUpNames, Zenon DEF FilesOf
<1>2. Ran(t, Tail(proc[t].todo)) => May(Call(t), h2) /\ saved2 = saved
  BY <1>0, GoesOn, Zenon
<1>3. /\ lab \in LabSet /\ primary \in FileSet /\ own \in FileSet
      /\ own.contexts \subseteq {Kind, Alias}
      /\ lab.gen \in Nat
  BY <1>0 DEF Typed, FilesFine, LabSet
<1>4. Typed' BY <1>0, TypedNext, Zenon
<1>5. lab' \in LabSet /\ primary' \in FileSet /\ own' \in FileSet BY <1>4 DEF Typed
<1>6. Faulted(t) \/ Stopped(t) => FALSE BY Zenon DEF Faulted, Stopped
<1>7. SUFFICES Goal BY Zenon
<1> HIDE DEF Goal, h, h2, cmd, saved, saved2, before
<1>10. CASE Look(t) \/ HelmOther(t) \/ SaveImage(t) \/ LoadImage(t)
              \/ HelmInstall(t) \/ Assets(t) \/ HelmUninstall(t)
  <2>1. /\ Ran(t, Tail(proc[t].todo))
        /\ primary' = primary /\ own' = own
        /\ h \in {"fetch image", "cluster exists", "wait for nodes", "wait for scrape", "get",
                  "helm at lab", "helm at current", "save image", "load image",
                  "helm install", "apply assets", "delete assets", "helm uninstall"}
    <3>1. CASE Look(t) \/ HelmOther(t)
      <4>1. Done(t) /\ primary' = primary /\ own' = own
        BY <3>1, Zenon DEF Look, HelmOther
      <4>2. h \in {"fetch image", "cluster exists", "wait for nodes", "wait for scrape",
                   "get", "helm at lab", "helm at current"}
        BY <3>1, CallsRun, Zenon DEF Look, HelmOther, h
      <4> QED BY <1>0, <4>1, <4>2, DoneRan, Zenon
    <3>2. CASE SaveImage(t) \/ LoadImage(t)
      <4>1. h \in {"save image", "load image"} /\ primary' = primary /\ own' = own
        BY <3>2, CallsRun, Zenon DEF SaveImage, LoadImage, h
      <4> QED BY <1>0, <3>2, <4>1, ClusterOK, Zenon
    <3>3. CASE HelmInstall(t) \/ Assets(t) \/ HelmUninstall(t)
      <4>1. h \in {"helm install", "apply assets", "delete assets", "helm uninstall"}
        BY <3>3, CallsRun, Zenon DEF HelmInstall, Assets, HelmUninstall, h
      <4> QED BY <1>0, <3>3, <4>1, ReleasesOK, Zenon
    <3> QED BY <1>10, <3>1, <3>2, <3>3, Zenon
  <2>2. lab'.state = lab.state /\ lab'.gen = lab.gen
    <3>1. CASE Look(t) \/ HelmOther(t)
      <4>1. lab' = lab BY <3>1, Zenon DEF Look, HelmOther
      <4> QED BY <4>1
    <3>2. CASE SaveImage(t)
      <4>1. lab' = [lab EXCEPT !.config = proc[t].image] BY <3>2, Zenon DEF SaveImage
      <4> QED BY <1>3, <4>1 DEF LabSet
    <3>3. CASE LoadImage(t)
      <4>1. lab' = [lab EXCEPT !.images = @ \cup {proc[t].image}]
        BY <3>3, Zenon DEF LoadImage
      <4> QED BY <1>3, <4>1 DEF LabSet
    <3>4. CASE HelmInstall(t) \/ Assets(t) \/ HelmUninstall(t)
      BY <1>0, <3>4, ReleasesOK, Zenon
    <3> QED BY <1>10, <3>1, <3>2, <3>3, <3>4, Zenon
  <2>3. May(Call(t), h2) /\ saved2 = saved BY <1>2, <2>1, Zenon
  <2>4. h \in {"fetch image", "cluster exists", "load image"} \/
        h \in {"wait for nodes", "wait for scrape", "get", "helm at lab", "save image",
               "helm install", "apply assets"}
    BY <1>1, <2>1
  <2>5. \/ h \notin {"alias", "restore"} /\ h2 \in Before \ {"export"}
        \/ h \notin Cleans \cup {"use own"} /\ h2 \notin Cleans
    <3>1. CASE h \in {"fetch image", "cluster exists", "load image"}
      <4>1. h2 \in Before \ {"export"} BY <2>3, <3>1, NamesAfter, Zenon DEF h
      <4>2. h \notin {"alias", "restore"} BY <3>1
      <4> QED BY <4>1, <4>2
    <3>2. CASE h \in {"wait for nodes", "wait for scrape", "get", "helm at lab", "save image",
                      "helm install", "apply assets"}
      <4>1. h2 \in Before \ {"export"} \/ h2 \notin Cleans
        BY <2>3, <3>2, NamesAfter, Zenon DEF h
      <4>2. h \notin {"alias", "restore"} /\ h \notin Cleans \cup {"use own"}
        BY <3>2 DEF Cleans, Exports, Before
      <4> QED BY <4>1, <4>2
    <3> QED BY <2>4, <3>1, <3>2
  <2>6. Files(h2, cmd, saved, before, lab', primary, own)
    BY <1>1, <2>2, <2>5, FilesQuiet, Zenon
  <2> QED BY <2>1, <2>3, <2>6, Zenon DEF Goal
<1>11. CASE ReadImage(t)
  <2>1. h = "read image" /\ lab' = lab /\ primary' = primary /\ own' = own
    BY <1>11, CallsRun, Zenon DEF ReadImage, h
  <2>2. Moved(t, Tail(proc[t].todo)) /\ saved2 = saved
    BY <1>0, <1>6, <1>11, ReadImageRan, Zenon DEF saved, saved2
  <2>3. May(Call(t), h2) BY <1>0, <2>2, Running, Zenon DEF Behind, Moved, h2
  <2>4. h2 \in Before \ {"export"} \/ h2 \notin Cleans
    BY <2>1, <2>3, NamesAfter DEF h
  <2>5. h \notin {"alias", "restore"} /\ h \notin Cleans \cup {"use own"}
    BY <2>1 DEF Cleans, Exports, Before
  <2>6. Files(h2, cmd, saved, before, lab', primary, own)
    BY <1>1, <2>1, <2>4, <2>5, FilesQuiet, Zenon
  <2> QED BY <2>1, <2>2, <2>6, Zenon DEF Goal
<1>12. CASE LookForCluster(t) \/ KindCreate(t)
  <2>1. h \in {"look for cluster", "kind create"}
    BY <1>12, CallsRun, Zenon DEF LookForCluster, KindCreate, h
  <2>2. cmd \in Creates
    <3>1. h \in ImageCalls \cup {"fetch image", "look for cluster"}
      BY <2>1 DEF ImageCalls
    <3> QED BY <1>1, <3>1, Zenon
  <2>3. h2 \in {"kind create", "load image"}
    <3>1. CASE LookForCluster(t)
      <4>1. PICK s : Ran(t, s) /\ Ahead(s) \in {"kind create", "load image"}
        BY <1>0, <3>1, LookForClusterRan, Zenon
      <4>2. proc'[t].todo = s BY <1>6, <4>1, Zenon DEF Ran, Moved
      <4> QED BY <4>1, <4>2, Zenon DEF h2
    <3>2. CASE KindCreate(t)
      <4>1. h = "kind create" BY <3>2, CallsRun, Zenon DEF KindCreate, h
      <4>2. Ran(t, Tail(proc[t].todo)) BY <1>0, <3>2, ClusterOK, Zenon
      <4>3. h2 = "load image" BY <1>2, <4>1, <4>2, NamesAfter DEF h
      <4> QED BY <4>3
    <3> QED BY <1>12, <3>1, <3>2, Zenon
  <2>4. cmd \in SetsUp BY Zenon DEF cmd
  <2>8. FileCall(h, h2, cmd, saved, saved2, lab, lab', primary, primary', own, own')
    BY <2>2, <2>3, <2>4 DEF FileCall
  <2> QED BY <1>1, <1>3, <1>5, <2>4, <2>8, FilesChanged, Zenon DEF Goal
<1>13. CASE ReadCurrent(t)
  <2>1. h = "read current" /\ lab' = lab /\ primary' = primary /\ own' = own /\ Possible(t)
    BY <1>13, CallsRun, Zenon DEF ReadCurrent, h
  <2>2. Moved(t, Tail(proc[t].todo)) /\ saved2 = primary.current
    BY <1>0, <1>6, <1>13, ReadCurrentRan, Zenon DEF saved2
  <2>3. May(Call(t), h2) BY <1>0, <2>2, Running, Zenon DEF Behind, Moved, h2
  <2>4. h2 = "export" BY <2>1, <2>3, NamesAfter DEF h
  <2>5. primary.current # None BY <2>1 DEF Possible, h
  <2>6. primary.current \in primary.contexts BY <1>0, <2>5 DEF FilesFine
  <2>7. cmd \in SetsUp BY Zenon DEF cmd
  <2>8. FileCall(h, h2, cmd, saved, saved2, lab, lab', primary, primary', own, own')
    BY <2>1, <2>2, <2>4, <2>6 DEF FileCall
  <2> QED BY <1>1, <1>3, <1>5, <2>7, <2>8, FilesChanged, Zenon DEF Goal
<1>14. CASE Export(t)
  <2>1. /\ h = "export" /\ lab' = lab /\ own' = own /\ Possible(t)
        /\ primary' = [contexts |-> primary.contexts \cup {Kind}, current |-> Kind,
                       creds |-> lab.gen]
    BY <1>14, CallsRun, Zenon DEF Export, Exported, h
  <2>2. May(Call(t), h2) /\ saved2 = saved BY <1>0, <1>2, <1>14, FilesOK, Zenon
  <2>3. h2 = "alias" BY <2>1, <2>2, NamesAfter DEF h
  <2>4. lab.state = "up" BY <2>1 DEF Possible, h
  <2>5. primary'.contexts = primary.contexts \cup {Kind} /\ primary'.creds = lab.gen
    BY <2>1
  <2>7. cmd \in SetsUp BY Zenon DEF cmd
  <2>8. FileCall(h, h2, cmd, saved, saved2, lab, lab', primary, primary', own, own')
    BY <2>1, <2>2, <2>3, <2>4, <2>5 DEF FileCall
  <2> QED BY <1>1, <1>3, <1>5, <2>7, <2>8, FilesChanged, Zenon DEF Goal
<1>15. CASE SetAlias(t)
  <2>1. /\ h = "alias" /\ lab' = lab /\ own' = own
        /\ primary' = [primary EXCEPT !.contexts = @ \cup {Alias}]
    BY <1>15, CallsRun, Zenon DEF SetAlias, h
  <2>2. May(Call(t), h2) /\ saved2 = saved BY <1>0, <1>2, <1>15, FilesOK, Zenon
  <2>3. h2 = "restore" BY <2>1, <2>2, NamesAfter DEF h
  <2>5. primary'.contexts = primary.contexts \cup {Alias} /\ primary'.creds = primary.creds
    BY <1>3, <2>1 DEF FileSet
  <2>7. cmd \in SetsUp BY Zenon DEF cmd
  <2>8. FileCall(h, h2, cmd, saved, saved2, lab, lab', primary, primary', own, own')
    BY <2>1, <2>2, <2>3, <2>5 DEF FileCall
  <2> QED BY <1>1, <1>3, <1>5, <2>7, <2>8, FilesChanged, Zenon DEF Goal
<1>16. CASE Restore(t)
  <2>1. /\ h = "restore" /\ lab' = lab /\ own' = own
        /\ primary' = [primary EXCEPT !.current = saved]
    BY <1>16, CallsRun, Zenon DEF Restore, h, saved
  <2>2. May(Call(t), h2) /\ saved2 = saved BY <1>0, <1>2, <1>16, FilesOK, Zenon
  <2>3. h2 = "export own" BY <2>1, <2>2, NamesAfter DEF h
  <2>5. /\ primary'.contexts = primary.contexts /\ primary'.creds = primary.creds
        /\ primary'.current = saved
    BY <1>3, <2>1 DEF FileSet
  <2>7. cmd \in SetsUp BY Zenon DEF cmd
  <2>8. FileCall(h, h2, cmd, saved, saved2, lab, lab', primary, primary', own, own')
    BY <2>1, <2>2, <2>3, <2>5 DEF FileCall
  <2> QED BY <1>1, <1>3, <1>5, <2>7, <2>8, FilesChanged, Zenon DEF Goal
<1>17. CASE ExportOwn(t)
  <2>1. /\ h = "export own" /\ lab' = lab /\ primary' = primary
        /\ own' = [contexts |-> own.contexts \cup {Kind}, current |-> Kind, creds |-> lab.gen]
    BY <1>17, CallsRun, Zenon DEF ExportOwn, Exported, h
  <2>2. May(Call(t), h2) /\ saved2 = saved BY <1>0, <1>2, <1>17, FilesOK, Zenon
  <2>3. h2 = "look at own" BY <2>1, <2>2, NamesAfter DEF h
  <2>5. own'.contexts = own.contexts \cup {Kind} /\ own'.creds = lab.gen BY <2>1
  <2>7. cmd \in SetsUp BY Zenon DEF cmd
  <2>8. FileCall(h, h2, cmd, saved, saved2, lab, lab', primary, primary', own, own')
    BY <2>1, <2>2, <2>3, <2>5 DEF FileCall
  <2> QED BY <1>1, <1>3, <1>5, <2>7, <2>8, FilesChanged, Zenon DEF Goal
<1>18. CASE LookAtOwn(t)
  <2>1. h = "look at own" /\ lab' = lab /\ primary' = primary /\ own' = own
    BY <1>18, CallsRun, Zenon DEF LookAtOwn, h
  <2>2. PICK s : Ran(t, s) /\ Ahead(s) = IF Kind \notin own.contexts THEN "use own"
                              ELSE IF Alias \in own.contexts THEN "delete own"
                              ELSE "rename own"
    BY <1>0, <1>18, LookAtOwnRan, Zenon
  <2>3. h2 = Ahead(s) /\ saved2 = saved BY <1>6, <2>2, Zenon DEF Ran, Moved, h2, saved, saved2
  <2>4. Kind \in own.contexts BY <1>1, <2>1 DEF Files
  <2>5. \/ Alias \in own.contexts /\ h2 = "delete own"
        \/ Alias \notin own.contexts /\ h2 = "rename own"
    BY <2>2, <2>3, <2>4
  <2>7. cmd \in SetsUp BY Zenon DEF cmd
  <2>8. FileCall(h, h2, cmd, saved, saved2, lab, lab', primary, primary', own, own')
    BY <2>1, <2>3, <2>5 DEF FileCall
  <2> QED BY <1>1, <1>3, <1>5, <2>7, <2>8, FilesChanged, Zenon DEF Goal
<1>19. CASE RenameOwn(t)
  <2>1. /\ h = "rename own" /\ lab' = lab /\ primary' = primary
        /\ own' = [own EXCEPT !.contexts = (@ \ {Kind}) \cup {Alias},
                               !.current = IF @ = Kind THEN Alias ELSE @]
    BY <1>19, CallsRun, Zenon DEF RenameOwn, h
  <2>2. May(Call(t), h2) /\ saved2 = saved BY <1>0, <1>2, <1>19, FilesOK, Zenon
  <2>3. h2 = "use own"
    <3>1. Call(t)[1] \in {"rename own", "delete own"} BY <2>1 DEF h
    <3> QED BY <2>2, <3>1, NamesAfter, Zenon
  <2>5. own'.contexts = (own.contexts \ {Kind}) \cup {Alias} /\ own'.creds = own.creds
    BY <1>3, <2>1 DEF FileSet
  <2>7. cmd \in SetsUp BY Zenon DEF cmd
  <2>8. FileCall(h, h2, cmd, saved, saved2, lab, lab', primary, primary', own, own')
    BY <2>1, <2>2, <2>3, <2>5 DEF FileCall
  <2> QED BY <1>1, <1>3, <1>5, <2>7, <2>8, FilesChanged, Zenon DEF Goal
<1>20. CASE DeleteOwn(t)
  <2>1. /\ h = "delete own" /\ lab' = lab /\ primary' = primary
        /\ own' = [own EXCEPT !.contexts = @ \ {Kind}]
    BY <1>20, CallsRun, Zenon DEF DeleteOwn, h
  <2>2. May(Call(t), h2) /\ saved2 = saved BY <1>0, <1>2, <1>20, FilesOK, Zenon
  <2>3. h2 = "use own"
    <3>1. Call(t)[1] \in {"rename own", "delete own"} BY <2>1 DEF h
    <3> QED BY <2>2, <3>1, NamesAfter, Zenon
  <2>5. own'.contexts = own.contexts \ {Kind} /\ own'.creds = own.creds
    BY <1>3, <2>1 DEF FileSet
  <2>7. cmd \in SetsUp BY Zenon DEF cmd
  <2>8. FileCall(h, h2, cmd, saved, saved2, lab, lab', primary, primary', own, own')
    BY <2>1, <2>2, <2>3, <2>5 DEF FileCall
  <2> QED BY <1>1, <1>3, <1>5, <2>7, <2>8, FilesChanged, Zenon DEF Goal
<1>21. CASE UseOwn(t)
  <2>1. /\ h = "use own" /\ lab' = lab /\ primary' = primary
        /\ own' = [own EXCEPT !.current = Alias]
    BY <1>21, CallsRun, Zenon DEF UseOwn, h
  <2>2. May(Call(t), h2) /\ saved2 = saved BY <1>0, <1>2, <1>21, FilesOK, Zenon
  <2>3. h2 \notin Cleans
    <3>1. h2 \in {"save image", "read image", "helm at lab", "get", "find again", ""}
      BY <2>1, <2>2 DEF May, h
    <3> QED BY <3>1 DEF Cleans, Exports, Before
  <2>5. /\ own'.contexts = own.contexts /\ own'.creds = own.creds /\ own'.current = Alias
    BY <1>3, <2>1 DEF FileSet
  <2>7. cmd \in SetsUp BY Zenon DEF cmd
  <2>8. FileCall(h, h2, cmd, saved, saved2, lab, lab', primary, primary', own, own')
    BY <2>1, <2>2, <2>3, <2>5 DEF FileCall
  <2> QED BY <1>1, <1>3, <1>5, <2>7, <2>8, FilesChanged, Zenon DEF Goal
<1>22. CASE Find(t) \/ UseContext(t) \/ KindDelete(t)
  <2>1. h \in {"find", "find again", "use", "kind delete"}
    BY <1>22, CallsRun, Zenon DEF Find, UseContext, KindDelete, h
  <2> QED BY <1>1, <2>1
<1>23. CASE KindCreateKilled(t) \/ Refused(t) \/ GoesWrong(t)
  BY <1>0, <1>6, <1>23, ClusterOK, StopOK, Zenon
<1> QED
  BY <1>10, <1>11, <1>12, <1>13, <1>14, <1>15, <1>16, <1>17, <1>18, <1>19, <1>20, <1>21, <1>22,
     <1>23, Zenon DEF Step

LEMMA FilesBegin ==
  ASSUME NEW h \in {"fetch image", "cluster exists", "read current"},
         NEW cmd, NEW saved, NEW l, NEW f, NEW o
  PROVE  Files(h, cmd, saved, f.current, l, f, o)
  BY DEF Files, Before, Exports, Cleans

LEMMA SetUpNext ==
  ASSUME TypeInv, UsedUp, \A t \in Terminals : SetUp(t), Next
  PROVE  \A t \in Terminals : SetUp(t)'
<1>0. Typed /\ ProcsOK BY Zenon DEF TypeInv
<1>1. PICK u \in Terminals : Step(u) BY Steps, Zenon
<1>2. SUFFICES ASSUME NEW t \in Terminals, Alone(t)', proc'[t].cmd[1] \in SetsUp,
                      proc'[t].result # "failed"
               PROVE  FilesOf(proc[t])'
  BY Zenon DEF SetUp
<1>3. u = t BY <1>0, <1>1, <1>2, NotAlone, Zenon
<1>4. Step(t) /\ Others(t) BY <1>0, <1>1, <1>3, StepOthers, Zenon
<1>5. CASE \E c \in Commands[t] : Start(t, c)
  <2>1. PICK c \in Commands[t] : Start(t, c) BY <1>5
  <2>2. Began(t, c) /\ c \in Arguments BY <1>0, <2>1, StartOK, Zenon
  <2>3. lab' = lab /\ primary' = primary /\ own' = own BY <2>1, Zenon DEF Start
  <2> DEFINE h == Ahead(Program(c))
  <2>4. h \in {"fetch image", "cluster exists", "read current"}
    <3>1. c[1] \in SetsUp BY <1>2, <2>2, Zenon DEF Began
    <3> QED BY <2>2, <3>1, ProgramBegins, Zenon DEF Begins
  <2> HIDE DEF h
  <2>5. Files(h, c[1], proc'[t].saved, primary.current, lab, primary, own)
    BY <2>4, FilesBegin, Zenon
  <2>6. /\ Ahead(proc'[t].todo) = h /\ proc'[t].cmd[1] = c[1]
        /\ proc'[t].before = primary.current
    BY <2>2, Zenon DEF Began, h
  <2> QED BY <2>3, <2>5, <2>6, Zenon DEF FilesOf
<1>6. CASE ~\E c \in Commands[t] : Start(t, c)
  <2>1. proc[t].result = "running" BY <1>4, <1>6, RunsRunning, Zenon
  <2>2. Kept(t) BY <1>0, <1>4, <1>6, Kepts, Zenon
  <2>3. proc[t].cmd[1] \in SetsUp BY <1>2, <2>2, Zenon DEF Kept
  <2>4. Alone(t) BY <1>2, <1>4, AloneNow, Zenon
  <2>5. proc[t].result # "failed" BY <2>1
  <2>6. FilesOf(proc[t]) BY <2>3, <2>4, <2>5, Zenon DEF SetUp
  <2>7. Files(Ahead(proc'[t].todo), proc[t].cmd[1], proc'[t].saved, proc[t].before,
              lab', primary', own')
    BY <1>2, <1>4, <1>6, <2>1, <2>3, <2>6, FilesOfNext, Zenon
  <2> QED BY <2>2, <2>7, Zenon DEF FilesOf, Kept
<1> QED BY <1>5, <1>6

LEMMA OwnIs ==
  ASSUME own \in FileSet
  PROVE  own = [contexts |-> own.contexts, current |-> own.current, creds |-> own.creds]
  BY DEF FileSet

LEMMA FilesEnd ==
  ASSUME NEW cmd, NEW saved, NEW before, own \in FileSet,
         Files("", cmd, saved, before, lab, primary, own)
  PROVE  /\ lab.state = "up" /\ primary.creds = lab.gen /\ Alias \in primary.contexts
         /\ own = [contexts |-> {Alias}, current |-> Alias, creds |-> lab.gen]
         /\ cmd \notin Creates => primary.current = before
<1>1. "" \notin Cleans \cup {"use own"} BY DEF Cleans, Exports, Before
<1>2. /\ lab.state = "up" /\ primary.creds = lab.gen /\ Alias \in primary.contexts
      /\ own.contexts = {Alias} /\ own.current = Alias /\ own.creds = lab.gen
      /\ cmd \notin Creates => primary.current = before
  BY <1>1 DEF Files, Cleans, Exports, Before
<1> QED BY <1>2, OwnIs, Zenon

(* KubeconfigsInOrder: a command that has worked leaves the lab reachable  *)
(* through both files, whatever state earlier commands left them in, only  *)
(* gpu create and gpu use change the user's context, and without faults    *)
(* the context of kind does not stay in the file of the lab, however the   *)
(* setups interleave (kubeconfig/manager.go, cmd/gpu-lab/create.go).       *)
THEOREM KubeconfigsStay == Spec => []KubeconfigsInOrder
<1> DEFINE AllSetUp == \A t \in Terminals : SetUp(t)
<1>1. Spec => []TypeInv
  <2>1. Init => TypeInv BY TypeInvInit
  <2>2. TypeInv /\ [Next]_vars => TypeInv' BY TypeInvNext
  <2> QED BY <2>1, <2>2, PTL DEF Spec
<1>2. Init => UsedUp /\ AllSetUp
  <2> SUFFICES ASSUME Init PROVE UsedUp /\ AllSetUp OBVIOUS
  <2>1. lab.state # "up" BY BlankInit
  <2>2. "none" \notin SetsUp BY DEF SetsUp
  <2>3. AllSetUp BY <2>2, IdleProc, Zenon DEF SetUp
  <2> QED BY <2>1, <2>3 DEF UsedUp
<1>3. TypeInv /\ UsedUp /\ AllSetUp /\ [Next]_vars => UsedUp' /\ AllSetUp'
  <2> SUFFICES ASSUME TypeInv, UsedUp, AllSetUp, [Next]_vars PROVE UsedUp' /\ AllSetUp'
    OBVIOUS
  <2>1. CASE UNCHANGED vars
    <3>1. lab' = lab /\ primary' = primary /\ own' = own /\ proc' = proc
      BY <2>1 DEF vars
    <3>2. UsedUp' BY <3>1 DEF UsedUp
    <3>3. ASSUME NEW t \in Terminals PROVE SetUp(t)'
      <4>1. SetUp(t) OBVIOUS
      <4> QED BY <3>1, <4>1, Zenon DEF SetUp, Alone, FilesOf
    <3> QED BY <3>2, <3>3
  <2>2. CASE Next BY <2>2, UsedUpNext, SetUpNext, Zenon
  <2> QED BY <2>1, <2>2
<1>4. TypeInv /\ AllSetUp => KubeconfigsReady /\ KeepsCurrent
  <2>1. SUFFICES ASSUME TypeInv, AllSetUp, NEW t \in Terminals, Ended(t, "ok", SetsUp), Alone(t)
                 PROVE  /\ LabAnswers
                        /\ own = [contexts |-> {Alias}, current |-> Alias, creds |-> lab.gen]
                        /\ proc[t].cmd[1] \notin Creates => primary.current = proc[t].before
    BY Zenon DEF KubeconfigsReady, KeepsCurrent, Ended, Creates
  <2>2. proc[t].result = "ok" /\ proc[t].cmd[1] \in SetsUp BY <2>1, Zenon DEF Ended
  <2>3. proc[t].result # "failed" /\ proc[t].result # "running" BY <2>2
  <2>4. proc[t].todo = <<>> BY <2>1, <2>3, Zenon DEF TypeInv, ProcsOK, ProcOK
  <2>5. Ahead(proc[t].todo) = "" BY <2>4, EmptyShape, Zenon
  <2>6. FilesOf(proc[t]) BY <2>1, <2>2, <2>3, Zenon DEF SetUp
  <2>7. Files("", proc[t].cmd[1], proc[t].saved, proc[t].before, lab, primary, own)
    BY <2>5, <2>6, Zenon DEF FilesOf
  <2>8. own \in FileSet BY <2>1, Zenon DEF TypeInv, Typed
  <2> QED BY <2>7, <2>8, FilesEnd, Zenon DEF LabAnswers, Ready
<1> HIDE DEF AllSetUp
<1> QED BY <1>1, <1>2, <1>3, <1>4, OwnStaysClean, PTL DEF Spec, KubeconfigsInOrder

-----------------------------------------------------------------------------
(* gpu create can be run again *)

Made == lab.state = "none" => Blank(lab)

LEMMA MadeNext ==
  ASSUME TypeInv, Made, Next
  PROVE  Made'
<1>0. Typed /\ ProcsOK BY Zenon DEF TypeInv
<1>1. PICK t \in Terminals : Step(t) BY Steps, Zenon
<1>2. CASE lab' = lab BY <1>2 DEF Made, Blank
<1>3. CASE KindCreate(t) \/ KindDelete(t) \/ KindCreateKilled(t)
  <2>1. Blank(lab') BY <1>0, <1>3, NoReleases, Zenon
  <2> QED BY <2>1, Zenon DEF Made, Blank
<1>4. CASE LoadImage(t) \/ SaveImage(t) \/ HelmInstall(t) \/ HelmUninstall(t) \/ Assets(t)
  <2>1. lab.state # "none" BY <1>4, NeedsCluster, Zenon
  <2>2. lab'.state = lab.state
    <3>1. CASE LoadImage(t) \/ SaveImage(t)
      <4>1. \/ lab' = [lab EXCEPT !.images = @ \cup {proc[t].image}]
            \/ lab' = [lab EXCEPT !.config = proc[t].image]
        BY <3>1, Zenon DEF LoadImage, SaveImage
      <4>2. lab \in LabSet BY <1>0, Zenon DEF Typed
      <4> QED BY <4>1, <4>2 DEF LabSet
    <3>2. CASE HelmInstall(t) \/ HelmUninstall(t) \/ Assets(t)
      BY <1>0, <3>2, ReleasesOK, Zenon
    <3> QED BY <1>4, <3>1, <3>2
  <2> QED BY <2>1, <2>2 DEF Made
<1>5. CASE \E c \in Commands[t] : Start(t, c) BY <1>2, <1>5, Zenon DEF Start
<1>6. CASE \/ Look(t) \/ LookForCluster(t) \/ ReadImage(t) \/ ReadCurrent(t)
           \/ LookAtOwn(t) \/ Find(t) \/ HelmOther(t)
  BY <1>0, <1>2, <1>6, QuietOK, Zenon
<1>7. CASE \/ Export(t) \/ SetAlias(t) \/ Restore(t) \/ UseContext(t)
           \/ ExportOwn(t) \/ RenameOwn(t) \/ DeleteOwn(t) \/ UseOwn(t)
  BY <1>0, <1>2, <1>7, FilesOK, Zenon
<1>8. CASE Refused(t) \/ GoesWrong(t) BY <1>0, <1>2, <1>8, StopOK, Zenon
<1> QED BY <1>1, <1>3, <1>4, <1>5, <1>6, <1>7, <1>8, Zenon DEF Step

\* kind is asked to create the cluster only if there is none.
Found(t) ==
  /\ LookForCluster(t) /\ lab' = lab
  /\ \/ Ahead(proc'[t].todo) = "kind create" /\ lab.state = "none"
     \/ Ahead(proc'[t].todo) = "load image" /\ lab.state # "none"

\* The calls that are left after one that has worked.
LEMMA CallsLeft ==
  ASSUME Typed, ProcsOK, NEW t \in Terminals, Step(t), ~\E c \in Commands[t] : Start(t, c),
         proc[t].cmd[1] \in SetsUp, proc'[t].result # "failed"
  PROVE  /\ \A x \in CallsIn(proc[t].todo) :
              \/ x = Call(t) \/ x[1] \in {"look for cluster", "kind create", "look at own"}
              \/ x \in CallsIn(proc'[t].todo)
         /\ \/ Found(t)
            \/ LookAtOwn(t) /\ Ahead(proc'[t].todo) \in {"use own", "rename own", "delete own"}
            \/ May(Call(t), Ahead(proc'[t].todo))
<1>0. proc[t].result = "running" BY RunsRunning, Zenon
<1>1. ~Faulted(t) /\ ~Stopped(t) BY Zenon DEF Faulted, Stopped
<1> DEFINE Left == /\ \A x \in CallsIn(proc[t].todo) : x = Call(t) \/ x \in CallsIn(proc'[t].todo)
                   /\ May(Call(t), Ahead(proc'[t].todo))
<1>2. ASSUME proc'[t].todo = Tail(proc[t].todo) PROVE Left
  <2> DEFINE s == Tail(proc[t].todo)
  <2>1. CallsIn(proc[t].todo) = {Call(t)} \cup CallsIn(s) /\ May(Call(t), Ahead(s))
    BY <1>0, Running, Zenon DEF CallNow, Behind
  <2>2. proc'[t].todo = s BY <1>2
  <2> HIDE DEF s
  <2> QED BY <2>1, <2>2, Zenon
<1>3. ASSUME Ran(t, Tail(proc[t].todo)) PROVE Left
  BY <1>1, <1>2, <1>3, Zenon DEF Ran, Moved
<1>4. CASE Look(t) \/ HelmOther(t)
  <2>1. Done(t) BY <1>4, Zenon DEF Look, HelmOther
  <2>2. Left BY <1>0, <1>3, <2>1, DoneRan, Zenon
  <2> QED BY <2>2, Zenon
<1>5. CASE ReadImage(t) \/ ReadCurrent(t)
  <2>1. Moved(t, Tail(proc[t].todo)) BY <1>1, <1>5, ReadImageRan, ReadCurrentRan, Zenon
  <2>2. Left BY <1>2, <2>1, Zenon DEF Moved
  <2> QED BY <2>2, Zenon
<1>6. CASE \/ Export(t) \/ SetAlias(t) \/ Restore(t) \/ UseContext(t)
           \/ ExportOwn(t) \/ RenameOwn(t) \/ DeleteOwn(t) \/ UseOwn(t)
  <2>2. Left BY <1>3, <1>6, FilesOK, Zenon
  <2> QED BY <2>2, Zenon
<1>7. CASE \/ KindCreate(t) \/ KindDelete(t) \/ LoadImage(t) \/ SaveImage(t)
           \/ KindCreateKilled(t)
  <2>2. Left BY <1>3, <1>7, ClusterOK, Zenon
  <2> QED BY <2>2, Zenon
<1>8. CASE HelmInstall(t) \/ HelmUninstall(t) \/ Assets(t)
  <2>2. Left BY <1>3, <1>8, ReleasesOK, Zenon
  <2> QED BY <2>2, Zenon
<1>9. CASE Refused(t) \/ GoesWrong(t) BY <1>1, <1>9, StopOK, Zenon
<1>10. CASE Find(t)
  <2>1. proc[t].cmd[1] = "use" BY <1>10, FindRan, Zenon
  <2> QED BY <2>1 DEF SetsUp
<1>11. CASE LookForCluster(t)
  <2>1. PICK s : /\ Ran(t, s) /\ Ahead(s) \in {"kind create", "load image"}
                 /\ Ahead(s) = "kind create" => lab.state = "none"
                 /\ Ahead(s) = "load image" => lab.state # "none"
                 /\ \A x \in CallsIn(proc[t].todo) :
                     x[1] \in {"look for cluster", "kind create"} \/ x \in CallsIn(s)
    BY <1>11, LookForClusterRan, Zenon
  <2>2. proc'[t].todo = s BY <1>1, <2>1, Zenon DEF Ran, Moved
  <2>3. \/ Ahead(s) = "kind create" /\ lab.state = "none"
        \/ Ahead(s) = "load image" /\ lab.state # "none"
    BY <2>1
  <2>4. \A x \in CallsIn(proc[t].todo) :
          x[1] \in {"look for cluster", "kind create", "look at own"} \/ x \in CallsIn(s)
    BY <2>1, Zenon
  <2>5. lab' = lab BY <1>11, QuietOK, Zenon
  <2>6. Found(t) BY <1>11, <2>2, <2>3, <2>5 DEF Found
  <2> QED BY <2>2, <2>4, <2>6, Zenon
<1>12. CASE LookAtOwn(t)
  <2>1. PICK s : /\ Ran(t, s)
                 /\ Ahead(s) = IF Kind \notin own.contexts THEN "use own"
                              ELSE IF Alias \in own.contexts THEN "delete own"
                              ELSE "rename own"
                 /\ \A x \in CallsIn(proc[t].todo) : x[1] = "look at own" \/ x \in CallsIn(s)
    BY <1>12, LookAtOwnRan, Zenon
  <2>2. proc'[t].todo = s BY <1>1, <2>1, Zenon DEF Ran, Moved
  <2>3. Ahead(s) \in {"use own", "rename own", "delete own"} BY <2>1
  <2>4. \A x \in CallsIn(proc[t].todo) :
          x[1] \in {"look for cluster", "kind create", "look at own"} \/ x \in CallsIn(s)
    BY <2>1, Zenon
  <2> QED BY <1>12, <2>2, <2>3, <2>4, Zenon
<1> QED BY <1>4, <1>5, <1>6, <1>7, <1>8, <1>9, <1>10, <1>11, <1>12, Zenon DEF Step

\* What a gpu create that goes on has found or made.
Fresh == {"fetch image", "look for cluster", "kind create"}
CreatingOf(p) ==
  /\ Ahead(p.todo) \notin Fresh => lab.state # "none"
  /\ Ahead(p.todo) = "kind create" => lab.state = "none"
  /\ Never(p.todo, {"save image"}) => lab.config # NoImage
  /\ p.cmd[1] = "create all" =>
       \/ <<"helm install", Exporter>> \in CallsIn(p.todo)
       \/ lab.releases[Exporter].status = "deployed"
  /\ Ahead(p.todo) = "apply assets" => lab.crds
Creating(t) ==
  Alone(t) /\ proc[t].cmd[1] \in Creates /\ proc[t].result # "failed" => CreatingOf(proc[t])

LEMMA CreatesSetUp == Creates \subseteq SetsUp BY DEF Creates, SetsUp

LEMMA NamesBefore ==
  ASSUME NEW c, NEW n, May(c, n)
  PROVE  /\ n \notin Fresh => c[1] \notin {"fetch image", "look for cluster"} \/ n = "load image"
         /\ c[1] = "fetch image" => n \in Fresh
         /\ c[1] = "look for cluster" => n = "kind create"
         /\ n = "kind create" => c[1] = "look for cluster"
         /\ n = "apply assets" => c[1] = "helm install" /\ c[2] = Monitoring
<1>1. /\ c[1] = "fetch image" => n = "look for cluster"
      /\ c[1] = "look for cluster" => n = "kind create"
      /\ n = "kind create" => c[1] = "look for cluster"
  BY DEF May
<1>2. n = "apply assets" => c[1] = "helm install" /\ c[2] = Monitoring
  BY DEF May
<1> QED BY <1>1, <1>2 DEF Fresh

\* What a call of gpu create that has worked changes in the lab.
Same == lab'.state = lab.state /\ lab'.config = lab.config
Effect(t) ==
  \/ /\ Same /\ lab'.releases = lab.releases
     /\ Call(t)[1] \notin {"kind create", "helm install", "save image"}
  \/ KindCreate(t) /\ Call(t)[1] = "kind create" /\ lab'.state = "up"
  \/ /\ Call(t)[1] = "save image" /\ lab'.state = lab.state
     /\ lab'.releases = lab.releases /\ lab'.config # NoImage
  \/ /\ Call(t)[1] = "helm install" /\ Same
     /\ Call(t)[2] \in Components /\ lab'.releases[Call(t)[2]].status = "deployed"
     /\ \A d \in Components \ {Call(t)[2]} : lab'.releases[d] = lab.releases[d]
     /\ Call(t)[2] = Monitoring => lab'.crds

LEMMA CreateEffect ==
  ASSUME TypeInv, NEW t \in Terminals, Step(t), ~\E c \in Commands[t] : Start(t, c),
         proc[t].cmd[1] \in Creates, proc'[t].result # "failed"
  PROVE  Effect(t)
<1>0. Typed /\ ProcsOK /\ Carries BY Zenon DEF TypeInv
<1>1. ~Faulted(t) /\ ~Stopped(t) BY Zenon DEF Faulted, Stopped
<1>2. proc[t].result = "running" BY RunsRunning, Zenon
<1>3. lab \in LabSet BY <1>0, Zenon DEF Typed
<1>4. Call(t)[1] \notin {"kind delete", "find", "find again", "use", "delete assets",
                         "helm uninstall", "helm at current"}
  BY <1>0, <1>2, SetsUpNames, CreatesSetUp, Zenon
<1>5. ASSUME lab' = lab, Call(t)[1] \notin {"kind create", "helm install", "save image"}
      PROVE  Effect(t)
  BY <1>5, Zenon DEF Effect, Same
<1>6. CASE Look(t) \/ HelmOther(t)
  <2>1. lab' = lab BY <1>6, Zenon DEF Look, HelmOther
  <2>2. Call(t)[1] \in {"fetch image", "cluster exists", "wait for nodes", "wait for scrape",
                   "get", "helm at lab", "helm at current"}
    BY <1>6, CallsRun, Zenon DEF Look, HelmOther
  <2> QED BY <1>5, <2>1, <2>2
<1>7. CASE LookForCluster(t) \/ ReadImage(t) \/ ReadCurrent(t) \/ LookAtOwn(t)
  <2>1. lab' = lab BY <1>7, Zenon DEF LookForCluster, ReadImage, ReadCurrent, LookAtOwn
  <2>2. Call(t)[1] \in {"look for cluster", "read image", "read current", "look at own"}
    BY <1>7, CallsRun, Zenon DEF LookForCluster, ReadImage, ReadCurrent, LookAtOwn
  <2> QED BY <1>5, <2>1, <2>2
<1>8. CASE Export(t) \/ SetAlias(t) \/ Restore(t) \/ ExportOwn(t) \/ RenameOwn(t)
           \/ DeleteOwn(t) \/ UseOwn(t)
  <2>1. lab' = lab
    BY <1>8, Zenon DEF Export, SetAlias, Restore, ExportOwn, RenameOwn, DeleteOwn, UseOwn
  <2>2. Call(t)[1] \in {"export", "alias", "restore", "export own", "rename own", "delete own",
                        "use own"}
    BY <1>8, CallsRun, Zenon DEF Export, SetAlias, Restore, ExportOwn, RenameOwn, DeleteOwn,
                                 UseOwn
  <2> QED BY <1>5, <2>1, <2>2
<1>9. CASE Find(t) \/ UseContext(t) \/ KindDelete(t) \/ HelmUninstall(t)
  <2>2. Call(t)[1] \in {"find", "find again", "use", "kind delete", "helm uninstall"}
    BY <1>9, CallsRun, Zenon DEF Find, UseContext, KindDelete, HelmUninstall
  <2> QED BY <1>4, <2>2
<1>10. CASE KindCreate(t)
  <2>1. Call(t)[1] = "kind create" BY <1>10, CallsRun, Zenon DEF KindCreate
  <2>2. lab'.state = "up" BY <1>0, <1>10, NoReleases, Zenon
  <2> QED BY <1>10, <2>1, <2>2, Zenon DEF Effect
<1>11. CASE LoadImage(t)
  <2>1. Call(t)[1] = "load image" BY <1>11, CallsRun, Zenon DEF LoadImage
  <2>2. lab' = [lab EXCEPT !.images = @ \cup {proc[t].image}] BY <1>11, Zenon DEF LoadImage
  <2>3. lab'.state = lab.state /\ lab'.config = lab.config /\ lab'.releases = lab.releases
    BY <1>3, <2>2 DEF LabSet
  <2>4. Call(t)[1] \notin {"kind create", "helm install", "save image"} BY <2>1
  <2> QED BY <2>3, <2>4, Zenon DEF Effect, Same
<1>12. CASE SaveImage(t)
  <2>1. Call(t)[1] = "save image" /\ lab' = [lab EXCEPT !.config = proc[t].image]
    BY <1>12, CallsRun, Zenon DEF SaveImage
  <2>2. lab'.state = lab.state /\ lab'.config = proc[t].image /\ lab'.releases = lab.releases
    BY <1>3, <2>1 DEF LabSet
  <2>3. proc[t].image \in Images
    <3>1. Call(t) \in CallsIn(proc[t].todo) BY <1>0, <1>2, Running, Zenon DEF CallNow
    <3>2. "save image" \in LoadCalls BY DEF LoadCalls
    <3>3. ~Never(proc[t].todo, LoadCalls) BY <2>1, <3>1, <3>2, Zenon DEF Never
    <3> QED BY <1>0, <3>3, Zenon DEF ProcsOK, ProcOK
  <2>4. lab'.config # NoImage BY <2>2, <2>3, LabAssumption, Zenon
  <2> QED BY <2>1, <2>2, <2>4, Zenon DEF Effect
<1>13. CASE HelmInstall(t)
  <2>1. Call(t)[1] = "helm install" BY <1>13, CallsRun, Zenon DEF HelmInstall
  <2>2. Call(t)[2] \in Components BY <1>0, <1>2, <2>1, NamedComponent
  <2>3. ~Fault(t) BY <1>0, <1>1, <1>2, FaultRan, Zenon
  <2>4. Release(Call(t)[2], "deployed", proc[t].image) BY <1>13, <2>3, Zenon DEF HelmInstall
  <2>5. proc[t].image \in Images \cup {NoImage}
    <3>1. proc[t] \in ProcSet BY <1>0 DEF Typed
    <3> QED BY <3>1 DEF ProcSet
  <2>6. "deployed" \in {"deployed", "failed", "pending"} OBVIOUS
  <2> DEFINE c == Call(t)[2]
  <2>7. /\ lab'.state = lab.state /\ lab'.config = lab.config
        /\ lab'.releases[c].status = "deployed"
        /\ \A d \in Components \ {c} : lab'.releases[d] = lab.releases[d]
        /\ c = Monitoring => lab'.crds
    BY <1>0, <2>2, <2>4, <2>5, <2>6, ReleaseTyped, Zenon
  <2> QED BY <2>1, <2>2, <2>7, Zenon DEF Effect, Same
<1>14. CASE Assets(t)
  <2>1. Call(t)[1] \in {"apply assets", "delete assets"} BY <1>14, CallsRun, Zenon DEF Assets
  <2>2. PICK assets \in {"all", "none", "some"} : lab' = [lab EXCEPT !.assets = assets]
    BY <1>14 DEF Assets
  <2>3. lab'.state = lab.state /\ lab'.config = lab.config /\ lab'.releases = lab.releases
    BY <1>3, <2>2 DEF LabSet
  <2>4. Call(t)[1] \notin {"kind create", "helm install", "save image"} BY <2>1
  <2> QED BY <2>3, <2>4, Zenon DEF Effect, Same
<1>15. CASE KindCreateKilled(t) \/ Refused(t) \/ GoesWrong(t)
  BY <1>0, <1>1, <1>15, ClusterOK, StopOK, Zenon
<1> QED BY <1>6, <1>7, <1>8, <1>9, <1>10, <1>11, <1>12, <1>13, <1>14, <1>15, Zenon DEF Step

LEMMA Looks ==
  ASSUME Typed, ProcsOK, NEW t \in Terminals, Step(t), ~\E c \in Commands[t] : Start(t, c),
         proc'[t].result # "failed", Call(t)[1] = "look for cluster"
  PROVE  LookForCluster(t)
<1>1. ~Faulted(t) /\ ~Stopped(t) BY Zenon DEF Faulted, Stopped
<1>2. Look(t) \/ HelmOther(t) \/ ReadImage(t) \/ ReadCurrent(t) \/ LookAtOwn(t) =>
        Call(t)[1] \in {"fetch image", "cluster exists", "wait for nodes", "wait for scrape",
                  "get", "helm at lab", "helm at current", "read image", "read current",
                  "look at own"}
  BY CallsRun, Zenon DEF Look, HelmOther, ReadImage, ReadCurrent, LookAtOwn
<1>3. Export(t) \/ SetAlias(t) \/ Restore(t) \/ ExportOwn(t) \/ RenameOwn(t) \/ DeleteOwn(t)
        \/ UseOwn(t) \/ Find(t) \/ UseContext(t) =>
        Call(t)[1] \in {"export", "alias", "restore", "export own", "rename own", "delete own",
                        "use own", "find", "find again", "use"}
  BY CallsRun, Zenon DEF Export, SetAlias, Restore, ExportOwn, RenameOwn, DeleteOwn, UseOwn,
                         Find, UseContext
<1>4. KindCreate(t) \/ KindDelete(t) \/ LoadImage(t) \/ SaveImage(t)
        \/ HelmInstall(t) \/ HelmUninstall(t) \/ Assets(t) =>
        Call(t)[1] \in {"kind create", "kind delete", "load image", "save image",
             "helm install", "helm uninstall", "apply assets", "delete assets"}
  BY CallsRun, Zenon DEF KindCreate, KindDelete, LoadImage, SaveImage, HelmInstall,
                         HelmUninstall, Assets
<1>5. KindCreateKilled(t) \/ Refused(t) \/ GoesWrong(t) => FALSE
  BY <1>1, ClusterOK, StopOK, Zenon
<1> DEFINE h == Call(t)[1]
<1>6. h = "look for cluster" OBVIOUS
<1> HIDE DEF h
<1>7. h \notin {"fetch image", "cluster exists", "wait for nodes", "wait for scrape",
                  "get", "helm at lab", "helm at current", "read image", "read current",
                  "look at own"}
  BY <1>6
<1>8. h \notin {"export", "alias", "restore", "export own", "rename own", "delete own",
                        "use own", "find", "find again", "use"}
  BY <1>6
<1>9. h \notin {"kind create", "kind delete", "load image", "save image",
             "helm install", "helm uninstall", "apply assets", "delete assets"}
  BY <1>6
<1>10. ~(Look(t) \/ HelmOther(t) \/ ReadImage(t) \/ ReadCurrent(t) \/ LookAtOwn(t))
  BY <1>2, <1>7, Zenon DEF h
<1>11. ~(Export(t) \/ SetAlias(t) \/ Restore(t) \/ ExportOwn(t) \/ RenameOwn(t) \/ DeleteOwn(t)
        \/ UseOwn(t) \/ Find(t) \/ UseContext(t))
  BY <1>3, <1>8, Zenon DEF h
<1>12. ~(KindCreate(t) \/ KindDelete(t) \/ LoadImage(t) \/ SaveImage(t)
        \/ HelmInstall(t) \/ HelmUninstall(t) \/ Assets(t))
  BY <1>4, <1>9, Zenon DEF h
<1> QED BY <1>5, <1>10, <1>11, <1>12, Zenon DEF Step

LEMMA CreatingOfNext ==
  ASSUME TypeInv, Made, NEW t \in Terminals, Step(t), ~\E c \in Commands[t] : Start(t, c),
         proc[t].cmd[1] \in Creates, proc'[t].result # "failed", CreatingOf(proc[t])
  PROVE  CreatingOf(proc[t])'
<1>0. Typed /\ ProcsOK BY Zenon DEF TypeInv
<1>1. proc[t].result = "running" BY RunsRunning, Zenon
<1>2. Effect(t) BY CreateEffect, Zenon
<1> DEFINE h == Call(t)[1] h2 == Ahead(proc'[t].todo) T == CallsIn(proc[t].todo)
           T2 == CallsIn(proc'[t].todo) e == <<"helm install", Exporter>>
           arg == Call(t)[2]
<1>3. /\ \A x \in T : \/ x = Call(t) \/ x[1] \in {"look for cluster", "kind create", "look at own"}
                      \/ x \in T2
      /\ \/ Found(t)
         \/ LookAtOwn(t) /\ h2 \in {"use own", "rename own", "delete own"}
         \/ May(Call(t), h2)
  BY <1>0, CallsLeft, CreatesSetUp, Zenon
<1>4. Ahead(proc[t].todo) = h /\ Kept(t) BY <1>0, <1>1, Running, Kepts, Zenon DEF CallNow
<1>5. /\ h \notin Fresh => lab.state # "none"
      /\ h = "kind create" => lab.state = "none"
      /\ (\A x \in T : x[1] \notin {"save image"}) => lab.config # NoImage
      /\ proc[t].cmd[1] = "create all" => e \in T \/ lab.releases[Exporter].status = "deployed"
      /\ h = "apply assets" => lab.crds
  BY <1>4, Zenon DEF CreatingOf, Never
<1>6. e[1] = "helm install" /\ e[2] = Exporter BY PairNames, Zenon
<1>7. Exporter \in Components /\ Exporter # Monitoring BY DEF Components, Exporter, Monitoring
<1>17. Found(t) =>
         /\ lab' = lab /\ LookForCluster(t)
         /\ h2 \in {"kind create", "load image"}
         /\ h2 = "load image" => lab.state # "none"
  BY DEF Found
<1>8. LookForCluster(t) => h = "look for cluster" BY CallsRun, Zenon DEF LookForCluster
<1>9. LookAtOwn(t) => h = "look at own" BY CallsRun, Zenon DEF LookAtOwn
<1>10. h = "kind create" => /\ lab.config = NoImage /\ lab'.crds = FALSE
                            /\ \A c \in Components : lab.releases[c] = NoRelease
  <2>1. HAVE h = "kind create"
  <2>2. KindCreate(t) BY <1>2, <2>1 DEF Effect
  <2>3. Blank(lab) BY <1>5, <2>1, Zenon DEF Made
  <2>4. Blank(lab') BY <1>0, <2>2, NoReleases, Zenon
  <2> QED BY <2>3, <2>4, Zenon DEF Blank
<1>11. NoRelease.status = "none" BY DEF NoRelease
<1> HIDE DEF h, h2, T, T2, e, arg
<1>12. h2 \notin Fresh => lab'.state # "none"
  <2>1. CASE Found(t)
    <3>1. lab'.state = lab.state /\ h2 \in {"kind create", "load image"}
      BY <1>17, <2>1, Zenon
    <3>2. h2 = "load image" => lab.state # "none" BY <1>17, <2>1, Zenon
    <3> QED BY <3>1, <3>2 DEF Fresh
  <2>2. CASE LookAtOwn(t)
    <3>1. h = "look at own" BY <1>9, <2>2
    <3>2. lab.state # "none" BY <1>5, <3>1 DEF Fresh
    <3>3. lab'.state = lab.state BY <1>2, <3>1 DEF Effect, Same, h
    <3> QED BY <3>2, <3>3
  <2>3. CASE May(Call(t), h2) /\ h2 \notin Fresh
    <3>1. h # "fetch image" /\ h # "look for cluster"
      <4>1. /\ h = "fetch image" => h2 \in Fresh
            /\ h = "look for cluster" => h2 = "kind create"
        BY <2>3, NamesBefore, Zenon DEF h
      <4> QED BY <2>3, <4>1 DEF Fresh
    <3>2. CASE h = "kind create"
      <4>1. lab'.state = "up" BY <1>2, <3>2 DEF Effect, h
      <4> QED BY <4>1
    <3>3. CASE h # "kind create"
      <4>1. lab.state # "none" BY <1>5, <3>1, <3>3 DEF Fresh
      <4>2. lab'.state = lab.state BY <1>2, <3>3, Zenon DEF Effect, Same, h
      <4> QED BY <4>1, <4>2
    <3> QED BY <3>2, <3>3
  <2> QED BY <1>3, <2>1, <2>2, <2>3
<1>13. h2 = "kind create" => lab'.state = "none"
  <2>1. HAVE h2 = "kind create"
  <2>2. h = "look for cluster"
    <3>1. May(Call(t), h2) => h = "look for cluster" BY <2>1, NamesBefore, Zenon DEF h
    <3>2. "kind create" \notin {"use own", "rename own", "delete own"} OBVIOUS
    <3> QED BY <1>3, <1>8, <1>17, <2>1, <3>1, <3>2, Zenon
  <2>3. LookForCluster(t) BY <1>0, <2>2, Looks, Zenon DEF h
  <2>4. PICK s : Ran(t, s) /\ (Ahead(s) = "kind create" => lab.state = "none")
    BY <1>0, <2>3, LookForClusterRan, Zenon
  <2>5. proc'[t].todo = s BY <2>4, Zenon DEF Ran, Moved, Faulted, Stopped
  <2>6. lab.state = "none" BY <2>1, <2>4, <2>5, Zenon DEF h2
  <2>7. lab' = lab BY <1>0, <2>3, QuietOK, Zenon
  <2> QED BY <2>6, <2>7
<1>14. (\A x \in T2 : x[1] \notin {"save image"}) => lab'.config # NoImage
  <2>1. HAVE \A x \in T2 : x[1] \notin {"save image"}
  <2>2. CASE h = "save image" BY <1>2, <2>2 DEF Effect, h
  <2>3. CASE h # "save image"
    <3>1. ASSUME NEW x \in T PROVE x[1] \notin {"save image"}
      <4>1. CASE x = Call(t) BY <2>3, <4>1 DEF h
      <4>2. CASE x[1] \in {"look for cluster", "kind create", "look at own"} BY <4>2
      <4>3. CASE x \in T2 BY <2>1, <4>3
      <4> QED BY <1>3, <4>1, <4>2, <4>3, Zenon
    <3>2. lab.config # NoImage BY <1>5, <3>1, Zenon
    <3>3. h # "kind create" BY <1>10, <3>2, Zenon
    <3>4. lab'.config = lab.config BY <1>2, <2>3, <3>3, Zenon DEF Effect, Same, h
    <3> QED BY <3>2, <3>4
  <2> QED BY <2>2, <2>3
<1>15. proc[t].cmd[1] = "create all" => e \in T2 \/ lab'.releases[Exporter].status = "deployed"
  <2>1. SUFFICES ASSUME proc[t].cmd[1] = "create all", e \notin T2
                 PROVE  lab'.releases[Exporter].status = "deployed"
    BY Zenon
  <2>2. e[1] \notin {"look for cluster", "kind create", "look at own"} BY <1>6
  <2>3. e \in T => e = Call(t) BY <1>3, <2>1, <2>2, Zenon
  <2>4. CASE h = "helm install" /\ arg = Exporter
    BY <1>2, <1>7, <2>4 DEF Effect, h, arg
  <2>5. CASE ~(h = "helm install" /\ arg = Exporter)
    <3>1. e # Call(t) BY <1>6, <2>5, Zenon DEF h, arg
    <3>2. lab.releases[Exporter].status = "deployed" BY <1>5, <2>1, <2>3, <3>1, Zenon
    <3>3. h # "kind create"
      <4>1. lab.releases[Exporter] # NoRelease BY <1>11, <3>2
      <4> QED BY <1>7, <1>10, <4>1, Zenon
    <3>4. lab'.releases[Exporter] = lab.releases[Exporter]
      <4>1. CASE h # "helm install"
        <5>1. lab'.releases = lab.releases BY <1>2, <3>3, <4>1, Zenon DEF Effect, h
        <5> QED BY <5>1
      <4>2. CASE h = "helm install"
        <5>1. arg # Exporter BY <2>5, <4>2
        <5>2. \A d \in Components \ {arg} : lab'.releases[d] = lab.releases[d]
          BY <1>2, <4>2 DEF Effect, h, arg
        <5>3. Exporter \in Components \ {arg} BY <1>7, <5>1
        <5> QED BY <5>2, <5>3, Zenon
      <4> QED BY <4>1, <4>2
    <3> QED BY <3>2, <3>4
  <2> QED BY <2>4, <2>5
<1>16. h2 = "apply assets" => lab'.crds
  <2>1. HAVE h2 = "apply assets"
  <2>2. May(Call(t), h2)
    <3>1. "apply assets" \notin {"use own", "rename own", "delete own", "kind create",
                                "load image"}
      OBVIOUS
    <3>2. ~Found(t) BY <1>17, <2>1, <3>1, Zenon
    <3>3. h2 \notin {"use own", "rename own", "delete own"} BY <2>1
    <3> QED BY <1>3, <3>2, <3>3, Zenon
  <2>3. h = "helm install" /\ arg = Monitoring BY <2>1, <2>2, NamesBefore, Zenon DEF h, arg
  <2> QED BY <1>2, <2>3 DEF Effect, h, arg
<1> QED BY <1>4, <1>12, <1>13, <1>14, <1>15, <1>16, Zenon
        DEF CreatingOf, Never, Kept, h2, T2, e

LEMMA CreatingNext ==
  ASSUME TypeInv, Made, \A t \in Terminals : Creating(t), Next
  PROVE  \A t \in Terminals : Creating(t)'
<1>0. Typed /\ ProcsOK BY Zenon DEF TypeInv
<1>1. PICK u \in Terminals : Step(u) BY Steps, Zenon
<1>2. SUFFICES ASSUME NEW t \in Terminals, Alone(t)', proc'[t].cmd[1] \in Creates,
                      proc'[t].result # "failed"
               PROVE  CreatingOf(proc[t])'
  BY Zenon DEF Creating
<1>3. u = t BY <1>0, <1>1, <1>2, NotAlone, Zenon
<1>4. Step(t) /\ Others(t) BY <1>0, <1>1, <1>3, StepOthers, Zenon
<1>5. CASE \E c \in Commands[t] : Start(t, c)
  <2>1. PICK c \in Commands[t] : Start(t, c) BY <1>5
  <2>2. Began(t, c) /\ c \in Arguments BY <1>0, <2>1, StartOK, Zenon
  <2>3. c[1] \in Creates BY <1>2, <2>2, Zenon DEF Began
  <2> DEFINE s == Program(c)
  <2>4. /\ Ahead(s) = "fetch image" /\ <<"save image">> \in CallsIn(s)
        /\ c[1] = "create all" => <<"helm install", Exporter>> \in CallsIn(s)
    BY <2>2, <2>3, ProgramBegins, Zenon DEF Begins
  <2>5. proc'[t].todo = s /\ proc'[t].cmd = c BY <2>2, Zenon DEF Began
  <2> HIDE DEF s
  <2>6. ~Never(s, {"save image"}) BY <2>4, NameOf, Zenon DEF Never
  <2>7. "fetch image" \in Fresh /\ "fetch image" \notin {"kind create", "apply assets"}
    BY DEF Fresh
  <2>8. Ahead(s) \in Fresh /\ Ahead(s) # "kind create" /\ Ahead(s) # "apply assets"
    BY <2>4, <2>7
  <2> QED BY <2>4, <2>5, <2>6, <2>8, Zenon DEF CreatingOf
<1>6. CASE ~\E c \in Commands[t] : Start(t, c)
  <2>1. proc[t].result = "running" BY <1>4, <1>6, RunsRunning, Zenon
  <2>2. Kept(t) BY <1>0, <1>4, <1>6, Kepts, Zenon
  <2>3. proc[t].cmd[1] \in Creates BY <1>2, <2>2, Zenon DEF Kept
  <2>4. Alone(t) BY <1>2, <1>4, AloneNow, Zenon
  <2>5. proc[t].result # "failed" BY <2>1
  <2>6. CreatingOf(proc[t]) BY <2>3, <2>4, <2>5, Zenon DEF Creating
  <2> QED BY <1>2, <1>4, <1>6, <2>3, <2>6, CreatingOfNext, Zenon
<1> QED BY <1>5, <1>6

\* Nothing is named "".
LEMMA NamesAreNamed == \A c \in CallSet : c[1] # ""
<1>1. SUFFICES ASSUME NEW c \in CallSet PROVE c[1] # "" OBVIOUS
<1>2. CASE c \in {<<name>> : name \in CallNames}
  <2>1. PICK name \in CallNames : c = <<name>> BY <1>2
  <2>2. c[1] = name BY <2>1, NameOf, Zenon
  <2>3. name # "" BY <2>1 DEF CallNames
  <2> QED BY <2>2, <2>3
<1>3. ASSUME NEW N, NEW S, c \in N \X S PROVE c[1] \in N BY <1>3
<1>4. CASE c \in ({"helm install", "helm uninstall"} \X Components)
  <2>1. c[1] \in {"helm install", "helm uninstall"} BY <1>3, <1>4, Zenon
  <2> QED BY <2>1
<1>5. CASE c \in ({"find", "find again", "use"} \X (STRING \cup {Alias}))
  <2>1. c[1] \in {"find", "find again", "use"} BY <1>3, <1>5, Zenon
  <2> QED BY <2>1
<1>6. CASE c \in ({"helm at lab", "helm at current"} \X Seq(STRING))
  <2>1. c[1] \in {"helm at lab", "helm at current"} BY <1>3, <1>6, Zenon
  <2> QED BY <2>1
<1> QED BY <1>1, <1>2, <1>4, <1>5, <1>6, Zenon DEF CallSet

\* The last call of gpu create --all.
LEMMA ScrapeIsLast ==
  ASSUME Typed, ProcsOK, NEW t \in Terminals, proc[t].result = "running",
         Call(t)[1] = "wait for scrape"
  PROVE  CallsIn(proc[t].todo) = {Call(t)}
<1> DEFINE s == Tail(proc[t].todo)
<1>1. /\ CallsIn(proc[t].todo) = {Call(t)} \cup CallsIn(s)
      /\ May(Call(t), Ahead(s)) /\ Shape(s)
  BY Running, Zenon DEF CallNow, Behind
<1> HIDE DEF s
<1>2. Ahead(s) = "" BY <1>1 DEF May
<1>3. s = <<>>
  <2>1. SUFFICES ASSUME s # <<>> PROVE FALSE OBVIOUS
  <2>2. Head(s) \in CallSet /\ Ahead(s) = Head(s)[1]
    BY <1>1, <2>1, TailCalls, Zenon DEF Shape, Linked
  <2> QED BY <1>2, <2>2, NamesAreNamed, Zenon
<1> QED BY <1>1, <1>3, EmptyShape, Zenon

\* In the only terminal that is used, gpu create is refused only what was left half made.
LEMMA RefusedHalf ==
  ASSUME TypeInv, UsedUp, NEW t \in Terminals, Refused(t), proc[t].cmd[1] \in Creates,
         FilesOf(proc[t]), CreatingOf(proc[t])
  PROVE  HalfMade
<1>0. Typed /\ ProcsOK /\ FilesFine /\ ReleasesFine BY Zenon DEF TypeInv
<1>1. /\ proc[t].result = "running"
      /\ \/ ~Possible(t)
         \/ /\ Call(t)[1] = "wait for scrape"
            /\ lab.releases[Exporter].status \in {"failed", "pending"}
  BY Zenon DEF Refused
<1> DEFINE h == Call(t)[1] cmd == proc[t].cmd[1] T == CallsIn(proc[t].todo)
<1>2. /\ h \notin {"kind delete", "find", "find again", "use", "delete assets",
                   "helm uninstall", "helm at current"}
      /\ Ahead(proc[t].todo) = h
  BY <1>0, <1>1, SetsUpNames, CreatesSetUp, Zenon
<1>3. Files(h, cmd, proc[t].saved, proc[t].before, lab, primary, own)
  BY <1>2, Zenon DEF FilesOf
<1>4. /\ h \notin Fresh => lab.state # "none"
      /\ h = "kind create" => lab.state = "none"
      /\ Never(proc[t].todo, {"save image"}) => lab.config # NoImage
      /\ cmd = "create all" =>
           <<"helm install", Exporter>> \in T \/ lab.releases[Exporter].status = "deployed"
      /\ h = "apply assets" => lab.crds
  BY <1>2, Zenon DEF CreatingOf
<1>5. SUFFICES ASSUME ~HalfMade PROVE FALSE OBVIOUS
<1>6. /\ lab.state # "half" /\ \A c \in Components : lab.releases[c].status # "pending"
  BY <1>5, Zenon DEF HalfMade
<1>7. lab.state \in {"none", "half", "up"} BY <1>0 DEF Typed, LabSet, States
<1>8. CASE h = "wait for scrape" /\ lab.releases[Exporter].status \in {"failed", "pending"}
  <2>1. cmd # "create"
    <3>1. Allowed(cmd, h) BY <1>0, <1>1, Running, Zenon DEF Behind
    <3> QED BY <1>8, <3>1, Zenon DEF Allowed
  <2>2. cmd = "create all" BY <2>1 DEF Creates
  <2>3. T = {Call(t)} BY <1>0, <1>1, <1>8, ScrapeIsLast, Zenon
  <2>4. <<"helm install", Exporter>>[1] = "helm install" BY PairNames, Zenon
  <2>5. "helm install" # "wait for scrape" OBVIOUS
  <2>6. <<"helm install", Exporter>> \notin T BY <1>8, <2>3, <2>4, <2>5, Zenon
  <2>7. lab.releases[Exporter].status = "deployed" BY <1>4, <2>2, <2>6, Zenon
  <2> QED BY <1>8, <2>7
<1>9. CASE ~Possible(t)
  <2>1. h = "read image" => ImageSaved
    <3>1. HAVE h = "read image"
    <3>2. Later(Call(t), Tail(proc[t].todo)) /\ T = {Call(t)} \cup CallsIn(Tail(proc[t].todo))
      BY <1>0, <1>1, Running, Zenon DEF CallNow, Behind
    <3>3. Never(Tail(proc[t].todo), ImageCalls) BY <3>1, <3>2, Zenon DEF Later
    <3>4. "save image" \in ImageCalls /\ "read image" # "save image" BY DEF ImageCalls
    <3>5. Never(proc[t].todo, {"save image"}) BY <3>1, <3>2, <3>3, <3>4, Zenon DEF Never
    <3> QED BY <1>4, <3>5, Zenon DEF ImageSaved
  <2>2. h = "helm install" => lab.releases[Call(t)[Len(Call(t))]].status # "pending"
    <3>1. HAVE h = "helm install"
    <3>2. h \in {"helm install", "helm uninstall"} BY <3>1
    <3>3. Call(t)[Len(Call(t))] \in Components BY <1>0, <1>1, <3>2, NamedComponent, Zenon
    <3> QED BY <1>6, <3>3, Zenon
  <2> DEFINE arg == Call(t)[Len(Call(t))] saved == proc[t].saved before == proc[t].before
  <2>3. ~(/\ h \in {"wait for nodes", "get", "wait for scrape", "save image", "read image",
               "helm install", "helm uninstall", "apply assets", "delete assets",
               "helm at lab"} => LabAnswers
          /\ h \in {"export", "export own"} => lab.state = "up"
          /\ h \in {"cluster exists", "load image"} => lab.state # "none"
          /\ h = "kind create" => lab.state = "none"
          /\ h = "read image" => ImageSaved
          /\ h = "read current" => primary.current # None
          /\ h = "restore" => saved \in primary.contexts
          /\ h = "rename own" => Kind \in own.contexts /\ Alias \notin own.contexts
          /\ h = "delete own" => Kind \in own.contexts
          /\ h = "use own" => Alias \in own.contexts
          /\ h = "find" => arg \in primary.contexts \cup {Alias}
          /\ h \in {"find again", "use"} => arg \in primary.contexts
          /\ h = "helm install" => lab.releases[arg].status # "pending"
          /\ h = "helm uninstall" => lab.releases[arg].status # "none"
          /\ h \in {"apply assets", "delete assets"} => lab.crds)
    BY <1>9, Zenon DEF Possible
  <2>4. Files(h, cmd, saved, before, lab, primary, own) BY <1>3
  <2>5. h = "helm install" => lab.releases[arg].status # "pending" BY <2>2
  <2> HIDE DEF h, cmd, saved, before, arg, T
  <2>6. h \in {"wait for nodes", "get", "wait for scrape", "save image", "read image",
               "helm install", "apply assets", "helm at lab"} => LabAnswers
    BY <2>4 DEF Files, Before, LabAnswers, Ready
  <2>7. h \in {"export", "export own"} => lab.state = "up"
    <3>1. h = "export own" => lab.state = "up" BY <2>4 DEF Files, Before
    <3>2. h = "export" => lab.state # "none" BY <1>4 DEF Fresh
    <3> QED BY <1>6, <1>7, <3>1, <3>2
  <2>8. h \in {"cluster exists", "load image"} => lab.state # "none" BY <1>4 DEF Fresh
  <2>9. h = "read current" => primary.current # None
    <3>1. h = "read current" => lab.state # "none" BY <1>4 DEF Fresh
    <3> QED BY <1>6, <1>7, <3>1 DEF UsedUp
  <2>10. h = "restore" => saved \in primary.contexts BY <2>4 DEF Files
  <2>11. /\ h = "rename own" => Kind \in own.contexts /\ Alias \notin own.contexts
         /\ h = "delete own" => Kind \in own.contexts
    BY <2>4 DEF Files, Kind, Alias
  <2>12. h = "use own" => Alias \in own.contexts
    BY <2>4 DEF Files, Cleans, Exports, Before
  <2> QED BY <1>2, <1>4, <2>1, <2>3, <2>5, <2>6, <2>7, <2>8, <2>9, <2>10, <2>11, <2>12
<1> QED BY <1>1, <1>8, <1>9

\* A gpu create that failed in the only terminal that is used.
Rerun(t) ==
  Ended(t, "failed", Creates) /\ Alone(t) => proc[t].faulty \/ HalfMade

LEMMA RerunNext ==
  ASSUME TypeInv, UsedUp, Next, NEW t \in Terminals, SetUp(t), Creating(t), Rerun(t)
  PROVE  Rerun(t)'
<1>0. Typed /\ ProcsOK BY Zenon DEF TypeInv
<1>1. PICK u \in Terminals : Step(u) BY Steps, Zenon
<1>2. SUFFICES ASSUME Alone(t)', proc'[t].cmd[1] \in Creates, proc'[t].result = "failed"
               PROVE  proc'[t].faulty \/ HalfMade'
  BY Zenon DEF Rerun, Ended
<1>3. u = t BY <1>0, <1>1, <1>2, NotAlone, Zenon
<1>4. Step(t) /\ Others(t) BY <1>0, <1>1, <1>3, StepOthers, Zenon
<1>5. ~\E c \in Commands[t] : Start(t, c)
  <2>1. SUFFICES ASSUME NEW c \in Commands[t], Start(t, c) PROVE FALSE OBVIOUS
  <2>2. proc'[t].result = "running" BY <1>0, <2>1, StartOK, Zenon DEF Began
  <2> QED BY <1>2, <2>2
<1>6. proc[t].result = "running" /\ Kept(t) BY <1>0, <1>4, <1>5, RunsRunning, Kepts, Zenon
<1>7. CASE Faulted(t) BY <1>7, Zenon DEF Faulted
<1>8. CASE ~Faulted(t)
  <2>1. Refused(t)
    <3>1. ProcsOK' BY <1>0, TypedNext, Zenon
    <3>2. proc'[t].result # "running" BY <1>2
    <3>3. proc'[t].todo = <<>> BY <3>1, <3>2, Zenon DEF ProcsOK, ProcOK
    <3>4. Stopped(t) BY <1>2, <1>4, <1>6, <3>3, Zenon DEF Stopped
    <3> QED BY <1>0, <1>4, <1>5, <1>8, <3>4, StepOthers, Zenon
  <2>2. proc[t].cmd[1] \in Creates /\ proc[t].result # "failed" /\ Alone(t)
    <3>1. proc[t].result # "failed" BY <1>6
    <3> QED BY <1>2, <1>4, <1>6, <3>1, AloneNow, Zenon DEF Kept
  <2>3. FilesOf(proc[t]) /\ CreatingOf(proc[t])
    BY <2>2, CreatesSetUp, Zenon DEF SetUp, Creating
  <2>4. HalfMade BY <2>1, <2>2, <2>3, RefusedHalf, Zenon
  <2>5. lab' = lab BY <2>1, Zenon DEF Refused
  <2> QED BY <2>4, <2>5 DEF HalfMade
<1> QED BY <1>7, <1>8

(* RerunContinues: gpu create, with or without --all, can be run again     *)
(* after whatever went wrong before: it fails only when a call goes wrong  *)
(* in it, or when a killed one has left the cluster or a release half made *)
(* (cmd/gpu-lab/create.go and install.go, kubeconfig/manager.go).          *)
THEOREM RerunStays == Spec => []RerunContinues
<1> DEFINE All == Made /\ UsedUp /\ \A t \in Terminals : SetUp(t) /\ Creating(t) /\ Rerun(t)
<1>1. Spec => []TypeInv
  <2>1. Init => TypeInv BY TypeInvInit
  <2>2. TypeInv /\ [Next]_vars => TypeInv' BY TypeInvNext
  <2> QED BY <2>1, <2>2, PTL DEF Spec
<1>2. Init => All
  <2> SUFFICES ASSUME Init PROVE All OBVIOUS
  <2>1. lab.state # "up" /\ Blank(lab) BY BlankInit
  <2>2. "none" \notin SetsUp /\ "none" \notin Creates BY DEF SetsUp, Creates
  <2>3. \A t \in Terminals : SetUp(t) /\ Creating(t) /\ Rerun(t)
    BY <2>2, IdleProc, Zenon DEF SetUp, Creating, Rerun, Ended
  <2> QED BY <2>1, <2>3 DEF UsedUp, Made
<1>3. TypeInv /\ All /\ [Next]_vars => All'
  <2> SUFFICES ASSUME TypeInv, All, [Next]_vars PROVE All' OBVIOUS
  <2>1. CASE UNCHANGED vars
    <3>1. lab' = lab /\ primary' = primary /\ own' = own /\ proc' = proc
      BY <2>1 DEF vars
    <3>2. UsedUp' /\ Made' BY <3>1 DEF UsedUp, Made, Blank
    <3>3. ASSUME NEW t \in Terminals PROVE SetUp(t)' /\ Creating(t)' /\ Rerun(t)'
      <4>1. SetUp(t) /\ Creating(t) /\ Rerun(t) OBVIOUS
      <4>2. SetUp(t)' BY <3>1, <4>1, Zenon DEF SetUp, Alone, FilesOf
      <4>3. Creating(t)' BY <3>1, <4>1, Zenon DEF Creating, Alone, CreatingOf
      <4>4. Rerun(t)' BY <3>1, <4>1, Zenon DEF Rerun, Ended, Alone, HalfMade
      <4> QED BY <4>2, <4>3, <4>4
    <3> QED BY <3>2, <3>3
  <2>2. CASE Next
    <3>1. /\ UsedUp' /\ Made'
          /\ \A t \in Terminals : SetUp(t)'
          /\ \A t \in Terminals : Creating(t)'
          /\ \A t \in Terminals : Rerun(t)'
      BY <2>2, UsedUpNext, MadeNext, SetUpNext, CreatingNext, RerunNext, Zenon
    <3> QED BY <3>1
  <2> QED BY <2>1, <2>2
<1>4. All => RerunContinues BY Zenon DEF RerunContinues, Rerun, Creates
<1> HIDE DEF All
<1> QED BY <1>1, <1>2, <1>3, <1>4, PTL DEF Spec

-----------------------------------------------------------------------------
(* The options of gpu create *)

OptionsOK ==
  /\ env \in Options!Environments
  /\ options \in [source : Options!Sources \cup {"", "mirror"}, image : {"", "custom"},
                  ok : BOOLEAN]
  /\ options.ok => options.source # "mirror"

\* An argument, by its name.
LEMMA ArgIs ==
  ASSUME NEW arg \in Options!Args
  PROVE  /\ arg[1] = "--image-source" => arg[2] \in Options!Sources \cup {"mirror"}
         /\ arg[1] = "--image" => arg[2] \in {"", "custom"}
<1>1. \A n : <<n>>[1] = n OBVIOUS
<1>2. \A n, v : <<n, v>>[1] = n /\ <<n, v>>[2] = v OBVIOUS
<1>3. CASE \E n \in {"--local", "--registry", "--all", "--verbose"} : arg = <<n>>
  <2>1. PICK n \in {"--local", "--registry", "--all", "--verbose"} : arg = <<n>> BY <1>3
  <2>2. arg[1] = n BY <1>1, <2>1, Zenon
  <2> QED BY <2>1, <2>2
<1>4. CASE \E v \in {"", "custom"} : arg = <<"--image", v>>
  <2>1. PICK v \in {"", "custom"} : arg = <<"--image", v>> BY <1>4
  <2>2. arg[1] = "--image" /\ arg[2] = v BY <1>2, <2>1, Zenon
  <2> QED BY <2>1, <2>2
<1>5. CASE \E v \in Options!Sources \cup {"mirror"} : arg = <<"--image-source", v>>
  <2>1. PICK v \in Options!Sources \cup {"mirror"} : arg = <<"--image-source", v>> BY <1>5
  <2>2. arg[1] = "--image-source" /\ arg[2] = v BY <1>2, <2>1, Zenon
  <2> QED BY <2>1, <2>2
<1>6. \/ \E n \in {"--local", "--registry", "--all", "--verbose"} : arg = <<n>>
      \/ \E v \in {"", "custom"} : arg = <<"--image", v>>
      \/ \E v \in Options!Sources \cup {"mirror"} : arg = <<"--image-source", v>>
  BY Zenon DEF Options!Args
<1> QED BY <1>3, <1>4, <1>5, <1>6

(* ImageFitsSource: whatever the version of the binary, the environment    *)
(* and the arguments say, and however many there are, gpu create builds    *)
(* the local image or pulls the one of its version, and never the other    *)
(* way round (cmd/gpu-lab/create.go and cluster/manager.go).               *)
THEOREM ImageFits == Options!Spec => []ImageFitsSource
<1>1. Options!Init => OptionsOK
  <2> SUFFICES ASSUME Options!Init PROVE OptionsOK OBVIOUS
  <2>1. env \in Options!Environments /\ options = Options!NoOptions BY DEF Options!Init
  <2>2. /\ options = [source |-> "", image |-> "", ok |-> TRUE]
        /\ options.source # "mirror"
    BY <2>1 DEF Options!NoOptions
  <2>3. options \in [source : Options!Sources \cup {"", "mirror"}, image : {"", "custom"},
                      ok : BOOLEAN]
    BY <2>2
  <2> QED BY <2>1, <2>2, <2>3, Zenon DEF OptionsOK
<1>2. OptionsOK /\ [Options!Next]_(Options!vars) => OptionsOK'
  <2> SUFFICES ASSUME OptionsOK, [Options!Next]_(Options!vars) PROVE OptionsOK' OBVIOUS
  <2>1. CASE UNCHANGED Options!vars BY <2>1 DEF Options!vars, OptionsOK
  <2>2. CASE Options!Next
    <3>1. PICK arg \in Options!Args : Options!ParseArg(arg) BY <2>2 DEF Options!Next
    <3>2. /\ env' = env /\ options' = Options!Parsed(options, arg)
      BY <3>1 DEF Options!ParseArg
    <3>3. CASE arg[1] \in {"--local", "--registry", "--image-source"}
      <4>1. Options!Source(arg) \in Options!Sources \cup {"mirror"}
        BY <3>3, ArgIs DEF Options!Source, Options!Sources
      <4>2. options' = [options EXCEPT !.source = Options!Source(arg),
                          !.ok = @ /\ Options!Source(arg) \in Options!Sources
                                   /\ options.source \in {"", Options!Source(arg)}]
        BY <3>2, <3>3 DEF Options!Parsed
      <4>3. options'.ok => Options!Source(arg) \in Options!Sources
        BY <4>2 DEF OptionsOK
      <4> QED BY <3>2, <4>1, <4>2, <4>3 DEF OptionsOK, Options!Sources
    <3>4. CASE arg[1] = "--image"
      <4>1. arg[2] \in {"", "custom"} BY <3>4, ArgIs
      <4> QED BY <3>2, <3>4, <4>1 DEF OptionsOK, Options!Parsed
    <3>5. CASE arg[1] \notin {"--local", "--registry", "--image-source", "--image"}
      <4>1. options' = options \/ options' = [options EXCEPT !.ok = FALSE]
        BY <3>2, <3>5 DEF Options!Parsed
      <4> QED BY <3>2, <4>1 DEF OptionsOK
    <3> QED BY <3>3, <3>4, <3>5
  <2> QED BY <2>1, <2>2
<1>3. OptionsOK => ImageFitsSource
  BY DEF OptionsOK, ImageFitsSource, Options!ImageFitsSource, Options!Image, Options!From,
         Options!Manager,
         Options!NewManager, Options!ResolveImageSource, Options!Environments,
         Options!Sources, Options!Local, Options!Runtime
<1> QED BY <1>1, <1>2, <1>3, PTL DEF Options!Spec

-----------------------------------------------------------------------------
(* The tool that gpu inspect and the native commands run *)

PathOK == path \in Seq(Tools!Files)

\* The first of some places is one of them.
LEMMA FirstIs ==
  ASSUME PathOK, NEW S \in SUBSET DOMAIN path, S # {}
  PROVE  \E i \in S : Tools!First(S) = path[i]
<1>1. S \subseteq Nat BY DEF PathOK
<1>2. PICK i \in S : \A j \in S : ~(<<j, i>> \in OpToRel(<, Nat))
  BY <1>1, NatLessThanWellFounded, WFMin
<1>3. ASSUME NEW j \in S PROVE i <= j
  <2>1. i \in Nat /\ j \in Nat BY <1>1
  <2>2. ~(<<j, i>> \in OpToRel(<, Nat)) BY <1>2
  <2>3. ~(j < i) BY <2>1, <2>2 DEF OpToRel
  <2> QED BY <2>1, <2>3
<1> DEFINE k == CHOOSE i_1 \in S : \A j \in S : i_1 <= j
<1>4. k \in S BY <1>3
<1> QED BY <1>4 DEF Tools!First

\* What the search for nvidia-smi finds.
LEMMA SmiIs ==
  ASSUME PathOK
  PROVE  /\ Tools!FindNvidiaSMI.kind = "found" => Tools!FindNvidiaSMI.file = "official"
         /\ Tools!FindNvidiaSMI = Tools!NotFound =>
              /\ override \notin Tools!Files \cup {"relative"}
              /\ \A i \in DOMAIN path : path[i] \in Tools!Shims \cup {"absent"}
<1> DEFINE smi == Tools!FindNvidiaSMI
<1>1. ASSUME NEW file \in Tools!Files \ Tools!Skipped
      PROVE  /\ Tools!InspectNvidiaSMICandidate(file) \in
                  {Tools!Failed, Tools!NotFound, Tools!Found("official")}
             /\ Tools!InspectNvidiaSMICandidate(file) = Tools!NotFound => file = "disguised"
  BY DEF Tools!Files, Tools!Skipped, Tools!InspectNvidiaSMICandidate, Tools!Found,
         Tools!NotFound, Tools!Failed
<1>2. /\ Tools!NotFound.kind = "not found" /\ Tools!Failed.kind = "failed"
      /\ Tools!Found("official").kind = "found" /\ Tools!Found("official").file = "official"
  BY DEF Tools!NotFound, Tools!Failed, Tools!Found
<1>3. CASE override = "relative" \/ override \in Tools!Skipped
  <2>1. "relative" \notin Tools!Files BY DEF Tools!Files
  <2>2. override \notin Tools!Files \ Tools!Skipped BY <1>3, <2>1
  <2>3. smi = Tools!Failed BY <1>3, <2>2, Zenon DEF Tools!FindNvidiaSMI
  <2> QED BY <1>2, <2>3
<1>4. CASE override \in Tools!Files \ Tools!Skipped
  <2>1. override # "relative" BY <1>4 DEF Tools!Files
  <2>2. smi = IF Tools!InspectNvidiaSMICandidate(override) = Tools!NotFound
              THEN Tools!Failed ELSE Tools!InspectNvidiaSMICandidate(override)
    BY <1>4, <2>1 DEF Tools!FindNvidiaSMI
  <2>3. smi \in {Tools!Failed, Tools!Found("official")} BY <1>1, <1>4, <2>2
  <2>4. smi # Tools!NotFound /\ (smi.kind = "found" => smi.file = "official") BY <1>2, <2>3
  <2> QED BY <2>4
<1>5. CASE override \notin Tools!Files \cup {"relative"}
  <2>1. Tools!Skipped \subseteq Tools!Files BY DEF Tools!Skipped, Tools!Files
  <2>2. smi = IF Tools!Shown = {} THEN Tools!NotFound
              ELSE Tools!InspectNvidiaSMICandidate(Tools!First(Tools!Shown))
    BY <1>5, <2>1 DEF Tools!FindNvidiaSMI
  <2>3. CASE Tools!Shown = {}
    <3>1. smi = Tools!NotFound BY <2>2, <2>3
    <3>2. ASSUME NEW i \in DOMAIN path PROVE path[i] \in Tools!Shims \cup {"absent"}
      <4>1. path[i] \in Tools!Files BY DEF PathOK
      <4>2. path[i] \in Tools!Skipped
              \/ Tools!InspectNvidiaSMICandidate(path[i]) = Tools!NotFound
        BY <2>3 DEF Tools!Shown
      <4>3. path[i] \in Tools!Skipped \cup {"disguised"} BY <1>1, <4>1, <4>2
      <4> QED BY <4>3 DEF Tools!Skipped, Tools!Shims
    <3> QED BY <1>2, <1>5, <3>1, <3>2
  <2>4. CASE Tools!Shown # {}
    <3>1. Tools!Shown \in SUBSET DOMAIN path BY DEF Tools!Shown
    <3>2. PICK i \in Tools!Shown : Tools!First(Tools!Shown) = path[i]
      BY <2>4, <3>1, FirstIs
    <3>3. /\ path[i] \in Tools!Files \ Tools!Skipped
          /\ Tools!InspectNvidiaSMICandidate(path[i]) # Tools!NotFound
      BY <3>2 DEF Tools!Shown, PathOK
    <3>4. smi \in {Tools!Failed, Tools!Found("official")} BY <1>1, <2>2, <2>4, <3>2, <3>3
    <3>5. smi # Tools!NotFound /\ (smi.kind = "found" => smi.file = "official")
      BY <1>2, <3>4
    <3> QED BY <3>5
  <2> QED BY <2>3, <2>4
<1> QED BY <1>3, <1>4, <1>5

(* ToolIsTrue: on any PATH, gpu inspect and gpu nvidia-smi decide the      *)
(* same; what they show as real is no tool of the lab, and what they show  *)
(* of the lab has evidence and no tool of the host behind it               *)
(* (internal/inspection/native.go and inspect.go).                         *)
THEOREM ToolsAreTrue == Tools!Spec => []ToolIsTrue
<1> DEFINE OverrideOK == override \in Tools!Files \cup {"", "relative"}
<1>1. Tools!Init => PathOK /\ OverrideOK
  <2>1. <<>> \in Seq(Tools!Files) OBVIOUS
  <2> QED BY <2>1 DEF Tools!Init, PathOK
<1>2. PathOK /\ OverrideOK /\ [Tools!Next]_(Tools!vars) => (PathOK /\ OverrideOK)'
  <2> SUFFICES ASSUME PathOK, OverrideOK, [Tools!Next]_(Tools!vars)
               PROVE  (PathOK /\ OverrideOK)'
    OBVIOUS
  <2>1. CASE UNCHANGED Tools!vars BY <2>1 DEF Tools!vars, PathOK
  <2>2. CASE Tools!Next
    <3>1. PICK file \in Tools!Files : override' = override /\ path' = Append(path, file)
      BY <2>2 DEF Tools!Next
    <3>2. Append(path, file) \in Seq(Tools!Files) BY AppendProperties, Zenon DEF PathOK
    <3> QED BY <3>1, <3>2 DEF PathOK
  <2> QED BY <2>1, <2>2
<1>3. PathOK /\ OverrideOK => ToolIsTrue
  <2> SUFFICES ASSUME PathOK, OverrideOK PROVE ToolIsTrue OBVIOUS
  <2>1. Tools!RealIsOfficial BY SmiIs DEF Tools!RealIsOfficial
  <2>2. Tools!NoFallback
    <3> SUFFICES ASSUME Tools!Inspect("auto") = "synthetic"
                 PROVE  /\ override = ""
                        /\ \A i \in DOMAIN path : path[i] \in Tools!Shims \cup {"absent"}
      BY DEF Tools!NoFallback
    <3>1. Tools!FindNvidiaSMI = Tools!NotFound BY DEF Tools!Inspect
    <3> QED BY <3>1, SmiIs
  <2>3. Tools!SyntheticHasEvidence
    <3> SUFFICES ASSUME NEW mode \in Tools!Modes, Tools!Inspect(mode) = "synthetic"
                 PROVE  /\ mode # "real"
                        /\ stateURL = "valid" \/ (stateURL = "" /\ nodes = "labelled")
      BY DEF Tools!SyntheticHasEvidence
    <3>1. Tools!NotFound.kind = "not found" /\ Tools!Failed.kind = "failed"
      BY DEF Tools!NotFound, Tools!Failed
    <3>2. Tools!Inspect(mode) \in {Tools!OnEvidence, "real", "unavailable"}
      BY DEF Tools!Inspect
    <3>3. Tools!OnEvidence = "synthetic" BY <3>2
    <3>4. Tools!DetectSyntheticEvidence.kind = "found" BY <3>3 DEF Tools!OnEvidence
    <3>5. stateURL = "valid" \/ (stateURL = "" /\ nodes = "labelled")
      BY <3>1, <3>4 DEF Tools!DetectSyntheticEvidence
    <3>6. mode # "real"
      <4> SUFFICES ASSUME mode = "real" PROVE FALSE OBVIOUS
      <4>1. Tools!Inspect(mode) \in {"real", "unavailable"} BY DEF Tools!Inspect
      <4> QED BY <4>1
    <3> QED BY <3>5, <3>6
  <2>4. Tools!SameChoice
    <3>1. Tools!FindTool("nvidia-smi") = Tools!FindNvidiaSMI BY DEF Tools!FindTool
    <3> SUFFICES ASSUME NEW mode \in {"auto", "real"}
                 PROVE  Tools!Inspect(mode) = Tools!SelectNative("nvidia-smi", mode)
      BY DEF Tools!SameChoice
    <3>2. mode # "synthetic" OBVIOUS
    <3>3. Tools!NotFound.kind = "not found" BY DEF Tools!NotFound
    <3>4. Tools!FindNvidiaSMI.kind = "found" => Tools!FindNvidiaSMI # Tools!NotFound BY <3>3
    <3>5. CASE Tools!FindNvidiaSMI.kind = "found"
      BY <3>1, <3>2, <3>4, <3>5 DEF Tools!Inspect, Tools!SelectNative
    <3>6. CASE Tools!FindNvidiaSMI.kind # "found"
      BY <3>1, <3>2, <3>6 DEF Tools!Inspect, Tools!SelectNative
    <3> QED BY <3>5, <3>6
  <2> QED BY <2>1, <2>2, <2>3, <2>4 DEF ToolIsTrue, Tools!ToolIsTrue
<1> QED BY <1>1, <1>2, <1>3, PTL DEF Tools!Spec

-----------------------------------------------------------------------------
(* What gpu inspect concludes *)

Measured == {"health", "age"}
Values == {""} \cup Checks!HealthTexts \cup Checks!AgeTexts
Readings == [health : Values, age : Values, ambiguous : SUBSET Measured]
Sampled(f) == \E i \in DOMAIN samples : samples[i][1] = f

\* What the samples that were read make of a field: nothing, its only sample, or more
\* than can be told apart.
FieldOK(f) ==
  /\ reading[f] # "" \/ f \in reading.ambiguous => Sampled(f)
  /\ f \notin reading.ambiguous =>
       IF reading[f] = "" THEN ~Sampled(f) ELSE Checks!Only(f, reading[f])
  /\ f \in reading.ambiguous => \A v : v # "malformed" => ~Checks!Only(f, v)
ReadingOK ==
  /\ samples \in Seq(Checks!Samples) /\ reading \in Readings
  /\ \A f \in Measured : FieldOK(f)

LEMMA SampleIs ==
  ASSUME NEW s \in Checks!Samples
  PROVE  s = <<s[1], s[2]>> /\ s[1] \in Measured /\ s[2] \in Values \ {""}
<1>1. \A n, v : <<n, v>>[1] = n /\ <<n, v>>[2] = v OBVIOUS
<1>2. PICK f \in Measured, v \in Checks!HealthTexts \cup Checks!AgeTexts : s = <<f, v>>
  BY Zenon DEF Checks!Samples, Measured
<1>3. s[1] = f /\ s[2] = v BY <1>1, <1>2, Zenon
<1>4. v # "" BY DEF Checks!HealthTexts, Checks!AgeTexts
<1> QED BY <1>2, <1>3, <1>4 DEF Values

\* What a sample changes in the reading of its field.
LEMMA ReadIs ==
  ASSUME NEW r \in Readings, NEW s \in Checks!Samples
  PROVE  LET f == s[1] q == Checks!Read(r, s) IN
         /\ q \in Readings
         /\ \A g \in Measured \ {f} :
              q[g] = r[g] /\ (g \in q.ambiguous <=> g \in r.ambiguous)
         /\ IF s[2] = "malformed" \/ r[f] # "" THEN q[f] = r[f] /\ f \in q.ambiguous
            ELSE q[f] = s[2] /\ (f \in q.ambiguous <=> f \in r.ambiguous)
<1>1. s[1] \in Measured /\ s[2] \in Values BY SampleIs
<1>2. CASE s[1] = "health" BY <1>1, <1>2 DEF Checks!Read, Readings, Measured
<1>3. CASE s[1] = "age" BY <1>1, <1>3 DEF Checks!Read, Readings, Measured
<1> QED BY <1>1, <1>2, <1>3 DEF Measured

\* A sample more.
LEMMA SampleAdded ==
  ASSUME samples \in Seq(Checks!Samples), NEW s \in Checks!Samples,
         samples' = Append(samples, s), NEW f
  PROVE  /\ samples' \in Seq(Checks!Samples)
         /\ Sampled(f)' <=> Sampled(f) \/ s[1] = f
         /\ s[1] # f => \A v : Checks!Only(f, v)' <=> Checks!Only(f, v)
         /\ s[1] = f => \A v : Checks!Only(f, v)' <=> s = <<f, v>> /\ ~Sampled(f)
<1> DEFINE n == Len(samples)
<1>1. /\ n \in Nat /\ DOMAIN samples = 1 .. n /\ DOMAIN samples' = 1 .. n + 1
      /\ samples'[n + 1] = s /\ \A i \in 1 .. n : samples'[i] = samples[i]
      /\ samples' \in Seq(Checks!Samples)
  BY AppendProperties
<1> HIDE DEF n
<1>2. \A i : i \in 1 .. n + 1 <=> i \in 1 .. n \/ i = n + 1 BY <1>1
<1>3. n + 1 \notin 1 .. n BY <1>1
<1>4. Sampled(f)' <=> Sampled(f) \/ s[1] = f BY <1>1, <1>2, Zenon DEF Sampled
<1>5. ASSUME s[1] # f, NEW v PROVE Checks!Only(f, v)' <=> Checks!Only(f, v)
  <2>1. s # <<f, v>>
    <3>1. <<f, v>>[1] = f OBVIOUS
    <3> QED BY <1>5, <3>1
  <2>2. ASSUME Checks!Only(f, v) PROVE Checks!Only(f, v)'
    <3>1. PICK i \in 1 .. n : samples[i] = <<f, v>> /\ \A j \in 1 .. n : samples[j][1] = f => j = i
      BY <1>1, <2>2, Zenon DEF Checks!Only
    <3>2. i \in 1 .. n + 1 /\ samples'[i] = <<f, v>> BY <1>1, <1>2, <3>1, Zenon
    <3>3. \A j \in 1 .. n + 1 : samples'[j][1] = f => j = i BY <1>1, <1>2, <1>5, <3>1, Zenon
    <3>4. /\ i \in DOMAIN samples' /\ samples'[i] = <<f, v>>
          /\ \A j \in DOMAIN samples' : samples'[j][1] = f => j = i
      BY <1>1, <3>2, <3>3
    <3> QED BY <3>4, Zenon DEF Checks!Only
  <2>3. ASSUME Checks!Only(f, v)' PROVE Checks!Only(f, v)
    <3>1. PICK i \in 1 .. n + 1 : /\ samples'[i] = <<f, v>>
                                 /\ \A j \in 1 .. n + 1 : samples'[j][1] = f => j = i
      BY <1>1, <2>3, Zenon DEF Checks!Only
    <3>2. i \in 1 .. n /\ samples[i] = <<f, v>> BY <1>1, <1>2, <2>1, <3>1, Zenon
    <3>3. \A j \in 1 .. n : samples[j][1] = f => j = i BY <1>1, <1>2, <3>1, Zenon
    <3> QED BY <1>1, <3>2, <3>3, Zenon DEF Checks!Only
  <2> QED BY <2>2, <2>3
<1>6. ASSUME s[1] = f, NEW v
      PROVE  Checks!Only(f, v)' <=> s = <<f, v>> /\ ~Sampled(f)
  <2>1. ASSUME s = <<f, v>>, ~Sampled(f) PROVE Checks!Only(f, v)'
    <3>1. n + 1 \in 1 .. n + 1 /\ samples'[n + 1] = <<f, v>> BY <1>1, <1>2, <2>1, Zenon
    <3>2. \A j \in 1 .. n : samples'[j][1] # f BY <1>1, <2>1, Zenon DEF Sampled
    <3>3. \A j \in 1 .. n + 1 : samples'[j][1] = f => j = n + 1 BY <1>2, <3>2, Zenon
    <3>4. /\ n + 1 \in DOMAIN samples' /\ samples'[n + 1] = <<f, v>>
          /\ \A j \in DOMAIN samples' : samples'[j][1] = f => j = n + 1
      BY <1>1, <3>1, <3>3
    <3> QED BY <3>4, Zenon DEF Checks!Only
  <2>2. ASSUME Checks!Only(f, v)' PROVE s = <<f, v>> /\ ~Sampled(f)
    <3>1. PICK i \in 1 .. n + 1 : /\ samples'[i] = <<f, v>>
                                 /\ \A j \in 1 .. n + 1 : samples'[j][1] = f => j = i
      BY <1>1, <2>2, Zenon DEF Checks!Only
    <3>2. i = n + 1 BY <1>1, <1>2, <1>6, <3>1, Zenon
    <3>3. ASSUME NEW j \in 1 .. n, samples[j][1] = f PROVE FALSE
      <4>1. j \in 1 .. n + 1 /\ samples'[j][1] = f BY <1>1, <1>2, <3>3, Zenon
      <4>2. j = n + 1 BY <3>1, <3>2, <4>1, Zenon
      <4> QED BY <1>3, <4>2, Zenon
    <3>4. ~Sampled(f) BY <1>1, <3>3, Zenon DEF Sampled
    <3> QED BY <1>1, <3>1, <3>2, <3>4, Zenon
  <2> QED BY <2>1, <2>2
<1> QED BY <1>1, <1>4, <1>5, <1>6

LEMMA ReadingNext ==
  ASSUME ReadingOK, NEW s \in Checks!Samples,
         samples' = Append(samples, s), reading' = Checks!Read(reading, s)
  PROVE  ReadingOK'
<1> DEFINE g == s[1]
<1>0. samples \in Seq(Checks!Samples) /\ reading \in Readings BY DEF ReadingOK
<1>1. samples' \in Seq(Checks!Samples) BY <1>0, SampleAdded
<1>2. /\ reading' \in Readings
      /\ \A f \in Measured \ {g} :
           reading'[f] = reading[f] /\ (f \in reading'.ambiguous <=> f \in reading.ambiguous)
      /\ IF s[2] = "malformed" \/ reading[g] # ""
         THEN reading'[g] = reading[g] /\ g \in reading'.ambiguous
         ELSE reading'[g] = s[2] /\ (g \in reading'.ambiguous <=> g \in reading.ambiguous)
  BY <1>0, ReadIs
<1>3. s = <<g, s[2]>> /\ g \in Measured /\ s[2] # "" BY SampleIs
<1>4. ASSUME NEW f \in Measured, f # g PROVE FieldOK(f)'
  <2>1. FieldOK(f) BY DEF ReadingOK
  <2>2. reading'[f] = reading[f] /\ (f \in reading'.ambiguous <=> f \in reading.ambiguous)
    BY <1>2, <1>4
  <2>3. (Sampled(f)' <=> Sampled(f)) /\ \A v : Checks!Only(f, v)' <=> Checks!Only(f, v)
    BY <1>0, <1>4, SampleAdded
  <2> QED BY <2>1, <2>2, <2>3, Zenon DEF FieldOK
<1>5. FieldOK(g)'
  <2>1. FieldOK(g) BY <1>3, Zenon DEF ReadingOK
  <2>2. Sampled(g)' /\ \A v : Checks!Only(g, v)' <=> s = <<g, v>> /\ ~Sampled(g)
    BY <1>0, SampleAdded, Zenon
  <2>3. \A v : s = <<g, v>> => v = s[2]
    <3>1. \A v : <<g, v>>[2] = v OBVIOUS
    <3> QED BY <3>1, Zenon
  <2>4. CASE s[2] = "malformed" \/ reading[g] # ""
    <3>1. reading'[g] = reading[g] /\ g \in reading'.ambiguous BY <1>2, <2>4, Zenon
    <3>2. reading[g] # "" => Sampled(g) BY <2>1, Zenon DEF FieldOK
    <3>3. \A v : v # "malformed" => ~Checks!Only(g, v)'
      BY <2>2, <2>3, <2>4, <3>2, Zenon
    <3> QED BY <2>2, <3>1, <3>3, Zenon DEF FieldOK
  <2>5. CASE s[2] # "malformed" /\ reading[g] = ""
    <3>1. reading'[g] = s[2] /\ (g \in reading'.ambiguous <=> g \in reading.ambiguous)
      BY <1>2, <2>5, Zenon
    <3>2. CASE g \in reading.ambiguous
      <4>1. Sampled(g) BY <2>1, <3>2, Zenon DEF FieldOK
      <4>2. \A v : ~Checks!Only(g, v)' BY <2>2, <4>1, Zenon
      <4> QED BY <2>2, <3>1, <3>2, <4>2, Zenon DEF FieldOK
    <3>3. CASE g \notin reading.ambiguous
      <4>1. ~Sampled(g) BY <2>1, <2>5, <3>3, Zenon DEF FieldOK
      <4>2. Checks!Only(g, s[2])' BY <1>3, <2>2, <4>1, Zenon
      <4>3. Checks!Only(g, reading[g])' <=> Checks!Only(g, s[2])' BY <3>1, Zenon DEF Checks!Only
      <4> QED BY <1>3, <2>2, <3>1, <3>3, <4>2, <4>3, Zenon DEF FieldOK
    <3> QED BY <3>2, <3>3
  <2> QED BY <2>4, <2>5
<1>6. \A f \in Measured : FieldOK(f)' BY <1>4, <1>5, Zenon
<1> QED BY <1>1, <1>2, <1>6, Zenon DEF ReadingOK

\* A field has one text only.
LEMMA FieldIs ==
  ASSUME ReadingOK, NEW f \in Measured, NEW v, v \notin {"", "malformed"}
  PROVE  Checks!Only(f, v) <=> f \notin reading.ambiguous /\ reading[f] = v
<1>1. FieldOK(f) BY DEF ReadingOK
<1>2. ASSUME Checks!Only(f, v) PROVE f \notin reading.ambiguous /\ reading[f] = v
  <2>1. f \notin reading.ambiguous BY <1>1, <1>2, Zenon DEF FieldOK
  <2>2. \A w : <<f, w>>[1] = f /\ <<f, w>>[2] = w OBVIOUS
  <2>3. Sampled(f) BY <1>2, <2>2, Zenon DEF Checks!Only, Sampled
  <2>4. Checks!Only(f, reading[f]) BY <1>1, <2>1, <2>3, Zenon DEF FieldOK
  <2>5. PICK i \in DOMAIN samples : /\ samples[i] = <<f, v>>
                                    /\ \A j \in DOMAIN samples : samples[j][1] = f => j = i
    BY <1>2, Zenon DEF Checks!Only
  <2>6. PICK k \in DOMAIN samples : samples[k] = <<f, reading[f]>>
    BY <2>4, Zenon DEF Checks!Only
  <2>7. <<f, v>> = <<f, reading[f]>> BY <2>2, <2>5, <2>6, Zenon
  <2> QED BY <2>1, <2>2, <2>7, Zenon
<1>3. ASSUME f \notin reading.ambiguous, reading[f] = v PROVE Checks!Only(f, v)
  BY <1>1, <1>3, Zenon DEF FieldOK
<1> QED BY <1>2, <1>3

(* ChecksAreTrue: after any edits of the XML and any samples, a check has  *)
(* passed or warned only on numbers that were reported, and a GPU is       *)
(* healthy, or not, exactly if that was measured once and not long ago     *)
(* (internal/inspection/inspect.go and synthetic.go).                      *)
THEOREM ChecksHold == Checks!Spec => []ChecksAreTrue
<1>1. Checks!Init => ReadingOK
  <2> SUFFICES ASSUME Checks!Init PROVE ReadingOK OBVIOUS
  <2>1. samples = <<>> /\ reading = Checks!Nothing BY DEF Checks!Init
  <2>2. samples \in Seq(Checks!Samples) /\ \A f : ~Sampled(f) BY <2>1 DEF Sampled
  <2>3. /\ reading \in Readings /\ reading.ambiguous = {}
        /\ reading.health = "" /\ reading.age = ""
    BY <2>1 DEF Checks!Nothing, Readings, Values
  <2>4. ASSUME NEW f \in Measured PROVE FieldOK(f)
    <3>1. reading[f] = "" BY <2>3 DEF Measured
    <3> QED BY <2>2, <2>3, <3>1 DEF FieldOK
  <2> QED BY <2>2, <2>3, <2>4 DEF ReadingOK
<1>2. ReadingOK /\ [Checks!Next]_(Checks!vars) => ReadingOK'
  <2> SUFFICES ASSUME ReadingOK, [Checks!Next]_(Checks!vars) PROVE ReadingOK' OBVIOUS
  <2>1. CASE UNCHANGED Checks!vars \/ Checks!EditXML
    <3>1. samples' = samples /\ reading' = reading
      BY <2>1 DEF Checks!vars, Checks!EditXML
    <3>2. \A f : Sampled(f)' <=> Sampled(f) BY <3>1 DEF Sampled
    <3>3. \A f : Checks!Only(f, reading[f])' <=> Checks!Only(f, reading[f])
      BY <3>1 DEF Checks!Only
    <3>4. \A f, v : Checks!Only(f, v)' <=> Checks!Only(f, v) BY <3>1 DEF Checks!Only
    <3>5. \A f : FieldOK(f) => FieldOK(f)' BY <3>1, <3>2, <3>3, <3>4, Zenon DEF FieldOK
    <3> QED BY <3>1, <3>5, Zenon DEF ReadingOK
  <2>2. CASE Checks!ReadSample
    <3>1. PICK s \in Checks!Samples :
            samples' = Append(samples, s) /\ reading' = Checks!Read(reading, s)
      BY <2>2 DEF Checks!ReadSample
    <3> QED BY <3>1, ReadingNext
  <2> QED BY <2>1, <2>2 DEF Checks!Next
<1>3. ReadingOK => ChecksAreTrue
  <2> SUFFICES ASSUME ReadingOK PROVE ChecksAreTrue OBVIOUS
  <2>1. Checks!NothingIsInvented
    BY DEF Checks!NothingIsInvented, Checks!Utilization, Checks!Memory, Checks!ECC,
           Checks!ECCCount, Checks!ModernECC, Checks!CombineMissingStatus, Checks!Numeric,
           Checks!ParseXMLNumber
  <2>2. Checks!MeasuredOnceAndFresh
    <3>1. \A t \in {"0", "1"} : Checks!Only("health", t) <=>
            "health" \notin reading.ambiguous /\ reading.health = t
      BY FieldIs DEF Measured
    <3>2. Checks!Only("age", "fresh") <=>
            "age" \notin reading.ambiguous /\ reading.age = "fresh"
      BY FieldIs DEF Measured
    <3>3. reading.ambiguous \subseteq Measured BY DEF ReadingOK, Readings
    <3>4. reading.ambiguous = {} <=>
            "health" \notin reading.ambiguous /\ "age" \notin reading.ambiguous
      BY <3>3 DEF Measured
    <3> QED BY <3>1, <3>2, <3>4 DEF Checks!MeasuredOnceAndFresh, Checks!Health, Checks!Usable
  <2> QED BY <2>1, <2>2 DEF ChecksAreTrue, Checks!ChecksAreTrue
<1> QED BY <1>1, <1>2, <1>3, PTL DEF Checks!Spec
=============================================================================
