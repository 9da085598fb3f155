----------------------------- MODULE SaveProofs -----------------------------
(***************************************************************************)
(* The save sinks, for every length of the stream, every buffer and any     *)
(* number of savers: what a callback was given when its save succeeds, and  *)
(* what is in the target of a file, where one saver at a time writes it: all*)
(* of the stream, or all but its end if the last flush failed unseen.  If   *)
(* that cannot happen the target is always whole.                           *)
(***************************************************************************)
EXTENDS SaveSink, FiniteSetTheorems, SequenceTheorems, TLAPS

Units == (Savers \X Nat \X Nat) \cup {"old", "hole", "trailer"}

(* The types the proofs need besides TypeOK: a saver that is not idle has a *)
(* file open, and a callback's buffer is never left full.                   *)
Types ==
  /\ TypeOK
  /\ buffer \in [Savers -> Seq(Units)] /\ heard \in [Savers -> Seq(Seq(Units))]
  /\ files \in Seq(Seq(Units)) /\ handle \in [Savers -> [file : Nat, at : Nat]]
  /\ names \in [temp : Nat, target : Nat]
  /\ failures \in [Savers -> Nat]
  /\ \A w \in Savers : pc[w] # "idle" /\ ToFile(w) => handle[w].file \in 1..Len(files)
  /\ \A w \in Savers : pc[w] = "writing" /\ ~ToFile(w) => Len(buffer[w]) < BufferSize
-----------------------------------------------------------------------------
(* What is written to a file.                                               *)
LEMMA OverwrittenFacts ==
  ASSUME NEW f \in Seq(Units), NEW at \in Nat, NEW s \in Seq(Units)
  PROVE  /\ Overwritten(f, at, s) \in Seq(Units)
         /\ (at = Len(f) => Overwritten(f, at, s) = f \o s)
<1> DEFINE n == IF Len(f) > at + Len(s) THEN Len(f) ELSE at + Len(s)
           g == Overwritten(f, at, s)
<1>1. Len(f) \in Nat /\ Len(s) \in Nat /\ n \in Nat
  OBVIOUS
<1>2. g = [i \in 1..n |-> IF i \in (at + 1)..(at + Len(s)) THEN s[i - at]
                          ELSE IF i <= Len(f) THEN f[i] ELSE "hole"]
  BY DEF Overwritten
<1>3. \A i \in 1..n : i \in (at + 1)..(at + Len(s)) => i - at \in 1..Len(s)
  BY <1>1
<1>4. \A i \in 1..n : g[i] \in Units
  BY <1>1, <1>2, <1>3 DEF Units
<1>5. g \in Seq(Units) /\ Len(g) = n
  <2> HIDE DEF g, n
  <2>1. g = [i \in 1..n |-> g[i]]
    BY <1>2
  <2> QED BY <1>1, <1>4, <2>1
<1>6. ASSUME at = Len(f) PROVE g = f \o s
  <2>1. n = Len(f) + Len(s)
    BY <1>1, <1>6
  <2> DEFINE h == f \o s
  <2>2. h \in Seq(Units) /\ Len(h) = n
    BY <1>1, <2>1
  <2>3. \A i \in 1..n : g[i] = h[i]
    <3> TAKE i \in 1..n
    <3>1. CASE i <= Len(f)
      BY <1>1, <1>2, <1>6, <2>1, <3>1
    <3>2. CASE i > Len(f)
      BY <1>1, <1>2, <1>6, <2>1, <3>2
    <3> QED BY <1>1, <2>1, <3>1, <3>2
  <2> HIDE DEF g, h, n
  <2>4. Len(g) = Len(h) /\ \A i \in 1..Len(g) : g[i] = h[i]
    BY <1>5, <2>2, <2>3
  <2>5. g = h
    BY <1>5, <2>2, <2>4, SeqEqual
  <2> QED BY <2>5 DEF h
<1> QED BY <1>5, <1>6

(* The saver writes s to its file and to no other.                          *)
Writes(w, s) ==
  /\ files' = [files EXCEPT ![handle[w].file] = Overwritten(@, handle[w].at, s)]
  /\ handle' = [handle EXCEPT ![w].at = @ + Len(s)]

LEMMA WritesFacts ==
  ASSUME Types, NEW w \in Savers, handle[w].file \in 1..Len(files),
         NEW s \in Seq(Units), Writes(w, s)
  PROVE  /\ files' \in Seq(Seq(Units)) /\ Len(files') = Len(files)
         /\ handle' \in [Savers -> [file : Nat, at : Nat]]
         /\ \A v \in Savers : handle'[v].file = handle[v].file
         /\ handle'[w].at = handle[w].at + Len(s)
         /\ files'[handle[w].file] = Overwritten(files[handle[w].file], handle[w].at, s)
         /\ \A k \in 1..Len(files) : k # handle[w].file => files'[k] = files[k]
<1>1. /\ files \in Seq(Seq(Units)) /\ handle \in [Savers -> [file : Nat, at : Nat]]
      /\ Len(files) \in Nat /\ Len(s) \in Nat
  BY DEF Types
<1> DEFINE k == handle[w].file
           g == Overwritten(files[k], handle[w].at, s)
<1>2. k \in 1..Len(files) /\ files[k] \in Seq(Units) /\ handle[w].at \in Nat
  BY <1>1
<1>3. g \in Seq(Units)
  BY <1>2, OverwrittenFacts
<1>4. files' = [files EXCEPT ![k] = g]
  BY DEF Writes
<1>5. handle' = [handle EXCEPT ![w].at = handle[w].at + Len(s)]
  BY DEF Writes
<1> HIDE DEF k, g
<1>6. /\ files' \in Seq(Seq(Units)) /\ Len(files') = Len(files) /\ files'[k] = g
      /\ \A j \in 1..Len(files) : j # k => files'[j] = files[j]
  BY <1>1, <1>2, <1>3, <1>4
<1>7. /\ handle' \in [Savers -> [file : Nat, at : Nat]]
      /\ \A v \in Savers : handle'[v].file = handle[v].file
      /\ handle'[w].at = handle[w].at + Len(s)
  BY <1>1, <1>2, <1>5
<1> QED BY <1>6, <1>7 DEF k, g

(* Anything that leaves the pieces in their types leaves Types.             *)
LEMMA TypesIntro ==
  ASSUME pc' \in [Savers -> {"idle", "writing", "dropping", "dropped", "closed"}],
         sink' \in [Savers -> Sinks], round' \in [Savers -> 0..Rounds], made' \in [Savers -> 0..Length],
         result' \in [Savers -> {"none", "ok", "error", "crashed"}],
         buffer' \in [Savers -> Seq(Units)], heard' \in [Savers -> Seq(Seq(Units))],
         \A w \in Savers : Len(buffer'[w]) <= BufferSize,
         files' \in Seq(Seq(Units)), handle' \in [Savers -> [file : Nat, at : Nat]],
         names' \in [temp : Nat, target : Nat],
         names'.temp \in 0..Len(files'), names'.target \in 1..Len(files'),
         failures' \in [Savers -> Nat],
         \A w \in Savers : pc'[w] # "idle" /\ sink'[w] = "file" => handle'[w].file \in 1..Len(files'),
         \A w \in Savers : pc'[w] = "writing" /\ sink'[w] # "file" => Len(buffer'[w]) < BufferSize
  PROVE  Types'
BY DEF Types, TypeOK, ToFile

LEMMA TypesFacts ==
  ASSUME Types
  PROVE  /\ pc \in [Savers -> {"idle", "writing", "dropping", "dropped", "closed"}]
         /\ sink \in [Savers -> Sinks] /\ round \in [Savers -> 0..Rounds] /\ made \in [Savers -> 0..Length]
         /\ result \in [Savers -> {"none", "ok", "error", "crashed"}]
         /\ buffer \in [Savers -> Seq(Units)] /\ heard \in [Savers -> Seq(Seq(Units))]
         /\ (\A w \in Savers : Len(buffer[w]) <= BufferSize)
         /\ files \in Seq(Seq(Units)) /\ handle \in [Savers -> [file : Nat, at : Nat]]
         /\ names \in [temp : Nat, target : Nat]
         /\ names.temp \in 0..Len(files) /\ names.target \in 1..Len(files)
         /\ failures \in [Savers -> Nat] /\ Len(files) \in Nat
         /\ (\A w \in Savers : pc[w] # "idle" /\ sink[w] = "file" => handle[w].file \in 1..Len(files))
         /\ (\A w \in Savers : pc[w] = "writing" /\ sink[w] # "file" => Len(buffer[w]) < BufferSize)
         /\ BufferSize \in Nat /\ Length \in Nat /\ Rounds \in Nat /\ BufferSize >= 2 /\ Length >= 1
BY SinkAssumption DEF Types, TypeOK, ToFile

(* The types of what a saver has in its hands, without the rest.            *)
LEMMA HeldTypes ==
  ASSUME Types
  PROVE  /\ files \in Seq(Seq(Units)) /\ handle \in [Savers -> [file : Nat, at : Nat]]
         /\ buffer \in [Savers -> Seq(Units)] /\ heard \in [Savers -> Seq(Seq(Units))]
BY TypesFacts

(* One saver's entry is set.                                                *)
LEMMA OneSet ==
  ASSUME NEW T, NEW f \in [Savers -> T], NEW w \in Savers, NEW x \in T
  PROVE  /\ [f EXCEPT ![w] = x] \in [Savers -> T] /\ [f EXCEPT ![w] = x][w] = x
         /\ \A v \in Savers : v # w => [f EXCEPT ![w] = x][v] = f[v]
OBVIOUS

(* What a saver's step leaves in its types, whatever it wrote where.        *)
Kept(w, most) ==
  /\ files' \in Seq(Seq(Units)) /\ Len(files') = Len(files)
  /\ handle' \in [Savers -> [file : Nat, at : Nat]]
  /\ \A v \in Savers : handle'[v].file = handle[v].file
  /\ buffer' \in [Savers -> Seq(Units)] /\ heard' \in [Savers -> Seq(Seq(Units))]
  /\ \A v \in Savers : v # w => buffer'[v] = buffer[v] /\ heard'[v] = heard[v]
  /\ Len(buffer'[w]) <= most

LEMMA TakesKeeps ==
  ASSUME Types, NEW w \in Savers, ToFile(w) => handle[w].file \in 1..Len(files),
         NEW b \in Seq(Units),
         \/ ToFile(w) /\ \E n \in 0..Len(b) : FileTakes(w, b, n)
         \/ ~ToFile(w) /\ \E throws, used \in BOOLEAN : CallbackTakes(w, b, throws, used)
  PROVE  Kept(w, Len(b))
<1>1. Len(b) \in Nat
  OBVIOUS
<1>2. ASSUME ToFile(w), NEW n \in 0..Len(b), FileTakes(w, b, n) PROVE Kept(w, Len(b))
  <2>1. SubSeq(b, 1, n) \in Seq(Units) /\ Len(SubSeq(b, 1, n)) = n
    BY <1>1
  <2>2. SubSeq(b, n + 1, Len(b)) \in Seq(Units) /\ Len(SubSeq(b, n + 1, Len(b))) <= Len(b)
    BY <1>1
  <2>3. Writes(w, SubSeq(b, 1, n)) /\ heard' = heard
        /\ buffer' = [buffer EXCEPT ![w] = SubSeq(b, n + 1, Len(b))]
    BY <1>2, <2>1 DEF FileTakes, Writes
  <2>4. /\ files' \in Seq(Seq(Units)) /\ Len(files') = Len(files)
        /\ handle' \in [Savers -> [file : Nat, at : Nat]]
        /\ \A v \in Savers : handle'[v].file = handle[v].file
    BY <1>2, <2>1, <2>3, WritesFacts
  <2>5. /\ buffer' \in [Savers -> Seq(Units)] /\ Len(buffer'[w]) <= Len(b)
        /\ \A v \in Savers : v # w => buffer'[v] = buffer[v]
    BY <2>2, <2>3, HeldTypes, OneSet
  <2> QED BY <2>3, <2>4, <2>5, HeldTypes DEF Kept
<1>3. ASSUME NEW throws \in BOOLEAN, NEW used \in BOOLEAN, CallbackTakes(w, b, throws, used)
      PROVE  Kept(w, Len(b))
  <2>1. UNCHANGED <<files, handle>>
    BY <1>3 DEF CallbackTakes
  <2>2. /\ heard' \in [Savers -> Seq(Seq(Units))] /\ \A v \in Savers : v # w => heard'[v] = heard[v]
    <3>1. heard[w] \in Seq(Seq(Units))
      BY TypesFacts
    <3>2. Append(heard[w], b) \in Seq(Seq(Units))
      BY <3>1, AppendProperties
    <3>3. heard' = heard \/ heard' = [heard EXCEPT ![w] = Append(heard[w], b)]
      BY <1>3 DEF CallbackTakes
    <3>4. heard \in [Savers -> Seq(Seq(Units))]
      BY HeldTypes
    <3> DEFINE h == Append(heard[w], b)
    <3> HIDE DEF h
    <3>5. [heard EXCEPT ![w] = h] \in [Savers -> Seq(Seq(Units))]
          /\ \A v \in Savers : v # w => [heard EXCEPT ![w] = h][v] = heard[v]
      BY <3>2, <3>4 DEF h
    <3> QED BY <3>3, <3>4, <3>5 DEF h
  <2>3. buffer' = [buffer EXCEPT ![w] = b] \/ buffer' = [buffer EXCEPT ![w] = <<>>]
    BY <1>3 DEF CallbackTakes
  <2>4. <<>> \in Seq(Units) /\ Len(<<>>) = 0
    OBVIOUS
  <2>5. /\ buffer' \in [Savers -> Seq(Units)] /\ Len(buffer'[w]) <= Len(b)
        /\ \A v \in Savers : v # w => buffer'[v] = buffer[v]
    <3>1. \E s \in Seq(Units) : buffer' = [buffer EXCEPT ![w] = s] /\ Len(s) <= Len(b)
      <4>1. CASE buffer' = [buffer EXCEPT ![w] = b]
        <5> WITNESS b \in Seq(Units)
        <5> QED BY <1>1, <4>1
      <4>2. CASE buffer' = [buffer EXCEPT ![w] = <<>>]
        <5> WITNESS <<>> \in Seq(Units)
        <5> QED BY <1>1, <2>4, <4>2
      <4> QED BY <2>3, <4>1, <4>2
    <3> QED BY <3>1, HeldTypes, OneSet
  <2> QED BY <2>1, <2>2, <2>5, HeldTypes DEF Kept
<1> QED BY <1>2, <1>3

LEMMA FlushKeeps ==
  ASSUME Types, NEW w \in Savers, ToFile(w) => handle[w].file \in 1..Len(files),
         NEW b \in Seq(Units), Flushed(w, b) \/ FlushFails(w, b)
  PROVE  Kept(w, Len(b))
<1>1. Len(b) \in 0..Len(b) /\ 0..(Len(b) - 1) \subseteq 0..Len(b)
  OBVIOUS
<1>2. CASE Flushed(w, b)
  <2>1. CASE ToFile(w)
    <3>1. FileTakes(w, b, Len(b))
      BY <1>2, <2>1 DEF Flushed
    <3> QED BY <1>1, <2>1, <3>1, TakesKeeps
  <2>2. CASE ~ToFile(w)
    <3>1. CallbackTakes(w, b, FALSE, TRUE)
      BY <1>2, <2>2 DEF Flushed
    <3> QED BY <2>2, <3>1, TakesKeeps
  <2> QED BY <2>1, <2>2
<1>3. CASE FlushFails(w, b)
  <2>1. CASE ToFile(w)
    <3>1. PICK n \in 0..(Len(b) - 1) : FileTakes(w, b, n)
      BY <1>3, <2>1 DEF FlushFails
    <3>2. n \in 0..Len(b)
      BY <1>1, <3>1
    <3> QED BY <2>1, <3>1, <3>2, TakesKeeps
  <2>2. CASE ~ToFile(w)
    BY <1>3, <2>2, TakesKeeps DEF FlushFails
  <2> QED BY <2>1, <2>2
<1> QED BY <1>2, <1>3

(* A failed write is counted, one that was accepted is not.                 *)
LEMMA FailureTypes ==
  ASSUME Types, NEW w \in Savers, NEW b,
         failures' = failures \/ FlushFails(w, b)
  PROVE  failures' \in [Savers -> Nat]
<1>1. failures[w] + 1 \in Nat
  BY TypesFacts
<1> QED BY <1>1, TypesFacts DEF FlushFails

LEMMA KeptTypes ==
  ASSUME Types, NEW w \in Savers, NEW most \in Nat, Kept(w, most), most <= BufferSize,
         UNCHANGED <<sink, round, names>>, failures' \in [Savers -> Nat],
         made' \in [Savers -> 0..Length],
         result' \in [Savers -> {"none", "ok", "error", "crashed"}],
         NEW to \in {"idle", "writing", "dropping", "dropped", "closed"}, pc' = [pc EXCEPT ![w] = to],
         to # "idle" => pc[w] # "idle",
         to = "writing" /\ ~ToFile(w) => Len(buffer'[w]) < BufferSize
  PROVE  Types'
<1>1. \A v \in Savers : Len(buffer'[v]) <= BufferSize
  <2>1. Len(buffer'[w]) \in Nat /\ Len(buffer'[w]) <= most /\ BufferSize \in Nat
    BY TypesFacts DEF Kept
  <2>2. Len(buffer'[w]) <= BufferSize
    BY <2>1
  <2>3. \A v \in Savers : v # w => Len(buffer'[v]) <= BufferSize
    BY TypesFacts DEF Kept
  <2> QED BY <2>2, <2>3
<1>2. pc' \in [Savers -> {"idle", "writing", "dropping", "dropped", "closed"}]
  BY TypesFacts
<1>3. \A v \in Savers : pc'[v] # "idle" /\ sink'[v] = "file" => handle'[v].file \in 1..Len(files')
  <2> TAKE v \in Savers
  <2>1. pc'[v] # "idle" => pc[v] # "idle"
    BY TypesFacts
  <2> QED BY <2>1, TypesFacts DEF Kept
<1>4. \A v \in Savers : pc'[v] = "writing" /\ sink'[v] # "file" => Len(buffer'[v]) < BufferSize
  <2> TAKE v \in Savers
  <2>1. CASE v = w
    BY <2>1, TypesFacts DEF ToFile
  <2>2. CASE v # w
    BY <2>2, TypesFacts DEF Kept
  <2> QED BY <2>1, <2>2
<1> QED BY <1>1, <1>2, <1>3, <1>4, TypesFacts, TypesIntro DEF Kept

LEMMA UnitTypes ==
  ASSUME Types, NEW w \in Savers
  PROVE  /\ Unit(w) \in Units /\ <<Unit(w)>> \in Seq(Units) /\ Len(<<Unit(w)>>) = 1
         /\ <<Unit(w), "trailer">> \in Seq(Units) /\ Len(<<Unit(w), "trailer">>) = 2
         /\ Append(buffer[w], Unit(w)) \in Seq(Units)
         /\ Len(Append(buffer[w], Unit(w))) = Len(buffer[w]) + 1
         /\ buffer[w] \in Seq(Units) /\ Len(buffer[w]) \in Nat
<1>1. Unit(w) \in Units /\ "trailer" \in Units /\ buffer[w] \in Seq(Units)
  <2>1. round[w] \in Nat /\ made[w] + 1 \in Nat /\ buffer[w] \in Seq(Units)
    BY TypesFacts
  <2> QED BY <2>1 DEF Unit, Units
<1> HIDE DEF Unit
<1> QED BY <1>1, AppendProperties

LEMMA StartTypes == ASSUME Types, NEW w \in Savers, Start(w) PROVE Types'
<1>1. /\ pc' = [pc EXCEPT ![w] = "writing"] /\ round' = [round EXCEPT ![w] = round[w] + 1]
      /\ made' = [made EXCEPT ![w] = 0] /\ buffer' = [buffer EXCEPT ![w] = <<>>]
      /\ heard' = [heard EXCEPT ![w] = <<>>] /\ failures' = [failures EXCEPT ![w] = 0]
      /\ result' = [result EXCEPT ![w] = "none"] /\ sink' = sink /\ round[w] < Rounds
  BY DEF Start, Goes
<1>2. round[w] + 1 \in 0..Rounds
  BY <1>1, TypesFacts
<1>3. <<>> \in Seq(Units) /\ <<>> \in Seq(Seq(Units)) /\ Len(<<>>) = 0
  OBVIOUS
<1>4. /\ pc' \in [Savers -> {"idle", "writing", "dropping", "dropped", "closed"}]
      /\ round' \in [Savers -> 0..Rounds] /\ made' \in [Savers -> 0..Length]
      /\ result' \in [Savers -> {"none", "ok", "error", "crashed"}]
      /\ buffer' \in [Savers -> Seq(Units)] /\ heard' \in [Savers -> Seq(Seq(Units))]
      /\ failures' \in [Savers -> Nat]
  <2>1. /\ pc' \in [Savers -> {"idle", "writing", "dropping", "dropped", "closed"}]
        /\ result' \in [Savers -> {"none", "ok", "error", "crashed"}]
    <3>1. /\ pc \in [Savers -> {"idle", "writing", "dropping", "dropped", "closed"}]
          /\ result \in [Savers -> {"none", "ok", "error", "crashed"}]
      BY TypesFacts
    <3> QED BY <1>1, <3>1
  <2>2. round' \in [Savers -> 0..Rounds] /\ made' \in [Savers -> 0..Length] /\ failures' \in [Savers -> Nat]
    <3>1. /\ round \in [Savers -> 0..Rounds] /\ made \in [Savers -> 0..Length]
          /\ failures \in [Savers -> Nat] /\ 0 \in 0..Length
      BY TypesFacts
    <3> QED BY <1>1, <1>2, <3>1
  <2>3. buffer' \in [Savers -> Seq(Units)] /\ heard' \in [Savers -> Seq(Seq(Units))]
    BY <1>1, <1>3, HeldTypes
  <2> QED BY <2>1, <2>2, <2>3
<1>5. /\ \A v \in Savers : Len(buffer'[v]) <= BufferSize
      /\ \A v \in Savers : pc'[v] = "writing" /\ sink'[v] # "file" => Len(buffer'[v]) < BufferSize
  <2> SUFFICES ASSUME NEW v \in Savers
               PROVE  Len(buffer'[v]) <= BufferSize
                      /\ (pc'[v] = "writing" /\ sink'[v] # "file" => Len(buffer'[v]) < BufferSize)
    OBVIOUS
  <2>1. CASE v = w
    BY <1>1, <1>3, <2>1, TypesFacts
  <2>2. CASE v # w
    BY <1>1, <2>2, TypesFacts
  <2> QED BY <2>1, <2>2
<1>6. CASE ~ToFile(w)
  <2>1. UNCHANGED <<handle, files, names>>
    BY <1>6 DEF Start
  <2>2. \A v \in Savers : pc'[v] # "idle" /\ sink'[v] = "file" => handle'[v].file \in 1..Len(files')
    BY <1>1, <1>6, <2>1, TypesFacts DEF ToFile
  <2> QED BY <1>1, <1>4, <1>5, <2>1, <2>2, TypesFacts, TypesIntro
<1>7. CASE ToFile(w)
  <2> DEFINE f == IF names.temp = NoFile THEN Len(files) + 1 ELSE names.temp
             n == IF f > Len(files) THEN f ELSE Len(files)
  <2>1. /\ files' = [i \in 1..n |-> IF i = f THEN <<>> ELSE files[i]]
        /\ names' = [names EXCEPT !.temp = f]
        /\ handle' = [handle EXCEPT ![w] = [file |-> f, at |-> 0]]
    BY <1>7 DEF Start
  <2>2. f \in Nat /\ n \in Nat /\ f \in 1..n /\ Len(files) <= n /\ (n = Len(files) \/ n = f)
    BY TypesFacts DEF NoFile
  <2> HIDE DEF f, n
  <2>8. Len(files) \in Nat /\ (f = Len(files) + 1 \/ f <= Len(files))
    BY TypesFacts DEF f, NoFile
  <2>3. \A i \in 1..n : i # f => i \in 1..Len(files)
    BY <2>2, <2>8
  <2>4. files' \in Seq(Seq(Units)) /\ Len(files') = n
    <3> DEFINE e(i) == IF i = f THEN <<>> ELSE files[i]
    <3>1. \A i \in 1..n : e(i) \in Seq(Units)
      BY <1>3, <2>3, TypesFacts
    <3>2. files' = [i \in 1..n |-> e(i)]
      BY <2>1
    <3> HIDE DEF e
    <3> QED BY <2>2, <3>1, <3>2
  <2>5. names' \in [temp : Nat, target : Nat] /\ names'.temp \in 0..n /\ names'.target \in 1..n
    <3>1. names.target \in 1..Len(files) /\ names \in [temp : Nat, target : Nat]
      BY TypesFacts
    <3>2. names' = [temp |-> f, target |-> names.target]
      BY <2>1, <3>1
    <3> QED BY <2>2, <2>8, <3>1, <3>2
  <2>6. handle' \in [Savers -> [file : Nat, at : Nat]] /\ handle'[w].file = f
        /\ \A v \in Savers : v # w => handle'[v] = handle[v]
    BY <2>1, <2>2, TypesFacts
  <2>7. \A v \in Savers : pc'[v] # "idle" /\ sink'[v] = "file" => handle'[v].file \in 1..n
    <3> TAKE v \in Savers
    <3>1. CASE v = w
      BY <2>2, <2>6, <3>1
    <3>2. CASE v # w
      <4>1. pc'[v] = pc[v] /\ sink'[v] = sink[v] /\ handle'[v] = handle[v]
        BY <1>1, <2>6, <3>2, TypesFacts
      <4>2. 1..Len(files) \subseteq 1..n
        BY <2>2, <2>8
      <4> QED BY <4>1, <4>2, TypesFacts
    <3> QED BY <3>1, <3>2
  <2> QED BY <1>1, <1>4, <1>5, <2>4, <2>5, <2>6, <2>7, TypesIntro, TypesFacts
<1> QED BY <1>6, <1>7

LEMMA WriteTypes == ASSUME Types, NEW w \in Savers, WriteUnit(w) \/ WriteFails(w) PROVE Types'
<1>1. /\ pc[w] = "writing" /\ made[w] < Length /\ UNCHANGED <<sink, round, names, result>>
      /\ (ToFile(w) => handle[w].file \in 1..Len(files))
      /\ (~ToFile(w) => Len(buffer[w]) < BufferSize) /\ Len(buffer[w]) <= BufferSize
  BY TypesFacts DEF WriteUnit, WriteFails, ToFile
<1> DEFINE b == Append(buffer[w], Unit(w))
<1>2. b \in Seq(Units) /\ Len(b) = Len(buffer[w]) + 1 /\ buffer[w] \in Seq(Units) /\ Len(buffer[w]) \in Nat
  BY UnitTypes
<1> HIDE DEF b
<1>3. made[w] + 1 \in 0..Length
  BY <1>1, TypesFacts
<1>4. ASSUME WriteUnit(w), Kept(w, Len(b)) \/ Kept(w, Len(buffer[w])),
             ~ToFile(w) => Len(buffer'[w]) < BufferSize, Len(b) <= BufferSize \/ Kept(w, Len(buffer[w]))
      PROVE  Types'
  <2>1. /\ pc' = [pc EXCEPT ![w] = "writing"] /\ failures' = failures
        /\ made' = [made EXCEPT ![w] = made[w] + 1] /\ result' = result
    BY <1>1, <1>4, TypesFacts DEF WriteUnit
  <2>2. made' \in [Savers -> 0..Length] /\ failures' \in [Savers -> Nat]
        /\ result' \in [Savers -> {"none", "ok", "error", "crashed"}]
    BY <1>3, <2>1, TypesFacts
  <2>3. \E most \in Nat : most <= BufferSize /\ Kept(w, most)
    BY <1>1, <1>2, <1>4
  <2> QED BY <1>1, <1>4, <2>1, <2>2, <2>3, KeptTypes
<1>5. CASE WriteUnit(w)
  <2>1. CASE ToFile(w) /\ Full(buffer[w]) /\ buffer' = [buffer EXCEPT ![w] = <<Unit(w)>>] /\ heard' = heard
             /\ Writes(w, buffer[w])
    <3>1. buffer' \in [Savers -> Seq(Units)] /\ Len(buffer'[w]) = 1
          /\ \A v \in Savers : v # w => buffer'[v] = buffer[v]
      BY <2>1, UnitTypes, TypesFacts
    <3>2. /\ files' \in Seq(Seq(Units)) /\ Len(files') = Len(files)
          /\ handle' \in [Savers -> [file : Nat, at : Nat]]
          /\ \A v \in Savers : handle'[v].file = handle[v].file
      BY <1>1, <1>2, <2>1, WritesFacts
    <3>3. 1 <= Len(buffer[w])
      BY <2>1, <1>2, TypesFacts DEF Full
    <3>4. Kept(w, Len(buffer[w]))
      BY <2>1, <3>1, <3>2, <3>3, TypesFacts DEF Kept
    <3> QED BY <1>4, <1>5, <2>1, <3>4
  <2>2. CASE ~ToFile(w) /\ Full(b) /\ Flushed(w, b)
    <3>1. Kept(w, Len(b))
      BY <1>1, <1>2, <2>2, FlushKeeps
    <3>2. buffer'[w] = <<>>
      BY <2>2, TypesFacts DEF Flushed, CallbackTakes
    <3>3. Len(b) <= BufferSize /\ Len(<<>>) = 0
      BY <1>1, <1>2, <2>2, TypesFacts
    <3> QED BY <1>4, <1>5, <3>1, <3>2, <3>3, TypesFacts
  <2>3. CASE /\ ~Full(IF ToFile(w) THEN buffer[w] ELSE b) /\ buffer' = [buffer EXCEPT ![w] = b]
             /\ UNCHANGED <<files, handle, heard>>
    <3>1. buffer' \in [Savers -> Seq(Units)] /\ buffer'[w] = b
          /\ \A v \in Savers : v # w => buffer'[v] = buffer[v]
      BY <1>2, <2>3, HeldTypes, OneSet
    <3>2. Kept(w, Len(b))
      <4> HIDE DEF b
      <4>1. Len(buffer'[w]) <= Len(b)
        BY <1>2, <3>1
      <4> QED BY <2>3, <3>1, <4>1, HeldTypes DEF Kept
    <3>3. Len(b) <= BufferSize /\ (~ToFile(w) => Len(b) < BufferSize)
      BY <1>2, <2>3, TypesFacts DEF Full
    <3> QED BY <1>4, <1>5, <3>1, <3>2, <3>3
  <2> QED BY <1>5, <2>1, <2>2, <2>3 DEF WriteUnit, Writes, b
<1>6. CASE WriteFails(w)
  <2>1. /\ pc' = [pc EXCEPT ![w] = "dropping"] /\ made' = made /\ result' = result
        /\ \/ ToFile(w) /\ FlushFails(w, buffer[w])
           \/ ~ToFile(w) /\ FlushFails(w, b)
    BY <1>6 DEF WriteFails, Goes, AfterError, b
  <2>2. \E most \in Nat : most <= BufferSize /\ Kept(w, most)
    <3>1. CASE ToFile(w) /\ FlushFails(w, buffer[w])
      BY <1>1, <1>2, <3>1, FlushKeeps
    <3>2. CASE ~ToFile(w) /\ FlushFails(w, b)
      <4>1. Len(b) \in Nat /\ Len(b) <= BufferSize
        BY <1>1, <1>2, <3>2, TypesFacts
      <4> QED BY <1>1, <1>2, <3>2, <4>1, FlushKeeps
    <3> QED BY <2>1, <3>1, <3>2
  <2>3. failures' \in [Savers -> Nat]
    BY <2>1, FailureTypes
  <2>4. made' \in [Savers -> 0..Length] /\ result' \in [Savers -> {"none", "ok", "error", "crashed"}]
    BY <2>1, TypesFacts
  <2> QED BY <1>1, <2>1, <2>2, <2>3, <2>4, KeptTypes
<1> QED BY <1>5, <1>6

LEMMA DropTypes == ASSUME Types, NEW w \in Savers, DropEncoder(w) \/ DropSink(w) PROVE Types'
<1>1. /\ pc[w] # "idle" /\ UNCHANGED <<sink, round, made, names>>
      /\ (ToFile(w) => handle[w].file \in 1..Len(files))
      /\ Len(buffer[w]) <= BufferSize /\ Len(buffer[w]) \in Nat /\ buffer[w] \in Seq(Units)
  BY TypesFacts, UnitTypes DEF DropEncoder, DropSink, ToFile
<1>2. failures' \in [Savers -> Nat]
  BY FailureTypes DEF DropEncoder, DropSink
<1>3. \E most \in Nat : most <= BufferSize /\ Kept(w, most)
  <2>1. CASE Flushed(w, buffer[w]) \/ FlushFails(w, buffer[w])
    BY <1>1, <2>1, FlushKeeps
  <2>2. CASE UNCHANGED <<files, handle, buffer, heard>>
    <3>1. Kept(w, Len(buffer[w]))
      BY <1>1, <2>2, TypesFacts DEF Kept
    <3> QED BY <1>1, <3>1
  <2>3. CASE /\ buffer' = [buffer EXCEPT ![w] = <<Unit(w), "trailer">>]
             /\ \/ ToFile(w) /\ Writes(w, buffer[w]) /\ heard' = heard
                \/ heard' = [heard EXCEPT ![w] = Append(heard[w], buffer[w])] /\ UNCHANGED <<files, handle>>
    <3>1. buffer' \in [Savers -> Seq(Units)] /\ Len(buffer'[w]) = 2
          /\ \A v \in Savers : v # w => buffer'[v] = buffer[v]
      BY <2>3, UnitTypes, HeldTypes, OneSet
    <3>2. 2 <= BufferSize
      BY TypesFacts
    <3>3. CASE ToFile(w) /\ Writes(w, buffer[w]) /\ heard' = heard
      <4>1. /\ files' \in Seq(Seq(Units)) /\ Len(files') = Len(files)
            /\ handle' \in [Savers -> [file : Nat, at : Nat]]
            /\ \A v \in Savers : handle'[v].file = handle[v].file
        BY <1>1, <3>3, WritesFacts
      <4>2. Kept(w, 2)
        BY <3>1, <3>3, <4>1, HeldTypes DEF Kept
      <4> QED BY <3>2, <4>2
    <3>4. CASE heard' = [heard EXCEPT ![w] = Append(heard[w], buffer[w])] /\ UNCHANGED <<files, handle>>
      <4>1. Append(heard[w], buffer[w]) \in Seq(Seq(Units))
        BY <1>1, TypesFacts, AppendProperties
      <4>2. heard' \in [Savers -> Seq(Seq(Units))] /\ \A v \in Savers : v # w => heard'[v] = heard[v]
        BY <3>4, <4>1, HeldTypes, OneSet
      <4>3. Kept(w, 2)
        BY <3>1, <3>4, <4>2, HeldTypes DEF Kept
      <4> QED BY <3>2, <4>3
    <3> QED BY <2>3, <3>3, <3>4
  <2>4. CASE DropEncoder(w)
    <3>1. CASE FlushFails(w, buffer[w])
      BY <2>1, <3>1
    <3>2. CASE ~FlushFails(w, buffer[w])
      <4>1. buffer' = [buffer EXCEPT ![w] = <<Unit(w), "trailer">>]
        BY <2>4, <3>2 DEF DropEncoder
      <4>2. \/ ToFile(w) /\ Writes(w, buffer[w]) /\ heard' = heard
            \/ heard' = [heard EXCEPT ![w] = Append(heard[w], buffer[w])] /\ UNCHANGED <<files, handle>>
        BY <2>4, <3>2 DEF DropEncoder, Writes
      <4> QED BY <2>3, <4>1, <4>2
    <3> QED BY <3>1, <3>2
  <2>5. CASE DropSink(w)
    BY <2>1, <2>2, <2>5 DEF DropSink
  <2> QED BY <2>4, <2>5
<1>4. made' \in [Savers -> 0..Length] /\ result' \in [Savers -> {"none", "ok", "error", "crashed"}]
  BY <1>1, TypesFacts DEF DropEncoder, DropSink
<1>5. \E to \in {"dropped", "idle"} : pc' = [pc EXCEPT ![w] = to]
  BY DEF DropEncoder, DropSink, Goes
<1> QED BY <1>1, <1>2, <1>3, <1>4, <1>5, KeptTypes

LEMMA EndTypes ==
  ASSUME Types, NEW w \in Savers, FinishOk(w) \/ FinishFails(w) \/ Rename(w) \/ Crash(w)
  PROVE  Types'
<1>1. /\ pc[w] # "idle" /\ UNCHANGED <<sink, round, made>>
      /\ (ToFile(w) => handle[w].file \in 1..Len(files))
      /\ Len(buffer[w]) <= BufferSize /\ Len(buffer[w]) \in Nat /\ buffer[w] \in Seq(Units)
  BY TypesFacts, UnitTypes DEF FinishOk, FinishFails, Rename, RenameClosed, Crash, ToFile
<1>2. failures' \in [Savers -> Nat]
  BY FailureTypes DEF FinishOk, FinishFails, Rename, Crash
<1>3. made' \in [Savers -> 0..Length] /\ result' \in [Savers -> {"none", "ok", "error", "crashed"}]
  BY <1>1, TypesFacts DEF FinishOk, FinishFails, Rename, Crash
<1>4. CASE FinishOk(w) \/ FinishFails(w)
  <2>1. \E to \in {"closed", "dropped", "idle"} : pc' = [pc EXCEPT ![w] = to]
    BY <1>4 DEF FinishOk, FinishFails, Goes
  <2>2. Kept(w, Len(buffer[w]))
    <3>1. CASE Flushed(w, buffer[w]) \/ FlushFails(w, buffer[w])
      BY <1>1, <3>1, FlushKeeps
    <3>2. CASE UNCHANGED <<files, handle, buffer, heard>>
      BY <1>1, <3>2, TypesFacts DEF Kept
    <3> QED BY <1>4, <3>1, <3>2 DEF FinishOk, FinishFails
  <2>3. names' = names
    BY <1>4 DEF FinishOk, FinishFails
  <2> QED BY <1>1, <1>2, <1>3, <2>1, <2>2, <2>3, KeptTypes
<1>5. CASE Rename(w)
  <2>1. /\ pc' = [pc EXCEPT ![w] = "idle"] /\ UNCHANGED <<buffer, handle, files, heard>>
        /\ (names' = names \/ (names.temp # NoFile /\ names' = [temp |-> NoFile, target |-> names.temp]))
    BY <1>5 DEF Rename, Goes
  <2>2. names' \in [temp : Nat, target : Nat] /\ names'.temp \in 0..Len(files) /\ names'.target \in 1..Len(files)
    BY <2>1, TypesFacts DEF NoFile
  <2>3. pc' \in [Savers -> {"idle", "writing", "dropping", "dropped", "closed"}]
        /\ \A v \in Savers : pc'[v] # "idle" => pc'[v] = pc[v]
    BY <2>1, TypesFacts
  <2> QED BY <1>1, <1>2, <1>3, <2>1, <2>2, <2>3, TypesFacts, TypesIntro
<1>6. CASE Crash(w)
  <2>1. /\ pc' = [pc EXCEPT ![w] = "idle"] /\ UNCHANGED <<handle, files, heard, names>>
        /\ buffer' = [buffer EXCEPT ![w] = <<>>]
    BY <1>6 DEF Crash, Goes
  <2>2. <<>> \in Seq(Units) /\ Len(<<>>) = 0
    OBVIOUS
  <2>3. Kept(w, 0)
    BY <2>1, <2>2, TypesFacts DEF Kept
  <2>4. names' = names /\ 0 <= BufferSize
    BY <2>1, TypesFacts
  <2> QED BY <1>1, <1>2, <1>3, <2>1, <2>3, <2>4, KeptTypes
<1> QED BY <1>4, <1>5, <1>6

LEMMA StepTypes == Types /\ [Next]_svars => Types'
<1> SUFFICES ASSUME Types, [Next]_svars PROVE Types'
  OBVIOUS
<1>1. CASE Next
  BY <1>1, StartTypes, WriteTypes, DropTypes, EndTypes DEF Next
<1>2. CASE UNCHANGED svars
  BY <1>2 DEF svars, Types, TypeOK, ToFile
<1> QED BY <1>1, <1>2

LEMMA InitTypes == Init => Types
<1> SUFFICES ASSUME Init PROVE Types
  OBVIOUS
<1>1. <<>> \in Seq(Units) /\ <<>> \in Seq(Seq(Units)) /\ Len(<<>>) = 0
  OBVIOUS
<1>2. files \in Seq(Seq(Units)) /\ Len(files) = 1
  BY DEF Init, Units
<1>3. buffer = [w \in Savers |-> <<>>] /\ heard = [w \in Savers |-> <<>>]
  BY DEF Init
<1>4. /\ buffer \in [Savers -> Seq(Units)] /\ heard \in [Savers -> Seq(Seq(Units))]
      /\ \A w \in Savers : Len(buffer[w]) = 0
  BY <1>1, <1>3
<1>5. /\ names \in [temp : Nat, target : Nat] /\ names.temp = 0 /\ names.target = 1
      /\ handle \in [Savers -> [file : Nat, at : Nat]]
  BY DEF Init, NoFile
<1>6. /\ pc \in [Savers -> {"idle", "writing", "dropping", "dropped", "closed"}]
      /\ sink \in [Savers -> Sinks] /\ round \in [Savers -> 0..Rounds] /\ made \in [Savers -> 0..Length]
      /\ result \in [Savers -> {"none", "ok", "error", "crashed"}] /\ failures \in [Savers -> Nat]
      /\ \A w \in Savers : pc[w] = "idle"
  BY SinkAssumption DEF Init
<1> QED BY <1>2, <1>4, <1>5, <1>6, SinkAssumption DEF Types, TypeOK

(* Whatever the savers do, the temporary name and the target stand for files*)
(* there are, and no buffer holds more than its capacity.                   *)
THEOREM SaveTypes == Spec => []TypeOK
<1>1. Types => TypeOK
  BY DEF Types
<1> QED BY <1>1, InitTypes, StepTypes, PTL DEF Spec
-----------------------------------------------------------------------------
(* Of the natural numbers there are in a set, one is the least.             *)
LEMMA Least ==
  ASSUME NEW T \in SUBSET Nat, T # {}
  PROVE \E x \in T : \A y \in T : x <= y
<1> DEFINE U == {1..n : n \in T}
<1>1. IsWellFoundedOn(StrictSubsetOrdering(Nat), FiniteSubsetsOf(Nat))
  BY FS_StrictSubsetOrderingWellFounded
<1>2. U \subseteq FiniteSubsetsOf(Nat) /\ U # {}
  <2>1. ASSUME NEW n \in T PROVE IsFiniteSet(1..n) /\ 1..n \in SUBSET Nat
    BY FS_Interval
  <2> QED BY <2>1 DEF FiniteSubsetsOf
<1>3. PICK m \in U : \A u \in U : <<u, m>> \notin StrictSubsetOrdering(Nat)
  <2> HIDE DEF U
  <2> QED BY <1>1, <1>2, WFMin
<1>4. PICK x \in T : m = 1..x
  OBVIOUS
<1>5. ASSUME NEW y \in T PROVE x <= y
  <2>1. 1..y \in SUBSET Nat /\ 1..x \in SUBSET Nat
    OBVIOUS
  <2>2. ~(1..y \subseteq 1..x /\ 1..y # 1..x)
    BY <1>3, <1>4, <2>1 DEF StrictSubsetOrdering
  <2>3. SUFFICES ASSUME y < x PROVE FALSE
    OBVIOUS
  <2>4. x \in 1..x /\ x \notin 1..y
    BY <2>3
  <2> QED BY <2>2, <2>3, <2>4
<1> QED BY <1>5

(* s is the stretch of the stream of w's save r that follows its first from *)
(* units; h and then b are its first m units, in pieces.                    *)
Piece(s, w, r, from) == \A i \in 1..Len(s) : s[i] = <<w, r, from + i>>
Starts(h, o, w, r) ==
  /\ o \in [0..Len(h) -> Nat] /\ o[0] = 0
  /\ \A k \in 1..Len(h) : o[k] = o[k - 1] + Len(h[k]) /\ Piece(h[k], w, r, o[k - 1])
InPieces(h, b, w, r, m) ==
  \E o : Starts(h, o, w, r) /\ o[Len(h)] + Len(b) = m /\ Piece(b, w, r, o[Len(h)])

LEMMA NoPieces == ASSUME NEW w, NEW r PROVE InPieces(<<>>, <<>>, w, r, 0)
<1> DEFINE o == [k \in 0..0 |-> 0]
<1>1. Len(<<>>) = 0 /\ 0..Len(<<>>) = 0..0 /\ 1..Len(<<>>) = {}
  OBVIOUS
<1>2. o \in [0..0 -> Nat] /\ o[0] = 0
  OBVIOUS
<1> HIDE DEF o
<1>3. Starts(<<>>, o, w, r)
  BY <1>1, <1>2 DEF Starts
<1>4. Piece(<<>>, w, r, o[0])
  BY <1>1 DEF Piece
<1> QED BY <1>1, <1>2, <1>3, <1>4 DEF InPieces

LEMMA OneMore ==
  ASSUME NEW h \in Seq(Seq(Units)), NEW b \in Seq(Units), NEW w, NEW r, NEW m \in Nat, <<w, r, m + 1>> \in Units,
         InPieces(h, b, w, r, m)
  PROVE  InPieces(h, Append(b, <<w, r, m + 1>>), w, r, m + 1)
<1>1. PICK o : Starts(h, o, w, r) /\ o[Len(h)] + Len(b) = m /\ Piece(b, w, r, o[Len(h)])
  BY DEF InPieces
<1> DEFINE c == Append(b, <<w, r, m + 1>>)
<1>2. Len(c) = Len(b) + 1 /\ c[Len(b) + 1] = <<w, r, m + 1>> /\ \A i \in 1..Len(b) : c[i] = b[i]
  BY AppendProperties
<1>3. Len(h) \in Nat /\ Len(b) \in Nat /\ o[Len(h)] \in Nat
  BY <1>1 DEF Starts
<1> HIDE DEF c
<1>4. o[Len(h)] + Len(c) = m + 1 /\ o[Len(h)] + (Len(b) + 1) = m + 1
  BY <1>1, <1>2, <1>3
<1>5. Piece(c, w, r, o[Len(h)])
  <2> SUFFICES ASSUME NEW i \in 1..Len(c) PROVE c[i] = <<w, r, o[Len(h)] + i>>
    BY DEF Piece
  <2>1. CASE i \in 1..Len(b)
    BY <1>1, <1>2, <2>1 DEF Piece
  <2>2. CASE i = Len(b) + 1
    BY <1>2, <1>4, <2>2
  <2>3. i \in 1..Len(b) \/ i = Len(b) + 1
    BY <1>2, <1>3
  <2> QED BY <2>1, <2>2, <2>3
<1> QED BY <1>1, <1>4, <1>5 DEF InPieces, c

LEMMA HandOver ==
  ASSUME NEW h \in Seq(Seq(Units)), NEW b \in Seq(Units), NEW w, NEW r, NEW m \in Nat, InPieces(h, b, w, r, m)
  PROVE  InPieces(Append(h, b), <<>>, w, r, m)
<1>1. PICK o : Starts(h, o, w, r) /\ o[Len(h)] + Len(b) = m /\ Piece(b, w, r, o[Len(h)])
  BY DEF InPieces
<1> DEFINE g == Append(h, b)
           n == Len(h)
           p == [k \in 0..(n + 1) |-> IF k <= n THEN o[k] ELSE m]
<1>2. Len(g) = n + 1 /\ g[n + 1] = b /\ \A i \in 1..n : g[i] = h[i]
  BY AppendProperties
<1>3. n \in Nat /\ o \in [0..n -> Nat] /\ o[0] = 0 /\ Len(<<>>) = 0 /\ Len(b) \in Nat
  BY <1>1 DEF Starts
<1>4. /\ p \in [0..(n + 1) -> Nat] /\ p[n + 1] = m /\ \A k \in 0..n : p[k] = o[k]
  BY <1>3
<1>5. p[0] = 0 /\ (n + 1) - 1 = n /\ p[n] = o[n]
  BY <1>3, <1>4
<1> HIDE DEF g, p
<1>6. ASSUME NEW k \in 1..(n + 1) PROVE p[k] = p[k - 1] + Len(g[k]) /\ Piece(g[k], w, r, p[k - 1])
  <2>1. CASE k = n + 1
    BY <1>1, <1>2, <1>4, <1>5, <2>1
  <2>2. CASE k \in 1..n
    <3>1. k - 1 \in 0..n /\ k \in 0..n
      BY <1>3, <2>2
    <3>2. o[k] = o[k - 1] + Len(h[k]) /\ Piece(h[k], w, r, o[k - 1])
      BY <1>1, <2>2 DEF Starts
    <3> QED BY <1>2, <1>4, <2>2, <3>1, <3>2
  <2> QED BY <1>3, <2>1, <2>2
<1>7. Starts(g, p, w, r)
  BY <1>2, <1>4, <1>5, <1>6 DEF Starts
<1>8. Piece(<<>>, w, r, p[n + 1])
  BY DEF Piece
<1>9. p[Len(g)] + Len(<<>>) = m /\ Piece(<<>>, w, r, p[Len(g)])
  BY <1>2, <1>3, <1>4, <1>8
<1>10. InPieces(g, <<>>, w, r, m)
  BY <1>7, <1>9 DEF InPieces
<1> QED BY <1>10 DEF g

(* What the callback was called with in such pieces is the whole stream.    *)
LEMMA Together ==
  ASSUME Types, NEW w \in Savers, ~ToFile(w), InPieces(heard[w], <<>>, w, round[w], Length)
  PROVE  Received(w) = Stream(w, round[w])
<1> DEFINE h == heard[w]
           n == Len(h)
           D == 0..n
           P(j) == j = [k \in D |-> IF k = 0 THEN <<>> ELSE j[k - 1] \o h[k]]
           joined == CHOOSE j : P(j)
<1>1. Received(w) = joined[n]
  BY DEF Received
<1>2. PICK o : Starts(h, o, w, round[w]) /\ o[n] + Len(<<>>) = Length
  BY DEF InPieces
<1>3. h \in Seq(Seq(Units)) /\ n \in Nat /\ n = Len(h)
  BY TypesFacts
<1> DEFINE u(i) == <<w, round[w], i>>
           f == [k \in D |-> [i \in 1..o[k] |-> u(i)]]
<1>4. \A i \in Nat : u(i) \in Units
  BY TypesFacts DEF Units
<1> HIDE DEF h, n, joined
<1>5. o \in [D -> Nat] /\ o[0] = 0 /\ \A k \in 1..n : o[k] = o[k - 1] + Len(h[k]) /\ Piece(h[k], w, round[w], o[k - 1])
  BY <1>2 DEF Starts, n
<1>6. P(f)
  <2>1. f[0] = <<>>
    BY <1>3, <1>5
  <2>2. ASSUME NEW k \in 1..n PROVE f[k] = f[k - 1] \o h[k]
    <3>1. k - 1 \in D /\ k \in D /\ h[k] \in Seq(Units)
      BY <1>3
    <3>2. o[k - 1] \in Nat /\ o[k] \in Nat /\ Len(h[k]) \in Nat /\ o[k] = o[k - 1] + Len(h[k])
      BY <1>5, <3>1
    <3> DEFINE a == f[k - 1]
               c == f[k]
    <3>3. a = [i \in 1..o[k - 1] |-> u(i)] /\ c = [i \in 1..o[k] |-> u(i)]
      BY <3>1
    <3>4. a \in Seq(Units) /\ Len(a) = o[k - 1] /\ c \in Seq(Units) /\ Len(c) = o[k]
      <4> HIDE DEF a, c, u
      <4>1. ASSUME NEW m \in Nat PROVE [i \in 1..m |-> u(i)] \in Seq(Units) /\ Len([i \in 1..m |-> u(i)]) = m
        <5>1. \A i \in 1..m : u(i) \in Units
          BY <1>4
        <5> QED BY <5>1
      <4> QED BY <3>2, <3>3, <4>1
    <3>5. \A i \in 1..o[k] : c[i] = (a \o h[k])[i]
      <4> TAKE i \in 1..o[k]
      <4>1. c[i] = u(i)
        BY <3>3
      <4>2. CASE i <= o[k - 1]
        <5>1. (a \o h[k])[i] = a[i] /\ a[i] = u(i)
          <6> HIDE DEF a, c, u
          <6>1. i \in 1..o[k - 1]
            BY <3>2, <4>2
          <6>3. a[i] = u(i)
            BY <3>3, <6>1
          <6>2. i \in 1..Len(a) + Len(h[k]) /\ i <= Len(a)
            BY <3>2, <3>4, <4>2
          <6> QED BY <3>1, <3>4, <6>2, <6>3, ConcatProperties
        <5> QED BY <4>1, <5>1
      <4>3. CASE i > o[k - 1]
        <5>1. i - o[k - 1] \in 1..Len(h[k]) /\ o[k - 1] + (i - o[k - 1]) = i
          BY <3>2, <4>3
        <5>2. (a \o h[k])[i] = h[k][i - o[k - 1]]
          <6> HIDE DEF a, c, u
          <6>1. i \in 1..Len(a) + Len(h[k]) /\ ~(i <= Len(a)) /\ i - Len(a) = i - o[k - 1]
            BY <3>2, <3>4, <4>3
          <6> QED BY <3>1, <3>4, <6>1, ConcatProperties
        <5>3. h[k][i - o[k - 1]] = u(i)
          BY <1>5, <5>1 DEF Piece
        <5> QED BY <4>1, <5>2, <5>3
      <4>4. i <= o[k - 1] \/ i > o[k - 1]
        BY <3>2
      <4> QED BY <4>2, <4>3, <4>4
    <3>6. a \o h[k] \in Seq(Units) /\ Len(a \o h[k]) = o[k]
      <4> HIDE DEF a, c
      <4>1. a \o h[k] \in Seq(Units) /\ Len(a \o h[k]) = Len(a) + Len(h[k])
        BY <3>1, <3>4, ConcatProperties
      <4> QED BY <3>2, <3>4, <4>1
    <3>7. c = a \o h[k]
      <4> HIDE DEF a, c
      <4> QED BY <3>4, <3>5, <3>6, SeqEqual
    <3> QED BY <3>7
  <2> DEFINE g == [k \in D |-> IF k = 0 THEN <<>> ELSE f[k - 1] \o h[k]]
  <2>3. \A k \in D : f[k] = g[k]
    <3> TAKE k \in D
    <3>1. k = 0 \/ k \in 1..n
      BY <1>3
    <3> HIDE DEF f
    <3> QED BY <2>1, <2>2, <3>1
  <2>4. f = g
    BY <2>3
  <2> QED BY <2>4
<1> HIDE DEF f
<1>7. P(joined)
  <2> HIDE DEF P
  <2> QED BY <1>6 DEF joined
<1>8. \A k \in D : joined[k] = f[k]
  <2> DEFINE T == {k \in D : joined[k] # f[k]}
  <2>1. SUFFICES ASSUME T # {} PROVE FALSE
    OBVIOUS
  <2>2. T \in SUBSET Nat
    BY <1>3
  <2>3. PICK x \in T : \A y \in T : x <= y
    <3> HIDE DEF T
    <3> QED BY <2>1, <2>2, Least
  <2>4. x # 0 /\ x \in D
    BY <1>3, <1>6, <1>7, <2>3
  <2>5. x - 1 \in D /\ ~(x <= x - 1)
    BY <1>3, <2>4
  <2>6. joined[x - 1] = f[x - 1]
    BY <2>3, <2>5
  <2>7. joined[x] = joined[x - 1] \o h[x] /\ f[x] = f[x - 1] \o h[x]
    BY <1>6, <1>7, <2>4
  <2> QED BY <2>3, <2>6, <2>7
<1>9. f[n] = [i \in 1..o[n] |-> u(i)] /\ o[n] = Length /\ n \in D
  <2>1. n \in D
    BY <1>3
  <2>2. o[n] \in Nat /\ Len(<<>>) = 0
    BY <1>5, <2>1
  <2>3. f[n] = [i \in 1..o[n] |-> u(i)]
    <3> HIDE DEF u
    <3> QED BY <2>1 DEF f
  <2> QED BY <1>2, <2>1, <2>2, <2>3, TypesFacts
<1> QED BY <1>1, <1>8, <1>9 DEF Stream
-----------------------------------------------------------------------------
(* A save to a callback: while it writes, what the callback got and what is *)
(* buffered are the stream so far, in pieces.                               *)
CallOK(w) ==
  /\ pc[w] # "idle" => result[w] # "ok"
  /\ pc[w] = "writing" => failures[w] = 0 /\ InPieces(heard[w], buffer[w], w, round[w], made[w])
  /\ result[w] = "ok" => failures[w] = 0 /\ InPieces(heard[w], <<>>, w, round[w], Length)

Step(w) ==
  \/ Start(w) \/ WriteUnit(w) \/ WriteFails(w) \/ DropEncoder(w) \/ DropSink(w)
  \/ FinishOk(w) \/ FinishFails(w) \/ Rename(w) \/ Crash(w)

(* What a saver hands on leaves the buffers and places of the others alone. *)
Alone(w) == \A v \in Savers : v # w =>
  buffer'[v] = buffer[v] /\ heard'[v] = heard[v] /\ handle'[v] = handle[v]

LEMMA TakesAlone ==
  ASSUME Types, NEW w \in Savers, NEW b,
         Flushed(w, b) \/ FlushFails(w, b)
  PROVE  Alone(w)
<1>1. /\ buffer \in [Savers -> Seq(Units)] /\ heard \in [Savers -> Seq(Seq(Units))]
      /\ handle \in [Savers -> [file : Nat, at : Nat]]
  BY TypesFacts
<1>2. ASSUME NEW n, FileTakes(w, b, n) PROVE Alone(w)
  <2>1. ASSUME NEW v \in Savers, v # w PROVE handle'[v] = handle[v]
    BY <1>1, <1>2, <2>1 DEF FileTakes
  <2>2. ASSUME NEW v \in Savers, v # w PROVE buffer'[v] = buffer[v] /\ heard' = heard
    BY <1>1, <1>2, <2>2 DEF FileTakes
  <2> QED BY <2>1, <2>2 DEF Alone
<1>3. ASSUME NEW throws, NEW used, CallbackTakes(w, b, throws, used) PROVE Alone(w)
  <2>1. ASSUME NEW v \in Savers, v # w PROVE heard'[v] = heard[v] /\ handle' = handle
    BY <1>1, <1>3, <2>1 DEF CallbackTakes
  <2>2. ASSUME NEW v \in Savers, v # w PROVE buffer'[v] = buffer[v]
    BY <1>1, <1>3, <2>2 DEF CallbackTakes
  <2> QED BY <2>1, <2>2 DEF Alone
<1>4. CASE Flushed(w, b)
  BY <1>2, <1>3, <1>4 DEF Flushed
<1>5. CASE FlushFails(w, b)
  BY <1>2, <1>3, <1>5 DEF FlushFails
<1> QED BY <1>4, <1>5

LEMMA OthersKeep ==
  ASSUME Types, NEW w \in Savers, Step(w)
  PROVE  /\ sink' = sink
         /\ \A v \in Savers : v # w =>
              /\ pc'[v] = pc[v] /\ made'[v] = made[v] /\ round'[v] = round[v]
              /\ failures'[v] = failures[v] /\ result'[v] = result[v]
              /\ buffer'[v] = buffer[v] /\ heard'[v] = heard[v] /\ handle'[v] = handle[v]
<1>0. /\ pc \in [Savers -> {"idle", "writing", "dropping", "dropped", "closed"}]
      /\ round \in [Savers -> 0..Rounds] /\ made \in [Savers -> 0..Length]
      /\ result \in [Savers -> {"none", "ok", "error", "crashed"}] /\ failures \in [Savers -> Nat]
      /\ buffer \in [Savers -> Seq(Units)] /\ heard \in [Savers -> Seq(Seq(Units))]
      /\ handle \in [Savers -> [file : Nat, at : Nat]]
  BY TypesFacts
<1> DEFINE Same == \A v \in Savers : v # w =>
             /\ pc'[v] = pc[v] /\ made'[v] = made[v] /\ round'[v] = round[v]
             /\ failures'[v] = failures[v] /\ result'[v] = result[v]
<1>1. CASE Start(w)
  <2>1. Same /\ sink' = sink
    BY <1>0, <1>1 DEF Start, Goes
  <2>2. Alone(w)
    BY <1>0, <1>1 DEF Start, Alone
  <2> QED BY <2>1, <2>2 DEF Alone
<1>2. CASE WriteUnit(w)
  <2>1. Same /\ sink' = sink
    BY <1>0, <1>2 DEF WriteUnit
  <2> DEFINE b == Append(buffer[w], Unit(w))
             at == handle[w].at + Len(buffer[w])
             u == <<Unit(w)>>
  <2>2. \/ Flushed(w, b)
        \/ handle' = [handle EXCEPT ![w].at = at] /\ buffer' = [buffer EXCEPT ![w] = u] /\ heard' = heard
        \/ buffer' = [buffer EXCEPT ![w] = b] /\ UNCHANGED <<handle, heard>>
    BY <1>2 DEF WriteUnit
  <2> HIDE DEF b, at, u
  <2>3. Alone(w)
    BY <1>0, <2>2, TakesAlone DEF Alone
  <2> QED BY <2>1, <2>3 DEF Alone
<1>3. CASE WriteFails(w)
  <2>1. Same /\ sink' = sink
    BY <1>0, <1>3 DEF WriteFails, FlushFails, Goes
  <2>2. Alone(w)
    BY <1>3, TakesAlone DEF WriteFails
  <2> QED BY <2>1, <2>2 DEF Alone
<1>4. CASE DropEncoder(w)
  <2>1. Same /\ sink' = sink
    BY <1>0, <1>4 DEF DropEncoder, FlushFails, Goes
  <2>2. CASE FlushFails(w, buffer[w])
    BY <2>1, <2>2, TakesAlone DEF Alone
  <2>3. CASE ~FlushFails(w, buffer[w])
    <3>1. Alone(w)
      BY <1>0, <1>4, <2>3 DEF DropEncoder, Alone
    <3> QED BY <2>1, <3>1 DEF Alone
  <2> QED BY <2>2, <2>3
<1>5. CASE DropSink(w)
  <2>1. Same /\ sink' = sink
    BY <1>0, <1>5 DEF DropSink, FlushFails, Goes
  <2>2. Alone(w)
    BY <1>5, TakesAlone DEF DropSink, Alone
  <2> QED BY <2>1, <2>2 DEF Alone
<1>6. CASE FinishOk(w)
  <2>1. Same /\ sink' = sink
    BY <1>0, <1>6 DEF FinishOk, Goes
  <2>2. Alone(w)
    BY <1>6, TakesAlone DEF FinishOk, Alone
  <2> QED BY <2>1, <2>2 DEF Alone
<1>7. CASE FinishFails(w)
  <2>1. Same /\ sink' = sink
    BY <1>0, <1>7 DEF FinishFails, FlushFails, Goes
  <2>2. Alone(w)
    BY <1>7, TakesAlone DEF FinishFails
  <2> QED BY <2>1, <2>2 DEF Alone
<1>8. CASE Rename(w)
  BY <1>0, <1>8 DEF Rename, Goes
<1>9. CASE Crash(w)
  BY <1>0, <1>9 DEF Crash, Goes
<1> QED BY <1>1, <1>2, <1>3, <1>4, <1>5, <1>6, <1>7, <1>8, <1>9 DEF Step

LEMMA CallStep ==
  ASSUME Types, NEW w \in Savers, ~ToFile(w), CallOK(w), Step(w)
  PROVE  CallOK(w)' /\ UNCHANGED <<files, names>>
<1>1. /\ heard[w] \in Seq(Seq(Units)) /\ buffer[w] \in Seq(Units) /\ made[w] \in Nat /\ round[w] \in Nat
      /\ Unit(w) = <<w, round[w], made[w] + 1>> /\ Unit(w) \in Units
      /\ Append(buffer[w], Unit(w)) \in Seq(Units)
  BY TypesFacts, UnitTypes DEF Unit
<1>2. CASE Start(w)
  <2>1. /\ pc'[w] = "writing" /\ made'[w] = 0 /\ buffer'[w] = <<>> /\ heard'[w] = <<>>
        /\ failures'[w] = 0 /\ result'[w] = "none" /\ UNCHANGED <<files, names>>
    BY <1>2, TypesFacts DEF Start, Goes
  <2> QED BY <2>1, NoPieces DEF CallOK
<1>3. CASE WriteUnit(w)
  <2> DEFINE b == Append(buffer[w], Unit(w))
  <2>1. /\ pc[w] = "writing" /\ UNCHANGED <<pc, round, names, failures, result>> /\ made'[w] = made[w] + 1
        /\ \/ heard' = [heard EXCEPT ![w] = Append(heard[w], b)] /\ buffer' = [buffer EXCEPT ![w] = <<>>]
           \/ heard' = heard /\ buffer' = [buffer EXCEPT ![w] = b]
        /\ files' = files
    BY <1>3, TypesFacts DEF WriteUnit, Flushed, CallbackTakes
  <2>2. /\ \/ heard'[w] = Append(heard[w], b) /\ buffer'[w] = <<>>
           \/ heard'[w] = heard[w] /\ buffer'[w] = b
        /\ result'[w] # "ok" /\ failures'[w] = 0 /\ round'[w] = round[w] /\ made[w] + 1 \in Nat
    <3>1. heard[w] \in Seq(Seq(Units)) /\ result[w] # "ok" /\ failures[w] = 0
      BY <1>1, <2>1 DEF CallOK
    <3> HIDE DEF b
    <3>2. \/ heard'[w] = Append(heard[w], b) /\ buffer'[w] = <<>>
          \/ heard'[w] = heard[w] /\ buffer'[w] = b
      <4>1. heard \in [Savers -> Seq(Seq(Units))] /\ buffer \in [Savers -> Seq(Units)]
        BY HeldTypes
      <4> QED BY <2>1, <4>1
    <3> QED BY <1>1, <2>1, <3>1, <3>2
  <2>3. InPieces(heard[w], b, w, round[w], made[w] + 1)
    BY <1>1, <2>1, OneMore DEF CallOK
  <2> HIDE DEF b
  <2>4. b \in Seq(Units)
    BY <1>1 DEF b
  <2>5. InPieces(heard'[w], buffer'[w], w, round[w], made[w] + 1)
    BY <1>1, <2>2, <2>3, <2>4, HandOver
  <2> QED BY <2>1, <2>2, <2>5 DEF CallOK
<1>4. CASE WriteFails(w)
  <2>1. /\ pc[w] = "writing" /\ pc'[w] = "dropping" /\ result' = result /\ names' = names /\ files' = files
    BY <1>4, TypesFacts DEF WriteFails, Goes, AfterError, FlushFails, CallbackTakes
  <2> QED BY <2>1 DEF CallOK
<1>5. CASE DropEncoder(w)
  <2>1. /\ pc[w] = "dropping" /\ pc'[w] = "dropped" /\ result' = result /\ names' = names /\ files' = files
    BY <1>5, TypesFacts DEF DropEncoder, Goes, FlushFails, CallbackTakes
  <2> QED BY <2>1 DEF CallOK
<1>6. CASE DropSink(w)
  <2>1. /\ pc'[w] = "idle" /\ result'[w] = "error" /\ names' = names /\ files' = files
    BY <1>6, TypesFacts DEF DropSink, Goes, FlushFails, Flushed, CallbackTakes
  <2> QED BY <2>1 DEF CallOK
<1>7. CASE FinishOk(w)
  <2>1. /\ pc[w] = "writing" /\ made[w] = Length /\ pc'[w] = "idle" /\ UNCHANGED <<round, names, failures, files>>
        /\ \/ heard' = [heard EXCEPT ![w] = Append(heard[w], buffer[w])]
           \/ heard' = heard /\ buffer[w] = <<>>
    BY <1>7, TypesFacts DEF FinishOk, Goes, Flushed, CallbackTakes
  <2>2. InPieces(heard[w], buffer[w], w, round[w], Length) /\ failures[w] = 0
    BY <2>1 DEF CallOK
  <2>3. heard'[w] = Append(heard[w], buffer[w]) \/ (heard'[w] = heard[w] /\ buffer[w] = <<>>)
    BY <2>1, TypesFacts
  <2>4. InPieces(heard'[w], <<>>, w, round[w], Length)
    <3>1. CASE heard'[w] = heard[w] /\ buffer[w] = <<>>
      BY <2>2, <3>1
    <3>2. CASE heard'[w] = Append(heard[w], buffer[w])
      <4>1. Length \in Nat
        BY TypesFacts
      <4> QED BY <1>1, <2>2, <3>2, <4>1, HandOver
    <3> QED BY <2>3, <3>1, <3>2
  <2> QED BY <2>1, <2>2, <2>4 DEF CallOK
<1>8. CASE FinishFails(w)
  <2>1. /\ pc[w] = "writing" /\ pc'[w] = "dropped" /\ result' = result /\ names' = names /\ files' = files
    BY <1>8, TypesFacts DEF FinishFails, Goes, FlushFails, CallbackTakes
  <2> QED BY <2>1 DEF CallOK
<1>9. ~Rename(w) /\ ~Crash(w)
  BY DEF Rename, Crash
<1> QED BY <1>2, <1>3, <1>4, <1>5, <1>6, <1>7, <1>8, <1>9 DEF Step
-----------------------------------------------------------------------------
(* One saver writes the file: its temporary file holds the stream so far,   *)
(* and in the end all of it, or all but the end it lost in the last flush.  *)
OneFileSaver == \A v, w \in Savers : ToFile(v) /\ ToFile(w) => v = w

File(w) == files[handle[w].file]
FileOK(w) ==
  /\ pc[w] # "idle" => /\ names.temp # NoFile /\ handle[w].file = names.temp
                       /\ round[w] >= 1 /\ result[w] # "ok"
  /\ pc[w] = "writing" => /\ failures[w] = 0 /\ handle[w].at = Len(File(w))
                          /\ Len(File(w)) + Len(buffer[w]) = made[w]
                          /\ Piece(File(w), w, round[w], 0)
                          /\ Piece(buffer[w], w, round[w], Len(File(w)))
  /\ pc[w] = "closed" => Delivered(w, File(w)) \/ LostItsEnd(w, File(w))
  /\ result[w] = "ok" => Delivered(w, Target) \/ LostItsEnd(w, Target)

LEMMA JoinPieces ==
  ASSUME NEW f \in Seq(Units), NEW b \in Seq(Units), NEW w, NEW r,
         Piece(f, w, r, 0), Piece(b, w, r, Len(f))
  PROVE  Piece(f \o b, w, r, 0) /\ Len(f \o b) = Len(f) + Len(b) /\ f \o b \in Seq(Units)
<1>1. Len(f \o b) = Len(f) + Len(b) /\ f \o b \in Seq(Units) /\ Len(f) \in Nat /\ Len(b) \in Nat
  OBVIOUS
<1>2. ASSUME NEW i \in 1..Len(f \o b) PROVE (f \o b)[i] = <<w, r, 0 + i>>
  <2>1. i \in Nat /\ 0 + i = i
    BY <1>1
  <2>2. CASE i <= Len(f)
    <3>1. (f \o b)[i] = f[i] /\ i \in 1..Len(f)
      BY <1>1, <2>2
    <3> QED BY <3>1 DEF Piece
  <2>3. CASE i > Len(f)
    <3>1. i - Len(f) \in 1..Len(b) /\ Len(f) + (i - Len(f)) = i
      BY <1>1, <2>3
    <3>2. (f \o b)[i] = b[i - Len(f)]
      BY <1>1, <2>3, <3>1
    <3>3. b[i - Len(f)] = <<w, r, i>>
      BY <3>1 DEF Piece
    <3> QED BY <2>1, <3>2, <3>3
  <2> QED BY <1>1, <2>1, <2>2, <2>3
<1> QED BY <1>1, <1>2 DEF Piece

LEMMA WholePiece ==
  ASSUME Types, NEW f \in Seq(Units), NEW w \in Savers, Piece(f, w, round[w], 0), Len(f) = Length
  PROVE  f = Stream(w, round[w])
<1>1. \A i \in 1..Length : f[i] = <<w, round[w], i>>
  <2> TAKE i \in 1..Length
  <2>1. 0 + i = i
    BY TypesFacts
  <2>2. f[i] = <<w, round[w], 0 + i>>
    BY DEF Piece
  <2> QED BY <2>1, <2>2
<1>2. f = [i \in 1..Length |-> f[i]]
  OBVIOUS
<1> QED BY <1>1, <1>2 DEF Stream

LEMMA NextPiece ==
  ASSUME NEW b \in Seq(Units), NEW w, NEW r, NEW from \in Nat, NEW u \in Units,
         Piece(b, w, r, from), u = <<w, r, (from + Len(b)) + 1>>
  PROVE  Piece(Append(b, u), w, r, from) /\ Len(Append(b, u)) = Len(b) + 1
<1> DEFINE c == Append(b, u)
<1>1. Len(c) = Len(b) + 1 /\ c[Len(b) + 1] = u /\ (\A i \in 1..Len(b) : c[i] = b[i]) /\ Len(b) \in Nat
  BY AppendProperties
<1> HIDE DEF c
<1>2. from + (Len(b) + 1) = (from + Len(b)) + 1
  BY <1>1
<1>3. ASSUME NEW i \in 1..Len(c) PROVE c[i] = <<w, r, from + i>>
  <2>1. CASE i \in 1..Len(b)
    BY <1>1, <2>1 DEF Piece
  <2>2. CASE i = Len(b) + 1
    BY <1>1, <1>2, <2>2
  <2> QED BY <1>1, <2>1, <2>2
<1>4. Piece(c, w, r, from)
  BY <1>3 DEF Piece
<1> QED BY <1>1, <1>4 DEF c

LEMMA FileType ==
  ASSUME Types, NEW w \in Savers, ToFile(w), pc[w] # "idle"
  PROVE  handle[w].file \in 1..Len(files) /\ File(w) \in Seq(Units) /\ Len(File(w)) \in Nat
<1>1. handle[w].file \in 1..Len(files)
  BY TypesFacts DEF ToFile
<1>2. files[handle[w].file] \in Seq(Units)
  BY <1>1, TypesFacts
<1>3. Len(files[handle[w].file]) \in Nat
  BY <1>2
<1> QED BY <1>1, <1>2, <1>3 DEF File

(* What the saver writes goes to the end of its own file.                   *)
LEMMA OwnFile ==
  ASSUME Types, NEW w \in Savers, ToFile(w), pc[w] # "idle", FileOK(w), names.temp # names.target,
         NEW s \in Seq(Units), Writes(w, s), names' = names
  PROVE  /\ Target' = Target /\ handle'[w].file = names.temp
         /\ (handle[w].at = Len(File(w)) =>
               File(w)' = File(w) \o s /\ handle'[w].at = Len(File(w)) + Len(s))
<1>1. handle[w].file \in 1..Len(files) /\ handle[w].at \in Nat /\ names.target \in 1..Len(files)
      /\ files[handle[w].file] \in Seq(Units)
  BY TypesFacts DEF ToFile
<1>2. names.temp # NoFile /\ handle[w].file = names.temp
  BY DEF FileOK
<1>3. /\ \A v \in Savers : handle'[v].file = handle[v].file
      /\ handle'[w].at = handle[w].at + Len(s)
      /\ files'[handle[w].file] = Overwritten(files[handle[w].file], handle[w].at, s)
      /\ \A k \in 1..Len(files) : k # handle[w].file => files'[k] = files[k]
  BY <1>1, WritesFacts
<1>4. Target' = Target
  BY <1>1, <1>2, <1>3 DEF Target
<1>5. ASSUME handle[w].at = Len(File(w)) PROVE File(w)' = File(w) \o s
  BY <1>1, <1>3, <1>5, OverwrittenFacts DEF File
<1> QED BY <1>2, <1>3, <1>4, <1>5

LEMMA FileStart ==
  ASSUME Types, NEW w \in Savers, ToFile(w), FileOK(w), names.temp # names.target, Start(w)
  PROVE  FileOK(w)' /\ names'.temp # names'.target /\ Target' = Target
<1>1. /\ pc'[w] = "writing" /\ result'[w] = "none" /\ failures'[w] = 0
      /\ made'[w] = 0 /\ buffer'[w] = <<>> /\ round'[w] = round[w] + 1 /\ round[w] \in Nat
  BY TypesFacts DEF Start, Goes
<1> DEFINE f == IF names.temp = NoFile THEN Len(files) + 1 ELSE names.temp
           n == IF f > Len(files) THEN f ELSE Len(files)
<1>2. /\ files' = [i \in 1..n |-> IF i = f THEN <<>> ELSE files[i]]
      /\ names' = [names EXCEPT !.temp = f]
      /\ handle' = [handle EXCEPT ![w] = [file |-> f, at |-> 0]]
  BY DEF Start
<1>3. /\ f \in 1..n /\ f # NoFile /\ f # names.target /\ names.target \in 1..n
  <2>1. Len(files) \in Nat /\ names.temp \in 0..Len(files) /\ names.target \in 1..Len(files)
    BY TypesFacts
  <2>2. CASE names.temp = 0
    BY <2>1, <2>2 DEF NoFile
  <2>3. CASE names.temp # 0
    BY <2>1, <2>3 DEF NoFile
  <2> QED BY <2>2, <2>3
<1> HIDE DEF f, n
<1>4. names' = [temp |-> f, target |-> names.target] /\ handle'[w] = [file |-> f, at |-> 0]
  BY <1>2, TypesFacts
<1>5. files'[f] = <<>> /\ files'[names.target] = files[names.target]
  BY <1>2, <1>3
<1>6. Target' = Target /\ File(w)' = <<>>
  BY <1>4, <1>5 DEF Target, File
<1>7. Len(<<>>) = 0 /\ 0 + 0 = 0 /\ Piece(<<>>, w, round'[w], 0)
  BY DEF Piece
<1> QED BY <1>1, <1>3, <1>4, <1>6, <1>7 DEF FileOK

LEMMA FileWrites ==
  ASSUME Types, NEW w \in Savers, ToFile(w), FileOK(w), names.temp # names.target, WriteUnit(w)
  PROVE  FileOK(w)' /\ names' = names /\ Target' = Target
<1> DEFINE F == File(w)
           b == buffer[w]
           u == Unit(w)
           r == round[w]
<1>1. /\ pc[w] = "writing" /\ UNCHANGED <<pc, round, names, failures, result>>
      /\ made'[w] = made[w] + 1
  BY TypesFacts DEF WriteUnit
<1>2. /\ failures[w] = 0 /\ handle[w].at = Len(F) /\ Len(F) + Len(b) = made[w]
      /\ Piece(F, w, r, 0) /\ Piece(b, w, r, Len(F)) /\ result[w] # "ok"
      /\ names.temp # NoFile /\ handle[w].file = names.temp /\ r >= 1
  BY <1>1 DEF FileOK
<1>3. /\ F \in Seq(Units) /\ b \in Seq(Units) /\ u \in Units /\ Len(F) \in Nat /\ Len(b) \in Nat /\ made[w] \in Nat
      /\ u = <<w, r, (Len(F) + Len(b)) + 1>> /\ <<u>> \in Seq(Units) /\ Len(<<u>>) = 1
  <2>1. F \in Seq(Units) /\ Len(F) \in Nat
    BY <1>1, FileType
  <2>2. /\ b \in Seq(Units) /\ u \in Units /\ Len(b) \in Nat /\ <<u>> \in Seq(Units) /\ Len(<<u>>) = 1
        /\ made[w] \in Nat
    BY TypesFacts, UnitTypes
  <2>3. u = <<w, r, (Len(F) + Len(b)) + 1>>
    BY <1>2 DEF Unit
  <2> QED BY <2>1, <2>2, <2>3
<1> HIDE DEF F, b, u, r
<1>4. \/ /\ Writes(w, b) /\ buffer'[w] = <<u>>
      \/ buffer'[w] = Append(b, u) /\ UNCHANGED <<files, handle>>
  BY TypesFacts DEF WriteUnit, Writes, b, u
<1>5. CASE Writes(w, b) /\ buffer'[w] = <<u>>
  <2>1. Target' = Target /\ handle'[w].file = names.temp /\ File(w)' = F \o b /\ handle'[w].at = Len(F) + Len(b)
    BY <1>1, <1>2, <1>3, <1>5, OwnFile DEF F
  <2>2. Piece(F \o b, w, r, 0) /\ Len(F \o b) = Len(F) + Len(b)
    BY <1>2, <1>3, JoinPieces
  <2>3. Piece(<<u>>, w, r, Len(F \o b))
    <3>1. \A i \in 1..Len(<<u>>) : i = 1 /\ <<u>>[i] = u
      BY <1>3
    <3>2. u = <<w, r, Len(F \o b) + 1>>
      BY <1>3, <2>2
    <3> QED BY <3>1, <3>2 DEF Piece
  <2>4. FileOK(w)'
    BY <1>1, <1>2, <1>3, <1>5, <2>1, <2>2, <2>3 DEF FileOK, r
  <2> QED BY <1>1, <2>1, <2>4
<1>6. CASE buffer'[w] = Append(b, u) /\ UNCHANGED <<files, handle>>
  <2>1. Piece(Append(b, u), w, r, Len(F)) /\ Len(Append(b, u)) = Len(b) + 1
    BY <1>2, <1>3, NextPiece
  <2>2. File(w)' = F /\ Target' = Target /\ Len(F) + (Len(b) + 1) = made[w] + 1
    <3>1. File(w)' = F /\ Target' = Target
      BY <1>1, <1>6 DEF File, F, Target
    <3>2. Len(F) + (Len(b) + 1) = made[w] + 1
      BY <1>2, <1>3
    <3> QED BY <3>1, <3>2
  <2>3. FileOK(w)'
    BY <1>1, <1>2, <1>6, <2>1, <2>2 DEF FileOK, r
  <2> QED BY <1>1, <2>2, <2>3
<1> QED BY <1>4, <1>5, <1>6

LEMMA FileEnds ==
  ASSUME Types, NEW w \in Savers, ToFile(w), FileOK(w), names.temp # names.target, FinishOk(w)
  PROVE  FileOK(w)' /\ names' = names /\ Target' = Target
<1> DEFINE F == File(w)
           b == buffer[w]
           r == round[w]
<1>1. /\ pc[w] = "writing" /\ UNCHANGED <<round, names, failures, result>>
      /\ made[w] = Length /\ pc'[w] = "closed"
  BY TypesFacts DEF FinishOk, Goes
<1>2. /\ failures[w] = 0 /\ handle[w].at = Len(F) /\ Len(F) + Len(b) = Length
      /\ Piece(F, w, r, 0) /\ Piece(b, w, r, Len(F)) /\ result[w] # "ok"
      /\ names.temp # NoFile /\ handle[w].file = names.temp /\ r >= 1
  BY <1>1 DEF FileOK
<1>3. F \in Seq(Units) /\ b \in Seq(Units) /\ Len(F) \in Nat /\ Len(b) \in Nat
  BY <1>1, FileType, UnitTypes
<1>4. SubSeq(b, 1, Len(b)) = b
  <2> HIDE DEF b
  <2>1. SubSeq(b, 1, Len(b)) \in Seq(Units) /\ Len(SubSeq(b, 1, Len(b))) = Len(b)
        /\ \A i \in 1..Len(b) : SubSeq(b, 1, Len(b))[i] = b[i]
    BY <1>3
  <2> QED BY <1>3, <2>1, SeqEqual
<1>5. Writes(w, b) \/ (b = <<>> /\ UNCHANGED <<files, handle>>)
  BY <1>4 DEF FinishOk, Flushed, FileTakes, Writes
<1>6. Piece(F \o b, w, r, 0) /\ Len(F \o b) = Length /\ F \o b \in Seq(Units)
  <2> HIDE DEF F, b, r
  <2> QED BY <1>2, <1>3, JoinPieces
<1>7. F \o b = Stream(w, r)
  BY <1>6, WholePiece
<1>8. Target' = Target /\ handle'[w].file = names.temp /\ File(w)' = F \o b
  <2>1. CASE Writes(w, b)
    BY <1>1, <1>2, <1>3, <2>1, OwnFile
  <2>2. CASE b = <<>> /\ UNCHANGED <<files, handle>>
    <3>1. F \o <<>> = F
      <4> HIDE DEF F
      <4> QED BY <1>3
    <3>2. File(w)' = F /\ Target' = Target
      BY <1>1, <2>2 DEF File, Target
    <3> QED BY <1>2, <2>2, <3>1, <3>2
  <2> QED BY <1>5, <2>1, <2>2
<1>9. Delivered(w, File(w))'
  BY <1>1, <1>2, <1>7, <1>8 DEF Delivered, Stream
<1> QED BY <1>1, <1>2, <1>8, <1>9 DEF FileOK

(* The last flush fails when the writer is dropped: the file has some of    *)
(* what was in the buffer, and the saver does not know.                     *)
LEMMA FileLosesItsEnd ==
  ASSUME Types, NEW w \in Savers, ToFile(w), FileOK(w), names.temp # names.target, FinishFails(w)
  PROVE  FileOK(w)' /\ names' = names /\ Target' = Target
<1> DEFINE F == File(w)
           b == buffer[w]
           r == round[w]
<1>1. /\ pc[w] = "writing" /\ UNCHANGED <<sink, round, made, names, result>> /\ LateErrors
      /\ made[w] = Length /\ pc'[w] = "closed" /\ FlushFails(w, b)
  BY TypesFacts DEF FinishFails, Goes
<1>2. /\ failures[w] = 0 /\ handle[w].at = Len(F) /\ Len(F) + Len(b) = Length
      /\ Piece(F, w, r, 0) /\ Piece(b, w, r, Len(F)) /\ result[w] # "ok"
      /\ names.temp # NoFile /\ handle[w].file = names.temp /\ r >= 1
  BY <1>1 DEF FileOK
<1>3. /\ F \in Seq(Units) /\ b \in Seq(Units) /\ Len(F) \in Nat /\ Len(b) \in Nat
      /\ Len(b) <= BufferSize /\ BufferSize \in Nat /\ Length \in Nat
  BY <1>1, FileType, TypesFacts, UnitTypes
<1>4. PICK n \in 0..(Len(b) - 1) : FileTakes(w, b, n)
  BY <1>1 DEF FlushFails
<1>5. failures'[w] = 1
  BY <1>1, <1>2, TypesFacts DEF FlushFails
<1> DEFINE s == SubSeq(b, 1, n)
<1>6. s \in Seq(Units) /\ Len(s) = n /\ \A i \in 1..n : s[i] = b[i]
  <2> HIDE DEF b
  <2> QED BY <1>3
<1>7. Writes(w, s)
  BY <1>4, <1>6 DEF FileTakes, Writes
<1>8. Target' = Target /\ handle'[w].file = names.temp /\ File(w)' = F \o s
  BY <1>1, <1>2, <1>6, <1>7, OwnFile
<1>9. Piece(s, w, r, Len(F))
  <2>1. \A i \in 1..n : i \in 1..Len(b)
    BY <1>3
  <2> QED BY <1>2, <1>6, <2>1 DEF Piece
<1>10. Piece(F \o s, w, r, 0) /\ Len(F \o s) = Len(F) + n /\ F \o s \in Seq(Units)
  <2> HIDE DEF F, s, r
  <2> QED BY <1>2, <1>3, <1>6, <1>9, JoinPieces
<1>11. F \o s = [i \in 1..(Len(F) + n) |-> <<w, r, i>>]
  <2> DEFINE g == F \o s
             m == Len(F) + n
  <2>1. m \in Nat /\ \A i \in 1..m : 0 + i = i
    BY <1>3
  <2> HIDE DEF g, m
  <2>2. g \in Seq(Units) /\ Len(g) = m /\ \A i \in 1..m : g[i] = <<w, r, 0 + i>>
    BY <1>10 DEF Piece, g, m
  <2>3. g = [i \in 1..m |-> g[i]]
    BY <2>1, <2>2
  <2> QED BY <2>1, <2>2, <2>3 DEF g, m
<1>12. Len(F) + n \in 0..(Length - 1) /\ (Len(F) + n) + BufferSize >= Length
  BY <1>2, <1>3
<1>13. LostItsEnd(w, File(w))'
  <2>1. ToFile(w)' /\ round'[w] = r
    BY <1>1 DEF ToFile
  <2> HIDE DEF F, s, r
  <2> QED BY <1>1, <1>5, <1>8, <1>11, <1>12, <2>1 DEF LostItsEnd
<1> QED BY <1>1, <1>2, <1>8, <1>13 DEF FileOK

(* After a failure the rest goes to the temporary file, if anywhere.        *)
LEMMA FileFails ==
  ASSUME Types, NEW w \in Savers, ToFile(w), FileOK(w), names.temp # names.target,
         WriteFails(w) \/ DropEncoder(w) \/ DropSink(w)
  PROVE  FileOK(w)' /\ names' = names /\ Target' = Target
<1>1. /\ pc[w] # "idle" /\ pc'[w] \in {"dropping", "dropped", "idle"} /\ UNCHANGED <<names, round>>
      /\ (result' = result \/ result'[w] = "error")
  BY TypesFacts DEF WriteFails, DropEncoder, DropSink, Goes, AfterError
<1>2. /\ names.temp # NoFile /\ handle[w].file = names.temp /\ round[w] >= 1 /\ result[w] # "ok"
  BY <1>1 DEF FileOK
<1> DEFINE b == buffer[w]
<1>3. b \in Seq(Units) /\ Len(b) \in Nat
  BY TypesFacts
<1>4. (\E n \in 0..Len(b) : FileTakes(w, b, n)) \/ Writes(w, b) \/ UNCHANGED <<files, handle>>
  <2>1. ASSUME FlushFails(w, b) PROVE \E n \in 0..Len(b) : FileTakes(w, b, n)
    <3>1. PICK n \in 0..(Len(b) - 1) : FileTakes(w, b, n)
      BY <2>1 DEF FlushFails
    <3>2. n \in 0..Len(b)
      BY <1>3, <3>1
    <3> QED BY <3>1, <3>2
  <2>2. ASSUME Flushed(w, b) PROVE \E n \in 0..Len(b) : FileTakes(w, b, n)
    <3>1. FileTakes(w, b, Len(b)) /\ Len(b) \in 0..Len(b)
      BY <1>3, <2>2 DEF Flushed
    <3> QED BY <3>1
  <2>3. CASE WriteFails(w)
    BY <2>1, <2>3 DEF WriteFails
  <2>4. CASE DropEncoder(w)
    BY <2>1, <2>4 DEF DropEncoder, Writes
  <2>5. CASE DropSink(w)
    BY <2>1, <2>2, <2>5 DEF DropSink
  <2> QED BY <2>3, <2>4, <2>5
<1>5. (\E s \in Seq(Units) : Writes(w, s)) \/ UNCHANGED <<files, handle>>
  <2>1. ASSUME NEW n \in 0..Len(b), FileTakes(w, b, n) PROVE \E s \in Seq(Units) : Writes(w, s)
    <3>1. SubSeq(b, 1, n) \in Seq(Units) /\ Len(SubSeq(b, 1, n)) = n
      <4> HIDE DEF b
      <4> QED BY <1>3
    <3>2. Writes(w, SubSeq(b, 1, n))
      BY <2>1, <3>1 DEF FileTakes, Writes
    <3> QED BY <3>1, <3>2
  <2> QED BY <1>3, <1>4, <2>1
<1>6. Target' = Target /\ handle'[w].file = names.temp
  <2>1. CASE \E s \in Seq(Units) : Writes(w, s)
    BY <1>1, <2>1, OwnFile
  <2>2. CASE UNCHANGED <<files, handle>>
    BY <1>1, <1>2, <2>2 DEF Target
  <2> QED BY <1>5, <2>1, <2>2
<1> QED BY <1>1, <1>2, <1>6 DEF FileOK

LEMMA FileStep ==
  ASSUME Types, NEW w \in Savers, ToFile(w), FileOK(w), names.temp # names.target, Step(w)
  PROVE  /\ FileOK(w)' /\ names'.temp # names'.target
         /\ \/ Target' = Target \/ LateErrors
            \/ \E r \in 1..Rounds : Target' = Stream(w, r)
<1>1. CASE Start(w)
  BY <1>1, FileStart
<1>2. CASE WriteUnit(w)
  BY <1>2, FileWrites
<1>3. CASE FinishOk(w)
  BY <1>3, FileEnds
<1>4. CASE WriteFails(w) \/ DropEncoder(w) \/ DropSink(w)
  BY <1>4, FileFails
<1>5. CASE FinishFails(w)
  BY <1>5, FileLosesItsEnd
<1>6. CASE Rename(w)
  <2>1. /\ pc[w] = "closed" /\ pc'[w] = "idle" /\ UNCHANGED <<files, round, failures>>
        /\ \/ names' = [temp |-> NoFile, target |-> names.temp] /\ result'[w] = "ok"
           \/ names' = names /\ result'[w] = "error"
    BY <1>6, TypesFacts DEF Rename, RenameClosed, Goes
  <2>2. /\ names.temp # NoFile /\ handle[w].file = names.temp /\ round[w] \in 1..Rounds
        /\ Delivered(w, files[names.temp]) \/ LostItsEnd(w, files[names.temp])
    BY <2>1, TypesFacts DEF FileOK, File
  <2>3. CASE names' = [temp |-> NoFile, target |-> names.temp] /\ result'[w] = "ok"
    <3>1. Target' = files[names.temp] /\ names'.temp # names'.target
      BY <2>1, <2>2, <2>3 DEF Target
    <3>2. Target' = Stream(w, round[w]) \/ LateErrors
      BY <2>2, <3>1 DEF Delivered, LostItsEnd
    <3>3. sink' = sink
      BY <1>6 DEF Rename
    <3>4. Delivered(w, Target)' \/ LostItsEnd(w, Target)'
      BY <2>1, <2>2, <3>1, <3>3 DEF Delivered, LostItsEnd, ToFile, Stream
    <3> QED BY <2>1, <2>2, <2>3, <3>1, <3>2, <3>4 DEF FileOK
  <2>4. CASE names' = names /\ result'[w] = "error"
    BY <2>1, <2>4 DEF FileOK, Target
  <2> QED BY <2>1, <2>3, <2>4
<1>7. CASE Crash(w)
  <2>1. pc'[w] = "idle" /\ result'[w] = "crashed" /\ UNCHANGED <<names, files>>
    BY <1>7, TypesFacts DEF Crash, Goes
  <2> QED BY <2>1 DEF FileOK, Target
<1> QED BY <1>1, <1>2, <1>3, <1>4, <1>5, <1>6, <1>7 DEF Step
-----------------------------------------------------------------------------
(* The inductive invariants: of the saves to callbacks, and of all.         *)
CallInv == Types /\ \A w \in Savers : ~ToFile(w) => CallOK(w)
FileInv ==
  /\ CallInv /\ OneFileSaver /\ names.temp # names.target
  /\ LateErrors = FALSE => TargetWhole
  /\ \A w \in Savers : ToFile(w) => FileOK(w)

LEMMA SavesInit == Init => CallInv /\ (OneFileSaver => FileInv)
<1> SUFFICES ASSUME Init PROVE CallInv /\ (OneFileSaver => FileInv)
  OBVIOUS
<1>1. Types
  BY InitTypes
<1>2. \A w \in Savers : CallOK(w) /\ FileOK(w)
  BY DEF Init, CallOK, FileOK
<1>3. names.temp # names.target /\ Target = <<"old">>
  BY DEF Init, NoFile, Target
<1> QED BY <1>1, <1>2, <1>3 DEF CallInv, FileInv, TargetWhole

LEMMA CallKept ==
  ASSUME Types, NEW w \in Savers, Step(w), NEW v \in Savers, v # w, ~ToFile(v), CallOK(v)
  PROVE  CallOK(v)'
<1>1. /\ pc'[v] = pc[v] /\ made'[v] = made[v] /\ round'[v] = round[v]
      /\ failures'[v] = failures[v] /\ result'[v] = result[v]
      /\ buffer'[v] = buffer[v] /\ heard'[v] = heard[v]
  BY OthersKeep
<1> QED BY <1>1 DEF CallOK

LEMMA CallsStep == CallInv /\ [Next]_svars => CallInv'
<1> SUFFICES ASSUME CallInv, [Next]_svars PROVE CallInv'
  OBVIOUS
<1>1. Types /\ Types' /\ \A w \in Savers : ~ToFile(w) => CallOK(w)
  BY StepTypes DEF CallInv
<1>2. ASSUME NEW w \in Savers, Step(w) PROVE CallInv'
  <2>1. sink' = sink
    BY <1>1, <1>2, OthersKeep
  <2>2. ASSUME NEW v \in Savers, ~ToFile(v)' PROVE CallOK(v)'
    <3>1. ~ToFile(v) /\ CallOK(v)
      BY <1>1, <2>1, <2>2 DEF ToFile
    <3>2. CASE v = w
      BY <1>1, <1>2, <3>1, <3>2, CallStep
    <3>3. CASE v # w
      BY <1>1, <1>2, <3>1, <3>3, CallKept
    <3> QED BY <3>2, <3>3
  <2> QED BY <1>1, <2>2 DEF CallInv
<1>3. CASE UNCHANGED svars
  <2>1. ASSUME NEW v \in Savers, ~ToFile(v)' PROVE CallOK(v)'
    <3>1. ~ToFile(v) /\ CallOK(v)
      BY <1>1, <1>3, <2>1 DEF ToFile, svars
    <3> QED BY <1>3, <3>1 DEF CallOK, svars
  <2> QED BY <1>1, <2>1 DEF CallInv
<1> QED BY <1>2, <1>3 DEF Next, Step

LEMMA SavesStep == FileInv /\ [Next]_svars => FileInv'
<1> SUFFICES ASSUME FileInv, [Next]_svars PROVE FileInv'
  OBVIOUS
<1>1. /\ CallInv /\ CallInv' /\ Types /\ names.temp # names.target /\ OneFileSaver
      /\ LateErrors = FALSE => TargetWhole
      /\ \A w \in Savers : ToFile(w) => FileOK(w)
  BY CallsStep DEF FileInv, CallInv
<1>2. ASSUME NEW w \in Savers, Step(w) PROVE FileInv'
  <2>1. sink' = sink /\ OneFileSaver' /\ \A v \in Savers : ToFile(v)' <=> ToFile(v)
    BY <1>1, <1>2, OthersKeep DEF ToFile, OneFileSaver
  <2>2. CASE ToFile(w)
    <3>1. /\ FileOK(w)' /\ names'.temp # names'.target
          /\ (Target' = Target \/ LateErrors \/ \E r \in 1..Rounds : Target' = Stream(w, r))
      BY <1>1, <1>2, <2>2, FileStep
    <3>2. \A v \in Savers : ToFile(v)' => v = w
      BY <1>1, <2>1, <2>2 DEF OneFileSaver
    <3>3. LateErrors = FALSE => TargetWhole'
      BY <1>1, <3>1 DEF TargetWhole
    <3> QED BY <1>1, <2>1, <3>1, <3>2, <3>3 DEF FileInv
  <2>3. CASE ~ToFile(w)
    <3>1. UNCHANGED <<files, names>>
      BY <1>1, <1>2, <2>3, CallStep DEF CallInv
    <3>2. ASSUME NEW v \in Savers, ToFile(v)' PROVE FileOK(v)'
      <4>1. ToFile(v) /\ FileOK(v) /\ v # w
        BY <1>1, <2>1, <2>3, <3>2
      <4>2. /\ pc'[v] = pc[v] /\ made'[v] = made[v] /\ round'[v] = round[v]
            /\ failures'[v] = failures[v] /\ result'[v] = result[v]
            /\ buffer'[v] = buffer[v] /\ handle'[v] = handle[v]
        BY <1>1, <1>2, <4>1, OthersKeep
      <4>3. File(v)' = File(v) /\ Target' = Target
        BY <3>1, <4>2 DEF File, Target
      <4> QED BY <2>1, <3>1, <4>1, <4>2, <4>3 DEF FileOK, Delivered, LostItsEnd, Stream
    <3>3. (LateErrors = FALSE => TargetWhole') /\ names'.temp # names'.target
      BY <1>1, <3>1 DEF TargetWhole, Target
    <3> QED BY <1>1, <2>1, <3>2, <3>3 DEF FileInv
  <2> QED BY <2>2, <2>3
<1>3. CASE UNCHANGED svars
  <2>1. OneFileSaver' /\ (LateErrors = FALSE => TargetWhole') /\ names'.temp # names'.target
    BY <1>1, <1>3 DEF svars, OneFileSaver, ToFile, TargetWhole, Target
  <2>2. ASSUME NEW v \in Savers, ToFile(v)' PROVE FileOK(v)'
    <3>1. ToFile(v) /\ FileOK(v) /\ File(v)' = File(v) /\ Target' = Target
      BY <1>1, <1>3, <2>2 DEF ToFile, File, Target, svars
    <3>2. ToFile(v)'
      BY <2>2
    <3> QED BY <1>3, <3>1, <3>2 DEF FileOK, Delivered, LostItsEnd, Stream, svars
  <2> QED BY <1>1, <2>1, <2>2 DEF FileInv
<1> QED BY <1>2, <1>3 DEF Next, Step

(* Where one saver at a time writes the file and its last flush does not    *)
(* fail unseen, whoever opens the target after any errors and crashes finds *)
(* the old file or the whole stream of one save, however many others save   *)
(* to callbacks meanwhile.                                                  *)
THEOREM TargetIsWhole ==
  ASSUME LateErrors = FALSE
  PROVE  Spec /\ OneFileSaver => []TargetWhole
<1>1. FileInv => TargetWhole
  BY DEF FileInv
<1>2. Init /\ OneFileSaver => FileInv
  BY SavesInit
<1> QED BY <1>1, <1>2, SavesStep, PTL DEF Spec

(* A save to a callback that reports success has given it its stream, each  *)
(* unit once and in order, and met no error: whatever other savers do, to   *)
(* callbacks or files.                                                      *)
CallsDelivered ==
  \A w \in Savers : ~ToFile(w) /\ result[w] = "ok" =>
    Received(w) = Stream(w, round[w]) /\ failures[w] = 0

LEMMA CallsGive == CallInv => CallsDelivered
<1> SUFFICES ASSUME CallInv, NEW w \in Savers, ~ToFile(w), result[w] = "ok"
             PROVE  Received(w) = Stream(w, round[w]) /\ failures[w] = 0
  BY DEF CallsDelivered
<1>1. Types /\ failures[w] = 0 /\ InPieces(heard[w], <<>>, w, round[w], Length)
  BY DEF CallInv, CallOK
<1> QED BY <1>1, Together

(* A save to a callback that reports success called it with the pieces of   *)
(* its stream, in order and none missing, whatever other saves do.          *)
THEOREM CallsAreDelivered == Spec => []CallsDelivered
<1>1. Init => CallInv
  BY SavesInit
<1> QED BY <1>1, CallsGive, CallsStep, PTL DEF Spec

(* A save that reports success has delivered its stream and met no error, or*)
(* has lost the end of a file in the drop of its BufWriter: nothing else    *)
(* that can fail is left unseen, whether or not that flush may fail.        *)
THEOREM OkIsDelivered == Spec /\ OneFileSaver => []OkMeansDelivered
<1>1. FileInv => OkMeansDelivered
  <2> SUFFICES ASSUME FileInv, NEW w \in Savers, result[w] = "ok"
               PROVE  Delivered(w, Received(w)) \/ LostItsEnd(w, Received(w))
    BY DEF OkMeansDelivered
  <2>1. CASE ToFile(w)
    <3>1. Delivered(w, Target) \/ LostItsEnd(w, Target)
      BY <2>1 DEF FileInv, FileOK
    <3> QED BY <2>1, <3>1 DEF Received
  <2>2. CASE ~ToFile(w)
    BY <2>2, CallsGive DEF FileInv, CallsDelivered, Delivered
  <2> QED BY <2>1, <2>2
<1>2. Init /\ OneFileSaver => FileInv
  BY SavesInit
<1> QED BY <1>1, <1>2, SavesStep, PTL DEF Spec
=============================================================================
