--------------------------- MODULE ReadersProofs ---------------------------
(***************************************************************************)
(* Proofs about the two other readers of the format, for every choice of    *)
(* their constants.  First SequentialParse: the value and skip parsers of a *)
(* forward-only input.  Then StreamParse: the streaming traversal, for every*)
(* stream, every visitor and every depth.  Both run on the frames of        *)
(* ParseObject; what R writes, and how a stack of calls stands to it, is in *)
(* ParseObjectProofs.                                                       *)
(***************************************************************************)
EXTENDS SequentialParse, StreamParse, ParseObjectProofs

(* The streams the two parsers handle: none of the types they have no parts *)
(* for, no attributes on later pairlist cells, and neither of the two       *)
(* constructs that they misread.                                            *)
SeqHandled ==
  /\ Kinds \cap {"env", "clo", "prom", "extptr"} = {}
  /\ CellAttrs = FALSE
  /\ Misread = {}

SeqStepNames == StepNames \cup {"name", "tagname", "vcar", "vnext"}

(* The roles that a sequence of reads stands for.                           *)
RolesIn(t) == [j \in 1..Len(t) |-> SeqRoleOf(t[j])]

LEMMA RoleTypes == \A s \in SeqStepNames : SeqRoleOf(s) \in Roles
BY DEF SeqStepNames, StepNames, SeqRoleOf, RoleOf, Roles

LEMMA RolesInType ==
  ASSUME NEW t \in Seq(SeqStepNames)
  PROVE  /\ RolesIn(t) \in Seq(Roles) /\ Len(RolesIn(t)) = Len(t)
         /\ \A j \in 1..Len(t) : RolesIn(t)[j] = SeqRoleOf(t[j])
<1>1. Len(t) \in Nat /\ \A j \in 1..Len(t) : SeqRoleOf(t[j]) \in Roles
  <2>1. \A j \in 1..Len(t) : t[j] \in SeqStepNames
    BY ElementOfSeq
  <2> QED BY <2>1, RoleTypes
<1> QED BY <1>1 DEF RolesIn

LEMMA RolesInConcat ==
  ASSUME NEW s \in Seq(SeqStepNames), NEW t \in Seq(SeqStepNames)
  PROVE  RolesIn(s \o t) = RolesIn(s) \o RolesIn(t)
<1> DEFINE a == RolesIn(s)
           b == RolesIn(t)
           c == s \o t
           d == RolesIn(c)
           n == Len(s)
           m == Len(t)
<1>1. /\ c \in Seq(SeqStepNames) /\ Len(c) = n + m
      /\ \A i \in 1..n + m : c[i] = IF i <= n THEN s[i] ELSE t[i - n]
  BY ConcatProperties
<1>2. /\ a \in Seq(Roles) /\ Len(a) = n /\ \A j \in 1..n : a[j] = SeqRoleOf(s[j])
      /\ b \in Seq(Roles) /\ Len(b) = m /\ \A j \in 1..m : b[j] = SeqRoleOf(t[j])
  BY RolesInType
<1>3. d \in Seq(Roles) /\ Len(d) = Len(c) /\ \A j \in 1..Len(c) : d[j] = SeqRoleOf(c[j])
  <2> HIDE DEF c
  <2> QED BY <1>1, RolesInType
<1>4. n \in Nat /\ m \in Nat
  BY LenProperties
<1> HIDE DEF a, b, c, d, n, m
<1>5. /\ a \o b \in Seq(Roles) /\ Len(a \o b) = n + m
      /\ \A i \in 1..n + m : (a \o b)[i] = IF i <= n THEN a[i] ELSE b[i - n]
  BY <1>2, ConcatProperties
<1>6. ASSUME NEW i \in 1..n + m PROVE d[i] = (a \o b)[i]
  <2>1. CASE i <= n
    <3>1. i \in 1..n
      BY <1>4, <2>1
    <3>2. (a \o b)[i] = SeqRoleOf(s[i])
      BY <1>2, <1>5, <2>1, <3>1
    <3>3. d[i] = SeqRoleOf(s[i])
      BY <1>1, <1>3, <2>1
    <3> QED BY <3>2, <3>3
  <2>2. CASE ~(i <= n)
    <3>1. i - n \in 1..m
      BY <1>4, <2>2
    <3>2. (a \o b)[i] = SeqRoleOf(t[i - n])
      BY <1>2, <1>5, <2>2, <3>1
    <3>3. d[i] = SeqRoleOf(t[i - n])
      BY <1>1, <1>3, <2>2
    <3> QED BY <3>2, <3>3
  <2> QED BY <2>1, <2>2
<1>7. d = a \o b
  BY <1>1, <1>3, <1>5, <1>6, SeqEqual
<1> QED BY <1>7 DEF a, b, c, d

LEMMA RolesInTail ==
  ASSUME NEW t \in Seq(SeqStepNames), t # <<>>
  PROVE  /\ Tail(t) \in Seq(SeqStepNames) /\ Head(t) \in SeqStepNames
         /\ RolesIn(t) # <<>> /\ Head(RolesIn(t)) = SeqRoleOf(Head(t))
         /\ RolesIn(Tail(t)) = Tail(RolesIn(t))
<1> DEFINE a == RolesIn(t)
           c == Tail(t)
           d == RolesIn(c)
           n == Len(t)
<1>1. a \in Seq(Roles) /\ Len(a) = n /\ \A j \in 1..n : a[j] = SeqRoleOf(t[j])
  BY RolesInType
<1>2. n \in Nat \ {0}
  BY EmptySeq
<1>3. /\ c \in Seq(SeqStepNames) /\ Len(c) = n - 1 /\ \A i \in 1..Len(c) : c[i] = t[i + 1]
      /\ Head(t) \in SeqStepNames /\ Head(t) = t[1]
  BY HeadTailProperties
<1>4. d \in Seq(Roles) /\ Len(d) = Len(c) /\ \A j \in 1..Len(c) : d[j] = SeqRoleOf(c[j])
  <2> HIDE DEF c
  <2> QED BY <1>3, RolesInType
<1> HIDE DEF a, c, d, n
<1>5. a # <<>>
  BY <1>1, <1>2, EmptySeq
<1>6. /\ Tail(a) \in Seq(Roles) /\ Len(Tail(a)) = n - 1
      /\ \A i \in 1..Len(Tail(a)) : Tail(a)[i] = a[i + 1]
      /\ Head(a) = a[1]
  BY <1>1, <1>5, HeadTailProperties
<1>7. Head(a) = SeqRoleOf(Head(t))
  <2>1. 1 \in 1..n
    BY <1>2
  <2> QED BY <1>1, <1>3, <1>6, <2>1
<1>8. ASSUME NEW i \in 1..n - 1 PROVE d[i] = Tail(a)[i]
  <2>1. i + 1 \in 1..n
    BY <1>2
  <2> QED BY <1>1, <1>3, <1>4, <1>6, <2>1
<1>9. d = Tail(a)
  BY <1>3, <1>4, <1>6, <1>8, SeqEqual
<1> QED BY <1>3, <1>5, <1>7, <1>9 DEF a, c, d

(* A sequence of reads that stands for what R writes.                       *)
Reads(s, r) ==
  /\ s \in Seq(SeqStepNames) /\ r \in Seq(Roles) /\ Len(s) = Len(r)
  /\ \A j \in 1..Len(s) : SeqRoleOf(s[j]) = r[j]

LEMMA ReadsRoles ==
  ASSUME NEW s, NEW r, Reads(s, r)
  PROVE  s \in Seq(SeqStepNames) /\ r \in Seq(Roles) /\ RolesIn(s) = r
<1>1. s \in Seq(SeqStepNames) /\ r \in Seq(Roles)
  BY DEF Reads
<1>2. RolesIn(s) \in Seq(Roles) /\ Len(RolesIn(s)) = Len(r)
      /\ \A j \in 1..Len(RolesIn(s)) : RolesIn(s)[j] = r[j]
  BY <1>1, RolesInType DEF Reads
<1> QED BY <1>1, <1>2, SeqEqual

LEMMA ReadsConcat ==
  ASSUME NEW s1, NEW r1, NEW s2, NEW r2, Reads(s1, r1), Reads(s2, r2)
  PROVE  Reads(s1 \o s2, r1 \o r2)
<1>1. /\ s1 \in Seq(SeqStepNames) /\ s2 \in Seq(SeqStepNames)
      /\ r1 \in Seq(Roles) /\ r2 \in Seq(Roles) /\ RolesIn(s1) = r1 /\ RolesIn(s2) = r2
  BY ReadsRoles
<1> DEFINE s == s1 \o s2
           r == r1 \o r2
<1>2. s \in Seq(SeqStepNames) /\ RolesIn(s) = r /\ r \in Seq(Roles)
  BY <1>1, RolesInConcat, ConcatProperties
<1> HIDE DEF s, r
<1>3. Len(s) = Len(r) /\ \A j \in 1..Len(s) : SeqRoleOf(s[j]) = r[j]
  BY <1>2, RolesInType
<1>4. Reads(s, r)
  BY <1>2, <1>3 DEF Reads
<1> QED BY <1>4 DEF s, r

LEMMA ReadsShort ==
  /\ Reads(<<>>, <<>>)
  /\ Reads(<<"early">>, <<"cell">>) /\ Reads(<<"attrs">>, <<"cell">>)
  /\ Reads(<<"tag">>, <<"tag">>) /\ Reads(<<"tagname">>, <<"chars">>)
  /\ Reads(<<"name">>, <<"chars">>)
  /\ Reads(<<"car", "next">>, <<"item", "cdr">>)
  /\ Reads(<<"vcar", "vnext">>, <<"item", "cdr">>)
  /\ Reads(<<"class", "state", "altattrs">>, <<"cell", "item", "attrib">>)
BY DEF Reads, SeqRoleOf, RoleOf, SeqStepNames, StepNames, Roles

LEMMA ReadsRun ==
  ASSUME NEW n \in Nat
  PROVE  Reads([j \in 1..n |-> "elem"], [j \in 1..n |-> "item"])
BY DEF Reads, SeqRoleOf, RoleOf, SeqStepNames, StepNames, Roles

(* Parsed or skipped, what is read of an item is what R writes of it, as    *)
(* long as a tag that the flags ask for is there.                           *)
LEMMA SeqStepsMatch ==
  ASSUME SeqHandled, RTypeOK, NEW role \in Roles, NEW i \in NewItems(role),
         NEW m, NEW f, i.type \in {"list", "lang"} /\ f.s4tag => i.tag
  PROVE  Reads(SeqSteps(i, m, f), Parts(i))
<1>1. Reads(EarlyAttrs(i), AttrsBefore(i))
  BY ReadsShort DEF EarlyAttrs, AttrsBefore, Early, AttrFirst
<1>2. Reads(LateAttrs(i), AttrsAfter(i))
  BY ReadsShort DEF LateAttrs, AttrsAfter, Early, AttrFirst
<1>3. i.n \in Nat /\ i.type \in AllKinds /\ i.type \notin {"env", "clo", "prom", "extptr"}
  <2>1. i.type \in KindsOf(role) /\ i \in Items /\ i.type \in AllKinds
    BY NewItemFacts
  <2>2. i.type \notin {"env", "clo", "prom", "extptr"}
    BY <2>1 DEF SeqHandled, KindsOf, Roles, EnvKinds, SymbolKinds
  <2> QED BY <2>1, <2>2 DEF Items
<1>4. Reads(IfTagged(i, "tag"), IfTagged(i, "tag"))
  BY ReadsShort DEF IfTagged
<1>5. ASSUME i.type \in {"list", "lang"}
      PROVE  Reads(ParseCells(i, f), Contents(i)) /\ Reads(SkipCells(i), Contents(i))
  <2>1. Contents(i) = IfTagged(i, "tag") \o <<"item", "cdr">>
    BY <1>5 DEF Contents, SymbolKinds
  <2>2. TaggedIf(i.tag \/ f.s4tag, "tag") = IfTagged(i, "tag") /\ TaggedIf(i.tag, "tag") = IfTagged(i, "tag")
    BY <1>5 DEF TaggedIf, IfTagged
  <2>3. /\ Reads(IfTagged(i, "tag") \o <<"car", "next">>, IfTagged(i, "tag") \o <<"item", "cdr">>)
        /\ Reads(IfTagged(i, "tag") \o <<"vcar", "vnext">>, IfTagged(i, "tag") \o <<"item", "cdr">>)
    BY <1>4, ReadsShort, ReadsConcat
  <2> QED BY <2>1, <2>2, <2>3 DEF ParseCells, SkipCells
<1>6. Reads(ValueData(i, f), Contents(i))
  <2>1. CASE i.type \in SymbolKinds
    <3>1. ValueData(i, f) = <<"name">> /\ Contents(i) = <<"chars">>
      BY <2>1 DEF ValueData, Contents, SymbolKinds
    <3> QED BY <3>1, ReadsShort
  <2>2. CASE i.type \in {"list", "lang"}
    <3>1. ValueData(i, f) = IF f.lenient THEN SkipCells(i) ELSE ParseCells(i, f)
      BY <2>2 DEF ValueData, SymbolKinds
    <3> QED BY <3>1, <2>2, <1>5
  <2>3. CASE i.type \in {"vec", "expr"}
    <3>1. /\ ValueData(i, f) = [j \in 1..i.n |-> "elem"]
          /\ Contents(i) = [j \in 1..i.n |-> "item"]
      BY <2>3 DEF ValueData, SymbolKinds, Contents, ParseList
    <3> QED BY <3>1, <1>3, ReadsRun
  <2>4. CASE i.type = "altrep"
    <3>1. /\ ValueData(i, f) = <<"class", "state", "altattrs">>
          /\ Contents(i) = <<"cell", "item", "attrib">>
      BY <2>4 DEF ValueData, SymbolKinds, Contents, ParseAltrep
    <3> QED BY <3>1, ReadsShort
  <2>5. CASE i.type \notin SymbolKinds \cup {"list", "lang", "vec", "expr", "altrep"}
    <3>1. ValueData(i, f) = <<>> /\ Contents(i) = <<>>
      BY <1>3, <2>5 DEF ValueData, Contents
    <3> QED BY <3>1, ReadsShort
  <2> QED BY <2>1, <2>2, <2>3, <2>4, <2>5
<1>7. Reads(SkipData(i, f), Contents(i))
  BY <1>5, <1>6 DEF SkipData
<1>8. \A d : Reads(d, Contents(i)) => Reads(EarlyAttrs(i) \o d \o LateAttrs(i), Parts(i))
  BY <1>1, <1>2, ReadsConcat DEF Parts
<1> QED BY <1>6, <1>7, <1>8 DEF SeqSteps, ValueSteps, SkipSteps
-----------------------------------------------------------------------------
(* The types of the parsers' variables.                                     *)
FlagSet == [s4tag : BOOLEAN, root : BOOLEAN, lenient : BOOLEAN]
CallSet == [mode : {"value", "skip"}, forced : BOOLEAN, tag : Nat,
            elems : {"value", "skip"}, saved : FlagSet]

SeqTypes ==
  /\ RTypeOK
  /\ frames \in Seq(FramesIn(SeqStepNames)) /\ frames # <<>>
  /\ refs \in Seq(Values) /\ inBody \in BOOLEAN /\ lazy \in BOOLEAN
  /\ flags \in FlagSet /\ calls \in Seq(CallSet) /\ Len(calls) = Depth

LEMMA SeqTop ==
  ASSUME SeqTypes
  PROVE  /\ Depth \in Nat \ {0} /\ Top \in FramesIn(SeqStepNames)
         /\ Top.todo \in Seq(SeqStepNames) /\ Top.rn \in BOOLEAN /\ Call \in CallSet
         /\ Busy => /\ Top.todo # <<>> /\ Step \in SeqStepNames /\ Rest \in Seq(SeqStepNames)
         /\ \A k \in 1..Depth : /\ frames[k] \in FramesIn(SeqStepNames) /\ calls[k] \in CallSet
                                /\ frames[k].todo \in Seq(SeqStepNames)
                                /\ frames[k].ref \in Nat
<1>1. /\ Depth \in Nat \ {0} /\ Top \in FramesIn(SeqStepNames)
      /\ Top.todo \in Seq(SeqStepNames) /\ Top.rn \in BOOLEAN
      /\ \A k \in 1..Depth : /\ frames[k] \in FramesIn(SeqStepNames)
                             /\ frames[k].todo \in Seq(SeqStepNames)
                             /\ frames[k].ref \in Nat
  BY FrameFacts DEF SeqTypes, Depth, Top
<1>2. \A k \in 1..Depth : calls[k] \in CallSet
  BY ElementOfSeq DEF SeqTypes
<1>3. Call \in CallSet
  <2>1. Depth \in 1..Depth
    BY <1>1
  <2> QED BY <1>2, <2>1 DEF Call
<1>4. Busy => /\ Top.todo # <<>> /\ Step \in SeqStepNames /\ Rest \in Seq(SeqStepNames)
  BY <1>1, RolesInTail DEF Busy, Step, Rest
<1> QED BY <1>1, <1>2, <1>3, <1>4

LEMMA SeqGoesOn ==
  ASSUME SeqTypes, NEW t \in Seq(SeqStepNames), NEW r \in BOOLEAN,
         frames' = Continue(frames, t, r)
  PROVE  /\ frames' \in Seq(FramesIn(SeqStepNames)) /\ frames' # <<>> /\ Len(frames') = Depth
         /\ \A k \in 1..Depth - 1 : frames'[k] = frames[k]
         /\ \A k \in 1..Depth : SameCall(frames'[k], frames[k])
         /\ frames'[Depth].todo = t /\ frames'[Depth].rn = r
<1> DEFINE s == frames
           T == SeqStepNames
           c == Continue(s, t, r)
<1>1. s \in Seq(FramesIn(T)) /\ t \in Seq(T) /\ s # <<>> /\ Len(s) = Depth
  BY DEF SeqTypes, Depth
<1> HIDE DEF s, T
<1>2. /\ c \in Seq(FramesIn(T)) /\ c # <<>> /\ Len(c) = Len(s)
      /\ \A k \in 1..Len(s) - 1 : c[k] = s[k]
      /\ \A k \in 1..Len(s) : SameCall(c[k], s[k])
      /\ c[Len(s)].todo = t /\ c[Len(s)].rn = r
  <2>1. s \in Seq(FramesIn(T)) /\ s # <<>> /\ t \in Seq(T) /\ r \in BOOLEAN
    BY <1>1
  <2> QED BY ONLY <2>1, GoesOn
<1>3. frames' = c
  BY DEF c, s
<1> HIDE DEF c
<1> QED BY <1>1, <1>2, <1>3 DEF s, T

LEMMA SeqPushes ==
  ASSUME SeqTypes, NEW t \in Seq(SeqStepNames), NEW r \in BOOLEAN,
         NEW f \in FramesIn(SeqStepNames), frames' = Append(Continue(frames, t, r), f)
  PROVE  /\ frames' \in Seq(FramesIn(SeqStepNames)) /\ frames' # <<>> /\ Len(frames') = Depth + 1
         /\ \A k \in 1..Depth - 1 : frames'[k] = frames[k]
         /\ \A k \in 1..Depth : SameCall(frames'[k], frames[k])
         /\ frames'[Depth].todo = t /\ frames'[Depth].rn = r /\ frames'[Depth + 1] = f
<1> DEFINE s == frames
           T == SeqStepNames
           c == Append(Continue(s, t, r), f)
<1>1. s \in Seq(FramesIn(T)) /\ t \in Seq(T) /\ f \in FramesIn(T) /\ s # <<>> /\ Len(s) = Depth
  BY DEF SeqTypes, Depth
<1> HIDE DEF s, T
<1>2. /\ c \in Seq(FramesIn(T)) /\ c # <<>> /\ Len(c) = Len(s) + 1
      /\ \A k \in 1..Len(s) - 1 : c[k] = s[k]
      /\ \A k \in 1..Len(s) : SameCall(c[k], s[k])
      /\ c[Len(s)].todo = t /\ c[Len(s)].rn = r /\ c[Len(s) + 1] = f
  <2>1. s \in Seq(FramesIn(T)) /\ s # <<>> /\ t \in Seq(T) /\ r \in BOOLEAN /\ f \in FramesIn(T)
    BY <1>1
  <2> QED BY ONLY <2>1, Pushes
<1>3. frames' = c
  BY DEF c, s
<1> HIDE DEF c
<1> QED BY <1>1, <1>2, <1>3 DEF s, T

LEMMA CallTagged ==
  ASSUME SeqTypes, NEW id \in Nat, Tagged(id)
  PROVE  /\ calls' \in Seq(CallSet) /\ Len(calls') = Depth
         /\ \A k \in 1..Depth - 1 : calls'[k] = calls[k]
         /\ \A k \in 1..Depth : calls'[k].mode = calls[k].mode /\ calls'[k].forced = calls[k].forced
                                /\ calls'[k].saved = calls[k].saved
<1> DEFINE f == [Call EXCEPT !.tag = id]
           n == Depth
<1>1. Call \in CallSet /\ calls \in Seq(CallSet) /\ Len(calls) = n /\ n \in Nat \ {0}
  BY SeqTop DEF SeqTypes
<1>2. f \in CallSet /\ f.mode = Call.mode /\ f.forced = Call.forced /\ f.saved = Call.saved
  BY <1>1 DEF CallSet
<1>3. calls' = [calls EXCEPT ![n] = f]
  <2>1. n \in DOMAIN calls
    BY <1>1, LenProperties
  <2> QED BY <1>1, <2>1 DEF Tagged, Call, CallSet
<1> HIDE DEF f, n
<1>4. /\ calls' \in Seq(CallSet) /\ Len(calls') = n
      /\ \A j \in 1..n : calls'[j] = IF j = n THEN f ELSE calls[j]
  <2>1. n \in 1..n
    BY <1>1
  <2> QED BY <1>1, <1>2, <1>3, <2>1, ExceptSeq
<1>5. \A k \in 1..n - 1 : calls'[k] = calls[k]
  <2> SUFFICES ASSUME NEW k \in 1..n - 1 PROVE calls'[k] = calls[k]
    OBVIOUS
  <2>1. k \in 1..n /\ k # n
    BY <1>1
  <2> QED BY <1>4, <2>1
<1>6. Call = calls[n]
  BY DEF Call, n
<1>7. \A k \in 1..n : calls'[k].mode = calls[k].mode /\ calls'[k].forced = calls[k].forced
                       /\ calls'[k].saved = calls[k].saved
  BY <1>2, <1>4, <1>6
<1> QED BY <1>4, <1>5, <1>7 DEF n

LEMMA SeqNewFrame ==
  ASSUME SeqTypes, NEW op \in AllKinds, NEW as \in SeqStepNames,
         NEW t \in Seq(SeqStepNames), NEW ref \in Nat, NEW plain \in BOOLEAN, wtodo # <<>>
  PROVE  NewFrame(op, as, t, ref, plain) \in FramesIn(SeqStepNames)
<1>1. Len(wtodo) - 1 \in Nat
  <2>1. wtodo \in Seq(Roles)
    BY DEF SeqTypes, RTypeOK
  <2>2. Len(wtodo) \in Nat \ {0}
    BY <2>1, EmptySeq
  <2> QED BY <2>2
<1>2. inBody \in BOOLEAN /\ lazy \in BOOLEAN
  BY DEF SeqTypes
<1> QED BY <1>1, <1>2 DEF NewFrame, FramesIn

(* The parsers and R agree on what comes next.                              *)
Lefts  == [k \in 1..Depth |-> RolesIn(frames[k].todo)]
Rests  == [k \in 1..Depth |-> frames[k].rest]
Agreed == Owes(Depth, Lefts, Rests, wtodo)

LEMMA AgreedHead ==
  ASSUME SeqTypes, Agreed, Busy
  PROVE  /\ wtodo \in Seq(Roles) /\ wtodo # <<>> /\ Head(wtodo) = SeqRoleOf(Step)
         /\ Tail(wtodo) \in Seq(Roles) /\ Len(wtodo) - 1 \in Nat
         /\ Lefts[Depth] # <<>> /\ Tail(Lefts[Depth]) = RolesIn(Rest)
         /\ RolesIn(Rest) \in Seq(Roles)
<1>1. /\ Depth \in Nat \ {0} /\ Depth \in 1..Depth /\ Top.todo \in Seq(SeqStepNames)
      /\ Top.todo # <<>> /\ Rest \in Seq(SeqStepNames)
  BY SeqTop
<1>2. Lefts[Depth] = RolesIn(Top.todo)
  BY <1>1 DEF Lefts, Top
<1>3. /\ RolesIn(Top.todo) # <<>> /\ Head(RolesIn(Top.todo)) = SeqRoleOf(Step)
      /\ RolesIn(Rest) = Tail(RolesIn(Top.todo))
  BY <1>1, RolesInTail DEF Step, Rest
<1>4. Lefts[Depth] # <<>> /\ Owes(Depth, Lefts, Rests, wtodo)
  BY <1>2, <1>3 DEF Agreed
<1>5. /\ wtodo \in Seq(Roles) /\ wtodo # <<>> /\ Head(wtodo) = Head(Lefts[Depth])
      /\ Tail(wtodo) \in Seq(Roles) /\ Len(Tail(wtodo)) = Len(wtodo) - 1
  BY <1>1, <1>4, OwesReads
<1>6. Len(wtodo) - 1 \in Nat
  BY <1>5, LenProperties
<1> QED BY <1>1, <1>2, <1>3, <1>5, <1>6, RolesInType

LEMMA AgreedInPlace ==
  ASSUME SeqTypes, Agreed, Busy, NEW S, NEW P, Reads(S, P), NEW r \in BOOLEAN,
         frames' = Continue(frames, S \o Rest, r), wtodo' = P \o Tail(wtodo)
  PROVE  Agreed'
<1> DEFINE t == S \o Rest
<1>1. Depth \in Nat \ {0} /\ Rest \in Seq(SeqStepNames) /\ Depth = Len(frames)
  BY SeqTop DEF Depth
<1>2. /\ S \in Seq(SeqStepNames) /\ P \in Seq(Roles) /\ RolesIn(S) = P
  BY ReadsRoles
<1>3. t \in Seq(SeqStepNames) /\ RolesIn(t) = P \o RolesIn(Rest)
  BY <1>1, <1>2, ConcatProperties, RolesInConcat
<1>4. frames' = Continue(frames, t, r)
  OBVIOUS
<1> HIDE DEF t
<1>5. /\ Len(frames') = Depth
      /\ \A k \in 1..Depth - 1 : frames'[k] = frames[k]
      /\ \A k \in 1..Depth : SameCall(frames'[k], frames[k])
      /\ frames'[Depth].todo = t
  BY <1>3, <1>4, SeqGoesOn
<1> DEFINE M == [k \in 1..Depth |-> RolesIn(frames'[k].todo)]
           Q == [k \in 1..Depth |-> frames'[k].rest]
           n == Depth
<1>6. /\ \A k \in 1..n - 1 : M[k] = Lefts[k]
      /\ \A k \in 1..n : Q[k] = Rests[k]
  <2>1. \A k \in 1..n - 1 : M[k] = Lefts[k]
    BY <1>1, <1>5 DEF Lefts
  <2>2. \A k \in 1..n : frames'[k].rest = frames[k].rest
    BY <1>5 DEF SameCall
  <2> QED BY <2>1, <2>2 DEF Rests
<1>7. M[n] = P \o Tail(Lefts[n])
  <2>1. Tail(Lefts[n]) = RolesIn(Rest)
    BY AgreedHead
  <2>2. M[n] = RolesIn(t)
    BY <1>1, <1>5
  <2> QED BY <1>3, <2>1, <2>2
<1>8. Lefts[n] # <<>> /\ Owes(n, Lefts, Rests, wtodo)
  BY AgreedHead DEF Agreed
<1> DEFINE L == Lefts
           R == Rests
<1> HIDE DEF M, Q, n, L, R
<1>9. n \in Nat \ {0} /\ L[n] # <<>> /\ Owes(n, L, R, wtodo) /\ M[n] = P \o Tail(L[n])
      /\ (\A k \in 1..n - 1 : M[k] = L[k]) /\ \A k \in 1..n : Q[k] = R[k]
  BY <1>1, <1>6, <1>7, <1>8 DEF n, L, R
<1>10. Owes(n, M, Q, P \o Tail(wtodo))
  BY <1>2, <1>9, OwesInPlace
<1> QED BY <1>5, <1>10 DEF Agreed, Lefts, Rests, Depth, M, Q, n

LEMMA AgreedCall ==
  ASSUME SeqTypes, Agreed, Busy, NEW P, NEW r \in BOOLEAN,
         NEW f \in FramesIn(SeqStepNames), Reads(f.todo, P), f.rest = Len(wtodo) - 1,
         frames' = Append(Continue(frames, Rest, r), f), wtodo' = P \o Tail(wtodo)
  PROVE  Agreed'
<1>1. Depth \in Nat \ {0} /\ Rest \in Seq(SeqStepNames) /\ Depth = Len(frames)
  BY SeqTop DEF Depth
<1>2. P \in Seq(Roles) /\ RolesIn(f.todo) = P
  BY ReadsRoles
<1>5. /\ Len(frames') = Depth + 1
      /\ \A k \in 1..Depth - 1 : frames'[k] = frames[k]
      /\ \A k \in 1..Depth : SameCall(frames'[k], frames[k])
      /\ frames'[Depth].todo = Rest /\ frames'[Depth + 1] = f
  BY <1>1, SeqPushes
<1> DEFINE M == [k \in 1..Depth + 1 |-> RolesIn(frames'[k].todo)]
           Q == [k \in 1..Depth + 1 |-> frames'[k].rest]
           n == Depth
<1>6. /\ \A k \in 1..n - 1 : M[k] = Lefts[k]
      /\ \A k \in 1..n : Q[k] = Rests[k]
  BY <1>1, <1>5 DEF Lefts, Rests, SameCall
<1>7. M[n] = Tail(Lefts[n]) /\ M[n + 1] = P /\ Q[n + 1] = Len(wtodo) - 1
  <2>1. Tail(Lefts[n]) = RolesIn(Rest)
    BY AgreedHead
  <2>2. n \in 1..n + 1 /\ n + 1 \in 1..n + 1
    BY <1>1
  <2>3. M[n] = RolesIn(Rest) /\ M[n + 1] = RolesIn(f.todo) /\ Q[n + 1] = f.rest
    BY <2>2, <1>5
  <2> QED BY <1>2, <2>1, <2>3
<1>8. Lefts[n] # <<>> /\ Owes(n, Lefts, Rests, wtodo)
  BY AgreedHead DEF Agreed
<1> DEFINE L == Lefts
           R == Rests
<1> HIDE DEF M, Q, n, L, R
<1>9. n \in Nat \ {0} /\ L[n] # <<>> /\ Owes(n, L, R, wtodo)
      /\ M[n] = Tail(L[n]) /\ M[n + 1] = P /\ Q[n + 1] = Len(wtodo) - 1
      /\ (\A k \in 1..n - 1 : M[k] = L[k]) /\ \A k \in 1..n : Q[k] = R[k]
  BY <1>1, <1>6, <1>7, <1>8 DEF n, L, R
<1>10. Owes(n + 1, M, Q, P \o Tail(wtodo))
  BY <1>2, <1>9, OwesCall
<1> QED BY <1>5, <1>10 DEF Agreed, Lefts, Rests, Depth, M, Q, n

LEMMA AgreedReturn ==
  ASSUME SeqTypes, Agreed, Depth > 1, Top.todo = <<>>,
         frames' = SubSeq(frames, 1, Depth - 1), wtodo' = wtodo
  PROVE  Agreed'
<1>1. Depth \in Nat \ {0} /\ Depth \in 1..Depth /\ frames \in Seq(FramesIn(SeqStepNames))
      /\ Depth = Len(frames)
  BY SeqTop DEF SeqTypes, Depth
<1>2. Len(frames') = Depth - 1 /\ \A k \in 1..Depth - 1 : frames'[k] = frames[k]
  BY <1>1, Drops
<1> DEFINE M == [k \in 1..Depth - 1 |-> RolesIn(frames'[k].todo)]
           Q == [k \in 1..Depth - 1 |-> frames'[k].rest]
           n == Depth
<1>3. \A k \in 1..n - 1 : M[k] = Lefts[k] /\ Q[k] = Rests[k]
  BY <1>1, <1>2 DEF Lefts, Rests
<1>4. Lefts[n] = <<>>
  <2>1. Lefts[n] = RolesIn(<<>>)
    BY <1>1 DEF Lefts, Top
  <2>2. RolesIn(<<>>) = <<>>
    BY ReadsShort, ReadsRoles
  <2> QED BY <2>1, <2>2
<1> DEFINE L == Lefts
           R == Rests
<1> HIDE DEF M, Q, n, L, R
<1>5. n \in Nat \ {0} /\ L[n] = <<>> /\ Owes(n, L, R, wtodo)
      /\ \A k \in 1..n - 1 : M[k] = L[k] /\ Q[k] = R[k]
  BY <1>1, <1>3, <1>4 DEF n, L, R, Agreed
<1>6. Owes(n - 1, M, Q, wtodo)
  BY <1>5, OwesReturn
<1> QED BY <1>2, <1>6 DEF Agreed, Lefts, Rests, Depth, M, Q, n

LEMMA AgreedSame ==
  ASSUME Agreed, UNCHANGED <<frames, wtodo>>
  PROVE  Agreed'
BY DEF Agreed, Owes, OwesBy, Lefts, Rests, Depth
-----------------------------------------------------------------------------
(* What the parsers find when they read.                                    *)
LEMMA SeqItemFacts ==
  ASSUME SeqHandled, SeqTypes, Agreed, Busy, NEW i \in SeqItems
  PROVE  /\ i \in NextItems /\ i \in Items /\ Head(wtodo) \in Roles
         /\ i.type = "ref" => Parts(i) = <<>> /\ Step \notin {"name", "tagname"}
         /\ i.type # "ref" => i \in NewItems(Head(wtodo)) /\ i.type \in AllKinds
         /\ Step \in {"name", "tagname"} => i.type = "chars" /\ Parts(i) = <<>>
         /\ ContinuesCells(i) => i.type = "list" /\ ~i.attr
         /\ Step = "tag" /\ i.type # "ref" => i.type \in SymbolKinds /\ Parts(i) = <<"chars">>
         /\ i.type \in {"list", "lang"} /\ InAttributes => i.tag /\ ~i.attr
         /\ i.type \in {"list", "lang"} /\ InSkippedS4 => i.tag
<1>1. /\ i \in NextItems
      /\ i.type \in {"list", "lang"} /\ InAttributes => i.tag /\ ~i.attr
      /\ i.type \in {"list", "lang"} /\ InSkippedS4 => i.tag
  BY DEF SeqItems, SeqHandled
<1>2. RTypeOK /\ Head(wtodo) = SeqRoleOf(Step)
  BY AgreedHead DEF SeqTypes
<1>3. /\ wtodo # <<>> /\ Head(wtodo) \in Roles /\ i \in Items
      /\ i.type = "ref" => i \in RefItems(Head(wtodo))
      /\ i.type # "ref" => i \in NewItems(Head(wtodo)) /\ i.type \in AllKinds
  BY <1>1, <1>2, NextItemFacts
<1> DEFINE role == Head(wtodo)
<1> HIDE DEF role
<1>4. role \in Roles /\ role = SeqRoleOf(Step)
  BY <1>2, <1>3 DEF role
<1>5. <<>> \o <<>> \o <<>> = <<>> /\ <<>> \o <<"chars">> \o <<>> = <<"chars">>
  <2>1. <<>> \in Seq(Roles) /\ <<"chars">> \in Seq(Roles)
    BY RoleSeqs
  <2> QED BY <2>1, ConcatEmptySeq
<1>6. ASSUME i.type = "ref"
      PROVE  Parts(i) = <<>> /\ Step \notin {"name", "tagname"}
  <2>1. ~i.attr /\ i \in RefItems(role)
    BY <1>3, <1>6 DEF RefItems, Item, role
  <2>2. Parts(i) = <<>> \o <<>> \o <<>>
    BY <1>6, <2>1 DEF AttrsBefore, Contents, AttrsAfter, Parts, SymbolKinds, AttrFirst
  <2>3. role # "chars"
    <3>1. PICK j \in 1..Len(wtable) : wtable[j] \in KindsOf(role)
      BY <2>1 DEF RefItems
    <3>2. wtable[j] \in RTracked
      BY <1>2, <3>1, ElementOfSeq DEF RTypeOK
    <3> QED BY <3>1, <3>2 DEF KindsOf, RTracked, SymbolKinds, EnvKinds
  <2> QED BY <1>4, <1>5, <2>2, <2>3 DEF SeqRoleOf
<1>7. ASSUME i.type # "ref"
      PROVE  /\ i.type \in KindsOf(role)
             /\ i.attr => i.type \in RAttributed /\ (role = "cdr" => CellAttrs)
             /\ i.tag => i.type = "clo" \/ role = "cell" \/ i.type \in RTagged
  BY <1>2, <1>3, <1>4, <1>7, NewItemFacts DEF role
<1>8. ASSUME Step \in {"name", "tagname"}
      PROVE  i.type = "chars" /\ Parts(i) = <<>>
  <2>1. role = "chars" /\ i.type # "ref"
    BY <1>4, <1>6, <1>8 DEF SeqRoleOf
  <2>2. i.type = "chars" /\ ~i.attr
    <3>1. i.type = "chars" /\ (i.attr => i.type \in RAttributed)
      BY <1>7, <2>1 DEF KindsOf
    <3> QED BY <3>1 DEF RAttributed
  <2>3. Parts(i) = <<>> \o <<>> \o <<>>
    BY <2>2 DEF AttrsBefore, Contents, AttrsAfter, Parts, SymbolKinds, AttrFirst
  <2> QED BY <1>5, <2>2, <2>3
<1>9. ASSUME ContinuesCells(i)
      PROVE  i.type = "list" /\ ~i.attr
  <2>1. Step \in {"next", "vnext"} /\ i.type # "ref" /\ (i.tag \/ i.type \in Pairs)
    BY <1>9 DEF ContinuesCells
  <2>2. role = "cdr"
    BY <1>4, <2>1 DEF SeqRoleOf, RoleOf
  <2>3. i.type \in {"nil", "list"} /\ (i.attr => FALSE) /\ (i.tag => i.type \in {"clo"} \cup RTagged)
    BY <1>7, <2>1, <2>2 DEF KindsOf, SeqHandled
  <2> QED BY <2>1, <2>3 DEF RTagged, Pairs
<1>10. ASSUME Step = "tag", i.type # "ref"
       PROVE  i.type \in SymbolKinds /\ Parts(i) = <<"chars">>
  <2>1. role = "tag"
    BY <1>4, <1>10 DEF SeqRoleOf, RoleOf
  <2>2. i.type \in SymbolKinds /\ ~i.attr
    BY <1>7, <1>10, <2>1 DEF KindsOf, SymbolKinds, RAttributed
  <2>3. Parts(i) = <<>> \o <<"chars">> \o <<>>
    BY <2>2 DEF AttrsBefore, Contents, AttrsAfter, Parts, SymbolKinds, AttrFirst
  <2> QED BY <1>5, <2>2, <2>3
<1> QED BY <1>1, <1>3, <1>6, <1>8, <1>9, <1>10
-----------------------------------------------------------------------------
(* The stack of calls and the reference table.                              *)
LEMMA SlotsGoOn ==
  ASSUME SeqTypes, Slots, Len(frames') = Depth,
         \A k \in 1..Depth : SameCall(frames'[k], frames[k]),
         Len(refs') = Len(wtable'), Len(wtable') \in Nat, Len(wtable) <= Len(wtable'),
         \A k \in 1..Len(wtable) : wtable'[k] = wtable[k]
  PROVE  Slots'
<1>1. Depth \in Nat /\ Len(wtable) \in Nat /\ Len(refs) = Len(wtable)
  BY SeqTop DEF SeqTypes, RTypeOK, Slots
<1>2. \A k \in 1..Depth : frames'[k].ref = frames[k].ref /\ frames'[k].op = frames[k].op
  BY DEF SameCall
<1>3. \A j \in 1..Len(wtable) : j \in 1..Len(wtable')
  BY <1>1
<1>4. \A j, k \in 1..Depth : j < k /\ frames'[k].ref # 0 => frames'[j].ref < frames'[k].ref
  BY <1>2 DEF Slots
<1>5. ASSUME NEW k \in 1..Depth
      PROVE  /\ frames'[k].ref = 0 => frames'[k].op \notin RTracked
             /\ frames'[k].ref # 0 => /\ frames'[k].ref \in 1..Len(refs')
                                      /\ frames'[k].op \in RTracked
                                      /\ wtable'[frames'[k].ref] = frames'[k].op
  <2>1. frames'[k].ref = frames[k].ref /\ frames'[k].op = frames[k].op
    BY <1>2
  <2>2. /\ frames[k].ref = 0 => frames[k].op \notin RTracked
        /\ frames[k].ref # 0 => /\ frames[k].ref \in 1..Len(wtable)
                                /\ frames[k].op \in RTracked
                                /\ wtable[frames[k].ref] = frames[k].op
    BY <1>1 DEF Slots
  <2> QED BY <1>3, <2>1, <2>2
<1> QED BY <1>4, <1>5 DEF Slots, Depth

LEMMA SlotsCall ==
  ASSUME SeqTypes, Slots, Len(frames') = Depth + 1,
         \A k \in 1..Depth : SameCall(frames'[k], frames[k]),
         NEW n, n = Len(wtable), Len(refs') = Len(wtable'),
         \A k \in 1..n : wtable'[k] = wtable[k],
         \/ /\ frames'[Depth + 1].op \notin RTracked /\ frames'[Depth + 1].ref = 0
            /\ Len(wtable') = n
         \/ /\ frames'[Depth + 1].op \in RTracked /\ frames'[Depth + 1].ref = n + 1
            /\ Len(wtable') = n + 1 /\ wtable'[n + 1] = frames'[Depth + 1].op
  PROVE  Slots'
<1>1. Depth \in Nat /\ n \in Nat /\ Len(refs) = n
  BY SeqTop DEF SeqTypes, RTypeOK, Slots
<1>2. \A k \in 1..Depth : frames'[k].ref = frames[k].ref /\ frames'[k].op = frames[k].op
  BY DEF SameCall
<1>3. \A j \in 1..n : j \in 1..Len(wtable')
  BY <1>1
<1>4. ASSUME NEW k \in 1..Depth
      PROVE  /\ frames[k].ref = 0 => frames[k].op \notin RTracked
             /\ frames[k].ref # 0 => /\ frames[k].ref \in 1..n
                                     /\ frames[k].op \in RTracked
                                     /\ wtable[frames[k].ref] = frames[k].op
             /\ frames[k].ref \in 0..n
  <2>1. /\ frames[k].ref = 0 => frames[k].op \notin RTracked
        /\ frames[k].ref # 0 => /\ frames[k].ref \in 1..n
                                /\ frames[k].op \in RTracked
                                /\ wtable[frames[k].ref] = frames[k].op
    BY <1>1 DEF Slots
  <2> QED BY <1>1, <2>1
<1>5. \A k : k \in 1..Depth + 1 <=> k \in 1..Depth \/ k = Depth + 1
  BY <1>1
<1>6. ASSUME NEW k \in 1..Depth + 1
      PROVE  /\ frames'[k].ref = 0 => frames'[k].op \notin RTracked
             /\ frames'[k].ref # 0 => /\ frames'[k].ref \in 1..Len(wtable')
                                      /\ frames'[k].op \in RTracked
                                      /\ wtable'[frames'[k].ref] = frames'[k].op
  <2>1. CASE k \in 1..Depth
    BY <1>2, <1>3, <1>4, <2>1
  <2>2. CASE k = Depth + 1
    BY <1>1, <2>2
  <2> QED BY <1>5, <2>1, <2>2
<1>7. ASSUME NEW j \in 1..Depth + 1, NEW k \in 1..Depth + 1, j < k, frames'[k].ref # 0
      PROVE  frames'[j].ref < frames'[k].ref
  <2>1. j \in 1..Depth
    BY <1>1, <1>7
  <2>2. CASE k \in 1..Depth
    BY <1>2, <1>7, <2>1, <2>2 DEF Slots
  <2>3. CASE k = Depth + 1
    <3>1. frames'[j].ref \in 0..n /\ frames'[k].ref = n + 1
      BY <1>2, <1>4, <1>7, <2>1, <2>3
    <3> QED BY <1>1, <3>1
  <2> QED BY <1>5, <2>2, <2>3
<1> QED BY <1>6, <1>7 DEF Slots, Depth

LEMMA SlotsReturn ==
  ASSUME SeqTypes, Slots, Depth > 1, Len(frames') = Depth - 1,
         \A k \in 1..Depth - 1 : frames'[k] = frames[k],
         Len(refs') = Len(refs), wtable' = wtable
  PROVE  Slots'
<1>1. Depth \in Nat /\ \A k \in 1..Depth - 1 : k \in 1..Depth
  BY SeqTop
<1> QED BY <1>1 DEF Slots, Depth
-----------------------------------------------------------------------------
(* The name of a tag is read next or not at all; until then the slot that   *)
(* its symbol took is the last one, and no call fills it.                   *)
Unnamed == SeqStepNames \ {"tagname"}

NamesOnTop ==
  /\ \A k \in 1..Depth - 1 : frames[k].todo \in Seq(Unnamed)
  /\ Top.todo # <<>> => Rest \in Seq(Unnamed)
  /\ NamePending =>
       /\ refs # <<>> /\ \A k \in 1..Depth : frames[k].ref < Len(refs)
       /\ wtable[Len(refs)] = IF Top.rn THEN "rownames" ELSE "sym"

(* The flags and the mode in which call k runs, and what they say about the *)
(* stack s of calls, what c remembers of each and the policy dec.           *)
SkipAt(s, c, dec, k) == s[k].as = "car" /\ c[k].mode = "skip" /\ dec[c[k - 1].tag] = "skip"
CaptAt(s, c, k)      == s[k].as = "vcar" /\ c[k].mode = "value"
SkipIn(s, c, dec, d) == \E k \in 2..d : SkipAt(s, c, dec, k)
CaptIn(s, c, d)      == \E k \in 2..d : CaptAt(s, c, k)

(* What a call that runs with flags f may still have to read.  The cells of *)
(* the attributes of an S4 object are read by one call of their own.        *)
SkipStepNames == {"vcar", "vnext"}
CellSteps     == {"tag", "tagname", "car", "next"}
Reading(s, k, f) ==
  /\ ~f.lenient => s[k].todo \in Seq(SeqStepNames \ SkipStepNames)
  /\ f.s4tag /\ ~f.lenient =>
       /\ s[k].todo \in Seq(CellSteps)
       /\ s[k].todo # <<>> => k > 1 /\ s[k].as = "attrs" /\ s[k - 1].op = "s4"

Right(s, c, dec, k, f, z) ==
  /\ f \in FlagSet /\ f.root = f.s4tag /\ c[k].forced = f.s4tag
  /\ f.lenient <=> SkipIn(s, c, dec, k)
  /\ ~z => ~Lazy \/ CaptIn(s, c, k)
  /\ Reading(s, k, f)

Known(s, c, dec, d) ==
  \A k \in 2..d : s[k].as = "car" /\ c[k].mode = "skip" => c[k - 1].tag \in DOMAIN dec
Kept(s, c, dec, d) ==
  \A k \in 2..d : Right(s, c, dec, k - 1, c[k].saved, s[k].wasLazy)

FlagsKept ==
  /\ Known(frames, calls, decided, Depth) /\ Kept(frames, calls, decided, Depth)
  /\ Right(frames, calls, decided, Depth, flags, lazy)

SeqInv ==
  Live => /\ SeqTypes /\ Slots /\ NamesOnTop /\ FlagsKept /\ SeqSlotsAligned
          /\ eof = "no" => Agreed

(* What the policy settled stays settled, so what was skipped stays skipped.*)
Settles(dec, new) == \A x \in DOMAIN dec : x \in DOMAIN new /\ new[x] = dec[x]
SameCalls(s, c, t, b, d) ==
  /\ \A k \in 1..d : /\ SameCall(t[k], s[k]) /\ b[k].mode = c[k].mode
                     /\ b[k].forced = c[k].forced /\ b[k].saved = c[k].saved
  /\ \A k \in 1..d - 1 : b[k].tag = c[k].tag /\ t[k].todo = s[k].todo

LEMMA SameCallsBelow ==
  ASSUME NEW s, NEW c, NEW t, NEW b, NEW d \in Nat, SameCalls(s, c, t, b, d), NEW e \in 0..d
  PROVE  SameCalls(s, c, t, b, e)
<1>1. \A k \in 1..e : k \in 1..d
  OBVIOUS
<1>2. \A k \in 1..e - 1 : k \in 1..d - 1
  OBVIOUS
<1> QED BY <1>1, <1>2 DEF SameCalls

LEMMA SameFlags ==
  ASSUME NEW s, NEW c, NEW t, NEW b, NEW d \in Nat, SameCalls(s, c, t, b, d),
         NEW dec, NEW new, Settles(dec, new), Known(s, c, dec, d)
  PROVE  /\ SkipIn(t, b, new, d) <=> SkipIn(s, c, dec, d)
         /\ CaptIn(t, b, d) <=> CaptIn(s, c, d)
         /\ Known(t, b, new, d)
<1>1. ASSUME NEW k \in 2..d
      PROVE  /\ t[k].as = s[k].as /\ b[k].mode = c[k].mode /\ b[k - 1].tag = c[k - 1].tag
             /\ s[k].as = "car" /\ c[k].mode = "skip" =>
                  c[k - 1].tag \in DOMAIN new /\ new[c[k - 1].tag] = dec[c[k - 1].tag]
  <2>1. k \in 1..d /\ k - 1 \in 1..d - 1
    OBVIOUS
  <2>2. t[k].as = s[k].as /\ b[k].mode = c[k].mode /\ b[k - 1].tag = c[k - 1].tag
    BY <2>1 DEF SameCalls, SameCall
  <2> QED BY <2>2 DEF Known, Settles
<1>2. \A k \in 2..d : SkipAt(t, b, new, k) <=> SkipAt(s, c, dec, k)
  BY <1>1 DEF SkipAt
<1>3. \A k \in 2..d : CaptAt(t, b, k) <=> CaptAt(s, c, k)
  BY <1>1 DEF CaptAt
<1>4. Known(t, b, new, d)
  BY <1>1 DEF Known
<1> QED BY <1>2, <1>3, <1>4 DEF SkipIn, CaptIn

(* What a call found is still right when only the calls above it went on.   *)
LEMMA StillRight ==
  ASSUME NEW s, NEW c, NEW t, NEW b, NEW d \in Nat \ {0}, SameCalls(s, c, t, b, d),
         NEW dec, NEW new, Settles(dec, new), Known(s, c, dec, d),
         NEW f, NEW z, Right(s, c, dec, d, f, z), Reading(t, d, f)
  PROVE  Right(t, b, new, d, f, z)
<1>1. /\ SkipIn(t, b, new, d) <=> SkipIn(s, c, dec, d)
      /\ CaptIn(t, b, d) <=> CaptIn(s, c, d)
  BY SameFlags
<1>2. b[d].forced = c[d].forced
  <2>1. d \in 1..d
    OBVIOUS
  <2> QED BY <2>1 DEF SameCalls
<1> QED BY <1>1, <1>2 DEF Right

LEMMA StillKept ==
  ASSUME NEW s, NEW c, NEW t, NEW b, NEW d \in Nat, SameCalls(s, c, t, b, d),
         NEW dec, NEW new, Settles(dec, new), Known(s, c, dec, d), Kept(s, c, dec, d)
  PROVE  Kept(t, b, new, d)
<1> SUFFICES ASSUME NEW k \in 2..d PROVE Right(t, b, new, k - 1, b[k].saved, t[k].wasLazy)
  BY DEF Kept
<1> DEFINE e == k - 1
<1>1. e \in Nat \ {0} /\ e \in 0..d /\ e \in 1..d - 1 /\ k \in 1..d /\ \A j \in 2..e : j \in 2..d
  OBVIOUS
<1>2. Right(s, c, dec, e, c[k].saved, s[k].wasLazy)
  BY DEF Kept
<1>3. b[k].saved = c[k].saved /\ t[k].wasLazy = s[k].wasLazy
  BY <1>1 DEF SameCalls, SameCall
<1>4. SameCalls(s, c, t, b, e)
  BY <1>1, SameCallsBelow
<1>5. Known(s, c, dec, e)
  BY <1>1 DEF Known
<1>6. \A f : Reading(s, e, f) => Reading(t, e, f)
  <2>1. t[e].todo = s[e].todo /\ t[e].as = s[e].as
    <3>1. e \in 1..d
      BY <1>1
    <3> QED BY <1>1, <3>1 DEF SameCalls, SameCall
  <2>2. e > 1 => t[e - 1].op = s[e - 1].op
    <3> SUFFICES ASSUME e > 1 PROVE t[e - 1].op = s[e - 1].op
      OBVIOUS
    <3>1. e - 1 \in 1..d
      BY <1>1
    <3> QED BY <3>1 DEF SameCalls, SameCall
  <2> HIDE DEF e
  <2> QED BY <2>1, <2>2 DEF Reading
<1> HIDE DEF e
<1>7. Reading(t, e, c[k].saved)
  BY <1>2, <1>6 DEF Right
<1>8. Right(t, b, new, e, c[k].saved, s[k].wasLazy)
  BY <1>1, <1>2, <1>4, <1>5, <1>7, StillRight
<1> QED BY <1>3, <1>8 DEF e
-----------------------------------------------------------------------------
(* Which reads a call begins with.                                          *)
PlainSteps == {"early", "attrs", "tag", "car", "next", "name", "elem", "class",
               "state", "altattrs"}

LEMMA ShortSeqs ==
  ASSUME NEW A, PlainSteps \subseteq A
  PROVE  /\ <<>> \in Seq(A) /\ <<"early">> \in Seq(A) /\ <<"attrs">> \in Seq(A)
         /\ <<"tag">> \in Seq(A) /\ <<"name">> \in Seq(A) /\ <<"car", "next">> \in Seq(A)
         /\ <<"class", "state", "altattrs">> \in Seq(A)
         /\ SkipStepNames \subseteq A => <<"vcar", "vnext">> \in Seq(A)
         /\ \A n \in Nat : [j \in 1..n |-> "elem"] \in Seq(A)
<1>1. /\ "early" \in A /\ "attrs" \in A /\ "tag" \in A /\ "car" \in A /\ "next" \in A /\ "name" \in A
      /\ "elem" \in A /\ "class" \in A /\ "state" \in A /\ "altattrs" \in A
  BY DEF PlainSteps
<1>2. \A n \in Nat : [j \in 1..n |-> "elem"] \in Seq(A)
  BY <1>1
<1>3. SkipStepNames \subseteq A => <<"vcar", "vnext">> \in Seq(A)
  <2> SUFFICES ASSUME "vcar" \in A, "vnext" \in A PROVE <<"vcar", "vnext">> \in Seq(A)
    BY DEF SkipStepNames
  <2> QED OBVIOUS
<1>4. <<"early">> \in Seq(A) /\ <<"attrs">> \in Seq(A) /\ <<"tag">> \in Seq(A) /\ <<"name">> \in Seq(A)
  BY <1>1
<1>5. <<"car", "next">> \in Seq(A)
  BY <1>1
<1>6. <<"class", "state", "altattrs">> \in Seq(A)
  BY <1>1
<1> QED BY <1>2, <1>3, <1>4, <1>5, <1>6, EmptySeq

LEMMA SeqStepsIn ==
  ASSUME NEW i \in Items, NEW m, NEW f, NEW A, PlainSteps \subseteq A,
         f.lenient => SkipStepNames \subseteq A
  PROVE  SeqSteps(i, m, f) \in Seq(A)
<1>1. EarlyAttrs(i) \in Seq(A) /\ LateAttrs(i) \in Seq(A)
  BY ShortSeqs DEF EarlyAttrs, LateAttrs
<1>2. TaggedIf(i.tag \/ f.s4tag, "tag") \in Seq(A) /\ TaggedIf(i.tag, "tag") \in Seq(A)
  BY ShortSeqs DEF TaggedIf
<1>3. ParseCells(i, f) \in Seq(A)
  BY <1>2, ShortSeqs, ConcatProperties DEF ParseCells
<1>4. f.lenient => SkipCells(i) \in Seq(A)
  BY <1>2, ShortSeqs, ConcatProperties DEF SkipCells
<1>5. ParseList(i) \in Seq(A) /\ ParseAltrep \in Seq(A)
  <2>1. i.n \in Nat
    BY DEF Items
  <2> QED BY <2>1, ShortSeqs DEF ParseList, ParseAltrep
<1>6. ValueData(i, f) \in Seq(A)
  BY <1>3, <1>4, <1>5, ShortSeqs DEF ValueData, SymbolKinds
<1>7. SkipData(i, f) \in Seq(A)
  BY <1>3, <1>6 DEF SkipData
<1>8. \A d \in Seq(A) : EarlyAttrs(i) \o d \o LateAttrs(i) \in Seq(A)
  BY <1>1, ThreeConcat
<1> QED BY <1>6, <1>7, <1>8 DEF SeqSteps, ValueSteps, SkipSteps

LEMMA StepKinds ==
  /\ PlainSteps \subseteq Unnamed /\ Unnamed \subseteq SeqStepNames
  /\ SkipStepNames \subseteq Unnamed /\ PlainSteps \subseteq SeqStepNames \ SkipStepNames
  /\ CellSteps \subseteq SeqStepNames \ SkipStepNames
BY DEF PlainSteps, Unnamed, SeqStepNames, StepNames, SkipStepNames, CellSteps

(* The reads of a cell that continues a pairlist.                           *)
CellReads(i) ==
  IF Step = "vnext" THEN SkipCells(i)
  ELSE TaggedIf(i.tag \/ Call.forced, "tag") \o <<"car", "next">>

LEMMA CellReadsIn ==
  ASSUME NEW i
  PROVE  /\ CellReads(i) \in Seq(Unnamed)
         /\ Step # "vnext" => CellReads(i) \in Seq(CellSteps)
                              /\ CellReads(i) \in Seq(SeqStepNames \ SkipStepNames)
<1>1. /\ \A b : TaggedIf(b, "tag") = <<"tag">> \/ TaggedIf(b, "tag") = <<>>
      /\ CellReads(i) = (IF Step = "vnext" THEN TaggedIf(i.tag, "tag") \o <<"vcar", "vnext">>
                         ELSE TaggedIf(i.tag \/ Call.forced, "tag") \o <<"car", "next">>)
  BY DEF TaggedIf, CellReads, SkipCells
<1>2. ASSUME NEW A, "tag" \in A, "car" \in A, "next" \in A, NEW b
      PROVE  TaggedIf(b, "tag") \o <<"car", "next">> \in Seq(A)
  <2>1. <<"tag">> \in Seq(A) /\ <<>> \in Seq(A) /\ <<"car", "next">> \in Seq(A)
    BY <1>2, EmptySeq
  <2> QED BY <1>1, <2>1, ConcatProperties
<1>3. TaggedIf(i.tag, "tag") \o <<"vcar", "vnext">> \in Seq(Unnamed)
  <2>1. <<"tag">> \in Seq(Unnamed) /\ <<>> \in Seq(Unnamed) /\ <<"vcar", "vnext">> \in Seq(Unnamed)
    BY StepKinds, ShortSeqs
  <2> QED BY <1>1, <2>1, ConcatProperties
<1>4. /\ "tag" \in Unnamed /\ "car" \in Unnamed /\ "next" \in Unnamed
      /\ "tag" \in CellSteps /\ "car" \in CellSteps /\ "next" \in CellSteps
      /\ "tag" \in SeqStepNames \ SkipStepNames /\ "car" \in SeqStepNames \ SkipStepNames
      /\ "next" \in SeqStepNames \ SkipStepNames
  BY StepKinds DEF CellSteps, PlainSteps
<1> QED BY <1>1, <1>2, <1>3, <1>4

(* What the flags say of the next item.                                     *)
LEMMA ForcedStep ==
  ASSUME SeqTypes, FlagsKept, Busy, flags.s4tag, ~flags.lenient
  PROVE  /\ Step \in CellSteps /\ Rest \in Seq(CellSteps) /\ Depth > 1
         /\ Top.as = "attrs" /\ frames[Depth - 1].op = "s4"
<1>1. /\ Top.todo \in Seq(CellSteps) /\ Top.todo # <<>>
      /\ Depth > 1 /\ Top.as = "attrs" /\ frames[Depth - 1].op = "s4"
  BY DEF FlagsKept, Right, Reading, Busy, Top
<1> QED BY <1>1, HeadTailProperties DEF Step, Rest

LEMMA LenientStep ==
  ASSUME SeqTypes, FlagsKept, Busy, ~flags.lenient
  PROVE  Step \notin SkipStepNames /\ Rest \in Seq(SeqStepNames \ SkipStepNames)
<1>1. Top.todo \in Seq(SeqStepNames \ SkipStepNames) /\ Top.todo # <<>>
  BY DEF FlagsKept, Right, Reading, Busy, Top
<1> QED BY <1>1, HeadTailProperties DEF Step, Rest

LEMMA TagIsThere ==
  ASSUME SeqHandled, SeqTypes, FlagsKept, Agreed, Busy, NEW i \in SeqItems
  PROVE  /\ ContinuesCells(i) /\ Step = "next" /\ Call.forced => i.tag
         /\ \A p : SeqCalls(i) /\ i.type \in {"list", "lang"} /\ ChildFlags(p).s4tag => i.tag
<1>1. flags \in FlagSet /\ Call.forced = flags.s4tag
  BY DEF FlagsKept, Right, Call
<1>2. ASSUME ContinuesCells(i), Step = "next", Call.forced
      PROVE  i.tag
  <2>1. i.type = "list"
    BY <1>2, SeqItemFacts
  <2>2. CASE flags.lenient
    <3>1. InSkippedS4
      BY <1>1, <1>2, <2>2 DEF InSkippedS4
    <3> QED BY <2>1, <3>1, SeqItemFacts
  <2>3. CASE ~flags.lenient
    <3>1. Top.as = "attrs"
      BY <1>1, <1>2, <2>3, ForcedStep
    <3>2. InAttributes
      BY <1>2, <3>1 DEF InAttributes, AttrLists
    <3> QED BY <2>1, <3>2, SeqItemFacts
  <2> QED BY <2>2, <2>3
<1>3. ASSUME NEW p, SeqCalls(i), i.type \in {"list", "lang"}, ChildFlags(p).s4tag
      PROVE  i.tag
  <2>1. CASE Step = "attrs"
    <3>1. InAttributes
      BY <2>1 DEF InAttributes, AttrLists
    <3> QED BY <1>3, <3>1, SeqItemFacts
  <2>2. CASE Step = "car"
    <3>1. ChildFlags(p) = [InValue(flags) EXCEPT !.lenient = @ \/ (AsksSlot /\ p = "skip")]
      BY <2>2 DEF ChildFlags
    <3>2. InValue(flags).s4tag = (flags.s4tag /\ ~Call.forced) /\ InValue(flags) \in FlagSet
      BY <1>1 DEF InValue, FlagSet
    <3>3. ChildFlags(p).s4tag = InValue(flags).s4tag
      BY <3>1, <3>2 DEF FlagSet
    <3> QED BY <1>1, <1>3, <3>2, <3>3
  <2>3. CASE Step \notin {"attrs", "car"}
    <3>1. ChildFlags(p) = flags
      BY <2>3 DEF ChildFlags
    <3>2. CASE flags.lenient
      <4>1. InSkippedS4
        BY <1>3, <3>1, <3>2 DEF InSkippedS4
      <4> QED BY <1>3, <4>1, SeqItemFacts
    <3>3. CASE ~flags.lenient
      <4>1. Step = "next"
        BY <1>3, <2>3, <3>1, <3>3, ForcedStep DEF CellSteps, SeqCalls
      <4> QED BY <1>3, <4>1 DEF SeqCalls, ContinuesCells, Pairs
    <3> QED BY <3>2, <3>3
  <2> QED BY <2>1, <2>2, <2>3
<1> QED BY <1>2, <1>3
-----------------------------------------------------------------------------
(* An item that is read in place: S is what the call reads next instead of  *)
(* its first read, P what R writes for the item, and r whether the tag read *)
(* last is row.names.                                                       *)
GoesOnWith(S, P, r) ==
  /\ Reads(S, P) /\ r \in BOOLEAN
  /\ frames' = Continue(frames, S \o Rest, r) /\ wtodo' = P \o Tail(wtodo)
  /\ UNCHANGED <<inBody, lazy, eof, status, flags>>
  /\ calls' = calls \/ \E id \in Nat : Tagged(id)
  /\ Settles(decided, decided')
  /\ RTypeOK'

(* What becomes of the tables: nothing, a symbol takes a slot, or its name  *)
(* arrives.                                                                 *)
TablesSame  == UNCHANGED <<refs, wtable>>
TakesSlot(k) ==
  /\ k \in SymbolKinds /\ refs' = Append(refs, "null") /\ wtable' = Append(wtable, k)
NameArrives ==
  /\ Step = "tagname" /\ wtable' = wtable
  /\ refs' = [refs EXCEPT ![Len(refs)] = IF Top.rn THEN "rownames" ELSE "sym"]

(* The reads S keep what the flags say of the call.                         *)
Suits(S) ==
  /\ ~flags.lenient => S \in Seq(SeqStepNames \ SkipStepNames)
  /\ flags.s4tag /\ ~flags.lenient => S \in Seq(CellSteps)

LEMMA EmptySuits == Suits(<<>>) /\ <<>> \in Seq(Unnamed) /\ Reads(<<>>, <<>>)
BY EmptySeq, ReadsShort DEF Suits

LEMMA InPlaceReads ==
  ASSUME SeqHandled, SeqTypes, FlagsKept, Agreed, Busy, NEW i \in SeqItems, Live',
         \/ SeqTagRef(i) \/ SeqTagSymbol(i) \/ SeqName(i) \/ SeqCell(i)
         \/ \E p \in Policies \cup {"keep"} : SeqRef(i, p)
  PROVE  \E S, P, r :
           /\ GoesOnWith(S, P, r) /\ Suits(S)
           /\ \/ TablesSame /\ S \in Seq(Unnamed) /\ Step # "tagname"
              \/ TakesSlot(i.type) /\ S = <<"tagname">> /\ r = (i.type = "rownames") /\ Step = "tag"
              \/ NameArrives /\ S = <<>> /\ r = Top.rn
<1>1. /\ Rest \in Seq(SeqStepNames) /\ Top.rn \in BOOLEAN /\ RTypeOK /\ <<>> \o Rest = Rest
      /\ refs \in Seq(Values)
  <2>1. Rest \in Seq(SeqStepNames) /\ Top.rn \in BOOLEAN
    BY SeqTop
  <2> QED BY <2>1, ConcatEmptySeq DEF SeqTypes
<1>2. i \in NextItems /\ i \in Items /\ i.id \in Nat
  BY SeqItemFacts DEF Items
<1>3. Write(i) => /\ wtodo' = Parts(i) \o Tail(wtodo) /\ RTypeOK'
                  /\ i.type \notin RTracked => wtable' = wtable
  BY <1>1, <1>2, WriteFacts DEF Write
<1>4. Settles(decided, decided)
  BY DEF Settles
<1>5. CASE SeqTagRef(i)
  <2>1. i.type = "ref" /\ Step = "tag" /\ Write(i) /\ Tagged(i.id) /\ UNCHANGED <<flags, decided>>
    BY <1>5 DEF SeqTagRef, ReadTagRef
  <2>2. Parts(i) = <<>> /\ i.type \notin RTracked
    BY <2>1, SeqItemFacts DEF RTracked, SymbolKinds, EnvKinds
  <2>3. i.id \in DOMAIN refs \/ i.id \in DOMAIN symbols
    BY <1>5 DEF SeqTagRef, ReadTagRef, Fail, Live
  <2>4. PICK r \in BOOLEAN : frames' = Continue(frames, Rest, r)
    BY <1>5, <2>3 DEF SeqTagRef, ReadTagRef
  <2>5. UNCHANGED <<refs, inBody, lazy, eof, status>>
    BY <1>5, <2>3 DEF SeqTagRef, ReadTagRef
  <2>6. wtodo' = <<>> \o Tail(wtodo) /\ RTypeOK' /\ wtable' = wtable
    BY <1>3, <2>1, <2>2
  <2>7. frames' = Continue(frames, <<>> \o Rest, r)
    BY <1>1, <2>4
  <2>8. GoesOnWith(<<>>, <<>>, r)
    BY <1>2, <1>4, <2>1, <2>5, <2>6, <2>7, EmptySuits DEF GoesOnWith
  <2>9. TablesSame /\ Step # "tagname"
    BY <2>1, <2>5, <2>6 DEF TablesSame
  <2> QED BY <2>8, <2>9, EmptySuits
<1>6. CASE SeqTagSymbol(i)
  <2> DEFINE S == <<"tagname">>
             P == <<"chars">>
             r == i.type = "rownames"
  <2>1. i.type \in SymbolKinds /\ Step = "tag" /\ Write(i) /\ Tagged(i.id) /\ i.type # "ref"
        /\ UNCHANGED <<inBody, lazy, eof, status, flags, decided>>
    BY <1>6 DEF SeqTagSymbol, SymbolKinds
  <2>2. Parts(i) = P
    BY <2>1, SeqItemFacts
  <2>3. refs' = Append(refs, "null") /\ wtable' = Append(wtable, i.type)
    BY <1>6, <2>1 DEF SeqTagSymbol, TagSlot, Write, RTracked
  <2>4. frames' = Continue(frames, S \o Rest, r) /\ r \in BOOLEAN
    BY <1>6 DEF SeqTagSymbol
  <2>5. wtodo' = P \o Tail(wtodo) /\ RTypeOK'
    BY <1>3, <2>1, <2>2
  <2>6. Reads(S, P)
    BY ReadsShort
  <2> HIDE DEF P
  <2>7. GoesOnWith(S, P, r)
    BY <1>2, <1>4, <2>1, <2>4, <2>5, <2>6 DEF GoesOnWith
  <2>8. Suits(S)
    BY DEF Suits, SeqStepNames, SkipStepNames, CellSteps
  <2>9. TakesSlot(i.type)
    BY <2>1, <2>3 DEF TakesSlot
  <2> QED BY <2>1, <2>7, <2>8, <2>9
<1>7. CASE SeqName(i)
  <2>1. Step \in {"name", "tagname"} /\ Write(i)
        /\ UNCHANGED <<inBody, lazy, eof, status, calls, flags, decided>>
    BY <1>7 DEF SeqName, callVars
  <2>2. Parts(i) = <<>> /\ i.type \notin RTracked
    BY <2>1, SeqItemFacts DEF RTracked, SymbolKinds, EnvKinds
  <2>3. frames' = Continue(frames, <<>> \o Rest, Top.rn)
    BY <1>1, <1>7 DEF SeqName
  <2>4. wtodo' = <<>> \o Tail(wtodo) /\ RTypeOK' /\ wtable' = wtable
    BY <1>3, <2>1, <2>2
  <2>5. GoesOnWith(<<>>, <<>>, Top.rn)
    BY <1>1, <1>4, <2>1, <2>3, <2>4, EmptySuits DEF GoesOnWith
  <2>6. CASE Step = "tagname"
    <3>1. NameArrives
      BY <1>7, <2>4, <2>6 DEF SeqName, NameArrives
    <3> QED BY <2>5, <3>1, EmptySuits
  <2>7. CASE Step # "tagname"
    <3>1. TablesSame
      BY <1>7, <2>4, <2>7 DEF SeqName, TablesSame
    <3> QED BY <2>5, <2>7, <3>1, EmptySuits
  <2> QED BY <2>6, <2>7
<1>8. CASE SeqCell(i)
  <2> DEFINE S == CellReads(i)
  <2>1. ContinuesCells(i) /\ Write(i) /\ Tagged(0) /\ Step \in {"next", "vnext"}
        /\ UNCHANGED <<refs, inBody, lazy, eof, status, flags, decided>>
    BY <1>8 DEF SeqCell, ContinuesCells
  <2>2. i.type = "list" /\ ~i.attr
    BY <2>1, SeqItemFacts
  <2>3. frames' = Continue(frames, S \o Rest, FALSE)
    BY <1>8 DEF SeqCell, CellReads
  <2>4. wtodo' = Parts(i) \o Tail(wtodo) /\ RTypeOK' /\ wtable' = wtable
    BY <1>3, <2>1, <2>2 DEF RTracked, SymbolKinds, EnvKinds
  <2>5. Reads(S, Parts(i))
    <3>1. Parts(i) = <<>> \o (IfTagged(i, "tag") \o <<"item", "cdr">>) \o <<>>
      BY <2>2 DEF Parts, AttrsBefore, AttrsAfter, Contents, SymbolKinds
    <3>2. Reads(IfTagged(i, "tag"), IfTagged(i, "tag"))
      BY ReadsShort DEF IfTagged
    <3>3. /\ Reads(IfTagged(i, "tag") \o <<"car", "next">>, IfTagged(i, "tag") \o <<"item", "cdr">>)
          /\ Reads(IfTagged(i, "tag") \o <<"vcar", "vnext">>, IfTagged(i, "tag") \o <<"item", "cdr">>)
      BY <3>2, ReadsShort, ReadsConcat
    <3>4. Step = "next" => TaggedIf(i.tag \/ Call.forced, "tag") = IfTagged(i, "tag")
      BY <2>1, TagIsThere DEF TaggedIf, IfTagged
    <3>5. TaggedIf(i.tag, "tag") = IfTagged(i, "tag")
      BY DEF TaggedIf, IfTagged
    <3>6. Reads(S, IfTagged(i, "tag") \o <<"item", "cdr">>)
      BY <2>1, <3>3, <3>4, <3>5 DEF CellReads, SkipCells
    <3> DEFINE q == IfTagged(i, "tag") \o <<"item", "cdr">>
    <3> HIDE DEF q
    <3>7. q \in Seq(Roles)
      BY <3>6 DEF Reads, q
    <3>8. <<>> \o q \o <<>> = q
      BY <3>7, ConcatEmptySeq
    <3> QED BY <3>1, <3>6, <3>8 DEF q
  <2>6. S \in Seq(Unnamed) /\ Suits(S)
    <3>1. Step = "vnext" => flags.lenient
      BY LenientStep DEF SkipStepNames
    <3> QED BY <3>1, CellReadsIn DEF Suits
  <2> HIDE DEF S
  <2>7. GoesOnWith(S, Parts(i), FALSE)
    BY <1>4, <2>1, <2>3, <2>4, <2>5 DEF GoesOnWith
  <2>8. TablesSame /\ Step # "tagname"
    BY <2>1, <2>4 DEF TablesSame
  <2> QED BY <2>6, <2>7, <2>8
<1>9. ASSUME NEW p \in Policies \cup {"keep"}, SeqRef(i, p)
      PROVE  \E S, P, r : /\ GoesOnWith(S, P, r) /\ Suits(S)
                          /\ TablesSame /\ S \in Seq(Unnamed) /\ Step # "tagname"
  <2>1. SeqCalls(i) /\ i.type = "ref" /\ Write(i) /\ UNCHANGED <<calls, flags>> /\ Decide(p)
    BY <1>9 DEF SeqRef
  <2>2. Parts(i) = <<>> /\ i.type \notin RTracked
    BY <2>1, SeqItemFacts DEF RTracked, SymbolKinds, EnvKinds
  <2>3. frames' = Continue(frames, <<>> \o Rest, Top.rn) /\ UNCHANGED <<refs, inBody, lazy, eof, status>>
    BY <1>1, <1>9 DEF SeqRef, Fail, Live
  <2>4. wtodo' = <<>> \o Tail(wtodo) /\ RTypeOK' /\ wtable' = wtable
    BY <1>3, <2>1, <2>2
  <2>5. Settles(decided, decided')
    BY <2>1 DEF Decide, Settles, PolicyFor
  <2>6. GoesOnWith(<<>>, <<>>, Top.rn)
    BY <1>1, <2>1, <2>3, <2>4, <2>5, EmptySuits DEF GoesOnWith
  <2>7. TablesSame /\ Step # "tagname"
    BY <2>1, <2>3, <2>4 DEF TablesSame, SeqCalls
  <2> QED BY <2>6, <2>7, EmptySuits
<1> QED BY <1>5, <1>6, <1>7, <1>8, <1>9

LEMMA GoesOnKeepsTypes ==
  ASSUME SeqTypes, Busy, NEW S, NEW P, NEW r, GoesOnWith(S, P, r), refs' \in Seq(Values)
  PROVE  /\ SeqTypes' /\ Depth' = Depth
         /\ \A k \in 1..Depth - 1 : frames'[k] = frames[k]
         /\ \A k \in 1..Depth : SameCall(frames'[k], frames[k])
         /\ Top'.todo = S \o Rest /\ Top'.rn = r
         /\ SameCalls(frames, calls, frames', calls', Depth)
<1> DEFINE t == S \o Rest
<1>1. S \in Seq(SeqStepNames) /\ Rest \in Seq(SeqStepNames) /\ r \in BOOLEAN
  BY SeqTop DEF GoesOnWith, Reads
<1>2. t \in Seq(SeqStepNames)
  BY <1>1, ConcatProperties
<1>3. frames' = Continue(frames, t, r)
  BY DEF GoesOnWith
<1> HIDE DEF t
<1>4. /\ frames' \in Seq(FramesIn(SeqStepNames)) /\ frames' # <<>> /\ Len(frames') = Depth
      /\ \A k \in 1..Depth - 1 : frames'[k] = frames[k]
      /\ \A k \in 1..Depth : SameCall(frames'[k], frames[k])
      /\ frames'[Depth].todo = t /\ frames'[Depth].rn = r
  BY <1>1, <1>2, <1>3, SeqGoesOn
<1>5. /\ calls' \in Seq(CallSet) /\ Len(calls') = Depth
      /\ \A k \in 1..Depth - 1 : calls'[k] = calls[k]
      /\ \A k \in 1..Depth : calls'[k].mode = calls[k].mode /\ calls'[k].forced = calls[k].forced
                             /\ calls'[k].saved = calls[k].saved
  <2>1. CASE calls' = calls
    BY <2>1 DEF SeqTypes
  <2>2. CASE \E id \in Nat : Tagged(id)
    BY <2>2, CallTagged
  <2> QED BY <2>1, <2>2 DEF GoesOnWith
<1>6. Depth' = Depth
  BY <1>4 DEF Depth
<1>7. SeqTypes'
  BY <1>4, <1>5, <1>6 DEF SeqTypes, GoesOnWith
<1>8. SameCalls(frames, calls, frames', calls', Depth)
  BY <1>4, <1>5 DEF SameCalls
<1>9. Top' = frames'[Depth]
  BY <1>6 DEF Top
<1> QED BY <1>4, <1>6, <1>7, <1>8, <1>9 DEF t

LEMMA GoesOnKeepsFlags ==
  ASSUME SeqTypes, FlagsKept, Busy, NEW S, NEW P, NEW r, GoesOnWith(S, P, r), Suits(S),
         refs' \in Seq(Values)
  PROVE  FlagsKept'
<1>1. /\ Depth' = Depth /\ SameCalls(frames, calls, frames', calls', Depth)
      /\ \A k \in 1..Depth : SameCall(frames'[k], frames[k])
      /\ Top'.todo = S \o Rest /\ Top' = frames'[Depth] /\ Depth \in Nat \ {0}
  BY GoesOnKeepsTypes, SeqTop DEF Top
<1>2. Settles(decided, decided') /\ flags' = flags /\ lazy' = lazy
  BY DEF GoesOnWith
<1>3. Known(frames', calls', decided', Depth) /\ Kept(frames', calls', decided', Depth)
  BY <1>1, <1>2, SameFlags, StillKept DEF FlagsKept
<1>4. Reading(frames', Depth, flags)
  <2>1. ~flags.lenient => frames'[Depth].todo \in Seq(SeqStepNames \ SkipStepNames)
    BY <1>1, LenientStep, ConcatProperties DEF Suits
  <2>2. ASSUME flags.s4tag, ~flags.lenient
        PROVE  /\ frames'[Depth].todo \in Seq(CellSteps) /\ Depth > 1
               /\ frames'[Depth].as = "attrs" /\ frames'[Depth - 1].op = "s4"
    <3>1. /\ Rest \in Seq(CellSteps) /\ Depth > 1 /\ Top.as = "attrs" /\ frames[Depth - 1].op = "s4"
      BY <2>2, ForcedStep
    <3>2. S \in Seq(CellSteps)
      BY <2>2 DEF Suits
    <3>3. frames'[Depth].todo \in Seq(CellSteps)
      BY <1>1, <3>1, <3>2, ConcatProperties
    <3>4. Depth \in 1..Depth /\ Depth - 1 \in 1..Depth
      BY <1>1, <3>1
    <3>5. frames'[Depth].as = Top.as /\ frames'[Depth - 1].op = frames[Depth - 1].op
      BY <1>1, <3>4 DEF SameCall, Top
    <3> QED BY <3>1, <3>3, <3>5
  <2> QED BY <2>1, <2>2 DEF Reading
<1>5. Right(frames', calls', decided', Depth, flags, lazy)
  <2>1. Known(frames, calls, decided, Depth) /\ Right(frames, calls, decided, Depth, flags, lazy)
    BY DEF FlagsKept
  <2> QED BY <1>1, <1>2, <1>4, <2>1, StillRight
<1> QED BY <1>1, <1>2, <1>3, <1>5 DEF FlagsKept

(* Filling is a set of slots: the calls' slots that are not 0.              *)
LEMMA GoesOnKeepsSlots ==
  ASSUME SeqTypes, Slots, NamesOnTop, SeqSlotsAligned, Live, Busy,
         NEW S, NEW P, NEW r, GoesOnWith(S, P, r), NEW k,
         \/ TablesSame /\ S \in Seq(Unnamed) /\ Step # "tagname"
         \/ TakesSlot(k) /\ S = <<"tagname">> /\ r = (k = "rownames") /\ Step = "tag"
         \/ NameArrives /\ S = <<>> /\ r = Top.rn
  PROVE  refs' \in Seq(Values) /\ Slots' /\ NamesOnTop' /\ SeqSlotsAligned'
<1> DEFINE n == Len(refs)
<1>1. /\ refs \in Seq(Values) /\ n \in Nat /\ n = Len(wtable) /\ wtable \in Seq(RTracked)
      /\ Depth \in Nat \ {0} /\ Rest \in Seq(Unnamed) /\ Top.todo # <<>>
      /\ \A h \in 1..Depth - 1 : frames[h].todo \in Seq(Unnamed)
  <2>1. Depth \in Nat \ {0} /\ Top.todo # <<>>
    BY SeqTop DEF Busy
  <2> QED BY <2>1 DEF SeqTypes, RTypeOK, Slots, NamesOnTop
<1>2. "null" \in Values /\ "sym" \in Values /\ "rownames" \in Values
  BY DEF Values, SymbolKinds
<1>3. ASSUME Step = "tagname"
      PROVE  /\ n # 0 /\ NamePending /\ \A h \in 1..Depth : frames[h].ref < n
             /\ wtable[n] = IF Top.rn THEN "rownames" ELSE "sym"
  <2>1. NamePending
    BY <1>1, <1>3 DEF NamePending
  <2>2. /\ refs # <<>> /\ \A h \in 1..Depth : frames[h].ref < n
        /\ wtable[n] = IF Top.rn THEN "rownames" ELSE "sym"
    BY <2>1 DEF NamesOnTop
  <2>3. n # 0
    BY <1>1, <2>2, EmptySeq
  <2> QED BY <2>1, <2>2, <2>3
<1>4. /\ \A j \in 1..n : refs[j] = IF j \in Filling \/ (Step = "tagname" /\ j = n) THEN "null"
                                   ELSE ValueOf(wtable[j])
  BY <1>1 DEF SeqSlotsAligned, NamePending, Live
<1> HIDE DEF n
<1>5. refs' \in Seq(Values) /\ Len(refs') = Len(wtable') /\ n <= Len(wtable')
      /\ Len(wtable') \in Nat /\ \A j \in 1..n : wtable'[j] = wtable[j]
  <2>1. CASE TablesSame
    BY <1>1, <2>1 DEF TablesSame, n
  <2>2. CASE TakesSlot(k)
    BY <1>1, <1>2, <2>2, AppendProperties DEF TakesSlot, n
  <2>3. CASE NameArrives
    <3>1. n \in 1..n
      BY <1>1, <1>3, <2>3 DEF NameArrives
    <3> DEFINE v == IF Top.rn THEN "rownames" ELSE "sym"
    <3>2. refs' = [refs EXCEPT ![n] = v] /\ wtable' = wtable /\ v \in Values
      BY <1>2, <2>3 DEF NameArrives, n
    <3> HIDE DEF v
    <3>3. refs' \in Seq(Values) /\ Len(refs') = n
      BY <1>1, <3>1, <3>2, ExceptSeq DEF n
    <3> QED BY <1>1, <3>2, <3>3
  <2> QED BY <2>1, <2>2, <2>3
<1>6. /\ Depth' = Depth /\ Len(frames') = Depth
      /\ \A h \in 1..Depth - 1 : frames'[h] = frames[h]
      /\ \A h \in 1..Depth : SameCall(frames'[h], frames[h])
      /\ Top'.todo = S \o Rest /\ Top'.rn = r
  BY <1>5, GoesOnKeepsTypes DEF Depth
<1>7. Slots'
  BY <1>1, <1>5, <1>6, SlotsGoOn
<1>8. Filling' = Filling /\ \A h \in 1..Depth : frames'[h].ref = frames[h].ref
  <2>1. \A h \in 1..Depth : frames'[h].ref = frames[h].ref
    BY <1>6 DEF SameCall
  <2> QED BY <1>6, <2>1, FillingSame
<1>9. \A h \in 1..Depth : frames[h].ref \in 0..n
  BY <1>1 DEF Slots, n
<1>10. /\ Rest' = Tail(S \o Rest) /\ Step' = Head(S \o Rest)
       /\ NamePending' <=> S \o Rest # <<>> /\ Head(S \o Rest) = "tagname"
       /\ Live' /\ (SeqSlotsAligned' <=>
            /\ Len(refs') = Len(wtable')
            /\ \A j \in 1..Len(refs') :
                 refs'[j] = IF j \in Filling \/ (NamePending' /\ j = Len(refs')) THEN "null"
                            ELSE ValueOf(wtable'[j]))
  BY <1>6, <1>8 DEF Rest, Step, NamePending, SeqSlotsAligned, Live, GoesOnWith
<1>11. \A h \in 1..Depth' - 1 : frames'[h].todo \in Seq(Unnamed)
  BY <1>1, <1>6
<1>12. S \in Seq(Unnamed) => /\ S \o Rest \in Seq(Unnamed) /\ ~NamePending'
                             /\ S \o Rest # <<>> => Tail(S \o Rest) \in Seq(Unnamed)
  <2> SUFFICES ASSUME S \in Seq(Unnamed)
               PROVE  /\ S \o Rest \in Seq(Unnamed) /\ ~NamePending'
                      /\ S \o Rest # <<>> => Tail(S \o Rest) \in Seq(Unnamed)
    OBVIOUS
  <2> DEFINE t == S \o Rest
  <2>1. t \in Seq(Unnamed)
    BY <1>1, ConcatProperties
  <2> HIDE DEF t
  <2>2. t # <<>> => Head(t) \in Unnamed /\ Tail(t) \in Seq(Unnamed)
    BY <2>1, HeadTailProperties
  <2> QED BY <1>10, <2>1, <2>2 DEF t, Unnamed
<1>13. CASE TablesSame /\ S \in Seq(Unnamed) /\ Step # "tagname"
  <2>1. NamesOnTop'
    BY <1>6, <1>10, <1>11, <1>12, <1>13 DEF NamesOnTop
  <2>2. SeqSlotsAligned'
    BY <1>1, <1>4, <1>5, <1>10, <1>12, <1>13 DEF TablesSame, n
  <2> QED BY <1>5, <1>7, <2>1, <2>2
<1>14. CASE TakesSlot(k) /\ S = <<"tagname">> /\ r = (k = "rownames") /\ Step = "tag"
  <2>1. /\ refs' = Append(refs, "null") /\ wtable' = Append(wtable, k) /\ k \in {"sym", "rownames"}
    BY <1>14 DEF TakesSlot, SymbolKinds
  <2>2. /\ Len(refs') = n + 1 /\ refs'[n + 1] = "null" /\ \A j \in 1..n : refs'[j] = refs[j]
        /\ Len(wtable') = n + 1 /\ wtable'[n + 1] = k
    BY <1>1, <2>1, AppendProperties DEF n
  <2>3. S \o Rest # <<>> /\ Head(S \o Rest) = "tagname" /\ Tail(S \o Rest) = Rest
    <3>1. S \in Seq(SeqStepNames) /\ S # <<>> /\ Head(S) = "tagname" /\ Tail(S) = <<>>
      BY <1>14 DEF SeqStepNames
    <3> DEFINE t == Rest
    <3>2. t \in Seq(Unnamed)
      BY <1>1
    <3> HIDE DEF t
    <3> QED BY <1>14, <3>2 DEF t
  <2>4. NamePending'
    BY <1>10, <2>3
  <2>5. NamesOnTop'
    <3>1. refs' # <<>>
      BY <1>1, <1>5, <2>2, EmptySeq
    <3>2. \A h \in 1..Depth' : frames'[h].ref < Len(refs')
      <4> SUFFICES ASSUME NEW h \in 1..Depth PROVE frames'[h].ref < Len(refs')
        BY <1>6
      <4>1. frames'[h].ref \in 0..n /\ Len(refs') = n + 1
        BY <1>8, <1>9, <2>2
      <4> QED BY <1>1, <4>1
    <3>3. wtable'[Len(refs')] = IF Top'.rn THEN "rownames" ELSE "sym"
      BY <1>6, <1>14, <2>1, <2>2
    <3> QED BY <1>1, <1>10, <1>11, <2>3, <3>1, <3>2, <3>3 DEF NamesOnTop
  <2>6. SeqSlotsAligned'
    <3>1. ASSUME NEW j \in 1..Len(refs')
          PROVE  refs'[j] = IF j \in Filling \/ (NamePending' /\ j = Len(refs')) THEN "null"
                            ELSE ValueOf(wtable'[j])
      <4>1. CASE j = n + 1
        BY <2>2, <2>4, <4>1
      <4>2. CASE j # n + 1
        <5>1. j \in 1..n /\ j # Len(refs')
          BY <1>1, <2>2, <4>2
        <5> QED BY <1>4, <1>5, <1>14, <2>2, <5>1
      <4> QED BY <4>1, <4>2
    <3> QED BY <1>5, <1>10, <3>1
  <2> QED BY <1>5, <1>7, <2>5, <2>6
<1>15. CASE NameArrives /\ S = <<>> /\ r = Top.rn
  <2>1. /\ Step = "tagname" /\ wtable' = wtable /\ n \in 1..n
        /\ refs' = [refs EXCEPT ![n] = IF Top.rn THEN "rownames" ELSE "sym"]
    BY <1>1, <1>3, <1>15 DEF NameArrives, n
  <2>2. Len(refs') = n /\ refs'[n] = wtable[n] /\ \A j \in 1..n : j # n => refs'[j] = refs[j]
    BY <1>1, <1>3, <2>1 DEF n
  <2>3. S \in Seq(Unnamed)
    BY <1>15, EmptySeq
  <2>4. NamesOnTop'
    BY <1>6, <1>10, <1>11, <1>12, <2>3 DEF NamesOnTop
  <2>5. n \notin Filling /\ ValueOf(wtable[n]) = wtable[n]
    BY <1>1, <1>3, <2>1 DEF Filling, ValueOf
  <2>6. SeqSlotsAligned'
    BY <1>4, <1>5, <1>10, <1>12, <2>1, <2>2, <2>3, <2>5
  <2> QED BY <1>5, <1>7, <2>4, <2>6
<1> QED BY <1>13, <1>14, <1>15
-----------------------------------------------------------------------------
(* An item that gets a call of its own.                                     *)
LEMMA ChildFacts ==
  ASSUME SeqTypes, FlagsKept, NEW p
  PROVE  /\ ChildFlags(p) \in FlagSet /\ ChildFlags(p).root = ChildFlags(p).s4tag
         /\ ChildFlags(p).lenient <=> flags.lenient \/ (AsksSlot /\ p = "skip")
         /\ ChildFlags(p).s4tag =>
              (Step = "attrs" /\ Top.op = "s4") \/ (Step # "car" /\ flags.s4tag)
         /\ ChildMode(p) \in {"value", "skip"}
         /\ ChildLazy(p) <=> lazy /\ ~(AsksCapture /\ p = "capture")
         /\ ChildLazy(p) \in BOOLEAN
<1>1. flags \in FlagSet /\ flags.root = flags.s4tag /\ Call.forced = flags.s4tag
  BY DEF FlagsKept, Right, Call
<1>2. Call \in CallSet /\ Call.mode \in {"value", "skip"} /\ Call.elems \in {"value", "skip"}
  BY SeqTop DEF CallSet
<1>3. ChildMode(p) \in {"value", "skip"}
  BY <1>2 DEF ChildMode
<1>4. ChildLazy(p) = (lazy /\ ~(AsksCapture /\ p = "capture")) /\ lazy \in BOOLEAN
  BY DEF ChildLazy, SeqTypes
<1>5. CASE Step = "attrs" /\ Top.op = "s4"
  <2>1. ChildFlags(p) = [flags EXCEPT !.s4tag = TRUE, !.root = TRUE]
    BY <1>5 DEF ChildFlags
  <2>2. ~AsksSlot
    BY <1>5 DEF AsksSlot
  <2> DEFINE g == [flags EXCEPT !.s4tag = TRUE, !.root = TRUE]
  <2>3. /\ g \in FlagSet /\ g.root = g.s4tag /\ g.lenient = flags.lenient
    BY <1>1 DEF FlagSet
  <2> HIDE DEF g
  <2>4. ChildFlags(p) = g
    BY <2>1 DEF g
  <2> QED BY <1>1, <1>3, <1>4, <1>5, <2>2, <2>3, <2>4
<1>6. CASE Step = "car"
  <2> DEFINE g == InValue(flags)
             v == flags.lenient \/ (AsksSlot /\ p = "skip")
  <2>1. g = [s4tag |-> FALSE, root |-> FALSE, lenient |-> flags.lenient]
    <3>1. g = [flags EXCEPT !.s4tag = flags.s4tag /\ ~Call.forced, !.root = flags.root /\ ~Call.forced]
      BY <1>1 DEF InValue, FlagSet
    <3>2. (flags.s4tag /\ ~Call.forced) = FALSE /\ (flags.root /\ ~Call.forced) = FALSE
      BY <1>1 DEF FlagSet
    <3>3. g = [flags EXCEPT !.s4tag = FALSE, !.root = FALSE]
      BY <3>1, <3>2
    <3> QED BY <1>1, <3>3 DEF FlagSet
  <2>2. ChildFlags(p) = [g EXCEPT !.lenient = g.lenient \/ (AsksSlot /\ p = "skip")]
    BY <1>6, <2>1 DEF ChildFlags
  <2>3. v \in BOOLEAN /\ g.lenient = flags.lenient
    BY <1>1, <2>1 DEF FlagSet
  <2>4. ChildFlags(p) = [g EXCEPT !.lenient = v]
    BY <2>2, <2>3
  <2> HIDE DEF v, g
  <2>5. ChildFlags(p) = [s4tag |-> FALSE, root |-> FALSE, lenient |-> v]
    BY <2>1, <2>4
  <2>6. /\ ChildFlags(p) \in FlagSet /\ ChildFlags(p).root = ChildFlags(p).s4tag
        /\ ChildFlags(p).s4tag = FALSE /\ ChildFlags(p).lenient = v
    BY <2>3, <2>5 DEF FlagSet
  <2>7. ChildFlags(p).lenient <=> flags.lenient \/ (AsksSlot /\ p = "skip")
    BY <2>6 DEF v
  <2> QED BY <1>3, <1>4, <2>6, <2>7
<1>7. CASE ~(Step = "attrs" /\ Top.op = "s4") /\ Step # "car"
  <2>1. ChildFlags(p) = flags
    BY <1>7 DEF ChildFlags
  <2>2. ~AsksSlot
    BY <1>7 DEF AsksSlot
  <2> QED BY <1>1, <1>3, <1>4, <1>7, <2>1, <2>2
<1> QED BY <1>5, <1>6, <1>7

LEMMA CallShape ==
  ASSUME SeqHandled, SeqTypes, Slots, FlagsKept, Agreed, Busy, NEW i \in SeqItems,
         NEW p \in Policies \cup {"keep"}, NEW long \in BOOLEAN, SeqObject(i, p, long),
         NEW t, t = SeqSteps(i, ChildMode(p), ChildFlags(p)),
         NEW n, n = IF i.type \in RTracked THEN Len(refs) + 1 ELSE 0
  PROVE  LET f == NewFrame(i.type, Step, t, n, ~i.attr) IN
         /\ f \in FramesIn(SeqStepNames)
         /\ frames' = Append(Continue(frames, Rest, Top.rn), f)
         /\ Reads(t, Parts(i)) /\ wtodo' = Parts(i) \o Tail(wtodo)
<1>1. i \in Items /\ i.type \in AllKinds /\ Head(wtodo) \in Roles /\ i \in NewItems(Head(wtodo))
      /\ i.type # "ref" /\ SeqCalls(i)
  BY SeqItemFacts DEF SeqObject
<1>2. RTypeOK /\ refs \in Seq(Values) /\ wtodo # <<>>
  BY AgreedHead DEF SeqTypes
<1>3. i.type \in {"list", "lang"} /\ ChildFlags(p).s4tag => i.tag
  BY <1>1, TagIsThere
<1>4. Reads(t, Parts(i))
  <2> DEFINE m == ChildMode(p)
             f == ChildFlags(p)
  <2>1. (i.type \in {"list", "lang"} /\ f.s4tag => i.tag) /\ t = SeqSteps(i, m, f)
    BY <1>3
  <2> HIDE DEF m, f
  <2> QED BY <1>1, <1>2, <2>1, SeqStepsMatch
<1>5. ~Skimmed(i, long)
  <2>1. long => i.type \in {"vec", "expr"} \/ Skimmed(i, "namedStrings" \in Misread)
    BY DEF SeqObject
  <2>2. ~("namedStrings" \in Misread)
    BY DEF SeqHandled
  <2> QED BY <2>1, <2>2 DEF Skimmed
<1>6. frames' = Append(Continue(frames, Rest, Top.rn), NewFrame(i.type, Step, t, n, ~i.attr))
  BY <1>5 DEF SeqObject, Tracked
<1>7. wtodo' = Parts(i) \o Tail(wtodo)
  BY DEF SeqObject, Write
<1>8. n \in Nat
  BY <1>2
<1>9. NewFrame(i.type, Step, t, n, ~i.attr) \in FramesIn(SeqStepNames)
  <2>1. t \in Seq(SeqStepNames) /\ Step \in SeqStepNames
    BY <1>4, SeqTop DEF Reads
  <2>2. (~i.attr) \in BOOLEAN
    OBVIOUS
  <2> QED BY <1>1, <1>2, <1>8, <2>1, <2>2, SeqNewFrame
<1> QED BY <1>4, <1>6, <1>7, <1>9

LEMMA CallKeepsTypes ==
  ASSUME SeqHandled, SeqTypes, Slots, FlagsKept, Agreed, Busy, NEW i \in SeqItems,
         NEW p \in Policies \cup {"keep"}, NEW long \in BOOLEAN, SeqObject(i, p, long)
  PROVE  /\ SeqTypes' /\ Depth' = Depth + 1
         /\ \A k \in 1..Depth - 1 : frames'[k] = frames[k]
         /\ SameCalls(frames, calls, frames', calls', Depth)
         /\ calls'[Depth].tag = Call.tag
         /\ calls'[Depth + 1].mode = ChildMode(p) /\ calls'[Depth + 1].saved = flags
         /\ calls'[Depth + 1].forced = ChildFlags(p).s4tag
         /\ frames'[Depth].todo = Rest
         /\ frames'[Depth + 1] = NewFrame(i.type, Step, SeqSteps(i, ChildMode(p), ChildFlags(p)),
                                   IF i.type \in RTracked THEN Len(refs) + 1 ELSE 0, ~i.attr)
<1> DEFINE n == IF i.type \in RTracked THEN Len(refs) + 1 ELSE 0
           t == SeqSteps(i, ChildMode(p), ChildFlags(p))
           f == NewFrame(i.type, Step, t, n, ~i.attr)
           c == NewCall(ChildMode(p), ChildFlags(p), ChildLazy(p), long)
<1>1. f \in FramesIn(SeqStepNames) /\ frames' = Append(Continue(frames, Rest, Top.rn), f)
  <2> HIDE DEF n, t
  <2> QED BY CallShape DEF n, t
<1>2. Rest \in Seq(SeqStepNames) /\ Top.rn \in BOOLEAN /\ Depth \in Nat \ {0} /\ Call = calls[Depth]
  BY SeqTop DEF Call
<1>3. c \in CallSet /\ c.mode = ChildMode(p) /\ c.saved = flags /\ c.forced = ChildFlags(p).s4tag
  <2>1. ChildMode(p) \in {"value", "skip"} /\ ChildFlags(p) \in FlagSet /\ flags \in FlagSet
    BY ChildFacts DEF SeqTypes
  <2>2. ElemMode(ChildMode(p), ChildLazy(p), long) \in {"value", "skip"}
    BY DEF ElemMode
  <2>3. ChildFlags(p).s4tag \in BOOLEAN
    BY <2>1 DEF FlagSet
  <2> QED BY <2>1, <2>2, <2>3 DEF NewCall, CallSet
<1>4. calls' = Append(calls, c) /\ calls \in Seq(CallSet) /\ Len(calls) = Depth
  BY DEF SeqObject, SeqTypes
<1> HIDE DEF f, c
<1>5. /\ calls' \in Seq(CallSet) /\ Len(calls') = Depth + 1 /\ calls'[Depth + 1] = c
      /\ \A k \in 1..Depth : calls'[k] = calls[k]
  BY <1>3, <1>4, AppendProperties
<1>6. /\ frames' \in Seq(FramesIn(SeqStepNames)) /\ frames' # <<>> /\ Len(frames') = Depth + 1
      /\ \A k \in 1..Depth - 1 : frames'[k] = frames[k]
      /\ \A k \in 1..Depth : SameCall(frames'[k], frames[k])
      /\ frames'[Depth].todo = Rest /\ frames'[Depth + 1] = f
  BY <1>1, <1>2, SeqPushes
<1>7. refs' \in Seq(Values) /\ inBody' \in BOOLEAN /\ lazy' \in BOOLEAN /\ flags' \in FlagSet
  <2>1. refs \in Seq(Values) /\ "null" \in Values /\ inBody \in BOOLEAN
    BY DEF SeqTypes, Values
  <2>2. refs' \in Seq(Values) /\ inBody' = inBody
    BY <2>1, AppendProperties DEF SeqObject
  <2> QED BY <2>1, <2>2, ChildFacts DEF SeqObject
<1>8. RTypeOK'
  <2>1. i \in NextItems /\ RTypeOK /\ Write(i)
    BY SeqItemFacts DEF SeqTypes, SeqObject
  <2> QED BY <2>1, WriteFacts
<1>9. SeqTypes' /\ Depth' = Depth + 1
  BY <1>5, <1>6, <1>7, <1>8 DEF SeqTypes, Depth
<1>10. SameCalls(frames, calls, frames', calls', Depth)
  <2>1. \A k \in 1..Depth - 1 : k \in 1..Depth
    BY <1>2
  <2> QED BY <1>5, <1>6, <2>1 DEF SameCalls
<1>11. calls'[Depth].tag = Call.tag
  <2>1. Depth \in 1..Depth
    BY <1>2
  <2> QED BY <1>2, <1>5, <2>1
<1> QED BY <1>3, <1>5, <1>6, <1>9, <1>10, <1>11 DEF f

LEMMA SeqCallKeepsFlags ==
  ASSUME SeqHandled, SeqTypes, Slots, FlagsKept, Agreed, Busy, NEW i \in SeqItems,
         NEW p \in Policies \cup {"keep"}, NEW long \in BOOLEAN, SeqObject(i, p, long)
  PROVE  FlagsKept'
<1> DEFINE d == Depth
           f == ChildFlags(p)
           z == ChildLazy(p)
           t == SeqSteps(i, ChildMode(p), f)
           new == decided'
<1>1. /\ Depth' = d + 1 /\ SameCalls(frames, calls, frames', calls', d)
      /\ calls'[d].tag = Call.tag
      /\ calls'[d + 1].mode = ChildMode(p) /\ calls'[d + 1].saved = flags
      /\ calls'[d + 1].forced = f.s4tag
      /\ frames'[d].todo = Rest
      /\ frames'[d + 1].as = Step /\ frames'[d + 1].todo = t /\ frames'[d + 1].wasLazy = lazy
  <2> DEFINE n == IF i.type \in RTracked THEN Len(refs) + 1 ELSE 0
  <2>1. frames'[d + 1] = NewFrame(i.type, Step, t, n, ~i.attr)
    BY CallKeepsTypes
  <2> HIDE DEF n, t
  <2>2. frames'[d + 1].as = Step /\ frames'[d + 1].todo = t /\ frames'[d + 1].wasLazy = lazy
    BY <2>1 DEF NewFrame
  <2>3. /\ Depth' = d + 1 /\ SameCalls(frames, calls, frames', calls', d)
        /\ calls'[d].tag = Call.tag
        /\ calls'[d + 1].mode = ChildMode(p) /\ calls'[d + 1].saved = flags
        /\ calls'[d + 1].forced = f.s4tag /\ frames'[d].todo = Rest
    BY CallKeepsTypes
  <2> QED BY <2>2, <2>3
<1>2. /\ f \in FlagSet /\ f.root = f.s4tag
      /\ f.lenient <=> flags.lenient \/ (AsksSlot /\ p = "skip")
      /\ f.s4tag => (Step = "attrs" /\ Top.op = "s4") \/ (Step # "car" /\ flags.s4tag)
      /\ z <=> lazy /\ ~(AsksCapture /\ p = "capture")
  BY ChildFacts
<1>3. /\ d \in Nat \ {0} /\ flags' = f /\ lazy' = z /\ SeqCalls(i) /\ Decide(p)
      /\ i \in Items /\ i.type # "ref"
  BY SeqTop, SeqItemFacts DEF SeqObject
<1>4. /\ Known(frames, calls, decided, d) /\ Kept(frames, calls, decided, d)
      /\ Right(frames, calls, decided, d, flags, lazy)
  BY DEF FlagsKept
<1>5. Settles(decided, new)
  BY <1>3 DEF Decide, Settles, PolicyFor
<1> HIDE DEF f, z, t, new
<1>6. /\ Known(frames', calls', new, d) /\ Kept(frames', calls', new, d)
      /\ SkipIn(frames', calls', new, d) <=> flags.lenient
      /\ CaptIn(frames', calls', d) <=> CaptIn(frames, calls, d)
  <2>1. /\ Known(frames', calls', new, d)
        /\ SkipIn(frames', calls', new, d) <=> SkipIn(frames, calls, decided, d)
        /\ CaptIn(frames', calls', d) <=> CaptIn(frames, calls, d)
    BY <1>1, <1>3, <1>4, <1>5, SameFlags
  <2>2. Kept(frames', calls', new, d)
    BY <1>1, <1>3, <1>4, <1>5, StillKept
  <2> QED BY <1>4, <2>1, <2>2 DEF Right
<1>7. Right(frames', calls', new, d, flags, lazy)
  <2>1. Reading(frames', d, flags)
    <3>1. ~flags.lenient => Rest \in Seq(SeqStepNames \ SkipStepNames)
      BY LenientStep
    <3>2. ASSUME flags.s4tag, ~flags.lenient
          PROVE  /\ Rest \in Seq(CellSteps) /\ d > 1
                 /\ frames'[d].as = "attrs" /\ frames'[d - 1].op = "s4"
      <4>1. /\ Rest \in Seq(CellSteps) /\ d > 1 /\ Top.as = "attrs" /\ frames[d - 1].op = "s4"
        BY <3>2, ForcedStep
      <4>2. d \in 1..d /\ d - 1 \in 1..d
        BY <1>3, <4>1
      <4> QED BY <1>1, <4>1, <4>2 DEF SameCalls, SameCall, Top
    <3> QED BY <1>1, <3>1, <3>2 DEF Reading
  <2> QED BY <1>1, <1>3, <1>4, <1>5, <2>1, StillRight
<1>8. Kept(frames', calls', new, d + 1)
  <2>1. \A k \in 2..d + 1 : k \in 2..d \/ (k = d + 1 /\ k - 1 = d)
    BY <1>3
  <2> QED BY <1>1, <1>6, <1>7, <2>1 DEF Kept
(* A slot is skipped when the policy said so just now.                      *)
<1>9. Step = "car" => (ChildMode(p) = "skip" <=> AsksSlot /\ p \in {"drop", "skip"})
  BY DEF ChildMode
<1>10. AsksSlot => Call.tag \in DOMAIN new /\ new[Call.tag] = p
  BY <1>3 DEF Decide, Asks, new
<1>11. (d + 1) - 1 = d /\ \A k : k \in 2..d + 1 <=> k \in 2..d \/ k = d + 1
  BY <1>3
<1>12. Known(frames', calls', new, d + 1)
  BY <1>1, <1>6, <1>9, <1>10, <1>11 DEF Known
<1>13. f.lenient <=> SkipIn(frames', calls', new, d + 1)
  <2>1. SkipIn(frames', calls', new, d + 1)
          <=> SkipIn(frames', calls', new, d) \/ SkipAt(frames', calls', new, d + 1)
    BY <1>11 DEF SkipIn
  <2>2. SkipAt(frames', calls', new, d + 1) <=> AsksSlot /\ p = "skip"
    <3>1. AsksSlot => Step = "car"
      BY DEF AsksSlot
    <3>2. SkipAt(frames', calls', new, d + 1)
            <=> Step = "car" /\ ChildMode(p) = "skip" /\ new[Call.tag] = "skip"
      BY <1>1, <1>11 DEF SkipAt
    <3> QED BY <1>9, <1>10, <3>1, <3>2
  <2> QED BY <1>2, <1>6, <2>1, <2>2
<1>14. ~z => ~Lazy \/ CaptIn(frames', calls', d + 1)
  <2>1. CASE ~lazy
    <3>1. ~Lazy \/ CaptIn(frames', calls', d)
      BY <1>4, <1>6, <2>1 DEF Right
    <3> QED BY <1>11, <3>1 DEF CaptIn
  <2>2. CASE AsksCapture /\ p = "capture"
    <3>1. Step = "vcar" /\ ChildMode(p) = "value"
      BY <2>2 DEF AsksCapture, ChildMode
    <3>2. CaptAt(frames', calls', d + 1)
      BY <1>1, <3>1 DEF CaptAt
    <3> QED BY <1>11, <3>2 DEF CaptIn
  <2> QED BY <1>2, <2>1, <2>2
<1>15. Reading(frames', d + 1, f)
  <2>1. ~f.lenient => t \in Seq(SeqStepNames \ SkipStepNames)
    BY <1>3, SeqStepsIn, StepKinds DEF t
  <2>2. ASSUME f.s4tag, ~f.lenient
        PROVE  t \in Seq(CellSteps)
               /\ (t # <<>> => d + 1 > 1 /\ Step = "attrs" /\ frames'[d].op = "s4")
    <3>1. CASE Step = "attrs" /\ Top.op = "s4"
      <4>1. Head(wtodo) = "cell"
        BY <3>1, AgreedHead DEF SeqRoleOf, RoleOf
      <4>2. i.type = "list"
        <5>1. i \in NewItems(Head(wtodo)) /\ RTypeOK /\ Head(wtodo) \in Roles
          BY <1>3, SeqItemFacts DEF SeqTypes
        <5>2. i.type \in KindsOf(Head(wtodo))
          BY <5>1, NewItemFacts
        <5> QED BY <4>1, <5>2 DEF KindsOf
      <4>3. i.tag /\ ~i.attr
        <5>1. InAttributes
          BY <3>1 DEF InAttributes, AttrLists
        <5> QED BY <4>2, <5>1, SeqItemFacts
      <4>4. t = <<>> \o (<<"tag">> \o <<"car", "next">>) \o <<>>
        BY <2>2, <4>2, <4>3
        DEF t, SeqSteps, ValueSteps, SkipSteps, EarlyAttrs, LateAttrs, ValueData, SkipData,
            SymbolKinds, ParseCells, TaggedIf
      <4>5. t \in Seq(CellSteps)
        <5>1. <<"tag">> \in Seq(CellSteps) /\ <<"car", "next">> \in Seq(CellSteps) /\ <<>> \in Seq(CellSteps)
          <6>1. "tag" \in CellSteps /\ "car" \in CellSteps /\ "next" \in CellSteps
            BY DEF CellSteps
          <6> QED BY <6>1
        <5>2. <<"tag">> \o <<"car", "next">> \in Seq(CellSteps)
          BY <5>1, ConcatProperties
        <5> QED BY <4>4, <5>1, <5>2, ThreeConcat
      <4>6. frames'[d].op = "s4"
        <5>1. d \in 1..d
          BY <1>3
        <5> QED BY <1>1, <3>1, <5>1 DEF SameCalls, SameCall, Top
      <4> QED BY <1>3, <3>1, <4>5, <4>6
    <3>2. CASE ~(Step = "attrs" /\ Top.op = "s4")
      <4>1. Step # "car" /\ flags.s4tag /\ ~flags.lenient
        BY <1>2, <2>2, <3>2
      <4>2. Step = "next"
        BY <1>3, <4>1, ForcedStep DEF CellSteps, SeqCalls
      <4>3. Head(wtodo) = "cdr"
        BY <4>2, AgreedHead DEF SeqRoleOf, RoleOf
      <4>4. i.type \in {"nil", "list"} /\ (i.attr => i.type \in RAttributed)
        <5>1. i \in NewItems(Head(wtodo)) /\ RTypeOK /\ Head(wtodo) \in Roles
          BY <1>3, SeqItemFacts DEF SeqTypes
        <5>2. i.type \in KindsOf(Head(wtodo)) /\ (i.attr => i.type \in RAttributed)
          BY <5>1, NewItemFacts
        <5> QED BY <4>3, <5>2 DEF KindsOf
      <4>5. i.type = "nil" /\ ~i.attr
        BY <1>3, <4>2, <4>4 DEF SeqCalls, ContinuesCells, Pairs, RAttributed
      <4>6. t = <<>> \o <<>> \o <<>>
        BY <4>5 DEF t, SeqSteps, ValueSteps, SkipSteps, EarlyAttrs, LateAttrs, ValueData,
                    SkipData, SymbolKinds
      <4>7. t = <<>>
        BY <4>6, EmptySeq, ConcatEmptySeq
      <4> QED BY <4>7, EmptySeq
    <3> QED BY <3>1, <3>2
  <2> QED BY <1>1, <1>11, <2>1, <2>2 DEF Reading
<1>16. Right(frames', calls', new, d + 1, f, z)
  BY <1>1, <1>2, <1>13, <1>14, <1>15 DEF Right
<1> QED BY <1>1, <1>3, <1>8, <1>12, <1>16 DEF FlagsKept, new

LEMMA SeqCallKeepsSlots ==
  ASSUME SeqHandled, SeqTypes, Slots, FlagsKept, Agreed, NamesOnTop, SeqSlotsAligned, Live, Busy,
         NEW i \in SeqItems,
         NEW p \in Policies \cup {"keep"}, NEW long \in BOOLEAN, SeqObject(i, p, long)
  PROVE  Slots' /\ NamesOnTop' /\ SeqSlotsAligned'
<1> DEFINE n == Len(wtable)
           x == IF i.type \in RTracked THEN n + 1 ELSE 0
           t == SeqSteps(i, ChildMode(p), ChildFlags(p))
           f == NewFrame(i.type, Step, t, x, ~i.attr)
<1>1. /\ refs \in Seq(Values) /\ n \in Nat /\ n = Len(refs) /\ wtable \in Seq(RTracked)
      /\ Depth \in Nat \ {0} /\ Rest \in Seq(Unnamed) /\ Top.todo # <<>>
      /\ \A h \in 1..Depth - 1 : frames[h].todo \in Seq(Unnamed)
  <2>1. Depth \in Nat \ {0} /\ Top.todo # <<>>
    BY SeqTop DEF Busy
  <2> QED BY <2>1 DEF SeqTypes, RTypeOK, Slots, NamesOnTop
<1>2. /\ Depth' = Depth + 1 /\ \A k \in 1..Depth - 1 : frames'[k] = frames[k]
      /\ \A k \in 1..Depth : SameCall(frames'[k], frames[k])
      /\ frames'[Depth].todo = Rest /\ frames'[Depth + 1] = f
  <2> HIDE DEF f, t, x
  <2>1. x = IF i.type \in RTracked THEN Len(refs) + 1 ELSE 0
    BY <1>1 DEF x
  <2>2. frames'[Depth + 1] = f
    BY <2>1, CallKeepsTypes DEF f, t
  <2> QED BY <2>2, CallKeepsTypes DEF SameCalls
<1>3. t \in Seq(Unnamed)
  <2>1. i \in Items
    BY SeqItemFacts
  <2> QED BY <2>1, SeqStepsIn, StepKinds
<1>4. f.op = i.type /\ f.ref = x /\ f.todo = t
  BY DEF NewFrame
<1>5. /\ i.type \notin RTracked => refs' = refs /\ wtable' = wtable
      /\ i.type \in RTracked => refs' = Append(refs, "null") /\ wtable' = Append(wtable, i.type)
  BY DEF SeqObject, Write, Tracked
<1> HIDE DEF f, t
<1>6. Depth' = Len(frames')
  BY DEF Depth
<1>7. /\ Len(refs') = Len(wtable') /\ \A k \in 1..n : wtable'[k] = wtable[k] /\ refs'[k] = refs[k]
      /\ i.type \notin RTracked => Len(wtable') = n
      /\ i.type \in RTracked => Len(wtable') = n + 1 /\ wtable'[n + 1] = i.type /\ refs'[n + 1] = "null"
  <2>1. "null" \in Values
    BY DEF Values
  <2>2. CASE i.type \in RTracked
    <3> DEFINE kk == i.type
    <3>1. kk \in RTracked /\ refs' = Append(refs, "null") /\ wtable' = Append(wtable, kk)
      BY <1>5, <2>2
    <3> HIDE DEF kk
    <3>2. Len(refs') = n + 1 /\ refs'[n + 1] = "null" /\ \A k \in 1..n : refs'[k] = refs[k]
      BY <1>1, <2>1, <3>1, AppendProperties
    <3>3. Len(wtable') = n + 1 /\ wtable'[n + 1] = kk /\ \A k \in 1..n : wtable'[k] = wtable[k]
      BY <1>1, <3>1, AppendProperties
    <3> QED BY <2>2, <3>2, <3>3 DEF kk
  <2> QED BY <1>1, <1>5, <2>2
<1> HIDE DEF n
<1>8. Slots'
  <2>1. \/ /\ frames'[Depth + 1].op \notin RTracked /\ frames'[Depth + 1].ref = 0
           /\ Len(wtable') = n
        \/ /\ frames'[Depth + 1].op \in RTracked /\ frames'[Depth + 1].ref = n + 1
           /\ Len(wtable') = n + 1 /\ wtable'[n + 1] = frames'[Depth + 1].op
    BY <1>2, <1>4, <1>7
  <2>2. n = Len(wtable) /\ Len(frames') = Depth + 1
    BY <1>2, <1>6 DEF n
  <2> QED BY <1>2, <1>7, <2>1, <2>2, SlotsCall
<1>9. ~NamePending /\ ~NamePending' /\ NamesOnTop'
  <2>1. Top' = f
    BY <1>2 DEF Top
  <2>2. t # <<>> => Head(t) \in Unnamed /\ Tail(t) \in Seq(Unnamed)
    BY <1>3, HeadTailProperties
  <2>3. (Top.todo # <<>>)' = (t # <<>>) /\ (t # <<>> => Step' = Head(t) /\ Rest' = Tail(t))
    BY <1>4, <2>1 DEF Step, Rest
  <2>4. ~NamePending'
    BY <1>4, <2>1, <2>2, <2>3 DEF NamePending, Unnamed
  <2>5. ~NamePending
    BY DEF NamePending, SeqObject, SeqCalls
  <2>6. \A h \in 1..Depth' - 1 : frames'[h].todo \in Seq(Unnamed)
    <3> SUFFICES ASSUME NEW h \in 1..Depth PROVE frames'[h].todo \in Seq(Unnamed)
      BY <1>1, <1>2
    <3>1. CASE h = Depth
      BY <1>1, <1>2, <3>1
    <3>2. CASE h # Depth
      <4>1. h \in 1..Depth - 1
        BY <1>1, <3>2
      <4> QED BY <1>1, <1>2, <4>1
    <3> QED BY <3>1, <3>2
  <2>7. Top'.todo # <<>> => Rest' \in Seq(Unnamed)
    BY <1>4, <2>1, <2>2, <2>3
  <2> QED BY <2>4, <2>5, <2>6, <2>7 DEF NamesOnTop
<1>10. Filling' = (Filling \cup {x}) \ {0}
  <2>1. Filling' = {frames'[k].ref : k \in 1..Depth + 1} \ {0}
    BY <1>2 DEF Filling
  <2>2. \A k \in 1..Depth : frames'[k].ref = frames[k].ref
    BY <1>2 DEF SameCall
  <2>3. frames'[Depth + 1].ref = x
    BY <1>2, <1>4
  <2>4. \A k : k \in 1..Depth + 1 <=> k \in 1..Depth \/ k = Depth + 1
    BY <1>1
  <2> HIDE DEF x
  <2> QED BY <2>1, <2>2, <2>3, <2>4 DEF Filling
<1>11. \A j \in 1..n : (j \in Filling' <=> j \in Filling)
                       /\ refs[j] = IF j \in Filling THEN "null" ELSE ValueOf(wtable[j])
  <2>1. \A j \in 1..n : j # 0 /\ j # x
    BY <1>1
  <2>2. \A j \in 1..n : refs[j] = IF j \in Filling THEN "null" ELSE ValueOf(wtable[j])
    BY <1>1, <1>9 DEF SeqSlotsAligned, Live
  <2> HIDE DEF x
  <2> QED BY <1>10, <2>1, <2>2
<1>12. ASSUME NEW j \in 1..Len(refs')
       PROVE  refs'[j] = IF j \in Filling' THEN "null" ELSE ValueOf(wtable'[j])
  <2>1. CASE j \in 1..n
    BY <1>7, <1>11, <2>1
  <2>2. CASE j \notin 1..n
    <3>1. i.type \in RTracked /\ j = n + 1
      BY <1>1, <1>7, <2>2
    <3>2. j \in Filling'
      BY <1>1, <1>10, <3>1
    <3> QED BY <1>7, <3>1, <3>2
  <2> QED BY <2>1, <2>2
<1>13. SeqSlotsAligned'
  BY <1>7, <1>9, <1>12 DEF SeqSlotsAligned
<1> QED BY <1>8, <1>9, <1>13
-----------------------------------------------------------------------------
(* A call returns.                                                          *)
LEMMA SeqReturnKeeps ==
  ASSUME SeqTypes, Slots, NamesOnTop, FlagsKept, SeqSlotsAligned, eof = "no" => Agreed, SeqReturn
  PROVE  /\ SeqTypes' /\ Slots' /\ NamesOnTop' /\ FlagsKept' /\ SeqSlotsAligned'
         /\ eof' = "no" => Agreed'
<1> DEFINE d == Depth - 1
<1>1. /\ Depth \in Nat /\ Depth > 1 /\ d \in Nat \ {0} /\ d + 1 = Depth /\ Live /\ Live'
      /\ frames \in Seq(FramesIn(SeqStepNames)) /\ calls \in Seq(CallSet) /\ Len(calls) = Depth
      /\ Depth = Len(frames) /\ Top = frames[Depth] /\ Call = calls[Depth] /\ Top.todo = <<>>
      /\ UNCHANGED <<inBody, eof, rvars, decided>>
  <2>1. Depth \in Nat /\ Depth > 1
    BY SeqTop DEF SeqReturn
  <2> QED BY <2>1 DEF SeqReturn, SeqTypes, Live, Depth, Top, Call
<1>2. /\ frames' \in Seq(FramesIn(SeqStepNames)) /\ frames' # <<>> /\ Len(frames') = d
      /\ \A k \in 1..d : frames'[k] = frames[k]
  <2>1. frames' = SubSeq(frames, 1, Len(frames) - 1) /\ Len(frames) > 1
    BY <1>1 DEF SeqReturn
  <2> QED BY <1>1, <2>1, Drops
<1>3. calls' \in Seq(CallSet) /\ Len(calls') = d /\ \A k \in 1..d : calls'[k] = calls[k]
  <2>1. calls' = SubSeq(calls, 1, Len(calls) - 1) /\ Len(calls) > 1
    BY <1>1 DEF SeqReturn
  <2> QED BY <1>1, <2>1, Drops
<1> HIDE DEF d
<1>4. Depth' = d /\ SameCalls(frames, calls, frames', calls', d)
  <2>1. \A k \in 1..d - 1 : k \in 1..d
    BY <1>1
  <2> QED BY <1>2, <1>3, <2>1 DEF Depth, SameCalls, SameCall
<1>5. flags' = Call.saved /\ lazy' = Top.wasLazy
  BY DEF SeqReturn, FlagsAfter
<1>6. Right(frames, calls, decided, d, Call.saved, Top.wasLazy) /\ Kept(frames, calls, decided, d)
      /\ Known(frames, calls, decided, d)
  <2>1. \A k \in 2..d : k \in 2..Depth
    BY <1>1
  <2>2. Depth \in 2..Depth /\ Depth - 1 = d
    BY <1>1
  <2> QED BY <1>1, <2>1, <2>2 DEF FlagsKept, Kept, Known
<1>7. Settles(decided, decided') /\ decided' = decided
  BY <1>1 DEF Settles
<1>8. FlagsKept'
  <2>1. Reading(frames, d, Call.saved)
    BY <1>6 DEF Right
  <2>2. Reading(frames', d, Call.saved)
    <3>1. frames'[d] = frames[d] /\ (d > 1 => frames'[d - 1] = frames[d - 1])
      BY <1>1, <1>2
    <3> QED BY <2>1, <3>1 DEF Reading
  <2>3. Right(frames', calls', decided', d, Call.saved, Top.wasLazy)
    BY <1>1, <1>4, <1>6, <1>7, <2>2, StillRight
  <2>4. Kept(frames', calls', decided', d) /\ Known(frames', calls', decided', d)
    BY <1>1, <1>4, <1>6, <1>7, StillKept, SameFlags
  <2> QED BY <1>4, <1>5, <2>3, <2>4 DEF FlagsKept
<1>9. SeqTypes'
  <2>1. refs' \in Seq(Values)
    <3>1. refs \in Seq(Values)
      BY DEF SeqTypes
    <3>2. CASE Top.ref = 0
      BY <3>1, <3>2 DEF SeqReturn
    <3>3. CASE Top.ref # 0
      <4>1. Depth \in 1..Depth
        BY <1>1
      <4>2. Top.ref \in 1..Len(refs) /\ Top.op \in RTracked
        BY <1>1, <3>3, <4>1 DEF Slots
      <4>3. ValueOf(Top.op) \in Values
        BY <4>2 DEF ValueOf, Values, RTracked, SymbolKinds, EnvKinds
      <4>4. refs' = [refs EXCEPT ![Top.ref] = ValueOf(Top.op)]
        BY <3>3 DEF SeqReturn
      <4> QED BY <3>1, <4>2, <4>3, <4>4, ExceptSeq
    <3> QED BY <3>2, <3>3
  <2>2. flags' \in FlagSet
    BY <1>5, <1>6 DEF Right
  <2>3. lazy' \in BOOLEAN
    <3>1. Top \in FramesIn(SeqStepNames)
      BY SeqTop
    <3> QED BY <1>5, <3>1 DEF FramesIn
  <2> QED BY <1>1, <1>2, <1>3, <1>4, <2>1, <2>2, <2>3 DEF SeqTypes, RTypeOK, rvars
<1>10. Len(refs') = Len(refs) /\ wtable' = wtable /\ refs \in Seq(Values) /\ Len(refs) \in Nat
  BY <1>1 DEF SeqReturn, rvars, SeqTypes
<1>11. Slots'
  <2>1. Len(frames') = Depth - 1 /\ \A k \in 1..Depth - 1 : frames'[k] = frames[k]
    BY <1>1, <1>2 DEF d
  <2> QED BY <1>1, <1>10, <2>1, SlotsReturn
<1>12. ~NamePending /\ ~NamePending' /\ NamesOnTop'
  <2>1. ~NamePending
    BY <1>1 DEF NamePending
  <2>2. \A k \in 1..d : frames'[k].todo \in Seq(Unnamed)
    BY <1>1, <1>2 DEF NamesOnTop, d
  <2>3. d \in 1..d /\ Top' = frames'[d] /\ \A k \in 1..d - 1 : k \in 1..d
    BY <1>1, <1>4 DEF Top
  <2>4. Top'.todo \in Seq(Unnamed)
    BY <2>2, <2>3
  <2>5. Top'.todo # <<>> => Step' \in Unnamed /\ Rest' \in Seq(Unnamed)
    BY <2>4, HeadTailProperties DEF Step, Rest
  <2>6. ~NamePending'
    BY <2>5 DEF NamePending, Unnamed
  <2> QED BY <1>4, <2>1, <2>2, <2>3, <2>5, <2>6 DEF NamesOnTop
<1>13. SeqSlotsAligned'
  <2>1. Filling' = {frames[k].ref : k \in 1..d} \ {0}
    <3>1. \A k \in 1..d : frames'[k].ref = frames[k].ref
      BY <1>2
    <3> QED BY <1>4, <3>1 DEF Filling
  <2>2. Filling' = Filling \ {Top.ref}
    <3>1. Top.ref # 0 => Top.ref \notin Filling'
      <4> SUFFICES ASSUME Top.ref # 0, NEW k \in 1..d PROVE frames[k].ref # Top.ref
        BY <2>1
      <4>1. k \in 1..Depth /\ Depth \in 1..Depth /\ k < Depth
        BY <1>1
      <4>2. frames[k].ref < frames[Depth].ref
        BY <1>1, <4>1 DEF Slots
      <4>3. frames[Depth].ref \in Nat /\ frames[k].ref \in Nat
        BY <4>1, SeqTop
      <4> QED BY <1>1, <4>2, <4>3
    <3>2. \A k : k \in 1..Depth <=> k \in 1..d \/ k = Depth
      BY <1>1
    <3> QED BY <1>1, <2>1, <3>1, <3>2 DEF Filling
  <2>3. \A k \in 1..Len(refs) : refs[k] = IF k \in Filling THEN "null" ELSE ValueOf(wtable[k])
    BY <1>1, <1>12 DEF SeqSlotsAligned, Live
  <2>4. Len(refs) = Len(wtable)
    BY DEF Slots
  <2>5. ASSUME NEW k \in 1..Len(refs)
        PROVE  refs'[k] = IF k \in Filling' THEN "null" ELSE ValueOf(wtable[k])
    <3>1. refs[k] = IF k \in Filling THEN "null" ELSE ValueOf(wtable[k])
      BY <2>3
    <3>2. CASE Top.ref = 0
      <4>1. refs' = refs /\ k # 0
        BY <1>10, <3>2 DEF SeqReturn
      <4> QED BY <2>2, <3>1, <3>2, <4>1
    <3>3. CASE Top.ref # 0
      <4>1. Depth \in 1..Depth
        BY <1>1
      <4>2. Top.ref \in 1..Len(refs) /\ wtable[Top.ref] = Top.op
        BY <1>1, <3>3, <4>1 DEF Slots
      <4>3. refs' = [refs EXCEPT ![Top.ref] = ValueOf(Top.op)]
        BY <3>3 DEF SeqReturn
      <4>4. refs'[k] = IF k = Top.ref THEN ValueOf(Top.op) ELSE refs[k]
        BY <1>10, <4>2, <4>3
      <4> QED BY <2>2, <3>1, <4>2, <4>4
    <3> QED BY <3>2, <3>3
  <2> QED BY <1>10, <1>12, <2>4, <2>5 DEF SeqSlotsAligned
<1>14. eof' = "no" => Agreed'
  <2>1. frames' = SubSeq(frames, 1, Depth - 1) /\ wtodo' = wtodo
    BY <1>1 DEF SeqReturn, rvars
  <2> QED BY <1>1, <2>1, AgreedReturn
<1> QED BY <1>8, <1>9, <1>11, <1>12, <1>13, <1>14
-----------------------------------------------------------------------------
LEMMA SeqReadKeeps ==
  ASSUME SeqHandled, SeqInv, SeqRead, Live'
  PROVE  SeqInv'
<1>1. PICK i \in SeqItems :
        \/ SeqTagRef(i) \/ SeqTagSymbol(i) \/ SeqName(i) \/ SeqCell(i) \/ SeqTooDeep(i)
        \/ \E p \in Policies \cup {"keep"} : SeqRef(i, p) \/ \E long \in BOOLEAN : SeqObject(i, p, long)
  BY DEF SeqRead
<1>2. Busy /\ Live /\ eof = "no"
  BY DEF SeqRead, Busy, AtEnd, Live
<1>3. SeqTypes /\ Slots /\ NamesOnTop /\ FlagsKept /\ SeqSlotsAligned /\ Agreed
  BY <1>2 DEF SeqInv
<1>4. ~SeqTooDeep(i)
  BY DEF SeqTooDeep, Fail, Live
<1>5. CASE \E p \in Policies \cup {"keep"} : \E long \in BOOLEAN : SeqObject(i, p, long)
  <2>1. PICK p \in Policies \cup {"keep"}, long \in BOOLEAN : SeqObject(i, p, long)
    BY <1>5
  <2>2. SeqTypes'
    BY <1>2, <1>3, <2>1, CallKeepsTypes
  <2>3. FlagsKept'
    BY <1>2, <1>3, <2>1, SeqCallKeepsFlags
  <2>4. Slots' /\ NamesOnTop' /\ SeqSlotsAligned'
    BY <1>2, <1>3, <2>1, SeqCallKeepsSlots
  <2>5. Agreed'
    <3> DEFINE t == SeqSteps(i, ChildMode(p), ChildFlags(p))
               n == IF i.type \in RTracked THEN Len(refs) + 1 ELSE 0
               f == NewFrame(i.type, Step, t, n, ~i.attr)
    <3>1. /\ f \in FramesIn(SeqStepNames) /\ frames' = Append(Continue(frames, Rest, Top.rn), f)
          /\ Reads(t, Parts(i)) /\ wtodo' = Parts(i) \o Tail(wtodo)
      <4> HIDE DEF t, n
      <4> QED BY <1>2, <1>3, <2>1, CallShape DEF t, n
    <3>2. f.todo = t /\ f.rest = Len(wtodo) - 1
      BY DEF NewFrame
    <3>3. Top.rn \in BOOLEAN
      BY <1>3, SeqTop
    <3> HIDE DEF t, f
    <3> QED BY <1>2, <1>3, <3>1, <3>2, <3>3, AgreedCall
  <2> QED BY <2>2, <2>3, <2>4, <2>5 DEF SeqInv
<1>6. CASE \/ SeqTagRef(i) \/ SeqTagSymbol(i) \/ SeqName(i) \/ SeqCell(i)
           \/ \E p \in Policies \cup {"keep"} : SeqRef(i, p)
  <2>1. PICK S, P, r :
          /\ GoesOnWith(S, P, r) /\ Suits(S)
          /\ \/ TablesSame /\ S \in Seq(Unnamed) /\ Step # "tagname"
             \/ TakesSlot(i.type) /\ S = <<"tagname">> /\ r = (i.type = "rownames") /\ Step = "tag"
             \/ NameArrives /\ S = <<>> /\ r = Top.rn
    BY <1>2, <1>3, <1>6, InPlaceReads
  <2>2. refs' \in Seq(Values) /\ Slots' /\ NamesOnTop' /\ SeqSlotsAligned'
    <3> DEFINE k == i.type
    <3>1. \/ TablesSame /\ S \in Seq(Unnamed) /\ Step # "tagname"
          \/ TakesSlot(k) /\ S = <<"tagname">> /\ r = (k = "rownames") /\ Step = "tag"
          \/ NameArrives /\ S = <<>> /\ r = Top.rn
      BY <2>1
    <3> HIDE DEF k
    <3> QED BY <1>2, <1>3, <2>1, <3>1, GoesOnKeepsSlots
  <2>3. SeqTypes'
    BY <1>2, <1>3, <2>1, <2>2, GoesOnKeepsTypes
  <2>4. FlagsKept'
    BY <1>2, <1>3, <2>1, <2>2, GoesOnKeepsFlags
  <2>5. Agreed'
    <3>1. Reads(S, P) /\ r \in BOOLEAN /\ frames' = Continue(frames, S \o Rest, r) /\ wtodo' = P \o Tail(wtodo)
      BY <2>1 DEF GoesOnWith
    <3> QED BY <1>2, <1>3, <3>1, AgreedInPlace
  <2> QED BY <2>2, <2>3, <2>4, <2>5 DEF SeqInv
<1> QED BY <1>1, <1>4, <1>5, <1>6

LEMMA SeqSame ==
  ASSUME SeqInv, UNCHANGED <<frames, refs, lazy, inBody, rvars, calls, flags, decided>>,
         Live' => Live, eof' = "no" => eof = "no"
  PROVE  SeqInv'
<1> SUFFICES ASSUME Live' PROVE /\ SeqTypes' /\ Slots' /\ NamesOnTop' /\ FlagsKept' /\ SeqSlotsAligned'
                                /\ eof' = "no" => Agreed'
  BY DEF SeqInv
<1>1. SeqTypes /\ Slots /\ NamesOnTop /\ FlagsKept /\ SeqSlotsAligned /\ (eof = "no" => Agreed) /\ Live
  BY DEF SeqInv
<1>2. SeqTypes' /\ Slots'
  BY <1>1 DEF SeqTypes, Slots, Depth, rvars, RTypeOK
<1>3. NamesOnTop'
  BY <1>1 DEF NamesOnTop, NamePending, Depth, Top, Rest, Step, rvars
<1>4. FlagsKept'
  BY <1>1 DEF FlagsKept, Depth
<1>5. SeqSlotsAligned'
  BY <1>1 DEF SeqSlotsAligned, NamePending, Filling, Depth, Top, Step, rvars, Live
<1>6. eof' = "no" => Agreed'
  BY <1>1, AgreedSame DEF rvars
<1> QED BY <1>2, <1>3, <1>4, <1>5, <1>6

LEMMA SeqInvStep == SeqHandled => (SeqInv /\ [SeqNext]_seqVars => SeqInv')
<1> SUFFICES ASSUME SeqHandled, SeqInv, [SeqNext]_seqVars, Live' PROVE SeqInv'
  BY DEF SeqInv
<1>1. CASE SeqRead
  BY <1>1, SeqReadKeeps
<1>2. CASE SeqReturn
  BY <1>2, SeqReturnKeeps DEF SeqInv, SeqReturn, Live
<1>3. CASE SeqAtEnd
  BY <1>3 DEF SeqAtEnd, Fail, Live
<1>4. CASE SeqUnwind
  BY <1>4 DEF SeqUnwind, Live
<1>5. CASE Finish /\ UNCHANGED callVars
  BY <1>5, SeqSame DEF Finish, callVars, rvars, Live
<1>6. CASE Truncate /\ UNCHANGED callVars
  BY <1>6, SeqSame DEF Truncate, callVars, rvars, Live
<1>7. CASE UNCHANGED seqVars
  BY <1>7, SeqSame DEF seqVars, callVars, vars, pvars, rvars, Live
<1> QED BY <1>1, <1>2, <1>3, <1>4, <1>5, <1>6, <1>7 DEF SeqNext, SeqParse

LEMMA SeqInvInit == SeqInit => SeqInv
<1> SUFFICES ASSUME SeqInit PROVE SeqInv
  OBVIOUS
<1> DEFINE f == [op |-> "root", as |-> "item", todo |-> <<"item">>, ref |-> 0,
                 plain |-> TRUE, rn |-> FALSE, wasBody |-> FALSE,
                 wasLazy |-> Lazy, rest |-> 0]
           c == [mode |-> "value", forced |-> FALSE, tag |-> 0, elems |-> "value", saved |-> NoFlags]
<1>1. /\ frames = <<f>> /\ calls = <<c>> /\ refs = <<>> /\ wtable = <<>> /\ wtodo = <<"item">>
      /\ written = 0 /\ inBody = FALSE /\ lazy = Lazy /\ flags = NoFlags /\ decided = <<>>
  BY DEF SeqInit, Init, PInit, RInit
<1>2. "item" \in SeqStepNames /\ "item" \in Roles /\ SeqRoleOf("item") = "item"
      /\ "item" \in SeqStepNames \ SkipStepNames /\ "item" \in Unnamed
  BY DEF SeqStepNames, StepNames, Roles, SeqRoleOf, RoleOf, SkipStepNames, Unnamed
<1>3. /\ <<"item">> \in Seq(SeqStepNames) /\ <<"item">> \in Seq(Roles)
      /\ <<"item">> \in Seq(SeqStepNames \ SkipStepNames) /\ Tail(<<"item">>) = <<>>
  BY <1>2
<1>4. f \in FramesIn(SeqStepNames)
  BY <1>2, <1>3, ParserAssumption DEF FramesIn
<1>5. NoFlags \in FlagSet /\ NoFlags.s4tag = FALSE /\ NoFlags.root = FALSE /\ NoFlags.lenient = FALSE
  BY DEF NoFlags, FlagSet
<1>6. c \in CallSet
  BY <1>5 DEF CallSet
<1>7. f.todo = <<"item">> /\ f.ref = 0 /\ f.op = "root" /\ f.rest = 0 /\ c.forced = FALSE
  OBVIOUS
<1> HIDE DEF f, c
<1>8. /\ frames \in Seq(FramesIn(SeqStepNames)) /\ frames # <<>> /\ Depth = 1 /\ frames[1] = f /\ Top = f
      /\ calls \in Seq(CallSet) /\ Len(calls) = 1 /\ calls[1] = c
  BY <1>1, <1>4, <1>6 DEF Depth, Top
<1>9. SeqTypes
  <2>1. RTypeOK
    BY <1>1, <1>3, EmptySeq, StreamAssumption DEF RTypeOK
  <2>2. refs \in Seq(Values)
    BY <1>1, EmptySeq
  <2> QED BY <1>1, <1>5, <1>8, <2>1, <2>2, ParserAssumption DEF SeqTypes
<1>10. Slots
  <2>1. "root" \notin RTracked
    BY DEF RTracked, SymbolKinds, EnvKinds
  <2> QED BY <1>1, <1>7, <1>8, <2>1 DEF Slots
<1>11. NamesOnTop /\ ~NamePending
  <2>1. Top.todo = <<"item">>
    BY <1>7, <1>8
  <2>2. Head(<<"item">>) = "item" /\ Tail(<<"item">>) = <<>>
    OBVIOUS
  <2>3. Step = "item" /\ Rest = <<>>
    BY <2>1, <2>2, <1>8 DEF Step, Rest
  <2> QED BY <1>8, <2>3, EmptySeq DEF NamesOnTop, NamePending
<1>12. FlagsKept
  <2>1. Reading(frames, 1, flags)
    BY <1>1, <1>3, <1>5, <1>7, <1>8 DEF Reading
  <2>2. ~SkipIn(frames, calls, decided, 1)
    BY DEF SkipIn
  <2>3. Right(frames, calls, decided, 1, flags, lazy)
    BY <1>1, <1>5, <1>7, <1>8, <2>1, <2>2 DEF Right
  <2> QED BY <1>8, <2>3 DEF FlagsKept, Known, Kept
<1>13. SeqSlotsAligned
  BY <1>1 DEF SeqSlotsAligned
<1>14. Agreed
  <2>1. Reads(<<"item">>, <<"item">>)
    BY <1>2, <1>3 DEF Reads
  <2>2. RolesIn(<<"item">>) = <<"item">>
    BY <2>1, ReadsRoles
  <2>3. Lefts[1] = wtodo /\ Rests[1] = 0
    BY <1>1, <1>7, <1>8, <2>2 DEF Lefts, Rests
  <2> DEFINE L == Lefts
             R == Rests
             w == wtodo
  <2>4. L[1] = w /\ R[1] = 0 /\ w \in Seq(Roles)
    BY <1>1, <1>3, <2>3
  <2> HIDE DEF L, R, w
  <2>5. Owes(1, L, R, w)
    BY <2>4, OwesFirst
  <2> QED BY <1>8, <2>5 DEF Agreed, L, R, w
<1> QED BY <1>9, <1>10, <1>11, <1>12, <1>13, <1>14 DEF SeqInv
-----------------------------------------------------------------------------
(* Whatever the policy does with a slot, keeps, drops, skips or captures    *)
(* it, both parsers read each item for what R meant by it.                  *)
THEOREM SequentialAligned == SeqHandled => (SeqSpec => []SeqAligned)
<1> SUFFICES ASSUME SeqHandled PROVE SeqSpec => []SeqAligned
  OBVIOUS
<1>1. SeqInv => SeqAligned
  <2> SUFFICES ASSUME SeqInv, Live, eof = "no", NEW k \in 1..Depth
               PROVE  LET left == IF k = Depth THEN Len(wtodo) ELSE frames[k + 1].rest
                          todo == frames[k].todo
                      IN /\ Len(todo) + frames[k].rest = left
                         /\ \A j \in 1..Len(todo) : SeqRoleOf(todo[j]) = wtodo[Len(wtodo) - left + j]
    BY DEF SeqAligned, Live
  <2> DEFINE left == IF k = Depth THEN Len(wtodo) ELSE frames[k + 1].rest
             todo == frames[k].todo
             L == Lefts
             R == Rests
             n == Depth
  <2>1. SeqTypes /\ Agreed
    BY DEF SeqInv
  <2>2. n \in Nat \ {0} /\ todo \in Seq(SeqStepNames)
    BY <2>1, SeqTop
  <2>3. L[k] = RolesIn(todo) /\ R[k] = frames[k].rest /\ (k # n => R[k + 1] = frames[k + 1].rest)
    <3>1. k # n => k + 1 \in 1..n
      BY <2>2
    <3> QED BY <3>1 DEF Lefts, Rests
  <2>4. Len(L[k]) = Len(todo) /\ \A j \in 1..Len(todo) : L[k][j] = SeqRoleOf(todo[j])
    BY <2>2, <2>3, RolesInType
  <2>5. Owes(n, L, R, wtodo) /\ k \in 1..n
    BY <2>1 DEF Agreed
  <2> HIDE DEF L, R, n
  <2>6. LET l == IF k = n THEN Len(wtodo) ELSE R[k + 1] IN
        /\ Len(L[k]) + R[k] = l
        /\ \A j \in 1..Len(L[k]) : L[k][j] = wtodo[Len(wtodo) - l + j]
    BY <2>2, <2>5, OwesLaid
  <2>7. left = IF k = n THEN Len(wtodo) ELSE R[k + 1]
    BY <2>3 DEF n
  <2> HIDE DEF left, todo
  <2>8. Len(todo) + R[k] = left /\ \A j \in 1..Len(todo) : SeqRoleOf(todo[j]) = wtodo[Len(wtodo) - left + j]
    BY <2>4, <2>6, <2>7
  <2> QED BY <2>3, <2>8 DEF left, todo
<1> QED BY <1>1, SeqInvInit, SeqInvStep, PTL DEF SeqSpec

(* What is thrown away takes the slots it would have taken if it were kept: *)
(* a later reference finds its object.                                      *)
THEOREM SequentialSlots == SeqHandled => (SeqSpec => []SeqSlotsAligned)
<1> SUFFICES ASSUME SeqHandled PROVE SeqSpec => []SeqSlotsAligned
  OBVIOUS
<1>1. SeqInv => SeqSlotsAligned
  BY DEF SeqInv, SeqSlotsAligned, Live
<1> QED BY <1>1, SeqInvInit, SeqInvStep, PTL DEF SeqSpec

(* A skipped slot ends with the value it was asked for: the parser is       *)
(* lenient inside skipped slots and nowhere else, and lazy again after a    *)
(* captured value.                                                          *)
THEOREM FlagsAreOfCalls == SeqHandled => (SeqSpec => []FlagsFollowCalls)
<1> SUFFICES ASSUME SeqHandled PROVE SeqSpec => []FlagsFollowCalls
  OBVIOUS
<1>1. SeqInv => FlagsFollowCalls
  <2> SUFFICES ASSUME SeqInv, Live
               PROVE  /\ flags.lenient = (SkippedSlots # {})
                      /\ flags.root = flags.s4tag
                      /\ ~lazy => ~Lazy \/ \E k \in 2..Depth : frames[k].as = "vcar" /\ calls[k].mode = "value"
    BY DEF FlagsFollowCalls, Live
  <2>1. Right(frames, calls, decided, Depth, flags, lazy)
    BY DEF SeqInv, FlagsKept
  <2>2. SkipIn(frames, calls, decided, Depth) <=> SkippedSlots # {}
    BY DEF SkipIn, SkipAt, SkippedSlots
  <2>3. flags.lenient \in BOOLEAN
    BY <2>1 DEF Right, FlagSet
  <2>4. flags.lenient = (SkippedSlots # {})
    BY <2>1, <2>2, <2>3 DEF Right
  <2> QED BY <2>1, <2>4 DEF Right, CaptIn, CaptAt
<1> QED BY <1>1, SeqInvInit, SeqInvStep, PTL DEF SeqSpec

(* The caller is asked about the slots of S4 objects and never about the    *)
(* attributes of a value in one, unless that is being skipped anyway.       *)
THEOREM PolicyIsScoped == SeqHandled => (SeqSpec => []PolicyScoped)
<1> SUFFICES ASSUME SeqHandled PROVE SeqSpec => []PolicyScoped
  OBVIOUS
<1>1. SeqInit => PolicyScoped
  BY DEF SeqInit, PolicyScoped
<1>2. SeqInv /\ PolicyScoped /\ [SeqNext]_seqVars => PolicyScoped'
  <2> SUFFICES ASSUME SeqInv, PolicyScoped, [SeqNext]_seqVars PROVE PolicyScoped'
    OBVIOUS
  <2>1. ASSUME applied' = applied PROVE PolicyScoped'
    BY <2>1 DEF PolicyScoped
  <2>2. CASE SeqRead
    <3>1. Busy /\ SeqTypes /\ FlagsKept
      BY <2>2 DEF SeqRead, SeqInv, Busy, Live
    <3>2. ASSUME NEW p, Decide(p) PROVE PolicyScoped'
      <4>1. CASE ~Asks
        BY <2>1, <3>2, <4>1 DEF Decide
      <4>2. CASE Asks
        <5>1. flags.root = flags.s4tag /\ Call.forced = flags.s4tag
          BY <3>1 DEF FlagsKept, Right, Call
        <5>2. flags.lenient \/ (Top.as = "attrs" /\ frames[Depth - 1].op = "s4")
          <6>1. CASE AsksSlot
            BY <3>1, <5>1, <6>1, ForcedStep DEF AsksSlot
          <6>2. CASE AsksCapture
            BY <3>1, <6>2, LenientStep DEF AsksCapture, SkipStepNames
          <6> QED BY <4>2, <6>1, <6>2 DEF Asks
        <5> QED BY <3>2, <4>2, <5>2 DEF Decide, PolicyScoped
      <4> QED BY <4>1, <4>2
    <3>3. ASSUME NEW i \in SeqItems,
                 SeqTagRef(i) \/ SeqTagSymbol(i) \/ SeqName(i) \/ SeqCell(i) \/ SeqTooDeep(i)
          PROVE  applied' = applied
      BY <3>3 DEF SeqTagRef, SeqTagSymbol, SeqName, SeqCell, SeqTooDeep, callVars
    <3>4. ASSUME NEW i \in SeqItems, NEW p \in Policies \cup {"keep"},
                 SeqRef(i, p) \/ \E long \in BOOLEAN : SeqObject(i, p, long)
          PROVE  Decide(p)
      BY <3>4 DEF SeqRef, SeqObject
    <3> QED BY <2>1, <2>2, <3>2, <3>3, <3>4 DEF SeqRead
  <2>3. CASE ~SeqRead
    BY <2>1, <2>3 DEF SeqNext, SeqParse, SeqReturn, SeqAtEnd, SeqUnwind, callVars, seqVars
  <2> QED BY <2>2, <2>3
<1> QED BY <1>1, <1>2, SeqInvInit, SeqInvStep, PTL DEF SeqSpec

(***************************************************************************)
(* The streaming traversal.                                                 *)
(***************************************************************************)

(* Of the natural numbers there are in a set, one is the least.             *)
LEMMA LeastOne ==
  ASSUME NEW T \in SUBSET Nat, T # {}
  PROVE \E x \in T : \A y \in T : x <= y
<1> DEFINE U == {1..n : n \in T}
<1>1. IsWellFoundedOn(StrictSubsetOrdering(Nat), FiniteSubsetsOf(Nat))
  BY FS_StrictSubsetOrderingWellFounded
<1>2. U \subseteq FiniteSubsetsOf(Nat) /\ U # {}
  <2>1. ASSUME NEW n \in T PROVE IsFiniteSet(1..n) /\ 1..n \in SUBSET Nat
    BY FS_Interval
  <2> QED BY <2>1 DEF FiniteSubsetsOf
<1>3. PICK m \in U : \A u \in U : <<u, m>> \notin StrictSubsetOrdering(Nat)
  <2> HIDE DEF U
  <2> QED BY <1>1, <1>2, WFMin
<1>4. PICK x \in T : m = 1..x
  OBVIOUS
<1>5. ASSUME NEW y \in T PROVE x <= y
  <2>1. 1..y \in SUBSET Nat /\ 1..x \in SUBSET Nat
    OBVIOUS
  <2>2. ~(1..y \subseteq 1..x /\ 1..y # 1..x)
    BY <1>3, <1>4, <2>1 DEF StrictSubsetOrdering
  <2>3. SUFFICES ASSUME y < x PROVE FALSE
    OBVIOUS
  <2>4. x \in 1..x /\ x \notin 1..y
    BY <2>3
  <2> QED BY <2>2, <2>3, <2>4
<1> QED BY <1>5

LEMMA Inductively ==
  ASSUME NEW T, 0 \in T, \A n \in Nat : n \in T => n + 1 \in T
  PROVE  \A n \in Nat : n \in T
<1> SUFFICES ASSUME \E n \in Nat : n \notin T PROVE FALSE
  OBVIOUS
<1> DEFINE U == {n \in Nat : n \notin T}
<1>1. PICK x \in U : \A y \in U : x <= y
  <2>1. U \in SUBSET Nat /\ U # {}
    OBVIOUS
  <2> HIDE DEF U
  <2> QED BY <2>1, LeastOne
<1>2. x \in Nat /\ x # 0
  OBVIOUS
<1>3. x - 1 \in Nat /\ ~(x <= x - 1) /\ (x - 1) + 1 = x
  BY <1>2
<1>4. x - 1 \in T
  BY <1>1, <1>3
<1> QED BY <1>3, <1>4
-----------------------------------------------------------------------------
(* The steps of a call that read something, one after the other: the run of *)
(* the recursive function that collects them.                               *)
With(v, x) == IF x \in Silent THEN v ELSE Append(v, x)
Collects(g, s, n) == g = [k \in 0..n |-> IF k = 0 THEN <<>> ELSE With(g[k - 1], s[k])]

LEMMA CollectsExists ==
  ASSUME NEW s, NEW m \in Nat
  PROVE  \E g : Collects(g, s, m)
<1> DEFINE T == {n \in Nat : \E g : Collects(g, s, n)}
<1>1. 0 \in T
  <2> DEFINE g == [k \in 0..0 |-> <<>>]
  <2>1. \A k \in 0..0 : k = 0
    OBVIOUS
  <2>2. Collects(g, s, 0)
    BY <2>1 DEF Collects
  <2> QED BY <2>2
<1>2. ASSUME NEW n \in Nat, n \in T PROVE n + 1 \in T
  <2>1. PICK g : Collects(g, s, n)
    BY <1>2
  <2> DEFINE last == n + 1
             e(k) == IF k = 0 THEN <<>> ELSE With(g[k - 1], s[k])
             h == [k \in 0..last |-> e(k)]
             H(f) == [k \in 0..last |-> IF k = 0 THEN <<>> ELSE With(f[k - 1], s[k])]
  <2>2. \A k \in 0..last : k < last => g[k] = e(k)
    <3> TAKE k \in 0..last
    <3>1. k < last => k \in 0..n
      BY <1>2
    <3> QED BY <2>1, <3>1 DEF Collects
  <2>3. \A k \in 0..last : k = 0 \/ (k - 1 \in 0..last /\ k - 1 < last)
    BY <1>2
  <2>4. \A k \in 0..last : h[k] = H(h)[k]
    <3> TAKE k \in 0..last
    <3>1. CASE k = 0
      BY <3>1
    <3>2. CASE k # 0
      <4>1. g[k - 1] = h[k - 1]
        <5> HIDE DEF e
        <5> QED BY <2>2, <2>3, <3>2
      <4>2. h[k] = With(g[k - 1], s[k]) /\ H(h)[k] = With(h[k - 1], s[k])
        <5> HIDE DEF h
        <5>1. H(h)[k] = With(h[k - 1], s[k])
          BY <3>2
        <5>2. h[k] = e(k)
          BY DEF h
        <5> QED BY <3>2, <5>1, <5>2
      <4> QED BY <4>1, <4>2
    <3> QED BY <3>1, <3>2
  <2>5. h = H(h)
    <3> HIDE DEF e
    <3>1. h = [k \in 0..last |-> h[k]]
      OBVIOUS
    <3> HIDE DEF h
    <3>2. H(h) = [k \in 0..last |-> H(h)[k]]
      OBVIOUS
    <3> HIDE DEF H
    <3> QED BY <2>4, <3>1, <3>2
  <2>6. Collects(h, s, last)
    <3> HIDE DEF h
    <3> QED BY <2>5 DEF Collects
  <2> QED BY <2>6
<1> HIDE DEF T
<1>3. m \in T
  BY <1>1, <1>2, Inductively
<1> QED BY <1>3 DEF T

LEMMA LoudCollects ==
  ASSUME NEW s, Len(s) \in Nat
  PROVE  \E g : Collects(g, s, Len(s)) /\ Loud(s) = g[Len(s)]
<1> DEFINE n == Len(s)
           g == CHOOSE f : f = [k \in 0..n |-> IF k = 0 THEN <<>>
                                ELSE IF s[k] \in Silent THEN f[k - 1] ELSE Append(f[k - 1], s[k])]
<1>1. \E f : Collects(f, s, n)
  BY CollectsExists
<1>2. g = [k \in 0..n |-> IF k = 0 THEN <<>>
                          ELSE IF s[k] \in Silent THEN g[k - 1] ELSE Append(g[k - 1], s[k])]
  BY <1>1 DEF Collects, With
<1>3. Loud(s) = g[n]
  BY DEF Loud
<1> HIDE DEF g
<1>4. Collects(g, s, n)
  BY <1>2 DEF Collects, With
<1> QED BY <1>3, <1>4

LEMMA CollectsTypes ==
  ASSUME NEW T, NEW s \in Seq(T), NEW g, Collects(g, s, Len(s)), NEW n \in 0..Len(s)
  PROVE  g[n] \in Seq(T \ Silent)
<1> DEFINE N == {k \in Nat : k <= Len(s) => g[k] \in Seq(T \ Silent)}
<1>0. Len(s) \in Nat
  OBVIOUS
<1>1. 0 \in N
  <2>1. 0 \in 0..Len(s)
    BY <1>0
  <2>2. g[0] = <<>>
    BY <2>1 DEF Collects
  <2> QED BY <2>2, EmptySeq
<1>2. ASSUME NEW k \in Nat, k \in N PROVE k + 1 \in N
  <2> SUFFICES ASSUME k + 1 <= Len(s) PROVE g[k + 1] \in Seq(T \ Silent)
    OBVIOUS
  <2>1. k + 1 \in 0..Len(s) /\ k + 1 # 0 /\ (k + 1) - 1 = k /\ k + 1 \in 1..Len(s) /\ k <= Len(s)
    BY <1>0
  <2>2. g[k + 1] = With(g[k], s[k + 1])
    BY <2>1 DEF Collects
  <2>3. s[k + 1] \in T /\ g[k] \in Seq(T \ Silent)
    BY <1>2, <2>1, ElementOfSeq
  <2> QED BY <2>2, <2>3 DEF With
<1> HIDE DEF N
<1>3. n \in N
  BY <1>0, <1>1, <1>2, Inductively
<1> QED BY <1>0, <1>3 DEF N

LEMMA LoudType ==
  ASSUME NEW T, NEW s \in Seq(T)
  PROVE  Loud(s) \in Seq(T \ Silent)
<1>1. Len(s) \in Nat /\ Len(s) \in 0..Len(s)
  OBVIOUS
<1>2. PICK g : Collects(g, s, Len(s)) /\ Loud(s) = g[Len(s)]
  BY <1>1, LoudCollects
<1> QED BY <1>1, <1>2, CollectsTypes

LEMMA LoudConcat ==
  ASSUME NEW T, NEW s \in Seq(T), NEW t \in Seq(T)
  PROVE  Loud(s \o t) = Loud(s) \o Loud(t)
<1> DEFINE u == s \o t
           a == Len(s)
           b == Len(t)
           S == T \ Silent
<1>1. /\ a \in Nat /\ b \in Nat /\ u \in Seq(T) /\ Len(u) = a + b
      /\ \A i \in 1..a + b : u[i] = IF i <= a THEN s[i] ELSE t[i - a]
  BY ConcatProperties
<1> HIDE DEF u, a, b, S
<1>2. PICK f : Collects(f, u, a + b) /\ Loud(u) = f[a + b]
  <2>1. Len(u) \in Nat
    BY <1>1
  <2>2. \E f : Collects(f, u, Len(u)) /\ Loud(u) = f[Len(u)]
    BY <2>1, LoudCollects
  <2> QED BY <1>1, <2>2
<1>3. PICK g : Collects(g, s, a) /\ Loud(s) = g[a]
  BY <1>1, LoudCollects DEF a
<1>4. PICK h : Collects(h, t, b) /\ Loud(t) = h[b]
  BY <1>1, LoudCollects DEF b
<1>5. ASSUME NEW n \in 0..a PROVE g[n] \in Seq(S)
  BY <1>3, CollectsTypes DEF a, S
<1>6. ASSUME NEW n \in 0..b PROVE h[n] \in Seq(S)
  BY <1>4, CollectsTypes DEF b, S
<1>7. f[a] = g[a]
  <2> DEFINE N == {k \in Nat : k <= a => f[k] = g[k]}
  <2>1. 0 \in N
    BY <1>1, <1>2, <1>3 DEF Collects
  <2>2. ASSUME NEW k \in Nat, k \in N PROVE k + 1 \in N
    <3> SUFFICES ASSUME k + 1 <= a PROVE f[k + 1] = g[k + 1]
      OBVIOUS
    <3>1. /\ k + 1 \in 0..a /\ k + 1 # 0 /\ (k + 1) - 1 = k /\ k + 1 \in 1..a + b
          /\ k + 1 \in 0..a + b /\ k <= a
      BY <1>1
    <3>2. f[k + 1] = With(f[k], u[k + 1]) /\ g[k + 1] = With(g[k], s[k + 1])
      BY <1>2, <1>3, <3>1 DEF Collects
    <3>3. u[k + 1] = s[k + 1] /\ f[k] = g[k]
      BY <1>1, <2>2, <3>1
    <3> QED BY <3>2, <3>3
  <2> HIDE DEF N
  <2>3. a \in N
    BY <1>1, <2>1, <2>2, Inductively
  <2> QED BY <1>1, <2>3 DEF N
<1>8. f[a + b] = g[a] \o h[b]
  <2> DEFINE q(k) == g[a] \o h[k]
             N == {k \in Nat : k <= b => f[a + k] = q(k)}
  <2>0. g[a] \in Seq(S)
    BY <1>1, <1>5
  <2>1. 0 \in N
    <3>1. h[0] = <<>> /\ a + 0 = a
      BY <1>1, <1>4 DEF Collects
    <3>2. g[a] \o <<>> = g[a]
      BY <2>0, ConcatEmptySeq
    <3>3. f[a + 0] = q(0)
      BY <1>7, <3>1, <3>2
    <3> HIDE DEF q
    <3> QED BY <3>3
  <2>2. ASSUME NEW k \in Nat, k \in N PROVE k + 1 \in N
    <3> SUFFICES ASSUME k + 1 <= b PROVE f[a + (k + 1)] = q(k + 1)
      <4> HIDE DEF q
      <4> QED OBVIOUS
    <3>0. f[a + k] = q(k)
      <4> HIDE DEF q
      <4>1. k <= b
        BY <1>1
      <4> QED BY <2>2, <4>1
    <3>1. /\ k + 1 \in 0..b /\ k + 1 # 0 /\ (k + 1) - 1 = k /\ k \in 0..b /\ k <= b
          /\ a + (k + 1) \in 0..a + b /\ a + (k + 1) # 0 /\ (a + (k + 1)) - 1 = a + k
          /\ a + (k + 1) \in 1..a + b /\ ~(a + (k + 1) <= a) /\ (a + (k + 1)) - a = k + 1
      BY <1>1
    <3> DEFINE n == a + (k + 1)
               v == h[k]
    <3>2. f[n] = With(f[a + k], u[n]) /\ h[k + 1] = With(v, t[k + 1])
      <4>1. f[n] = With(f[n - 1], u[n])
        <5> HIDE DEF n
        <5>1. n \in 0..a + b /\ n # 0
          BY <3>1 DEF n
        <5> QED BY <1>2, <5>1 DEF Collects
      <4>2. h[k + 1] = With(h[(k + 1) - 1], t[k + 1])
        BY <1>4, <3>1 DEF Collects
      <4> QED BY <3>1, <4>1, <4>2
    <3>3. u[n] = t[k + 1] /\ f[a + k] = g[a] \o v
      BY <1>1, <3>0, <3>1
    <3>4. v \in Seq(S)
      BY <1>6, <3>1
    <3>5. \A x : g[a] \o Append(v, x) = Append(g[a] \o v, x)
      <4> HIDE DEF v
      <4> TAKE x
      <4> DEFINE X == S \cup {x}
                 p == g[a]
      <4>1. p \in Seq(X) /\ v \in Seq(X) /\ <<x>> \in Seq(X)
        BY <2>0, <3>4
      <4> HIDE DEF p, X
      <4>2. Append(v, x) = v \o <<x>> /\ Append(p \o v, x) = (p \o v) \o <<x>>
        <5>1. p \o v \in Seq(X) /\ x \in X
          BY <4>1, ConcatProperties DEF X
        <5> QED BY <4>1, <5>1, AppendIsConcat
      <4>3. p \o (v \o <<x>>) = (p \o v) \o <<x>>
        BY <4>1, ConcatAssociative
      <4> QED BY <4>2, <4>3 DEF p
    <3> HIDE DEF n, v
    <3> QED BY <3>2, <3>3, <3>5 DEF With, n
  <2> HIDE DEF N
  <2>3. b \in N
    BY <1>1, <2>1, <2>2, Inductively
  <2>4. f[a + b] = q(b)
    <3> HIDE DEF q
    <3> QED BY <1>1, <2>3 DEF N
  <2> QED BY <2>4
<1> QED BY <1>2, <1>3, <1>4, <1>8 DEF u

LEMMA LoudAll ==
  ASSUME NEW T, NEW s \in Seq(T), T \cap Silent = {}
  PROVE  Loud(s) = s
<1>1. Len(s) \in Nat /\ \A j \in 1..Len(s) : s[j] \in T
  BY ElementOfSeq
<1>2. PICK g : Collects(g, s, Len(s)) /\ Loud(s) = g[Len(s)]
  BY <1>1, LoudCollects
<1>3. ASSUME NEW n \in 0..Len(s) PROVE g[n] \in Seq(T \ Silent)
  BY <1>2, CollectsTypes
<1> DEFINE N == {n \in Nat : n <= Len(s) => Len(g[n]) = n /\ \A j \in 1..n : g[n][j] = s[j]}
<1>4. 0 \in N
  <2>1. 0 \in 0..Len(s)
    BY <1>1
  <2>2. g[0] = <<>>
    BY <1>2, <2>1 DEF Collects
  <2>3. Len(g[0]) = 0 /\ \A j \in 1..0 : g[0][j] = s[j]
    BY <2>2
  <2> QED BY <2>3
<1>5. ASSUME NEW n \in Nat, n \in N PROVE n + 1 \in N
  <2>1. SUFFICES ASSUME n + 1 <= Len(s)
                 PROVE  Len(g[n + 1]) = n + 1 /\ \A j \in 1..n + 1 : g[n + 1][j] = s[j]
    OBVIOUS
  <2>2. /\ n + 1 \in 0..Len(s) /\ n + 1 # 0 /\ (n + 1) - 1 = n /\ n \in 0..Len(s)
        /\ n + 1 \in 1..Len(s) /\ n <= Len(s)
    BY <1>1, <2>1
  <2> DEFINE v == g[n]
             w == g[n + 1]
             x == s[n + 1]
  <2>3. Len(v) = n /\ \A j \in 1..n : v[j] = s[j]
    BY <1>5, <2>2
  <2>4. v \in Seq(T \ Silent) /\ x \in T \ Silent
    BY <1>1, <1>3, <2>2
  <2>5. w = Append(v, x)
    BY <1>2, <2>2, <2>4 DEF Collects, With
  <2> HIDE DEF v, w
  <2>6. Len(w) = Len(v) + 1 /\ (\A i \in 1..Len(v) : w[i] = v[i]) /\ w[Len(v) + 1] = x
    BY <2>4, <2>5, AppendProperties
  <2>7. \A j \in 1..n + 1 : w[j] = s[j]
    <3> TAKE j \in 1..n + 1
    <3>1. j \in 1..n \/ j = n + 1
      OBVIOUS
    <3> QED BY <2>3, <2>6, <3>1
  <2> QED BY <2>3, <2>6, <2>7 DEF w
<1> HIDE DEF N
<1>6. Len(s) \in N
  BY <1>1, <1>4, <1>5, Inductively
<1> DEFINE u == g[Len(s)]
<1>7. u \in Seq(T) /\ Len(u) = Len(s) /\ \A j \in 1..Len(s) : u[j] = s[j]
  <2>1. u \in Seq(T \ Silent)
    BY <1>1, <1>3
  <2>2. u \in Seq(T)
    <3> HIDE DEF u
    <3>1. \A j \in 1..Len(u) : u[j] \in T
      BY <2>1, ElementOfSeq
    <3> QED BY <2>1, <3>1
  <2> QED BY <1>1, <1>6, <2>2 DEF N
<1> HIDE DEF u
<1>8. u = s
  BY <1>7, SeqEqual
<1> QED BY <1>2, <1>8 DEF u

LEMMA LoudOne ==
  ASSUME NEW x
  PROVE  Loud(<<x>>) = IF x \in Silent THEN <<>> ELSE <<x>>
<1>1. Len(<<x>>) = 1 /\ <<x>>[1] = x
  OBVIOUS
<1>2. PICK g : Collects(g, <<x>>, 1) /\ Loud(<<x>>) = g[1]
  BY <1>1, LoudCollects
<1>3. g[0] = <<>> /\ g[1] = With(g[0], x)
  <2>1. 0 \in 0..1 /\ 1 \in 0..1 /\ 1 # 0 /\ 1 - 1 = 0
    OBVIOUS
  <2>2. g[0] = <<>>
    BY <1>2, <2>1 DEF Collects
  <2>3. g[1] = With(g[1 - 1], <<x>>[1])
    BY <1>2, <2>1 DEF Collects
  <2> QED BY <1>1, <2>1, <2>2, <2>3
<1> QED BY <1>2, <1>3 DEF With

LEMMA LoudNone == Loud(<<>>) = <<>>
<1> DEFINE T == {}
<1>1. <<>> \in Seq(T) /\ T \cap Silent = {}
  OBVIOUS
<1> HIDE DEF T
<1> QED BY <1>1, LoudAll
-----------------------------------------------------------------------------
(* The roles that the reads of a call stand for: the traversal and          *)
(* parse_object mean different things by some of them.                      *)
StepsFor(who) == IF who = "walk" THEN Segments \cup ByParseObject \cup Silent ELSE StepNames
RoleFor(who, s) == IF who = "walk" THEN WalkRoleOf(s) ELSE RoleOf(s)
RolesLeft(who, t) == [j \in 1..Len(Loud(t)) |-> RoleFor(who, Loud(t)[j])]

LEMMA RolesForType ==
  ASSUME NEW who
  PROVE  \A s \in StepsFor(who) \ Silent : RoleFor(who, s) \in Roles
<1>1. CASE who = "walk"
  <2>1. \A s \in (Segments \cup ByParseObject) \ Silent : WalkRoleOf(s) \in Roles
    BY DEF WalkRoleOf, RoleOf, Segments, ByParseObject, Silent, Quiet, Roles
  <2>2. StepsFor(who) \ Silent = (Segments \cup ByParseObject) \ Silent
    BY <1>1 DEF StepsFor
  <2> QED BY <1>1, <2>1, <2>2 DEF RoleFor
<1>2. CASE who # "walk"
  <2>1. \A s \in StepNames : RoleOf(s) \in Roles
    BY DEF RoleOf, StepNames, Roles
  <2> QED BY <1>2, <2>1 DEF StepsFor, RoleFor
<1> QED BY <1>1, <1>2

LEMMA RolesLeftType ==
  ASSUME NEW who, NEW t \in Seq(StepsFor(who))
  PROVE  /\ Loud(t) \in Seq(StepsFor(who) \ Silent) /\ Len(Loud(t)) \in Nat
         /\ RolesLeft(who, t) \in Seq(Roles) /\ Len(RolesLeft(who, t)) = Len(Loud(t))
         /\ \A j \in 1..Len(Loud(t)) : RolesLeft(who, t)[j] = RoleFor(who, Loud(t)[j])
<1> DEFINE u == Loud(t)
           S == StepsFor(who) \ Silent
<1>1. u \in Seq(S)
  BY LoudType
<1>2. Len(u) \in Nat /\ \A j \in 1..Len(u) : RoleFor(who, u[j]) \in Roles
  <2> HIDE DEF u
  <2>1. \A j \in 1..Len(u) : u[j] \in S
    BY <1>1, ElementOfSeq
  <2> QED BY <1>1, <2>1, RolesForType
<1> HIDE DEF u, S
<1>3. RolesLeft(who, t) = [j \in 1..Len(u) |-> RoleFor(who, u[j])]
  BY DEF RolesLeft, u
<1> DEFINE r == [j \in 1..Len(u) |-> RoleFor(who, u[j])]
<1>4. r \in Seq(Roles) /\ Len(r) = Len(u) /\ \A j \in 1..Len(u) : r[j] = RoleFor(who, u[j])
  BY <1>2
<1> QED BY <1>1, <1>2, <1>3, <1>4 DEF u, S

LEMMA RolesLeftConcat ==
  ASSUME NEW who, NEW s \in Seq(StepsFor(who)), NEW t \in Seq(StepsFor(who))
  PROVE  RolesLeft(who, s \o t) = RolesLeft(who, s) \o RolesLeft(who, t)
<1> DEFINE x == Loud(s)
           y == Loud(t)
           a == RolesLeft(who, s)
           b == RolesLeft(who, t)
           c == x \o y
           d == RolesLeft(who, s \o t)
           n == Len(x)
           m == Len(y)
           S == StepsFor(who)
<1>0. s \o t \in Seq(S) /\ Loud(s \o t) = c
  BY LoudConcat, ConcatProperties
<1>1. /\ c \in Seq(S \ Silent) /\ Len(c) = n + m
      /\ \A i \in 1..n + m : c[i] = IF i <= n THEN x[i] ELSE y[i - n]
  <2>1. x \in Seq(S \ Silent) /\ y \in Seq(S \ Silent)
    BY RolesLeftType
  <2> HIDE DEF x, y, S
  <2> QED BY <2>1, ConcatProperties
<1>2. /\ a \in Seq(Roles) /\ Len(a) = n /\ \A j \in 1..n : a[j] = RoleFor(who, x[j])
      /\ b \in Seq(Roles) /\ Len(b) = m /\ \A j \in 1..m : b[j] = RoleFor(who, y[j])
      /\ n \in Nat /\ m \in Nat
  BY RolesLeftType
<1>3. d \in Seq(Roles) /\ Len(d) = Len(c) /\ \A j \in 1..Len(c) : d[j] = RoleFor(who, c[j])
  <2> DEFINE z == s \o t
  <2>1. z \in Seq(StepsFor(who)) /\ Loud(z) = c
    BY <1>0
  <2> HIDE DEF z, c
  <2>2. /\ RolesLeft(who, z) \in Seq(Roles) /\ Len(RolesLeft(who, z)) = Len(Loud(z))
        /\ \A j \in 1..Len(Loud(z)) : RolesLeft(who, z)[j] = RoleFor(who, Loud(z)[j])
    BY <2>1, RolesLeftType
  <2> QED BY <2>1, <2>2 DEF z
<1> HIDE DEF a, b, c, d, n, m, x, y
<1>5. /\ a \o b \in Seq(Roles) /\ Len(a \o b) = n + m
      /\ \A i \in 1..n + m : (a \o b)[i] = IF i <= n THEN a[i] ELSE b[i - n]
  BY <1>2, ConcatProperties
<1>6. ASSUME NEW i \in 1..n + m PROVE d[i] = (a \o b)[i]
  <2>1. CASE i <= n
    <3>1. i \in 1..n
      BY <1>2, <2>1
    <3> QED BY <1>1, <1>2, <1>3, <1>5, <2>1, <3>1
  <2>2. CASE ~(i <= n)
    <3>1. i - n \in 1..m
      BY <1>2, <2>2
    <3> QED BY <1>1, <1>2, <1>3, <1>5, <2>2, <3>1
  <2> QED BY <2>1, <2>2
<1>7. d = a \o b
  BY <1>1, <1>3, <1>5, <1>6, SeqEqual
<1> QED BY <1>7 DEF a, b, d

LEMMA RolesLeftOne ==
  ASSUME NEW who, NEW x \in StepsFor(who)
  PROVE  /\ x \in Silent => RolesLeft(who, <<x>>) = <<>>
         /\ x \notin Silent => RolesLeft(who, <<x>>) = <<RoleFor(who, x)>>
<1>1. ASSUME x \in Silent PROVE RolesLeft(who, <<x>>) = <<>>
  <2>1. Loud(<<x>>) = <<>>
    BY <1>1, LoudOne
  <2> QED BY <1>1, <2>1 DEF RolesLeft
<1>2. ASSUME x \notin Silent PROVE RolesLeft(who, <<x>>) = <<RoleFor(who, x)>>
  <2>1. Loud(<<x>>) = <<x>>
    BY <1>2, LoudOne
  <2> DEFINE u == <<x>>
             r == RoleFor(who, x)
             f == RolesLeft(who, u)
  <2>2. Len(u) = 1 /\ u[1] = x
    OBVIOUS
  <2>3. f = [j \in 1..Len(u) |-> RoleFor(who, u[j])]
    BY <2>1 DEF RolesLeft
  <2> HIDE DEF u, f
  <2>4. f = [j \in 1..1 |-> r]
    BY <2>2, <2>3
  <2> HIDE DEF r
  <2>5. f = <<r>>
    BY <2>4
  <2> QED BY <2>5 DEF f, r, u
<1> QED BY <1>1, <1>2

LEMMA RolesLeftNone ==
  ASSUME NEW who
  PROVE  RolesLeft(who, <<>>) = <<>>
BY LoudNone DEF RolesLeft

LEMMA RolesLeftTail ==
  ASSUME NEW who, NEW t \in Seq(StepsFor(who)), t # <<>>
  PROVE  /\ Tail(t) \in Seq(StepsFor(who)) /\ Head(t) \in StepsFor(who)
         /\ Head(t) \in Silent => RolesLeft(who, Tail(t)) = RolesLeft(who, t)
         /\ Head(t) \notin Silent =>
              /\ RolesLeft(who, t) # <<>> /\ Head(RolesLeft(who, t)) = RoleFor(who, Head(t))
              /\ RolesLeft(who, Tail(t)) = Tail(RolesLeft(who, t))
<1> DEFINE h == Head(t)
           c == Tail(t)
           S == StepsFor(who)
<1>1. h \in S /\ c \in Seq(S) /\ t = <<h>> \o c /\ <<h>> \in Seq(S)
  BY HeadTailProperties
<1>2. t = <<h>> \o c => RolesLeft(who, t) = RolesLeft(who, <<h>>) \o RolesLeft(who, c)
  <2> HIDE DEF h, c
  <2> QED BY <1>1, RolesLeftConcat
<1>3. RolesLeft(who, t) = RolesLeft(who, <<h>>) \o RolesLeft(who, c)
  BY <1>1, <1>2
<1>4. RolesLeft(who, c) \in Seq(Roles)
  <2> HIDE DEF c
  <2> QED BY <1>1, RolesLeftType
<1> DEFINE b == RolesLeft(who, c)
           r == RoleFor(who, h)
<1>5. CASE h \in Silent
  <2>1. RolesLeft(who, <<h>>) = <<>>
    BY <1>1, <1>5, RolesLeftOne
  <2>2. <<>> \o b = b
    BY <1>4, ConcatEmptySeq
  <2> QED BY <1>1, <1>3, <1>5, <2>1, <2>2
<1>6. CASE h \notin Silent
  <2>1. RolesLeft(who, <<h>>) = <<r>> /\ r \in Roles
    BY <1>1, <1>6, RolesLeftOne, RolesForType
  <2>2. <<r>> \o b # <<>> /\ Head(<<r>> \o b) = r /\ Tail(<<r>> \o b) = b
    <3> HIDE DEF b, r
    <3>1. r \in Roles /\ b \in Seq(Roles)
      BY <1>4, <2>1 DEF b
    <3> QED BY <3>1
  <2> QED BY <1>1, <1>3, <1>6, <2>1, <2>2
<1> QED BY <1>5, <1>6

(* The reads s stand for the roles r.                                       *)
Means(who, s, r) ==
  s \in Seq(StepsFor(who)) /\ r \in Seq(Roles) /\ RolesLeft(who, s) = r

LEMMA MeansConcat ==
  ASSUME NEW who, NEW s1, NEW r1, NEW s2, NEW r2, Means(who, s1, r1), Means(who, s2, r2)
  PROVE  Means(who, s1 \o s2, r1 \o r2)
<1>1. /\ s1 \in Seq(StepsFor(who)) /\ s2 \in Seq(StepsFor(who))
      /\ r1 \in Seq(Roles) /\ r2 \in Seq(Roles)
      /\ RolesLeft(who, s1) = r1 /\ RolesLeft(who, s2) = r2
  BY DEF Means
<1>2. s1 \o s2 \in Seq(StepsFor(who)) /\ r1 \o r2 \in Seq(Roles)
  BY <1>1, ConcatProperties
<1>3. RolesLeft(who, s1 \o s2) = r1 \o r2
  BY <1>1, RolesLeftConcat
<1> QED BY <1>2, <1>3 DEF Means

LEMMA MeansNone == \A who : Means(who, <<>>, <<>>)
BY RolesLeftNone DEF Means

(* Where every step reads something.                                        *)
LEMMA MeansAll ==
  ASSUME NEW who, NEW s \in Seq(StepsFor(who) \ Silent), NEW r \in Seq(Roles), Len(s) = Len(r),
         \A j \in 1..Len(s) : RoleFor(who, s[j]) = r[j]
  PROVE  Means(who, s, r)
<1> DEFINE T == StepsFor(who) \ Silent
<1>1. Loud(s) = s
  <2>1. s \in Seq(T) /\ T \cap Silent = {}
    OBVIOUS
  <2> HIDE DEF T
  <2> QED BY <2>1, LoudAll
<1>2. s \in Seq(StepsFor(who))
  <2>1. \A j \in 1..Len(s) : s[j] \in StepsFor(who)
    BY ElementOfSeq
  <2> QED BY <2>1
<1>3. /\ RolesLeft(who, s) \in Seq(Roles) /\ Len(RolesLeft(who, s)) = Len(r)
      /\ \A j \in 1..Len(r) : RolesLeft(who, s)[j] = r[j]
  <2>1. /\ RolesLeft(who, s) \in Seq(Roles) /\ Len(RolesLeft(who, s)) = Len(Loud(s))
        /\ \A j \in 1..Len(Loud(s)) : RolesLeft(who, s)[j] = RoleFor(who, Loud(s)[j])
    BY <1>2, RolesLeftType
  <2> QED BY <1>1, <2>1
<1>4. RolesLeft(who, s) = r
  BY <1>3, SeqEqual
<1> QED BY <1>2, <1>4 DEF Means

LEMMA MatchMeans ==
  ASSUME NEW s, NEW r, Match(s, r)
  PROVE  Means("parse", s, r)
<1>1. StepsFor("parse") \ Silent = StepNames
  BY DEF StepsFor, StepNames, Silent
<1>2. s \in Seq(StepNames) /\ r \in Seq(Roles) /\ Len(s) = Len(r)
      /\ \A j \in 1..Len(s) : RoleFor("parse", s[j]) = r[j]
  BY DEF Match, RoleFor
<1> QED BY <1>1, <1>2, MeansAll

LEMMA SilentMeans ==
  ASSUME NEW x \in Silent
  PROVE  Means("walk", <<x>>, <<>>)
<1>1. x \in StepsFor("walk")
  BY DEF StepsFor
<1>2. RolesLeft("walk", <<x>>) = <<>> /\ <<x>> \in Seq(StepsFor("walk"))
  BY <1>1, RolesLeftOne
<1> QED BY <1>2, RoleSeqs DEF Means

LEMMA WalkMeans ==
  /\ Means("walk", <<"early">>, <<"cell">>) /\ Means("walk", <<"attrs">>, <<"cell">>)
  /\ Means("walk", <<"tag">>, <<"tag">>) /\ Means("walk", <<"ltag">>, <<"tag">>)
  /\ Means("walk", <<"chars">>, <<"chars">>)
  /\ Means("walk", <<"cell", "tail">>, <<"item", "cdr">>)
  /\ Means("walk", <<"function", "args">>, <<"item", "cdr">>)
  /\ Means("walk", <<"formals", "body", "environment">>, <<"env", "cdr", "item">>)
  /\ Means("walk", <<"class", "state", "altattrs">>, <<"cell", "item", "attrib">>)
  /\ Means("walk", <<"enclosing", "frame", "hashtab", "attrib">>, <<"env", "cdr", "hash", "attrib">>)
<1> DEFINE Q(s, r) == /\ s \in Seq(StepsFor("walk") \ Silent) /\ r \in Seq(Roles) /\ Len(s) = Len(r)
                      /\ \A j \in 1..Len(s) : RoleFor("walk", s[j]) = r[j]
<1>1. \A s, r : Q(s, r) => Means("walk", s, r)
  BY MeansAll
<1>2. StepsFor("walk") \ Silent = Segments \cup ByParseObject
  BY DEF StepsFor, Segments, ByParseObject, Silent, Quiet
<1>3. \A x \in Segments \cup ByParseObject : RoleFor("walk", x) = WalkRoleOf(x)
  BY DEF RoleFor
<1>4. Q(<<"early">>, <<"cell">>) /\ Q(<<"attrs">>, <<"cell">>) /\ Q(<<"tag">>, <<"tag">>)
      /\ Q(<<"ltag">>, <<"tag">>) /\ Q(<<"chars">>, <<"chars">>)
  BY <1>2, <1>3 DEF WalkRoleOf, RoleOf, Segments, ByParseObject, Quiet, Roles
<1>5. Q(<<"cell", "tail">>, <<"item", "cdr">>) /\ Q(<<"function", "args">>, <<"item", "cdr">>)
  BY <1>2, <1>3 DEF WalkRoleOf, RoleOf, Segments, ByParseObject, Quiet, Roles
<1>6. Q(<<"formals", "body", "environment">>, <<"env", "cdr", "item">>)
      /\ Q(<<"class", "state", "altattrs">>, <<"cell", "item", "attrib">>)
  BY <1>2, <1>3 DEF WalkRoleOf, RoleOf, Segments, ByParseObject, Quiet, Roles
<1>7. Q(<<"enclosing", "frame", "hashtab", "attrib">>, <<"env", "cdr", "hash", "attrib">>)
  BY <1>2, <1>3 DEF WalkRoleOf, RoleOf, Segments, ByParseObject, Quiet, Roles
<1> HIDE DEF Q
<1> QED BY <1>1, <1>4, <1>5, <1>6, <1>7

LEMMA WalkMeansRun ==
  ASSUME NEW n \in Nat
  PROVE  Means("walk", [j \in 1..n |-> "element"], [j \in 1..n |-> "item"])
<1> DEFINE s == [j \in 1..n |-> "element"]
           r == [j \in 1..n |-> "item"]
<1>1. "element" \in StepsFor("walk") \ Silent /\ RoleFor("walk", "element") = "item" /\ "item" \in Roles
  BY DEF StepsFor, Segments, Silent, RoleFor, WalkRoleOf, Roles
<1>2. s \in Seq(StepsFor("walk") \ Silent) /\ r \in Seq(Roles) /\ Len(s) = n /\ Len(r) = n
      /\ \A j \in 1..n : s[j] = "element" /\ r[j] = "item"
  BY <1>1
<1> HIDE DEF s, r
<1>3. Means("walk", s, r)
  BY <1>1, <1>2, MeansAll
<1> QED BY <1>3 DEF s, r

(* The streams the traversal handles: those that parse_object handles, and  *)
(* without promises, which it does not read as R writes them.               *)
WalkHandled == Handled /\ "prom" \notin Kinds

(* What the traversal reads of an item is what R writes of it.              *)
LEMMA WalkDataMeans ==
  ASSUME WalkHandled, RTypeOK, NEW role \in Roles, NEW i \in NewItems(role)
  PROVE  Means("walk", WalkData(i), Contents(i))
<1>1. \A s \in {"tag", "ltag"} : Means("walk", IfTagged(i, s), IfTagged(i, "tag"))
  BY MeansNone, WalkMeans DEF IfTagged
<1>2. i.n \in Nat /\ i.type \notin {"extptr", "prom"} /\ i.type \in AllKinds
  <2>1. i.type \in KindsOf(role) /\ i \in Items /\ i.type \in AllKinds
    BY NewItemFacts
  <2>2. i.type \notin {"extptr", "prom"}
    BY <2>1 DEF WalkHandled, Handled, KindsOf, Roles, EnvKinds, SymbolKinds
  <2> QED BY <2>1, <2>2 DEF Items
<1>3. CASE i.type \in SymbolKinds
  <2>1. WalkData(i) = <<"chars">> /\ Contents(i) = <<"chars">>
    BY <1>3 DEF SymbolKinds, WalkData, Contents, WalkSymbol, ParseSymbol
  <2> QED BY <2>1, WalkMeans
<1>4. CASE i.type = "env"
  <2>1. /\ WalkData(i) = <<"enclosing", "frame", "hashtab", "attrib">>
        /\ Contents(i) = <<"env", "cdr", "hash", "attrib">>
    BY <1>4 DEF SymbolKinds, WalkData, Contents, WalkEnvironment
  <2> QED BY <2>1, WalkMeans
<1>5. CASE i.type = "list"
  <2>1. /\ WalkData(i) = IfTagged(i, "tag") \o <<"cell", "tail">>
        /\ Contents(i) = IfTagged(i, "tag") \o <<"item", "cdr">>
    BY <1>5 DEF SymbolKinds, WalkData, Contents, WalkCell
  <2>2. Means("walk", <<"cell", "tail">>, <<"item", "cdr">>)
    BY WalkMeans
  <2> QED BY <1>1, <2>1, <2>2, MeansConcat
<1>6. CASE i.type = "lang"
  <2>1. /\ WalkData(i) = IfTagged(i, "ltag") \o <<"function", "args">>
        /\ Contents(i) = IfTagged(i, "tag") \o <<"item", "cdr">>
    BY <1>6 DEF SymbolKinds, WalkData, Contents, WalkLanguage
  <2>2. Means("walk", <<"function", "args">>, <<"item", "cdr">>)
    BY WalkMeans
  <2> QED BY <1>1, <2>1, <2>2, MeansConcat
<1>7. CASE i.type = "clo"
  <2>1. /\ WalkData(i) = <<"formals", "body", "environment">>
        /\ Contents(i) = <<"env", "cdr", "item">>
    BY <1>7 DEF SymbolKinds, WalkData, Contents, WalkClosure
  <2> QED BY <2>1, WalkMeans
<1>8. CASE i.type = "vec"
  <2>1. WalkData(i) = [j \in 1..i.n |-> "element"] /\ Contents(i) = [j \in 1..i.n |-> "item"]
    BY <1>8 DEF SymbolKinds, WalkData, Contents, WalkList
  <2> QED BY <1>2, <2>1, WalkMeansRun
<1>9. CASE i.type = "expr"
  <2>1. WalkData(i) = [j \in 1..i.n |-> "element"] /\ Contents(i) = [j \in 1..i.n |-> "item"]
    BY <1>9 DEF SymbolKinds, WalkData, Contents, WalkExpression
  <2> QED BY <1>2, <2>1, WalkMeansRun
<1>10. CASE i.type = "altrep"
  <2>1. /\ WalkData(i) = <<"class", "state", "altattrs">>
        /\ Contents(i) = <<"cell", "item", "attrib">>
    BY <1>10 DEF SymbolKinds, WalkData, Contents, WalkAltrep, ParseAltrep
  <2> QED BY <2>1, WalkMeans
<1>11. CASE i.type \notin SymbolKinds \cup {"env", "list", "lang", "clo", "vec", "expr", "altrep"}
  <2>1. WalkData(i) = <<>> /\ Contents(i) = <<>>
    BY <1>11, <1>2 DEF SymbolKinds, WalkData, Contents
  <2> QED BY <2>1, MeansNone
<1> QED BY <1>3, <1>4, <1>5, <1>6, <1>7, <1>8, <1>9, <1>10, <1>11

LEMMA WalkStepsMean ==
  ASSUME WalkHandled, RTypeOK, NEW role \in Roles, NEW i \in NewItems(role)
  PROVE  Means("walk", WalkSteps(i), Parts(i))
<1>1. Means("walk", EarlyAttrs(i), AttrsBefore(i))
  BY MeansNone, WalkMeans DEF EarlyAttrs, AttrsBefore, Early, AttrFirst
<1>2. Means("walk", LateAttrs(i), AttrsAfter(i))
  BY MeansNone, WalkMeans DEF LateAttrs, AttrsAfter, Early, AttrFirst
<1>3. \A a : Means("walk", Reported(a), <<>>)
  BY MeansNone, SilentMeans DEF Reported, Silent
<1>4. Means("walk", <<"start">>, <<>>)
  BY SilentMeans DEF Silent
<1> DEFINE b == AttrsBefore(i)
           c == Contents(i)
           d == AttrsAfter(i)
<1>5. Means("walk", WalkSteps(i), b \o (<<>> \o (<<>> \o c \o d \o <<>>)))
  <2>1. Means("walk", Reported(EarlyAttrs(i)) \o WalkData(i), <<>> \o c)
    BY <1>3, WalkDataMeans, MeansConcat
  <2>2. Means("walk", Reported(EarlyAttrs(i)) \o WalkData(i) \o LateAttrs(i), <<>> \o c \o d)
    BY <2>1, <1>2, MeansConcat
  <2>3. Means("walk", OnceStarted(i), <<>> \o c \o d \o <<>>)
    BY <2>2, <1>3, MeansConcat DEF OnceStarted
  <2>4. Means("walk", <<"start">> \o OnceStarted(i), <<>> \o (<<>> \o c \o d \o <<>>))
    BY <2>3, <1>4, MeansConcat
  <2> QED BY <1>1, <2>4, MeansConcat DEF WalkSteps
<1>6. b \in Seq(Roles) /\ c \in Seq(Roles) /\ d \in Seq(Roles)
  BY <1>1, <1>2, WalkDataMeans DEF Means
<1>7. b \o (<<>> \o (<<>> \o c \o d \o <<>>)) = b \o c \o d
  <2> HIDE DEF b, c, d
  <2> DEFINE v == c \o d
  <2>1. v \in Seq(Roles) /\ <<>> \o c = c /\ b \o c \o d = b \o v
    BY <1>6, ConcatEmptySeq, ConcatProperties, ConcatAssociative
  <2>2. <<>> \o c \o d = v
    BY <2>1
  <2> HIDE DEF v
  <2>3. v \o <<>> = v /\ <<>> \o v = v
    BY <2>1, ConcatEmptySeq
  <2> QED BY <2>1, <2>2, <2>3
<1>8. Parts(i) = b \o c \o d
  BY DEF Parts
<1> QED BY <1>5, <1>7, <1>8
-----------------------------------------------------------------------------
(* What a call of the traversal has left, between its steps: the visitor    *)
(* has yet to hear of the object, or has m values among the attributes of   *)
(* the object open, or neither.                                             *)
WalkNames == StepsFor("walk")
Calm      == WalkNames \ {"start", "endreport"}

Waiting(t) == \E c \in Seq(Calm) : \/ t = <<"start">> \o c
                                   \/ t = <<"early">> \o (<<"start">> \o c)

ReportingFrom(t, m, x) ==
  /\ x + m <= Len(t) /\ (x = 1 => t[1] = "report")
  /\ \A j \in 1..Len(t) : t[j] = "endreport" <=> x < j /\ j <= x + m

Reporting(t, m) == t \in Seq(WalkNames \ {"start"}) /\ \E x \in {0, 1} : ReportingFrom(t, m, x)

LEMMA CalmReports ==
  ASSUME NEW t
  PROVE  Reporting(t, 0) <=> t \in Seq(Calm)
<1>1. ASSUME Reporting(t, 0) PROVE t \in Seq(Calm)
  <2>1. t \in Seq(WalkNames \ {"start"})
    BY <1>1 DEF Reporting
  <2>2. PICK x \in {0, 1} : ReportingFrom(t, 0, x)
    BY <1>1 DEF Reporting
  <2>3. ASSUME NEW j \in 1..Len(t) PROVE t[j] \in Calm
    <3>1. t[j] \in WalkNames \ {"start"}
      BY <2>1, ElementOfSeq
    <3>2. t[j] = "endreport" <=> x < j /\ j <= x + 0
      BY <2>2 DEF ReportingFrom
    <3>3. j \in Nat /\ x \in Nat
      OBVIOUS
    <3>4. ~(x < j /\ j <= x + 0)
      BY <3>3
    <3> QED BY <3>1, <3>2, <3>4 DEF Calm
  <2> QED BY <2>1, <2>3
<1>2. ASSUME t \in Seq(Calm) PROVE Reporting(t, 0)
  <2>1. \A j \in 1..Len(t) : t[j] \in Calm
    BY <1>2, ElementOfSeq
  <2>2. t \in Seq(WalkNames \ {"start"})
    BY <1>2, <2>1 DEF Calm
  <2>3. ReportingFrom(t, 0, 0)
    <3>1. Len(t) \in Nat
      BY <1>2
    <3>2. ASSUME NEW j \in 1..Len(t) PROVE t[j] = "endreport" <=> 0 < j /\ j <= 0 + 0
      <4>1. t[j] # "endreport"
        BY <2>1 DEF Calm
      <4> QED BY <4>1
    <3> QED BY <3>1, <3>2 DEF ReportingFrom
  <2> QED BY <2>2, <2>3 DEF Reporting
<1> QED BY <1>1, <1>2

LEMMA ReportingEnds ==
  ASSUME NEW t, NEW m \in Nat, Reporting(t, m), t # <<>>, Head(t) = "endreport"
  PROVE  m > 0 /\ Reporting(Tail(t), m - 1)
<1> DEFINE u == Tail(t)
           T == WalkNames \ {"start"}
<1>1. t \in Seq(T) /\ Len(t) \in Nat \ {0} /\ t[1] = "endreport"
  BY EmptySeq DEF Reporting
<1>2. u \in Seq(T) /\ Len(u) = Len(t) - 1 /\ \A j \in 1..Len(u) : u[j] = t[j + 1]
  BY <1>1, HeadTailProperties
<1>3. PICK x \in {0, 1} : ReportingFrom(t, m, x)
  BY DEF Reporting
<1> HIDE DEF u
<1>4. x = 0
  BY <1>1, <1>3 DEF ReportingFrom
<1>5. 1 \in 1..Len(t) /\ m > 0 /\ m - 1 \in Nat
  <2>1. 1 \in 1..Len(t)
    BY <1>1
  <2>2. t[1] = "endreport" <=> x < 1 /\ 1 <= x + m
    BY <1>3, <2>1 DEF ReportingFrom
  <2> QED BY <1>1, <1>4, <2>1, <2>2
<1>6. ReportingFrom(u, m - 1, 0)
  <2>1. 0 + (m - 1) <= Len(u)
    BY <1>1, <1>2, <1>3, <1>4 DEF ReportingFrom
  <2>2. ASSUME NEW j \in 1..Len(u)
        PROVE  u[j] = "endreport" <=> 0 < j /\ j <= 0 + (m - 1)
    <3>1. j + 1 \in 1..Len(t) /\ u[j] = t[j + 1]
      BY <1>1, <1>2
    <3>2. t[j + 1] = "endreport" <=> 0 < j + 1 /\ j + 1 <= 0 + m
      BY <1>3, <1>4, <3>1 DEF ReportingFrom
    <3> QED BY <1>5, <3>1, <3>2
  <2> QED BY <2>1, <2>2 DEF ReportingFrom
<1> QED BY <1>2, <1>5, <1>6 DEF Reporting, u

LEMMA ReportingGoesOn ==
  ASSUME NEW t, NEW m \in Nat, Reporting(t, m), t # <<>>, Head(t) = "report"
  PROVE  /\ Reporting(Tail(t), m)
         /\ Reporting(<<"endreport">> \o Tail(t), m + 1)
         /\ Reporting(<<"report", "endreport">> \o Tail(t), m + 1)
<1> DEFINE u == Tail(t)
           T == WalkNames \ {"start"}
<1>1. t \in Seq(T) /\ Len(t) \in Nat \ {0} /\ t[1] = "report"
  BY EmptySeq DEF Reporting
<1>2. u \in Seq(T) /\ Len(u) = Len(t) - 1 /\ \A j \in 1..Len(u) : u[j] = t[j + 1]
  BY <1>1, HeadTailProperties
<1>3. PICK x \in {0, 1} : ReportingFrom(t, m, x)
  BY DEF Reporting
<1> HIDE DEF u
<1>4. x = 1 \/ (x = 0 /\ m = 0)
  <2>1. 1 \in 1..Len(t)
    BY <1>1
  <2>2. t[1] = "endreport" <=> x < 1 /\ 1 <= x + m
    BY <1>3, <2>1 DEF ReportingFrom
  <2> QED BY <1>1, <2>2
<1>5. /\ m <= Len(u)
      /\ \A j \in 1..Len(u) : u[j] = "endreport" <=> j <= m
  <2>1. m <= Len(u)
    BY <1>1, <1>2, <1>3, <1>4 DEF ReportingFrom
  <2>2. ASSUME NEW j \in 1..Len(u) PROVE u[j] = "endreport" <=> j <= m
    <3>1. j + 1 \in 1..Len(t) /\ u[j] = t[j + 1] /\ j \in Nat \ {0}
      BY <1>1, <1>2
    <3>2. t[j + 1] = "endreport" <=> x < j + 1 /\ j + 1 <= x + m
      BY <1>3, <3>1 DEF ReportingFrom
    <3> QED BY <1>4, <3>1, <3>2
  <2> QED BY <2>1, <2>2
<1>6. Reporting(u, m)
  <2>1. ReportingFrom(u, m, 0)
    <3>1. \A j \in 1..Len(u) : 0 < j
      OBVIOUS
    <3> QED BY <1>5, <3>1 DEF ReportingFrom
  <2> QED BY <1>2, <2>1 DEF Reporting
<1>7. "endreport" \in T /\ "report" \in T
  BY DEF WalkNames, StepsFor, Silent
<1>8. Len(u) \in Nat
  BY <1>2
<1> HIDE DEF T
<1>9. Reporting(<<"endreport">> \o u, m + 1)
  <2> DEFINE v == <<"endreport">> \o u
  <2>1. /\ v \in Seq(T) /\ Len(v) = Len(u) + 1
        /\ v[1] = "endreport" /\ \A j \in 1..Len(u) : v[j + 1] = u[j]
    BY <1>2, <1>7
  <2> HIDE DEF v
  <2>2. ASSUME NEW j \in 1..Len(v) PROVE v[j] = "endreport" <=> 0 < j /\ j <= 0 + (m + 1)
    <3>1. CASE j = 1
      BY <2>1, <3>1
    <3>2. CASE j # 1
      <4>1. j - 1 \in 1..Len(u) /\ (j - 1) + 1 = j
        BY <1>8, <2>1, <3>2
      <4>2. v[j] = u[j - 1]
        BY <2>1, <4>1
      <4> QED BY <1>5, <4>1, <4>2
    <3> QED BY <3>1, <3>2
  <2>3. ReportingFrom(v, m + 1, 0)
    BY <1>5, <1>8, <2>1, <2>2 DEF ReportingFrom
  <2> QED BY <2>1, <2>3 DEF Reporting, T, v
<1>10. Reporting(<<"report", "endreport">> \o u, m + 1)
  <2> DEFINE v == <<"report", "endreport">> \o u
  <2>1. /\ v \in Seq(T) /\ Len(v) = Len(u) + 2
        /\ v[1] = "report" /\ v[2] = "endreport" /\ \A j \in 1..Len(u) : v[j + 2] = u[j]
    BY <1>2, <1>7
  <2> HIDE DEF v
  <2>2. ASSUME NEW j \in 1..Len(v) PROVE v[j] = "endreport" <=> 1 < j /\ j <= 1 + (m + 1)
    <3>1. CASE j = 1
      BY <2>1, <3>1
    <3>2. CASE j = 2
      BY <2>1, <3>2
    <3>3. CASE j # 1 /\ j # 2
      <4>1. j - 2 \in 1..Len(u) /\ (j - 2) + 2 = j
        BY <1>8, <2>1, <3>3
      <4>2. v[j] = u[j - 2]
        BY <2>1, <4>1
      <4> QED BY <1>5, <4>1, <4>2
    <3> QED BY <3>1, <3>2, <3>3
  <2>3. ReportingFrom(v, m + 1, 1)
    BY <1>5, <1>8, <2>1, <2>2 DEF ReportingFrom
  <2> QED BY <2>1, <2>3 DEF Reporting, T, v
<1> QED BY <1>6, <1>9, <1>10 DEF u

LEMMA ReportingNone ==
  ASSUME NEW t, NEW m \in Nat, Reporting(t, m),
         t = <<>> \/ (t # <<>> /\ Head(t) \notin {"report", "endreport"})
  PROVE  m = 0
<1>1. t \in Seq(WalkNames \ {"start"})
  BY DEF Reporting
<1>2. PICK x \in {0, 1} : ReportingFrom(t, m, x)
  BY DEF Reporting
<1>3. CASE t = <<>>
  <2>1. Len(t) = 0
    BY <1>3
  <2> QED BY <1>2, <2>1 DEF ReportingFrom
<1>4. CASE t # <<>> /\ Head(t) \notin {"report", "endreport"}
  <2>1. 1 \in 1..Len(t) /\ t[1] = Head(t)
    <3>1. Len(t) \in Nat \ {0}
      BY <1>1, <1>4, EmptySeq
    <3> QED BY <3>1
  <2>2. (t[1] = "endreport" <=> x < 1 /\ 1 <= x + m) /\ (x = 1 => t[1] = "report")
    BY <1>2, <2>1 DEF ReportingFrom
  <2> QED BY <1>4, <2>1, <2>2
<1> QED BY <1>3, <1>4

LEMMA WaitingFacts ==
  ASSUME NEW t, Waiting(t)
  PROVE  /\ t \in Seq(WalkNames) /\ t # <<>> /\ Head(t) \in {"start", "early"}
         /\ Head(t) = "start" => Tail(t) \in Seq(Calm)
         /\ Head(t) = "early" => Tail(t) # <<>> /\ Waiting(Tail(t)) /\ Head(Tail(t)) = "start"
         /\ \A m : ~Reporting(t, m)
<1>0. "start" \in WalkNames /\ "early" \in WalkNames /\ Calm \subseteq WalkNames
  BY DEF WalkNames, Calm, StepsFor, Silent, ByParseObject
<1>1. PICK c \in Seq(Calm) : t = <<"start">> \o c \/ t = <<"early">> \o (<<"start">> \o c)
  BY DEF Waiting
<1>2. c \in Seq(WalkNames)
  <2>1. \A j \in 1..Len(c) : c[j] \in WalkNames
    BY <1>0, ElementOfSeq
  <2> QED BY <2>1
<1> DEFINE s == <<"start">> \o c
<1>3. s \in Seq(WalkNames) /\ s # <<>> /\ Head(s) = "start" /\ Tail(s) = c
      /\ 1 \in 1..Len(s) /\ s[1] = "start"
  <2> HIDE DEF WalkNames
  <2> QED BY <1>0, <1>2
<1>4. CASE t = s
  <2>1. \A m : ~Reporting(t, m)
    <3> SUFFICES ASSUME t \in Seq(WalkNames \ {"start"}) PROVE FALSE
      BY DEF Reporting
    <3>1. t[1] \in WalkNames \ {"start"}
      BY <1>3, <1>4, ElementOfSeq
    <3> QED BY <1>3, <1>4, <3>1
  <2> HIDE DEF s
  <2> QED BY <1>3, <1>4, <2>1
<1>5. CASE t = <<"early">> \o s
  <2>0. Waiting(s)
    BY DEF Waiting
  <2> HIDE DEF s, WalkNames
  <2>1. t \in Seq(WalkNames) /\ t # <<>> /\ Head(t) = "early" /\ Tail(t) = s
        /\ 2 \in 1..Len(t) /\ t[2] = s[1]
    BY <1>0, <1>3, <1>5
  <2>2. \A m : ~Reporting(t, m)
    <3> SUFFICES ASSUME t \in Seq(WalkNames \ {"start"}) PROVE FALSE
      BY DEF Reporting
    <3>1. t[2] \in WalkNames \ {"start"}
      BY <2>1, ElementOfSeq
    <3> QED BY <1>3, <2>1, <3>1
  <2> QED BY <1>3, <2>0, <2>1, <2>2
<1> QED BY <1>1, <1>4, <1>5

LEMMA CalmShort ==
  /\ <<>> \in Seq(Calm) /\ <<"attrs">> \in Seq(Calm) /\ <<"report">> \in Seq(Calm)
  /\ <<"tag">> \in Seq(Calm) /\ <<"ltag">> \in Seq(Calm) /\ <<"chars">> \in Seq(Calm)
  /\ <<"cell", "tail">> \in Seq(Calm) /\ <<"function", "args">> \in Seq(Calm)
  /\ <<"formals", "body", "environment">> \in Seq(Calm)
  /\ <<"value", "expression", "environment">> \in Seq(Calm)
  /\ <<"class", "state", "altattrs">> \in Seq(Calm)
  /\ <<"enclosing", "frame", "hashtab", "attrib">> \in Seq(Calm)
  /\ <<"attrs", "report">> \in Seq(Calm) /\ <<"root">> \in Seq(Calm)
BY DEF Calm, WalkNames, StepsFor, Segments, ByParseObject, Silent, Quiet

LEMMA WalkDataCalm ==
  ASSUME NEW i \in Items
  PROVE  WalkData(i) \in Seq(Calm)
<1>1. \A s \in {"tag", "ltag"} : IfTagged(i, s) \in Seq(Calm)
  BY CalmShort DEF IfTagged
<1>2. WalkCell(i) \in Seq(Calm) /\ WalkLanguage(i) \in Seq(Calm)
  BY <1>1, CalmShort, ConcatProperties DEF WalkCell, WalkLanguage
<1>3. WalkList(i) \in Seq(Calm) /\ WalkExpression(i) \in Seq(Calm)
  <2>1. i.n \in Nat /\ "element" \in Calm
    BY DEF Items, Calm, WalkNames, StepsFor, Segments, Silent
  <2> HIDE DEF Calm
  <2>2. [j \in 1..i.n |-> "element"] \in Seq(Calm)
    BY <2>1
  <2> QED BY <2>2 DEF WalkList, WalkExpression
<1>4. /\ WalkSymbol \in Seq(Calm) /\ WalkEnvironment \in Seq(Calm) /\ WalkClosure \in Seq(Calm)
      /\ WalkPromise \in Seq(Calm) /\ WalkAltrep \in Seq(Calm) /\ <<>> \in Seq(Calm)
  BY CalmShort DEF WalkSymbol, ParseSymbol, WalkEnvironment, WalkClosure, WalkPromise,
                   WalkAltrep, ParseAltrep
<1> QED BY <1>2, <1>3, <1>4 DEF WalkData, WalkCell, WalkLanguage

LEMMA WalkStepsWait ==
  ASSUME NEW i \in Items
  PROVE  /\ Waiting(WalkSteps(i))
         /\ i.type \in RTracked => Head(WalkSteps(i)) = "start"
<1> DEFINE e == EarlyAttrs(i)
           s == <<"start">>
           r == Reported(EarlyAttrs(i))
           d == WalkData(i)
           l == LateAttrs(i)
           q == Reported(LateAttrs(i))
           c == r \o d \o l \o q
<1>1. r \in Seq(Calm) /\ d \in Seq(Calm) /\ l \in Seq(Calm) /\ q \in Seq(Calm)
  BY CalmShort, WalkDataCalm DEF Reported, LateAttrs
<1>2. c \in Seq(Calm)
  <2> HIDE DEF r, d, l, q
  <2> QED BY <1>1, ConcatProperties
<1>3. e = <<>> \/ (e = <<"early">> /\ i.type \notin RTracked)
  BY DEF EarlyAttrs, Early, RTracked, SymbolKinds, EnvKinds
<1>5. WalkSteps(i) = e \o (s \o c)
  BY DEF WalkSteps, OnceStarted
<1> HIDE DEF c
<1> DEFINE u == s \o c
<1>6. u # <<>> /\ Head(u) = "start" /\ <<>> \o u = u
  <2>1. u \in Seq(Calm \cup {"start"}) /\ u # <<>> /\ Head(u) = "start"
    BY <1>2
  <2> HIDE DEF u
  <2> QED BY <2>1, ConcatEmptySeq
<1>7. CASE e = <<>>
  <2>1. WalkSteps(i) = u
    BY <1>5, <1>6, <1>7
  <2>2. Waiting(u)
    BY <1>2 DEF Waiting
  <2> QED BY <1>6, <2>1, <2>2
<1>8. CASE e = <<"early">> /\ i.type \notin RTracked
  <2>1. WalkSteps(i) = <<"early">> \o (<<"start">> \o c)
    BY <1>5, <1>8
  <2>2. Waiting(WalkSteps(i))
    BY <1>2, <2>1 DEF Waiting
  <2> QED BY <1>8, <2>2
<1> QED BY <1>3, <1>7, <1>8
-----------------------------------------------------------------------------
(* The types of the traversal's variables.                                  *)
Names     == StepNames \cup Segments \cup Silent
Held      == {"null", "root"} \cup AllKinds
WalkCalls == [emit : BOOLEAN, kids : BOOLEAN, id : Nat, count : Nat]
Paths     == Seq((Names \cup {"attribute"}) \X Nat)

StreamTypes ==
  /\ RTypeOK
  /\ frames \in Seq(FramesIn(Names)) /\ frames # <<>>
  /\ refs \in Seq(Held) /\ inBody \in BOOLEAN /\ lazy \in BOOLEAN
  /\ walk \in Seq(WalkCalls) /\ Calls < Depth
  /\ nesting = Depth - 1 /\ nesting <= MaxDepth
  /\ status \in {"parsing", "unwinding", "ok", "error"}
  /\ stopped \in BOOLEAN /\ nested \in BOOLEAN
  /\ path \in Paths /\ open \in Seq(Paths)

LEMMA Wider ==
  ASSUME NEW S, NEW T, S \subseteq T, NEW t \in Seq(S)
  PROVE  t \in Seq(T)
<1>1. \A j \in 1..Len(t) : t[j] \in T
  BY ElementOfSeq
<1> QED BY <1>1

LEMMA NamesFacts ==
  /\ Calm \subseteq WalkNames /\ WalkNames \subseteq Names /\ StepNames \subseteq Names
  /\ ByParseObject \subseteq StepNames
  /\ \A t \in Seq(Calm) : t \in Seq(WalkNames)
  /\ \A t \in Seq(WalkNames) : t \in Seq(Names)
  /\ \A t \in Seq(StepNames) : t \in Seq(Names)
<1>1. /\ Calm \subseteq WalkNames /\ WalkNames \subseteq Names /\ StepNames \subseteq Names
      /\ ByParseObject \subseteq StepNames
  BY DEF Calm, WalkNames, StepsFor, ByParseObject, Names, StepNames
<1> QED BY <1>1, Wider

LEMMA StreamTop ==
  ASSUME StreamTypes
  PROVE  /\ Depth \in Nat \ {0} /\ Depth = Len(frames) /\ Top \in FramesIn(Names)
         /\ Top.todo \in Seq(Names) /\ Top.rn \in BOOLEAN
         /\ Calls \in Nat /\ Calls = Len(walk)
         /\ Top.todo # <<>> => /\ Step \in Names /\ Rest \in Seq(Names)
                               /\ Step = Head(Top.todo) /\ Rest = Tail(Top.todo)
         /\ \A k \in 1..Depth : /\ frames[k] \in FramesIn(Names) /\ frames[k].todo \in Seq(Names)
                                /\ frames[k].ref \in Nat /\ frames[k].rn \in BOOLEAN
         /\ \A k \in 1..Calls : walk[k] \in WalkCalls
         /\ Calls > 0 => /\ Here \in WalkCalls /\ Here = walk[Calls]
<1>1. /\ Depth \in Nat \ {0} /\ Depth = Len(frames) /\ Top \in FramesIn(Names)
      /\ Top.todo \in Seq(Names) /\ Top.rn \in BOOLEAN
      /\ \A k \in 1..Depth : frames[k] \in FramesIn(Names) /\ frames[k].todo \in Seq(Names)
                             /\ frames[k].ref \in Nat
  BY FrameFacts DEF StreamTypes, Depth, Top
<1>2. \A k \in 1..Depth : frames[k].rn \in BOOLEAN
  BY <1>1 DEF FramesIn
<1>3. Calls \in Nat /\ Calls = Len(walk) /\ \A k \in 1..Calls : walk[k] \in WalkCalls
  BY ElementOfSeq DEF StreamTypes, Calls
<1>4. Calls > 0 => Here \in WalkCalls /\ Here = walk[Calls]
  <2>1. Calls > 0 => Calls \in 1..Calls
    BY <1>3
  <2> QED BY <1>3, <2>1 DEF Here
<1>5. Top.todo # <<>> => /\ Step \in Names /\ Rest \in Seq(Names)
                         /\ Step = Head(Top.todo) /\ Rest = Tail(Top.todo)
  <2>1. \A t \in Seq(Names) : t # <<>> => Head(t) \in Names /\ Tail(t) \in Seq(Names)
    BY HeadTailProperties
  <2> QED BY <1>1, <2>1 DEF Step, Rest
<1> QED BY <1>1, <1>2, <1>3, <1>4, <1>5

(* The stack after a step of the innermost call, after a call and after a   *)
(* return; what a call is, is all but what it has left and its slot.        *)
SameBelow(n) == \A k \in 1..n : frames'[k] = frames[k]
SameKinds(n) == \A k \in 1..n : SameCall(frames'[k], frames[k])
StackType    == frames' \in Seq(FramesIn(Names)) /\ frames' # <<>>

LEMMA StreamGoesOn ==
  ASSUME StreamTypes, NEW t \in Seq(Names), NEW r \in BOOLEAN, frames' = Continue(frames, t, r)
  PROVE  /\ StackType /\ Len(frames') = Depth /\ SameBelow(Depth - 1) /\ SameKinds(Depth)
         /\ frames'[Depth].todo = t
<1> DEFINE s == frames
           T == Names
           c == Continue(s, t, r)
<1>1. s \in Seq(FramesIn(T)) /\ t \in Seq(T) /\ s # <<>> /\ Len(s) = Depth
  BY DEF StreamTypes, Depth
<1> HIDE DEF s, T
<1>2. /\ c \in Seq(FramesIn(T)) /\ c # <<>> /\ Len(c) = Len(s)
      /\ \A k \in 1..Len(s) - 1 : c[k] = s[k]
      /\ \A k \in 1..Len(s) : SameCall(c[k], s[k])
      /\ c[Len(s)].todo = t
  <2>1. s \in Seq(FramesIn(T)) /\ s # <<>> /\ t \in Seq(T) /\ r \in BOOLEAN
    BY <1>1
  <2> QED BY ONLY <2>1, GoesOn
<1>3. frames' = c
  BY DEF c, s
<1> HIDE DEF c
<1> QED BY <1>1, <1>2, <1>3 DEF s, T, StackType, SameBelow, SameKinds

LEMMA StreamStarts ==
  ASSUME StreamTypes, Top.todo # <<>>, frames' = Started
  PROVE  /\ StackType /\ Len(frames') = Depth /\ SameBelow(Depth - 1)
         /\ frames'[Depth].todo = Rest /\ frames'[Depth].op = Top.op
         /\ frames'[Depth].as = Top.as /\ frames'[Depth].rest = Top.rest
         /\ frames'[Depth].ref = IF SlotTaken THEN SlotOfNext ELSE 0
<1> DEFINE n == Depth
           x == IF SlotTaken THEN SlotOfNext ELSE 0
           f == [Top EXCEPT !.todo = Rest, !.ref = x]
<1>1. /\ n \in Nat \ {0} /\ Top \in FramesIn(Names) /\ Rest \in Seq(Names)
      /\ frames \in Seq(FramesIn(Names)) /\ Len(frames) = n
  BY StreamTop DEF StreamTypes
<1>2. x \in Nat
  BY DEF StreamTypes, SlotOfNext
<1>3. /\ f \in FramesIn(Names) /\ f.todo = Rest /\ f.op = Top.op /\ f.as = Top.as
      /\ f.rest = Top.rest /\ f.ref = x
  <2> HIDE DEF x
  <2> QED BY <1>1, <1>2 DEF FramesIn
<1>4. frames' = [frames EXCEPT ![n] = f]
  <2>1. n \in DOMAIN frames
    BY <1>1, LenProperties
  <2>2. frames' = [frames EXCEPT ![n].todo = Rest, ![n].ref = x]
    BY DEF Started
  <2> HIDE DEF x
  <2> QED BY <1>1, <2>1, <2>2 DEF Top, FramesIn
<1> HIDE DEF f, n
<1>5. /\ frames' \in Seq(FramesIn(Names)) /\ Len(frames') = n
      /\ \A j \in 1..n : frames'[j] = IF j = n THEN f ELSE frames[j]
  <2>1. n \in 1..n
    BY <1>1
  <2> QED BY <1>1, <1>3, <1>4, <2>1, ExceptSeq
<1>6. \A k \in 1..n - 1 : frames'[k] = frames[k]
  <2> SUFFICES ASSUME NEW k \in 1..n - 1 PROVE frames'[k] = frames[k]
    OBVIOUS
  <2>1. k \in 1..n /\ k # n
    BY <1>1
  <2> QED BY <1>5, <2>1
<1>7. frames'[n] = f /\ frames' # <<>>
  <2>1. n \in 1..n
    BY <1>1
  <2> QED BY <1>1, <1>5, <2>1, EmptySeq
<1> QED BY <1>3, <1>5, <1>6, <1>7 DEF n, StackType, SameBelow

LEMMA StreamPushes ==
  ASSUME StreamTypes, NEW t \in Seq(Names), NEW r \in BOOLEAN,
         NEW f \in FramesIn(Names), frames' = Append(Continue(frames, t, r), f)
  PROVE  /\ StackType /\ Len(frames') = Depth + 1 /\ SameBelow(Depth - 1) /\ SameKinds(Depth)
         /\ frames'[Depth].todo = t /\ frames'[Depth + 1] = f
<1> DEFINE s == frames
           T == Names
           c == Append(Continue(s, t, r), f)
<1>1. s \in Seq(FramesIn(T)) /\ t \in Seq(T) /\ f \in FramesIn(T) /\ s # <<>> /\ Len(s) = Depth
  BY DEF StreamTypes, Depth
<1> HIDE DEF s, T
<1>2. /\ c \in Seq(FramesIn(T)) /\ c # <<>> /\ Len(c) = Len(s) + 1
      /\ \A k \in 1..Len(s) - 1 : c[k] = s[k]
      /\ \A k \in 1..Len(s) : SameCall(c[k], s[k])
      /\ c[Len(s)].todo = t /\ c[Len(s) + 1] = f
  <2>1. s \in Seq(FramesIn(T)) /\ s # <<>> /\ t \in Seq(T) /\ r \in BOOLEAN /\ f \in FramesIn(T)
    BY <1>1
  <2> QED BY ONLY <2>1, Pushes
<1>3. frames' = c
  BY DEF c, s
<1> HIDE DEF c
<1> QED BY <1>1, <1>2, <1>3 DEF s, T, StackType, SameBelow, SameKinds

LEMMA StreamPops ==
  ASSUME StreamTypes, Depth > 1, NEW t \in Seq(Names), NEW r \in BOOLEAN,
         frames' = Continue(SubSeq(frames, 1, Depth - 1), t, r)
  PROVE  /\ StackType /\ Len(frames') = Depth - 1 /\ SameBelow(Depth - 2) /\ SameKinds(Depth - 1)
         /\ frames'[Depth - 1].todo = t
<1> DEFINE T == Names
           s == SubSeq(frames, 1, Depth - 1)
           c == Continue(s, t, r)
           n == Depth - 1
<1>1. /\ Depth = Len(frames) /\ Depth \in Nat /\ frames \in Seq(FramesIn(T))
  BY StreamTop DEF StreamTypes
<1>2. /\ s \in Seq(FramesIn(T)) /\ s # <<>> /\ Len(s) = n
      /\ \A k \in 1..n : s[k] = frames[k]
  BY <1>1, Drops
<1>3. t \in Seq(T) /\ frames' = c /\ n \in Nat /\ n > 0
  BY <1>1
<1> HIDE DEF s, T
<1>4. /\ c \in Seq(FramesIn(T)) /\ c # <<>> /\ Len(c) = Len(s)
      /\ \A k \in 1..Len(s) - 1 : c[k] = s[k]
      /\ \A k \in 1..Len(s) : SameCall(c[k], s[k])
      /\ c[Len(s)].todo = t
  <2>1. s \in Seq(FramesIn(T)) /\ s # <<>> /\ t \in Seq(T) /\ r \in BOOLEAN
    BY <1>2, <1>3
  <2> QED BY ONLY <2>1, GoesOn
<1>5. Depth - 2 = n - 1
  BY <1>1
<1> HIDE DEF c
<1>6. /\ frames' \in Seq(FramesIn(T)) /\ frames' # <<>> /\ Len(frames') = n
      /\ frames'[n].todo = t /\ \A k \in 1..n : SameCall(frames'[k], frames[k])
  BY <1>2, <1>3, <1>4
<1>7. \A k \in 1..n - 1 : frames'[k] = frames[k]
  <2> SUFFICES ASSUME NEW k \in 1..n - 1 PROVE frames'[k] = frames[k]
    OBVIOUS
  <2>1. k \in 1..n
    BY <1>3
  <2> QED BY <1>2, <1>3, <1>4, <2>1
<1> QED BY <1>5, <1>6, <1>7 DEF T, StackType, SameBelow, SameKinds

LEMMA StreamDrops ==
  ASSUME StreamTypes, Depth > 1, frames' = SubSeq(frames, 1, Depth - 1)
  PROVE  StackType /\ Len(frames') = Depth - 1 /\ SameBelow(Depth - 1)
BY StreamTop, Drops DEF StreamTypes, StackType, SameBelow

LEMMA WalkDrops ==
  ASSUME StreamTypes, Calls > 0, walk' = SubSeq(walk, 1, Calls - 1)
  PROVE  /\ walk' \in Seq(WalkCalls) /\ Len(walk') = Calls - 1
         /\ \A k \in 1..Calls - 1 : walk'[k] = walk[k]
<1>1. walk \in Seq(WalkCalls) /\ Calls = Len(walk) /\ Calls \in Nat
  BY StreamTop DEF StreamTypes
<1>2. \A k \in 1..Calls - 1 : walk[k] \in WalkCalls
  BY StreamTop
<1> DEFINE n == Calls - 1
           w == walk
           c == SubSeq(w, 1, n)
<1>3. n \in Nat /\ \A k \in 1..n : w[k] \in WalkCalls
  BY <1>1, <1>2
<1> HIDE DEF n, w
<1>4. c \in Seq(WalkCalls) /\ Len(c) = n /\ \A k \in 1..n : c[k] = w[k]
  <2>1. /\ c \in Seq(WalkCalls) /\ Len(c) = (IF 1 <= n THEN n - 1 + 1 ELSE 0)
        /\ \A k \in 1..n - 1 + 1 : c[k] = w[1 + k - 1]
    BY <1>3, SubSeqProperties
  <2>2. n - 1 + 1 = n /\ (~(1 <= n) => n = 0) /\ \A k \in 1..n : 1 + k - 1 = k
    BY <1>3
  <2> QED BY <2>1, <2>2
<1> QED BY <1>4 DEF n, w
-----------------------------------------------------------------------------
(* What the calls have left: steps of the traversal in its frames, of the   *)
(* value parser in those above; after a Stop, only attributes.  And what    *)
(* the visitor has said: a part is reported only if its parent asked for it.*)
StepsAt(k) == IF k <= Calls + 1 THEN WalkNames ELSE StepNames
StopSteps  == {"attrs", "report", "endreport"}

Tables ==
  /\ RTypeOK /\ refs \in Seq(Held) /\ inBody \in BOOLEAN /\ lazy \in BOOLEAN
  /\ walk \in Seq(WalkCalls) /\ stopped \in BOOLEAN /\ nested \in BOOLEAN
  /\ path \in Paths /\ open \in Seq(Paths)

Lines ==
  /\ \A k \in 1..Depth : frames[k].todo \in Seq(StepsAt(k))
  /\ frames[1].todo \in Seq({"root"})

Answered ==
  \A k \in 1..Calls : /\ walk[k].kids => walk[k].emit
                      /\ k > 1 /\ walk[k].emit => walk[k - 1].kids

StreamShape ==
  /\ StreamTypes /\ Lines /\ Answered
  /\ status = "parsing" /\ stopped => InWalk /\ Top.todo \in Seq(StopSteps)
  /\ status = "ok" => Depth = 1 /\ Top.todo = <<>>

SameWalk(n) ==
  \A k \in 1..n : /\ walk'[k].emit = walk[k].emit /\ walk'[k].kids = walk[k].kids
                  /\ walk'[k].id = walk[k].id

WentOn(t) ==
  /\ StackType /\ Len(frames') = Depth /\ SameBelow(Depth - 1) /\ SameKinds(Depth)
  /\ frames'[Depth].todo = t

LEMMA ShapeTop ==
  ASSUME StreamShape
  PROVE  /\ Depth \in Nat \ {0} /\ Calls \in Nat /\ Calls < Depth /\ Depth \in 1..Depth
         /\ Depth = Len(frames) /\ Calls = Len(walk)
         /\ (InWalk <=> Depth = Calls + 1) /\ (~InWalk <=> Depth > Calls + 1)
         /\ InWalk => Top.todo \in Seq(WalkNames) /\ StepsAt(Depth) = WalkNames
         /\ ~InWalk => Top.todo \in Seq(StepNames) /\ StepsAt(Depth) = StepNames
         /\ Top.todo # <<>> => Step \in StepsAt(Depth) /\ Rest \in Seq(StepsAt(Depth))
         /\ Depth = 1 => Top.todo \in Seq({"root"}) /\ Calls = 0
         /\ Depth = 1 /\ Top.todo # <<>> => Step = "root" /\ Rest \in Seq({"root"})
<1>1. /\ Depth \in Nat \ {0} /\ Calls \in Nat /\ Calls < Depth
      /\ Depth = Len(frames) /\ Calls = Len(walk)
  BY StreamTop DEF StreamShape, StreamTypes
<1>2. Depth \in 1..Depth /\ (InWalk <=> Depth = Calls + 1) /\ (~InWalk <=> Depth > Calls + 1)
  BY <1>1 DEF InWalk
<1>3. Top.todo \in Seq(StepsAt(Depth)) /\ (Depth = 1 => Top.todo \in Seq({"root"}))
  BY <1>2 DEF StreamShape, Lines, Top
<1>4. (InWalk => StepsAt(Depth) = WalkNames) /\ (~InWalk => StepsAt(Depth) = StepNames)
  BY <1>1, <1>2 DEF StepsAt
<1>5. Top.todo # <<>> => Step \in StepsAt(Depth) /\ Rest \in Seq(StepsAt(Depth))
  BY <1>3, HeadTailProperties DEF Step, Rest
<1>6. Depth = 1 /\ Top.todo # <<>> => Step = "root" /\ Rest \in Seq({"root"})
  <2>1. \A t \in Seq({"root"}) : t # <<>> => Head(t) \in {"root"} /\ Tail(t) \in Seq({"root"})
    BY HeadTailProperties
  <2> QED BY <1>3, <2>1 DEF Step, Rest
<1>7. Depth = 1 => Calls = 0
  BY <1>1
<1> QED BY <1>1, <1>2, <1>3, <1>4, <1>5, <1>6, <1>7

LEMMA LinesInPlace ==
  ASSUME StreamShape, NEW t, Len(frames') = Depth, SameBelow(Depth - 1),
         frames'[Depth].todo = t, t \in Seq(StepsAt(Depth)), Depth = 1 => t \in Seq({"root"}), Len(walk') = Calls
  PROVE  Lines'
<1>1. /\ Depth \in Nat \ {0} /\ Len(frames') = Depth
      /\ (\A k \in 1..Depth - 1 : frames'[k] = frames[k]) /\ frames'[Depth].todo = t
  BY ShapeTop DEF SameBelow
<1>2. ASSUME NEW k \in 1..Depth PROVE frames'[k].todo \in Seq(StepsAt(k))
  <2>1. CASE k = Depth
    BY <1>1, <2>1
  <2>2. CASE k # Depth
    <3>1. k \in 1..Depth - 1
      BY <1>1, <2>2
    <3> QED BY <1>1, <3>1 DEF StreamShape, Lines
  <2> QED BY <2>1, <2>2
<1>3. frames'[1].todo \in Seq({"root"})
  <2>1. CASE Depth = 1
    BY <1>1, <2>1
  <2>2. CASE Depth # 1
    <3>1. 1 \in 1..Depth - 1
      BY <1>1, <2>2
    <3> QED BY <1>1, <3>1 DEF StreamShape, Lines
  <2> QED BY <2>1, <2>2
<1>4. \A k : StepsAt(k)' = StepsAt(k)
  BY DEF StepsAt, Calls
<1>5. Depth' = Depth
  BY <1>1 DEF Depth
<1> QED BY <1>2, <1>3, <1>4, <1>5 DEF Lines

LEMMA LinesPush ==
  ASSUME StreamShape, StackType, Len(frames') = Depth + 1, SameBelow(Depth - 1),
         Top.todo # <<>>, frames'[Depth].todo = Rest,
         \/ InWalk /\ Len(walk') = Calls + 1 /\ frames'[Depth + 1].todo \in Seq(WalkNames)
         \/ Len(walk') = Calls /\ frames'[Depth + 1].todo \in Seq(StepNames)
  PROVE  Lines'
<1>1. /\ Depth \in Nat \ {0} /\ Calls \in Nat /\ Calls < Depth
      /\ (\A k \in 1..Depth - 1 : frames'[k] = frames[k])
      /\ Rest \in Seq(StepsAt(Depth)) /\ (Depth = 1 => Rest \in Seq({"root"}))
      /\ (InWalk => Depth = Calls + 1)
  BY ShapeTop DEF SameBelow
<1>2. Calls' = Len(walk') /\ Depth' = Depth + 1
  BY DEF Calls, Depth
<1>3. \A k \in 1..Depth : StepsAt(k)' = StepsAt(k)
  BY <1>1, <1>2 DEF StepsAt
<1>4. \A k \in 1..Depth + 1 : k = Depth + 1 =>
        StepsAt(k)' = IF InWalk /\ Len(walk') = Calls + 1 THEN WalkNames ELSE StepNames
  BY <1>1, <1>2 DEF StepsAt
<1>5. \A k \in 1..Depth + 1 : k = Depth + 1 => frames'[k].todo \in Seq(StepsAt(k)')
  BY <1>1, <1>4
<1>6. ASSUME NEW k \in 1..Depth + 1 PROVE frames'[k].todo \in Seq(StepsAt(k)')
  <2>1. CASE k = Depth + 1
    BY <1>5, <2>1
  <2>2. CASE k = Depth
    <3>1. StepsAt(k)' = StepsAt(k)
      BY <1>1, <1>3, <2>2
    <3> QED BY <1>1, <2>2, <3>1
  <2>3. CASE k # Depth /\ k # Depth + 1
    <3>1. k \in 1..Depth - 1 /\ k \in 1..Depth
      BY <1>1, <2>3
    <3> QED BY <1>1, <1>3, <3>1 DEF StreamShape, Lines
  <2> QED BY <2>1, <2>2, <2>3
<1>7. frames'[1].todo \in Seq({"root"})
  <2>1. CASE Depth = 1
    BY <1>1, <2>1
  <2>2. CASE Depth # 1
    <3>1. 1 \in 1..Depth - 1
      BY <1>1, <2>2
    <3> QED BY <1>1, <3>1 DEF StreamShape, Lines
  <2> QED BY <2>1, <2>2
<1> QED BY <1>2, <1>6, <1>7 DEF Lines

LEMMA LinesPop ==
  ASSUME StreamShape, Depth > 1, StackType, Len(frames') = Depth - 1, SameBelow(Depth - 2),
         frames'[Depth - 1].todo \in Seq(StepsAt(Depth - 1)),
         Depth = 2 => frames'[1].todo \in Seq({"root"}),
         (InWalk /\ Len(walk') = Calls - 1) \/ (~InWalk /\ Len(walk') = Calls)
  PROVE  Lines'
<1>1. /\ Depth \in Nat /\ Calls \in Nat /\ Calls < Depth
      /\ (\A k \in 1..Depth - 2 : frames'[k] = frames[k])
      /\ (InWalk <=> Depth = Calls + 1) /\ (~InWalk <=> Depth > Calls + 1)
  BY ShapeTop DEF SameBelow
<1>2. Calls' = Len(walk') /\ Depth' = Depth - 1
  BY DEF Calls, Depth
<1>3. \A k \in 1..Depth - 1 : StepsAt(k)' = StepsAt(k)
  BY <1>1, <1>2 DEF StepsAt
<1>4. ASSUME NEW k \in 1..Depth - 1 PROVE frames'[k].todo \in Seq(StepsAt(k)')
  <2>1. CASE k = Depth - 1
    BY <1>3, <2>1
  <2>2. CASE k # Depth - 1
    <3>1. k \in 1..Depth - 2 /\ k \in 1..Depth
      BY <1>1, <2>2
    <3> QED BY <1>1, <1>3, <3>1 DEF StreamShape, Lines
  <2> QED BY <2>1, <2>2
<1>5. frames'[1].todo \in Seq({"root"})
  <2>1. CASE Depth = 2
    BY <2>1
  <2>2. CASE Depth # 2
    <3>1. 1 \in 1..Depth - 2
      BY <1>1, <2>2
    <3> QED BY <1>1, <3>1 DEF StreamShape, Lines
  <2> QED BY <2>1, <2>2
<1> QED BY <1>2, <1>4, <1>5 DEF Lines

LEMMA ShapeNow ==
  ASSUME StackType, Tables', Lines', Answered', Len(walk') < Len(frames'),
         nesting' = Len(frames') - 1, nesting' <= MaxDepth, status' = "parsing",
         stopped' => /\ Len(frames') = Len(walk') + 1
                     /\ frames'[Len(frames')].todo \in Seq(StopSteps)
  PROVE  StreamShape'
<1>1. StreamTypes'
  BY DEF StreamTypes, StackType, Tables, Calls, Depth
<1>2. (status = "parsing" /\ stopped => InWalk /\ Top.todo \in Seq(StopSteps))'
  BY DEF InWalk, Top, Depth, Calls
<1>3. (status = "ok" => Depth = 1 /\ Top.todo = <<>>)'
  OBVIOUS
<1> QED BY <1>1, <1>2, <1>3 DEF StreamShape

LEMMA AnsweredSame ==
  ASSUME StreamShape, Len(walk') \in Nat, Len(walk') <= Calls, SameWalk(Len(walk'))
  PROVE  Answered'
<1>1. Calls \in Nat /\ Answered
  BY ShapeTop DEF StreamShape
<1> DEFINE n == Len(walk')
<1>2. ASSUME NEW k \in 1..n
      PROVE  /\ walk'[k].kids => walk'[k].emit
             /\ k > 1 /\ walk'[k].emit => walk'[k - 1].kids
  <2>1. k \in 1..Calls /\ (k > 1 => k - 1 \in 1..n)
    BY <1>1
  <2>2. /\ walk'[k].emit = walk[k].emit /\ walk'[k].kids = walk[k].kids
        /\ k > 1 => walk'[k - 1].kids = walk[k - 1].kids
    BY <2>1 DEF SameWalk
  <2> QED BY <1>1, <2>1, <2>2 DEF Answered
<1> QED BY <1>2 DEF Answered, Calls

LEMMA CountedFacts ==
  ASSUME StreamTypes
  PROVE  /\ Counted \in Seq(WalkCalls) /\ Len(Counted) = Calls
         /\ \A k \in 1..Calls : /\ Counted[k].emit = walk[k].emit /\ Counted[k].kids = walk[k].kids
                                /\ Counted[k].id = walk[k].id
<1>0. walk \in Seq(WalkCalls) /\ Calls \in Nat /\ Calls = Len(walk)
  BY StreamTop DEF StreamTypes
<1>1. CASE walk = <<>>
  BY <1>0, <1>1 DEF Counted
<1>2. CASE walk # <<>>
  <2>1. Calls \in 1..Len(walk) /\ Here \in WalkCalls
    BY <1>0, <1>2, EmptySeq, StreamTop
  <2> DEFINE h == [Here EXCEPT !.count = @ + 1]
  <2>2. h \in WalkCalls /\ h.emit = Here.emit /\ h.kids = Here.kids /\ h.id = Here.id
    BY <2>1 DEF WalkCalls
  <2>3. Counted = [walk EXCEPT ![Calls] = h]
    BY <1>2, <2>1 DEF Counted, Here, WalkCalls
  <2> HIDE DEF h
  <2>4. /\ Counted \in Seq(WalkCalls) /\ Len(Counted) = Len(walk)
        /\ \A k \in 1..Len(walk) : Counted[k] = IF k = Calls THEN h ELSE walk[k]
    BY <1>0, <2>1, <2>2, <2>3, ExceptSeq
  <2> QED BY <1>0, <2>1, <2>2, <2>4 DEF Here
<1> QED BY <1>1, <1>2

(* A read that leaves the rest of the calls as they are.                    *)
LEMMA PassOverShape ==
  ASSUME StreamShape, Busy, NEW r \in BOOLEAN, frames' = Continue(frames, Rest, r),
         walk' = walk \/ walk' = Counted, RTypeOK',
         UNCHANGED <<refs, inBody, lazy, stopped, nested, path, open, nesting, status>>
  PROVE  StreamShape' /\ WentOn(Rest) /\ Len(walk') = Calls /\ SameWalk(Calls)
<1>1. /\ Depth \in Nat \ {0} /\ Depth = Len(frames) /\ Calls < Depth /\ Calls \in Nat
      /\ Rest \in Seq(StepsAt(Depth)) /\ (Depth = 1 => Rest \in Seq({"root"}))
      /\ StreamTypes
  BY ShapeTop DEF StreamShape, Busy
<1>2. Rest \in Seq(Names)
  BY <1>1, StreamTop DEF Busy
<1>3. WentOn(Rest)
  BY <1>1, <1>2, StreamGoesOn DEF WentOn
<1>4. walk' \in Seq(WalkCalls) /\ Len(walk') = Calls /\ SameWalk(Calls)
  BY <1>1, CountedFacts, StreamTop DEF StreamTypes, SameWalk
<1>5. Lines' /\ Answered'
  BY <1>1, <1>3, <1>4, LinesInPlace, AnsweredSame DEF WentOn
<1>6. Tables'
  BY <1>1, <1>4 DEF Tables, StreamTypes
<1>7. stopped => Depth = Calls + 1 /\ Rest \in Seq(StopSteps)
  <2>1. \A t \in Seq(StopSteps) : t # <<>> => Tail(t) \in Seq(StopSteps)
    BY HeadTailProperties
  <2> QED BY <2>1 DEF StreamShape, InWalk, Busy, Rest
<1>8. nesting = Depth - 1 /\ nesting <= MaxDepth
  BY <1>1 DEF StreamTypes
<1>9. StreamShape'
  BY <1>1, <1>3, <1>4, <1>5, <1>6, <1>7, <1>8, ShapeNow DEF WentOn, Busy
<1> QED BY <1>3, <1>4, <1>9
-----------------------------------------------------------------------------
(* What the steps of the traversal do to the calls, one kind after the      *)
(* other.  First: a reference or the end of the input is passed over, or    *)
(* the traversal gives up.                                                  *)
Untouched == UNCHANGED <<refs, eof, path, refPaths, stopped, open, nested, told>>

PassesOver ==
  /\ Busy /\ Step \notin Silent /\ status' = "parsing"
  /\ WentOn(Rest) /\ Len(walk') = Calls /\ SameWalk(Calls) /\ Untouched
  /\ \/ UNCHANGED <<rvars, target>> /\ (stopped \/ AtEnd)
     \/ /\ ~stopped /\ ~AtEnd
        /\ \E i \in NextItems : /\ i.type = "ref" /\ Write(i)
                                /\ target' = target \/ (InWalk /\ target' = PathOf(i.id))

GivesUp == status' \in {"unwinding", "error"} /\ UNCHANGED <<refPaths, visitorVars>>

LEMMA FailShape ==
  ASSUME StreamShape, NEW e, Fail(e), UNCHANGED walkVars, RTypeOK'
  PROVE  StreamShape' /\ GivesUp
<1>1. UNCHANGED <<frames, refs, inBody, lazy, nesting, walk, path, refPaths, stopped, open, nested,
                  told, target>> /\ status' = "unwinding"
  BY DEF Fail, walkVars, visitorVars
<1>2. StreamTypes'
  BY <1>1 DEF StreamShape, StreamTypes, Depth, Calls
<1>3. Lines' /\ Answered'
  BY <1>1 DEF StreamShape, Lines, Answered, StepsAt, Depth, Calls
<1> QED BY <1>1, <1>2, <1>3 DEF StreamShape, GivesUp, visitorVars

LEMMA StepSets ==
  /\ Segments \cap Silent = {} /\ StepNames \cap Silent = {} /\ ByParseObject \cap Silent = {}
  /\ Segments \cap StopSteps = {} /\ Segments \cap ByParseObject = {}
BY DEF Segments, Quiet, Silent, StepNames, ByParseObject, StopSteps

LEMMA SegmentFacts ==
  ASSUME StreamShape, WalkReads
  PROVE  InWalk /\ Busy /\ Step \in Segments /\ Step \notin Silent /\ ~stopped
<1>1. stopped => Step \in StopSteps
  <2>1. \A t \in Seq(StopSteps) : t # <<>> => Head(t) \in StopSteps
    BY HeadTailProperties
  <2> QED BY <2>1 DEF StreamShape, WalkReads, Busy, Step
<1> QED BY <1>1, StepSets DEF WalkReads

LEMMA ParseFacts ==
  ASSUME StreamShape, ToParse
  PROVE  Busy /\ Step \notin Silent /\ Step \in StepNames /\ (InWalk => Step \in ByParseObject)
<1>1. ~InWalk => Step \in StepNames
  BY ShapeTop DEF ToParse, Busy
<1> QED BY <1>1, StepSets, NamesFacts DEF ToParse

LEMMA WalkRefStep ==
  ASSUME StreamShape, ~AtEnd, NEW i \in NextItems, WalkRef(i)
  PROVE  StreamShape' /\ PassesOver
<1>1. InWalk /\ Busy /\ Step \notin Silent /\ ~stopped
  BY SegmentFacts DEF WalkRef
<1>2. RTypeOK' /\ Write(i) /\ i.type = "ref" /\ Top.rn \in BOOLEAN
  BY WriteFacts, StreamTop DEF WalkRef, StreamShape, StreamTypes
<1>3. target' = target \/ target' = PathOf(i.id)
  BY DEF WalkRef
<1>4. StreamShape' /\ WentOn(Rest) /\ Len(walk') = Calls /\ SameWalk(Calls)
  BY <1>1, <1>2, PassOverShape DEF WalkRef
<1>5. Untouched /\ status' = "parsing"
  BY <1>1 DEF WalkRef, Untouched, Busy
<1> QED BY <1>1, <1>2, <1>3, <1>4, <1>5 DEF PassesOver

LEMMA ParseRefStep ==
  ASSUME StreamShape, ~stopped, ToParse, ~AtEnd, NEW i \in NextItems,
         ReadTagRef(i) \/ ReadRef(i), UNCHANGED walkVars
  PROVE  StreamShape' /\ (PassesOver \/ GivesUp)
<1>1. Busy /\ Step \notin Silent
  BY ParseFacts
<1>2. RTypeOK' /\ Write(i) /\ i.type = "ref"
  BY WriteFacts DEF ReadTagRef, ReadRef, StreamShape, StreamTypes
<1>3. CASE \E e : Fail(e)
  BY <1>2, <1>3, FailShape
<1>4. CASE \E r \in BOOLEAN : frames' = Continue(frames, Rest, r)
                              /\ UNCHANGED <<refs, nesting, inBody, lazy, eof, status>>
  <2>1. PICK r \in BOOLEAN : frames' = Continue(frames, Rest, r)
                             /\ UNCHANGED <<refs, nesting, inBody, lazy, eof, status>>
    BY <1>4
  <2>2. UNCHANGED <<walk, path, refPaths, stopped, open, nested, told, target>>
    BY DEF walkVars, visitorVars
  <2>3. StreamShape' /\ WentOn(Rest) /\ Len(walk') = Calls /\ SameWalk(Calls)
    BY <1>1, <1>2, <2>1, <2>2, PassOverShape
  <2>4. Untouched /\ status' = "parsing"
    BY <1>1, <2>1, <2>2 DEF Untouched, Busy
  <2> QED BY <1>1, <1>2, <2>2, <2>3, <2>4 DEF PassesOver
<1>5. CASE ReadTagRef(i)
  <2>1. CASE i.id \in DOMAIN refs \/ i.id \in DOMAIN symbols
    <3> DEFINE slot == IF i.id \in DOMAIN refs THEN i.id ELSE symbols[i.id]
    <3>1. (refs[slot] = "rownames") \in BOOLEAN
      OBVIOUS
    <3>2. frames' = Continue(frames, Rest, refs[slot] = "rownames")
          /\ UNCHANGED <<refs, nesting, inBody, lazy, eof, status>>
      BY <1>5, <2>1 DEF ReadTagRef
    <3> HIDE DEF slot
    <3> QED BY <3>1, <3>2, <1>4
  <2>2. CASE ~(i.id \in DOMAIN refs \/ i.id \in DOMAIN symbols)
    <3>1. Fail("tag")
      BY <1>5, <2>2 DEF ReadTagRef
    <3> QED BY <3>1, <1>3
  <2> QED BY <2>1, <2>2
<1>6. CASE ReadRef(i)
  <2>1. CASE i.id \in DOMAIN refs
    <3>1. Top.rn \in BOOLEAN
      BY StreamTop DEF StreamShape
    <3>2. frames' = Continue(frames, Rest, Top.rn)
          /\ UNCHANGED <<refs, nesting, inBody, lazy, eof, status>>
      BY <1>6, <2>1 DEF ReadRef
    <3> QED BY <3>1, <3>2, <1>4
  <2>2. CASE i.id \notin DOMAIN refs
    <3>1. Fail("ref")
      BY <1>6, <2>2 DEF ReadRef
    <3> QED BY <3>1, <1>3
  <2> QED BY <2>1, <2>2
<1> QED BY <1>5, <1>6

LEMMA AfterStopStep ==
  ASSUME StreamShape, ReadAfterStop
  PROVE  StreamShape' /\ (PassesOver \/ GivesUp)
<1>1. stopped /\ Busy /\ Step \notin Silent /\ UNCHANGED <<rvars, walkVars>>
  BY DEF ReadAfterStop
<1>2. RTypeOK'
  BY <1>1 DEF StreamShape, StreamTypes, RTypeOK, rvars
<1>3. UNCHANGED <<walk, path, refPaths, stopped, open, nested, told, target>> /\ UNCHANGED walkVars
  BY <1>1 DEF walkVars, visitorVars
<1>4. CASE \E e \in {"eof", "ref"} : Fail(e)
  BY <1>2, <1>3, <1>4, FailShape
<1>5. CASE frames' = Continue(frames, Rest, Top.rn)
           /\ UNCHANGED <<refs, symbols, nesting, inBody, lazy, eof, status, err>>
  <2>1. Top.rn \in BOOLEAN
    BY StreamTop DEF StreamShape
  <2>2. StreamShape' /\ WentOn(Rest) /\ Len(walk') = Calls /\ SameWalk(Calls)
    BY <1>1, <1>2, <1>3, <1>5, <2>1, PassOverShape
  <2>3. Untouched /\ status' = "parsing"
    BY <1>1, <1>3, <1>5 DEF Untouched, Busy
  <2> QED BY <1>1, <1>3, <2>2, <2>3 DEF PassesOver
<1> QED BY <1>4, <1>5 DEF ReadAfterStop

LEMMA AtEndStep ==
  ASSUME StreamShape, StreamAtEnd
  PROVE  StreamShape' /\ (PassesOver \/ GivesUp)
<1>1. ~stopped /\ AtEnd /\ Busy /\ Step \notin Silent /\ UNCHANGED walkVars
  BY DEF StreamAtEnd
<1>2. UNCHANGED rvars
  BY DEF StreamAtEnd, ReadAtEnd
<1>3. RTypeOK'
  BY <1>2 DEF StreamShape, StreamTypes, RTypeOK, rvars
<1>4. UNCHANGED <<walk, path, refPaths, stopped, open, nested, told, target>>
  BY <1>1 DEF walkVars, visitorVars
<1>5. CASE \E e : Fail(e)
  BY <1>1, <1>3, <1>5, FailShape
<1>6. CASE frames' = Continue(frames, AfterEnd(Top.todo), Top.rn)
           /\ UNCHANGED <<refs, symbols, nesting, inBody, lazy, eof, status, err>>
  <2>1. Top.rn \in BOOLEAN /\ AfterEnd(Top.todo) = Rest
    BY StreamTop DEF StreamShape, AfterEnd, Rest
  <2>2. StreamShape' /\ WentOn(Rest) /\ Len(walk') = Calls /\ SameWalk(Calls)
    BY <1>1, <1>3, <1>4, <1>6, <2>1, PassOverShape
  <2>3. Untouched /\ status' = "parsing"
    BY <1>1, <1>4, <1>6 DEF Untouched, Busy
  <2> QED BY <1>1, <1>2, <1>4, <2>2, <2>3 DEF PassesOver
<1> QED BY <1>5, <1>6 DEF StreamAtEnd, ReadAtEnd

(* The next cell of a pairlist is read in place.                            *)
ReadsCell(i, S) ==
  /\ Busy /\ Step \notin Silent /\ status' = "parsing" /\ ~stopped /\ ~AtEnd
  /\ i.type # "ref" /\ (i.tag \/ i.type \in Pairs) /\ Write(i) /\ wtable' = wtable
  /\ WentOn(S \o Rest) /\ UNCHANGED walk /\ Untouched /\ UNCHANGED target
  /\ \/ InWalk /\ Step = "tail" /\ S = WalkCell(i) /\ S \in Seq(Calm)
     \/ ~InWalk /\ Step = "next" /\ S = Steps(Item("list", FALSE, i.tag, 0, 0))
        /\ S \in Seq(StepNames)

LEMMA CellIsNew ==
  ASSUME RTypeOK, NEW i \in NextItems, i.tag \/ i.type \in Pairs
  PROVE  i.type # "ref" /\ i.type \notin RTracked
<1>1. i.type # "ref"
  <2>1. SUFFICES ASSUME i.type = "ref" PROVE FALSE
    OBVIOUS
  <2>2. i \in RefItems(Head(wtodo))
    BY <2>1, NextItemFacts
  <2>3. i.tag = FALSE
    BY <2>2 DEF RefItems, Item
  <2> QED BY <2>1, <2>3 DEF Pairs
<1>2. Head(wtodo) \in Roles /\ i \in NewItems(Head(wtodo))
  BY <1>1, NextItemFacts
<1>3. i.tag => i.type \in {"clo", "list"} \cup RTagged
  <2>1. Head(wtodo) = "cell" => i.type \in {"list"}
    BY <1>2, NewItemFacts DEF KindsOf
  <2> QED BY <1>2, <2>1, NewItemFacts
<1>4. ({"clo", "list"} \cup RTagged \cup Pairs) \cap RTracked = {}
  BY DEF RTagged, Pairs, RTracked, SymbolKinds, EnvKinds
<1> QED BY <1>1, <1>3, <1>4

LEMMA InPlaceShape ==
  ASSUME StreamShape, Busy, ~stopped, NEW S \in Seq(StepsAt(Depth)), NEW r \in BOOLEAN,
         frames' = Continue(frames, S \o Rest, r), RTypeOK', Depth > 1,
         UNCHANGED <<refs, inBody, lazy, walk, stopped, nested, path, open, nesting, status>>
  PROVE  StreamShape' /\ WentOn(S \o Rest)
<1>1. /\ Depth \in Nat \ {0} /\ Depth = Len(frames) /\ Calls < Depth /\ Calls \in Nat
      /\ Rest \in Seq(StepsAt(Depth)) /\ Calls = Len(walk) /\ StreamTypes
      /\ (InWalk => StepsAt(Depth) = WalkNames) /\ (~InWalk => StepsAt(Depth) = StepNames)
  BY ShapeTop DEF StreamShape, Busy
<1> DEFINE t == S \o Rest
<1>2. t \in Seq(StepsAt(Depth)) /\ frames' = Continue(frames, t, r)
  BY <1>1, ConcatProperties
<1> HIDE DEF t
<1>3. t \in Seq(Names)
  BY <1>1, <1>2, NamesFacts
<1>4. WentOn(t)
  BY <1>1, <1>2, <1>3, StreamGoesOn DEF WentOn
<1>5. Len(walk') = Calls /\ SameWalk(Calls)
  BY <1>1 DEF SameWalk
<1>6. Lines' /\ Answered'
  <2>1. Depth # 1
    BY <1>1
  <2>2. Lines'
    BY <1>2, <1>4, <1>5, <2>1, LinesInPlace DEF WentOn
  <2> QED BY <1>1, <1>5, <2>2, AnsweredSame
<1>7. Tables'
  BY <1>1 DEF Tables, StreamTypes
<1>8. nesting = Depth - 1 /\ nesting <= MaxDepth
  BY <1>1 DEF StreamTypes
<1>9. StreamShape'
  BY <1>1, <1>4, <1>5, <1>6, <1>7, <1>8, ShapeNow DEF WentOn, Busy
<1> QED BY <1>4, <1>9 DEF t

LEMMA WalkNextCellStep ==
  ASSUME StreamShape, ~AtEnd, NEW i \in NextItems, WalkNextCell(i)
  PROVE  StreamShape' /\ \E S : ReadsCell(i, S)
<1>1. /\ InWalk /\ Busy /\ Step \notin Silent /\ ~stopped /\ Step = "tail"
      /\ (i.tag \/ i.type \in Pairs) /\ Write(i)
  BY SegmentFacts DEF WalkNextCell, ContinuesPairlist
<1>2. RTypeOK' /\ i \in Items /\ i.type # "ref" /\ i.type \notin RTracked /\ wtable' = wtable
  BY <1>1, WriteFacts, CellIsNew, NextItemFacts DEF StreamShape, StreamTypes
<1> DEFINE S == WalkCell(i)
<1>3. S \in Seq(Calm) /\ S \in Seq(WalkNames)
  <2>1. \A s \in {"tag"} : IfTagged(i, s) \in Seq(Calm)
    BY CalmShort DEF IfTagged
  <2>2. S \in Seq(Calm)
    BY <2>1, CalmShort, ConcatProperties DEF WalkCell
  <2> QED BY <2>2, NamesFacts
<1>4. Depth > 1 /\ S \in Seq(StepsAt(Depth))
  <2>1. Depth # 1
    BY <1>1, ShapeTop DEF Busy
  <2> QED BY <1>1, <1>3, <2>1, ShapeTop
<1>5. frames' = Continue(frames, S \o Rest, FALSE)
      /\ UNCHANGED <<refs, inBody, lazy, walk, stopped, nested, path, open, nesting, status, eof,
                     refPaths, told, target>>
  BY DEF WalkNextCell, walkVars, visitorVars
<1>6. FALSE \in BOOLEAN
  OBVIOUS
<1>7. StreamShape' /\ WentOn(S \o Rest)
  <2> HIDE DEF S
  <2> QED BY <1>1, <1>2, <1>4, <1>5, <1>6, InPlaceShape
<1>8. ReadsCell(i, S)
  <2>1. S = WalkCell(i)
    OBVIOUS
  <2> HIDE DEF S
  <2> QED BY <1>1, <1>2, <1>3, <1>5, <1>7, <2>1 DEF ReadsCell, Untouched, Busy
<1> QED BY <1>7, <1>8

LEMMA ReadCellStep ==
  ASSUME StreamShape, ~stopped, ToParse, ~AtEnd, NEW i \in NextItems, ReadCell(i),
         UNCHANGED walkVars
  PROVE  StreamShape' /\ \E S : ReadsCell(i, S)
<1>1. /\ ~InWalk /\ Busy /\ Step \notin Silent /\ Step = "next"
      /\ (i.tag \/ i.type \in Pairs) /\ Write(i)
  BY ParseFacts DEF ReadCell, ByParseObject
<1>2. RTypeOK' /\ i \in Items /\ i.type # "ref" /\ i.type \notin RTracked /\ wtable' = wtable
  BY <1>1, WriteFacts, CellIsNew, NextItemFacts DEF StreamShape, StreamTypes
<1> DEFINE c == Item("list", FALSE, i.tag, 0, 0)
           S == Steps(c)
<1>3. S \in Seq(StepNames)
  <2>1. c \in Items
    BY <1>2 DEF Items, Item, AllKinds, RAttributed
  <2> HIDE DEF c
  <2> QED BY <2>1, StepsType
<1>4. Depth > 1 /\ S \in Seq(StepsAt(Depth))
  <2> HIDE DEF S
  <2>1. Depth > Calls + 1 /\ Calls \in Nat /\ Depth \in Nat /\ StepsAt(Depth) = StepNames
    BY <1>1, ShapeTop
  <2> QED BY <1>3, <2>1
<1>5. frames' = Continue(frames, S \o Rest, FALSE)
      /\ UNCHANGED <<refs, inBody, lazy, walk, stopped, nested, path, open, nesting, status, eof,
                     refPaths, told, target>>
  BY DEF ReadCell, walkVars, visitorVars
<1>6. FALSE \in BOOLEAN
  OBVIOUS
<1>7. StreamShape' /\ WentOn(S \o Rest)
  <2> HIDE DEF S
  <2> QED BY <1>1, <1>2, <1>4, <1>5, <1>6, InPlaceShape
<1>8. ReadsCell(i, S)
  <2>1. S = Steps(Item("list", FALSE, i.tag, 0, 0))
    OBVIOUS
  <2> HIDE DEF S
  <2> QED BY <1>1, <1>2, <1>3, <1>5, <1>7, <2>1 DEF ReadsCell, Untouched, Busy
<1> QED BY <1>7, <1>8

(* A call begins: of the traversal, or of the value parser.                 *)
Begins(i) ==
  /\ Busy /\ Step \notin Silent /\ status' = "parsing" /\ ~stopped /\ ~AtEnd
  /\ i.type # "ref" /\ Write(i) /\ UNCHANGED <<eof, refPaths, stopped, visitorVars>>
  /\ StackType /\ Len(frames') = Depth + 1 /\ SameBelow(Depth - 1) /\ SameKinds(Depth)
  /\ frames'[Depth].todo = Rest
  /\ frames'[Depth + 1].op = i.type /\ frames'[Depth + 1].rest = Len(wtodo) - 1

WalkBegins(i) ==
  /\ Begins(i) /\ InWalk /\ Step \in Segments /\ UNCHANGED refs /\ path' = Down
  /\ frames'[Depth + 1].todo = WalkSteps(i) /\ frames'[Depth + 1].ref = 0
  /\ Len(walk') = Calls + 1 /\ SameWalk(Calls)
  /\ walk'[Calls + 1].emit = Emits /\ walk'[Calls + 1].kids = Emits /\ walk'[Calls + 1].id = i.id

ParseBegins(i) ==
  /\ Begins(i) /\ (InWalk => Step \in ByParseObject) /\ UNCHANGED <<walk, path>>
  /\ refs' = IF i.type \in Tracked THEN Append(refs, "null") ELSE refs
  /\ frames'[Depth + 1].todo = Steps(i)
  /\ frames'[Depth + 1].ref = IF i.type \in Tracked THEN Len(refs) + 1 ELSE 0

LEMMA StreamNewFrame ==
  ASSUME StreamTypes, NEW i \in NextItems, i.type # "ref", NEW s \in Names,
         NEW t \in Seq(Names), NEW x \in Nat, NEW b \in BOOLEAN
  PROVE  LET f == NewFrame(i.type, s, t, x, b) IN
         /\ f \in FramesIn(Names) /\ f.todo = t /\ f.ref = x /\ f.op = i.type
         /\ f.rest = Len(wtodo) - 1
<1>1. i.type \in AllKinds /\ wtodo # <<>>
  BY NextItemFacts DEF StreamTypes
<1>2. Len(wtodo) - 1 \in Nat
  BY <1>1 DEF StreamTypes, RTypeOK
<1>3. inBody \in BOOLEAN /\ lazy \in BOOLEAN
  BY DEF StreamTypes
<1> QED BY <1>1, <1>2, <1>3 DEF NewFrame, FramesIn

LEMMA WalkStepNames ==
  ASSUME NEW i \in Items
  PROVE  WalkSteps(i) \in Seq(WalkNames) /\ WalkSteps(i) \in Seq(Names)
BY WalkStepsWait, WaitingFacts, NamesFacts

LEMMA WalkGrows ==
  ASSUME StreamTypes, NEW c \in WalkCalls, walk' = Append(Counted, c)
  PROVE  /\ walk' \in Seq(WalkCalls) /\ Len(walk') = Calls + 1 /\ SameWalk(Calls)
         /\ walk'[Calls + 1] = c
<1>1. /\ Counted \in Seq(WalkCalls) /\ Len(Counted) = Calls /\ Calls \in Nat
      /\ \A k \in 1..Calls : /\ Counted[k].emit = walk[k].emit /\ Counted[k].kids = walk[k].kids
                             /\ Counted[k].id = walk[k].id
  BY CountedFacts, StreamTop
<1> DEFINE s == Counted
           n == Calls
<1> HIDE DEF s, n
<1>2. /\ Append(s, c) \in Seq(WalkCalls) /\ Len(Append(s, c)) = Len(s) + 1
      /\ (\A k \in 1..Len(s) : Append(s, c)[k] = s[k]) /\ Append(s, c)[Len(s) + 1] = c
  BY <1>1, AppendProperties DEF s
<1>3. /\ walk' \in Seq(WalkCalls) /\ Len(walk') = n + 1
      /\ (\A k \in 1..n : walk'[k] = s[k]) /\ walk'[n + 1] = c
  BY <1>1, <1>2 DEF s, n
<1> QED BY <1>1, <1>3 DEF s, n, SameWalk

LEMMA EmitsFacts ==
  ASSUME StreamShape
  PROVE  /\ Emits \in BOOLEAN /\ (Calls = 0 => Emits)
         /\ Calls > 0 => (Emits => Here.kids /\ Here.emit)
         /\ (walk = <<>> <=> Calls = 0)
<1>1. Calls \in Nat /\ Calls = Len(walk) /\ walk \in Seq(WalkCalls)
  BY ShapeTop DEF StreamShape, StreamTypes
<1>2. walk = <<>> <=> Calls = 0
  BY <1>1, EmptySeq
<1>3. Calls > 0 => Here.kids \in BOOLEAN /\ (Here.kids => Here.emit)
  <2>1. Calls > 0 => Calls \in 1..Calls
    BY <1>1
  <2>2. Calls > 0 => Here \in WalkCalls
    BY StreamTop DEF StreamShape
  <2> QED BY <2>1, <2>2 DEF StreamShape, Answered, Here, WalkCalls
<1>4. CASE walk = <<>>
  BY <1>1, <1>2, <1>4 DEF Emits
<1>5. CASE walk # <<>>
  <2>1. Calls > 0 /\ Emits = (Here.kids /\ Step \notin Quiet)
    BY <1>1, <1>2, <1>5 DEF Emits
  <2> QED BY <1>2, <1>3, <1>5, <2>1
<1> QED BY <1>4, <1>5

LEMMA PathAppend ==
  ASSUME NEW p \in Paths, NEW s \in Names \cup {"attribute"}, NEW n \in Nat
  PROVE  /\ Append(p, <<s, n>>) \in Paths /\ Len(Append(p, <<s, n>>)) = Len(p) + 1
         /\ Len(p) \in Nat /\ \A k \in 1..Len(p) : Append(p, <<s, n>>)[k] = p[k]
<1> DEFINE x == <<s, n>>
           T == (Names \cup {"attribute"}) \X Nat
<1>1. x \in T /\ p \in Seq(T)
  BY DEF Paths
<1> HIDE DEF x, T
<1>2. /\ Append(p, x) \in Seq(T) /\ Len(Append(p, x)) = Len(p) + 1
      /\ Len(p) \in Nat /\ \A k \in 1..Len(p) : Append(p, x)[k] = p[k]
  BY <1>1, AppendProperties
<1> QED BY <1>2 DEF Paths, x, T

LEMMA DownFacts ==
  ASSUME StreamShape, Busy
  PROVE  /\ Down \in Paths /\ path \in Paths /\ Len(path) \in Nat
         /\ ~(Emits /\ Calls > 0) => Down = path
         /\ Emits /\ Calls > 0 => Len(Down) = Len(path) + 1 /\ \A k \in 1..Len(path) : Down[k] = path[k]
<1>1. path \in Paths /\ Step \in Names /\ Calls \in Nat
  BY StreamTop DEF StreamShape, StreamTypes, Busy
<1>2. Len(path) \in Nat
  BY <1>1 DEF Paths
<1>3. walk # <<>> <=> Calls > 0
  BY <1>1, EmitsFacts
<1>4. CASE Emits /\ Calls > 0
  <2>1. Here.count \in Nat
    BY <1>4, StreamTop DEF StreamShape, WalkCalls
  <2>2. Down = Append(path, <<Step, Here.count>>)
    BY <1>3, <1>4 DEF Down
  <2> DEFINE s == Step
             n == Here.count
             p == path
  <2>3. s \in Names \cup {"attribute"} /\ n \in Nat /\ p \in Paths /\ Down = Append(p, <<s, n>>)
    BY <1>1, <2>1, <2>2
  <2> HIDE DEF s, n, p
  <2>4. /\ Down \in Paths /\ Len(Down) = Len(p) + 1 /\ \A k \in 1..Len(p) : Down[k] = p[k]
    BY <2>3, PathAppend
  <2> QED BY <1>1, <1>2, <1>4, <2>4 DEF p
<1>5. CASE ~(Emits /\ Calls > 0)
  BY <1>1, <1>2, <1>3, <1>5 DEF Down
<1> QED BY <1>4, <1>5

LEMMA WalkObjectStep ==
  ASSUME StreamShape, ~AtEnd, NEW i \in NextItems, WalkObject(i)
  PROVE  StreamShape' /\ WalkBegins(i)
<1>1. /\ InWalk /\ Busy /\ Step \notin Silent /\ ~stopped /\ Step \in Segments
      /\ Write(i) /\ i.type # "ref" /\ ~AtLimit
  BY SegmentFacts DEF WalkObject
<1>2. RTypeOK' /\ i \in Items
  BY <1>1, WriteFacts, NextItemFacts DEF StreamShape, StreamTypes
<1>3. /\ Depth \in Nat \ {0} /\ Depth = Len(frames) /\ Calls \in Nat /\ Depth = Calls + 1
      /\ StreamTypes /\ Top.rn \in BOOLEAN /\ Step \in Names /\ Rest \in Seq(Names)
  BY <1>1, ShapeTop, StreamTop DEF StreamShape, Busy
<1> DEFINE f == NewFrame(i.type, Step, WalkSteps(i), 0, FALSE)
           c == [emit |-> Emits, kids |-> Emits, id |-> i.id, count |-> 0]
<1>4. /\ f \in FramesIn(Names) /\ f.todo = WalkSteps(i) /\ f.ref = 0 /\ f.op = i.type
      /\ f.rest = Len(wtodo) - 1
  <2> DEFINE t == WalkSteps(i)
             b == FALSE
             x == 0
  <2>1. t \in Seq(Names) /\ b \in BOOLEAN /\ x \in Nat
    BY <1>2, WalkStepNames
  <2> HIDE DEF t, b, x
  <2>2. LET g == NewFrame(i.type, Step, t, x, b) IN
         /\ g \in FramesIn(Names) /\ g.todo = t /\ g.ref = x /\ g.op = i.type
         /\ g.rest = Len(wtodo) - 1
    BY <1>1, <1>3, <2>1, StreamNewFrame
  <2> QED BY <2>2 DEF t, b, x
<1>5. c \in WalkCalls /\ c.emit = Emits /\ c.kids = Emits /\ c.id = i.id
  <2>1. Emits \in BOOLEAN /\ i.id \in Nat
    BY <1>2, EmitsFacts DEF Items
  <2> DEFINE e == Emits
  <2> HIDE DEF e
  <2>2. LET d == [emit |-> e, kids |-> e, id |-> i.id, count |-> 0] IN
        d \in WalkCalls /\ d.emit = e /\ d.kids = e /\ d.id = i.id
    BY <2>1 DEF WalkCalls, e
  <2> QED BY <2>2 DEF e
<1>6. /\ nesting' = nesting + 1 /\ frames' = Append(Continue(frames, Rest, Top.rn), f)
      /\ walk' = Append(Counted, c) /\ path' = Down
      /\ UNCHANGED <<refs, inBody, lazy, eof, status, refPaths, stopped, visitorVars>>
  BY DEF WalkObject
<1> HIDE DEF f, c
<1>7. /\ StackType /\ Len(frames') = Depth + 1 /\ SameBelow(Depth - 1) /\ SameKinds(Depth)
      /\ frames'[Depth].todo = Rest /\ frames'[Depth + 1] = f
  BY <1>3, <1>4, <1>6, StreamPushes
<1>8. /\ walk' \in Seq(WalkCalls) /\ Len(walk') = Calls + 1 /\ SameWalk(Calls)
      /\ walk'[Calls + 1] = c
  BY <1>3, <1>5, <1>6, WalkGrows
<1>9. Lines'
  <2>1. f.todo \in Seq(WalkNames) /\ Top.todo # <<>>
    BY <1>1, <1>2, <1>4, WalkStepNames DEF Busy
  <2> QED BY <1>1, <1>7, <1>8, <2>1, LinesPush
<1>10. Answered'
  <2>1. ASSUME NEW k \in 1..Calls + 1
        PROVE  /\ walk'[k].kids => walk'[k].emit
               /\ k > 1 /\ walk'[k].emit => walk'[k - 1].kids
    <3>1. CASE k = Calls + 1
      <4>1. walk'[k].kids = Emits /\ walk'[k].emit = Emits
        BY <1>5, <1>8, <3>1
      <4>2. k > 1 /\ Emits => Here.kids
        BY <1>3, <3>1, EmitsFacts
      <4>3. k > 1 => walk'[k - 1].kids = Here.kids
        BY <1>3, <1>8, <3>1 DEF SameWalk, Here
      <4> QED BY <4>1, <4>2, <4>3
    <3>2. CASE k # Calls + 1
      <4>1. k \in 1..Calls /\ (k > 1 => k - 1 \in 1..Calls)
        BY <1>3, <3>2
      <4> QED BY <1>8, <4>1 DEF SameWalk, StreamShape, Answered
    <3> QED BY <3>1, <3>2
  <2> QED BY <1>8, <2>1 DEF Answered, Calls
<1>11. Tables'
  <2>1. path' \in Paths
    BY <1>1, <1>6, DownFacts
  <2>2. nested' = nested /\ open' = open
    BY <1>6 DEF visitorVars
  <2> QED BY <1>2, <1>3, <1>6, <1>8, <2>1, <2>2 DEF Tables, StreamTypes
<1>12. nesting' = Depth /\ nesting' <= MaxDepth /\ status' = "parsing" /\ ~stopped'
  BY <1>1, <1>3, <1>6, ParserAssumption DEF StreamTypes, AtLimit, Busy
<1>13. StreamShape'
  <2>1. Len(walk') < Len(frames') /\ nesting' = Len(frames') - 1
    BY <1>3, <1>7, <1>8, <1>12
  <2> QED BY <1>7, <1>9, <1>10, <1>11, <1>12, <2>1, ShapeNow
<1>14. WalkBegins(i)
  BY <1>1, <1>4, <1>5, <1>6, <1>7, <1>8, <1>12 DEF WalkBegins, Begins
<1> QED BY <1>13, <1>14

LEMMA ReadObjectStep ==
  ASSUME StreamShape, ~stopped, ToParse, ~AtEnd, NEW i \in NextItems, ReadObject(i),
         UNCHANGED walkVars
  PROVE  StreamShape' /\ ParseBegins(i)
<1>1. /\ Busy /\ Step \notin Silent /\ (InWalk => Step \in ByParseObject)
      /\ Write(i) /\ i.type # "ref" /\ ~AtLimit
  BY ParseFacts DEF ReadObject
<1>2. RTypeOK' /\ i \in Items
  BY <1>1, WriteFacts, NextItemFacts DEF StreamShape, StreamTypes
<1>3. /\ Depth \in Nat \ {0} /\ Depth = Len(frames) /\ Calls \in Nat /\ Calls < Depth
      /\ StreamTypes /\ Top.rn \in BOOLEAN /\ Step \in Names /\ Rest \in Seq(Names)
      /\ Len(refs) \in Nat
  BY <1>1, ShapeTop, StreamTop DEF StreamShape, StreamTypes, Busy
<1> DEFINE x == IF i.type \in Tracked THEN Len(refs) + 1 ELSE 0
           b == ~i.attr
           f == NewFrame(i.type, Step, Steps(i), x, b)
<1>4. /\ f \in FramesIn(Names) /\ f.todo = Steps(i) /\ f.ref = x /\ f.op = i.type
      /\ f.rest = Len(wtodo) - 1
  <2>1. Steps(i) \in Seq(Names) /\ b \in BOOLEAN /\ x \in Nat
    BY <1>2, <1>3, StepsType, NamesFacts
  <2> DEFINE t == Steps(i)
  <2> HIDE DEF t, b, x
  <2>2. LET g == NewFrame(i.type, Step, t, x, b) IN
         /\ g \in FramesIn(Names) /\ g.todo = t /\ g.ref = x /\ g.op = i.type
         /\ g.rest = Len(wtodo) - 1
    BY <1>1, <1>3, <2>1, StreamNewFrame DEF t
  <2> QED BY <2>2 DEF t
<1>6. /\ nesting' = nesting + 1 /\ frames' = Append(Continue(frames, Rest, Top.rn), f)
      /\ refs' = IF i.type \in Tracked THEN Append(refs, "null") ELSE refs
      /\ inBody' = (inBody \/ Step = "body")
      /\ lazy' = (lazy /\ ~(Step = "car" /\ Top.rn))
      /\ UNCHANGED <<eof, status>>
  BY DEF ReadObject
<1>5. UNCHANGED <<walk, path, refPaths, stopped, visitorVars>> /\ nested' = nested /\ open' = open
  BY DEF walkVars, visitorVars
<1>15. x = IF i.type \in Tracked THEN Len(refs) + 1 ELSE 0
  OBVIOUS
<1> HIDE DEF f, x, b
<1>7. /\ StackType /\ Len(frames') = Depth + 1 /\ SameBelow(Depth - 1) /\ SameKinds(Depth)
      /\ frames'[Depth].todo = Rest /\ frames'[Depth + 1] = f
  BY <1>3, <1>4, <1>6, StreamPushes
<1>8. Len(walk') = Calls /\ SameWalk(Calls)
  BY <1>5 DEF SameWalk, Calls
<1>9. Lines'
  <2>1. f.todo \in Seq(StepNames) /\ Top.todo # <<>>
    BY <1>1, <1>2, <1>4, StepsType DEF Busy
  <2> QED BY <1>7, <1>8, <2>1, LinesPush
<1>10. Answered'
  BY <1>3, <1>8, AnsweredSame
<1>11. Tables'
  <2>1. refs' \in Seq(Held)
    BY <1>3, <1>6 DEF StreamTypes, Held
  <2>2. inBody' \in BOOLEAN /\ lazy' \in BOOLEAN
    BY <1>3, <1>6 DEF StreamTypes
  <2> QED BY <1>2, <1>3, <1>5, <2>1, <2>2 DEF Tables, StreamTypes
<1>12. nesting' = Depth /\ nesting' <= MaxDepth /\ status' = "parsing" /\ ~stopped'
  BY <1>1, <1>3, <1>5, <1>6, ParserAssumption DEF StreamTypes, AtLimit, Busy
<1>13. StreamShape'
  <2>1. Len(walk') < Len(frames') /\ nesting' = Len(frames') - 1
    BY <1>3, <1>7, <1>8, <1>12
  <2> QED BY <1>7, <1>9, <1>10, <1>11, <1>12, <2>1, ShapeNow
<1>14. ParseBegins(i)
  BY <1>1, <1>4, <1>5, <1>6, <1>7, <1>8, <1>12, <1>15 DEF ParseBegins, Begins
<1> QED BY <1>13, <1>14

(* The visitor hears of the object, or would if the walk reported it.       *)
SlotSet == frames'[Depth].ref = IF SlotTaken THEN SlotOfNext ELSE 0

Starts ==
  /\ status = "parsing" /\ InWalk /\ Calls > 0 /\ Top.todo # <<>> /\ Step = "start"
  /\ status' = "parsing" /\ ~stopped /\ TakeSlot /\ SlotSet
  /\ StackType /\ Len(frames') = Depth /\ SameBelow(Depth - 1)
  /\ frames'[Depth].todo = Rest /\ frames'[Depth].op = Top.op /\ frames'[Depth].rest = Top.rest
  /\ Len(walk') = Calls
  /\ \A k \in 1..Calls : walk'[k].emit = walk[k].emit /\ walk'[k].id = walk[k].id
  /\ UNCHANGED <<rvars, eof, path, stopped, nested, target>>
  /\ \/ ~Here.emit /\ UNCHANGED <<open, told>>
     \/ Here.emit /\ HearStart

LEMMA StartFacts ==
  ASSUME StreamShape, status = "parsing", InWalk, Top.todo # <<>>, Step = "start"
  PROVE  /\ Calls > 0 /\ Calls \in 1..Calls /\ Depth = Calls + 1 /\ Depth > 1 /\ ~stopped
         /\ Here = walk[Calls] /\ Here \in WalkCalls
<1>1. Depth # 1 /\ Depth = Calls + 1 /\ Calls \in Nat
  BY ShapeTop
<1>2. ~stopped
  <2>1. \A t \in Seq(StopSteps) : t # <<>> => Head(t) \in StopSteps
    BY HeadTailProperties
  <2> QED BY <2>1 DEF StreamShape, Step, StopSteps
<1> QED BY <1>1, <1>2, StreamTop DEF StreamShape

LEMMA TakeSlotType ==
  ASSUME StreamTypes, TakeSlot
  PROVE  refs' \in Seq(Held)
<1>1. refs \in Seq(Held) /\ "null" \in Held
  BY DEF StreamTypes, Held
<1>2. refs' = refs \/ refs' = Append(refs, "null")
  BY DEF TakeSlot
<1> QED BY <1>1, <1>2

LEMMA StartShape ==
  ASSUME StreamShape, status = "parsing", InWalk, Top.todo # <<>>, Step = "start",
         TakeSlot, frames' = Started, walk' \in Seq(WalkCalls), Len(walk') = Calls, Answered',
         RTypeOK', open' \in Seq(Paths),
         UNCHANGED <<inBody, lazy, stopped, nested, path, nesting, status>>
  PROVE  /\ StreamShape' /\ StackType /\ Len(frames') = Depth /\ SameBelow(Depth - 1) /\ SlotSet
         /\ frames'[Depth].todo = Rest /\ frames'[Depth].op = Top.op
         /\ frames'[Depth].rest = Top.rest
<1>1. /\ Depth \in Nat \ {0} /\ Depth = Len(frames) /\ Calls < Depth /\ Calls \in Nat
      /\ Rest \in Seq(StepsAt(Depth)) /\ (Depth = 1 => Rest \in Seq({"root"})) /\ StreamTypes
  BY ShapeTop DEF StreamShape
<1>2. /\ StackType /\ Len(frames') = Depth /\ SameBelow(Depth - 1) /\ SlotSet
      /\ frames'[Depth].todo = Rest /\ frames'[Depth].op = Top.op
      /\ frames'[Depth].rest = Top.rest
  BY <1>1, StreamStarts DEF SlotSet
<1>3. Lines'
  BY <1>1, <1>2, LinesInPlace
<1>4. Tables'
  BY <1>1, TakeSlotType DEF Tables, StreamTypes
<1>5. ~stopped' /\ nesting' = Depth - 1 /\ nesting' <= MaxDepth
  BY <1>1, StartFacts DEF StreamTypes
<1>6. StreamShape'
  BY <1>1, <1>2, <1>3, <1>4, <1>5, ShapeNow
<1> QED BY <1>2, <1>6

LEMMA StartSilentlyStep ==
  ASSUME StreamShape, StartSilently
  PROVE  StreamShape' /\ Starts
<1>1. /\ status = "parsing" /\ InWalk /\ Top.todo # <<>> /\ Step = "start" /\ ~Here.emit
      /\ TakeSlot /\ frames' = Started
      /\ UNCHANGED <<nesting, inBody, lazy, eof, status, rvars, walk, path, stopped, open, nested,
                     told, target>>
  BY DEF StartSilently, visitorVars
<1>2. /\ RTypeOK' /\ walk' \in Seq(WalkCalls) /\ Len(walk') = Calls /\ open' \in Seq(Paths)
      /\ SameWalk(Calls) /\ Calls \in Nat
  BY <1>1, StreamTop DEF StreamShape, StreamTypes, RTypeOK, rvars, SameWalk
<1>3. Answered'
  BY <1>2, AnsweredSame
<1>4. /\ StreamShape' /\ StackType /\ Len(frames') = Depth /\ SameBelow(Depth - 1) /\ SlotSet
      /\ frames'[Depth].todo = Rest /\ frames'[Depth].op = Top.op
      /\ frames'[Depth].rest = Top.rest
  BY <1>1, <1>2, <1>3, StartShape
<1> QED BY <1>1, <1>2, <1>4, StartFacts DEF Starts, SameWalk

LEMMA StartStep ==
  ASSUME StreamShape, NEW answer, Start(answer)
  PROVE  StreamShape' /\ Starts
<1>1. /\ status = "parsing" /\ InWalk /\ Top.todo # <<>> /\ Step = "start" /\ Here.emit
      /\ TakeSlot /\ frames' = Started /\ HearStart
      /\ walk' = [walk EXCEPT ![Calls].kids = answer = "Continue"]
      /\ UNCHANGED <<nesting, inBody, lazy, eof, status, rvars, path, stopped, nested, target>>
  BY DEF Start
<1>2. Calls > 0 /\ Calls \in 1..Calls /\ Here = walk[Calls] /\ Here \in WalkCalls
  BY <1>1, StartFacts
<1>3. RTypeOK' /\ walk \in Seq(WalkCalls) /\ Calls = Len(walk) /\ Calls \in Nat
  BY <1>1, StreamTop DEF StreamShape, StreamTypes, RTypeOK, rvars
<1> DEFINE a == (answer = "Continue")
           h == [Here EXCEPT !.kids = a]
<1>4. h \in WalkCalls /\ h.emit = Here.emit /\ h.id = Here.id
  <2>1. a \in BOOLEAN
    OBVIOUS
  <2> HIDE DEF a
  <2> QED BY <1>2, <2>1 DEF WalkCalls
<1>5. walk' = [walk EXCEPT ![Calls] = h]
  BY <1>1, <1>2, <1>3 DEF Here
<1> HIDE DEF h
<1>6. /\ walk' \in Seq(WalkCalls) /\ Len(walk') = Calls
      /\ \A k \in 1..Calls : walk'[k] = IF k = Calls THEN h ELSE walk[k]
  BY <1>2, <1>3, <1>4, <1>5, ExceptSeq
<1>7. \A k \in 1..Calls : walk'[k].emit = walk[k].emit /\ walk'[k].id = walk[k].id
  BY <1>2, <1>4, <1>6
<1>8. Answered'
  <2>1. ASSUME NEW k \in 1..Calls
        PROVE  /\ walk'[k].kids => walk'[k].emit
               /\ k > 1 /\ walk'[k].emit => walk'[k - 1].kids
    <3>1. CASE k = Calls
      <4>1. walk'[k].emit
        BY <1>1, <1>2, <1>7, <3>1
      <4>2. k > 1 => k - 1 \in 1..Calls /\ k - 1 # Calls
        BY <1>3
      <4>3. k > 1 => walk'[k - 1].kids
        BY <1>1, <1>2, <1>6, <3>1, <4>2 DEF StreamShape, Answered
      <4> QED BY <4>1, <4>3
    <3>2. CASE k # Calls
      <4>1. k > 1 => k - 1 \in 1..Calls /\ k - 1 # Calls
        BY <1>3
      <4> QED BY <1>6, <3>2, <4>1 DEF StreamShape, Answered
    <3> QED BY <3>1, <3>2
  <2> QED BY <1>6, <2>1 DEF Answered, Calls
<1>9. open' \in Seq(Paths)
  BY <1>1 DEF HearStart, StreamShape, StreamTypes
<1>10. /\ StreamShape' /\ StackType /\ Len(frames') = Depth /\ SameBelow(Depth - 1) /\ SlotSet
       /\ frames'[Depth].todo = Rest /\ frames'[Depth].op = Top.op
       /\ frames'[Depth].rest = Top.rest
  BY <1>1, <1>3, <1>6, <1>8, <1>9, StartShape
<1> QED BY <1>1, <1>6, <1>7, <1>10, StartFacts DEF Starts

(* A call of the traversal is over: its object has ended, or the visitor    *)
(* stopped the walk when it heard of it.                                    *)
WalkPops(t) ==
  /\ status = "parsing" /\ InWalk /\ Calls > 0 /\ status' = "parsing"
  /\ StackType /\ Len(frames') = Depth - 1 /\ SameBelow(Depth - 2) /\ SameKinds(Depth - 1)
  /\ frames'[Depth - 1].todo = t
  /\ Len(walk') = Calls - 1 /\ (\A k \in 1..Calls - 1 : walk'[k] = walk[k])
  /\ path' = Shorter /\ UNCHANGED <<rvars, eof, target>>

StopsHere ==
  /\ WalkPops(AfterStop(frames[Depth - 1].todo)) /\ Top.todo # <<>> /\ Step = "start"
  /\ Here.emit /\ ~stopped /\ stopped' /\ UNCHANGED <<open, nested>>
  /\ refPaths' = IF SlotTaken THEN Bind(refPaths, SlotOfNext, path) ELSE refPaths
  /\ told' = IF Here.id = 0 THEN told ELSE Bind(told, Here.id, path)

Ends ==
  /\ Top.todo = <<>>
  /\ WalkPops(IF stopped THEN AfterStop(frames[Depth - 1].todo) ELSE frames[Depth - 1].todo)
  /\ refs' = IF Registers(Top) THEN [refs EXCEPT ![Top.ref] = Top.op] ELSE refs
  /\ UNCHANGED <<refPaths, stopped, told>>
  /\ \/ Here.emit /\ HearEnd
     \/ ~Here.emit /\ UNCHANGED <<open, nested>>

LEMMA PathDrops ==
  ASSUME NEW p \in Paths, Len(p) > 0
  PROVE  LET q == SubSeq(p, 1, Len(p) - 1) IN
         /\ q \in Paths /\ Len(q) = Len(p) - 1 /\ Len(p) \in Nat
         /\ \A k \in 1..Len(p) - 1 : q[k] = p[k]
<1> DEFINE T == (Names \cup {"attribute"}) \X Nat
           n == Len(p) - 1
           q == SubSeq(p, 1, n)
<1>1. p \in Seq(T)
  BY DEF Paths
<1> HIDE DEF T
<1>2. n \in Nat /\ \A k \in 1..n : p[k] \in T
  BY <1>1, ElementOfSeq
<1> HIDE DEF n
<1>3. /\ q \in Seq(T) /\ Len(q) = (IF 1 <= n THEN n - 1 + 1 ELSE 0)
      /\ \A k \in 1..n - 1 + 1 : q[k] = p[1 + k - 1]
  BY <1>2, SubSeqProperties
<1>4. n - 1 + 1 = n /\ (~(1 <= n) => n = 0) /\ \A k \in 1..n : 1 + k - 1 = k
  BY <1>2
<1>5. q \in Seq(T) /\ Len(q) = n /\ \A k \in 1..n : q[k] = p[k]
  BY <1>3, <1>4
<1>6. Len(p) \in Nat
  BY <1>1
<1> QED BY <1>5, <1>6 DEF n, Paths, T

LEMMA NoPath ==
  ASSUME NEW p \in Paths, ~(Len(p) > 0)
  PROVE  p = <<>> /\ Len(p) = 0 /\ SubSeq(p, 1, Len(p) - 1) = <<>> /\ <<>> \in Paths
<1>1. p = <<>> /\ Len(p) = 0
  BY EmptySeq DEF Paths
<1>2. SubSeq(p, 1, Len(p) - 1) = <<>>
  <2>1. SubSeq(p, 1, 0 - 1) = <<>>
    BY <1>1, SubSeqEmpty DEF Paths
  <2> QED BY <1>1, <2>1
<1> QED BY <1>1, <1>2

LEMMA ShorterFacts ==
  ASSUME StreamTypes
  PROVE  /\ Shorter \in Paths /\ path \in Paths /\ Len(path) \in Nat
         /\ ~(Here.emit /\ Calls > 1) => Shorter = path
         /\ Here.emit /\ Calls > 1 /\ Len(path) > 0 =>
              /\ Len(Shorter) = Len(path) - 1
              /\ \A k \in 1..Len(path) - 1 : Shorter[k] = path[k]
<1>1. path \in Paths
  BY DEF StreamTypes
<1>2. Len(path) \in Nat
  BY <1>1 DEF Paths
<1>3. CASE Here.emit /\ Calls > 1
  <2>1. Shorter = SubSeq(path, 1, Len(path) - 1)
    BY <1>3 DEF Shorter
  <2> QED BY <1>1, <1>2, <1>3, <2>1, PathDrops, NoPath
<1>4. CASE ~(Here.emit /\ Calls > 1)
  BY <1>1, <1>2, <1>4 DEF Shorter
<1> QED BY <1>3, <1>4

LEMMA AfterStopFacts ==
  ASSUME NEW T, NEW t \in Seq(T)
  PROVE  /\ AfterStop(t) \in Seq(StopSteps) /\ AfterStop(t) \in Seq(Calm)
         /\ "attrs" \notin T => AfterStop(t) = <<>>
<1>1. <<"attrs", "report">> \in Seq(StopSteps) /\ <<>> \in Seq(StopSteps)
  BY DEF StopSteps
<1>2. "attrs" \notin T => ~(Len(t) > 1 /\ t[Len(t) - 1] = "attrs")
  <2>1. Len(t) > 1 => Len(t) - 1 \in 1..Len(t)
    OBVIOUS
  <2> QED BY <2>1, ElementOfSeq
<1> QED BY <1>1, <1>2, CalmShort DEF AfterStop

LEMMA WalkPopShape ==
  ASSUME StreamShape, status = "parsing", InWalk, Calls > 0, NEW t,
         t = frames[Depth - 1].todo \/ t = AfterStop(frames[Depth - 1].todo),
         frames' = Popped(t), walk' = SubSeq(walk, 1, Calls - 1), path' = Shorter,
         nesting' = NestingAfter, refs' \in Seq(Held), open' \in Seq(Paths),
         nested' \in BOOLEAN, stopped' \in BOOLEAN,
         stopped' => t = AfterStop(frames[Depth - 1].todo),
         UNCHANGED <<rvars, eof, inBody, lazy, status, target>>
  PROVE  StreamShape' /\ WalkPops(t)
<1>1. /\ Depth \in Nat /\ Depth = Len(frames) /\ Depth = Calls + 1 /\ Calls \in Nat
      /\ Depth > 1 /\ Depth - 1 \in 1..Depth /\ StreamTypes
  BY ShapeTop DEF StreamShape
<1> DEFINE u == frames[Depth - 1].todo
           r == frames[Depth - 1].rn
<1>2. r \in BOOLEAN
  BY <1>1, StreamTop
<1>3. /\ u \in Seq(WalkNames) /\ StepsAt(Depth - 1) = WalkNames
      /\ Depth = 2 => u \in Seq({"root"})
  BY <1>1 DEF StreamShape, Lines, StepsAt
<1>4. t \in Seq(WalkNames) /\ (Depth = 2 => t \in Seq({"root"})) /\ (stopped' => t \in Seq(StopSteps))
  <2> HIDE DEF u
  <2>1. t = u \/ t = AfterStop(u)
    BY DEF u
  <2>2. AfterStop(u) \in Seq(WalkNames) /\ AfterStop(u) \in Seq(StopSteps)
    BY <1>3, AfterStopFacts, NamesFacts
  <2>3. Depth = 2 => AfterStop(u) \in Seq({"root"})
    <3>1. "attrs" \notin {"root"}
      OBVIOUS
    <3>2. Depth = 2 => AfterStop(u) = <<>>
      BY <1>3, <3>1, AfterStopFacts
    <3> QED BY <3>2
  <2>4. stopped' => t = AfterStop(u)
    BY DEF u
  <2> QED BY <1>3, <2>1, <2>2, <2>3, <2>4
<1>5. t \in Seq(Names) /\ frames' = Continue(SubSeq(frames, 1, Depth - 1), t, r)
  BY <1>4, NamesFacts DEF Popped
<1> HIDE DEF r, u
<1>6. /\ StackType /\ Len(frames') = Depth - 1 /\ SameBelow(Depth - 2) /\ SameKinds(Depth - 1)
      /\ frames'[Depth - 1].todo = t
  BY <1>1, <1>2, <1>5, StreamPops
<1>7. /\ walk' \in Seq(WalkCalls) /\ Len(walk') = Calls - 1
      /\ \A k \in 1..Calls - 1 : walk'[k] = walk[k]
  BY <1>1, WalkDrops
<1>8. Lines'
  BY <1>1, <1>3, <1>4, <1>6, <1>7, LinesPop
<1>9. Answered'
  <2>1. Len(walk') \in Nat /\ Len(walk') <= Calls /\ SameWalk(Len(walk'))
    BY <1>1, <1>7 DEF SameWalk
  <2> QED BY <2>1, AnsweredSame
<1>10. Tables'
  BY <1>1, <1>7, ShorterFacts DEF Tables, StreamTypes, RTypeOK, rvars
<1>11. nesting' = Depth - 2 /\ nesting' <= MaxDepth
  BY <1>1, ParserAssumption DEF StreamTypes, NestingAfter
<1>12. StreamShape'
  <2>1. Len(walk') < Len(frames') /\ nesting' = Len(frames') - 1 /\ Len(frames') = Len(walk') + 1
    BY <1>1, <1>6, <1>7, <1>11
  <2> QED BY <1>4, <1>6, <1>8, <1>9, <1>10, <1>11, <2>1, ShapeNow
<1> QED BY <1>1, <1>6, <1>7, <1>12 DEF WalkPops

LEMMA HearEndFacts ==
  ASSUME StreamTypes, HearEnd
  PROVE  /\ open' \in Seq(Paths) /\ nested' \in BOOLEAN /\ Len(open) \in Nat
         /\ Len(open) > 0 =>
              /\ Len(open') = Len(open) - 1 /\ \A k \in 1..Len(open) - 1 : open'[k] = open[k]
              /\ nested' = (nested /\ open[Len(open)] = path)
<1>1. open \in Seq(Paths) /\ Len(open) \in Nat
  BY DEF StreamTypes
<1>2. nested' = (nested /\ open # <<>> /\ open[Len(open)] = path)
  BY DEF HearEnd
<1>3. CASE open = <<>>
  <2>1. open' = open /\ Len(open) = 0
    BY <1>3 DEF HearEnd
  <2> QED BY <1>1, <1>2, <2>1
<1>4. CASE open # <<>>
  <2> DEFINE n == Len(open) - 1
             s == open
  <2>1. n \in Nat /\ open' = SubSeq(s, 1, n) /\ \A k \in 1..n : s[k] \in Paths
    BY <1>1, <1>4, EmptySeq, ElementOfSeq DEF HearEnd
  <2> HIDE DEF n, s
  <2>2. /\ SubSeq(s, 1, n) \in Seq(Paths) /\ Len(SubSeq(s, 1, n)) = (IF 1 <= n THEN n - 1 + 1 ELSE 0)
        /\ \A k \in 1..n - 1 + 1 : SubSeq(s, 1, n)[k] = s[1 + k - 1]
    BY <2>1, SubSeqProperties
  <2>3. n - 1 + 1 = n /\ (~(1 <= n) => n = 0) /\ \A k \in 1..n : 1 + k - 1 = k
    BY <2>1
  <2>4. open' \in Seq(Paths) /\ Len(open') = n /\ \A k \in 1..n : open'[k] = s[k]
    BY <2>1, <2>2, <2>3
  <2> QED BY <1>1, <1>2, <1>4, <2>4 DEF n, s
<1> QED BY <1>3, <1>4

LEMMA StartStopStep ==
  ASSUME StreamShape, StartStop
  PROVE  StreamShape' /\ StopsHere
<1> DEFINE t == AfterStop(frames[Depth - 1].todo)
<1>1. /\ status = "parsing" /\ InWalk /\ Top.todo # <<>> /\ Step = "start" /\ Here.emit
      /\ TakeSlot /\ frames' = Popped(t) /\ walk' = SubSeq(walk, 1, Calls - 1)
      /\ path' = Shorter /\ nesting' = NestingAfter /\ stopped'
      /\ told' = IF Here.id = 0 THEN told ELSE Bind(told, Here.id, path)
      /\ UNCHANGED <<inBody, lazy, eof, status, rvars, open, nested, target>>
  BY DEF StartStop, Up
<1>2. Calls > 0 /\ ~stopped
  BY <1>1, StartFacts
<1>3. refs' \in Seq(Held) /\ open' \in Seq(Paths) /\ nested' \in BOOLEAN /\ stopped' \in BOOLEAN
  <2>1. stopped' = TRUE
    BY DEF StartStop
  <2> QED BY <1>1, <2>1, TakeSlotType DEF StreamShape, StreamTypes
<1>4. StreamShape' /\ WalkPops(t)
  <2>1. t = AfterStop(frames[Depth - 1].todo)
    OBVIOUS
  <2> HIDE DEF t
  <2> QED BY <1>1, <1>2, <1>3, <2>1, WalkPopShape
<1>5. refPaths' = IF SlotTaken THEN Bind(refPaths, SlotOfNext, path) ELSE refPaths
  BY <1>1 DEF TakeSlot
<1> QED BY <1>1, <1>2, <1>4, <1>5 DEF StopsHere

LEMMA SetSlot ==
  ASSUME NEW T, NEW s \in Seq(T), NEW n \in Nat, NEW v \in T
  PROVE  [s EXCEPT ![n] = v] \in Seq(T) /\ Len([s EXCEPT ![n] = v]) = Len(s)
<1>1. CASE n \in 1..Len(s)
  BY <1>1, ExceptSeq
<1>2. CASE n \notin 1..Len(s)
  <2>1. DOMAIN s = 1..Len(s) /\ s = [j \in 1..Len(s) |-> s[j]]
    BY LenProperties
  <2>2. [s EXCEPT ![n] = v] = s
    BY <1>2, <2>1
  <2> QED BY <2>2
<1> QED BY <1>1, <1>2

LEMMA EndObjectStep ==
  ASSUME StreamShape, EndObject
  PROVE  StreamShape' /\ Ends
<1> DEFINE u == frames[Depth - 1].todo
           t == IF stopped THEN AfterStop(u) ELSE u
<1>1. /\ status = "parsing" /\ InWalk /\ Calls > 0 /\ Top.todo = <<>>
      /\ refs' = IF Registers(Top) THEN [refs EXCEPT ![Top.ref] = Top.op] ELSE refs
      /\ IF Here.emit THEN HearEnd ELSE UNCHANGED <<open, nested>>
      /\ frames' = Popped(t) /\ walk' = SubSeq(walk, 1, Calls - 1)
      /\ path' = Shorter /\ nesting' = NestingAfter
      /\ UNCHANGED <<inBody, lazy, eof, status, rvars, refPaths, stopped, told, target>>
  BY DEF EndObject, Up
<1>2. refs' \in Seq(Held)
  <2>1. refs \in Seq(Held)
    BY DEF StreamShape, StreamTypes
  <2>2. CASE Registers(Top)
    <3>1. Top.op \in Held /\ Top.ref \in Nat
      BY StreamTop DEF Held, StreamShape, FramesIn
    <3> QED BY <1>1, <2>1, <2>2, <3>1, SetSlot
  <2> QED BY <1>1, <2>1, <2>2
<1>3. open' \in Seq(Paths) /\ nested' \in BOOLEAN /\ stopped' \in BOOLEAN
  BY <1>1, HearEndFacts DEF StreamShape, StreamTypes
<1>4. StreamShape' /\ WalkPops(t)
  <2>1. /\ t = frames[Depth - 1].todo \/ t = AfterStop(frames[Depth - 1].todo)
        /\ stopped' => t = AfterStop(frames[Depth - 1].todo)
    BY <1>1
  <2> HIDE DEF t, u
  <2> QED BY <1>1, <1>2, <1>3, <2>1, WalkPopShape
<1>5. (Here.emit /\ HearEnd) \/ (~Here.emit /\ UNCHANGED <<open, nested>>)
  BY <1>1
<1> QED BY <1>1, <1>4, <1>5 DEF Ends

(* A call of the value parser returns.                                      *)
ParseEnds ==
  /\ status = "parsing" /\ ~InWalk /\ Top.todo = <<>> /\ status' = "parsing"
  /\ refs' = IF Top.ref = 0 THEN refs ELSE [refs EXCEPT ![Top.ref] = ValueOf(Top.op)]
  /\ StackType /\ Len(frames') = Depth - 1 /\ SameBelow(Depth - 2) /\ SameKinds(Depth - 1)
  /\ LET parent == frames[Depth - 1] IN
     frames'[Depth - 1].todo = IF Swallows(parent, Top) THEN <<"swallow">> \o parent.todo
                               ELSE parent.todo
  /\ (Swallows(frames[Depth - 1], Top) => Depth - 1 > Calls + 1)
  /\ UNCHANGED <<rvars, eof, walk, path, refPaths, stopped, open, nested, told, target>>

LEMMA ReturnStep ==
  ASSUME StreamShape, ~InWalk, Return, UNCHANGED walkVars
  PROVE  StreamShape' /\ ParseEnds
<1> DEFINE parent == frames[Depth - 1]
           t == IF Swallows(parent, Top) THEN <<"swallow">> \o parent.todo ELSE parent.todo
           r == IF Top.as = "tag" THEN Top.op = "rownames" ELSE parent.rn
<1>1. /\ status = "parsing" /\ Top.todo = <<>> /\ nesting' = NestingAfter
      /\ refs' = IF Top.ref = 0 THEN refs ELSE [refs EXCEPT ![Top.ref] = ValueOf(Top.op)]
      /\ inBody' = BodyAfter(Top) /\ lazy' = LazyAfter(Top)
      /\ frames' = Continue(SubSeq(frames, 1, Depth - 1), t, r)
      /\ UNCHANGED <<eof, status, rvars>>
  BY DEF Return
<1>2. UNCHANGED <<walk, path, refPaths, stopped, open, nested, told, target>>
  BY DEF walkVars, visitorVars
<1>3. /\ Depth \in Nat /\ Depth = Len(frames) /\ Depth > Calls + 1 /\ Calls \in Nat
      /\ Depth > 1 /\ Depth - 1 \in 1..Depth /\ Depth \in 1..Depth /\ StreamTypes
      /\ Depth - 1 \in 1..Depth - 1
  BY ShapeTop DEF StreamShape
<1>4. r \in BOOLEAN /\ Top \in FramesIn(Names)
  BY <1>3, StreamTop
<1>5. /\ parent.todo \in Seq(StepsAt(Depth - 1))
      /\ Depth = 2 => parent.todo \in Seq({"root"})
      /\ Depth - 1 > Calls + 1 => StepsAt(Depth - 1) = StepNames
      /\ ~(Depth - 1 > Calls + 1) => StepsAt(Depth - 1) = WalkNames
  <2>1. ~(Depth - 1 > Calls + 1) <=> Depth - 1 <= Calls + 1
    BY <1>3
  <2>2. /\ Depth - 1 > Calls + 1 => StepsAt(Depth - 1) = StepNames
        /\ ~(Depth - 1 > Calls + 1) => StepsAt(Depth - 1) = WalkNames
    BY <2>1 DEF StepsAt
  <2>3. parent.todo \in Seq(StepsAt(Depth - 1))
    BY <1>3 DEF StreamShape, Lines
  <2>4. Depth = 2 => parent.todo \in Seq({"root"})
    <3>1. Depth = 2 => Depth - 1 = 1
      BY <1>3
    <3> QED BY <3>1 DEF StreamShape, Lines
  <2> QED BY <2>2, <2>3, <2>4
<1>6. Swallows(parent, Top) => Depth - 1 > Calls + 1
  <2>1. "elem" \notin WalkNames
    BY DEF WalkNames, StepsFor, Segments, Quiet, ByParseObject, Silent
  <2>2. Swallows(parent, Top) => parent.todo # <<>> /\ Head(parent.todo) = "elem"
    BY DEF Swallows
  <2> DEFINE p == parent.todo
  <2>3. p \in Seq(WalkNames) /\ p # <<>> => Head(p) \in WalkNames
    <3> HIDE DEF p
    <3> QED BY HeadTailProperties
  <2> QED BY <1>5, <2>1, <2>2, <2>3
<1>7. t \in Seq(StepsAt(Depth - 1)) /\ (Depth = 2 => t \in Seq({"root"}))
  <2>1. CASE Swallows(parent, Top)
    <3> DEFINE p == parent.todo
    <3>1. "swallow" \in StepNames /\ p \in Seq(StepNames) /\ StepsAt(Depth - 1) = StepNames
          /\ Depth # 2 /\ t = <<"swallow">> \o p
      BY <1>3, <1>5, <1>6, <2>1 DEF StepNames
    <3> HIDE DEF p, t
    <3>2. <<"swallow">> \in Seq(StepNames)
      BY <3>1
    <3> QED BY <3>1, <3>2, ConcatProperties
  <2>2. CASE ~Swallows(parent, Top)
    BY <1>5, <2>2
  <2> QED BY <2>1, <2>2
<1>8. t \in Seq(Names)
  <2> HIDE DEF t
  <2> QED BY <1>5, <1>7, NamesFacts
<1>15. t = IF Swallows(parent, Top) THEN <<"swallow">> \o parent.todo ELSE parent.todo
  OBVIOUS
<1> HIDE DEF t, r
<1>9. /\ StackType /\ Len(frames') = Depth - 1 /\ SameBelow(Depth - 2) /\ SameKinds(Depth - 1)
      /\ frames'[Depth - 1].todo = t
  BY <1>1, <1>3, <1>4, <1>8, StreamPops
<1>10. Lines' /\ Answered'
  <2>1. Len(walk') = Calls /\ SameWalk(Calls)
    BY <1>2 DEF SameWalk, Calls
  <2>2. Lines'
    BY <1>3, <1>7, <1>9, <2>1, LinesPop
  <2> QED BY <1>3, <2>1, <2>2, AnsweredSame
<1>11. refs' \in Seq(Held)
  <2>1. refs \in Seq(Held) /\ Top.ref \in Nat
    BY <1>3, <1>4 DEF StreamTypes, FramesIn
  <2>2. Top.ref # 0 => ValueOf(Top.op) \in Held
    BY <1>4 DEF FramesIn, ValueOf, Held, AllKinds
  <2> QED BY <1>1, <2>1, <2>2, SetSlot
<1>12. Tables'
  <2>1. inBody' \in BOOLEAN /\ lazy' \in BOOLEAN
    BY <1>1, <1>3, <1>4 DEF StreamTypes, FramesIn, BodyAfter, LazyAfter
  <2> QED BY <1>1, <1>2, <1>3, <1>11, <2>1 DEF Tables, StreamTypes, RTypeOK, rvars
<1>13. StreamShape'
  <2>1. ~stopped'
    BY <1>1, <1>2 DEF StreamShape
  <2>2. /\ Len(walk') < Len(frames') /\ nesting' = Len(frames') - 1 /\ nesting' <= MaxDepth
        /\ status' = "parsing"
    BY <1>1, <1>2, <1>3, <1>9, ParserAssumption DEF StreamTypes, NestingAfter, Calls
  <2> QED BY <1>9, <1>10, <1>12, <2>1, <2>2, ShapeNow
<1>14. ParseEnds
  BY <1>1, <1>2, <1>6, <1>9, <1>15 DEF ParseEnds
<1> QED BY <1>13, <1>14

(* Values among the attributes are reported: one begins, or ends, or is not *)
(* reported after all.                                                      *)
Reports(t) ==
  /\ status = "parsing" /\ InWalk /\ Calls > 0 /\ Top.todo # <<>> /\ status' = "parsing"
  /\ WentOn(t) /\ UNCHANGED <<rvars, eof, refs, walk, refPaths, stopped, told, target>>

OpensReport ==
  /\ Step = "report" /\ Here.kids /\ UNCHANGED nested
  /\ Reports(<<"endreport">> \o Rest) \/ Reports(<<"report", "endreport">> \o Rest)
  /\ path' = Append(path, <<"attribute", 0>>) /\ open' = Append(open, path')

LeavesReport ==
  \/ Step = "report" /\ Reports(Rest) /\ UNCHANGED <<path, open, nested>>
  \/ Step = "endreport" /\ Reports(Rest) /\ HearEnd /\ path' = SubSeq(path, 1, Len(path) - 1)

LEMMA ReportShape ==
  ASSUME StreamShape, status = "parsing", InWalk, Top.todo # <<>>,
         Step \in {"report", "endreport"}, NEW t \in Seq(WalkNames), stopped => t \in Seq(StopSteps),
         frames' = Continue(frames, t, Top.rn), path' \in Paths, open' \in Seq(Paths),
         nested' \in BOOLEAN,
         UNCHANGED <<refs, inBody, lazy, walk, stopped, nesting, status, rvars, eof, refPaths, told,
                     target>>
  PROVE  StreamShape' /\ Reports(t)
<1>1. /\ Depth \in Nat \ {0} /\ Depth = Len(frames) /\ Calls < Depth /\ Calls \in Nat
      /\ Depth # 1 /\ Depth = Calls + 1 /\ StepsAt(Depth) = WalkNames /\ StreamTypes
      /\ Calls = Len(walk) /\ Top.rn \in BOOLEAN
  BY ShapeTop, StreamTop DEF StreamShape
<1>2. t \in Seq(Names)
  BY NamesFacts
<1>3. WentOn(t)
  BY <1>1, <1>2, StreamGoesOn DEF WentOn
<1>4. Len(walk') = Calls /\ SameWalk(Calls)
  BY <1>1 DEF SameWalk
<1>5. Lines' /\ Answered'
  <2>1. Lines'
    BY <1>1, <1>3, <1>4, LinesInPlace DEF WentOn
  <2> QED BY <1>1, <1>4, <2>1, AnsweredSame
<1>6. Tables'
  BY <1>1 DEF Tables, StreamTypes, RTypeOK, rvars
<1>7. nesting = Depth - 1 /\ nesting <= MaxDepth
  BY <1>1 DEF StreamTypes
<1>8. StreamShape'
  BY <1>1, <1>3, <1>4, <1>5, <1>6, <1>7, ShapeNow DEF WentOn
<1> QED BY <1>1, <1>3, <1>8 DEF Reports

LEMMA ReportSteps ==
  ASSUME NEW T, NEW t \in Seq(T), "report" \in T, "endreport" \in T
  PROVE  <<"endreport">> \o t \in Seq(T) /\ <<"report", "endreport">> \o t \in Seq(T)
<1>1. <<"endreport">> \in Seq(T) /\ <<"report", "endreport">> \in Seq(T)
  OBVIOUS
<1> QED BY <1>1, ConcatProperties

LEMMA ReportTails ==
  ASSUME StreamShape, AtReport("report") \/ AtReport("endreport")
  PROVE  /\ InWalk /\ Top.todo # <<>> /\ status = "parsing" /\ Step \in {"report", "endreport"}
         /\ Rest \in Seq(WalkNames) /\ (stopped => Rest \in Seq(StopSteps))
         /\ "report" \in WalkNames \cap StopSteps /\ "endreport" \in WalkNames \cap StopSteps
<1>1. InWalk /\ Top.todo # <<>> /\ status = "parsing" /\ Step \in {"report", "endreport"}
  BY DEF AtReport
<1>2. Rest \in Seq(WalkNames)
  BY <1>1, ShapeTop
<1>3. stopped => Rest \in Seq(StopSteps)
  <2>1. \A t \in Seq(StopSteps) : t # <<>> => Tail(t) \in Seq(StopSteps)
    BY HeadTailProperties
  <2> QED BY <1>1, <2>1 DEF StreamShape, Rest
<1> QED BY <1>1, <1>2, <1>3 DEF WalkNames, StepsFor, Silent, StopSteps

(* Two sequences of one element in a row.                                  *)
LEMMA OneAndOne ==
  ASSUME NEW x, NEW y
  PROVE  <<x>> \o <<y>> = <<x, y>>
<1> DEFINE T == {x, y}
           u == <<x>>
           v == <<y>>
           w == <<x, y>>
<1>1. /\ u \in Seq(T) /\ Len(u) = 1 /\ u[1] = x
      /\ v \in Seq(T) /\ Len(v) = 1 /\ v[1] = y
      /\ w \in Seq(T) /\ Len(w) = 2 /\ w[1] = x /\ w[2] = y
  OBVIOUS
<1> HIDE DEF u, v, w, T
<1>2. /\ u \o v \in Seq(T) /\ Len(u \o v) = Len(u) + Len(v)
      /\ \A k \in 1..Len(u) + Len(v) : (u \o v)[k] = IF k <= Len(u) THEN u[k] ELSE v[k - Len(u)]
  BY <1>1, ConcatProperties
<1>3. Len(u \o v) = 2
  BY <1>1, <1>2
<1>4. (u \o v)[1] = u[1] /\ (u \o v)[2] = v[1]
  <2>1. 1 \in 1..Len(u) + Len(v) /\ 2 \in 1..Len(u) + Len(v) /\ 1 <= Len(u) /\ ~(2 <= Len(u))
        /\ 2 - Len(u) = 1
    BY <1>1
  <2> QED BY <1>2, <2>1
<1>5. \A k \in 1..2 : (u \o v)[k] = w[k]
  <2> TAKE k \in 1..2
  <2>1. k = 1 \/ k = 2
    OBVIOUS
  <2> QED BY <1>1, <1>4, <2>1
<1>6. u \o v = w
  BY <1>1, <1>2, <1>3, <1>5, SeqEqual
<1> QED BY <1>6 DEF u, v, w

LEMMA ReportStep ==
  ASSUME StreamShape, NEW answer, Report(answer)
  PROVE  StreamShape' /\ (OpensReport \/ LeavesReport)
<1>0. AtReport("report")
  BY DEF Report
<1>1. /\ InWalk /\ Top.todo # <<>> /\ status = "parsing" /\ Step = "report"
      /\ Rest \in Seq(WalkNames) /\ (stopped => Rest \in Seq(StopSteps))
      /\ "report" \in WalkNames \cap StopSteps /\ "endreport" \in WalkNames \cap StopSteps
  BY <1>0, ReportTails DEF AtReport
<1>2. UNCHANGED <<refs, inBody, lazy, walk, stopped, nested, nesting, status, rvars, eof, refPaths, told,
                  target>>
  BY DEF Report
<1>3. nested' \in BOOLEAN /\ path \in Paths /\ open \in Seq(Paths)
  BY <1>2 DEF StreamShape, StreamTypes
<1>4. CASE Here.kids /\ answer = "Continue"
  <2>1. PICK inside \in {<<>>, <<"report">>} :
          frames' = Continue(frames, inside \o <<"endreport">> \o Rest, Top.rn)
    BY <1>4 DEF Report
  <2>2. path' = Append(path, <<"attribute", 0>>) /\ open' = Append(open, path')
    BY <1>4 DEF Report
  <2>3. path' \in Paths /\ open' \in Seq(Paths)
    <3> DEFINE s == "attribute"
               n == 0
               p == path
    <3>1. s \in Names \cup {"attribute"} /\ n \in Nat /\ p \in Paths
      BY <1>3
    <3>2. path' = Append(p, <<s, n>>)
      BY <2>2
    <3> HIDE DEF s, n, p
    <3>3. path' \in Paths
      BY <3>1, <3>2, PathAppend
    <3> QED BY <1>3, <2>2, <3>3
  <2> DEFINE a == <<"endreport">> \o Rest
             b == <<"report", "endreport">> \o Rest
  <2>4. a \in Seq(WalkNames) /\ b \in Seq(WalkNames)
    BY <1>1, ReportSteps
  <2>5. stopped => a \in Seq(StopSteps) /\ b \in Seq(StopSteps)
    BY <1>1, ReportSteps
  <2>6. frames' = Continue(frames, a, Top.rn) \/ frames' = Continue(frames, b, Top.rn)
    <3>1. /\ <<>> \o <<"endreport">> = <<"endreport">>
          /\ <<"report">> \o <<"endreport">> = <<"report", "endreport">>
      <4>1. <<"endreport">> \in Seq({"endreport"})
        OBVIOUS
      <4>2. <<>> \o <<"endreport">> = <<"endreport">>
        BY <4>1, ConcatEmptySeq
      <4>3. <<"report">> \o <<"endreport">> = <<"report", "endreport">>
        BY OneAndOne
      <4> QED BY <4>2, <4>3
    <3>2. inside = <<>> \/ inside = <<"report">>
      BY <2>1
    <3> QED BY <2>1, <3>1, <3>2
  <2> HIDE DEF a, b
  <2>7. StreamShape' /\ (Reports(a) \/ Reports(b))
    BY <1>1, <1>2, <1>3, <2>3, <2>4, <2>5, <2>6, ReportShape
  <2> QED BY <1>1, <1>2, <1>4, <2>2, <2>7 DEF OpensReport, a, b
<1>5. CASE ~(Here.kids /\ answer = "Continue")
  <2>1. frames' = Continue(frames, Rest, Top.rn) /\ UNCHANGED <<path, open>>
    BY <1>5 DEF Report
  <2>2. StreamShape' /\ Reports(Rest)
    BY <1>1, <1>2, <1>3, <2>1, ReportShape
  <2> QED BY <1>1, <1>2, <2>1, <2>2 DEF LeavesReport
<1> QED BY <1>4, <1>5

LEMMA ReportEndStep ==
  ASSUME StreamShape, ReportEnd
  PROVE  StreamShape' /\ LeavesReport
<1>0. AtReport("endreport")
  BY DEF ReportEnd
<1>1. /\ InWalk /\ Top.todo # <<>> /\ status = "parsing" /\ Step = "endreport"
      /\ Rest \in Seq(WalkNames) /\ (stopped => Rest \in Seq(StopSteps))
  BY <1>0, ReportTails DEF AtReport
<1>2. /\ UNCHANGED <<refs, inBody, lazy, walk, stopped, nesting, status, rvars, eof, refPaths, told,
                     target>>
      /\ HearEnd /\ path' = SubSeq(path, 1, Len(path) - 1)
      /\ frames' = Continue(frames, Rest, Top.rn)
  BY DEF ReportEnd
<1>3. open' \in Seq(Paths) /\ nested' \in BOOLEAN /\ path \in Paths
  BY <1>2, HearEndFacts DEF StreamShape, StreamTypes
<1>4. path' \in Paths
  BY <1>2, <1>3, PathDrops, NoPath
<1>5. StreamShape' /\ Reports(Rest)
  BY <1>1, <1>2, <1>3, <1>4, ReportShape
<1> QED BY <1>1, <1>2, <1>5 DEF LeavesReport

(* Nothing happens to the calls.                                            *)
Going == status \in {"parsing", "ok"}
Stays ==
  /\ UNCHANGED <<rvars, frames, refs, walk, path, refPaths, stopped, open, nested, told, target>>
  /\ eof' = eof \/ eof' # "no"
  /\ Going' => Going

LEMMA UnwindStep ==
  ASSUME StreamShape, StreamUnwind
  PROVE  StreamShape' /\ GivesUp
<1>1. /\ status = "unwinding" /\ UNCHANGED <<rvars, refs, inBody, path, refPaths, stopped, open, nested,
                                             told, target>>
  BY DEF StreamUnwind, Unwind, visitorVars
<1>2. /\ Depth \in Nat \ {0} /\ Depth = Len(frames) /\ Calls < Depth /\ Calls \in Nat
      /\ Calls = Len(walk) /\ (InWalk <=> Depth = Calls + 1) /\ StreamTypes /\ RTypeOK'
  BY <1>1, ShapeTop DEF StreamShape, StreamTypes, RTypeOK, rvars
<1>3. CASE Depth > 1
  <2>1. /\ frames' = SubSeq(frames, 1, Depth - 1) /\ nesting' = NestingAfter
        /\ lazy' = LazyAfter(Top) /\ status' = "unwinding"
    BY <1>1, <1>3 DEF StreamUnwind, Unwind
  <2>2. StackType /\ Len(frames') = Depth - 1 /\ SameBelow(Depth - 1)
    BY <1>2, <1>3, <2>1, StreamDrops
  <2>3. /\ walk' \in Seq(WalkCalls) /\ Len(walk') < Len(frames') /\ Len(walk') \in Nat
        /\ (InWalk /\ Len(walk') = Calls - 1) \/ (~InWalk /\ Len(walk') = Calls)
        /\ SameWalk(Len(walk')) /\ Len(walk') <= Calls
    <3>1. CASE InWalk
      <4>1. Calls > 0 /\ walk' = SubSeq(walk, 1, Calls - 1)
        BY <1>2, <1>3, <3>1 DEF StreamUnwind
      <4> QED BY <1>2, <2>2, <3>1, <4>1, WalkDrops DEF SameWalk
    <3>2. CASE ~InWalk
      <4>1. walk' = walk
        BY <3>2 DEF StreamUnwind
      <4> QED BY <1>2, <2>2, <3>2, <4>1 DEF SameWalk, StreamTypes
    <3> QED BY <3>1, <3>2
  <2>4. Lines'
    <3>1. SameBelow(Depth - 2) /\ Depth - 1 \in 1..Depth - 1 /\ Depth - 1 \in 1..Depth
      BY <1>2, <1>3, <2>2 DEF SameBelow
    <3>2. frames'[Depth - 1] = frames[Depth - 1]
      BY <2>2, <3>1 DEF SameBelow
    <3>3. frames'[Depth - 1].todo \in Seq(StepsAt(Depth - 1))
      BY <3>1, <3>2 DEF StreamShape, Lines
    <3>4. Depth = 2 => frames'[1].todo \in Seq({"root"})
      <4>1. Depth = 2 => Depth - 1 = 1
        BY <1>2
      <4> QED BY <3>2, <4>1 DEF StreamShape, Lines
    <3> QED BY <1>3, <2>2, <2>3, <3>1, <3>3, <3>4, LinesPop
  <2>5. Answered'
    BY <2>3, AnsweredSame
  <2>6. lazy' \in BOOLEAN
    <3>1. Top \in FramesIn(Names) /\ lazy \in BOOLEAN
      BY <1>2, StreamTop DEF StreamTypes
    <3> QED BY <2>1, <3>1 DEF LazyAfter, FramesIn
  <2>7. nesting' = Depth - 2 /\ nesting' <= MaxDepth
    BY <1>2, <2>1, ParserAssumption DEF StreamTypes, NestingAfter
  <2>8. StreamTypes'
    <3>1. nesting' = Len(frames') - 1
      BY <1>2, <2>2, <2>7
    <3> QED BY <1>1, <1>2, <2>1, <2>2, <2>3, <2>6, <2>7, <3>1 DEF StreamTypes, StackType, Calls, Depth
  <2>9. status' = "unwinding"
    BY <2>1
  <2> QED BY <1>1, <2>4, <2>5, <2>8, <2>9 DEF StreamShape, GivesUp, visitorVars
<1>4. CASE ~(Depth > 1)
  <2>1. UNCHANGED <<frames, nesting, lazy>> /\ status' = "error"
    BY <1>4 DEF StreamUnwind, Unwind
  <2>2. Depth = 1 /\ Calls = 0
    BY <1>2, <1>4
  <2>3. walk' = walk
    BY <2>2 DEF StreamUnwind
  <2>4. StreamTypes' /\ Lines' /\ Answered'
    BY <1>1, <1>2, <2>1, <2>3
       DEF StreamShape, StreamTypes, Lines, Answered, StepsAt, Depth, Calls
  <2> QED BY <1>1, <2>1, <2>4 DEF StreamShape, GivesUp, visitorVars
<1> QED BY <1>3, <1>4

LEMMA SameShape ==
  ASSUME StreamShape, UNCHANGED <<rvars, frames, refs, inBody, lazy, nesting, walkVars>>,
         \/ status' = status
         \/ status = "parsing" /\ Depth = 1 /\ Top.todo = <<>> /\ status' = "ok",
         eof' = eof \/ eof' # "no"
  PROVE  StreamShape' /\ Stays
<1>1. /\ UNCHANGED <<rvars, frames, refs, inBody, lazy, nesting, walk, path, refPaths, stopped, open,
                     nested, told, target>>
      /\ RTypeOK'
  BY DEF walkVars, visitorVars, StreamShape, StreamTypes, RTypeOK, rvars
<1>2. StreamTypes' /\ Lines' /\ Answered'
  BY <1>1 DEF StreamShape, StreamTypes, Lines, Answered, StepsAt, Depth, Calls
<1>3. /\ (status = "parsing" /\ stopped => InWalk /\ Top.todo \in Seq(StopSteps))'
      /\ (status = "ok" => Depth = 1 /\ Top.todo = <<>>)'
  BY <1>1 DEF StreamShape, Depth, Calls, InWalk, Top
<1> QED BY <1>1, <1>2, <1>3 DEF StreamShape, Stays, Going

Effect ==
  \/ PassesOver
  \/ \E i \in NextItems : (\E S : ReadsCell(i, S)) \/ WalkBegins(i) \/ ParseBegins(i)
  \/ Starts \/ StopsHere \/ Ends \/ ParseEnds
  \/ OpensReport \/ LeavesReport \/ GivesUp \/ Stays

LEMMA StreamStep ==
  ASSUME StreamShape, [StreamNext]_streamVars
  PROVE  StreamShape' /\ Effect
<1>1. CASE Walk
  <2>1. ~AtEnd
    BY <1>1 DEF Walk
  <2>2. PICK i \in NextItems : WalkRef(i) \/ WalkNextCell(i) \/ WalkObject(i) \/ WalkTooDeep(i)
    BY <1>1 DEF Walk
  <2>3. CASE WalkRef(i)
    BY <2>1, <2>3, WalkRefStep DEF Effect
  <2>4. CASE WalkNextCell(i)
    BY <2>1, <2>4, WalkNextCellStep DEF Effect
  <2>5. CASE WalkObject(i)
    BY <2>1, <2>5, WalkObjectStep DEF Effect
  <2>6. CASE WalkTooDeep(i)
    <3>1. Fail("depth") /\ UNCHANGED walkVars /\ RTypeOK'
      BY <2>6 DEF WalkTooDeep, StreamShape, StreamTypes, RTypeOK, rvars
    <3> QED BY <3>1, FailShape DEF Effect
  <2> QED BY <2>2, <2>3, <2>4, <2>5, <2>6
<1>2. CASE StartObject
  BY <1>2, StartSilentlyStep, StartStep, StartStopStep DEF StartObject, Effect
<1>3. CASE (\E a \in Answers : Report(a)) \/ ReportEnd
  BY <1>3, ReportStep, ReportEndStep DEF Effect
<1>4. CASE EndObject
  BY <1>4, EndObjectStep DEF Effect
<1>5. CASE ReadAfterStop
  BY <1>5, AfterStopStep DEF Effect
<1>6. CASE ParseForWalk
  <2>1. CASE ~InWalk /\ Return /\ UNCHANGED walkVars
    BY <2>1, ReturnStep DEF Effect
  <2>2. CASE ~(~InWalk /\ Return /\ UNCHANGED walkVars)
    <3>1. ~stopped /\ ToParse /\ ~AtEnd /\ UNCHANGED walkVars
      BY <1>6, <2>2 DEF ParseForWalk
    <3>2. PICK i \in NextItems :
            ReadTagRef(i) \/ ReadCell(i) \/ EnterFails(i) \/ ReadRef(i) \/ ReadObject(i)
      BY <1>6, <2>2 DEF ParseForWalk
    <3>3. CASE ReadTagRef(i) \/ ReadRef(i)
      BY <3>1, <3>3, ParseRefStep DEF Effect
    <3>4. CASE ReadCell(i)
      BY <3>1, <3>4, ReadCellStep DEF Effect
    <3>5. CASE ReadObject(i)
      BY <3>1, <3>5, ReadObjectStep DEF Effect
    <3>6. CASE EnterFails(i)
      <4>1. Fail("depth") /\ RTypeOK'
        BY <3>6 DEF EnterFails, StreamShape, StreamTypes, RTypeOK, rvars
      <4> QED BY <3>1, <4>1, FailShape DEF Effect
    <3> QED BY <3>2, <3>3, <3>4, <3>5, <3>6
  <2> QED BY <2>1, <2>2
<1>7. CASE StreamAtEnd
  BY <1>7, AtEndStep DEF Effect
<1>8. CASE StreamUnwind
  BY <1>8, UnwindStep DEF Effect
<1>9. CASE Finish /\ UNCHANGED walkVars
  BY <1>9, SameShape DEF Finish, Effect
<1>10. CASE Truncate /\ UNCHANGED walkVars
  <2>1. eof' # "no"
    BY <1>10 DEF Truncate
  <2> QED BY <1>10, <2>1, SameShape DEF Truncate, Effect
<1>11. CASE UNCHANGED streamVars
  BY <1>11, SameShape DEF streamVars, vars, pvars, Effect
<1> QED BY <1>1, <1>2, <1>3, <1>4, <1>5, <1>6, <1>7, <1>8, <1>9, <1>10, <1>11 DEF StreamNext, Traverse
-----------------------------------------------------------------------------
LEMMA StreamBegins == StreamInit => StreamShape
<1> SUFFICES ASSUME StreamInit PROVE StreamShape
  OBVIOUS
<1> DEFINE f == [op |-> "root", as |-> "root", todo |-> <<"root">>, ref |-> 0,
                 plain |-> TRUE, rn |-> FALSE, wasBody |-> FALSE,
                 wasLazy |-> Lazy, rest |-> 0]
<1>1. f \in FramesIn(Names) /\ f.todo = <<"root">>
  <2>1. "root" \in Names /\ <<"root">> \in Seq(Names)
    BY DEF Names, Segments
  <2> QED BY <2>1, ParserAssumption DEF FramesIn
<1>2. frames = <<f>>
  BY DEF StreamInit
<1> HIDE DEF f
<1>3. frames \in Seq(FramesIn(Names)) /\ Len(frames) = 1 /\ frames # <<>> /\ frames[1] = f
  BY <1>1, <1>2
<1>4. RTypeOK
  BY StreamAssumption DEF RTypeOK, Roles, StreamInit, RInit
<1>5. /\ refs = <<>> /\ inBody = FALSE /\ lazy = Lazy /\ nesting = 0 /\ status = "parsing"
      /\ walk = <<>> /\ stopped = FALSE /\ nested = TRUE /\ path = <<>> /\ open = <<>>
  BY DEF StreamInit
<1>6. Depth = 1 /\ Calls = 0
  BY <1>3, <1>5 DEF Depth, Calls
<1>7. \A T : <<>> \in Seq(T)
  OBVIOUS
<1>8. path \in Paths /\ open \in Seq(Paths) /\ refs \in Seq(Held) /\ walk \in Seq(WalkCalls)
  BY <1>5, <1>7 DEF Paths
<1>9. StreamTypes
  <2>1. nesting = Depth - 1 /\ nesting <= MaxDepth /\ Calls < Depth
    BY <1>5, <1>6, ParserAssumption
  <2>2. inBody \in BOOLEAN /\ lazy \in BOOLEAN /\ stopped \in BOOLEAN /\ nested \in BOOLEAN
    BY <1>5, ParserAssumption
  <2>3. status \in {"parsing", "unwinding", "ok", "error"}
    BY <1>5
  <2> QED BY <1>3, <1>4, <1>8, <2>1, <2>2, <2>3 DEF StreamTypes
<1>10. Lines
  <2>1. <<"root">> \in Seq(WalkNames) /\ <<"root">> \in Seq({"root"})
    BY CalmShort, NamesFacts
  <2>2. frames[1].todo = <<"root">> /\ StepsAt(1) = WalkNames
    BY <1>1, <1>3, <1>6 DEF StepsAt
  <2>3. ASSUME NEW k \in 1..Depth PROVE frames[k].todo \in Seq(StepsAt(k))
    <3>1. k = 1
      BY <1>6
    <3> QED BY <2>1, <2>2, <3>1
  <2> QED BY <2>1, <2>2, <2>3 DEF Lines
<1>11. Answered
  BY <1>6 DEF Answered
<1> QED BY <1>5, <1>9, <1>10, <1>11 DEF StreamShape

LEMMA ShapeHolds == StreamSpec => []StreamShape
<1>1. StreamShape /\ [StreamNext]_streamVars => StreamShape'
  BY StreamStep
<1> QED BY <1>1, StreamBegins, PTL DEF StreamSpec

(* Every variable of the traversal keeps its type.                          *)
THEOREM WalkTypesAreKept == StreamSpec => []StreamTypeOK
<1>1. StreamShape => StreamTypeOK
  <2> SUFFICES ASSUME StreamShape PROVE StreamTypeOK
    OBVIOUS
  <2>1. StreamTypes /\ Answered
    BY DEF StreamShape
  <2>2. \A k \in 1..Depth : \A j \in 1..Len(frames[k].todo) :
          frames[k].todo[j] \in StepNames \cup Segments \cup Silent
    BY <2>1, StreamTop, ElementOfSeq DEF Names
  <2>3. nesting \in 0..MaxDepth
    BY <2>1, StreamTop, ParserAssumption DEF StreamTypes
  <2>4. \A k \in 1..Calls : /\ walk[k].emit \in BOOLEAN /\ walk[k].kids \in BOOLEAN
                            /\ walk[k].kids => walk[k].emit
                            /\ walk[k].emit /\ k > 1 => walk[k - 1].kids
    <3>1. \A k \in 1..Calls : walk[k] \in WalkCalls
      BY <2>1, StreamTop
    <3> QED BY <2>1, <3>1 DEF Answered, WalkCalls
  <2> QED BY <2>1, <2>2, <2>3, <2>4 DEF StreamTypeOK, StreamTypes
<1> QED BY <1>1, ShapeHolds, PTL

LEMMA NothingNew ==
  ASSUME StreamShape, Effect, stopped, Len(open') > Len(open)
  PROVE  Step = "report"
<1>1. StreamTypes
  BY DEF StreamShape
<1>2. open \in Seq(Paths) /\ Len(open) \in Nat
  BY <1>1 DEF StreamTypes
<1>3. open' # open
  BY <1>2
<1>4. ~HearEnd
  BY <1>1, <1>2, HearEndFacts, EmptySeq DEF HearEnd
<1>5. ~PassesOver
  BY <1>3 DEF PassesOver, Untouched
<1>6. ~\E i \in NextItems : (\E S : ReadsCell(i, S)) \/ WalkBegins(i) \/ ParseBegins(i)
  BY DEF ReadsCell, WalkBegins, ParseBegins, Begins
<1>7. ~Starts /\ ~StopsHere /\ ~Ends /\ ~ParseEnds /\ ~GivesUp /\ ~Stays
  BY <1>3, <1>4 DEF Starts, StopsHere, Ends, ParseEnds, GivesUp, Stays, visitorVars
<1>8. LeavesReport => Step = "report"
  BY <1>4 DEF LeavesReport
<1>9. OpensReport => Step = "report"
  BY DEF OpensReport
<1> QED BY <1>5, <1>6, <1>7, <1>8, <1>9 DEF Effect

(* Once the visitor has answered Stop it hears of no further object of the  *)
(* walk: what begins after that is a value among attributes still read.     *)
THEOREM StopIsTheEnd == StreamSpec => NothingAfterStop
<1>1. StreamShape /\ [StreamNext]_streamVars
        => [stopped /\ Len(open') > Len(open) => Step = "report"]_streamVars
  BY StreamStep, NothingNew
<1> QED BY <1>1, ShapeHolds, PTL DEF StreamSpec, NothingAfterStop
-----------------------------------------------------------------------------
(* What the visitor has open.  The calls the walk reports are the e lowest  *)
(* ones; each has one path open, of one segment more than the one below,    *)
(* and above them are the m values among the attributes that are being      *)
(* reported.  All of them are prefixes of the path at hand.  The innermost  *)
(* call may not have been heard of yet.                                     *)
Innermost == frames[Calls + 1].todo
PathTo(e) == IF e = 0 THEN 0 ELSE e - 1

HeardOf(e, m) ==
  \/ Reporting(Innermost, m) /\ Len(open) = e + m
  \/ Waiting(Innermost) /\ m = 0 /\ Calls > 0 /\ Len(open) = IF e = Calls THEN e - 1 ELSE e

HeardAs(e, m) ==
  /\ e <= Calls /\ (Calls > 0 => e > 0) /\ (m > 0 => e = Calls /\ Calls > 0)
  /\ \A k \in 1..Calls : walk[k].emit <=> k <= e
  /\ Len(path) = PathTo(e) + m
  /\ HeardOf(e, m)

Nests ==
  \A k \in 1..Len(open) : Len(open[k]) = k - 1 /\ \A j \in 1..k - 1 : open[k][j] = path[j]

Heard ==
  /\ \E e \in Nat, m \in Nat : HeardAs(e, m)
  /\ \A k \in 1..Calls : frames[k].todo \in Seq(Calm)
  /\ Nests

LEMMA StillHeard ==
  ASSUME StreamShape, Heard, Len(walk') = Calls, UNCHANGED <<path, open>>,
         \A k \in 1..Calls : walk'[k].emit = walk[k].emit /\ frames'[k].todo = frames[k].todo,
         NEW t, frames'[Calls + 1].todo = t, Waiting(Innermost) => Waiting(t),
         \A m \in Nat : Reporting(Innermost, m) => Reporting(t, m)
  PROVE  Heard'
<1>1. PICK e \in Nat, m \in Nat : HeardAs(e, m)
  BY DEF Heard
<1>2. Calls' = Calls /\ Innermost' = t
  BY DEF Calls, Innermost
<1>3. HeardOf(e, m)'
  BY <1>1, <1>2 DEF HeardAs, HeardOf
<1>4. HeardAs(e, m)'
  BY <1>1, <1>2, <1>3 DEF HeardAs
<1>5. Nests'
  BY DEF Heard, Nests
<1>6. \A k \in 1..Calls' : frames'[k].todo \in Seq(Calm)
  BY <1>2 DEF Heard
<1> QED BY <1>4, <1>5, <1>6 DEF Heard

(* A step that reads: the visitor has no attribute value open.              *)
LEMMA ReadsWhileCalm ==
  ASSUME NEW t, t # <<>>, Head(t) \notin Silent
  PROVE  /\ Waiting(t) => Head(t) = "early" /\ Waiting(Tail(t))
         /\ \A m \in Nat : Reporting(t, m) =>
              /\ m = 0 /\ t \in Seq(Calm) /\ Reporting(Tail(t), 0)
              /\ \A S \in Seq(Calm) : Reporting(S \o Tail(t), 0)
<1>1. Head(t) \notin {"start", "report", "endreport"}
  BY DEF Silent
<1>2. ASSUME Waiting(t) PROVE Head(t) = "early" /\ Waiting(Tail(t))
  BY <1>1, <1>2, WaitingFacts
<1>3. ASSUME NEW m \in Nat, Reporting(t, m)
      PROVE  /\ m = 0 /\ t \in Seq(Calm) /\ Reporting(Tail(t), 0)
             /\ \A S \in Seq(Calm) : Reporting(S \o Tail(t), 0)
  <2>1. m = 0
    BY <1>1, <1>3, ReportingNone
  <2>2. t \in Seq(Calm)
    BY <1>3, <2>1, CalmReports
  <2>3. Tail(t) \in Seq(Calm)
    BY <2>2, HeadTailProperties
  <2>4. \A S \in Seq(Calm) : S \o Tail(t) \in Seq(Calm)
    BY <2>3, ConcatProperties
  <2> QED BY <2>1, <2>2, <2>3, <2>4, CalmReports
<1> QED BY <1>2, <1>3

LEMMA InnermostFacts ==
  ASSUME StreamShape
  PROVE  /\ Calls \in Nat /\ Depth \in Nat /\ Calls < Depth /\ Innermost \in Seq(WalkNames)
         /\ InWalk => Innermost = Top.todo /\ Depth = Calls + 1 /\ (Calls > 0 => Calls \in 1..Calls)
         /\ SameBelow(Depth - 1) => \A k \in 1..Calls : frames'[k].todo = frames[k].todo
         /\ ~InWalk /\ SameBelow(Depth - 1) => frames'[Calls + 1].todo = Innermost
<1>1. /\ Calls \in Nat /\ Depth \in Nat /\ Calls < Depth /\ (InWalk => Depth = Calls + 1)
      /\ (~InWalk => Calls + 1 < Depth)
  BY ShapeTop
<1>2. InWalk => Innermost = Top.todo
  BY <1>1 DEF Innermost, Top
<1>3. Innermost \in Seq(WalkNames)
  <2>1. Calls + 1 \in 1..Depth
    BY <1>1
  <2>2. StepsAt(Calls + 1) = WalkNames
    BY <1>1 DEF StepsAt
  <2> QED BY <2>1, <2>2 DEF StreamShape, Lines, Innermost
<1>4. (\A k \in 1..Calls : k \in 1..Depth - 1) /\ (~InWalk => Calls + 1 \in 1..Depth - 1)
  BY <1>1
<1> QED BY <1>1, <1>2, <1>3, <1>4 DEF SameBelow, Innermost

LEMMA ReadHeard ==
  ASSUME StreamShape, Heard, Top.todo # <<>>, Step \notin Silent, UNCHANGED <<path, open>>,
         Len(walk') = Calls, \A k \in 1..Calls : walk'[k].emit = walk[k].emit, SameBelow(Depth - 1),
         NEW t, frames'[Depth].todo = t,
         InWalk => t = Rest \/ (Step # "early" /\ \E S \in Seq(Calm) : t = S \o Rest)
  PROVE  Heard'
<1>1. CASE InWalk
  <2>1. /\ Innermost = Top.todo /\ Depth = Calls + 1
        /\ \A k \in 1..Calls : frames'[k].todo = frames[k].todo
    BY <1>1, InnermostFacts
  <2>2. Head(Innermost) = Step /\ Tail(Innermost) = Rest /\ Innermost # <<>>
    BY <2>1 DEF Step, Rest
  <2>3. /\ Waiting(Innermost) => Step = "early" /\ Waiting(Rest)
        /\ \A m \in Nat : Reporting(Innermost, m) =>
             /\ m = 0 /\ Reporting(Rest, 0) /\ \A S \in Seq(Calm) : Reporting(S \o Rest, 0)
    BY <2>2, ReadsWhileCalm
  <2>4. (Waiting(Innermost) => Waiting(t))
        /\ \A m \in Nat : Reporting(Innermost, m) => Reporting(t, m)
    BY <1>1, <2>3
  <2> QED BY <2>1, <2>4, StillHeard
<1>2. CASE ~InWalk
  <2>1. /\ frames'[Calls + 1].todo = Innermost
        /\ \A k \in 1..Calls : frames'[k].todo = frames[k].todo
    BY <1>2, InnermostFacts
  <2> QED BY <2>1, StillHeard
<1> QED BY <1>1, <1>2

LEMMA PassOverHeard ==
  ASSUME StreamShape, Heard, nested, PassesOver
  PROVE  nested' /\ Heard'
<1>1. /\ Top.todo # <<>> /\ Step \notin Silent /\ UNCHANGED <<path, open, nested>>
      /\ Len(walk') = Calls /\ (\A k \in 1..Calls : walk'[k].emit = walk[k].emit)
      /\ SameBelow(Depth - 1) /\ frames'[Depth].todo = Rest
  BY DEF PassesOver, Busy, WentOn, SameWalk, Untouched
<1> QED BY <1>1, ReadHeard

LEMMA ReadsCellHeard ==
  ASSUME StreamShape, Heard, nested, NEW i, NEW S, ReadsCell(i, S)
  PROVE  nested' /\ Heard'
<1>1. /\ Top.todo # <<>> /\ Step \notin Silent /\ UNCHANGED <<path, open, nested, walk>>
      /\ SameBelow(Depth - 1) /\ frames'[Depth].todo = S \o Rest
      /\ (InWalk => Step # "early" /\ S \in Seq(Calm))
  BY DEF ReadsCell, Busy, WentOn, Untouched
<1>2. Len(walk') = Calls /\ (\A k \in 1..Calls : walk'[k].emit = walk[k].emit)
  BY <1>1 DEF Calls
<1> QED BY <1>1, <1>2, ReadHeard

LEMMA ParseBeginsHeard ==
  ASSUME StreamShape, Heard, nested, NEW i, ParseBegins(i)
  PROVE  nested' /\ Heard'
<1>1. /\ Top.todo # <<>> /\ Step \notin Silent /\ UNCHANGED <<path, open, nested, walk>>
      /\ SameBelow(Depth - 1) /\ frames'[Depth].todo = Rest
  BY DEF ParseBegins, Begins, Busy, visitorVars
<1>2. Len(walk') = Calls /\ (\A k \in 1..Calls : walk'[k].emit = walk[k].emit)
  BY <1>1 DEF Calls
<1> QED BY <1>1, <1>2, ReadHeard

LEMMA ParseEndsHeard ==
  ASSUME StreamShape, Heard, nested, ParseEnds
  PROVE  nested' /\ Heard'
<1>1. /\ ~InWalk /\ UNCHANGED <<path, open, nested, walk>> /\ SameBelow(Depth - 2)
      /\ frames'[Depth - 1].todo = frames[Depth - 1].todo \/ Depth - 1 > Calls + 1
  BY DEF ParseEnds
<1>2. Calls \in Nat /\ Depth \in Nat /\ Calls + 1 < Depth
  BY <1>1, ShapeTop
<1>3. \A k \in 1..Calls + 1 : frames'[k].todo = frames[k].todo
  <2>1. \A k \in 1..Calls + 1 : k \in 1..Depth - 2 \/ (k = Depth - 1 /\ ~(Depth - 1 > Calls + 1))
    BY <1>2
  <2> QED BY <1>1, <2>1 DEF SameBelow
<1>4. Calls + 1 \in 1..Calls + 1 /\ \A k \in 1..Calls : k \in 1..Calls + 1
  BY <1>2
<1>5. Len(walk') = Calls /\ (\A k \in 1..Calls : walk'[k].emit = walk[k].emit)
  BY <1>1 DEF Calls
<1>6. /\ frames'[Calls + 1].todo = Innermost
      /\ \A k \in 1..Calls : walk'[k].emit = walk[k].emit /\ frames'[k].todo = frames[k].todo
  BY <1>3, <1>4, <1>5 DEF Innermost
<1> HIDE DEF Innermost
<1>7. Heard'
  BY <1>1, <1>5, <1>6, StillHeard
<1> QED BY <1>1, <1>7

LEMMA WalkBeginsHeard ==
  ASSUME StreamShape, Heard, nested, NEW i \in NextItems, WalkBegins(i)
  PROVE  nested' /\ Heard'
<1>1. /\ Busy /\ Top.todo # <<>> /\ Step \notin Silent /\ UNCHANGED <<open, nested>> /\ path' = Down
      /\ SameBelow(Depth - 1) /\ frames'[Depth].todo = Rest /\ InWalk /\ Step \in Segments
      /\ frames'[Depth + 1].todo = WalkSteps(i) /\ Len(walk') = Calls + 1
      /\ (\A k \in 1..Calls : walk'[k].emit = walk[k].emit)
      /\ walk'[Calls + 1].emit = Emits /\ i.type # "ref"
  BY DEF WalkBegins, Begins, Busy, visitorVars, SameWalk
<1>2. /\ Innermost = Top.todo /\ Depth = Calls + 1 /\ Calls \in Nat
      /\ \A k \in 1..Calls : frames'[k].todo = frames[k].todo
  BY <1>1, InnermostFacts
<1>3. /\ Waiting(Innermost) => FALSE
      /\ \A m \in Nat : Reporting(Innermost, m) => m = 0 /\ Rest \in Seq(Calm)
  <2>1. Head(Innermost) = Step /\ Tail(Innermost) = Rest /\ Innermost # <<>> /\ Step # "early"
    BY <1>1, <1>2 DEF Step, Rest, Segments, Quiet
  <2>2. ASSUME NEW m \in Nat, Reporting(Innermost, m) PROVE m = 0 /\ Rest \in Seq(Calm)
    <3>1. m = 0 /\ Reporting(Rest, 0)
      BY <1>1, <2>1, <2>2, ReadsWhileCalm
    <3> QED BY <3>1, CalmReports
  <2> QED BY <1>1, <2>1, <2>2, ReadsWhileCalm
<1>4. PICK e \in Nat, m \in Nat : HeardAs(e, m)
  BY DEF Heard
<1>5. /\ m = 0 /\ Rest \in Seq(Calm) /\ Len(open) = e /\ e <= Calls /\ (Calls > 0 => e > 0)
      /\ (\A k \in 1..Calls : walk[k].emit <=> k <= e) /\ Len(path) = PathTo(e)
  <2>1. /\ e <= Calls /\ (Calls > 0 => e > 0) /\ (\A k \in 1..Calls : walk[k].emit <=> k <= e)
        /\ Len(path) = PathTo(e) + m /\ Reporting(Innermost, m) /\ Len(open) = e + m
    BY <1>3, <1>4 DEF HeardAs, HeardOf
  <2>2. m = 0 /\ Rest \in Seq(Calm)
    BY <1>3, <2>1
  <2>3. PathTo(e) \in Int
    BY DEF PathTo
  <2> QED BY <2>1, <2>2, <2>3
<1>6. i \in Items /\ Waiting(WalkSteps(i))
  <2>1. Head(wtodo) \in Roles /\ i \in NewItems(Head(wtodo))
    BY <1>1, NextItemFacts DEF StreamShape, StreamTypes
  <2> QED BY <2>1, NewItemFacts, WalkStepsWait DEF StreamShape, StreamTypes
<1>7. Calls' = Calls + 1 /\ Innermost' = WalkSteps(i)
  BY <1>1, <1>2 DEF Calls, Innermost
<1>8. \A k \in 1..Calls' : frames'[k].todo \in Seq(Calm)
  <2>1. \A k \in 1..Calls + 1 : k \in 1..Calls \/ k = Depth
    BY <1>2
  <2> QED BY <1>1, <1>2, <1>5, <1>7, <2>1 DEF Heard
<1>9. Emits \in BOOLEAN /\ (Calls = 0 => Emits) /\ (Emits /\ Calls > 0 => e = Calls)
  <2>1. Emits \in BOOLEAN /\ (Calls = 0 => Emits) /\ (Emits /\ Calls > 0 => Here.emit)
    BY EmitsFacts
  <2>2. Calls > 0 => Calls \in 1..Calls /\ (Here.emit <=> Calls <= e)
    BY <1>2, <1>5 DEF Here
  <2> QED BY <1>2, <1>5, <2>1, <2>2
<1>10. Nests'
  <2>1. Down = path \/ (Len(Down) = Len(path) + 1 /\ \A k \in 1..Len(path) : Down[k] = path[k])
    BY <1>1, DownFacts
  <2>2. ASSUME NEW k \in 1..Len(open)
        PROVE  Len(open[k]) = k - 1 /\ \A j \in 1..k - 1 : open[k][j] = Down[j]
    <3>1. Len(open[k]) = k - 1 /\ \A j \in 1..k - 1 : open[k][j] = path[j]
      BY DEF Heard, Nests
    <3>2. \A j \in 1..k - 1 : j \in 1..Len(path)
      BY <1>5 DEF PathTo
    <3> QED BY <2>1, <3>1, <3>2
  <2> QED BY <1>1, <2>2 DEF Nests
<1>11. CASE Emits
  <2>1. PICK n \in Nat : n = Calls + 1
    BY <1>2
  <2>2. HeardAs(n, 0)'
    <3>1. Len(path') = PathTo(n) + 0
      BY <1>1, <1>2, <1>5, <1>9, <1>11, <2>1, DownFacts DEF PathTo
    <3>2. ASSUME NEW k \in 1..n PROVE walk'[k].emit <=> k <= n
      <4>1. CASE k = n
        <5>1. walk'[Calls + 1].emit
          BY <1>1, <1>11
        <5>2. k = Calls + 1 /\ k <= n
          BY <2>1, <4>1
        <5> QED BY <5>1, <5>2
      <4>2. CASE k # n
        <5>1. k \in 1..Calls /\ k <= e /\ k <= n
          BY <1>2, <1>5, <1>9, <1>11, <2>1, <4>2
        <5> QED BY <1>1, <1>5, <5>1
      <4> QED BY <4>1, <4>2
    <3>3. Len(open) = n - 1
      BY <1>2, <1>5, <1>9, <1>11, <2>1
    <3>4. HeardOf(n, 0)'
      BY <1>1, <1>2, <1>6, <1>7, <2>1, <3>3 DEF HeardOf
    <3> QED BY <1>7, <2>1, <3>1, <3>2, <3>4 DEF HeardAs
  <2> QED BY <1>1, <1>8, <1>10, <2>2 DEF Heard
<1>12. CASE ~Emits
  <2>1. HeardAs(e, 0)'
    <3>1. Len(path') = PathTo(e) /\ Calls > 0
      BY <1>1, <1>2, <1>5, <1>9, <1>12, DownFacts
    <3>2. \A k \in 1..Calls + 1 : walk'[k].emit <=> k <= e
      <4>1. \A k \in 1..Calls + 1 : k \in 1..Calls \/ (k = Calls + 1 /\ ~(k <= e))
        BY <1>2, <1>5
      <4> QED BY <1>1, <1>5, <1>12, <4>1
    <3>3. HeardOf(e, 0)'
      <4>1. e # Calls + 1
        BY <1>2, <1>5
      <4> QED BY <1>1, <1>2, <1>5, <1>6, <1>7, <4>1 DEF HeardOf
    <3> QED BY <1>2, <1>5, <1>7, <3>1, <3>2, <3>3 DEF HeardAs
  <2> QED BY <1>1, <1>8, <1>10, <2>1 DEF Heard
<1> QED BY <1>1, <1>9, <1>11, <1>12
LEMMA OpenGrows ==
  ASSUME StreamTypes, Nests, NEW p \in Paths, open' = Append(open, p), Len(p) = Len(open),
         \A j \in 1..Len(open) : j <= Len(path) => p[j] = path[j],
         Len(open) <= Len(path) + 1, path' = p
  PROVE  Nests' /\ Len(open') = Len(open) + 1
<1>1. /\ Len(open') = Len(open) + 1 /\ open'[Len(open) + 1] = p /\ Len(open) \in Nat
      /\ \A k \in 1..Len(open) : open'[k] = open[k]
  BY AppendProperties DEF StreamTypes
<1>2. ASSUME NEW k \in 1..Len(open) + 1
      PROVE  Len(open'[k]) = k - 1 /\ \A j \in 1..k - 1 : open'[k][j] = p[j]
  <2>1. CASE k = Len(open) + 1
    BY <1>1, <2>1
  <2>2. CASE k # Len(open) + 1
    <3>1. k \in 1..Len(open)
      BY <1>1, <2>2
    <3>2. Len(open[k]) = k - 1 /\ \A j \in 1..k - 1 : open[k][j] = path[j]
      BY <3>1 DEF Nests
    <3>3. \A j \in 1..k - 1 : j \in 1..Len(open) /\ j <= Len(path)
      <4>1. Len(path) \in Nat
        BY DEF StreamTypes, Paths
      <4> QED BY <1>1, <3>1, <4>1
    <3> QED BY <1>1, <3>1, <3>2, <3>3
  <2> QED BY <2>1, <2>2
<1> QED BY <1>1, <1>2 DEF Nests

LEMMA OpenShrinks ==
  ASSUME StreamTypes, Nests, nested, HearEnd, Len(open) > 0, Len(path) = Len(open) - 1,
         \A j \in 1..Len(open) - 2 : path'[j] = path[j]
  PROVE  nested' /\ Nests' /\ Len(open') = Len(open) - 1
<1>1. /\ Len(open) \in Nat /\ Len(open') = Len(open) - 1
      /\ (\A k \in 1..Len(open) - 1 : open'[k] = open[k])
      /\ nested' = (nested /\ open[Len(open)] = path)
  BY HearEndFacts
<1>2. open[Len(open)] = path
  <2> DEFINE n == Len(open)
             T == (Names \cup {"attribute"}) \X Nat
  <2>1. n \in 1..Len(open) /\ open[n] \in Seq(T) /\ path \in Seq(T)
    <3>1. n \in 1..Len(open)
      BY <1>1
    <3> QED BY <3>1, ElementOfSeq DEF StreamTypes, Paths
  <2>2. Len(open[n]) = n - 1 /\ \A j \in 1..n - 1 : open[n][j] = path[j]
    BY <2>1 DEF Nests
  <2> HIDE DEF n, T
  <2>3. Len(open[n]) = Len(path) /\ \A j \in 1..Len(path) : open[n][j] = path[j]
    BY <2>2 DEF n
  <2>4. open[n] = path
    BY <2>1, <2>3, SeqEqual
  <2> QED BY <2>4 DEF n
<1>3. ASSUME NEW k \in 1..Len(open) - 1
      PROVE  Len(open'[k]) = k - 1 /\ \A j \in 1..k - 1 : open'[k][j] = path'[j]
  <2>1. k \in 1..Len(open) /\ \A j \in 1..k - 1 : j \in 1..Len(open) - 2
    BY <1>1
  <2>2. Len(open[k]) = k - 1 /\ \A j \in 1..k - 1 : open[k][j] = path[j]
    BY <2>1 DEF Nests
  <2> QED BY <1>1, <2>1, <2>2
<1> QED BY <1>1, <1>2, <1>3 DEF Nests

LEMMA StartsHeard ==
  ASSUME StreamShape, Heard, nested, Starts
  PROVE  nested' /\ Heard'
<1>1. /\ InWalk /\ Calls > 0 /\ Top.todo # <<>> /\ Step = "start"
      /\ SameBelow(Depth - 1) /\ frames'[Depth].todo = Rest /\ Len(walk') = Calls
      /\ (\A k \in 1..Calls : walk'[k].emit = walk[k].emit) /\ UNCHANGED <<path, nested>>
      /\ (~Here.emit /\ open' = open) \/ (Here.emit /\ open' = Append(open, path))
  BY DEF Starts, HearStart
<1>2. /\ Innermost = Top.todo /\ Depth = Calls + 1 /\ Calls \in Nat /\ Calls \in 1..Calls
      /\ \A k \in 1..Calls : frames'[k].todo = frames[k].todo
  BY <1>1, InnermostFacts
<1>3. Rest \in Seq(Calm) /\ ~\E m \in Nat : Reporting(Innermost, m)
  <2>1. Innermost \in Seq(WalkNames) /\ Innermost # <<>> /\ Head(Innermost) = "start"
        /\ Tail(Innermost) = Rest
    BY <1>1, <1>2, InnermostFacts DEF Step, Rest
  <2>2. ~\E m \in Nat : Reporting(Innermost, m)
    <3> SUFFICES ASSUME Innermost \in Seq(WalkNames \ {"start"}) PROVE FALSE
      BY DEF Reporting
    <3>1. Head(Innermost) \in WalkNames \ {"start"}
      BY <2>1, HeadTailProperties
    <3> QED BY <2>1, <3>1
  <2>3. Waiting(Innermost)
    BY <2>2 DEF Heard, HeardAs, HeardOf
  <2> QED BY <2>1, <2>2, <2>3, WaitingFacts
<1>4. PICK e \in Nat, m \in Nat : HeardAs(e, m)
  BY DEF Heard
<1>5. /\ m = 0 /\ Len(open) = (IF e = Calls THEN e - 1 ELSE e) /\ e <= Calls /\ e > 0
      /\ (\A k \in 1..Calls : walk[k].emit <=> k <= e) /\ Len(path) = e - 1
  BY <1>1, <1>3, <1>4 DEF HeardAs, HeardOf, PathTo
<1>6. Here.emit <=> e = Calls
  BY <1>2, <1>5 DEF Here
<1>7. Calls' = Calls /\ Innermost' = Rest
  BY <1>1, <1>2 DEF Calls, Innermost
<1>8. Nests' /\ Len(open') = e
  <2>1. CASE Here.emit
    <3>1. Len(path) = Len(open) /\ Len(open) <= Len(path) + 1 /\ path \in Paths /\ StreamTypes
          /\ Len(open) = e - 1
      BY <1>5, <1>6, <2>1 DEF StreamShape, StreamTypes
    <3>2. Nests' /\ Len(open') = Len(open) + 1
      BY <1>1, <2>1, <3>1, OpenGrows DEF Heard
    <3> QED BY <3>1, <3>2
  <2>2. CASE ~Here.emit
    <3>1. open' = open /\ path' = path
      BY <1>1, <2>2
    <3> QED BY <1>5, <1>6, <2>2, <3>1 DEF Heard, Nests
  <2> QED BY <2>1, <2>2
<1>9. HeardAs(e, 0)'
  <2>1. Reporting(Rest, 0)
    BY <1>3, CalmReports
  <2>2. HeardOf(e, 0)'
    BY <1>7, <1>8, <2>1 DEF HeardOf
  <2>3. Len(path') = PathTo(e) + 0
    BY <1>1, <1>5 DEF PathTo
  <2> QED BY <1>1, <1>2, <1>5, <1>7, <2>2, <2>3 DEF HeardAs
<1>10. \A k \in 1..Calls' : frames'[k].todo \in Seq(Calm)
  BY <1>2, <1>7 DEF Heard
<1> QED BY <1>1, <1>8, <1>9, <1>10 DEF Heard

(* The path after a call of the walk has returned.                          *)
LEMMA ReturnHeard ==
  ASSUME StreamShape, Heard, NEW t \in Seq(Calm), WalkPops(t), NEW e \in Nat, HeardAs(e, 0),
         Nests', Len(open') = IF Here.emit THEN e - 1 ELSE e
  PROVE  Heard'
<1>1. /\ InWalk /\ Calls > 0 /\ SameBelow(Depth - 2) /\ frames'[Depth - 1].todo = t
      /\ Len(walk') = Calls - 1 /\ (\A k \in 1..Calls - 1 : walk'[k] = walk[k])
      /\ path' = Shorter
  BY DEF WalkPops
<1>2. Depth = Calls + 1 /\ Calls \in Nat /\ Calls \in 1..Calls
  BY <1>1, InnermostFacts
<1>3. /\ e <= Calls /\ e > 0 /\ Len(path) = e - 1
      /\ \A k \in 1..Calls : walk[k].emit <=> k <= e
  BY <1>1 DEF HeardAs, PathTo
<1>4. Here.emit <=> e = Calls
  BY <1>2, <1>3 DEF Here
<1>5. Calls' = Calls - 1 /\ Innermost' = t
  BY <1>1, <1>2 DEF Calls, Innermost
<1>6. PICK n \in Nat : n = IF Here.emit THEN e - 1 ELSE e
  BY <1>3
<1>7. HeardAs(n, 0)'
  <2>1. Len(path') = PathTo(n) + 0
    <3>1. /\ ~(Here.emit /\ Calls > 1) => Shorter = path
          /\ Here.emit /\ Calls > 1 /\ Len(path) > 0 => Len(Shorter) = Len(path) - 1
      BY ShorterFacts DEF StreamShape
    <3>2. CASE Here.emit
      BY <1>1, <1>2, <1>3, <1>4, <1>6, <3>1, <3>2 DEF PathTo
    <3>3. CASE ~Here.emit
      BY <1>1, <1>2, <1>3, <1>4, <1>6, <3>1, <3>3 DEF PathTo
    <3> QED BY <3>2, <3>3
  <2>2. ASSUME NEW k \in 1..Calls - 1 PROVE walk'[k].emit <=> k <= n
    <3>1. k \in 1..Calls /\ (k <= n <=> k <= e)
      BY <1>2, <1>3, <1>4, <1>6
    <3> QED BY <1>1, <1>3, <3>1
  <2>3. n <= Calls - 1 /\ (Calls - 1 > 0 => n > 0)
    BY <1>1, <1>2, <1>3, <1>4, <1>6
  <2>4. HeardOf(n, 0)'
    <3>1. Reporting(t, 0)
      BY CalmReports
    <3> QED BY <1>5, <1>6, <3>1 DEF HeardOf
  <2> QED BY <1>5, <2>1, <2>2, <2>3, <2>4 DEF HeardAs
<1>8. \A k \in 1..Calls' : frames'[k].todo \in Seq(Calm)
  <2>1. \A k \in 1..Calls - 1 : k \in 1..Depth - 2 /\ k \in 1..Calls
    BY <1>2
  <2> QED BY <1>1, <1>5, <2>1 DEF Heard, SameBelow
<1> QED BY <1>7, <1>8 DEF Heard

LEMMA ShorterAgrees ==
  ASSUME StreamShape, path' = Shorter, NEW e \in Nat, e > 0, Len(path) = e - 1
  PROVE  \A j \in 1..e - 2 : path'[j] = path[j]
<1>1. /\ ~(Here.emit /\ Calls > 1) => Shorter = path
      /\ Here.emit /\ Calls > 1 /\ Len(path) > 0 => \A k \in 1..Len(path) - 1 : Shorter[k] = path[k]
  BY ShorterFacts DEF StreamShape
<1>2. (\A j \in 1..e - 2 : Len(path) > 0) /\ Len(path) - 1 = e - 2
  OBVIOUS
<1> QED BY <1>1, <1>2

LEMMA StopsHeard ==
  ASSUME StreamShape, Heard, nested, StopsHere
  PROVE  nested' /\ Heard'
<1> DEFINE t == AfterStop(frames[Depth - 1].todo)
<1>1. /\ WalkPops(t) /\ Top.todo # <<>> /\ Step = "start" /\ Here.emit /\ UNCHANGED <<open, nested>>
      /\ InWalk /\ Calls > 0 /\ path' = Shorter
  BY DEF StopsHere, WalkPops
<1>2. /\ Innermost = Top.todo /\ Depth = Calls + 1 /\ Calls \in Nat /\ Calls \in 1..Calls
  BY <1>1, InnermostFacts
<1>3. ~\E m \in Nat : Reporting(Innermost, m)
  <2> SUFFICES ASSUME Innermost \in Seq(WalkNames \ {"start"}) PROVE FALSE
    BY DEF Reporting
  <2>1. Innermost # <<>> /\ Head(Innermost) = "start"
    BY <1>1, <1>2 DEF Step
  <2>2. Head(Innermost) \in WalkNames \ {"start"}
    BY <2>1, HeadTailProperties
  <2> QED BY <2>1, <2>2
<1>4. PICK e \in Nat, m \in Nat : HeardAs(e, m)
  BY DEF Heard
<1>5. /\ m = 0 /\ Len(open) = (IF e = Calls THEN e - 1 ELSE e) /\ e <= Calls /\ e > 0
      /\ (\A k \in 1..Calls : walk[k].emit <=> k <= e) /\ Len(path) = e - 1
  BY <1>1, <1>3, <1>4 DEF HeardAs, HeardOf, PathTo
<1>6. e = Calls
  BY <1>1, <1>2, <1>5 DEF Here
<1>7. t \in Seq(Calm)
  <2>1. frames[Depth - 1].todo \in Seq(WalkNames)
    <3>1. Depth - 1 \in 1..Depth /\ StepsAt(Depth - 1) = WalkNames
      BY <1>1, <1>2 DEF StepsAt
    <3> QED BY <3>1 DEF StreamShape, Lines
  <2> QED BY <2>1, AfterStopFacts
<1>8. Nests'
  <2>1. \A k \in 1..Len(open) : \A j \in 1..k - 1 : j \in 1..e - 2
    BY <1>5, <1>6
  <2>2. \A j \in 1..e - 2 : path'[j] = path[j]
    BY <1>1, <1>5, ShorterAgrees
  <2> QED BY <1>1, <2>1, <2>2 DEF Nests, Heard
<1>9. Heard'
  <2>1. Len(open') = IF Here.emit THEN e - 1 ELSE e
    BY <1>1, <1>5, <1>6
  <2> HIDE DEF t
  <2> QED BY <1>1, <1>4, <1>5, <1>7, <1>8, <2>1, ReturnHeard
<1> QED BY <1>1, <1>9

LEMMA EndsHeard ==
  ASSUME StreamShape, Heard, nested, Ends
  PROVE  nested' /\ Heard'
<1> DEFINE t == IF stopped THEN AfterStop(frames[Depth - 1].todo) ELSE frames[Depth - 1].todo
<1>1. /\ WalkPops(t) /\ Top.todo = <<>> /\ InWalk /\ Calls > 0 /\ path' = Shorter
      /\ (Here.emit /\ HearEnd) \/ (~Here.emit /\ UNCHANGED <<open, nested>>)
  BY DEF Ends, WalkPops
<1>2. /\ Innermost = Top.todo /\ Depth = Calls + 1 /\ Calls \in Nat /\ Calls \in 1..Calls
  BY <1>1, InnermostFacts
<1>3. ~Waiting(Innermost) /\ \A m \in Nat : Reporting(Innermost, m) => m = 0
  BY <1>1, <1>2, WaitingFacts, ReportingNone
<1>4. PICK e \in Nat, m \in Nat : HeardAs(e, m)
  BY DEF Heard
<1>5. /\ m = 0 /\ Len(open) = e /\ e <= Calls /\ e > 0
      /\ (\A k \in 1..Calls : walk[k].emit <=> k <= e) /\ Len(path) = e - 1
  BY <1>1, <1>3, <1>4 DEF HeardAs, HeardOf, PathTo
<1>6. t \in Seq(Calm)
  <2>1. frames[Depth - 1].todo \in Seq(Calm)
    BY <1>2 DEF Heard
  <2> QED BY <2>1, AfterStopFacts
<1>7. \A j \in 1..e - 2 : path'[j] = path[j]
  BY <1>1, <1>5, ShorterAgrees
<1>8. nested' /\ Nests' /\ Len(open') = IF Here.emit THEN e - 1 ELSE e
  <2>1. CASE Here.emit
    BY <1>1, <1>5, <1>7, <2>1, OpenShrinks DEF Heard, StreamShape
  <2>2. CASE ~Here.emit
    <3>1. e < Calls
      BY <1>2, <1>5, <2>2 DEF Here
    <3>2. Shorter = path
      BY <2>2, ShorterFacts DEF StreamShape
    <3> QED BY <1>1, <1>5, <2>2, <3>2 DEF Nests, Heard
  <2> QED BY <2>1, <2>2
<1>9. Heard'
  <2> HIDE DEF t
  <2> QED BY <1>1, <1>4, <1>5, <1>6, <1>8, ReturnHeard
<1> QED BY <1>8, <1>9

(* A value among the attributes: one more path open, or one less.           *)
LEMMA ReportHeard ==
  ASSUME StreamShape, Heard, NEW t, Reports(t), NEW e \in Nat, NEW m \in Nat, HeardAs(e, m),
         NEW n \in Nat, n > 0 => e = Calls, Reporting(t, n), Len(path') = PathTo(e) + n,
         Len(open') = e + n, Nests'
  PROVE  Heard'
<1>1. /\ InWalk /\ Calls > 0 /\ SameBelow(Depth - 1) /\ frames'[Depth].todo = t /\ walk' = walk
  BY DEF Reports, WentOn
<1>2. /\ Calls \in Nat /\ Depth = Calls + 1 /\ Calls' = Calls
      /\ \A k \in 1..Calls : frames'[k].todo = frames[k].todo
  BY <1>1, InnermostFacts DEF Calls
<1>3. Innermost' = t
  BY <1>1, <1>2 DEF Innermost
<1>4. HeardAs(e, n)'
  <2>1. HeardOf(e, n)'
    BY <1>3 DEF HeardOf
  <2> QED BY <1>1, <1>2, <2>1 DEF HeardAs
<1>5. \A k \in 1..Calls' : frames'[k].todo \in Seq(Calm)
  BY <1>2 DEF Heard
<1> QED BY <1>4, <1>5 DEF Heard

LEMMA AtReportHeard ==
  ASSUME StreamShape, Heard, InWalk, Calls > 0, Top.todo # <<>>, Step \in {"report", "endreport"}
  PROVE  \E e \in Nat, m \in Nat :
           /\ HeardAs(e, m) /\ Reporting(Top.todo, m) /\ Len(open) = e + m
           /\ e <= Calls /\ e > 0 /\ (m > 0 => e = Calls) /\ Len(path) = (e - 1) + m
           /\ (Here.emit <=> e = Calls)
<1>1. /\ Innermost = Top.todo /\ Calls \in Nat /\ Calls \in 1..Calls /\ Head(Innermost) = Step
  BY InnermostFacts DEF Step
<1>2. ~Waiting(Innermost)
  BY <1>1, WaitingFacts
<1>3. PICK e \in Nat, m \in Nat : HeardAs(e, m)
  BY DEF Heard
<1>4. /\ Reporting(Top.todo, m) /\ Len(open) = e + m /\ e <= Calls /\ e > 0
      /\ (m > 0 => e = Calls) /\ Len(path) = (e - 1) + m
      /\ \A k \in 1..Calls : walk[k].emit <=> k <= e
  BY <1>1, <1>2, <1>3 DEF HeardAs, HeardOf, PathTo
<1>5. Here.emit <=> e = Calls
  BY <1>1, <1>4 DEF Here
<1> QED BY <1>3, <1>4, <1>5

LEMMA OpensHeard ==
  ASSUME StreamShape, Heard, nested, OpensReport
  PROVE  nested' /\ Heard'
<1>1. /\ Step = "report" /\ Here.kids /\ nested' = nested
      /\ Reports(<<"endreport">> \o Rest) \/ Reports(<<"report", "endreport">> \o Rest)
      /\ path' = Append(path, <<"attribute", 0>>) /\ open' = Append(open, path')
  BY DEF OpensReport
<1>2. InWalk /\ Calls > 0 /\ Top.todo # <<>>
  BY <1>1 DEF Reports
<1>3. PICK e \in Nat, m \in Nat :
        /\ HeardAs(e, m) /\ Reporting(Top.todo, m) /\ Len(open) = e + m
        /\ e <= Calls /\ e > 0 /\ (m > 0 => e = Calls) /\ Len(path) = (e - 1) + m
        /\ (Here.emit <=> e = Calls)
  BY <1>1, <1>2, AtReportHeard
<1>4. e = Calls
  <2>1. Calls \in 1..Calls
    BY <1>2, InnermostFacts
  <2>2. Here.emit
    BY <1>1, <2>1 DEF StreamShape, Answered, Here
  <2> QED BY <1>3, <2>2
<1>5. Reporting(<<"endreport">> \o Rest, m + 1) /\ Reporting(<<"report", "endreport">> \o Rest, m + 1)
  BY <1>1, <1>2, <1>3, ReportingGoesOn DEF Step, Rest
<1>6. path' \in Paths /\ Len(path') = Len(path) + 1 /\ \A k \in 1..Len(path) : path'[k] = path[k]
  <2> DEFINE s == "attribute"
             n == 0
             p == path
  <2>1. s \in Names \cup {"attribute"} /\ n \in Nat /\ p \in Paths /\ path' = Append(p, <<s, n>>)
    BY <1>1 DEF StreamShape, StreamTypes
  <2> HIDE DEF s, n, p
  <2>2. path' \in Paths /\ Len(path') = Len(p) + 1 /\ \A k \in 1..Len(p) : path'[k] = p[k]
    BY <2>1, PathAppend
  <2> QED BY <2>2 DEF p
<1>7. Nests' /\ Len(open') = Len(open) + 1
  <2>1. PICK p \in Paths : p = path'
    BY <1>6
  <2>2. open' = Append(open, p) /\ path' = p
    BY <1>1, <2>1
  <2>3. Len(path) \in Nat /\ Len(open) \in Nat
    BY DEF StreamShape, StreamTypes, Paths
  <2>4. Len(p) = Len(open) /\ Len(open) <= Len(path) + 1
    BY <1>3, <1>6, <2>2, <2>3
  <2>5. \A j \in 1..Len(open) : j <= Len(path) => p[j] = path[j]
    BY <1>6, <2>2, <2>3
  <2> QED BY <2>2, <2>4, <2>5, OpenGrows DEF Heard, StreamShape
<1>8. Len(path') = PathTo(e) + (m + 1) /\ Len(open') = e + (m + 1) /\ m + 1 \in Nat
  BY <1>3, <1>6, <1>7 DEF PathTo
<1>9. Heard'
  <2> DEFINE n == m + 1
  <2>1. /\ n \in Nat /\ Len(path') = PathTo(e) + n /\ Len(open') = e + n
        /\ Reporting(<<"endreport">> \o Rest, n) /\ Reporting(<<"report", "endreport">> \o Rest, n)
    BY <1>5, <1>8
  <2> HIDE DEF n
  <2> QED BY <1>1, <1>3, <1>4, <1>7, <2>1, ReportHeard
<1> QED BY <1>1, <1>9

LEMMA LeavesHeard ==
  ASSUME StreamShape, Heard, nested, LeavesReport
  PROVE  nested' /\ Heard'
<1>1. Reports(Rest) /\ Step \in {"report", "endreport"} /\ InWalk /\ Calls > 0 /\ Top.todo # <<>>
  BY DEF LeavesReport, Reports
<1>2. PICK e \in Nat, m \in Nat :
        /\ HeardAs(e, m) /\ Reporting(Top.todo, m) /\ Len(open) = e + m
        /\ e <= Calls /\ e > 0 /\ (m > 0 => e = Calls) /\ Len(path) = (e - 1) + m
        /\ (Here.emit <=> e = Calls)
  BY <1>1, AtReportHeard
<1>3. CASE Step = "report"
  <2>1. UNCHANGED <<path, open, nested>>
    BY <1>3 DEF LeavesReport
  <2>2. Reporting(Rest, m)
    BY <1>1, <1>2, <1>3, ReportingGoesOn DEF Step, Rest
  <2>3. Nests' /\ Len(path') = PathTo(e) + m /\ Len(open') = e + m
    BY <1>2, <2>1 DEF Nests, Heard, PathTo
  <2>4. Heard'
    BY <1>1, <1>2, <2>2, <2>3, ReportHeard
  <2> QED BY <2>1, <2>4
<1>4. CASE Step = "endreport"
  <2>1. HearEnd /\ path' = SubSeq(path, 1, Len(path) - 1)
    BY <1>4 DEF LeavesReport
  <2>2. m > 0 /\ Reporting(Rest, m - 1)
    BY <1>1, <1>2, <1>4, ReportingEnds DEF Step, Rest
  <2>3. /\ Len(path) > 0 /\ path \in Paths /\ Len(open) > 0 /\ Len(path) = Len(open) - 1
        /\ Len(path) - 1 = Len(open) - 2
    BY <1>2, <2>2 DEF StreamShape, StreamTypes
  <2>4. Len(path') = Len(path) - 1 /\ \A k \in 1..Len(path) - 1 : path'[k] = path[k]
    BY <2>1, <2>3, PathDrops
  <2>5. nested' /\ Nests' /\ Len(open') = Len(open) - 1
    <3>1. \A j \in 1..Len(open) - 2 : path'[j] = path[j]
      BY <2>3, <2>4
    <3> QED BY <2>1, <2>3, <3>1, OpenShrinks DEF Heard, StreamShape
  <2>6. PICK n \in Nat : n = m - 1
    BY <2>2
  <2>7. Len(path') = PathTo(e) + n /\ Len(open') = e + n /\ e = Calls /\ Reporting(Rest, n)
    BY <1>2, <2>2, <2>4, <2>5, <2>6 DEF PathTo
  <2>8. Heard'
    BY <1>1, <1>2, <2>5, <2>7, ReportHeard
  <2> QED BY <2>5, <2>8
<1> QED BY <1>1, <1>3, <1>4

HeardInv == nested /\ (Going => Heard)

LEMMA HeardStep ==
  ASSUME StreamShape, HeardInv, Effect
  PROVE  HeardInv'
<1>1. CASE PassesOver
  BY <1>1, PassOverHeard DEF HeardInv, Going, PassesOver, Busy
<1>2. CASE \E i \in NextItems : (\E S : ReadsCell(i, S)) \/ WalkBegins(i) \/ ParseBegins(i)
  <2>1. PICK i \in NextItems : (\E S : ReadsCell(i, S)) \/ WalkBegins(i) \/ ParseBegins(i)
    BY <1>2
  <2>2. Heard
    BY <2>1 DEF HeardInv, Going, ReadsCell, WalkBegins, ParseBegins, Begins, Busy
  <2> QED BY <2>1, <2>2, ReadsCellHeard, WalkBeginsHeard, ParseBeginsHeard DEF HeardInv
<1>3. CASE Starts \/ StopsHere \/ Ends
  <2>1. Heard
    BY <1>3 DEF HeardInv, Going, Starts, StopsHere, Ends, WalkPops
  <2> QED BY <1>3, <2>1, StartsHeard, StopsHeard, EndsHeard DEF HeardInv
<1>4. CASE ParseEnds
  BY <1>4, ParseEndsHeard DEF HeardInv, Going, ParseEnds
<1>5. CASE OpensReport \/ LeavesReport
  <2>1. Heard
    BY <1>5 DEF HeardInv, Going, OpensReport, LeavesReport, Reports
  <2> QED BY <1>5, <2>1, OpensHeard, LeavesHeard DEF HeardInv
<1>6. CASE GivesUp
  BY <1>6 DEF GivesUp, HeardInv, Going, visitorVars
<1>7. CASE Stays
  <2>1. UNCHANGED <<frames, walk, path, open, nested>> /\ (Going' => Going)
    BY <1>7 DEF Stays
  <2>2. Heard => Heard'
    <3> SUFFICES ASSUME Heard PROVE Heard'
      OBVIOUS
    <3>1. Calls' = Calls /\ Innermost' = Innermost
      BY <2>1 DEF Calls, Innermost
    <3>2. PICK e \in Nat, m \in Nat : HeardAs(e, m)
      BY DEF Heard
    <3>3. HeardAs(e, m)'
      BY <2>1, <3>1, <3>2 DEF HeardAs, HeardOf
    <3> QED BY <2>1, <3>1, <3>3 DEF Heard, Nests
  <2> QED BY <2>1, <2>2 DEF HeardInv
<1> QED BY <1>1, <1>2, <1>3, <1>4, <1>5, <1>6, <1>7 DEF Effect

LEMMA HeardAlways == StreamSpec => []HeardInv
<1>1. StreamInit => HeardInv
  <2> SUFFICES ASSUME StreamInit PROVE HeardInv
    OBVIOUS
  <2>1. StreamShape
    BY StreamBegins
  <2>2. walk = <<>> /\ path = <<>> /\ open = <<>> /\ nested
    BY DEF StreamInit
  <2>3. Calls = 0 /\ Len(open) = 0 /\ Len(path) = 0
    BY <2>2 DEF Calls
  <2>4. Reporting(Innermost, 0)
    <3>1. Innermost = <<"root">>
      BY <2>3 DEF Innermost, StreamInit
    <3> QED BY <3>1, CalmShort, CalmReports
  <2>5. HeardAs(0, 0)
    BY <2>3, <2>4 DEF HeardAs, HeardOf, PathTo
  <2>6. Nests
    BY <2>3 DEF Nests
  <2> QED BY <2>2, <2>3, <2>5, <2>6 DEF HeardInv, Heard
<1>2. StreamShape /\ HeardInv /\ [StreamNext]_streamVars => HeardInv'
  BY StreamStep, HeardStep
<1> QED BY <1>1, <1>2, ShapeHolds, PTL DEF StreamSpec

(* The visitor hears ends in the reverse order of the starts, each with the *)
(* path of its start, and nothing is left open when the walk is over, even  *)
(* if it stopped the walk in the middle.                                    *)
THEOREM EventsAreNested == StreamSpec => []EventsNested
<1>1. StreamShape /\ HeardInv => EventsNested
  <2> SUFFICES ASSUME StreamShape, HeardInv, status = "ok" PROVE open = <<>>
    BY DEF EventsNested, HeardInv
  <2>1. Depth = 1 /\ Top.todo = <<>>
    BY DEF StreamShape
  <2>2. Calls = 0
    BY <2>1, ShapeTop
  <2>3. PICK e \in Nat, m \in Nat : HeardAs(e, m)
    BY DEF HeardInv, Going, Heard
  <2>4. Len(open) = 0
    BY <2>2, <2>3 DEF HeardAs, HeardOf
  <2> QED BY <2>4, EmptySeq DEF StreamShape, StreamTypes
<1> QED BY <1>1, HeardAlways, ShapeHolds, PTL
-----------------------------------------------------------------------------
(* The reference table.  Every slot belongs to the object R numbered so; it *)
(* is Null while a call fills it.  One object may have a number and no slot *)
(* yet: the innermost call's, until the visitor hears of it.                *)
Walked == frames[Calls + 1]
Owed   == Waiting(Innermost) /\ Walked.op \in RTracked

InOrder ==
  /\ \A k \in 1..Depth : frames[k].ref # 0 =>
       frames[k].ref \in 1..Len(refs) /\ wtable[frames[k].ref] = frames[k].op
  /\ \A j, k \in 1..Depth : j < k /\ frames[k].ref # 0 => frames[j].ref < frames[k].ref

HasSlot ==
  \A k \in 1..Depth : frames[k].ref = 0 =>
    frames[k].op \notin RTracked \/ (k = Calls + 1 /\ Waiting(Innermost))

SlotsHold ==
  \A i \in 1..Len(refs) :
    /\ i \in Filling => refs[i] = "null"
    /\ i \notin Filling => \/ refs[i] = ValueOf(wtable[i])
                           \/ refs[i] = "null" /\ wtable[i] \notin SymbolKinds

Numbers ==
  /\ Len(wtable) = Len(refs) + (IF Owed THEN 1 ELSE 0)
  /\ Waiting(Innermost) =>
       Calls > 0 /\ Walked.ref = 0 /\ walk[Calls].id = IF Walked.op \in RTracked THEN Len(wtable) ELSE 0
  /\ Owed => InWalk /\ Head(Innermost) = "start" /\ wtable[Len(wtable)] = Walked.op

Named == (\A x \in DOMAIN told : x \in 1..Len(refs)) /\ target.id \in 0..Len(refs)

Slotted == InOrder /\ HasSlot /\ SlotsHold /\ Numbers /\ Named

(* What the visitor was told of an object is what the table of paths keeps. *)
PathsKept ==
  /\ \A x \in DOMAIN told : x \in DOMAIN refPaths /\ told[x] = refPaths[x]
  /\ SharedTargets

LEMMA TableFacts ==
  ASSUME StreamShape
  PROVE  /\ Len(refs) \in Nat /\ Len(wtable) \in Nat /\ Calls \in Nat /\ Depth \in Nat /\ Calls < Depth
         /\ refs \in Seq(Held) /\ wtable \in Seq(RTracked) /\ "null" \in Held
         /\ \A k \in 1..Depth : frames[k].ref \in Nat
BY StreamTop DEF StreamShape, StreamTypes, RTypeOK, Held

LEMMA HoldSame ==
  ASSUME SlotsHold, refs' = refs, Filling' = Filling, \A i \in 1..Len(refs) : wtable'[i] = wtable[i]
  PROVE  SlotsHold'
BY DEF SlotsHold

LEMMA HoldMore ==
  ASSUME StreamShape, SlotsHold, refs' = Append(refs, "null"), NEW n, n = Len(refs) + 1,
         Filling' = Filling \cup {n}, \A i \in 1..Len(refs) : wtable'[i] = wtable[i]
  PROVE  SlotsHold' /\ Len(refs') = n
<1>1. /\ Len(refs') = n /\ refs'[n] = "null" /\ Len(refs) \in Nat
      /\ \A i \in 1..Len(refs) : refs'[i] = refs[i]
  BY TableFacts, AppendProperties
<1>2. ASSUME NEW i \in 1..n
      PROVE  /\ i \in Filling' => refs'[i] = "null"
             /\ i \notin Filling' => \/ refs'[i] = ValueOf(wtable'[i])
                                     \/ refs'[i] = "null" /\ wtable'[i] \notin SymbolKinds
  <2>1. CASE i = n
    BY <1>1, <2>1
  <2>2. CASE i # n
    <3>1. i \in 1..Len(refs) /\ (i \in Filling' <=> i \in Filling)
      BY <1>1, <2>2
    <3> QED BY <1>1, <3>1 DEF SlotsHold
  <2> QED BY <2>1, <2>2
<1> QED BY <1>1, <1>2 DEF SlotsHold

(* The calls that stay keep their slots.                                    *)
KeepSlots(d) ==
  \A k \in 1..d : k \in 1..Depth /\ frames'[k].ref = frames[k].ref /\ frames'[k].op = frames[k].op

LEMMA SameCallKeeps ==
  ASSUME StreamShape, NEW d \in Nat, d <= Depth,
         \A k \in 1..d : frames'[k] = frames[k] \/ SameCall(frames'[k], frames[k])
  PROVE  KeepSlots(d)
<1>1. \A k \in 1..d : k \in 1..Depth
  BY TableFacts
<1> QED BY <1>1 DEF KeepSlots, SameCall

LEMMA OrderSame ==
  ASSUME StreamShape, InOrder, KeepSlots(Len(frames')), Len(refs') \in Nat, Len(refs) <= Len(refs'),
         \A i \in 1..Len(refs) : wtable'[i] = wtable[i]
  PROVE  InOrder'
<1>1. \A j \in 1..Len(refs) : j \in 1..Len(refs')
  BY TableFacts
<1>2. ASSUME NEW k \in 1..Len(frames'), frames'[k].ref # 0
      PROVE  frames'[k].ref \in 1..Len(refs') /\ wtable'[frames'[k].ref] = frames'[k].op
  <2>1. k \in 1..Depth /\ frames'[k].ref = frames[k].ref /\ frames'[k].op = frames[k].op
    BY DEF KeepSlots
  <2>2. frames[k].ref \in 1..Len(refs) /\ wtable[frames[k].ref] = frames[k].op
    BY <1>2, <2>1 DEF InOrder
  <2> QED BY <1>1, <2>1, <2>2
<1>3. \A j, k \in 1..Len(frames') : j < k /\ frames'[k].ref # 0 => frames'[j].ref < frames'[k].ref
  BY DEF InOrder, KeepSlots
<1> QED BY <1>2, <1>3 DEF InOrder, Depth

LEMMA OrderMore ==
  ASSUME StreamShape, InOrder, NEW d \in Nat \ {0}, Len(frames') = d, KeepSlots(d - 1),
         NEW r, frames'[d].ref = r, NEW n, n = Len(refs) + 1,
         (r = 0 /\ refs' = refs) \/ (r = n /\ Len(refs') = n /\ wtable'[n] = frames'[d].op),
         \A i \in 1..Len(refs) : wtable'[i] = wtable[i]
  PROVE  InOrder'
<1>1. Len(refs) \in Nat /\ \A j \in 1..Len(refs) : j \in 1..Len(refs')
  BY TableFacts
<1>2. ASSUME NEW k \in 1..d - 1
      PROVE  /\ frames'[k].ref # 0 => frames'[k].ref \in 1..Len(refs) /\ frames'[k].ref \in 1..Len(refs')
                                      /\ wtable'[frames'[k].ref] = frames'[k].op
             /\ frames'[k].ref \in 0..Len(refs)
  <2>1. k \in 1..Depth /\ frames'[k].ref = frames[k].ref /\ frames'[k].op = frames[k].op
    BY DEF KeepSlots
  <2>2. frames[k].ref # 0 => frames[k].ref \in 1..Len(refs) /\ wtable[frames[k].ref] = frames[k].op
    BY <2>1 DEF InOrder
  <2>3. frames[k].ref \in 0..Len(refs)
    BY <1>1, <2>2
  <2> QED BY <1>1, <2>1, <2>2, <2>3
<1>3. \A k : k \in 1..d <=> k \in 1..d - 1 \/ k = d
  OBVIOUS
<1>4. r # 0 => r = n /\ n \in 1..Len(refs') /\ wtable'[n] = frames'[d].op
  BY <1>1
<1>5. ASSUME NEW k \in 1..d, frames'[k].ref # 0
      PROVE  frames'[k].ref \in 1..Len(refs') /\ wtable'[frames'[k].ref] = frames'[k].op
  BY <1>2, <1>3, <1>4, <1>5
<1>6. ASSUME NEW j \in 1..d, NEW k \in 1..d, j < k, frames'[k].ref # 0
      PROVE  frames'[j].ref < frames'[k].ref
  <2>1. j \in 1..d - 1
    BY <1>6
  <2>2. CASE k \in 1..d - 1
    <3>1. /\ j \in 1..Depth /\ frames'[j].ref = frames[j].ref
          /\ k \in 1..Depth /\ frames'[k].ref = frames[k].ref
      BY <2>1, <2>2 DEF KeepSlots
    <3> QED BY <1>6, <3>1 DEF InOrder
  <2>3. CASE k = d
    <3>1. frames'[j].ref \in 0..Len(refs) /\ frames'[k].ref = n
      BY <1>2, <1>4, <1>6, <2>1, <2>3
    <3> QED BY <1>1, <3>1
  <2> QED BY <1>3, <2>2, <2>3
<1> QED BY <1>5, <1>6 DEF InOrder, Depth

LEMMA FillingKept ==
  ASSUME Len(frames') = Depth, KeepSlots(Depth)
  PROVE  Filling' = Filling
BY DEF Filling, Depth, KeepSlots

LEMMA FillingMore ==
  ASSUME StreamShape, NEW d \in Nat \ {0}, Len(frames') = d, KeepSlots(d - 1),
         d = Depth + 1 \/ (d = Depth /\ frames[d].ref = 0)
  PROVE  Filling' = Filling \cup ({frames'[d].ref} \ {0})
<1>1. \A k : k \in 1..d <=> k \in 1..d - 1 \/ k = d
  OBVIOUS
<1>2. Filling' = ({frames'[k].ref : k \in 1..d - 1} \cup {frames'[d].ref}) \ {0}
  BY <1>1 DEF Filling, Depth
<1>3. {frames'[k].ref : k \in 1..d - 1} = {frames[k].ref : k \in 1..d - 1}
  BY DEF KeepSlots
<1>4. {frames[k].ref : k \in 1..d - 1} \ {0} = Filling
  <2>1. CASE d = Depth + 1
    <3>1. d - 1 = Depth
      BY <2>1, TableFacts
    <3> QED BY <3>1 DEF Filling
  <2>2. CASE d = Depth /\ frames[d].ref = 0
    <3>1. {frames[k].ref : k \in 1..d} = {frames[k].ref : k \in 1..d - 1} \cup {0}
      BY <1>1, <2>2
    <3> QED BY <2>2, <3>1 DEF Filling
  <2> QED BY <2>1, <2>2
<1> QED BY <1>2, <1>3, <1>4

(* A call returns and fills the slot it has, if it has one.                 *)
LEMMA FillSlot ==
  ASSUME StreamShape, InOrder, SlotsHold, Depth > 1, Len(frames') = Depth - 1, KeepSlots(Depth - 1),
         wtable' = wtable, Len(refs') = Len(refs),
         \A i \in 1..Len(refs) : i # Top.ref => refs'[i] = refs[i],
         Top.ref # 0 => \/ refs'[Top.ref] = ValueOf(Top.op)
                        \/ refs'[Top.ref] = "null" /\ Top.op \notin SymbolKinds
  PROVE  InOrder' /\ SlotsHold'
<1>1. Depth \in 1..Depth /\ Top = frames[Depth] /\ Len(refs) \in Nat
  BY ShapeTop, TableFacts DEF Top
<1>2. InOrder'
  BY TableFacts, OrderSame
<1>3. ASSUME NEW i \in 1..Len(refs), i # Top.ref
      PROVE  i \in Filling' <=> i \in Filling
  <2>1. \A k : k \in 1..Depth <=> k \in 1..Depth - 1 \/ k = Depth
    BY <1>1
  <2>2. Filling' = {frames[k].ref : k \in 1..Depth - 1} \ {0}
    BY DEF Filling, Depth, KeepSlots
  <2>3. {frames[k].ref : k \in 1..Depth} = {frames[k].ref : k \in 1..Depth - 1} \cup {Top.ref}
    BY <1>1, <2>1
  <2> QED BY <1>3, <2>2, <2>3 DEF Filling
<1>4. Top.ref # 0 => Top.ref \in 1..Len(refs) /\ wtable[Top.ref] = Top.op /\ Top.ref \notin Filling'
  <2>1. Top.ref # 0 => Top.ref \in 1..Len(refs) /\ wtable[Top.ref] = Top.op
    BY <1>1 DEF InOrder
  <2>2. ASSUME Top.ref # 0, NEW k \in 1..Depth - 1 PROVE frames[k].ref # Top.ref
    <3>1. k \in 1..Depth /\ k < Depth
      BY <1>1
    <3>2. frames[k].ref < Top.ref
      BY <1>1, <2>2, <3>1 DEF InOrder
    <3> QED BY <3>2, <1>1, <3>1, TableFacts
  <2>3. Filling' = {frames[k].ref : k \in 1..Depth - 1} \ {0}
    BY DEF Filling, Depth, KeepSlots
  <2> QED BY <2>1, <2>2, <2>3
<1>5. ASSUME NEW i \in 1..Len(refs)
      PROVE  /\ i \in Filling' => refs'[i] = "null"
             /\ i \notin Filling' => \/ refs'[i] = ValueOf(wtable[i])
                                     \/ refs'[i] = "null" /\ wtable[i] \notin SymbolKinds
  <2>1. CASE i = Top.ref
    <3>1. Top.ref # 0
      BY <1>1, <2>1
    <3> QED BY <1>4, <2>1, <3>1
  <2>2. CASE i # Top.ref
    BY <1>3, <2>2 DEF SlotsHold
  <2> QED BY <2>1, <2>2
<1>6. SlotsHold'
  BY <1>5 DEF SlotsHold
<1> QED BY <1>2, <1>6

LEMMA SlottedSame ==
  ASSUME StreamShape, Slotted, Len(frames') = Depth, KeepSlots(Depth), Len(walk') = Calls,
         \A k \in 1..Calls : walk'[k].id = walk[k].id, UNCHANGED <<refs, wtable, told>>,
         target'.id \in 0..Len(refs), NEW t, frames'[Calls + 1].todo = t,
         Waiting(Innermost) <=> Waiting(t), ~Owed
  PROVE  Slotted'
<1>1. /\ Calls' = Calls /\ Depth' = Depth /\ Innermost' = t /\ Calls \in Nat
      /\ Calls + 1 \in 1..Depth /\ (Calls > 0 => Calls \in 1..Calls)
  BY TableFacts DEF Calls, Depth, Innermost
<1>2. Walked'.op = Walked.op /\ Walked'.ref = Walked.ref
  BY <1>1 DEF Walked, KeepSlots
<1>3. InOrder'
  BY TableFacts, OrderSame DEF Slotted
<1>4. SlotsHold'
  BY FillingKept, HoldSame DEF Slotted
<1>5. HasSlot'
  BY <1>1 DEF Slotted, HasSlot, KeepSlots
<1>6. Numbers'
  BY <1>1, <1>2 DEF Slotted, Numbers, Owed
<1>7. Named'
  BY DEF Slotted, Named
<1> QED BY <1>3, <1>4, <1>5, <1>6, <1>7 DEF Slotted

(* A step that reads finds the object of the innermost call without a slot  *)
(* only if the object needs none.                                           *)
LEMMA ReadsSlotted ==
  ASSUME StreamShape, Heard, Slotted, Top.todo # <<>>, Step \notin Silent
  PROVE  /\ ~Owed
         /\ InWalk => /\ (Waiting(Innermost) <=> Waiting(Rest))
                      /\ Waiting(Innermost) => Step = "early"
         /\ SameBelow(Depth - 1) => \A t : (InWalk => frames'[Depth].todo = t) =>
              frames'[Calls + 1].todo = IF InWalk THEN t ELSE Innermost
<1>1. /\ InWalk => Innermost = Top.todo /\ Depth = Calls + 1
      /\ ~InWalk /\ SameBelow(Depth - 1) => frames'[Calls + 1].todo = Innermost
  BY InnermostFacts
<1>2. InWalk => Head(Innermost) = Step /\ Tail(Innermost) = Rest /\ Innermost # <<>>
  BY <1>1 DEF Step, Rest
<1>3. ~Owed
  BY <1>2 DEF Slotted, Numbers, Silent
<1>4. InWalk => (Waiting(Innermost) => Step = "early" /\ Waiting(Rest))
  BY <1>2, ReadsWhileCalm
<1>5. ASSUME InWalk, Waiting(Rest) PROVE Waiting(Innermost)
  <2>1. ASSUME NEW m \in Nat, Reporting(Innermost, m) PROVE FALSE
    <3>1. Reporting(Rest, 0)
      BY <1>2, <1>5, <2>1, ReadsWhileCalm
    <3> QED BY <1>5, <3>1, WaitingFacts
  <2> QED BY <2>1 DEF Heard, HeardAs, HeardOf
<1> QED BY <1>1, <1>3, <1>4, <1>5

LEMMA PassOverSlotted ==
  ASSUME StreamShape, Heard, Slotted, ~stopped, PassesOver
  PROVE  Slotted'
<1>1. /\ Top.todo # <<>> /\ Step \notin Silent /\ UNCHANGED <<refs, told>>
      /\ Len(walk') = Calls /\ (\A k \in 1..Calls : walk'[k].id = walk[k].id)
      /\ SameBelow(Depth - 1) /\ frames'[Depth].todo = Rest
      /\ Len(frames') = Depth /\ SameKinds(Depth)
  BY DEF PassesOver, Busy, WentOn, SameWalk, Untouched
<1>2. wtable' = wtable /\ target'.id \in 0..Len(refs)
  <2>1. CASE UNCHANGED <<rvars, target>>
    BY <2>1 DEF rvars, Slotted, Named
  <2>2. CASE ~UNCHANGED <<rvars, target>>
    <3>1. PICK i \in NextItems : /\ i.type = "ref" /\ Write(i)
                                 /\ target' = target \/ (InWalk /\ target' = PathOf(i.id))
      BY <2>2 DEF PassesOver
    <3>2. i.type \notin RTracked /\ i.id \in 1..Len(wtable)
      BY <3>1, NextItemFacts, RefItemFacts DEF StreamShape, StreamTypes
    <3>3. wtable' = wtable
      BY <3>1, <3>2 DEF Write
    <3>4. Len(wtable) = Len(refs)
      BY <1>1, ReadsSlotted, TableFacts DEF Slotted, Numbers
    <3>5. PathOf(i.id).id = i.id
      BY DEF PathOf
    <3> QED BY <3>1, <3>2, <3>3, <3>4, <3>5, TableFacts DEF Slotted, Named
  <2> QED BY <2>1, <2>2
<1>3. PICK t : t = IF InWalk THEN Rest ELSE Innermost
  OBVIOUS
<1>4. ~Owed /\ (Waiting(Innermost) <=> Waiting(t)) /\ frames'[Calls + 1].todo = t
  BY <1>1, <1>3, ReadsSlotted
<1>5. KeepSlots(Depth)
  BY <1>1, TableFacts, SameCallKeeps DEF SameKinds
<1> QED BY <1>1, <1>2, <1>4, <1>5, SlottedSame

LEMMA ReadsCellSlotted ==
  ASSUME StreamShape, Heard, Slotted, ~stopped, NEW i \in NextItems, NEW S, ReadsCell(i, S)
  PROVE  Slotted'
<1>1. /\ Top.todo # <<>> /\ Step \notin Silent /\ UNCHANGED <<refs, told, target, wtable, walk>>
      /\ SameBelow(Depth - 1) /\ frames'[Depth].todo = S \o Rest
      /\ Len(frames') = Depth /\ SameKinds(Depth)
      /\ (InWalk => Step = "tail" /\ S \in Seq(Calm))
  BY DEF ReadsCell, Busy, WentOn, Untouched
<1>2. PICK t : t = IF InWalk THEN S \o Rest ELSE Innermost
  OBVIOUS
<1>3. InWalk => ~Waiting(Innermost) /\ ~Waiting(t)
  <2> SUFFICES ASSUME InWalk PROVE ~Waiting(Innermost) /\ ~Waiting(t)
    OBVIOUS
  <2>1. Innermost = Top.todo /\ Head(Innermost) = Step /\ Tail(Innermost) = Rest /\ Innermost # <<>>
    BY <1>1, InnermostFacts DEF Step, Rest
  <2>2. ~Waiting(Innermost)
    BY <1>1, ReadsSlotted
  <2>3. Reporting(t, 0)
    BY <1>1, <1>2, <2>1, <2>2, ReadsWhileCalm DEF Heard, HeardAs, HeardOf
  <2> QED BY <2>2, <2>3, WaitingFacts
<1>4. ~Owed /\ (Waiting(Innermost) <=> Waiting(t)) /\ frames'[Calls + 1].todo = t
  BY <1>1, <1>2, <1>3, ReadsSlotted
<1>5. KeepSlots(Depth) /\ Len(walk') = Calls /\ \A k \in 1..Calls : walk'[k].id = walk[k].id
  BY <1>1, TableFacts, SameCallKeeps DEF SameKinds, Calls
<1>6. target'.id \in 0..Len(refs)
  BY <1>1 DEF Slotted, Named
<1> QED BY <1>1, <1>4, <1>5, <1>6, SlottedSame

LEMMA ReportsSlotted ==
  ASSUME StreamShape, Heard, Slotted, OpensReport \/ LeavesReport
  PROVE  Slotted'
<1>1. PICK t :
        /\ Reports(t)
        /\ \/ Step = "endreport" /\ t = Rest
           \/ /\ Step = "report"
              /\ \/ t = Rest \/ t = <<"endreport">> \o Rest \/ t = <<"report", "endreport">> \o Rest
  BY DEF OpensReport, LeavesReport
<1>2. /\ Step \in {"report", "endreport"} /\ InWalk /\ Top.todo # <<>> /\ Calls > 0
      /\ UNCHANGED <<refs, told, target, wtable, walk>>
      /\ frames'[Depth].todo = t /\ Len(frames') = Depth /\ SameKinds(Depth)
  BY <1>1 DEF OpensReport, LeavesReport, Reports, WentOn, rvars
<1>3. /\ Innermost = Top.todo /\ Depth = Calls + 1
  BY <1>2, InnermostFacts
<1>4. ~Waiting(Innermost)
  BY <1>2, <1>3, WaitingFacts DEF Step
<1>5. ~Waiting(t)
  <2>1. PICK m \in Nat : Reporting(Top.todo, m)
    BY <1>3, <1>4 DEF Heard, HeardAs, HeardOf
  <2>2. Head(Top.todo) = Step /\ Tail(Top.todo) = Rest
    BY DEF Step, Rest
  <2>3. CASE Step = "endreport"
    BY <1>1, <1>2, <2>1, <2>2, <2>3, ReportingEnds, WaitingFacts
  <2>4. CASE Step = "report"
    <3>1. /\ Reporting(Rest, m) /\ Reporting(<<"endreport">> \o Rest, m + 1)
          /\ Reporting(<<"report", "endreport">> \o Rest, m + 1)
      BY <1>2, <2>1, <2>2, <2>4, ReportingGoesOn
    <3> QED BY <1>1, <2>4, <3>1, WaitingFacts
  <2> QED BY <1>2, <2>3, <2>4
<1>6. KeepSlots(Depth) /\ Len(walk') = Calls /\ \A k \in 1..Calls : walk'[k].id = walk[k].id
  BY <1>2, TableFacts, SameCallKeeps DEF SameKinds, Calls
<1>7. target'.id \in 0..Len(refs)
  BY <1>2 DEF Slotted, Named
<1>8. frames'[Calls + 1].todo = t
  BY <1>2, <1>3
<1>9. ~Owed
  BY <1>4 DEF Owed
<1> QED BY <1>2, <1>4, <1>5, <1>6, <1>7, <1>8, <1>9, SlottedSame
LEMMA HasSlotMore ==
  ASSUME StreamShape, HasSlot, NEW d \in Nat \ {0}, Len(frames') = d, KeepSlots(d - 1),
         \A k \in 1..d - 1 : k = Calls + 1 /\ Waiting(Innermost)
                              => k = Calls' + 1 /\ Waiting(Innermost')
  PROVE  /\ (frames'[d].ref = 0 => frames'[d].op \notin RTracked
                                   \/ (d = Calls' + 1 /\ Waiting(Innermost'))) => HasSlot'
<1>1. \A k : k \in 1..d <=> k \in 1..d - 1 \/ k = d
  OBVIOUS
<1> QED BY <1>1 DEF HasSlot, Depth, KeepSlots

LEMMA WalkBeginsSlotted ==
  ASSUME StreamShape, Heard, Slotted, NEW i \in NextItems, WalkBegins(i)
  PROVE  Slotted'
<1>1. /\ Busy /\ Top.todo # <<>> /\ Step \notin Silent /\ UNCHANGED <<refs, told, target>>
      /\ SameKinds(Depth) /\ InWalk /\ Step \in Segments /\ Write(i)
      /\ Len(frames') = Depth + 1 /\ frames'[Depth + 1].todo = WalkSteps(i)
      /\ frames'[Depth + 1].op = i.type /\ frames'[Depth + 1].ref = 0
      /\ Len(walk') = Calls + 1 /\ walk'[Calls + 1].id = i.id /\ i.type # "ref"
  BY DEF WalkBegins, Begins, Busy, visitorVars
<1>2. ~Owed /\ ~Waiting(Innermost)
  BY <1>1, ReadsSlotted, StepSets DEF Segments, Quiet
<1>3. /\ Depth = Calls + 1 /\ Calls \in Nat /\ Depth \in Nat \ {0}
  BY <1>1, ShapeTop
<1>4. RTypeOK /\ Len(wtable) = Len(refs) /\ Len(refs) \in Nat
  BY <1>2, TableFacts DEF StreamShape, StreamTypes, Slotted, Numbers
<1>5. /\ i \in Items /\ i.id = IF i.type \in RTracked THEN Len(wtable) + 1 ELSE 0
  <2>1. Head(wtodo) \in Roles /\ i \in NewItems(Head(wtodo))
    BY <1>1, <1>4, NextItemFacts
  <2> QED BY <1>4, <2>1, NewItemFacts
<1>6. Waiting(WalkSteps(i)) /\ (i.type \in RTracked => Head(WalkSteps(i)) = "start")
  BY <1>5, WalkStepsWait
<1>7. /\ i.type \notin RTracked => wtable' = wtable
      /\ i.type \in RTracked => /\ Len(wtable') = Len(wtable) + 1 /\ wtable'[Len(wtable) + 1] = i.type
                                /\ \A k \in 1..Len(wtable) : wtable'[k] = wtable[k]
  BY <1>1, <1>4, WriteFacts
<1>8. \A k \in 1..Len(refs) : wtable'[k] = wtable[k]
  BY <1>4, <1>7
<1>9. PICK d \in Nat \ {0} : d = Depth + 1
  BY <1>3
<1>10. d - 1 = Depth
  BY <1>3, <1>9
<1>11. KeepSlots(d - 1)
  BY <1>1, <1>3, <1>10, SameCallKeeps DEF SameKinds
<1>12. Calls' = d - 1 /\ Innermost' = WalkSteps(i) /\ Depth' = d /\ Walked'.op = i.type /\ Walked'.ref = 0
  BY <1>1, <1>3, <1>9 DEF Calls, Innermost, Depth, Walked
<1>13. InOrder'
  BY <1>1, <1>8, <1>9, <1>11, OrderMore DEF Slotted
<1>14. SlotsHold'
  <2>1. Filling' = Filling
    BY <1>1, <1>9, <1>11, FillingMore
  <2> QED BY <1>1, <1>8, <2>1, HoldSame DEF Slotted
<1>15. HasSlot'
  <2>1. HasSlot
    BY DEF Slotted
  <2> QED BY <1>1, <1>2, <1>6, <1>9, <1>10, <1>11, <1>12, <2>1, HasSlotMore
<1>16. Numbers'
  <2>1. walk'[Calls'].id = i.id /\ Calls' > 0
    BY <1>1, <1>3, <1>12, <1>10
  <2>2. Len(wtable') = Len(refs) + (IF i.type \in RTracked THEN 1 ELSE 0)
    BY <1>4, <1>7
  <2>3. i.type \in RTracked => wtable'[Len(wtable')] = i.type
    BY <1>7
  <2>4. InWalk'
    BY <1>3, <1>12, <1>10 DEF InWalk
  <2>5. i.id = IF i.type \in RTracked THEN Len(wtable') ELSE 0
    BY <1>5, <1>7
  <2> QED BY <1>1, <1>6, <1>12, <2>1, <2>2, <2>3, <2>4, <2>5 DEF Numbers, Owed
<1>17. Named'
  BY <1>1 DEF Slotted, Named
<1> QED BY <1>13, <1>14, <1>15, <1>16, <1>17 DEF Slotted

LEMMA ParseBeginsSlotted ==
  ASSUME StreamShape, Heard, Slotted, NEW i \in NextItems, ParseBegins(i)
  PROVE  Slotted'
<1>1. /\ Busy /\ Top.todo # <<>> /\ Step \notin Silent /\ UNCHANGED <<told, target, walk>>
      /\ SameKinds(Depth) /\ SameBelow(Depth - 1) /\ frames'[Depth].todo = Rest /\ Write(i)
      /\ Len(frames') = Depth + 1
      /\ frames'[Depth + 1].op = i.type
      /\ frames'[Depth + 1].ref = IF i.type \in RTracked THEN Len(refs) + 1 ELSE 0
      /\ refs' = IF i.type \in RTracked THEN Append(refs, "null") ELSE refs
  BY DEF ParseBegins, Begins, Busy, visitorVars, Tracked
<1>2. PICK t : t = IF InWalk THEN Rest ELSE Innermost
  OBVIOUS
<1>3. ~Owed /\ (Waiting(Innermost) <=> Waiting(t)) /\ frames'[Calls + 1].todo = t
  BY <1>1, <1>2, ReadsSlotted
<1>4. /\ RTypeOK /\ Len(wtable) = Len(refs) /\ Len(refs) \in Nat /\ refs \in Seq(Held) /\ "null" \in Held
      /\ Calls \in Nat /\ Depth \in Nat \ {0} /\ Calls < Depth
  BY <1>3, TableFacts DEF StreamShape, StreamTypes, Slotted, Numbers
<1>5. /\ i.type \notin RTracked => wtable' = wtable
      /\ i.type \in RTracked => /\ Len(wtable') = Len(wtable) + 1 /\ wtable'[Len(wtable) + 1] = i.type
                                /\ \A k \in 1..Len(wtable) : wtable'[k] = wtable[k]
  BY <1>1, <1>4, WriteFacts
<1>6. \A k \in 1..Len(refs) : wtable'[k] = wtable[k]
  BY <1>4, <1>5
<1>7. PICK d \in Nat \ {0} : d = Depth + 1
  BY <1>4
<1>8. d - 1 = Depth
  BY <1>4, <1>7
<1>9. KeepSlots(d - 1)
  BY <1>1, <1>4, <1>8, SameCallKeeps DEF SameKinds
<1>10. Calls' = Calls /\ Innermost' = t /\ Depth' = d
  BY <1>1, <1>3, <1>7 DEF Calls, Innermost, Depth
<1>11. Walked'.op = Walked.op /\ Walked'.ref = Walked.ref
  <2>1. Calls + 1 \in 1..d - 1
    BY <1>4, <1>8
  <2> QED BY <1>9, <1>10, <2>1 DEF Walked, KeepSlots
<1>12. PICK n : n = Len(refs) + 1
  OBVIOUS
<1>13. Filling' = Filling \cup ({frames'[d].ref} \ {0})
  BY <1>1, <1>7, <1>9, FillingMore
<1>14. n \in Nat \ {0}
  BY <1>4, <1>12
<1>15. InOrder' /\ SlotsHold' /\ Len(wtable') = Len(refs') /\ Len(refs') \in Nat /\ Len(refs) <= Len(refs')
  <2>1. CASE i.type \in RTracked
    <3>1. frames'[d].ref = n /\ refs' = Append(refs, "null")
      BY <1>1, <1>7, <1>12, <2>1
    <3>2. Filling' = Filling \cup {n}
      BY <1>13, <1>14, <3>1
    <3>3. SlotsHold' /\ Len(refs') = n
      BY <1>6, <1>12, <3>1, <3>2, HoldMore DEF Slotted
    <3>4. wtable'[n] = frames'[d].op
      BY <1>1, <1>4, <1>5, <1>7, <1>12, <2>1
    <3>5. InOrder'
      BY <1>1, <1>6, <1>7, <1>9, <1>12, <3>1, <3>3, <3>4, OrderMore DEF Slotted
    <3> QED BY <1>4, <1>5, <1>12, <2>1, <3>3, <3>5
  <2>2. CASE i.type \notin RTracked
    <3>1. frames'[d].ref = 0 /\ refs' = refs
      BY <1>1, <1>7, <2>2
    <3>2. Filling' = Filling
      BY <1>13, <3>1
    <3>3. SlotsHold'
      BY <1>6, <3>1, <3>2, HoldSame DEF Slotted
    <3>4. InOrder'
      BY <1>1, <1>6, <1>7, <1>9, <1>12, <3>1, OrderMore DEF Slotted
    <3> QED BY <1>4, <1>5, <2>2, <3>1, <3>3, <3>4
  <2> QED BY <2>1, <2>2
<1>16. HasSlot'
  <2>1. HasSlot
    BY DEF Slotted
  <2>2. frames'[d].ref = 0 => frames'[d].op \notin RTracked
    BY <1>1, <1>4, <1>7
  <2> QED BY <1>1, <1>3, <1>7, <1>9, <1>10, <2>1, <2>2, HasSlotMore
<1>17. Numbers'
  <2>1. Waiting(t) => Walked.op \notin RTracked
    BY <1>3 DEF Owed
  <2>2. Waiting(t) => Calls > 0 /\ Walked.ref = 0 /\ walk[Calls].id = 0
    BY <1>3, <2>1 DEF Slotted, Numbers
  <2>3. ~Owed'
    BY <1>10, <1>11, <2>1 DEF Owed
  <2>4. Len(wtable') = Len(refs') + 0
    BY <1>15
  <2>5. Waiting(t) => walk'[Calls].id = 0 /\ Walked'.ref = 0 /\ Walked'.op \notin RTracked
    BY <1>1, <1>11, <2>1, <2>2
  <2> QED BY <1>10, <2>2, <2>3, <2>4, <2>5 DEF Numbers
<1>18. Named'
  <2>1. \A x : x \in 1..Len(refs) => x \in 1..Len(refs')
    BY <1>4, <1>15
  <2>2. \A x : x \in 0..Len(refs) => x \in 0..Len(refs')
    BY <1>4, <1>15
  <2> QED BY <1>1, <2>1, <2>2 DEF Slotted, Named
<1> QED BY <1>15, <1>16, <1>17, <1>18 DEF Slotted

(* The object at hand has not been heard of: the number R gave it, if any,  *)
(* is that of the next slot.                                                *)
LEMMA StartWaits ==
  ASSUME StreamShape, Heard, Slotted, InWalk, Top.todo # <<>>, Step = "start"
  PROVE  /\ Waiting(Innermost) /\ Rest \in Seq(Calm) /\ ~Waiting(Rest)
         /\ Innermost = Top.todo /\ Walked = Top /\ Depth = Calls + 1 /\ Top.ref = 0
         /\ Top.op \in RTracked => /\ Here.id = Len(refs) + 1 /\ Len(wtable) = Len(refs) + 1
                                   /\ wtable[Len(refs) + 1] = Top.op
         /\ Top.op \notin RTracked => Here.id = 0 /\ Len(wtable) = Len(refs)
<1>1. /\ Innermost = Top.todo /\ Depth = Calls + 1 /\ Innermost \in Seq(WalkNames)
      /\ Walked = Top /\ Innermost # <<>> /\ Head(Innermost) = "start" /\ Tail(Innermost) = Rest
  BY InnermostFacts DEF Walked, Top, Step, Rest
<1>2. Waiting(Innermost)
  <2>1. ASSUME NEW m, Reporting(Innermost, m) PROVE FALSE
    <3>1. Innermost \in Seq(WalkNames \ {"start"})
      BY <2>1 DEF Reporting
    <3> QED BY <1>1, <3>1, HeadTailProperties
  <2> QED BY <2>1 DEF Heard, HeardAs, HeardOf
<1>3. Rest \in Seq(Calm) /\ ~Waiting(Rest)
  <2>1. Rest \in Seq(Calm)
    BY <1>1, <1>2, WaitingFacts
  <2> QED BY <2>1, CalmReports, WaitingFacts
<1>4. Here = walk[Calls] /\ Len(refs) \in Nat /\ Len(wtable) \in Nat
  BY TableFacts DEF Here
<1> QED BY <1>1, <1>2, <1>3, <1>4 DEF Slotted, Numbers, Owed

LEMMA StartsSlotted ==
  ASSUME StreamShape, Heard, Slotted, Starts
  PROVE  Slotted'
<1>1. /\ InWalk /\ Top.todo # <<>> /\ Step = "start" /\ SameBelow(Depth - 1)
      /\ frames'[Depth].todo = Rest /\ Len(frames') = Depth /\ frames'[Depth].op = Top.op
      /\ Len(walk') = Calls /\ wtable' = wtable /\ target' = target
      /\ told' = told \/ (Here.id # 0 /\ told' = Bind(told, Here.id, path))
      /\ TakeSlot /\ SlotSet
  BY DEF Starts, HearStart, rvars
<1>2. /\ Rest \in Seq(Calm) /\ ~Waiting(Rest) /\ Walked = Top /\ Depth = Calls + 1 /\ Top.ref = 0
      /\ Top.op \in RTracked => /\ Here.id = Len(refs) + 1 /\ Len(wtable) = Len(refs) + 1
                                /\ wtable[Len(refs) + 1] = Top.op
      /\ Top.op \notin RTracked => Here.id = 0 /\ Len(wtable) = Len(refs)
  BY <1>1, StartWaits
<1>3. /\ Len(refs) \in Nat /\ Calls \in Nat /\ refs \in Seq(Held) /\ "null" \in Held
      /\ Top = frames[Depth]
  BY TableFacts DEF Top
<1>4. PICK d \in Nat \ {0} : d = Depth
  BY <1>2, <1>3
<1>5. KeepSlots(d - 1)
  <2>1. d - 1 \in Nat /\ d - 1 <= Depth /\ \A k \in 1..d - 1 : frames'[k] = frames[k]
    BY <1>1, <1>4 DEF SameBelow
  <2> QED BY <2>1, SameCallKeeps
<1>6. Calls' = Calls /\ Innermost' = Rest /\ Depth' = Depth
  BY <1>1, <1>2 DEF Calls, Innermost, Depth
<1>7. PICK n : n = Len(refs) + 1
  OBVIOUS
<1>8. Filling' = Filling \cup ({frames'[d].ref} \ {0})
  BY <1>1, <1>2, <1>3, <1>4, <1>5, FillingMore
<1>9. /\ InOrder' /\ SlotsHold' /\ Len(wtable') = Len(refs') /\ Len(refs') \in Nat /\ Len(refs) <= Len(refs')
      /\ Here.id # 0 => Here.id \in 1..Len(refs')
      /\ frames'[d].ref = 0 => frames'[d].op \notin RTracked
  <2>1. CASE Top.op \in RTracked
    <3>1. frames'[d].ref = n /\ refs' = Append(refs, "null")
      BY <1>1, <1>4, <1>7, <2>1 DEF TakeSlot, SlotSet, SlotTaken, SlotOfNext, Tracked
    <3>2. Filling' = Filling \cup {n}
      BY <1>3, <1>7, <1>8, <3>1
    <3>3. SlotsHold' /\ Len(refs') = n
      BY <1>1, <1>7, <3>1, <3>2, HoldMore DEF Slotted
    <3>4. wtable'[n] = frames'[d].op
      BY <1>1, <1>2, <1>4, <1>7, <2>1
    <3>5. InOrder'
      BY <1>1, <1>4, <1>5, <1>7, <3>1, <3>3, <3>4, OrderMore DEF Slotted
    <3> QED BY <1>1, <1>2, <1>3, <1>7, <2>1, <3>1, <3>3, <3>5
  <2>2. CASE Top.op \notin RTracked
    <3>1. frames'[d].ref = 0 /\ refs' = refs
      BY <1>1, <1>4, <2>2 DEF TakeSlot, SlotSet, SlotTaken, Tracked
    <3>2. Filling' = Filling
      BY <1>8, <3>1
    <3>3. SlotsHold'
      BY <1>1, <3>1, <3>2, HoldSame DEF Slotted
    <3>4. InOrder'
      BY <1>1, <1>4, <1>5, <1>7, <3>1, OrderMore DEF Slotted
    <3> QED BY <1>1, <1>2, <1>3, <1>4, <2>2, <3>1, <3>3, <3>4
  <2> QED BY <2>1, <2>2
<1>10. HasSlot'
  <2>1. HasSlot /\ \A k \in 1..d - 1 : k # Calls + 1
    BY <1>2, <1>3, <1>4 DEF Slotted
  <2> QED BY <1>1, <1>4, <1>5, <1>9, <2>1, HasSlotMore
<1>11. Numbers'
  <2>1. Len(wtable') = Len(refs') + 0 /\ ~Waiting(Innermost')
    BY <1>2, <1>6, <1>9
  <2>2. ~Owed'
    BY <2>1 DEF Owed
  <2> QED BY <2>1, <2>2 DEF Numbers
<1>12. Named'
  <2>1. \A x : x \in 1..Len(refs) => x \in 1..Len(refs')
    BY <1>3, <1>9
  <2>2. \A x : x \in 0..Len(refs) => x \in 0..Len(refs')
    BY <1>3, <1>9
  <2>3. \A x \in DOMAIN told' : x \in DOMAIN told \/ (Here.id # 0 /\ x = Here.id)
    <3>1. CASE told' = told
      BY <3>1
    <3>2. CASE Here.id # 0 /\ told' = Bind(told, Here.id, path)
      <4>1. DOMAIN told' = DOMAIN told \cup {Here.id}
        BY <3>2 DEF Bind
      <4> QED BY <3>2, <4>1
    <3> QED BY <1>1, <3>1, <3>2
  <2> QED BY <1>1, <1>9, <2>1, <2>2, <2>3 DEF Slotted, Named
<1> QED BY <1>9, <1>10, <1>11, <1>12 DEF Slotted

LEMMA EndsSlotted ==
  ASSUME StreamShape, Heard, Slotted, ~stopped, Ends
  PROVE  Slotted'
<1>1. /\ InWalk /\ Calls > 0 /\ Top.todo = <<>> /\ Len(frames') = Depth - 1
      /\ SameKinds(Depth - 1) /\ frames'[Depth - 1].todo = frames[Depth - 1].todo
      /\ Len(walk') = Calls - 1 /\ wtable' = wtable /\ UNCHANGED <<told, target>>
      /\ refs' = IF Registers(Top) THEN [refs EXCEPT ![Top.ref] = Top.op] ELSE refs
  BY DEF Ends, WalkPops, rvars
<1>2. /\ Innermost = Top.todo /\ Depth = Calls + 1 /\ Calls \in Nat /\ Calls \in 1..Calls
      /\ Len(refs) \in Nat /\ refs \in Seq(Held) /\ Top = frames[Depth] /\ Depth \in 1..Depth
      /\ Top.op \in Held /\ Top.ref \in Nat
  <2>1. Top \in FramesIn(Names)
    BY StreamTop DEF StreamShape
  <2>2. Top.op \in Held /\ Top.ref \in Nat
    BY <2>1 DEF FramesIn, Held
  <2> QED BY <1>1, <2>2, InnermostFacts, ShapeTop, TableFacts DEF Top
<1>3. ~Waiting(Innermost)
  BY <1>1, <1>2, WaitingFacts
<1>4. KeepSlots(Depth - 1)
  <2>1. Depth - 1 \in Nat /\ Depth - 1 <= Depth
    BY <1>2
  <2> QED BY <1>1, <2>1, SameCallKeeps DEF SameKinds
<1>5. Top.ref = 0 => Top.op \notin RTracked
  BY <1>2, <1>3 DEF Slotted, HasSlot
<1>6. Top.ref # 0 => Top.ref \in 1..Len(refs)
  BY <1>2 DEF Slotted, InOrder
<1>7. /\ Len(refs') = Len(refs)
      /\ \A i \in 1..Len(refs) : i # Top.ref => refs'[i] = refs[i]
      /\ Top.ref # 0 => \/ refs'[Top.ref] = ValueOf(Top.op)
                        \/ refs'[Top.ref] = "null" /\ Top.op \notin SymbolKinds
  <2>1. CASE Registers(Top)
    <3>1. Top.op \in SymbolKinds /\ Top.op \in RTracked
      BY <2>1 DEF Registers, RTracked
    <3>2. ValueOf(Top.op) = Top.op
      BY <3>1 DEF ValueOf, SymbolKinds
    <3>3. refs' = [refs EXCEPT ![Top.ref] = Top.op] /\ Top.ref \in 1..Len(refs)
      BY <1>1, <1>5, <1>6, <2>1, <3>1
    <3>4. Len(refs') = Len(refs) /\ \A i \in 1..Len(refs) : refs'[i] = IF i = Top.ref THEN Top.op ELSE refs[i]
      BY <1>2, <3>3, ExceptSeq
    <3> QED BY <3>2, <3>3, <3>4
  <2>2. CASE ~Registers(Top)
    <3>1. refs' = refs /\ Top.op \notin SymbolKinds
      BY <1>1, <2>2 DEF Registers
    <3>2. Top.ref # 0 => Top.ref \in Filling
      BY <1>2 DEF Filling
    <3>3. Top.ref # 0 => refs[Top.ref] = "null"
      BY <1>6, <3>2 DEF Slotted, SlotsHold
    <3> QED BY <3>1, <3>3
  <2> QED BY <2>1, <2>2
<1>8. InOrder' /\ SlotsHold'
  <2>1. Depth > 1
    BY <1>1, <1>2
  <2> QED BY <1>1, <1>4, <1>7, <2>1, FillSlot DEF Slotted
<1>9. ~Waiting(Innermost')
  <2>1. Innermost' = frames[Depth - 1].todo
    BY <1>1, <1>2 DEF Innermost, Calls
  <2>2. frames[Depth - 1].todo \in Seq(Calm)
    BY <1>2 DEF Heard
  <2> QED BY <2>1, <2>2, CalmReports, WaitingFacts
<1>10. HasSlot'
  <2>1. \A k \in 1..Depth - 1 : k \in 1..Depth /\ k # Calls + 1
    BY <1>2
  <2> QED BY <1>1, <1>4, <2>1 DEF Slotted, HasSlot, Depth, KeepSlots
<1>11. Numbers'
  <2>1. ~Owed /\ ~Owed'
    BY <1>3, <1>9 DEF Owed
  <2>2. Len(wtable') = Len(refs') + 0
    BY <1>1, <1>7, <2>1 DEF Slotted, Numbers
  <2> QED BY <1>9, <2>1, <2>2 DEF Numbers
<1>12. Named'
  BY <1>1, <1>7 DEF Slotted, Named
<1> QED BY <1>8, <1>10, <1>11, <1>12 DEF Slotted

LEMMA ParseEndsSlotted ==
  ASSUME StreamShape, Heard, Slotted, ParseEnds
  PROVE  Slotted'
<1>1. /\ ~InWalk /\ Len(frames') = Depth - 1 /\ SameBelow(Depth - 2) /\ SameKinds(Depth - 1)
      /\ UNCHANGED <<wtable, told, target, walk>>
      /\ refs' = IF Top.ref = 0 THEN refs ELSE [refs EXCEPT ![Top.ref] = ValueOf(Top.op)]
      /\ frames'[Depth - 1].todo = frames[Depth - 1].todo \/ Depth - 1 > Calls + 1
  BY DEF ParseEnds, rvars
<1>2. /\ Calls \in Nat /\ Depth \in Nat /\ Calls + 1 < Depth /\ Depth \in 1..Depth /\ Top = frames[Depth]
      /\ Len(refs) \in Nat
  BY <1>1, ShapeTop, TableFacts DEF Top
<1>3. KeepSlots(Depth - 1)
  <2>1. Depth - 1 \in Nat /\ Depth - 1 <= Depth
    BY <1>2
  <2> QED BY <1>1, <2>1, SameCallKeeps DEF SameKinds
<1>4. Calls' = Calls /\ Innermost' = Innermost /\ Walked'.op = Walked.op /\ Walked'.ref = Walked.ref
  <2>1. Calls' = Calls /\ Calls + 1 \in 1..Depth - 1
    BY <1>1, <1>2 DEF Calls
  <2>2. Calls + 1 \in 1..Depth - 2 \/ (Calls + 1 = Depth - 1 /\ ~(Depth - 1 > Calls + 1))
    BY <1>2
  <2>3. frames'[Calls + 1].todo = frames[Calls + 1].todo
    BY <1>1, <2>2 DEF SameBelow
  <2> QED BY <1>3, <2>1, <2>3 DEF Innermost, Walked, KeepSlots
<1>5. Top.ref # 0 => Top.ref \in 1..Len(refs)
  BY <1>2 DEF Slotted, InOrder
<1>6. /\ Len(refs') = Len(refs)
      /\ \A i \in 1..Len(refs) : i # Top.ref => refs'[i] = refs[i]
      /\ Top.ref # 0 => refs'[Top.ref] = ValueOf(Top.op)
  <2>1. CASE Top.ref = 0
    BY <1>1, <2>1
  <2>2. CASE Top.ref # 0
    <3>1. refs' = [refs EXCEPT ![Top.ref] = ValueOf(Top.op)] /\ Top.ref \in 1..Len(refs)
      BY <1>1, <1>5, <2>2
    <3>2. refs = [j \in 1..Len(refs) |-> refs[j]]
      BY TableFacts, LenProperties
    <3>3. refs' = [j \in 1..Len(refs) |-> IF j = Top.ref THEN ValueOf(Top.op) ELSE refs[j]]
      BY <3>1, <3>2
    <3>4. Len(refs') = Len(refs)
      BY <1>2, <3>3
    <3> QED BY <3>1, <3>3, <3>4
  <2> QED BY <2>1, <2>2
<1>7. InOrder' /\ SlotsHold'
  <2>1. Depth > 1
    BY <1>2
  <2> QED BY <1>1, <1>3, <1>6, <2>1, FillSlot DEF Slotted
<1>8. HasSlot'
  <2>1. \A k \in 1..Depth - 1 : k \in 1..Depth
    BY <1>2
  <2> QED BY <1>1, <1>3, <1>4, <2>1 DEF Slotted, HasSlot, Depth, KeepSlots
<1>9. Numbers'
  <2>1. ~Owed
    BY <1>1 DEF Slotted, Numbers
  <2>2. ~Owed'
    BY <1>4, <2>1 DEF Owed
  <2>3. Len(wtable') = Len(refs') + 0
    BY <1>1, <1>6, <2>1 DEF Slotted, Numbers
  <2> QED BY <1>1, <1>4, <2>1, <2>2, <2>3 DEF Slotted, Numbers
<1>10. Named'
  BY <1>1, <1>6 DEF Slotted, Named
<1> QED BY <1>7, <1>8, <1>9, <1>10 DEF Slotted

(* The table of paths.                                                      *)
LEMMA StartKeepsPaths ==
  ASSUME StreamShape, Heard, Slotted, PathsKept, InWalk, Top.todo # <<>>, Step = "start",
         refPaths' = IF SlotTaken THEN Bind(refPaths, SlotOfNext, path) ELSE refPaths,
         told' = told \/ told' = IF Here.id = 0 THEN told ELSE Bind(told, Here.id, path),
         target' = target
  PROVE  PathsKept'
<1>1. PICK n : n = Len(refs) + 1
  OBVIOUS
<1>2. n # 0 /\ n \notin DOMAIN told /\ target.id # n
  BY <1>1, TableFacts DEF Slotted, Named
<1>3. CASE Top.op \in RTracked
  <2>1. Here.id = n
    BY <1>1, <1>3, StartWaits
  <2>2. refPaths' = Bind(refPaths, n, path)
    BY <1>1, <1>3 DEF SlotTaken, SlotOfNext, Tracked
  <2>3. told' = told \/ told' = Bind(told, n, path)
    BY <1>2, <2>1
  <2>4. /\ DOMAIN refPaths' = DOMAIN refPaths \cup {n} /\ refPaths'[n] = path
        /\ \A x \in DOMAIN refPaths : x # n => refPaths'[x] = refPaths[x]
    BY <2>2 DEF Bind
  <2>5. \A x \in DOMAIN told : x \in DOMAIN refPaths' /\ told[x] = refPaths'[x] /\ x # n
    BY <1>2, <2>4 DEF PathsKept
  <2>6. CASE told' = told
    BY <2>5, <2>6 DEF PathsKept, SharedTargets
  <2>7. CASE told' = Bind(told, n, path)
    <3>1. /\ DOMAIN told' = DOMAIN told \cup {n} /\ told'[n] = path
          /\ \A x \in DOMAIN told : x # n => told'[x] = told[x]
      BY <2>7 DEF Bind
    <3>2. \A x \in DOMAIN told' : x \in DOMAIN refPaths' /\ told'[x] = refPaths'[x]
      BY <2>4, <2>5, <3>1
    <3>3. SharedTargets'
      BY <1>2, <3>1 DEF PathsKept, SharedTargets
    <3> QED BY <3>2, <3>3 DEF PathsKept
  <2> QED BY <2>3, <2>6, <2>7
<1>4. CASE Top.op \notin RTracked
  <2>1. Here.id = 0 /\ refPaths' = refPaths
    BY <1>4, StartWaits DEF SlotTaken, Tracked
  <2> QED BY <2>1 DEF PathsKept, SharedTargets
<1> QED BY <1>3, <1>4

LEMMA PassOverKeepsPaths ==
  ASSUME PathsKept, PassesOver
  PROVE  PathsKept'
<1>1. UNCHANGED <<refPaths, told>>
  BY DEF PassesOver, Untouched
<1>2. CASE target' = target
  BY <1>1, <1>2 DEF PathsKept, SharedTargets
<1>3. CASE target' # target
  <2>1. PICK i \in NextItems : target' = PathOf(i.id)
    BY <1>3 DEF PassesOver
  <2>2. /\ target'.id = i.id /\ target'.known = (i.id \in DOMAIN refPaths)
        /\ i.id \in DOMAIN refPaths => target'.path = refPaths[i.id]
    BY <2>1 DEF PathOf
  <2> QED BY <1>1, <2>2 DEF PathsKept, SharedTargets
<1> QED BY <1>2, <1>3

SlotInv == (Going /\ ~stopped => Slotted) /\ PathsKept

LEMMA SlotStep ==
  ASSUME StreamShape, HeardInv, SlotInv, Effect
  PROVE  SlotInv'
<1>0. PathsKept
  BY DEF SlotInv
<1>1. ASSUME UNCHANGED <<refPaths, told, target>> PROVE PathsKept'
  BY <1>0, <1>1 DEF PathsKept, SharedTargets
<1>2. CASE PassesOver
  <2>1. /\ Going /\ stopped' = stopped
    BY <1>2 DEF PassesOver, Busy, Going, Untouched
  <2>2. PathsKept'
    BY <1>0, <1>2, PassOverKeepsPaths
  <2> QED BY <1>2, <2>1, <2>2, PassOverSlotted DEF SlotInv, HeardInv
<1>3. CASE \E i \in NextItems : (\E S : ReadsCell(i, S)) \/ WalkBegins(i) \/ ParseBegins(i)
  <2>1. PICK i \in NextItems : (\E S : ReadsCell(i, S)) \/ WalkBegins(i) \/ ParseBegins(i)
    BY <1>3
  <2>2. Going /\ ~stopped /\ UNCHANGED <<refPaths, told, target>>
    BY <2>1 DEF Going, ReadsCell, WalkBegins, ParseBegins, Begins, Busy, Untouched, visitorVars
  <2> QED BY <1>1, <2>1, <2>2, ReadsCellSlotted, WalkBeginsSlotted, ParseBeginsSlotted
          DEF SlotInv, HeardInv
<1>4. CASE Starts
  <2>1. /\ Going /\ ~stopped /\ InWalk /\ Top.todo # <<>> /\ Step = "start" /\ target' = target
    BY <1>4 DEF Starts, Going
  <2>2. refPaths' = IF SlotTaken THEN Bind(refPaths, SlotOfNext, path) ELSE refPaths
    BY <1>4 DEF Starts, TakeSlot
  <2>3. told' = told \/ told' = IF Here.id = 0 THEN told ELSE Bind(told, Here.id, path)
    BY <1>4 DEF Starts, HearStart
  <2>4. Heard /\ Slotted
    BY <2>1 DEF HeardInv, SlotInv
  <2> QED BY <1>0, <1>4, <2>1, <2>2, <2>3, <2>4, StartKeepsPaths, StartsSlotted DEF SlotInv
<1>5. CASE StopsHere
  <2>1. /\ Going /\ ~stopped /\ stopped' /\ InWalk /\ Top.todo # <<>> /\ Step = "start"
        /\ target' = target
        /\ refPaths' = IF SlotTaken THEN Bind(refPaths, SlotOfNext, path) ELSE refPaths
        /\ told' = IF Here.id = 0 THEN told ELSE Bind(told, Here.id, path)
    BY <1>5 DEF StopsHere, WalkPops, Going
  <2>2. Heard /\ Slotted
    BY <2>1 DEF HeardInv, SlotInv
  <2>3. PathsKept'
    BY <1>0, <2>1, <2>2, StartKeepsPaths
  <2> QED BY <2>1, <2>3 DEF SlotInv
<1>6. CASE Ends
  <2>1. Going /\ stopped' = stopped /\ UNCHANGED <<refPaths, told, target>>
    BY <1>6 DEF Ends, WalkPops, Going
  <2> QED BY <1>1, <1>6, <2>1, EndsSlotted DEF SlotInv, HeardInv
<1>7. CASE ParseEnds
  <2>1. Going /\ stopped' = stopped /\ UNCHANGED <<refPaths, told, target>>
    BY <1>7 DEF ParseEnds, Going
  <2> QED BY <1>1, <1>7, <2>1, ParseEndsSlotted DEF SlotInv, HeardInv
<1>8. CASE OpensReport \/ LeavesReport
  <2>1. Going /\ stopped' = stopped /\ UNCHANGED <<refPaths, told, target>>
    BY <1>8 DEF OpensReport, LeavesReport, Reports, Going
  <2> QED BY <1>1, <1>8, <2>1, ReportsSlotted DEF SlotInv, HeardInv
<1>9. CASE GivesUp
  <2>1. ~Going' /\ UNCHANGED <<refPaths, told, target>>
    BY <1>9 DEF GivesUp, Going, visitorVars
  <2> QED BY <1>1, <2>1 DEF SlotInv
<1>10. CASE Stays
  <2>1. /\ UNCHANGED <<rvars, frames, refs, walk, stopped, refPaths, told, target>>
        /\ Going' => Going
    BY <1>10 DEF Stays
  <2>2. Slotted => Slotted'
    BY <2>1 DEF rvars, Slotted, InOrder, HasSlot, SlotsHold, Filling, Numbers, Owed, Named, Walked,
                Innermost, InWalk, Calls, Depth
  <2> QED BY <1>1, <2>1, <2>2 DEF SlotInv
<1> QED BY <1>2, <1>3, <1>4, <1>5, <1>6, <1>7, <1>8, <1>9, <1>10 DEF Effect

LEMMA SlotsHoldAlways == StreamSpec => [](StreamShape /\ HeardInv /\ SlotInv)
<1>1. StreamInit => SlotInv
  <2> SUFFICES ASSUME StreamInit PROVE SlotInv
    OBVIOUS
  <2>1. StreamShape
    BY StreamBegins
  <2>2. /\ refs = <<>> /\ wtable = <<>> /\ told = <<>> /\ refPaths = <<>> /\ walk = <<>>
        /\ target = NoTarget
    BY DEF StreamInit, RInit
  <2>3. DOMAIN told = {} /\ target.id = 0
    BY <2>2 DEF NoTarget
  <2>4. Calls = 0 /\ Len(refs) = 0 /\ Len(wtable) = 0
    BY <2>2 DEF Calls
  <2> DEFINE f == [op |-> "root", as |-> "root", todo |-> <<"root">>, ref |-> 0,
                   plain |-> TRUE, rn |-> FALSE, wasBody |-> FALSE,
                   wasLazy |-> Lazy, rest |-> 0]
  <2>5. frames = <<f>> /\ f.ref = 0 /\ f.op = "root" /\ f.todo = <<"root">>
    BY DEF StreamInit
  <2> HIDE DEF f
  <2>6. Depth = 1 /\ frames[1] = f
    BY <2>5 DEF Depth
  <2>7. ~Waiting(Innermost)
    <3>1. Reporting(<<"root">>, 0)
      BY CalmShort, CalmReports
    <3> QED BY <2>4, <2>5, <2>6, <3>1, WaitingFacts DEF Innermost
  <2>8. InOrder /\ HasSlot
    BY <2>5, <2>6 DEF InOrder, HasSlot, RTracked, SymbolKinds, EnvKinds
  <2>9. SlotsHold /\ Numbers /\ Named
    BY <2>3, <2>4, <2>7 DEF SlotsHold, Numbers, Owed, Named
  <2>10. PathsKept
    BY <2>3 DEF PathsKept, SharedTargets
  <2> QED BY <2>8, <2>9, <2>10 DEF SlotInv, Slotted
<1>2. StreamShape /\ HeardInv /\ SlotInv /\ [StreamNext]_streamVars => SlotInv'
  BY StreamStep, SlotStep
<1> QED BY <1>1, <1>2, HeardAlways, ShapeHolds, PTL DEF StreamSpec

(* Skipped or reported, every object with an index takes the slot R         *)
(* numbered, in time for what refers to it: a tag reference inside a part   *)
(* the visitor skipped finds its symbol.                                    *)
THEOREM WalkKeepsSlots == StreamSpec => []WalkSlotsAligned
<1>1. StreamShape /\ HeardInv /\ SlotInv => WalkSlotsAligned
  <2> SUFFICES ASSUME StreamShape, HeardInv, SlotInv, Going, ~stopped
               PROVE  /\ Len(refs) + (IF StartPending THEN 1 ELSE 0) = Len(wtable)
                      /\ \A i \in 1..Len(refs) :
                           IF i \in Filling THEN refs[i] = "null"
                           ELSE \/ refs[i] = ValueOf(wtable[i])
                                \/ refs[i] = "null" /\ wtable[i] \notin SymbolKinds
    BY DEF WalkSlotsAligned, Going
  <2>1. Heard /\ Slotted
    BY DEF HeardInv, SlotInv
  <2>2. StartPending => Owed
    BY <2>1, StartWaits DEF StartPending, Owed, Tracked
  <2>3. Owed => StartPending
    <3> SUFFICES ASSUME Owed PROVE StartPending
      OBVIOUS
    <3>1. InWalk /\ Head(Innermost) = "start" /\ Waiting(Innermost) /\ Walked.op \in RTracked
      BY <2>1 DEF Slotted, Numbers, Owed
    <3>2. Innermost = Top.todo /\ Depth = Calls + 1 /\ Innermost # <<>>
      BY <3>1, InnermostFacts, WaitingFacts
    <3> QED BY <3>1, <3>2 DEF StartPending, Step, Top, Walked, Tracked
  <2> QED BY <2>1, <2>2, <2>3 DEF Slotted, Numbers, SlotsHold
<1> QED BY <1>1, SlotsHoldAlways, PTL

(* A shared reference to an object the visitor heard of names the path it   *)
(* heard it under, whatever took a slot unheard in between.                 *)
THEOREM TargetsAreShared == StreamSpec => []SharedTargets
BY SlotsHoldAlways, PTL DEF SlotInv, PathsKept
-----------------------------------------------------------------------------
(* The calls and R agree on what comes next.  A call of the traversal reads *)
(* its steps otherwise than a call of the value parser.                     *)
WhoIn(c, k) == IF k <= c + 1 THEN "walk" ELSE "parse"
WalkLefts   == [k \in 1..Depth |-> RolesLeft(WhoIn(Calls, k), frames[k].todo)]
WalkRests   == [k \in 1..Depth |-> frames[k].rest]
WalkAgreed  == Owes(Depth, WalkLefts, WalkRests, wtodo)

(* No call reads a vector whose elements the value parser takes for a       *)
(* sequence.                                                                *)
NoTriples == \A k \in 1..Depth : frames[k].op # "real3"

LEMMA WhoReads ==
  ASSUME StreamShape
  PROVE  /\ \A k \in 1..Depth : frames[k].todo \in Seq(StepsFor(WhoIn(Calls, k)))
         /\ WhoIn(Calls, Depth) = IF InWalk THEN "walk" ELSE "parse"
<1>1. /\ Depth \in Nat \ {0} /\ Calls \in Nat /\ Calls < Depth
      /\ (InWalk <=> Depth = Calls + 1) /\ (~InWalk <=> Depth > Calls + 1)
  BY ShapeTop
<1>2. ASSUME NEW k \in 1..Depth PROVE frames[k].todo \in Seq(StepsFor(WhoIn(Calls, k)))
  <2>1. frames[k].todo \in Seq(StepsAt(k))
    BY DEF StreamShape, Lines
  <2>2. StepsAt(k) = StepsFor(WhoIn(Calls, k))
    BY DEF StepsAt, WalkNames, StepsFor, WhoIn
  <2> QED BY <2>1, <2>2
<1> QED BY <1>1, <1>2 DEF WhoIn

LEMMA WalkAgreedIf ==
  ASSUME NEW n \in Nat, NEW c, NEW M, NEW Q, Owes(n, M, Q, wtodo'),
         Len(frames') = n, Len(walk') = c,
         \A k \in 1..n : M[k] = RolesLeft(WhoIn(c, k), frames'[k].todo) /\ Q[k] = frames'[k].rest
  PROVE  WalkAgreed'
<1> DEFINE A == [k \in 1..n |-> RolesLeft(WhoIn(c, k), frames'[k].todo)]
           B == [k \in 1..n |-> frames'[k].rest]
<1>1. \A k \in 1..n : A[k] = M[k] /\ B[k] = Q[k]
  OBVIOUS
<1> HIDE DEF A, B
<1>2. Owes(n, A, B, wtodo')
  BY <1>1, OwesSame
<1> QED BY <1>2 DEF WalkAgreed, WalkLefts, WalkRests, Depth, Calls, A, B

LEMMA WalkHead ==
  ASSUME StreamShape, WalkAgreed, Top.todo # <<>>, Step \notin Silent
  PROVE  /\ wtodo \in Seq(Roles) /\ wtodo # <<>>
         /\ Head(wtodo) = RoleFor(WhoIn(Calls, Depth), Step)
         /\ WalkLefts[Depth] # <<>> /\ Rest \in Seq(StepsFor(WhoIn(Calls, Depth)))
         /\ Tail(WalkLefts[Depth]) = RolesLeft(WhoIn(Calls, Depth), Rest)
<1> DEFINE who == WhoIn(Calls, Depth)
           t == Top.todo
<1>1. Depth \in Nat \ {0} /\ Depth \in 1..Depth
  BY ShapeTop
<1>2. t \in Seq(StepsFor(who)) /\ t # <<>> /\ Head(t) \notin Silent
  BY <1>1, WhoReads DEF Top, Step
<1>3. WalkLefts[Depth] = RolesLeft(who, t)
  BY <1>1 DEF WalkLefts, Top
<1> HIDE DEF who, t
<1>4. /\ RolesLeft(who, t) # <<>> /\ Head(RolesLeft(who, t)) = RoleFor(who, Head(t))
      /\ RolesLeft(who, Tail(t)) = Tail(RolesLeft(who, t)) /\ Tail(t) \in Seq(StepsFor(who))
  BY <1>2, RolesLeftTail
<1>5. WalkLefts[Depth] # <<>> /\ Owes(Depth, WalkLefts, WalkRests, wtodo)
  BY <1>3, <1>4 DEF WalkAgreed
<1>6. wtodo \in Seq(Roles) /\ wtodo # <<>> /\ Head(wtodo) = Head(WalkLefts[Depth])
  BY <1>1, <1>5, OwesReads
<1> QED BY <1>3, <1>4, <1>6 DEF who, t, Step, Rest

(* A call reads an item and goes on with the item's parts.                  *)
LEMMA WalkAgreedInPlace ==
  ASSUME StreamShape, WalkAgreed, Top.todo # <<>>, Step \notin Silent, NEW S, NEW P,
         Means(WhoIn(Calls, Depth), S, P), WentOn(S \o Rest), Len(walk') = Calls,
         wtodo' = P \o Tail(wtodo)
  PROVE  WalkAgreed'
<1> DEFINE n == Depth
           c == Calls
           who == WhoIn(c, n)
           L == WalkLefts
           R == WalkRests
           M == [k \in 1..n |-> RolesLeft(WhoIn(c, k), frames'[k].todo)]
           Q == [k \in 1..n |-> frames'[k].rest]
<1>1. n \in Nat \ {0}
  BY ShapeTop
<1>2. L[n] # <<>> /\ Rest \in Seq(StepsFor(who)) /\ Tail(L[n]) = RolesLeft(who, Rest)
  BY WalkHead
<1>3. S \in Seq(StepsFor(who)) /\ P \in Seq(Roles) /\ RolesLeft(who, S) = P
  BY DEF Means
<1>4. RolesLeft(who, S \o Rest) = P \o Tail(L[n])
  <2> HIDE DEF who, L
  <2>1. RolesLeft(who, S \o Rest) = RolesLeft(who, S) \o RolesLeft(who, Rest)
    BY <1>2, <1>3, RolesLeftConcat
  <2> QED BY <1>2, <1>3, <2>1
<1>5. M[n] = P \o Tail(L[n])
  <2>1. frames'[n].todo = S \o Rest /\ n \in 1..n
    BY <1>1 DEF WentOn
  <2> QED BY <1>4, <2>1
<1>6. /\ \A k \in 1..n - 1 : M[k] = L[k]
      /\ \A k \in 1..n : Q[k] = R[k]
  <2>1. \A k \in 1..n - 1 : frames'[k] = frames[k] /\ k \in 1..n
    BY <1>1 DEF WentOn, SameBelow
  <2>2. \A k \in 1..n : frames'[k].rest = frames[k].rest
    BY DEF WentOn, SameKinds, SameCall
  <2> QED BY <2>1, <2>2 DEF WalkLefts, WalkRests
<1>7. Owes(n, L, R, wtodo)
  BY DEF WalkAgreed
<1>8. \A k \in 1..n : M[k] = RolesLeft(WhoIn(c, k), frames'[k].todo) /\ Q[k] = frames'[k].rest
  OBVIOUS
<1>9. Len(frames') = n /\ Len(walk') = c
  BY DEF WentOn
<1> HIDE DEF n, c, L, R, M, Q, who
<1>10. Owes(n, M, Q, wtodo')
  BY <1>1, <1>2, <1>3, <1>5, <1>6, <1>7, OwesInPlace
<1> QED BY <1>1, <1>8, <1>9, <1>10, WalkAgreedIf

(* It calls a reader of the item's parts.                                   *)
LEMMA WalkAgreedCall ==
  ASSUME StreamShape, WalkAgreed, NEW i, Begins(i), NEW c \in Nat, Len(walk') = c,
         \A k \in 1..Depth : WhoIn(c, k) = WhoIn(Calls, k),
         Means(WhoIn(c, Depth + 1), frames'[Depth + 1].todo, Parts(i))
  PROVE  WalkAgreed'
<1> DEFINE n == Depth
           P == Parts(i)
           who == WhoIn(Calls, n)
           L == WalkLefts
           R == WalkRests
           M == [k \in 1..n + 1 |-> RolesLeft(WhoIn(c, k), frames'[k].todo)]
           Q == [k \in 1..n + 1 |-> frames'[k].rest]
<1>1. n \in Nat \ {0} /\ n \in 1..n /\ n \in 1..n + 1 /\ n + 1 \in 1..n + 1
  BY ShapeTop
<1>2. /\ Top.todo # <<>> /\ Step \notin Silent /\ Len(frames') = n + 1 /\ SameBelow(n - 1)
      /\ SameKinds(n) /\ frames'[n].todo = Rest /\ frames'[n + 1].rest = Len(wtodo) - 1
      /\ wtodo' = P \o Tail(wtodo)
  BY DEF Begins, Busy, Write
<1>3. L[n] # <<>> /\ Tail(L[n]) = RolesLeft(who, Rest)
  BY <1>2, WalkHead
<1>4. P \in Seq(Roles) /\ RolesLeft(WhoIn(c, n + 1), frames'[n + 1].todo) = P
  BY DEF Means
<1>5. M[n] = Tail(L[n]) /\ M[n + 1] = P /\ Q[n + 1] = Len(wtodo) - 1
  <2>1. WhoIn(c, n) = who
    BY <1>1
  <2> QED BY <1>1, <1>2, <1>3, <1>4, <2>1
<1>6. /\ \A k \in 1..n - 1 : M[k] = L[k]
      /\ \A k \in 1..n : Q[k] = R[k]
  <2>1. \A k \in 1..n - 1 : frames'[k] = frames[k] /\ k \in 1..n /\ k \in 1..n + 1
    BY <1>1, <1>2 DEF SameBelow
  <2>2. \A k \in 1..n : frames'[k].rest = frames[k].rest /\ k \in 1..n + 1
    BY <1>1, <1>2 DEF SameKinds, SameCall
  <2> QED BY <2>1, <2>2 DEF WalkLefts, WalkRests
<1>7. Owes(n, L, R, wtodo)
  BY DEF WalkAgreed
<1>8. \A k \in 1..n + 1 : M[k] = RolesLeft(WhoIn(c, k), frames'[k].todo) /\ Q[k] = frames'[k].rest
  OBVIOUS
<1>9. n + 1 \in Nat
  BY <1>1
<1> HIDE DEF n, L, R, M, Q, who, P
<1>10. Owes(n + 1, M, Q, wtodo')
  <2>1. Owes(n + 1, M, Q, P \o Tail(wtodo))
    BY <1>1, <1>3, <1>4, <1>5, <1>6, <1>7, OwesCall
  <2> QED BY <1>2, <2>1
<1> QED BY <1>2, <1>8, <1>9, <1>10, WalkAgreedIf

(* It returns.                                                              *)
LEMMA WalkAgreedReturn ==
  ASSUME StreamShape, WalkAgreed, Top.todo = <<>>, Len(frames') = Depth - 1, Depth > 1,
         SameBelow(Depth - 2), SameKinds(Depth - 1),
         frames'[Depth - 1].todo = frames[Depth - 1].todo, wtodo' = wtodo,
         NEW c \in Nat, Len(walk') = c,
         \A k \in 1..Depth - 1 : WhoIn(c, k) = WhoIn(Calls, k)
  PROVE  WalkAgreed'
<1> DEFINE n == Depth
           L == WalkLefts
           R == WalkRests
           M == [k \in 1..n - 1 |-> RolesLeft(WhoIn(c, k), frames'[k].todo)]
           Q == [k \in 1..n - 1 |-> frames'[k].rest]
<1>1. n \in Nat \ {0} /\ n \in 1..n /\ n - 1 \in Nat
  BY ShapeTop
<1>2. L[n] = <<>>
  <2>1. L[n] = RolesLeft(WhoIn(Calls, n), <<>>)
    BY <1>1 DEF WalkLefts, Top
  <2> QED BY <2>1, RolesLeftNone
<1>3. ASSUME NEW k \in 1..n - 1 PROVE M[k] = L[k] /\ Q[k] = R[k]
  <2>1. k \in 1..n /\ (k \in 1..n - 2 \/ k = n - 1)
    BY <1>1
  <2>2. frames'[k].todo = frames[k].todo
    BY <2>1 DEF SameBelow
  <2>3. frames'[k].rest = frames[k].rest
    BY DEF SameKinds, SameCall
  <2>4. WhoIn(c, k) = WhoIn(Calls, k)
    OBVIOUS
  <2> QED BY <2>1, <2>2, <2>3, <2>4 DEF WalkLefts, WalkRests
<1>4. Owes(n, L, R, wtodo)
  BY DEF WalkAgreed
<1>5. \A k \in 1..n - 1 : M[k] = RolesLeft(WhoIn(c, k), frames'[k].todo) /\ Q[k] = frames'[k].rest
  OBVIOUS
<1>8. \A k \in 1..n - 1 : M[k] = L[k] /\ Q[k] = R[k]
  BY <1>3
<1> HIDE DEF n, L, R, M, Q
<1>6. Owes(n - 1, M, Q, wtodo)
  <2>1. n \in Nat \ {0} /\ Owes(n, L, R, wtodo) /\ L[n] = <<>>
    BY <1>1, <1>2, <1>4
  <2> QED BY ONLY <2>1, <1>8, OwesReturn
<1>7. Owes(n - 1, M, Q, wtodo') /\ Len(frames') = n - 1
  BY <1>6 DEF n
<1> QED BY <1>1, <1>5, <1>7, WalkAgreedIf

(* It does something that reads nothing.                                    *)
LEMMA WalkAgreedSilent ==
  ASSUME StreamShape, WalkAgreed, Len(frames') = Depth, SameBelow(Depth - 1),
         frames'[Depth].rest = Top.rest, Len(walk') = Calls, wtodo' = wtodo,
         RolesLeft(WhoIn(Calls, Depth), frames'[Depth].todo)
           = RolesLeft(WhoIn(Calls, Depth), Top.todo)
  PROVE  WalkAgreed'
<1> DEFINE n == Depth
           c == Calls
           L == WalkLefts
           R == WalkRests
<1>1. n \in Nat \ {0}
  BY ShapeTop
<1>2. ASSUME NEW k \in 1..n
      PROVE  L[k] = RolesLeft(WhoIn(c, k), frames'[k].todo) /\ R[k] = frames'[k].rest
  <2>1. CASE k = n
    BY <2>1 DEF WalkLefts, WalkRests, Top
  <2>2. CASE k # n
    <3>1. k \in 1..n - 1
      BY <1>1, <2>2
    <3>2. frames'[k] = frames[k]
      BY <3>1 DEF SameBelow
    <3> QED BY <3>2 DEF WalkLefts, WalkRests
  <2> QED BY <2>1, <2>2
<1>3. Owes(n, L, R, wtodo') /\ Len(frames') = n /\ Len(walk') = c /\ n \in Nat
  BY <1>1 DEF WalkAgreed
<1> HIDE DEF n, c, L, R
<1> QED BY <1>2, <1>3, WalkAgreedIf

LEMMA WalkAgreedSame ==
  ASSUME WalkAgreed, UNCHANGED <<frames, walk, wtodo>>
  PROVE  WalkAgreed'
BY DEF WalkAgreed, Owes, OwesBy, WalkLefts, WalkRests, Depth, Calls
(* The next cell of a pairlist has no attributes.                           *)
LEMMA CellMeans ==
  ASSUME WalkHandled, StreamShape, WalkAgreed, NEW i \in NextItems, NEW S, ReadsCell(i, S)
  PROVE  Means(WhoIn(Calls, Depth), S, Parts(i))
<1> DEFINE role == Head(wtodo)
<1>1. /\ RTypeOK /\ i.type # "ref" /\ (i.tag \/ i.type \in Pairs)
      /\ Top.todo # <<>> /\ Step \notin Silent
      /\ \/ InWalk /\ Step = "tail" /\ S = WalkCell(i)
         \/ ~InWalk /\ Step = "next" /\ S = Steps(Item("list", FALSE, i.tag, 0, 0))
  BY DEF ReadsCell, Busy, StreamShape, StreamTypes, Tables
<1>2. role = "cdr"
  <2>1. role = RoleFor(WhoIn(Calls, Depth), Step)
    BY <1>1, WalkHead
  <2> QED BY <1>1, <2>1, WhoReads DEF RoleFor, WalkRoleOf, RoleOf
<1>3. i \in NewItems(role) /\ role \in Roles
  BY <1>1, NextItemFacts
<1>4. /\ i.type \in KindsOf(role) /\ i \in Items
      /\ i.tag => i.type = "clo" \/ role = "cell" \/ i.type \in RTagged
      /\ i.attr /\ role = "cdr" => CellAttrs
  BY <1>1, <1>3, NewItemFacts
<1>5. i.type = "list" /\ ~i.attr
  BY <1>1, <1>2, <1>4 DEF KindsOf, WalkHandled, Handled, Pairs, RTagged
<1>6. CASE InWalk
  <2>1. Means("walk", WalkData(i), Contents(i)) /\ WalkData(i) = S
    BY <1>1, <1>3, <1>5, <1>6, WalkDataMeans DEF WalkData, SymbolKinds
  <2>2. Parts(i) = Contents(i)
    <3>1. AttrsBefore(i) = <<>> /\ AttrsAfter(i) = <<>> /\ Contents(i) \in Seq(Roles)
      BY <1>5, <2>1 DEF AttrsBefore, AttrsAfter, Means
    <3> QED BY <3>1, ConcatEmptySeq DEF Parts
  <2> QED BY <1>6, <2>1, <2>2, WhoReads
<1>7. CASE ~InWalk
  <2> DEFINE cell == Item("list", FALSE, i.tag, 0, 0)
  <2>1. cell.type = "list" /\ ~cell.attr /\ cell.tag = i.tag
    BY DEF Item
  <2>2. S = Steps(cell)
    BY <1>1, <1>7
  <2> HIDE DEF cell
  <2>3. S = Steps(i)
    BY <1>5, <2>1, <2>2 DEF Steps, EarlyAttrs, Data, LateAttrs, ParseCell, IfTagged, SymbolKinds
  <2>4. Match(S, Parts(i))
    BY <1>1, <1>3, <2>3, StepsMatchParts DEF WalkHandled
  <2> QED BY <1>7, <2>4, MatchMeans, WhoReads
<1> QED BY <1>6, <1>7

AlignInv == Going /\ eof = "no" /\ ~stopped => NoTriples /\ WalkAgreed

(* Reads.                                                                   *)
LEMMA PassOverAgrees ==
  ASSUME StreamShape, NoTriples, WalkAgreed, eof = "no", ~stopped, PassesOver
  PROVE  NoTriples' /\ WalkAgreed'
<1>1. /\ Top.todo # <<>> /\ Step \notin Silent /\ WentOn(Rest) /\ Len(walk') = Calls
      /\ RTypeOK
  BY DEF PassesOver, Busy, StreamShape, StreamTypes, Tables
<1>2. wtodo # <<>> /\ Rest \in Seq(StepsFor(WhoIn(Calls, Depth)))
  BY <1>1, WalkHead
<1>3. wtodo' = <<>> \o Tail(wtodo)
  <2>1. PICK i \in NextItems : i.type = "ref" /\ Write(i)
    BY <1>2 DEF PassesOver, AtEnd
  <2> QED BY <1>1, <2>1, RefHasNoParts
<1>4. Rest = <<>> \o Rest
  BY <1>2, ConcatEmptySeq
<1>5. Means(WhoIn(Calls, Depth), <<>>, <<>>)
  BY MeansNone
<1>6. WalkAgreed'
  <2> DEFINE S == <<>>
             P == <<>>
             t == Rest
  <2>1. WentOn(S \o t) /\ wtodo' = P \o Tail(wtodo) /\ Means(WhoIn(Calls, Depth), S, P)
    BY <1>1, <1>3, <1>4, <1>5
  <2> QED BY <1>1, <2>1, WalkAgreedInPlace
<1>7. NoTriples'
  BY <1>1 DEF NoTriples, WentOn, SameKinds, SameCall, Depth
<1> QED BY <1>6, <1>7

LEMMA ReadsCellAgrees ==
  ASSUME WalkHandled, StreamShape, NoTriples, WalkAgreed, NEW i \in NextItems, NEW S,
         ReadsCell(i, S)
  PROVE  NoTriples' /\ WalkAgreed'
<1>1. /\ Top.todo # <<>> /\ Step \notin Silent /\ WentOn(S \o Rest) /\ Len(walk') = Calls
      /\ wtodo' = Parts(i) \o Tail(wtodo)
  BY DEF ReadsCell, Busy, Write, Calls
<1>2. Means(WhoIn(Calls, Depth), S, Parts(i))
  BY CellMeans
<1>3. WalkAgreed'
  BY <1>1, <1>2, WalkAgreedInPlace
<1>4. NoTriples'
  BY <1>1 DEF NoTriples, WentOn, SameKinds, SameCall, Depth
<1> QED BY <1>3, <1>4

LEMMA BeginsAgrees ==
  ASSUME WalkHandled, StreamShape, NoTriples, WalkAgreed, NEW i \in NextItems,
         WalkBegins(i) \/ ParseBegins(i)
  PROVE  NoTriples' /\ WalkAgreed'
<1> DEFINE role == Head(wtodo)
           n == Depth
<1>1. /\ Begins(i) /\ i.type # "ref" /\ RTypeOK /\ Len(frames') = n + 1 /\ SameKinds(n)
      /\ frames'[n + 1].op = i.type
  BY DEF WalkBegins, ParseBegins, Begins, StreamShape, StreamTypes, Tables
<1>2. i \in NewItems(role) /\ role \in Roles
  BY <1>1, NextItemFacts
<1>3. n \in Nat \ {0} /\ Calls \in Nat /\ Calls < n
      /\ (InWalk <=> n = Calls + 1) /\ (~InWalk <=> n > Calls + 1)
  BY ShapeTop
<1>4. NoTriples'
  <2>1. i.type # "real3"
    <3>1. i.type \in KindsOf(role)
      BY <1>1, <1>2, NewItemFacts
    <3> QED BY <1>2, <3>1 DEF WalkHandled, Handled, KindsOf, Roles, SymbolKinds, EnvKinds
  <2>2. ASSUME NEW k \in 1..n + 1 PROVE frames'[k].op # "real3"
    <3>1. k \in 1..n \/ k = n + 1
      BY <1>3
    <3> QED BY <1>1, <2>1, <3>1 DEF NoTriples, SameKinds, SameCall
  <2> QED BY <1>1, <2>2 DEF NoTriples, Depth
<1>5. CASE WalkBegins(i)
  <2>1. PICK c \in Nat : c = Calls + 1
    BY <1>3
  <2>2. Len(walk') = c /\ frames'[n + 1].todo = WalkSteps(i) /\ InWalk
    BY <1>5, <2>1 DEF WalkBegins
  <2>3. /\ \A k \in 1..n : WhoIn(c, k) = WhoIn(Calls, k)
        /\ WhoIn(c, n + 1) = "walk"
    BY <1>3, <2>1, <2>2 DEF WhoIn
  <2>4. Means("walk", WalkSteps(i), Parts(i))
    BY <1>1, <1>2, WalkStepsMean
  <2> QED BY <1>1, <1>4, <2>2, <2>3, <2>4, WalkAgreedCall
<1>6. CASE ParseBegins(i)
  <2>1. PICK c \in Nat : c = Calls
    BY <1>3
  <2>2. Len(walk') = c /\ frames'[n + 1].todo = Steps(i)
    BY <1>6, <2>1 DEF ParseBegins, Calls
  <2>3. /\ \A k \in 1..n : WhoIn(c, k) = WhoIn(Calls, k)
        /\ WhoIn(c, n + 1) = "parse"
    BY <1>3, <2>1, <2>2 DEF WhoIn
  <2>4. Means("parse", Steps(i), Parts(i))
    BY <1>1, <1>2, StepsMatchParts, MatchMeans DEF WalkHandled
  <2> QED BY <1>1, <1>4, <2>2, <2>3, <2>4, WalkAgreedCall
<1> QED BY <1>5, <1>6

(* Steps that read nothing.                                                 *)
LEMMA SilentStepAgrees ==
  ASSUME StreamShape, NoTriples, WalkAgreed, InWalk, Top.todo # <<>>, Step \in Silent,
         NEW s, Means("walk", s, <<>>), Len(frames') = Depth, SameBelow(Depth - 1),
         frames'[Depth].todo = s \o Rest, frames'[Depth].rest = Top.rest,
         frames'[Depth].op = Top.op, Len(walk') = Calls, wtodo' = wtodo
  PROVE  NoTriples' /\ WalkAgreed'
<1>1. Depth \in Nat \ {0} /\ Top.todo \in Seq(StepsFor("walk")) /\ WhoIn(Calls, Depth) = "walk"
  BY ShapeTop, WhoReads DEF WalkNames
<1>2. RolesLeft("walk", s \o Rest) = RolesLeft("walk", Top.todo)
  <2>1. Rest \in Seq(StepsFor("walk")) /\ RolesLeft("walk", Rest) = RolesLeft("walk", Top.todo)
    BY <1>1, RolesLeftTail DEF Rest, Step
  <2>2. s \in Seq(StepsFor("walk")) /\ RolesLeft("walk", s) = <<>>
    BY DEF Means
  <2>3. RolesLeft("walk", s \o Rest) = <<>> \o RolesLeft("walk", Rest)
    BY <2>1, <2>2, RolesLeftConcat
  <2>4. RolesLeft("walk", Rest) \in Seq(Roles)
    BY <2>1, RolesLeftType
  <2> QED BY <2>1, <2>3, <2>4, ConcatEmptySeq
<1>3. WalkAgreed'
  BY <1>1, <1>2, WalkAgreedSilent
<1>4. ASSUME NEW k \in 1..Depth PROVE frames'[k].op # "real3"
  <2>1. k \in 1..Depth - 1 \/ k = Depth
    BY <1>1
  <2> QED BY <2>1 DEF NoTriples, SameBelow, Top
<1> QED BY <1>3, <1>4 DEF NoTriples, Depth

LEMMA QuietAgrees ==
  ASSUME StreamShape, NoTriples, WalkAgreed, Starts \/ OpensReport \/ LeavesReport
  PROVE  NoTriples' /\ WalkAgreed'
<1>1. /\ Means("walk", <<>>, <<>>) /\ Means("walk", <<"endreport">>, <<>>)
      /\ Means("walk", <<"report", "endreport">>, <<>>)
  <2>1. Means("walk", <<"report">>, <<>>) /\ Means("walk", <<"endreport">>, <<>>)
    BY SilentMeans DEF Silent
  <2> DEFINE t == <<"report", "endreport">>
  <2>2. /\ t \in Seq(StepsFor("walk")) /\ t # <<>> /\ Head(t) \in Silent
        /\ Tail(t) = <<"endreport">>
    BY DEF StepsFor, Silent
  <2> HIDE DEF t
  <2>3. RolesLeft("walk", t) = <<>>
    BY <2>1, <2>2, RolesLeftTail DEF Means
  <2>4. Means("walk", t, <<>>)
    BY <2>1, <2>2, <2>3 DEF Means
  <2> QED BY <2>1, <2>4, MeansNone DEF t
<1>2. Depth \in Nat \ {0} /\ (Top.todo # <<>> => Rest \in Seq(StepsAt(Depth)))
  BY ShapeTop
<1>3. Top.todo # <<>> => Rest = <<>> \o Rest
  BY <1>2, ConcatEmptySeq
<1>4. CASE Starts
  <2> DEFINE s == <<>>
  <2>1. /\ InWalk /\ Top.todo # <<>> /\ Step \in Silent /\ Means("walk", s, <<>>)
        /\ Len(frames') = Depth /\ SameBelow(Depth - 1) /\ frames'[Depth].todo = s \o Rest
        /\ frames'[Depth].rest = Top.rest /\ frames'[Depth].op = Top.op
        /\ Len(walk') = Calls /\ wtodo' = wtodo
    BY <1>1, <1>3, <1>4 DEF Starts, Silent, rvars
  <2> QED BY <2>1, SilentStepAgrees
<1>5. ASSUME NEW s, Means("walk", s, <<>>), Reports(s \o Rest), Step \in Silent
      PROVE  NoTriples' /\ WalkAgreed'
  <2>1. /\ InWalk /\ Top.todo # <<>> /\ Len(frames') = Depth /\ SameBelow(Depth - 1)
        /\ frames'[Depth].todo = s \o Rest /\ SameKinds(Depth)
        /\ Len(walk') = Calls /\ wtodo' = wtodo
    BY <1>5 DEF Reports, WentOn, rvars, Calls
  <2>2. frames'[Depth].rest = Top.rest /\ frames'[Depth].op = Top.op
    <3>1. Depth \in 1..Depth
      BY <1>2
    <3> QED BY <2>1, <3>1 DEF SameKinds, SameCall, Top
  <2> QED BY <1>5, <2>1, <2>2, SilentStepAgrees
<1>6. CASE OpensReport
  BY <1>1, <1>5, <1>6 DEF OpensReport, Silent
<1>7. CASE LeavesReport
  <2>1. Reports(Rest) /\ Step \in Silent /\ Top.todo # <<>>
    BY <1>7 DEF LeavesReport, Reports, Silent
  <2> DEFINE s == <<>>
  <2>2. Reports(s \o Rest) /\ Means("walk", s, <<>>)
    BY <1>1, <1>3, <2>1
  <2> QED BY <1>5, <2>1, <2>2
<1> QED BY <1>4, <1>6, <1>7

(* Returns.                                                                 *)
LEMMA ReturnsAgree ==
  ASSUME StreamShape, NoTriples, WalkAgreed, ~stopped, Ends \/ ParseEnds
  PROVE  NoTriples' /\ WalkAgreed'
<1>1. Depth \in Nat \ {0} /\ Calls \in Nat /\ Calls < Depth /\ Depth \in 1..Depth
      /\ (InWalk <=> Depth = Calls + 1) /\ (~InWalk <=> Depth > Calls + 1)
  BY ShapeTop
<1>2. Depth > 1
  BY <1>1 DEF Ends, WalkPops, ParseEnds
<1>3. /\ Top.todo = <<>> /\ Len(frames') = Depth - 1 /\ SameBelow(Depth - 2)
      /\ SameKinds(Depth - 1) /\ wtodo' = wtodo
      /\ frames'[Depth - 1].todo = frames[Depth - 1].todo
  <2>1. ~Swallows(frames[Depth - 1], Top)
    BY <1>1 DEF NoTriples, Swallows, Top
  <2> QED BY <2>1 DEF Ends, WalkPops, ParseEnds, rvars
<1>4. PICK c \in Nat : Len(walk') = c /\ \A k \in 1..Depth - 1 : WhoIn(c, k) = WhoIn(Calls, k)
  <2>1. CASE Ends
    <3>1. Calls - 1 \in Nat /\ Len(walk') = Calls - 1 /\ Depth = Calls + 1
      BY <1>1, <2>1 DEF Ends, WalkPops
    <3>2. \A k \in 1..Depth - 1 : WhoIn(Calls - 1, k) = WhoIn(Calls, k)
      BY <1>1, <3>1 DEF WhoIn
    <3> QED BY <3>1, <3>2
  <2>2. CASE ParseEnds
    BY <1>1, <2>2 DEF ParseEnds, Calls
  <2> QED BY <2>1, <2>2
<1>5. WalkAgreed'
  BY <1>2, <1>3, <1>4, WalkAgreedReturn
<1>6. ASSUME NEW k \in 1..Depth - 1 PROVE frames'[k].op # "real3"
  <2>1. k \in 1..Depth
    BY <1>1
  <2> QED BY <1>3, <2>1 DEF NoTriples, SameKinds, SameCall
<1> QED BY <1>3, <1>5, <1>6 DEF NoTriples, Depth
LEMMA AlignStep ==
  ASSUME WalkHandled, StreamShape, AlignInv, Effect
  PROVE  AlignInv'
<1> SUFFICES ASSUME Going', eof' = "no", ~stopped'
             PROVE  NoTriples' /\ WalkAgreed'
  BY DEF AlignInv
<1>1. CASE PassesOver
  <2>1. Going /\ eof = "no" /\ ~stopped
    BY <1>1 DEF PassesOver, Busy, Going, Untouched
  <2> QED BY <1>1, <2>1, PassOverAgrees DEF AlignInv
<1>2. CASE \E i \in NextItems : (\E S : ReadsCell(i, S)) \/ WalkBegins(i) \/ ParseBegins(i)
  <2>1. PICK i \in NextItems : (\E S : ReadsCell(i, S)) \/ WalkBegins(i) \/ ParseBegins(i)
    BY <1>2
  <2>2. Going /\ ~stopped /\ eof' = eof
    BY <2>1 DEF Going, ReadsCell, WalkBegins, ParseBegins, Begins, Busy, Untouched
  <2>3. NoTriples /\ WalkAgreed
    BY <2>2 DEF AlignInv
  <2> QED BY <2>1, <2>3, ReadsCellAgrees, BeginsAgrees
<1>3. CASE Starts \/ OpensReport \/ LeavesReport
  <2>1. Going /\ eof = "no" /\ ~stopped
    BY <1>3 DEF Starts, OpensReport, LeavesReport, Reports, Going
  <2> QED BY <1>3, <2>1, QuietAgrees DEF AlignInv
<1>4. CASE StopsHere
  BY <1>4 DEF StopsHere
<1>5. CASE Ends \/ ParseEnds
  <2>1. Going /\ eof = "no" /\ ~stopped
    BY <1>5 DEF Ends, WalkPops, ParseEnds, Going
  <2> QED BY <1>5, <2>1, ReturnsAgree DEF AlignInv
<1>6. CASE GivesUp
  BY <1>6 DEF GivesUp, Going
<1>7. CASE Stays
  <2>1. /\ UNCHANGED <<rvars, frames, walk, stopped>> /\ eof = "no" /\ Going
    BY <1>7 DEF Stays
  <2>2. NoTriples /\ WalkAgreed
    BY <2>1 DEF AlignInv
  <2> QED BY <2>1, <2>2, WalkAgreedSame DEF rvars, NoTriples, Depth
<1> QED BY <1>1, <1>2, <1>3, <1>4, <1>5, <1>6, <1>7 DEF Effect

LEMMA AlignBegins == StreamInit => AlignInv
<1> SUFFICES ASSUME StreamInit PROVE NoTriples /\ WalkAgreed
  BY DEF AlignInv
<1> DEFINE f == [op |-> "root", as |-> "root", todo |-> <<"root">>, ref |-> 0,
                 plain |-> TRUE, rn |-> FALSE, wasBody |-> FALSE,
                 wasLazy |-> Lazy, rest |-> 0]
           r == <<"item">>
<1>1. /\ frames = <<f>> /\ f.todo = <<"root">> /\ f.rest = 0 /\ f.op = "root"
      /\ walk = <<>> /\ wtodo = r
  BY DEF StreamInit, RInit
<1>2. "root" \in StepsFor("walk") /\ "root" \notin Silent /\ RoleFor("walk", "root") = "item"
      /\ "item" \in Roles
  BY DEF StepsFor, Segments, Silent, RoleFor, WalkRoleOf, Roles
<1>3. RolesLeft("walk", <<"root">>) = r /\ r \in Seq(Roles)
  BY <1>2, RolesLeftOne
<1> HIDE DEF f, r
<1>4. Depth = 1 /\ Calls = 0 /\ frames[1] = f
  BY <1>1 DEF Depth, Calls
<1>5. NoTriples
  BY <1>1, <1>4 DEF NoTriples
<1> DEFINE L == WalkLefts
           R == WalkRests
<1>6. L[1] = r /\ R[1] = 0
  BY <1>1, <1>3, <1>4 DEF WalkLefts, WalkRests, WhoIn
<1> HIDE DEF L, R
<1>7. Owes(1, L, R, wtodo)
  BY <1>1, <1>3, <1>6, OwesFirst
<1> QED BY <1>4, <1>5, <1>7 DEF WalkAgreed, L, R

(* Reported, skipped or inside another object's attributes: the traversal   *)
(* and parse_object together read every item for what R meant by it, until  *)
(* the visitor stops the walk.                                              *)
THEOREM WalkStaysAligned == WalkHandled => (StreamSpec => []WalkAligned)
<1> SUFFICES ASSUME WalkHandled PROVE StreamSpec => []WalkAligned
  OBVIOUS
<1>1. StreamShape /\ AlignInv => WalkAligned
  <2> SUFFICES ASSUME StreamShape, AlignInv, Going, eof = "no", ~stopped, NEW k \in 1..Depth
               PROVE  LET left == IF k = Depth THEN Len(wtodo) ELSE frames[k + 1].rest
                          todo == Loud(frames[k].todo)
                      IN /\ Len(todo) + frames[k].rest = left
                         /\ \A j \in 1..Len(todo) :
                              (IF k <= Calls + 1 THEN WalkRoleOf(todo[j]) ELSE RoleOf(todo[j]))
                                = wtodo[Len(wtodo) - left + j]
    BY DEF WalkAligned, Going
  <2> DEFINE left == IF k = Depth THEN Len(wtodo) ELSE frames[k + 1].rest
             todo == Loud(frames[k].todo)
             who == WhoIn(Calls, k)
             L == WalkLefts
             R == WalkRests
             n == Depth
  <2>1. n \in Nat \ {0} /\ frames[k].todo \in Seq(StepsFor(who))
    BY ShapeTop, WhoReads
  <2>2. L[k] = RolesLeft(who, frames[k].todo) /\ R[k] = frames[k].rest
        /\ (k # n => R[k + 1] = frames[k + 1].rest)
    <3>1. k # n => k + 1 \in 1..n
      BY <2>1
    <3> QED BY <3>1 DEF WalkLefts, WalkRests
  <2>3. Len(L[k]) = Len(todo) /\ \A j \in 1..Len(todo) : L[k][j] = RoleFor(who, todo[j])
    <3> DEFINE t == frames[k].todo
    <3>1. t \in Seq(StepsFor(who)) /\ L[k] = RolesLeft(who, t) /\ todo = Loud(t)
      BY <2>1, <2>2
    <3> HIDE DEF t, who, L, todo
    <3> QED BY <3>1, RolesLeftType
  <2>4. \A x : RoleFor(who, x) = IF k <= Calls + 1 THEN WalkRoleOf(x) ELSE RoleOf(x)
    BY DEF RoleFor, WhoIn
  <2>5. Owes(n, L, R, wtodo) /\ k \in 1..n
    BY DEF AlignInv, WalkAgreed
  <2> HIDE DEF L, R, n
  <2>6. LET l == IF k = n THEN Len(wtodo) ELSE R[k + 1] IN
        /\ Len(L[k]) + R[k] = l
        /\ \A j \in 1..Len(L[k]) : L[k][j] = wtodo[Len(wtodo) - l + j]
    BY <2>1, <2>5, OwesLaid
  <2>7. left = IF k = n THEN Len(wtodo) ELSE R[k + 1]
    BY <2>2 DEF n
  <2> HIDE DEF left, todo, who
  <2>8. Len(todo) + R[k] = left
        /\ \A j \in 1..Len(todo) : RoleFor(who, todo[j]) = wtodo[Len(wtodo) - left + j]
    BY <2>3, <2>6, <2>7
  <2> QED BY <2>2, <2>4, <2>8 DEF left, todo
<1>2. StreamShape /\ AlignInv /\ [StreamNext]_streamVars => AlignInv'
  BY StreamStep, AlignStep
<1> QED BY <1>1, <1>2, AlignBegins, ShapeHolds, PTL DEF StreamSpec

=============================================================================
