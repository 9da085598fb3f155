------------------------- MODULE ParseObjectProofs -------------------------
(***************************************************************************)
(* Proofs about ParseObject, for every choice of its constants.             *)
(***************************************************************************)
EXTENDS ParseObject, SequenceTheorems, FiniteSetTheorems, TLAPS

(* The streams the parser handles: no external pointers (their two parts    *)
(* are not read), no attributes on later pairlist cells (they are not read  *)
(* either) and no vector that looks like the state of a compact sequence    *)
(* (the element after it is dropped).  Each exception is a run of its own.  *)
Handled ==
  /\ Kinds \cap {"extptr", "real3"} = {}
  /\ CellAttrs = FALSE
-----------------------------------------------------------------------------
(* What R writes: every item has the type of an item, and stands in a role  *)
(* its kind may stand in.                                                   *)
LEMMA NewItemFacts ==
  ASSUME RTypeOK, NEW role \in Roles, NEW i \in NewItems(role)
  PROVE  /\ i \in Items /\ i.type \in KindsOf(role) /\ i.type \in AllKinds
         /\ i.id = IF i.type \in RTracked THEN Len(wtable) + 1 ELSE 0
         /\ i.attr => i.type \in RAttributed
         /\ i.attr /\ role = "cdr" => CellAttrs
         /\ i.tag => i.type = "clo" \/ role = "cell" \/ i.type \in RTagged
         /\ i.type = "clo" \/ role = "cell" => i.tag
<1>1. i.type \in KindsOf(role)
  BY StreamAssumption DEF NewItems, ClosingKindsOf, KindsOf, Roles, SymbolKinds
<1>2. i.type \in AllKinds
  BY <1>1, StreamAssumption
  DEF KindsOf, Roles, AllKinds, RAttributed, RTracked, SymbolKinds, EnvKinds
<1>3. i.id = IF i.type \in RTracked THEN Len(wtable) + 1 ELSE 0
  BY DEF NewItems
<1>4. i.attr \in AttrsOf(i.type, role) /\ i.attr \in BOOLEAN
  BY DEF NewItems
<1>5. i.tag \in TagsOf(i.type, role) /\ i.tag \in BOOLEAN
  BY DEF NewItems
<1>6. (i.attr => i.type \in RAttributed) /\ (i.attr /\ role = "cdr" => CellAttrs)
  <2>1. CASE AttrsOf(i.type, role) = {FALSE}
    BY <1>4, <2>1
  <2>2. CASE AttrsOf(i.type, role) # {FALSE}
    BY <2>2 DEF AttrsOf
  <2> QED BY <2>1, <2>2
<1>7. i.tag => i.type = "clo" \/ role = "cell" \/ i.type \in RTagged
  BY <1>5 DEF TagsOf
<1>8. i.type = "clo" \/ role = "cell" => i.tag
  BY <1>5 DEF TagsOf
<1>9. i \in Items
  <2>1. /\ i \in [type : IF Closing THEN ClosingKindsOf(role) ELSE KindsOf(role),
                  attr : BOOLEAN, tag : BOOLEAN,
                  id : {0, Len(wtable) + 1}, n : Lens \cup {0}]
    BY DEF NewItems
  <2>2. Len(wtable) + 1 \in Nat /\ Lens \cup {0} \subseteq Nat
    BY StreamAssumption DEF RTypeOK
  <2> QED BY <1>2, <2>1, <2>2 DEF Items
<1> QED BY <1>1, <1>2, <1>3, <1>6, <1>7, <1>8, <1>9

LEMMA RefItemFacts ==
  ASSUME RTypeOK, NEW role \in Roles, NEW i \in RefItems(role)
  PROVE  /\ i \in Items /\ i.type = "ref"
         /\ i.id \in 1..Len(wtable)
         /\ ~OldTags \/ role # "tag" =>
              i.id \in 1..Len(wtable) /\ wtable[i.id] \in KindsOf(role)
<1>1. PICK k \in 1..Len(wtable) :
        wtable[k] \in KindsOf(role) /\ i = Item("ref", FALSE, FALSE, IndexOf(role, k), 0)
  BY DEF RefItems
<1>2. DEFINE C == {j \in 1..k : wtable[j] \in SymbolKinds}
<1>3. Cardinality(C) \in 0..k /\ (role = "tag" => Cardinality(C) # 0)
  <2>1. k \in Nat /\ C \subseteq 1..k
    BY DEF RTypeOK
  <2>2. IsFiniteSet(1..k) /\ Cardinality(1..k) = k
    BY <2>1, FS_Interval
  <2> HIDE DEF C
  <2>3. IsFiniteSet(C) /\ Cardinality(C) <= k
    BY <2>1, <2>2, FS_Subset
  <2>4. Cardinality(C) \in Nat
    BY <2>3, FS_CardinalityType
  <2>5. role = "tag" => k \in C
    BY <1>1, <2>1 DEF C, KindsOf, SymbolKinds
  <2>6. role = "tag" => Cardinality(C) # 0
    BY <2>3, <2>5, FS_EmptySet
  <2> QED BY <2>1, <2>3, <2>4, <2>6
<1>4. IndexOf(role, k) = IF OldTags /\ role = "tag" THEN Cardinality(C) ELSE k
  BY DEF IndexOf
<1>5. Len(wtable) \in Nat
  BY DEF RTypeOK
<1> HIDE DEF C
<1>6. IndexOf(role, k) \in 1..Len(wtable)
  BY <1>3, <1>4, <1>5
<1> QED BY <1>1, <1>4, <1>5, <1>6 DEF Item, Items

(* A sequence of reads stands for a sequence of roles.                      *)
Match(s, r) ==
  /\ s \in Seq(StepNames) /\ r \in Seq(Roles) /\ Len(s) = Len(r)
  /\ \A j \in 1..Len(s) : RoleOf(s[j]) = r[j]

LEMMA MatchConcat ==
  ASSUME NEW s1, NEW r1, NEW s2, NEW r2, Match(s1, r1), Match(s2, r2)
  PROVE  Match(s1 \o s2, r1 \o r2)
<1>0. /\ s1 \in Seq(StepNames) /\ s2 \in Seq(StepNames)
      /\ r1 \in Seq(Roles) /\ r2 \in Seq(Roles)
  BY DEF Match
<1>1. /\ s1 \o s2 \in Seq(StepNames)
      /\ Len(s1 \o s2) = Len(s1) + Len(s2)
      /\ \A i \in 1 .. Len(s1) + Len(s2) :
           (s1 \o s2)[i] = IF i <= Len(s1) THEN s1[i] ELSE s2[i - Len(s1)]
  BY <1>0, ConcatProperties
<1>2. /\ r1 \o r2 \in Seq(Roles)
      /\ Len(r1 \o r2) = Len(r1) + Len(r2)
      /\ \A i \in 1 .. Len(r1) + Len(r2) :
           (r1 \o r2)[i] = IF i <= Len(r1) THEN r1[i] ELSE r2[i - Len(r1)]
  BY <1>0, ConcatProperties
<1>3. Len(s1) \in Nat /\ Len(s2) \in Nat /\ Len(s1) = Len(r1) /\ Len(s2) = Len(r2)
  BY DEF Match
<1>4. ASSUME NEW i \in 1 .. Len(s1) + Len(s2)
      PROVE  RoleOf((s1 \o s2)[i]) = (r1 \o r2)[i]
  <2>1. CASE i <= Len(s1)
    <3>1. (s1 \o s2)[i] = s1[i] /\ (r1 \o r2)[i] = r1[i] /\ i \in 1..Len(s1)
      BY <1>1, <1>2, <1>3, <2>1
    <3> QED BY <3>1 DEF Match
  <2>2. CASE ~(i <= Len(s1))
    <3>1. /\ (s1 \o s2)[i] = s2[i - Len(s1)] /\ (r1 \o r2)[i] = r2[i - Len(s1)]
          /\ i - Len(s1) \in 1..Len(s2)
      BY <1>1, <1>2, <1>3, <2>2
    <3> QED BY <3>1 DEF Match
  <2> QED BY <2>1, <2>2
<1> QED BY <1>1, <1>2, <1>3, <1>4 DEF Match

LEMMA MatchEmpty == Match(<<>>, <<>>)
BY DEF Match

LEMMA MatchShort ==
  /\ Match(<<"early">>, <<"cell">>) /\ Match(<<"attrs">>, <<"cell">>)
  /\ Match(<<"tag">>, <<"tag">>) /\ Match(<<"ltag">>, <<"tag">>)
  /\ Match(<<"env">>, <<"env">>) /\ Match(<<"chars">>, <<"chars">>)
  /\ Match(<<"car", "next">>, <<"item", "cdr">>)
  /\ Match(<<"fn", "args">>, <<"item", "cdr">>)
  /\ Match(<<"value", "value">>, <<"item", "item">>)
  /\ Match(<<"env", "formals", "body">>, <<"env", "cdr", "item">>)
  /\ Match(<<"class", "state", "altattrs">>, <<"cell", "item", "attrib">>)
  /\ Match(<<"env", "frame", "hash", "envattrs">>, <<"env", "cdr", "hash", "attrib">>)
BY DEF Match, RoleOf, StepNames, Roles

LEMMA MatchRun ==
  ASSUME NEW n \in Nat, NEW a \in {"item", "elem"}
  PROVE  Match([j \in 1..n |-> a], [j \in 1..n |-> "item"])
BY DEF Match, RoleOf, StepNames, Roles

(* What parse_object reads of an item is what R writes of it.               *)
LEMMA StepsMatchParts ==
  ASSUME Handled, RTypeOK, NEW role \in Roles, NEW i \in NewItems(role)
  PROVE  Match(Steps(i), Parts(i))
<1>1. Match(EarlyAttrs(i), AttrsBefore(i))
  BY MatchEmpty, MatchShort DEF EarlyAttrs, AttrsBefore, Early, AttrFirst
<1>2. Match(LateAttrs(i), AttrsAfter(i))
  BY MatchEmpty, MatchShort DEF LateAttrs, AttrsAfter, Early, AttrFirst
<1>3. \A s \in {"tag", "ltag"} : Match(IfTagged(i, s), IfTagged(i, "tag"))
  BY MatchEmpty, MatchShort DEF IfTagged
<1>4. Match(IfTagged(i, "env"), IfTagged(i, "env"))
  BY MatchEmpty, MatchShort DEF IfTagged
<1>5. i.n \in Nat /\ i.type # "extptr" /\ i.type \in AllKinds
  <2>1. i.type \in KindsOf(role) /\ i \in Items /\ i.type \in AllKinds
    BY NewItemFacts
  <2>2. i.type # "extptr"
    BY <2>1 DEF Handled, KindsOf, Roles, EnvKinds, SymbolKinds
  <2> QED BY <2>1, <2>2 DEF Items
<1>6. Match(Data(i), Contents(i))
  <2>1. CASE i.type \in SymbolKinds
    <3>1. Data(i) = <<"chars">> /\ Contents(i) = <<"chars">>
      BY <2>1 DEF SymbolKinds, Data, Contents, ParseSymbol
    <3> QED BY <3>1, MatchShort
  <2>2. CASE i.type = "env"
    <3>1. /\ Data(i) = <<"env", "frame", "hash", "envattrs">>
          /\ Contents(i) = <<"env", "cdr", "hash", "attrib">>
      BY <2>2 DEF SymbolKinds, Data, Contents, ParseEnvironment
    <3> QED BY <3>1, MatchShort
  <2>3. CASE i.type = "list"
    <3>1. /\ Data(i) = IfTagged(i, "tag") \o <<"car", "next">>
          /\ Contents(i) = IfTagged(i, "tag") \o <<"item", "cdr">>
      BY <2>3 DEF SymbolKinds, Data, Contents, ParseCell
    <3>2. Match(<<"car", "next">>, <<"item", "cdr">>)
      BY MatchShort
    <3> QED BY <3>1, <3>2, <1>3, MatchConcat
  <2>4. CASE i.type = "lang"
    <3>1. /\ Data(i) = IfTagged(i, "ltag") \o <<"fn", "args">>
          /\ Contents(i) = IfTagged(i, "tag") \o <<"item", "cdr">>
      BY <2>4 DEF SymbolKinds, Data, Contents, ParseLanguage
    <3>2. Match(<<"fn", "args">>, <<"item", "cdr">>)
      BY MatchShort
    <3> QED BY <3>1, <3>2, <1>3, MatchConcat
  <2>5. CASE i.type = "clo"
    <3>1. /\ Data(i) = <<"env", "formals", "body">>
          /\ Contents(i) = <<"env", "cdr", "item">>
      BY <2>5 DEF SymbolKinds, Data, Contents, ParseClosure
    <3> QED BY <3>1, MatchShort
  <2>6. CASE i.type = "prom"
    <3>1. /\ Data(i) = IfTagged(i, "env") \o <<"value", "value">>
          /\ Contents(i) = IfTagged(i, "env") \o <<"item", "item">>
      BY <2>6 DEF SymbolKinds, Data, Contents, ParsePromise
    <3>2. Match(<<"value", "value">>, <<"item", "item">>)
      BY MatchShort
    <3> QED BY <3>1, <3>2, <1>4, MatchConcat
  <2>7. CASE i.type = "vec"
    <3>1. /\ Data(i) = [j \in 1..i.n |-> "elem"]
          /\ Contents(i) = [j \in 1..i.n |-> "item"]
      BY <2>7 DEF SymbolKinds, Data, Contents, ParseList
    <3> QED BY <3>1, <1>5, MatchRun
  <2>8. CASE i.type = "expr"
    <3>1. /\ Data(i) = [j \in 1..i.n |-> "item"]
          /\ Contents(i) = [j \in 1..i.n |-> "item"]
      BY <2>8 DEF SymbolKinds, Data, Contents, ParseExpr
    <3> QED BY <3>1, <1>5, MatchRun
  <2>9. CASE i.type = "altrep"
    <3>1. /\ Data(i) = <<"class", "state", "altattrs">>
          /\ Contents(i) = <<"cell", "item", "attrib">>
      BY <2>9 DEF SymbolKinds, Data, Contents, ParseAltrep
    <3> QED BY <3>1, MatchShort
  <2>10. CASE /\ i.type \notin SymbolKinds /\ i.type # "env" /\ i.type # "list"
              /\ i.type # "lang" /\ i.type # "clo" /\ i.type # "prom"
              /\ i.type # "vec" /\ i.type # "expr" /\ i.type # "altrep"
    <3>1. Data(i) = <<>> /\ Contents(i) = <<>>
      BY <2>10, <1>5 DEF SymbolKinds, Data, Contents
    <3> QED BY <3>1, MatchEmpty
  <2> QED BY <2>1, <2>2, <2>3, <2>4, <2>5, <2>6, <2>7, <2>8, <2>9, <2>10
<1>7. Match(EarlyAttrs(i) \o Data(i), AttrsBefore(i) \o Contents(i))
  BY <1>1, <1>6, MatchConcat
<1> QED BY <1>2, <1>7, MatchConcat DEF Steps, Parts
-----------------------------------------------------------------------------
(* Types of the operators.                                                  *)
LEMMA RoleSeqs ==
  /\ <<>> \in Seq(Roles) /\ <<"cell">> \in Seq(Roles) /\ <<"tag">> \in Seq(Roles)
  /\ <<"env">> \in Seq(Roles) /\ <<"chars">> \in Seq(Roles)
  /\ <<"item", "cdr">> \in Seq(Roles) /\ <<"item", "item">> \in Seq(Roles)
  /\ <<"env", "cdr", "item">> \in Seq(Roles)
  /\ <<"cell", "item", "attrib">> \in Seq(Roles)
  /\ <<"env", "cdr", "hash", "attrib">> \in Seq(Roles)
BY MatchShort, MatchEmpty DEF Match

LEMMA StepSeqs ==
  /\ <<>> \in Seq(StepNames) /\ <<"early">> \in Seq(StepNames)
  /\ <<"attrs">> \in Seq(StepNames) /\ <<"tag">> \in Seq(StepNames)
  /\ <<"ltag">> \in Seq(StepNames) /\ <<"env">> \in Seq(StepNames)
  /\ <<"chars">> \in Seq(StepNames) /\ <<"car", "next">> \in Seq(StepNames)
  /\ <<"fn", "args">> \in Seq(StepNames) /\ <<"value", "value">> \in Seq(StepNames)
  /\ <<"env", "formals", "body">> \in Seq(StepNames)
  /\ <<"class", "state", "altattrs">> \in Seq(StepNames)
  /\ <<"env", "frame", "hash", "envattrs">> \in Seq(StepNames)
BY MatchShort, MatchEmpty DEF Match

LEMMA ThreeConcat ==
  ASSUME NEW S, NEW a \in Seq(S), NEW b \in Seq(S), NEW c \in Seq(S)
  PROVE  a \o b \o c \in Seq(S)
BY ConcatProperties

LEMMA PartsType ==
  ASSUME NEW i \in Items
  PROVE  Parts(i) \in Seq(Roles)
<1>1. AttrsBefore(i) \in Seq(Roles) /\ AttrsAfter(i) \in Seq(Roles)
  BY RoleSeqs DEF AttrsBefore, AttrsAfter
<1>2. IfTagged(i, "tag") \in Seq(Roles) /\ IfTagged(i, "env") \in Seq(Roles)
  BY RoleSeqs DEF IfTagged
<1>3. /\ IfTagged(i, "tag") \o <<"item", "cdr">> \in Seq(Roles)
      /\ IfTagged(i, "env") \o <<"item", "item">> \in Seq(Roles)
  BY <1>2, RoleSeqs, ConcatProperties
<1>4. [j \in 1..i.n |-> "item"] \in Seq(Roles)
  <2>1. i.n \in Nat
    BY DEF Items
  <2> QED BY <2>1 DEF Roles
<1>5. Contents(i) \in Seq(Roles)
  BY RoleSeqs, <1>3, <1>4 DEF Contents
<1> QED BY <1>1, <1>5, ThreeConcat DEF Parts

LEMMA StepsType ==
  ASSUME NEW i \in Items
  PROVE  Steps(i) \in Seq(StepNames)
<1>1. EarlyAttrs(i) \in Seq(StepNames) /\ LateAttrs(i) \in Seq(StepNames)
  BY StepSeqs DEF EarlyAttrs, LateAttrs
<1>2. /\ IfTagged(i, "tag") \in Seq(StepNames)
      /\ IfTagged(i, "ltag") \in Seq(StepNames)
      /\ IfTagged(i, "env") \in Seq(StepNames)
  BY StepSeqs DEF IfTagged
<1>3. /\ ParseCell(i) \in Seq(StepNames) /\ ParseLanguage(i) \in Seq(StepNames)
      /\ ParsePromise(i) \in Seq(StepNames)
  BY <1>2, StepSeqs, ConcatProperties DEF ParseCell, ParseLanguage, ParsePromise
<1>4. ParseList(i) \in Seq(StepNames) /\ ParseExpr(i) \in Seq(StepNames)
  <2>1. i.n \in Nat
    BY DEF Items
  <2> QED BY <2>1 DEF StepNames, ParseList, ParseExpr
<1>5. Data(i) \in Seq(StepNames)
  BY StepSeqs, <1>3, <1>4
     DEF Data, ParseSymbol, ParseEnvironment, ParseClosure, ParseAltrep
<1> QED BY <1>1, <1>5, ThreeConcat DEF Steps

(* What never changes while a call is active.                               *)
SameCall(f, g) ==
  /\ f.op = g.op /\ f.as = g.as /\ f.ref = g.ref /\ f.plain = g.plain
  /\ f.wasBody = g.wasBody /\ f.wasLazy = g.wasLazy /\ f.rest = g.rest

(* A call goes on: the calls below it and the rest of its frame stay.       *)
LEMMA ContinueFacts ==
  ASSUME NEW s \in Seq(Frames), s # <<>>,
         NEW t \in Seq(StepNames), NEW r \in BOOLEAN
  PROVE  /\ Continue(s, t, r) \in Seq(Frames)
         /\ Len(Continue(s, t, r)) = Len(s)
         /\ \A k \in 1..Len(s) - 1 : Continue(s, t, r)[k] = s[k]
         /\ SameCall(Continue(s, t, r)[Len(s)], s[Len(s)])
         /\ Continue(s, t, r)[Len(s)].todo = t
         /\ Continue(s, t, r)[Len(s)].rn = r
<1>1. Len(s) \in 1..Len(s) /\ s[Len(s)] \in Frames /\ s \in [1..Len(s) -> Frames]
  BY EmptySeq, LenProperties
<1> DEFINE f == [s[Len(s)] EXCEPT !.todo = t, !.rn = r]
<1>2. f \in Frames
  BY <1>1 DEF Frames
<1>3. Continue(s, t, r) = [s EXCEPT ![Len(s)] = f]
  BY <1>1 DEF Continue, Frames
<1> HIDE DEF f
<1>4. /\ [s EXCEPT ![Len(s)] = f] \in Seq(Frames)
      /\ Len([s EXCEPT ![Len(s)] = f]) = Len(s)
      /\ \A j \in 1 .. Len(s) :
           [s EXCEPT ![Len(s)] = f][j] = IF j = Len(s) THEN f ELSE s[j]
  BY <1>1, <1>2, ExceptSeq
<1>5. SameCall(f, s[Len(s)]) /\ f.todo = t /\ f.rn = r
  BY <1>1 DEF f, SameCall, Frames
<1>6. Len(s) \in Nat \ {0}
  BY EmptySeq
<1>7. /\ Continue(s, t, r) \in Seq(Frames) /\ Len(Continue(s, t, r)) = Len(s)
      /\ Continue(s, t, r)[Len(s)] = f
  BY <1>1, <1>3, <1>4
<1>8. \A k \in 1..Len(s) - 1 : Continue(s, t, r)[k] = s[k]
  <2> SUFFICES ASSUME NEW k \in 1..Len(s) - 1 PROVE Continue(s, t, r)[k] = s[k]
    OBVIOUS
  <2>1. k \in 1..Len(s) /\ k # Len(s)
    BY <1>6
  <2> QED BY <1>3, <1>4, <2>1
<1> QED BY <1>5, <1>7, <1>8
-----------------------------------------------------------------------------
(* The type invariant needs to know that the nesting budget counts the      *)
(* calls, and which call fills which slot: the slots of the active calls    *)
(* grow towards the top of the stack, and slot n is R's object n.           *)
Slots ==
  /\ Len(refs) = Len(wtable)
  /\ \A k \in 1..Depth :
       /\ frames[k].ref = 0 => frames[k].op \notin RTracked
       /\ frames[k].ref # 0 => /\ frames[k].ref \in 1..Len(refs)
                               /\ frames[k].op \in RTracked
                               /\ wtable[frames[k].ref] = frames[k].op
  /\ \A j, k \in 1..Depth : j < k /\ frames[k].ref # 0 => frames[j].ref < frames[k].ref

TypeInv == TypeOK /\ NestingBalanced /\ Slots

LEMMA NextItemFacts ==
  ASSUME RTypeOK, NEW i \in NextItems
  PROVE  /\ wtodo # <<>> /\ Head(wtodo) \in Roles /\ i \in Items
         /\ i.type = "ref" => i \in RefItems(Head(wtodo)) /\ i.type \notin RTracked
         /\ i.type # "ref" => i \in NewItems(Head(wtodo)) /\ i.type \in AllKinds
<1>1. wtodo # <<>> /\ i \in RefItems(Head(wtodo)) \cup NewItems(Head(wtodo))
  BY DEF NextItems
<1>2. Head(wtodo) \in Roles
  BY <1>1 DEF RTypeOK
<1>3. "ref" \notin AllKinds /\ "ref" \notin RTracked
  BY DEF AllKinds, RTracked, RAttributed, SymbolKinds, EnvKinds
<1>4. CASE i \in RefItems(Head(wtodo))
  <2>1. i.type = "ref" /\ i \in Items
    BY <1>2, <1>4, RefItemFacts
  <2> QED BY <1>1, <1>2, <1>3, <1>4, <2>1
<1>5. CASE i \in NewItems(Head(wtodo))
  <2>1. i.type \in AllKinds /\ i \in Items
    BY <1>2, <1>5, NewItemFacts
  <2> QED BY <1>1, <1>2, <1>3, <1>5, <2>1
<1> QED BY <1>1, <1>4, <1>5

LEMMA WriteFacts ==
  ASSUME RTypeOK, NEW i \in NextItems, Write(i)
  PROVE  /\ RTypeOK'
         /\ i.type \notin RTracked => wtable' = wtable
         /\ i.type \in RTracked =>
              /\ Len(wtable') = Len(wtable) + 1 /\ wtable'[Len(wtable) + 1] = i.type
              /\ \A k \in 1..Len(wtable) : wtable'[k] = wtable[k]
<1>1. Parts(i) \in Seq(Roles) /\ Tail(wtodo) \in Seq(Roles)
  BY NextItemFacts, PartsType, HeadTailProperties DEF RTypeOK
<1>2. wtodo' \in Seq(Roles)
  BY <1>1, ConcatProperties DEF Write
<1>3. written' \in 0..Budget
  BY StreamAssumption DEF Write, RTypeOK
<1>4. wtable' \in Seq(RTracked)
  BY DEF Write, RTypeOK
<1> QED BY <1>2, <1>3, <1>4 DEF RTypeOK, Write

LEMMA TopFacts ==
  ASSUME TypeOK
  PROVE  /\ Depth \in Nat \ {0} /\ Top \in Frames /\ Top.todo \in Seq(StepNames)
         /\ Top.rn \in BOOLEAN
         /\ Top.todo # <<>> => Step \in StepNames /\ Rest \in Seq(StepNames)
<1>1. Depth \in Nat \ {0} /\ Top \in Frames
  BY EmptySeq, ElementOfSeq DEF TypeOK, Depth, Top
<1>2. Top.todo \in Seq(StepNames) /\ Top.rn \in BOOLEAN
  BY <1>1 DEF Frames
<1>3. Top.todo # <<>> => Step \in StepNames /\ Rest \in Seq(StepNames)
  BY <1>2, HeadTailProperties DEF Step, Rest
<1> QED BY <1>1, <1>2, <1>3

(* One call goes on, no call begins or ends: nothing about slots changes.   *)
LEMMA ContinueKeepsSlots ==
  ASSUME TypeInv, NEW t \in Seq(StepNames), NEW r \in BOOLEAN,
         frames' = Continue(frames, t, r), refs' = refs, wtable' = wtable
  PROVE  /\ frames' \in Seq(Frames) /\ Len(frames') = Depth /\ frames' # <<>>
         /\ \A k \in 1..Depth : /\ frames'[k].ref = frames[k].ref
                                /\ frames'[k].op = frames[k].op
         /\ Slots'
<1>0. frames \in Seq(Frames) /\ frames # <<>>
  BY DEF TypeInv, TypeOK
<1>1. /\ frames' \in Seq(Frames) /\ Len(frames') = Depth
      /\ \A k \in 1..Depth - 1 : frames'[k] = frames[k]
      /\ SameCall(frames'[Depth], frames[Depth])
  BY <1>0, ContinueFacts DEF Depth
<1>2. Depth \in Nat \ {0} /\ frames[Depth] \in Frames
  BY TopFacts DEF TypeInv, Top
<1>3. ASSUME NEW k \in 1..Depth
      PROVE  frames'[k].ref = frames[k].ref /\ frames'[k].op = frames[k].op
  <2>1. CASE k = Depth
    BY <1>1, <2>1 DEF SameCall
  <2>2. CASE k # Depth
    <3>1. k \in 1..Depth - 1
      BY <1>2, <2>2
    <3> QED BY <1>1, <3>1
  <2> QED BY <2>1, <2>2
<1>4. Slots'
  BY <1>1, <1>2, <1>3 DEF Slots, TypeInv, Depth
<1> QED BY <1>1, <1>2, <1>3, <1>4, EmptySeq

LEMMA PopFacts ==
  ASSUME TypeOK, Depth > 1
  PROVE  /\ SubSeq(frames, 1, Depth - 1) \in Seq(Frames)
         /\ SubSeq(frames, 1, Depth - 1) # <<>>
         /\ Len(SubSeq(frames, 1, Depth - 1)) = Depth - 1
         /\ \A k \in 1..Depth - 1 : SubSeq(frames, 1, Depth - 1)[k] = frames[k]
         /\ frames[Depth - 1] \in Frames
<1>1. Depth \in Nat /\ frames \in Seq(Frames) /\ Depth = Len(frames)
  BY TopFacts DEF TypeOK, Depth
<1>2. \A k \in 1..Depth - 1 : frames[k] \in Frames
  BY <1>1, ElementOfSeq
<1>3. /\ SubSeq(frames, 1, Depth - 1) \in Seq(Frames)
      /\ Len(SubSeq(frames, 1, Depth - 1)) = Depth - 1
      /\ \A k \in 1..Depth - 1 : SubSeq(frames, 1, Depth - 1)[k] = frames[1 + k - 1]
  BY <1>1, <1>2, SubSeqProperties
<1>4. SubSeq(frames, 1, Depth - 1) # <<>>
  <2>1. Len(SubSeq(frames, 1, Depth - 1)) # 0
    BY <1>1, <1>3
  <2> QED BY <2>1, EmptySeq
<1>5. \A k \in 1..Depth - 1 : SubSeq(frames, 1, Depth - 1)[k] = frames[k]
  BY <1>1, <1>3
<1>6. frames[Depth - 1] \in Frames
  BY <1>1, <1>2
<1> QED BY <1>3, <1>4, <1>5, <1>6

(* The calls after a Return: all but the top one, the new top going on.     *)
LEMMA ReturnFrames ==
  ASSUME TypeOK, Depth > 1, NEW t \in Seq(StepNames), NEW r \in BOOLEAN,
         frames' = Continue(SubSeq(frames, 1, Depth - 1), t, r)
  PROVE  /\ frames' \in Seq(Frames) /\ Len(frames') = Depth - 1 /\ frames' # <<>>
         /\ \A k \in 1..Depth - 1 : SameCall(frames'[k], frames[k])
         /\ \A k \in 1..Depth - 2 : frames'[k] = frames[k]
         /\ frames'[Depth - 1].todo = t /\ frames'[Depth - 1].rn = r
<1>1. Depth \in Nat
  BY TopFacts
<1> DEFINE s == SubSeq(frames, 1, Depth - 1)
<1>2. /\ s \in Seq(Frames) /\ s # <<>> /\ Len(s) = Depth - 1
      /\ \A k \in 1..Depth - 1 : s[k] = frames[k]
  BY PopFacts
<1>3. frames' = Continue(s, t, r)
  OBVIOUS
<1> HIDE DEF s
<1>4. /\ frames' \in Seq(Frames) /\ Len(frames') = Len(s)
      /\ \A k \in 1..Len(s) - 1 : frames'[k] = s[k]
      /\ SameCall(frames'[Len(s)], s[Len(s)])
      /\ frames'[Len(s)].todo = t /\ frames'[Len(s)].rn = r
  <2>1. /\ Continue(s, t, r) \in Seq(Frames) /\ Len(Continue(s, t, r)) = Len(s)
        /\ \A k \in 1..Len(s) - 1 : Continue(s, t, r)[k] = s[k]
        /\ SameCall(Continue(s, t, r)[Len(s)], s[Len(s)])
        /\ Continue(s, t, r)[Len(s)].todo = t /\ Continue(s, t, r)[Len(s)].rn = r
    <3>1. s \in Seq(Frames) /\ s # <<>> /\ t \in Seq(StepNames) /\ r \in BOOLEAN
      BY <1>2
    <3> QED BY ONLY <3>1, ContinueFacts
  <2> QED BY <1>3, <2>1
<1>5. \A k \in 1..Depth - 2 : frames'[k] = frames[k]
  BY <1>1, <1>2, <1>4
<1>6. \A k \in 1..Depth - 1 : SameCall(frames'[k], frames[k])
  <2> SUFFICES ASSUME NEW k \in 1..Depth - 1 PROVE SameCall(frames'[k], frames[k])
    OBVIOUS
  <2>1. CASE k = Depth - 1
    BY <1>2, <1>4, <2>1
  <2>2. CASE k # Depth - 1
    <3>1. k \in 1..Depth - 2
      BY <1>1, <2>2
    <3> QED BY <1>5, <3>1 DEF SameCall
  <2> QED BY <2>1, <2>2
<1>7. frames' # <<>>
  BY <1>1, <1>2, <1>4
<1> QED BY <1>2, <1>4, <1>5, <1>6, <1>7

(* The calls after ReadObject: the old ones, the top going on, and one more.*)
LEMMA CallFrames ==
  ASSUME TypeOK, NEW t \in Seq(StepNames), NEW r \in BOOLEAN, NEW f \in Frames,
         frames' = Append(Continue(frames, t, r), f)
  PROVE  /\ frames' \in Seq(Frames) /\ Len(frames') = Depth + 1 /\ frames' # <<>>
         /\ \A k \in 1..Depth : SameCall(frames'[k], frames[k])
         /\ \A k \in 1..Depth - 1 : frames'[k] = frames[k]
         /\ frames'[Depth].todo = t /\ frames'[Depth].rn = r
         /\ frames'[Depth + 1] = f
<1>1. Depth \in Nat \ {0} /\ frames \in Seq(Frames) /\ frames # <<>> /\ Depth = Len(frames)
  BY TopFacts DEF TypeOK, Depth
<1> DEFINE s == Continue(frames, t, r)
<1>2. /\ s \in Seq(Frames) /\ Len(s) = Depth
      /\ \A k \in 1..Depth - 1 : s[k] = frames[k]
      /\ SameCall(s[Depth], frames[Depth])
      /\ s[Depth].todo = t /\ s[Depth].rn = r
  BY <1>1, ContinueFacts
<1>3. frames' = Append(s, f)
  OBVIOUS
<1> HIDE DEF s
<1>4. /\ frames' \in Seq(Frames) /\ Len(frames') = Depth + 1
      /\ \A k \in 1..Depth : frames'[k] = s[k]
      /\ frames'[Depth + 1] = f
  BY <1>1, <1>2, <1>3
<1>5. \A k \in 1..Depth : SameCall(frames'[k], frames[k])
  <2> SUFFICES ASSUME NEW k \in 1..Depth PROVE SameCall(frames'[k], frames[k])
    OBVIOUS
  <2>1. CASE k = Depth
    BY <1>2, <1>4, <2>1
  <2>2. CASE k # Depth
    <3>1. k \in 1..Depth - 1
      BY <1>1, <2>2
    <3> QED BY <1>2, <1>4, <3>1 DEF SameCall
  <2> QED BY <2>1, <2>2
<1>6. \A k \in 1..Depth - 1 : frames'[k] = frames[k]
  BY <1>1, <1>2, <1>4
<1>7. frames'[Depth].todo = t /\ frames'[Depth].rn = r
  BY <1>1, <1>2, <1>4
<1>8. frames' # <<>>
  BY <1>1, <1>4
<1> QED BY <1>4, <1>5, <1>6, <1>7, <1>8
-----------------------------------------------------------------------------
(* Each action preserves the type invariant.                                *)
LEMMA FailType ==
  ASSUME TypeInv, NEW e \in Errors, Fail(e), RTypeOK', wtable' = wtable
  PROVE  TypeInv'
<1>1. TypeOK'
  BY DEF Fail, TypeInv, TypeOK
<1>2. NestingBalanced'
  BY DEF Fail, TypeInv, NestingBalanced, Depth
<1>3. Slots'
  BY DEF Fail, TypeInv, Slots, Depth
<1> QED BY <1>1, <1>2, <1>3 DEF TypeInv

LEMMA ContinueType ==
  ASSUME TypeInv, NEW t \in Seq(StepNames), NEW r \in BOOLEAN,
         frames' = Continue(frames, t, r),
         UNCHANGED <<refs, symbols, nesting, inBody, lazy, eof, status, err>>,
         got' \in {"none", "shared", "symbol", "copy", "stale", "fallback", "badtag"},
         RTypeOK', wtable' = wtable
  PROVE  TypeInv'
<1>1. frames' \in Seq(Frames) /\ Len(frames') = Depth /\ frames' # <<>> /\ Slots'
  BY ContinueKeepsSlots
<1>2. TypeOK'
  BY <1>1 DEF TypeInv, TypeOK
<1>3. NestingBalanced'
  BY <1>1 DEF TypeInv, NestingBalanced, Depth
<1> QED BY <1>1, <1>2, <1>3 DEF TypeInv

LEMMA ReadTagRefType ==
  ASSUME TypeInv, Busy, NEW i \in NextItems, ReadTagRef(i)
  PROVE  TypeInv'
<1>1. RTypeOK' /\ wtable' = wtable
  BY NextItemFacts, WriteFacts DEF ReadTagRef, TypeInv, TypeOK
<1>2. CASE Fail("tag")
  BY <1>1, <1>2, FailType DEF Errors
<1>3. CASE ~Fail("tag")
  <2>1. PICK r \in BOOLEAN : frames' = Continue(frames, Rest, r)
    BY <1>3 DEF ReadTagRef
  <2>2. Rest \in Seq(StepNames)
    BY TopFacts DEF TypeInv, Busy
  <2>3. /\ UNCHANGED <<refs, symbols, nesting, inBody, lazy, eof, status, err>>
        /\ got' \in {"none", "shared", "symbol", "copy", "stale", "fallback", "badtag"}
    BY <1>3 DEF ReadTagRef
  <2> QED BY <1>1, <2>1, <2>2, <2>3, ContinueType
<1> QED BY <1>2, <1>3

LEMMA ReadCellType ==
  ASSUME TypeInv, Busy, NEW i \in NextItems, ReadCell(i)
  PROVE  TypeInv'
<1>1. i \in Items /\ i.type # "ref"
  BY NextItemFacts DEF ReadCell, TypeInv, TypeOK
<1>2. i.type \notin RTracked
  <2>1. Head(wtodo) \in Roles /\ i \in NewItems(Head(wtodo))
    BY <1>1, NextItemFacts DEF TypeInv, TypeOK
  <2>2. i.tag => i.type = "clo" \/ Head(wtodo) = "cell" \/ i.type \in RTagged
    BY <2>1, NewItemFacts DEF TypeInv, TypeOK
  <2>3. Head(wtodo) = "cell" => i.type = "list"
    BY <2>1, NewItemFacts DEF KindsOf, TypeInv, TypeOK
  <2> QED BY <2>2, <2>3
          DEF ReadCell, Pairs, RTagged, RTracked, SymbolKinds, EnvKinds
<1>3. RTypeOK' /\ wtable' = wtable
  BY <1>2, WriteFacts DEF ReadCell, TypeInv, TypeOK
<1>4. Item("list", FALSE, i.tag, 0, 0) \in Items
  BY <1>1 DEF Item, Items, AllKinds, RAttributed
<1>5. Steps(Item("list", FALSE, i.tag, 0, 0)) \in Seq(StepNames) /\ Rest \in Seq(StepNames)
  BY <1>4, StepsType, TopFacts DEF TypeInv, Busy
<1>6. Steps(Item("list", FALSE, i.tag, 0, 0)) \o Rest \in Seq(StepNames)
  BY <1>5, ConcatProperties
<1> QED BY <1>3, <1>6, ContinueType DEF ReadCell

LEMMA ReadRefType ==
  ASSUME TypeInv, Busy, NEW i \in NextItems, ReadRef(i)
  PROVE  TypeInv'
<1>1. RTypeOK' /\ wtable' = wtable
  BY NextItemFacts, WriteFacts DEF ReadRef, TypeInv, TypeOK
<1>2. CASE Fail("ref")
  BY <1>1, <1>2, FailType DEF Errors
<1>3. CASE ~Fail("ref")
  <2>1. /\ frames' = Continue(frames, Rest, Top.rn)
        /\ UNCHANGED <<refs, symbols, nesting, inBody, lazy, eof, status, err>>
        /\ got' \in {"none", "shared", "symbol", "copy", "stale", "fallback", "badtag"}
    BY <1>3 DEF ReadRef
  <2>2. Rest \in Seq(StepNames) /\ Top.rn \in BOOLEAN
    BY TopFacts DEF TypeInv, Busy
  <2> QED BY <1>1, <2>1, <2>2, ContinueType
<1> QED BY <1>2, <1>3

(* The frame that ReadObject pushes.                                        *)
LEMMA NewFrameType ==
  ASSUME TypeInv, Busy, NEW i \in NextItems, i.type # "ref", NEW n \in Nat
  PROVE  NewFrame(i.type, Step, Steps(i), n, ~i.attr) \in Frames
<1>1. i \in Items /\ i.type \in AllKinds /\ wtodo # <<>> /\ wtodo \in Seq(Roles)
  BY NextItemFacts DEF TypeInv, TypeOK, RTypeOK
<1>2. Steps(i) \in Seq(StepNames) /\ Step \in StepNames
  BY <1>1, StepsType, TopFacts DEF TypeInv, Busy
<1>3. Len(wtodo) - 1 \in Nat
  BY <1>1, EmptySeq
<1>4. i.attr \in BOOLEAN /\ inBody \in BOOLEAN /\ lazy \in BOOLEAN
  BY <1>1 DEF Items, TypeInv, TypeOK
<1> QED BY <1>1, <1>2, <1>3, <1>4 DEF NewFrame, Frames

LEMMA ReadObjectType ==
  ASSUME TypeInv, Busy, NEW i \in NextItems, ReadObject(i)
  PROVE  TypeInv'
<1> DEFINE n == IF i.type \in Tracked THEN Len(refs) + 1 ELSE 0
           f == NewFrame(i.type, Step, Steps(i), n, ~i.attr)
<1>1. /\ i.type # "ref" /\ Tracked = RTracked
      /\ refs \in Seq(Values) /\ Len(refs) \in Nat /\ Len(refs) = Len(wtable)
      /\ wtable \in Seq(RTracked)
  BY DEF ReadObject, Tracked, TypeInv, TypeOK, Slots, RTypeOK
<1>2. n \in Nat /\ f \in Frames /\ f.op = i.type /\ f.ref = n
  <2>1. n \in Nat
    BY <1>1
  <2>2. f.op = i.type /\ f.ref = n
    BY DEF NewFrame
  <2> HIDE DEF n
  <2>3. f \in Frames
    BY <1>1, <2>1, NewFrameType
  <2> QED BY <2>1, <2>2, <2>3
<1>3. frames' = Append(Continue(frames, Rest, Top.rn), f)
  BY DEF ReadObject
<1> HIDE DEF f
<1>4. Rest \in Seq(StepNames) /\ Top.rn \in BOOLEAN /\ Depth \in Nat \ {0}
  BY TopFacts DEF TypeInv, Busy
<1>5. /\ frames' \in Seq(Frames) /\ Len(frames') = Depth + 1 /\ frames' # <<>>
      /\ \A k \in 1..Depth : SameCall(frames'[k], frames[k])
      /\ frames'[Depth + 1] = f
  BY <1>2, <1>3, <1>4, CallFrames DEF TypeInv
<1>6. /\ RTypeOK'
      /\ i.type \notin RTracked => wtable' = wtable
      /\ i.type \in RTracked =>
           /\ Len(wtable') = Len(wtable) + 1 /\ wtable'[Len(wtable) + 1] = i.type
           /\ \A k \in 1..Len(wtable) : wtable'[k] = wtable[k]
  BY WriteFacts DEF ReadObject, TypeInv, TypeOK
<1>7. refs' = IF i.type \in RTracked THEN Append(refs, "null") ELSE refs
  BY <1>1 DEF ReadObject
<1>8. refs' \in Seq(Values) /\ Len(refs') = IF i.type \in RTracked THEN Len(refs) + 1
                                                                  ELSE Len(refs)
  BY <1>1, <1>7 DEF Values
<1>9. TypeOK'
  <2>1. nesting' \in 0..MaxDepth
    BY ParserAssumption DEF ReadObject, AtLimit, TypeInv, TypeOK
  <2>2. inBody' \in BOOLEAN /\ lazy' \in BOOLEAN /\ got' = "none"
    BY DEF ReadObject, TypeInv, TypeOK
  <2> QED BY <1>5, <1>6, <1>8, <2>1, <2>2 DEF ReadObject, TypeInv, TypeOK
<1>10. NestingBalanced'
  BY <1>4, <1>5 DEF ReadObject, TypeInv, TypeOK, NestingBalanced, Depth
<1>11. Slots'
  <2>1. Depth' = Depth + 1
    BY <1>5 DEF Depth
  <2>2. Len(refs') = Len(wtable')
    BY <1>1, <1>6, <1>8
  <2>3. ASSUME NEW k \in 1..Depth + 1
        PROVE  /\ frames'[k].ref = 0 => frames'[k].op \notin RTracked
               /\ frames'[k].ref # 0 => /\ frames'[k].ref \in 1..Len(refs')
                                        /\ frames'[k].op \in RTracked
                                        /\ wtable'[frames'[k].ref] = frames'[k].op
    <3>1. CASE k = Depth + 1
      BY <1>1, <1>2, <1>5, <1>6, <1>8, <3>1
    <3>2. CASE k # Depth + 1
      <4>1. k \in 1..Depth /\ frames'[k].ref = frames[k].ref /\ frames'[k].op = frames[k].op
        BY <1>4, <1>5, <3>2 DEF SameCall
      <4>2. /\ frames[k].ref = 0 => frames[k].op \notin RTracked
            /\ frames[k].ref # 0 => /\ frames[k].ref \in 1..Len(refs)
                                    /\ frames[k].op \in RTracked
                                    /\ wtable[frames[k].ref] = frames[k].op
        BY <4>1 DEF TypeInv, Slots
      <4> QED BY <1>1, <1>6, <1>8, <4>1, <4>2
    <3> QED BY <3>1, <3>2
  <2>4. ASSUME NEW j \in 1..Depth + 1, NEW k \in 1..Depth + 1, j < k, frames'[k].ref # 0
        PROVE  frames'[j].ref < frames'[k].ref
    <3>1. j \in 1..Depth /\ frames'[j].ref = frames[j].ref
      BY <1>4, <1>5, <2>4 DEF SameCall
    <3>2. CASE k = Depth + 1
      <4>1. frames'[k].ref = Len(refs) + 1
        BY <1>1, <1>2, <1>5, <2>4, <3>2
      <4>2. frames[j].ref \in 0..Len(refs)
        BY <1>1, <3>1 DEF TypeInv, Slots
      <4> QED BY <1>1, <3>1, <4>1, <4>2
    <3>3. CASE k # Depth + 1
      <4>1. k \in 1..Depth /\ frames'[k].ref = frames[k].ref
        BY <1>4, <1>5, <3>3 DEF SameCall
      <4> QED BY <2>4, <3>1, <4>1 DEF TypeInv, Slots
    <3> QED BY <3>2, <3>3
  <2> QED BY <2>1, <2>2, <2>3, <2>4 DEF Slots
<1> QED BY <1>9, <1>10, <1>11 DEF TypeInv

LEMMA ReturnType ==
  ASSUME TypeInv, Return
  PROVE  TypeInv'
<1> DEFINE parent == frames[Depth - 1]
           t == IF Swallows(parent, Top) THEN <<"swallow">> \o parent.todo ELSE parent.todo
           r == IF Top.as = "tag" THEN Top.op = "rownames" ELSE parent.rn
<1>1. Depth > 1 /\ Depth \in Nat /\ Top \in Frames /\ parent \in Frames
  BY TopFacts, PopFacts DEF Return, TypeInv
<1>2. t \in Seq(StepNames) /\ r \in BOOLEAN
  <2>1. parent.todo \in Seq(StepNames) /\ parent.rn \in BOOLEAN
    BY <1>1 DEF Frames
  <2>2. <<"swallow">> \in Seq(StepNames)
    BY DEF StepNames
  <2>3. <<"swallow">> \o parent.todo \in Seq(StepNames)
    BY <2>1, <2>2, ConcatProperties
  <2> QED BY <2>1, <2>3
<1>3. frames' = Continue(SubSeq(frames, 1, Depth - 1), t, r)
  BY DEF Return
<1> HIDE DEF t, r
<1>4. /\ frames' \in Seq(Frames) /\ Len(frames') = Depth - 1 /\ frames' # <<>>
      /\ \A k \in 1..Depth - 1 : SameCall(frames'[k], frames[k])
  BY <1>1, <1>2, <1>3, ReturnFrames DEF TypeInv
<1>5. refs' \in Seq(Values) /\ Len(refs') = Len(refs)
  <2>1. CASE Top.ref = 0
    BY <2>1 DEF Return, TypeInv, TypeOK
  <2>2. CASE Top.ref # 0
    <3>1. Top.ref \in 1..Len(refs) /\ Top.op \in RTracked
      BY <1>1, <2>2 DEF TypeInv, Slots, Top
    <3>2. ValueOf(Top.op) \in Values
      BY <3>1 DEF ValueOf, Values, RTracked, SymbolKinds, EnvKinds
    <3>3. refs' = [refs EXCEPT ![Top.ref] = ValueOf(Top.op)] /\ refs \in Seq(Values)
      BY <2>2 DEF Return, TypeInv, TypeOK
    <3> QED BY <3>1, <3>2, <3>3, ExceptSeq
  <2> QED BY <2>1, <2>2
<1>6. TypeOK'
  <2>1. symbols' \in Seq(Nat)
    <3>1. Top.ref \in Nat /\ symbols \in Seq(Nat)
      BY <1>1 DEF Frames, TypeInv, TypeOK
    <3> QED BY <3>1 DEF Return
  <2>2. nesting' \in 0..MaxDepth
    BY <1>1, ParserAssumption DEF Return, NestingAfter, TypeInv, TypeOK, NestingBalanced
  <2>3. inBody' \in BOOLEAN /\ lazy' \in BOOLEAN
    BY <1>1 DEF Return, BodyAfter, LazyAfter, Frames, TypeInv, TypeOK
  <2>4. RTypeOK'
    BY DEF Return, TypeInv, TypeOK, RTypeOK, rvars
  <2> QED BY <1>4, <1>5, <2>1, <2>2, <2>3, <2>4 DEF Return, NestingAfter, TypeInv, TypeOK
<1>7. NestingBalanced'
  BY <1>1, <1>4 DEF Return, NestingAfter, TypeInv, TypeOK, NestingBalanced, Depth
<1>8. Slots'
  <2>1. Depth' = Depth - 1 /\ wtable' = wtable
    BY <1>4 DEF Return, Depth, rvars
  <2>2. \A k \in 1..Depth - 1 : /\ k \in 1..Depth
                                /\ frames'[k].ref = frames[k].ref
                                /\ frames'[k].op = frames[k].op
    BY <1>1, <1>4 DEF SameCall
  <2> QED BY <1>5, <2>1, <2>2 DEF Slots, TypeInv
<1> QED BY <1>6, <1>7, <1>8 DEF TypeInv

LEMMA ReadAtEndType ==
  ASSUME TypeInv, ReadAtEnd
  PROVE  TypeInv'
<1>1. RTypeOK' /\ wtable' = wtable
  BY DEF ReadAtEnd, rvars, TypeInv, TypeOK, RTypeOK
<1>2. CASE Fail("eof")
  BY <1>1, <1>2, FailType DEF Errors
<1>3. CASE ~Fail("eof")
  <2>1. /\ frames' = Continue(frames, Rest, Top.rn) /\ got' = "none"
        /\ UNCHANGED <<refs, symbols, nesting, inBody, lazy, eof, status, err>>
    BY <1>3 DEF ReadAtEnd, AfterEnd, Rest
  <2>2. Rest \in Seq(StepNames) /\ Top.rn \in BOOLEAN
    BY TopFacts DEF TypeInv, Busy, ReadAtEnd
  <2> QED BY <1>1, <2>1, <2>2, ContinueType
<1> QED BY <1>2, <1>3

LEMMA UnwindType ==
  ASSUME TypeInv, Unwind
  PROVE  TypeInv'
<1>1. RTypeOK' /\ wtable' = wtable /\ refs' = refs
  BY DEF Unwind, rvars, TypeInv, TypeOK, RTypeOK
<1>2. Depth \in Nat /\ Top \in Frames
  BY TopFacts DEF TypeInv
<1>3. CASE Depth > 1
  <2>1. /\ frames' \in Seq(Frames) /\ frames' # <<>> /\ Len(frames') = Depth - 1
        /\ \A k \in 1..Depth - 1 : frames'[k] = frames[k]
    BY <1>3, PopFacts DEF Unwind, TypeInv
  <2>2. nesting' \in 0..MaxDepth
    BY <1>2, <1>3, ParserAssumption DEF Unwind, NestingAfter, TypeInv, TypeOK, NestingBalanced
  <2>3. lazy' \in BOOLEAN
    BY <1>2, <1>3 DEF Unwind, LazyAfter, Frames, TypeInv, TypeOK
  <2>4. TypeOK'
    BY <1>1, <1>3, <2>1, <2>2, <2>3 DEF Unwind, NestingAfter, TypeInv, TypeOK
  <2>5. NestingBalanced'
    BY <1>2, <1>3, <2>1 DEF Unwind, NestingAfter, TypeInv, TypeOK, NestingBalanced, Depth
  <2>6. Slots'
    <3>1. Depth' = Depth - 1 /\ \A k \in 1..Depth - 1 : k \in 1..Depth
      BY <1>2, <2>1 DEF Depth
    <3> QED BY <1>1, <2>1, <3>1 DEF Slots, TypeInv
  <2> QED BY <2>4, <2>5, <2>6 DEF TypeInv
<1>4. CASE ~(Depth > 1)
  <2>1. UNCHANGED <<frames, nesting, lazy>> /\ status' = "error"
    BY <1>4 DEF Unwind
  <2> QED BY <1>1, <2>1
          DEF Unwind, TypeInv, TypeOK, NestingBalanced, Slots, Depth
<1> QED BY <1>3, <1>4

(* Types, the nesting count, and the slots that the active calls fill: what  *)
(* every further proof starts from.                                         *)
THEOREM TypeCorrect == Spec => []TypeInv
<1>1. Init => TypeInv
  <2> SUFFICES ASSUME Init PROVE TypeInv
    OBVIOUS
  <2>1. RTypeOK
    BY StreamAssumption DEF RTypeOK, Roles, Init, RInit
  <2> DEFINE f == [op |-> "root", as |-> "item", todo |-> <<"item">>, ref |-> 0,
                  plain |-> TRUE, rn |-> FALSE, wasBody |-> FALSE,
                  wasLazy |-> Lazy, rest |-> 0]
  <2>2. f \in Frames
    <3>1. <<"item">> \in Seq(StepNames) /\ "item" \in StepNames
      BY DEF StepNames
    <3> QED BY <3>1, ParserAssumption DEF Frames
  <2>3. frames = <<f>> /\ f.ref = 0 /\ f.op = "root"
    BY DEF Init, PInit
  <2> HIDE DEF f
  <2>4. frames[1].ref = 0 /\ frames[1].op = "root"
    BY <2>3
  <2>5. frames \in Seq(Frames) /\ Len(frames) = 1 /\ frames # <<>>
    BY <2>2, <2>3
  <2>6. TypeOK
    <3>1. /\ refs \in Seq(Values) /\ symbols \in Seq(Nat)
          /\ nesting \in 0..MaxDepth /\ inBody \in BOOLEAN /\ lazy \in BOOLEAN
      <4>1. refs = <<>> /\ symbols = <<>> /\ nesting = 0 /\ inBody = FALSE /\ lazy = Lazy
        BY DEF Init, PInit
      <4>2. <<>> \in Seq(Values) /\ <<>> \in Seq(Nat)
        BY EmptySeq
      <4>3. 0 \in 0..MaxDepth /\ FALSE \in BOOLEAN /\ Lazy \in BOOLEAN
        BY ParserAssumption
      <4> QED BY <4>1, <4>2, <4>3
    <3>2. eof = "no" /\ status = "parsing" /\ err = "none" /\ got = "none"
      BY DEF Init, PInit
    <3> QED BY <2>1, <2>5, <3>1, <3>2 DEF TypeOK, Errors
  <2>7. NestingBalanced
    BY <2>5 DEF NestingBalanced, Depth, Init, PInit
  <2>8. Slots
    <3>1. "root" \notin RTracked
      BY DEF RTracked, SymbolKinds, EnvKinds
    <3>2. Depth = 1 /\ Len(refs) = Len(wtable)
      BY <2>5 DEF Depth, Init, PInit, RInit
    <3>3. \A k \in 1..Depth : k = 1
      BY <3>2
    <3> QED BY <2>4, <3>1, <3>2, <3>3 DEF Slots
  <2> QED BY <2>6, <2>7, <2>8 DEF TypeInv
<1>2. TypeInv /\ [Next]_vars => TypeInv'
  <2> SUFFICES ASSUME TypeInv, [Next]_vars PROVE TypeInv'
    OBVIOUS
  <2>1. CASE Read
    <3>1. PICK i \in NextItems :
            ReadTagRef(i) \/ ReadCell(i) \/ EnterFails(i) \/ ReadRef(i) \/ ReadObject(i)
      BY <2>1 DEF Read
    <3>2. Busy
      BY <2>1 DEF Read
    <3>3. CASE EnterFails(i)
      <4>1. RTypeOK' /\ wtable' = wtable
        BY <3>3 DEF EnterFails, rvars, TypeInv, TypeOK, RTypeOK
      <4> QED BY <3>3, <4>1, FailType DEF EnterFails, Errors
    <3> QED BY <3>1, <3>2, <3>3, ReadTagRefType, ReadCellType, ReadRefType, ReadObjectType
  <2>2. CASE Return
    BY <2>2, ReturnType
  <2>3. CASE ReadAtEnd
    BY <2>3, ReadAtEndType
  <2>4. CASE Unwind
    BY <2>4, UnwindType
  <2>5. CASE Finish
    BY <2>5 DEF Finish, TypeInv, TypeOK, RTypeOK, NestingBalanced, Slots, Depth, rvars
  <2>6. CASE Truncate
    BY <2>6 DEF Truncate, TypeInv, TypeOK, RTypeOK, NestingBalanced, Slots, Depth, rvars
  <2>7. CASE UNCHANGED vars
    BY <2>7 DEF vars, pvars, rvars, TypeInv, TypeOK, RTypeOK, NestingBalanced, Slots, Depth
  <2> QED BY <2>1, <2>2, <2>3, <2>4, <2>5, <2>6, <2>7 DEF Next, Parse
<1> QED BY <1>1, <1>2, PTL DEF Spec

(* Every variable of the parser keeps its type, whatever R writes and       *)
(* wherever the stream breaks off.                                          *)
THEOREM TypesAreKept == Spec => []TypeOK
BY TypeCorrect, PTL DEF TypeInv

(* parse_object's nesting budget is given back on every path: siblings and  *)
(* errors leave nothing behind.                                             *)
THEOREM NestingIsBalanced == Spec => []NestingBalanced
BY TypeCorrect, PTL DEF TypeInv
-----------------------------------------------------------------------------
(* Slot i of the reference table holds object i of R's table.               *)
Live == status \in {"parsing", "ok"}

LEMMA FillingSame ==
  ASSUME Len(frames') = Depth, \A k \in 1..Depth : frames'[k].ref = frames[k].ref
  PROVE  Filling' = Filling
BY DEF Filling, Depth

LEMMA ContinueKeepsRefs ==
  ASSUME TypeInv, RefsAligned, NEW t \in Seq(StepNames), NEW r \in BOOLEAN,
         frames' = Continue(frames, t, r), UNCHANGED <<refs, status, wtable>>
  PROVE  RefsAligned'
<1>1. Len(frames') = Depth /\ \A k \in 1..Depth : frames'[k].ref = frames[k].ref
  BY ContinueKeepsSlots
<1>2. Filling' = Filling
  BY <1>1, FillingSame
<1> QED BY <1>2 DEF RefsAligned

LEMMA ReadKeepsRefs ==
  ASSUME TypeInv, RefsAligned, Busy, NEW i \in NextItems,
         ReadTagRef(i) \/ ReadCell(i) \/ EnterFails(i) \/ ReadRef(i) \/ ReadObject(i)
  PROVE  RefsAligned'
<1>1. CASE status' = "unwinding"
  BY <1>1 DEF RefsAligned
<1>2. /\ Rest \in Seq(StepNames) /\ Top.rn \in BOOLEAN /\ Depth \in Nat \ {0}
      /\ frames \in Seq(Frames) /\ Depth = Len(frames)
  BY TopFacts DEF TypeInv, TypeOK, Busy, Depth
<1>3. CASE ReadTagRef(i) /\ status' # "unwinding"
  <2>1. PICK r \in BOOLEAN : frames' = Continue(frames, Rest, r)
    BY <1>3 DEF ReadTagRef, Fail
  <2>2. UNCHANGED <<refs, status, wtable>>
    BY <1>3, NextItemFacts, WriteFacts DEF ReadTagRef, Fail, TypeInv, TypeOK
  <2> QED BY <1>2, <2>1, <2>2, ContinueKeepsRefs
<1>4. CASE ReadRef(i) /\ status' # "unwinding"
  <2>1. frames' = Continue(frames, Rest, Top.rn)
    BY <1>4 DEF ReadRef, Fail
  <2>2. UNCHANGED <<refs, status, wtable>>
    BY <1>4, NextItemFacts, WriteFacts DEF ReadRef, Fail, TypeInv, TypeOK
  <2> QED BY <1>2, <2>1, <2>2, ContinueKeepsRefs
<1>5. CASE ReadCell(i)
  <2>1. TypeInv'
    BY <1>5, ReadCellType
  <2>2. UNCHANGED <<refs, status>>
    BY <1>5 DEF ReadCell
  <2>3. Len(refs) = Len(wtable) /\ Len(refs') = Len(wtable')
    BY <2>1 DEF TypeInv, Slots
  <2>4. wtable' = wtable
    <3>1. i.type \notin RTracked
      <4>1. /\ Len(wtable) \in Nat
            /\ i.type \in RTracked => Len(wtable') = Len(wtable) + 1
        BY <1>5, WriteFacts DEF ReadCell, TypeInv, TypeOK, RTypeOK
      <4> QED BY <2>2, <2>3, <4>1
    <3> QED BY <1>5, <3>1, WriteFacts DEF ReadCell, TypeInv, TypeOK
  <2>5. i \in Items
    BY NextItemFacts DEF TypeInv, TypeOK
  <2>6. Item("list", FALSE, i.tag, 0, 0) \in Items
    BY <2>5 DEF Item, Items, AllKinds, RAttributed
  <2>7. Steps(Item("list", FALSE, i.tag, 0, 0)) \o Rest \in Seq(StepNames)
    BY <1>2, <2>6, StepsType, ConcatProperties
  <2> QED BY <1>5, <2>2, <2>4, <2>7, ContinueKeepsRefs DEF ReadCell
<1>6. CASE ReadObject(i)
  <2> DEFINE n == IF i.type \in Tracked THEN Len(refs) + 1 ELSE 0
             f == NewFrame(i.type, Step, Steps(i), n, ~i.attr)
  <2>1. /\ i.type # "ref" /\ Tracked = RTracked /\ status' = status
        /\ refs \in Seq(Values) /\ Len(refs) \in Nat /\ Len(refs) = Len(wtable)
        /\ wtable \in Seq(RTracked)
    BY <1>6 DEF ReadObject, Tracked, TypeInv, TypeOK, Slots, RTypeOK
  <2>2. n \in Nat /\ f.ref = n
    BY <2>1 DEF NewFrame
  <2>3. f \in Frames
    <3> HIDE DEF n
    <3> QED BY <2>1, <2>2, NewFrameType
  <2>4. frames' = Append(Continue(frames, Rest, Top.rn), f)
    BY <1>6 DEF ReadObject
  <2> HIDE DEF f
  <2>5. /\ Len(frames') = Depth + 1 /\ frames'[Depth + 1] = f
        /\ \A k \in 1..Depth : SameCall(frames'[k], frames[k])
    BY <1>2, <2>3, <2>4, CallFrames DEF TypeInv
  <2>6. Filling' = (Filling \cup {n}) \ {0}
    <3>1. Filling' = {frames'[k].ref : k \in 1..Depth + 1} \ {0}
      BY <2>5 DEF Filling, Depth
    <3>2. \A k \in 1..Depth : frames'[k].ref = frames[k].ref
      BY <2>5 DEF SameCall
    <3>3. frames'[Depth + 1].ref = n
      BY <2>2, <2>5
    <3> HIDE DEF n
    <3>4. \A k : k \in 1..Depth + 1 <=> k \in 1..Depth \/ k = Depth + 1
      BY <1>2
    <3> QED BY <3>1, <3>2, <3>3, <3>4 DEF Filling
  <2>7. refs' = IF i.type \in RTracked THEN Append(refs, "null") ELSE refs
    BY <1>6, <2>1 DEF ReadObject
  <2>8. /\ i.type \notin RTracked => wtable' = wtable
        /\ i.type \in RTracked =>
             /\ Len(wtable') = Len(wtable) + 1
             /\ \A k \in 1..Len(wtable) : wtable'[k] = wtable[k]
    BY <1>6, WriteFacts DEF ReadObject, TypeInv, TypeOK
  <2>9. CASE i.type \notin RTracked
    <3>1. n = 0 /\ refs' = refs /\ wtable' = wtable
      BY <2>1, <2>7, <2>8, <2>9
    <3>2. 0 \notin Filling
      BY DEF Filling
    <3>3. Filling' = Filling
      BY <2>6, <3>1, <3>2
    <3> QED BY <2>1, <3>1, <3>3 DEF RefsAligned
  <2>10. CASE i.type \in RTracked
    <3>1. /\ n = Len(refs) + 1 /\ refs' = Append(refs, "null") /\ Len(refs') = Len(refs) + 1
          /\ refs'[Len(refs) + 1] = "null" /\ \A k \in 1..Len(refs) : refs'[k] = refs[k]
      BY <2>1, <2>7, <2>10
    <3>2. \A k \in 1..Len(refs) : k \in Filling' <=> k \in Filling
      <4> HIDE DEF n
      <4> QED BY <2>1, <2>6, <3>1
    <3>3. Len(refs) + 1 \in Filling'
      BY <2>1, <2>6, <3>1
    <3>4. ASSUME Live, NEW k \in 1..Len(refs')
          PROVE  refs'[k] = IF k \in Filling' THEN "null" ELSE ValueOf(wtable'[k])
      <4>1. CASE k = Len(refs) + 1
        BY <3>1, <3>3, <4>1
      <4>2. CASE k # Len(refs) + 1
        <5>1. k \in 1..Len(refs)
          BY <2>1, <3>1, <4>2
        <5>2. refs[k] = IF k \in Filling THEN "null" ELSE ValueOf(wtable[k])
          BY <3>4, <5>1 DEF RefsAligned, Live
        <5> QED BY <2>1, <2>8, <2>10, <3>1, <3>2, <5>1, <5>2
      <4> QED BY <4>1, <4>2
    <3>5. Len(refs') = Len(wtable')
      BY <2>1, <2>8, <2>10, <3>1
    <3> QED BY <2>1, <3>4, <3>5 DEF RefsAligned, Live
  <2> QED BY <2>9, <2>10
<1>7. EnterFails(i) => status' = "unwinding"
  BY DEF EnterFails, Fail
<1> QED BY <1>1, <1>3, <1>4, <1>5, <1>6, <1>7

LEMMA ReturnKeepsRefs ==
  ASSUME TypeInv, RefsAligned, Return
  PROVE  RefsAligned'
<1>1. /\ Depth > 1 /\ Depth \in Nat /\ frames' \in Seq(Frames)
      /\ refs \in Seq(Values) /\ Len(refs) \in Nat /\ Len(refs) = Len(wtable)
      /\ wtable' = wtable /\ Live /\ frames[Depth] = Top
  <2>1. /\ Depth > 1 /\ Live /\ wtable' = wtable /\ frames[Depth] = Top
    BY DEF Return, Live, rvars, Top
  <2>2. Depth \in Nat /\ refs \in Seq(Values) /\ Len(refs) \in Nat
    BY TopFacts DEF TypeInv, TypeOK
  <2>3. Len(refs) = Len(wtable)
    BY <2>1 DEF RefsAligned, Live
  <2>4. frames' \in Seq(Frames)
    BY ReturnType DEF TypeInv, TypeOK
  <2> QED BY <2>1, <2>2, <2>3, <2>4
<1>2. /\ Len(frames') = Depth - 1
      /\ \A k \in 1..Depth - 1 : frames'[k].ref = frames[k].ref
  <2> DEFINE parent == frames[Depth - 1]
             t == IF Swallows(parent, Top) THEN <<"swallow">> \o parent.todo
                  ELSE parent.todo
             r == IF Top.as = "tag" THEN Top.op = "rownames" ELSE parent.rn
  <2>1. parent.todo \in Seq(StepNames) /\ parent.rn \in BOOLEAN
    BY <1>1, PopFacts DEF Frames, TypeInv
  <2>2. <<"swallow">> \in Seq(StepNames)
    BY DEF StepNames
  <2>3. <<"swallow">> \o parent.todo \in Seq(StepNames)
    BY <2>1, <2>2, ConcatProperties
  <2>4. t \in Seq(StepNames) /\ r \in BOOLEAN
    BY <2>1, <2>3
  <2>5. frames' = Continue(SubSeq(frames, 1, Depth - 1), t, r)
    BY DEF Return
  <2> HIDE DEF t, r
  <2>6. Len(frames') = Depth - 1 /\ \A k \in 1..Depth - 1 : SameCall(frames'[k], frames[k])
    BY <1>1, <2>4, <2>5, ReturnFrames DEF TypeInv
  <2> QED BY <2>6 DEF SameCall
<1>3. Filling' = {frames[k].ref : k \in 1..Depth - 1} \ {0}
  BY <1>2 DEF Filling, Depth
<1>4. Filling' = Filling \ {Top.ref}
  <2>1. Top.ref # 0 => Top.ref \notin Filling'
    <3> SUFFICES ASSUME Top.ref # 0, NEW k \in 1..Depth - 1 PROVE frames[k].ref # Top.ref
      BY <1>3
    <3>1. k \in 1..Depth /\ Depth \in 1..Depth /\ k < Depth
      BY <1>1
    <3>2. frames[k].ref < frames[Depth].ref
      BY <1>1, <3>1 DEF TypeInv, Slots
    <3>3. frames[Depth].ref \in Nat /\ frames[k].ref \in Nat
      <4>1. frames \in Seq(Frames) /\ Depth = Len(frames)
        BY DEF TypeInv, TypeOK, Depth
      <4>2. frames[k] \in Frames /\ frames[Depth] \in Frames
        BY <3>1, <4>1, ElementOfSeq
      <4> QED BY <4>2 DEF Frames
    <3> QED BY <1>1, <3>2, <3>3
  <2>2. \A k : k \in 1..Depth <=> k \in 1..Depth - 1 \/ k = Depth
    BY <1>1
  <2> QED BY <1>1, <1>3, <2>1, <2>2 DEF Filling
<1>5. CASE Top.ref = 0
  <2>1. refs' = refs /\ Filling' = Filling
    BY <1>4, <1>5 DEF Return, Filling
  <2> QED BY <1>1, <2>1 DEF RefsAligned, Live, Return
<1>6. CASE Top.ref # 0
  <2>1. /\ Top.ref \in 1..Len(refs) /\ wtable[Top.ref] = Top.op
    <3>1. Depth \in 1..Depth
      BY <1>1
    <3> QED BY <1>1, <1>6, <3>1 DEF TypeInv, Slots
  <2>2. /\ Len(refs') = Len(refs) /\ refs'[Top.ref] = ValueOf(Top.op)
        /\ \A k \in 1..Len(refs) : k # Top.ref => refs'[k] = refs[k]
    BY <1>1, <1>6, <2>1 DEF Return
  <2>3. ASSUME NEW k \in 1..Len(refs)
        PROVE  refs'[k] = IF k \in Filling' THEN "null" ELSE ValueOf(wtable[k])
    <3>1. refs[k] = IF k \in Filling THEN "null" ELSE ValueOf(wtable[k])
      BY <1>1 DEF RefsAligned, Live
    <3> QED BY <1>4, <2>1, <2>2, <3>1
  <2> QED BY <1>1, <2>2, <2>3 DEF RefsAligned
<1> QED BY <1>5, <1>6

(* A back reference means to the parser the object R meant: every slot is   *)
(* Null while its object is read and holds that object's value afterwards.  *)
THEOREM RefTableAligned == Spec => []RefsAligned
<1>1. Init => RefsAligned
  BY DEF Init, PInit, RInit, RefsAligned
<1>2. TypeInv /\ RefsAligned /\ [Next]_vars => RefsAligned'
  <2> SUFFICES ASSUME TypeInv, RefsAligned, [Next]_vars PROVE RefsAligned'
    OBVIOUS
  <2>1. CASE Read
    BY <2>1, ReadKeepsRefs DEF Read
  <2>2. CASE Return
    BY <2>2, ReturnKeepsRefs
  <2>3. CASE ReadAtEnd
    <3>1. CASE Fail("eof")
      BY <3>1 DEF Fail, RefsAligned
    <3>2. CASE ~Fail("eof")
      <4>1. frames' = Continue(frames, Rest, Top.rn) /\ UNCHANGED <<refs, status, wtable>>
        BY <2>3, <3>2 DEF ReadAtEnd, AfterEnd, Rest, rvars
      <4>2. Rest \in Seq(StepNames) /\ Top.rn \in BOOLEAN
        BY <2>3, TopFacts DEF ReadAtEnd, Busy, TypeInv
      <4> QED BY <4>1, <4>2, ContinueKeepsRefs
    <3> QED BY <3>1, <3>2
  <2>4. CASE Unwind
    BY <2>4 DEF Unwind, RefsAligned
  <2>5. CASE Finish
    BY <2>5 DEF Finish, RefsAligned, Filling, Depth, rvars
  <2>6. CASE Truncate
    BY <2>6 DEF Truncate, RefsAligned, Filling, Depth, rvars
  <2>7. CASE UNCHANGED vars
    BY <2>7 DEF vars, pvars, rvars, RefsAligned, Filling, Depth
  <2> QED BY <2>1, <2>2, <2>3, <2>4, <2>5, <2>6, <2>7 DEF Next, Parse
<1> QED BY <1>1, <1>2, TypeCorrect, PTL DEF Spec
-----------------------------------------------------------------------------
(* The parser and R agree on what comes next.  The ends of the open objects *)
(* come in the order of the stack, which is what lets a read at the top     *)
(* leave the agreement further down alone.                                  *)
LeftAt(k) == IF k = Depth THEN Len(wtodo) ELSE frames[k + 1].rest

Agree ==
  /\ \A j, k \in 1..Depth : j < k => frames[j].rest <= frames[k].rest
  /\ \A k \in 1..Depth :
       /\ frames[k].op # "real3"
       /\ Len(frames[k].todo) + frames[k].rest = LeftAt(k)
       /\ \A j \in 1..Len(frames[k].todo) :
            RoleOf(frames[k].todo[j]) = wtodo[Len(wtodo) - LeftAt(k) + j]

LEMMA AgreeTop ==
  ASSUME TypeInv, Agree
  PROVE  /\ Len(wtodo) = Len(Top.todo) + Top.rest
         /\ \A j \in 1..Len(Top.todo) : RoleOf(Top.todo[j]) = wtodo[j]
         /\ \A k \in 1..Depth : frames[k].rest \in Nat /\ frames[k].rest <= Top.rest
<1>1. /\ Depth \in Nat \ {0} /\ Depth \in 1..Depth /\ LeftAt(Depth) = Len(wtodo)
      /\ frames[Depth] = Top /\ Len(wtodo) \in Nat
  BY TopFacts DEF LeftAt, Top, TypeInv, TypeOK, RTypeOK
<1>2. \A k \in 1..Depth : frames[k] \in Frames
  BY ElementOfSeq DEF TypeInv, TypeOK, Depth
<1>3. ASSUME NEW k \in 1..Depth
      PROVE  frames[k].rest \in Nat /\ frames[k].rest <= Top.rest
  <2>1. frames[k].rest \in Nat
    BY <1>2 DEF Frames
  <2>2. CASE k = Depth
    BY <1>1, <2>1, <2>2
  <2>3. CASE k # Depth
    BY <1>1, <2>1, <2>3 DEF Agree
  <2> QED BY <2>1, <2>2, <2>3
<1>4. Len(wtodo) = Len(Top.todo) + Top.rest
  BY <1>1 DEF Agree
<1>5. \A j \in 1..Len(Top.todo) : RoleOf(Top.todo[j]) = wtodo[j]
  <2> SUFFICES ASSUME NEW j \in 1..Len(Top.todo) PROVE RoleOf(Top.todo[j]) = wtodo[j]
    OBVIOUS
  <2>1. RoleOf(Top.todo[j]) = wtodo[Len(wtodo) - Len(wtodo) + j]
    BY <1>1 DEF Agree
  <2> QED BY <1>1, <2>1
<1> QED BY <1>3, <1>4, <1>5

(* Items read in front of what a call below the top has still to read.      *)
LEMMA AgreeBelow ==
  ASSUME TypeInv, Agree, Busy, wtodo # <<>>, NEW P \in Seq(Roles),
         wtodo' = P \o Tail(wtodo),
         NEW k \in 1..Depth - 1, NEW j \in 1..Len(frames[k].todo)
  PROVE  RoleOf(frames[k].todo[j]) = wtodo'[Len(wtodo') - frames[k + 1].rest + j]
<1> DEFINE left == frames[k + 1].rest
           n == Len(wtodo)
           q == n - left + j
<1>1. /\ Depth \in Nat \ {0} /\ Top.todo \in Seq(StepNames) /\ Top.todo # <<>>
      /\ wtodo \in Seq(Roles)
  BY TopFacts DEF TypeInv, TypeOK, RTypeOK, Busy
<1>2. k \in 1..Depth /\ k + 1 \in 1..Depth /\ k # Depth
  BY <1>1
<1>3. /\ left \in Nat /\ left <= Top.rest /\ Top.rest \in Nat
      /\ frames[k].rest \in Nat
  BY <1>1, <1>2, AgreeTop DEF Top
<1>4. Len(Top.todo) \in Nat \ {0} /\ n \in Nat /\ n = Len(Top.todo) + Top.rest
  BY <1>1, AgreeTop, EmptySeq
<1>5. /\ Len(frames[k].todo) + frames[k].rest = left
      /\ RoleOf(frames[k].todo[j]) = wtodo[q]
  BY <1>2 DEF Agree, LeftAt
<1>6. /\ Len(frames[k].todo) \in Nat
      /\ j \in Nat /\ 1 <= j /\ j <= left
  <2>1. frames[k] \in Frames
    BY <1>2, ElementOfSeq DEF TypeInv, TypeOK, Depth
  <2>2. Len(frames[k].todo) \in Nat
    BY <2>1 DEF Frames
  <2>3. j \in Nat /\ 1 <= j /\ j <= Len(frames[k].todo)
    BY <2>2
  <2>4. Len(frames[k].todo) <= left
    <3> HIDE DEF left
    <3> QED BY <1>3, <1>5, <2>2
  <2> HIDE DEF left
  <2> QED BY <1>3, <2>2, <2>3, <2>4
<1>7. q \in 2..n /\ q = n - left + j
  <2> HIDE DEF n, left
  <2> QED BY <1>3, <1>4, <1>6
<1>8. /\ Tail(wtodo) \in Seq(Roles) /\ Len(Tail(wtodo)) = n - 1
      /\ \A i \in 1..n - 1 : Tail(wtodo)[i] = wtodo[i + 1]
  BY <1>1, HeadTailProperties
<1>9. Len(P) \in Nat /\ Len(wtodo') = Len(P) + (n - 1)
  BY <1>8, ConcatProperties, LenProperties
<1>10. wtodo'[Len(P) + (q - 1)] = wtodo[q]
  <2>1. Len(P) + (q - 1) \in 1..Len(P) + (n - 1) /\ ~(Len(P) + (q - 1) <= Len(P))
    BY <1>7, <1>9, <1>4
  <2>2. wtodo'[Len(P) + (q - 1)] = Tail(wtodo)[(Len(P) + (q - 1)) - Len(P)]
    BY <1>8, <2>1, ConcatProperties
  <2>3. (Len(P) + (q - 1)) - Len(P) = q - 1 /\ q - 1 \in 1..n - 1 /\ (q - 1) + 1 = q
    BY <1>4, <1>7, <1>9
  <2> HIDE DEF q
  <2> QED BY <1>8, <2>2, <2>3
<1>11. Len(wtodo') - left + j = Len(P) + (q - 1)
  <2> DEFINE m == Len(wtodo')
             p == Len(P)
  <2>1. m = p + (n - 1) /\ p \in Nat
    BY <1>9
  <2> HIDE DEF n, left, q, m, p
  <2>2. m - left + j = p + (q - 1)
    BY <1>3, <1>4, <1>6, <1>7, <2>1
  <2> QED BY <2>2 DEF m, p
<1> QED BY <1>5, <1>10, <1>11

(* What the tail of the reads stands for is the tail of the roles.          *)
LEMMA RestFacts ==
  ASSUME TypeInv, Agree, Busy
  PROVE  /\ Top.todo # <<>> /\ Rest \in Seq(StepNames) /\ Step = Top.todo[1]
         /\ Len(Rest) \in Nat
         /\ Len(Rest) = Len(Top.todo) - 1 /\ Len(Top.todo) \in Nat \ {0}
         /\ wtodo # <<>> /\ Len(wtodo) \in Nat \ {0} /\ Len(Tail(wtodo)) = Len(wtodo) - 1
         /\ Tail(wtodo) \in Seq(Roles) /\ Head(wtodo) = RoleOf(Step)
         /\ \A j \in 1..Len(Rest) : RoleOf(Rest[j]) = Tail(wtodo)[j]
<1>1. /\ Top.todo \in Seq(StepNames) /\ Top.todo # <<>> /\ wtodo \in Seq(Roles)
      /\ Depth \in Nat \ {0}
  BY TopFacts DEF TypeInv, TypeOK, RTypeOK, Busy
<1>2. /\ Rest \in Seq(StepNames) /\ Step = Top.todo[1]
      /\ Len(Rest) = Len(Top.todo) - 1
      /\ \A j \in 1..Len(Rest) : Rest[j] = Top.todo[j + 1]
  BY <1>1, HeadTailProperties DEF Rest, Step
<1>3. Len(Top.todo) \in Nat \ {0}
  BY <1>1, EmptySeq
<1>4. /\ Len(wtodo) = Len(Top.todo) + Top.rest /\ Top.rest \in Nat
      /\ \A j \in 1..Len(Top.todo) : RoleOf(Top.todo[j]) = wtodo[j]
  BY <1>1, AgreeTop DEF Top
<1>5. Len(wtodo) \in Nat \ {0} /\ wtodo # <<>>
  BY <1>3, <1>4, EmptySeq
<1>6. /\ Tail(wtodo) \in Seq(Roles) /\ Len(Tail(wtodo)) = Len(wtodo) - 1
      /\ Head(wtodo) = wtodo[1]
      /\ \A j \in 1..Len(wtodo) - 1 : Tail(wtodo)[j] = wtodo[j + 1]
  BY <1>1, <1>5, HeadTailProperties
<1>7. Head(wtodo) = RoleOf(Step)
  <2>1. 1 \in 1..Len(Top.todo)
    BY <1>3
  <2>2. RoleOf(Top.todo[1]) = wtodo[1]
    BY <1>4, <2>1
  <2> QED BY <1>2, <1>6, <2>2
<1>8. ASSUME NEW j \in 1..Len(Rest)
      PROVE  RoleOf(Rest[j]) = Tail(wtodo)[j]
  <2>1. j + 1 \in 1..Len(Top.todo) /\ j \in 1..Len(wtodo) - 1
    BY <1>2, <1>3, <1>4
  <2>2. RoleOf(Top.todo[j + 1]) = wtodo[j + 1]
    BY <1>4, <2>1
  <2> QED BY <1>2, <1>6, <2>1, <2>2
<1>9. Len(Rest) \in Nat
  BY <1>2, LenProperties
<1> QED BY <1>1, <1>2, <1>3, <1>5, <1>6, <1>7, <1>8, <1>9

(* The top call reads an item whose parts it goes on to read itself.        *)
LEMMA AgreeInPlace ==
  ASSUME TypeInv, Agree, Busy, NEW S, NEW P, Match(S, P), NEW r \in BOOLEAN,
         frames' = Continue(frames, S \o Rest, r), wtodo' = P \o Tail(wtodo)
  PROVE  Agree'
<1> DEFINE t == S \o Rest
<1>1. /\ S \in Seq(StepNames) /\ P \in Seq(Roles) /\ Len(S) = Len(P) /\ Len(S) \in Nat
      /\ \A j \in 1..Len(S) : RoleOf(S[j]) = P[j]
  BY DEF Match
<1>2. /\ Rest \in Seq(StepNames) /\ Len(Rest) \in Nat
      /\ Len(Rest) = Len(Top.todo) - 1 /\ wtodo # <<>>
      /\ Tail(wtodo) \in Seq(Roles) /\ Len(Tail(wtodo)) = Len(wtodo) - 1
      /\ \A j \in 1..Len(Rest) : RoleOf(Rest[j]) = Tail(wtodo)[j]
  BY RestFacts
<1>3. /\ t \in Seq(StepNames) /\ Len(t) = Len(S) + Len(Rest)
      /\ \A j \in 1..Len(S) + Len(Rest) :
           t[j] = IF j <= Len(S) THEN S[j] ELSE Rest[j - Len(S)]
  <2>1. S \in Seq(StepNames) /\ Rest \in Seq(StepNames)
    BY <1>1, <1>2
  <2> QED BY ONLY <2>1, ConcatProperties
<1>4. /\ Len(wtodo') = Len(P) + Len(Tail(wtodo))
      /\ \A j \in 1..Len(P) + Len(Tail(wtodo)) :
           wtodo'[j] = IF j <= Len(P) THEN P[j] ELSE Tail(wtodo)[j - Len(P)]
  BY <1>1, <1>2, ConcatProperties
<1> DEFINE a == Len(S)
           b == Len(Rest)
           c == Len(Top.todo)
           d == Top.rest
           n == Len(wtodo)
           m == Len(wtodo')
           z == Len(Tail(wtodo))
<1>5. /\ Depth \in Nat \ {0} /\ frames \in Seq(Frames) /\ frames # <<>>
      /\ Depth = Len(frames) /\ Len(wtodo) \in Nat
  BY TopFacts DEF TypeInv, TypeOK, RTypeOK, Depth
<1>6. frames' = Continue(frames, t, r)
  OBVIOUS
<1> HIDE DEF t
<1>7. /\ Len(frames') = Depth /\ Depth' = Depth
      /\ \A k \in 1..Depth - 1 : frames'[k] = frames[k]
      /\ SameCall(frames'[Depth], frames[Depth])
      /\ frames'[Depth].todo = t
  BY <1>3, <1>5, <1>6, ContinueFacts DEF Depth
<1>8. /\ Len(wtodo) = Len(Top.todo) + Top.rest /\ Top.rest \in Nat
      /\ Top = frames[Depth] /\ Len(Top.todo) \in Nat \ {0}
  BY <1>5, AgreeTop, RestFacts DEF Top
<1>12. /\ a \in Nat /\ b \in Nat /\ c \in Nat \ {0} /\ d \in Nat /\ n \in Nat
       /\ a = Len(P) /\ b = c - 1 /\ z = n - 1 /\ n = c + d /\ m = a + z
       /\ Len(t) = a + b
  BY <1>1, <1>2, <1>3, <1>4, <1>5, <1>8
<1> HIDE DEF a, b, c, d, n, m, z
<1>13. m \in Nat /\ z \in Nat /\ a + b + d = m /\ b <= z
  BY <1>12
<1>9. \A k \in 1..Depth : SameCall(frames'[k], frames[k])
  <2> SUFFICES ASSUME NEW k \in 1..Depth PROVE SameCall(frames'[k], frames[k])
    OBVIOUS
  <2>1. k = Depth \/ k \in 1..Depth - 1
    BY <1>5
  <2> QED BY <1>7, <2>1 DEF SameCall
<1>10. \A j, k \in 1..Depth : j < k => frames'[j].rest <= frames'[k].rest
  BY <1>9 DEF Agree, SameCall
<1>11. ASSUME NEW k \in 1..Depth
       PROVE  /\ frames'[k].op # "real3"
              /\ Len(frames'[k].todo) + frames'[k].rest = LeftAt(k)'
              /\ \A j \in 1..Len(frames'[k].todo) :
                   RoleOf(frames'[k].todo[j]) = wtodo'[Len(wtodo') - LeftAt(k)' + j]
  <2>1. frames'[k].op # "real3" /\ frames'[k].rest = frames[k].rest
    BY <1>9 DEF Agree, SameCall
  <2>2. CASE k = Depth
    <3>1. LeftAt(k)' = Len(wtodo')
      BY <1>7, <2>2 DEF LeftAt
    <3>2. Len(t) + Top.rest = Len(wtodo')
      BY <1>12, <1>13 DEF m, d
    <3>3. ASSUME NEW j \in 1..Len(t)
          PROVE  RoleOf(t[j]) = wtodo'[j]
      <4>1. j \in 1..Len(S) + Len(Rest) /\ j \in 1..Len(P) + Len(Tail(wtodo))
        <5>1. j \in 1..a + b /\ j \in 1..a + z
          BY <1>12, <1>13
        <5> QED BY <1>12, <5>1 DEF a, b, z
      <4>2. CASE j <= Len(S)
        <5>1. t[j] = S[j] /\ wtodo'[j] = P[j] /\ j \in 1..Len(S)
          BY <1>1, <1>3, <1>4, <4>1, <4>2
        <5> QED BY <1>1, <5>1
      <4>3. CASE ~(j <= Len(S))
        <5>1. /\ t[j] = Rest[j - Len(S)] /\ wtodo'[j] = Tail(wtodo)[j - Len(S)]
              /\ j - Len(S) \in 1..Len(Rest)
          BY <1>1, <1>2, <1>3, <1>4, <4>1, <4>3
        <5> QED BY <1>2, <5>1
      <4> QED BY <4>2, <4>3
    <3>4. Len(t) \in Nat /\ Len(wtodo') \in Nat
      BY <1>12, <1>13 DEF m
    <3>5. \A j \in 1..Len(t) : Len(wtodo') - Len(wtodo') + j = j
      BY <3>4
    <3>6. frames'[k].todo = t /\ frames'[k].rest = Top.rest
      BY <1>7, <1>8, <2>1, <2>2
    <3>7. \A j \in 1..Len(t) : RoleOf(t[j]) = wtodo'[Len(wtodo') - LeftAt(k)' + j]
      BY <3>1, <3>3, <3>5
    <3> QED BY <2>1, <3>1, <3>2, <3>6, <3>7
  <2>3. CASE k # Depth
    <3>1. k \in 1..Depth - 1 /\ k + 1 \in 1..Depth
      BY <1>5, <2>3
    <3>2. frames'[k] = frames[k] /\ LeftAt(k)' = frames[k + 1].rest
          /\ LeftAt(k) = frames[k + 1].rest
      BY <1>7, <1>9, <2>3, <3>1 DEF LeftAt, SameCall
    <3>3. \A j \in 1..Len(frames[k].todo) :
            RoleOf(frames[k].todo[j]) = wtodo'[Len(wtodo') - frames[k + 1].rest + j]
      BY <1>1, <1>2, <3>1, AgreeBelow
    <3> QED BY <2>1, <3>2, <3>3 DEF Agree
  <2> QED BY <2>2, <2>3
<1> QED BY <1>7, <1>10, <1>11 DEF Agree

(* The top call reads an item and hands its parts to a new call.            *)
LEMMA AgreeCall ==
  ASSUME TypeInv, Agree, Busy, NEW S, NEW P, Match(S, P), NEW r \in BOOLEAN,
         NEW f \in Frames, f.todo = S, f.rest = Len(wtodo) - 1, f.op # "real3",
         frames' = Append(Continue(frames, Rest, r), f), wtodo' = P \o Tail(wtodo)
  PROVE  Agree'
<1>1. /\ S \in Seq(StepNames) /\ P \in Seq(Roles) /\ Len(S) = Len(P) /\ Len(S) \in Nat
      /\ \A j \in 1..Len(S) : RoleOf(S[j]) = P[j]
  BY DEF Match
<1>2. /\ Rest \in Seq(StepNames) /\ Len(Rest) \in Nat
      /\ Len(Rest) = Len(Top.todo) - 1 /\ Len(Top.todo) \in Nat \ {0}
      /\ wtodo # <<>> /\ Len(wtodo) \in Nat \ {0}
      /\ Tail(wtodo) \in Seq(Roles) /\ Len(Tail(wtodo)) = Len(wtodo) - 1
      /\ \A j \in 1..Len(Rest) : RoleOf(Rest[j]) = Tail(wtodo)[j]
  BY RestFacts
<1>3. /\ Len(wtodo') = Len(P) + Len(Tail(wtodo))
      /\ \A j \in 1..Len(P) + Len(Tail(wtodo)) :
           wtodo'[j] = IF j <= Len(P) THEN P[j] ELSE Tail(wtodo)[j - Len(P)]
  BY <1>1, <1>2, ConcatProperties
<1>4. Depth \in Nat \ {0} /\ Top = frames[Depth] /\ TypeOK
  BY TopFacts DEF TypeInv, Top
<1>5. /\ Len(frames') = Depth + 1 /\ frames'[Depth + 1] = f
      /\ \A k \in 1..Depth : SameCall(frames'[k], frames[k])
      /\ \A k \in 1..Depth - 1 : frames'[k] = frames[k]
      /\ frames'[Depth].todo = Rest
  <2>1. Rest \in Seq(StepNames) /\ TypeOK
    BY <1>2, <1>4
  <2> QED BY <2>1, CallFrames
<1>6. Depth' = Depth + 1
  BY <1>5 DEF Depth
<1>7. /\ Len(wtodo) = Len(Top.todo) + Top.rest /\ Top.rest \in Nat
      /\ \A k \in 1..Depth : frames[k].rest \in Nat /\ frames[k].rest <= Top.rest
  BY <1>4, AgreeTop
<1> DEFINE a == Len(S)
           b == Len(Rest)
           c == Len(Top.todo)
           d == Top.rest
           n == Len(wtodo)
           m == Len(wtodo')
           z == Len(Tail(wtodo))
<1>8. /\ a \in Nat /\ b \in Nat /\ c \in Nat \ {0} /\ d \in Nat /\ n \in Nat
      /\ a = Len(P) /\ b = c - 1 /\ z = n - 1 /\ n = c + d /\ m = a + z
      /\ f.rest = z
  BY <1>1, <1>2, <1>3, <1>7
<1>9. \A k \in 1..Depth : frames[k].rest \in Nat /\ frames[k].rest <= d
  BY <1>7
<1> HIDE DEF a, b, c, d, n, m, z
<1>10. m \in Nat /\ z \in Nat /\ d <= z /\ b + d = z
  BY <1>8
<1>11. ASSUME NEW j \in 1..Depth + 1, NEW k \in 1..Depth + 1, j < k
       PROVE  frames'[j].rest <= frames'[k].rest
  <2>1. j \in 1..Depth /\ frames'[j].rest = frames[j].rest
    BY <1>4, <1>5, <1>11 DEF SameCall
  <2>2. CASE k = Depth + 1
    <3>1. frames'[k].rest = z
      BY <1>5, <1>8, <2>2
    <3>2. frames[j].rest \in Nat /\ frames[j].rest <= d
      BY <1>9, <2>1
    <3> QED BY <1>8, <1>10, <2>1, <3>1, <3>2
  <2>3. CASE k # Depth + 1
    <3>1. k \in 1..Depth /\ frames'[k].rest = frames[k].rest
      BY <1>4, <1>5, <2>3 DEF SameCall
    <3> QED BY <1>11, <2>1, <3>1 DEF Agree
  <2> QED BY <2>2, <2>3
<1>12. ASSUME NEW k \in 1..Depth + 1
       PROVE  /\ frames'[k].op # "real3"
              /\ Len(frames'[k].todo) + frames'[k].rest = LeftAt(k)'
              /\ \A j \in 1..Len(frames'[k].todo) :
                   RoleOf(frames'[k].todo[j]) = wtodo'[Len(wtodo') - LeftAt(k)' + j]
  <2>1. CASE k = Depth + 1
    <3>1. LeftAt(k)' = Len(wtodo') /\ frames'[k] = f
      BY <1>5, <1>6, <2>1 DEF LeftAt
    <3>2. Len(S) + f.rest = Len(wtodo')
      BY <1>8, <1>10 DEF a, m
    <3>3. ASSUME NEW j \in 1..Len(S)
          PROVE  RoleOf(S[j]) = wtodo'[Len(wtodo') - Len(wtodo') + j]
      <4>1. j \in 1..a + z /\ j <= a /\ m - m + j = j
        BY <1>8, <1>10 DEF a
      <4>2. wtodo'[j] = P[j]
        BY <1>3, <1>8, <4>1 DEF z
      <4>3. Len(wtodo') - Len(wtodo') + j = j
        BY <4>1 DEF m
      <4> QED BY <1>1, <4>2, <4>3
    <3> QED BY <3>1, <3>2, <3>3
  <2>2. CASE k = Depth
    <3>1. k # Depth' /\ LeftAt(k)' = f.rest
      BY <1>4, <1>5, <1>6, <2>2 DEF LeftAt
    <3>2. frames'[k].todo = Rest /\ frames'[k].op # "real3" /\ frames'[k].rest = Top.rest
      BY <1>4, <1>5, <2>2 DEF SameCall, Agree
    <3>3. Len(Rest) + Top.rest = f.rest
      BY <1>8, <1>10 DEF b, d
    <3>4. ASSUME NEW j \in 1..Len(Rest)
          PROVE  RoleOf(Rest[j]) = wtodo'[Len(wtodo') - f.rest + j]
      <4>1. j \in Nat /\ j >= 1 /\ j <= b
        BY <1>8 DEF b
      <4>2. /\ a + j \in 1..a + z /\ ~(a + j <= a) /\ (a + j) - a = j
            /\ m - z + j = a + j
        BY <1>8, <1>10, <4>1
      <4>3. wtodo'[a + j] = Tail(wtodo)[(a + j) - a]
        BY <1>3, <1>8, <4>2 DEF z
      <4>4. Len(wtodo') - f.rest + j = a + j
        BY <1>8, <4>2 DEF m
      <4> QED BY <1>2, <4>2, <4>3, <4>4
    <3> QED BY <3>1, <3>2, <3>3, <3>4
  <2>3. CASE k # Depth + 1 /\ k # Depth
    <3>1. k \in 1..Depth - 1 /\ k + 1 \in 1..Depth /\ k \in 1..Depth /\ k # Depth'
      BY <1>4, <1>6, <2>3
    <3>2. frames'[k] = frames[k] /\ LeftAt(k)' = frames[k + 1].rest
          /\ LeftAt(k) = frames[k + 1].rest
      BY <1>5, <2>3, <3>1 DEF LeftAt, SameCall
    <3>3. \A j \in 1..Len(frames[k].todo) :
            RoleOf(frames[k].todo[j]) = wtodo'[Len(wtodo') - frames[k + 1].rest + j]
      BY <1>1, <1>2, <3>1, AgreeBelow
    <3> QED BY <3>1, <3>2, <3>3 DEF Agree
  <2> QED BY <2>1, <2>2, <2>3
<1> QED BY <1>6, <1>11, <1>12 DEF Agree

(* The top call returns: it stopped where its caller goes on.               *)
LEMMA AgreeReturn ==
  ASSUME TypeInv, Agree, Return
  PROVE  Agree'
<1> DEFINE parent == frames[Depth - 1]
           t == parent.todo
           r == IF Top.as = "tag" THEN Top.op = "rownames" ELSE parent.rn
<1>1. /\ Depth > 1 /\ Depth \in Nat /\ Top = frames[Depth] /\ parent \in Frames
      /\ Top.todo = <<>> /\ wtodo' = wtodo /\ TypeOK /\ Len(wtodo) \in Nat
  BY TopFacts, PopFacts DEF Return, TypeInv, TypeOK, RTypeOK, Top, rvars
<1>2. ~Swallows(parent, Top)
  <2>1. Depth \in 1..Depth
    BY <1>1
  <2> QED BY <1>1, <2>1 DEF Agree, Swallows
<1>3. t \in Seq(StepNames) /\ r \in BOOLEAN
  BY <1>1 DEF Frames
<1>4. frames' = Continue(SubSeq(frames, 1, Depth - 1), t, r)
  BY <1>2 DEF Return
<1> HIDE DEF t, r
<1>5. /\ Len(frames') = Depth - 1
      /\ \A k \in 1..Depth - 1 : SameCall(frames'[k], frames[k])
      /\ \A k \in 1..Depth - 2 : frames'[k] = frames[k]
      /\ frames'[Depth - 1].todo = t
  BY <1>1, <1>3, <1>4, ReturnFrames
<1>6. Depth' = Depth - 1
  BY <1>5 DEF Depth
<1>7. Len(wtodo) = Top.rest
  <2>1. Len(wtodo) = Len(Top.todo) + Top.rest /\ Top.rest \in Nat
    BY <1>1, AgreeTop DEF Top
  <2> QED BY <1>1, <2>1, EmptySeq
<1>8. ASSUME NEW k \in 1..Depth - 1
      PROVE  /\ frames'[k].op = frames[k].op /\ frames'[k].rest = frames[k].rest
             /\ frames'[k].todo = frames[k].todo /\ LeftAt(k)' = LeftAt(k)
             /\ k \in 1..Depth
  <2>1. k \in 1..Depth /\ k # Depth
    BY <1>1
  <2>2. CASE k = Depth - 1
    <3>1. frames'[k].todo = frames[k].todo
      BY <1>5, <2>2 DEF t
    <3>2. LeftAt(k)' = Len(wtodo') /\ LeftAt(k) = frames[k + 1].rest /\ k + 1 = Depth
      BY <1>1, <1>6, <2>1, <2>2 DEF LeftAt
    <3> QED BY <1>1, <1>5, <1>7, <2>1, <3>1, <3>2 DEF SameCall
  <2>3. CASE k # Depth - 1
    <3>1. k \in 1..Depth - 2 /\ k + 1 \in 1..Depth - 1
      BY <1>1, <2>3
    <3>2. LeftAt(k)' = frames'[k + 1].rest /\ LeftAt(k) = frames[k + 1].rest
      BY <1>6, <2>1, <2>3 DEF LeftAt
    <3> QED BY <1>5, <2>1, <3>1, <3>2 DEF SameCall
  <2> QED BY <2>2, <2>3
<1>9. \A j, k \in 1..Depth - 1 : j < k => frames'[j].rest <= frames'[k].rest
  BY <1>8 DEF Agree
<1>10. ASSUME NEW k \in 1..Depth - 1
       PROVE  /\ frames'[k].op # "real3"
              /\ Len(frames'[k].todo) + frames'[k].rest = LeftAt(k)'
              /\ \A j \in 1..Len(frames'[k].todo) :
                   RoleOf(frames'[k].todo[j]) = wtodo'[Len(wtodo') - LeftAt(k)' + j]
  BY <1>1, <1>8 DEF Agree
<1> QED BY <1>6, <1>9, <1>10 DEF Agree

LEMMA RefHasNoParts ==
  ASSUME RTypeOK, NEW i \in NextItems, i.type = "ref", Write(i)
  PROVE  wtodo' = <<>> \o Tail(wtodo)
<1>1. ~i.attr
  BY NextItemFacts DEF RefItems, Item
<1>2. Parts(i) = <<>> \o <<>> \o <<>>
  BY <1>1 DEF AttrsBefore, Contents, AttrsAfter, Parts, SymbolKinds, AttrFirst
<1>3. <<>> \o <<>> \o <<>> = <<>>
  BY EmptySeq, ConcatEmptySeq
<1> QED BY <1>2, <1>3 DEF Write

LEMMA ReadKeepsAgreement ==
  ASSUME Handled, TypeInv, Agree, Busy, NEW i \in NextItems,
         ReadTagRef(i) \/ ReadCell(i) \/ EnterFails(i) \/ ReadRef(i) \/ ReadObject(i),
         status' # "unwinding"
  PROVE  Agree'
<1>1. /\ Rest \in Seq(StepNames) /\ Top.rn \in BOOLEAN /\ Head(wtodo) = RoleOf(Step)
      /\ RTypeOK /\ wtodo # <<>>
  BY TopFacts, RestFacts DEF TypeInv, TypeOK
<1>2. <<>> \o Rest = Rest
  BY <1>1, ConcatEmptySeq
<1>3. CASE ReadTagRef(i)
  <2>1. PICK r \in BOOLEAN : frames' = Continue(frames, Rest, r)
    BY <1>3 DEF ReadTagRef, Fail
  <2>2. wtodo' = <<>> \o Tail(wtodo)
    BY <1>1, <1>3, RefHasNoParts DEF ReadTagRef
  <2> QED BY <1>2, <2>1, <2>2, MatchEmpty, AgreeInPlace
<1>4. CASE ReadRef(i)
  <2>1. frames' = Continue(frames, Rest, Top.rn)
    BY <1>4 DEF ReadRef, Fail
  <2>2. wtodo' = <<>> \o Tail(wtodo)
    BY <1>1, <1>4, RefHasNoParts DEF ReadRef
  <2> QED BY <1>1, <1>2, <2>1, <2>2, MatchEmpty, AgreeInPlace
<1>5. CASE i.type # "ref"
  <2> DEFINE role == Head(wtodo)
  <2>1. i \in NewItems(role) /\ role \in Roles
    BY <1>1, <1>5, NextItemFacts
  <2>2. Match(Steps(i), Parts(i))
    BY <1>1, <2>1, StepsMatchParts
  <2>3. CASE ReadCell(i)
    <3>1. role = "cdr"
      BY <1>1, <2>3 DEF ReadCell, RoleOf
    <3>2. /\ i.type \in {"nil", "list"} /\ ~i.attr /\ i.tag \in BOOLEAN
          /\ i.tag => i.type = "clo" \/ role = "cell" \/ i.type \in RTagged
      <4>1. /\ i.type \in KindsOf(role) /\ i \in Items
            /\ i.tag => i.type = "clo" \/ role = "cell" \/ i.type \in RTagged
            /\ i.attr /\ role = "cdr" => CellAttrs
        BY <1>1, <2>1, NewItemFacts
      <4> QED BY <3>1, <4>1 DEF KindsOf, Handled, Items
    <3>3. i.type = "list"
      BY <2>3, <3>1, <3>2 DEF ReadCell, Pairs, RTagged
    <3> DEFINE cell == Item("list", FALSE, i.tag, 0, 0)
    <3>4. cell.type = "list" /\ ~cell.attr /\ cell.tag = i.tag
      BY DEF Item
    <3>5. Steps(cell) = Steps(i)
      <4> HIDE DEF cell
      <4> QED BY <3>2, <3>3, <3>4 DEF Steps, EarlyAttrs, Data, LateAttrs, ParseCell, IfTagged, SymbolKinds
    <3>6. frames' = Continue(frames, Steps(i) \o Rest, FALSE)
      BY <2>3, <3>5 DEF ReadCell
    <3>7. wtodo' = Parts(i) \o Tail(wtodo)
      BY <2>3 DEF ReadCell, Write
    <3> QED BY <2>2, <3>6, <3>7, AgreeInPlace
  <2>4. CASE ReadObject(i)
    <3> DEFINE n == IF i.type \in Tracked THEN Len(refs) + 1 ELSE 0
               f == NewFrame(i.type, Step, Steps(i), n, ~i.attr)
    <3>1. n \in Nat
      BY DEF TypeInv, TypeOK
    <3>2. f.op = i.type /\ f.todo = Steps(i) /\ f.rest = Len(wtodo) - 1
      BY DEF NewFrame
    <3>3. f \in Frames
      <4> HIDE DEF n
      <4> QED BY <1>5, <3>1, NewFrameType
    <3>4. i.type # "real3"
      <4>1. i.type \in KindsOf(role)
        BY <1>1, <2>1, NewItemFacts
      <4> QED BY <2>1, <4>1 DEF Handled, KindsOf, Roles, SymbolKinds, EnvKinds
    <3>5. frames' = Append(Continue(frames, Rest, Top.rn), f)
      BY <2>4 DEF ReadObject
    <3>6. wtodo' = Parts(i) \o Tail(wtodo)
      BY <2>4 DEF ReadObject, Write
    <3> HIDE DEF f
    <3> QED BY <1>1, <2>2, <3>2, <3>3, <3>4, <3>5, <3>6, AgreeCall
  <2>5. ~ReadTagRef(i) /\ ~ReadRef(i) /\ ~EnterFails(i)
    BY <1>5 DEF ReadTagRef, ReadRef, EnterFails, Fail
  <2> QED BY <2>3, <2>4, <2>5
<1> QED BY <1>3, <1>4, <1>5 DEF ReadCell, ReadObject, EnterFails, Fail

Agreement == Live /\ eof = "no" => Agree

LEMMA AgreementStep ==
  ASSUME Handled, TypeInv, Agreement, [Next]_vars
  PROVE  Agreement'
<1> SUFFICES ASSUME Live', eof' = "no" PROVE Agree'
  BY DEF Agreement
<1>1. CASE Read
  <2>1. eof = "no" /\ Live /\ Busy
    BY <1>1 DEF Read, Busy, Live, ReadTagRef, ReadCell, EnterFails, ReadRef, ReadObject, Fail
  <2> QED BY <1>1, <2>1, ReadKeepsAgreement DEF Read, Agreement, Live
<1>2. CASE Return
  BY <1>2, AgreeReturn DEF Return, Agreement, Live
<1>3. CASE ReadAtEnd
  <2>1. eof = "no" /\ Live /\ Busy /\ wtodo = <<>>
    BY <1>3 DEF ReadAtEnd, Busy, AtEnd, Live, Fail
  <2> QED BY <2>1, RestFacts DEF Agreement
<1>4. CASE Unwind
  BY <1>4 DEF Unwind, Live
<1>5. CASE Finish
  BY <1>5 DEF Finish, Agreement, Agree, LeftAt, Live, Depth, rvars
<1>6. CASE Truncate
  BY <1>6 DEF Truncate
<1>7. CASE UNCHANGED vars
  BY <1>7 DEF vars, pvars, rvars, Agreement, Agree, LeftAt, Live, Depth
<1> QED BY <1>1, <1>2, <1>3, <1>4, <1>5, <1>6, <1>7 DEF Next, Parse

LEMMA AgreementInit ==
  ASSUME Init
  PROVE  Agreement
<1>1. /\ Depth = 1 /\ wtodo = <<"item">> /\ frames[1].todo = <<"item">>
      /\ frames[1].rest = 0 /\ frames[1].op = "root"
  BY DEF Init, PInit, RInit, Depth
<1>2. LeftAt(1) = 1
  BY <1>1 DEF LeftAt
<1>3. \A k \in 1..Depth : k = 1
  BY <1>1
<1>4. Len(<<"item">>) = 1 /\ <<"item">>[1] = "item" /\ RoleOf("item") = "item"
  BY DEF RoleOf
<1>5. \A j \in 1..Len(<<"item">>) : j = 1 /\ Len(<<"item">>) - LeftAt(1) + j = 1
  BY <1>2, <1>4
<1>6. /\ Len(frames[1].todo) + frames[1].rest = LeftAt(1)
      /\ \A j \in 1..Len(frames[1].todo) :
           RoleOf(frames[1].todo[j]) = wtodo[Len(wtodo) - LeftAt(1) + j]
  BY <1>1, <1>2, <1>4, <1>5
<1>7. \A j, k \in 1..Depth : ~(j < k)
  <2>1. ~(1 < 1)
    OBVIOUS
  <2> QED BY <1>3, <2>1
<1>8. \A k \in 1..Depth :
        /\ frames[k].op # "real3"
        /\ Len(frames[k].todo) + frames[k].rest = LeftAt(k)
        /\ \A j \in 1..Len(frames[k].todo) :
             RoleOf(frames[k].todo[j]) = wtodo[Len(wtodo) - LeftAt(k) + j]
  <2>1. frames[1].op # "real3"
    BY <1>1
  <2> QED BY <1>3, <1>6, <2>1
<1> QED BY <1>7, <1>8 DEF Agreement, Agree

(* On every stream it handles, parse_object takes each item for what R      *)
(* meant by it: the reads its calls have left are what R has left to write. *)
THEOREM StreamAligned == Handled => (Spec => []Aligned)
<1> SUFFICES ASSUME Handled PROVE Spec => []Aligned
  OBVIOUS
<1>1. Init => Agreement
  BY AgreementInit
<1>2. TypeInv /\ Agreement /\ [Next]_vars => Agreement'
  BY AgreementStep
<1>3. Agreement => Aligned
  BY DEF Agreement, Agree, Aligned, LeftAt, Live
<1> QED BY <1>1, <1>2, <1>3, TypeCorrect, PTL DEF Spec

(* Every reference R writes lies inside the parser's table.                 *)
LEMMA RefInTable ==
  ASSUME TypeInv, NEW i \in NextItems, i.type = "ref"
  PROVE  i.id \in DOMAIN refs
<1>1. i.id \in 1..Len(wtable)
  BY NextItemFacts, RefItemFacts DEF TypeInv, TypeOK
<1> QED BY <1>1 DEF TypeInv, TypeOK, Slots

(* An object R wrote in full is read: no reference dangles, no tag is       *)
(* unknown and no read goes past the end, so only the nesting limit stops   *)
(* the parser.                                                              *)
THEOREM OnlyTheLimitStopsIt == Handled => (Spec => []OnlyDepthFails)
<1> SUFFICES ASSUME Handled PROVE Spec => []OnlyDepthFails
  OBVIOUS
<1>1. Init => OnlyDepthFails
  BY DEF Init, PInit, OnlyDepthFails
<1>2. TypeInv /\ Agreement /\ OnlyDepthFails /\ [Next]_vars => OnlyDepthFails'
  <2> SUFFICES ASSUME TypeInv, Agreement, OnlyDepthFails, [Next]_vars PROVE OnlyDepthFails'
    OBVIOUS
  <2>1. CASE Read
    <3>1. PICK i \in NextItems :
            ReadTagRef(i) \/ ReadCell(i) \/ EnterFails(i) \/ ReadRef(i) \/ ReadObject(i)
      BY <2>1 DEF Read
    <3>2. CASE ReadTagRef(i)
      BY <3>2, RefInTable DEF ReadTagRef, OnlyDepthFails
    <3>3. CASE ReadRef(i)
      BY <3>3, RefInTable DEF ReadRef, OnlyDepthFails
    <3>4. CASE EnterFails(i)
      BY <3>4 DEF EnterFails, Fail, OnlyDepthFails
    <3>5. CASE ReadCell(i) \/ ReadObject(i)
      BY <3>5 DEF ReadCell, ReadObject, OnlyDepthFails
    <3> QED BY <3>1, <3>2, <3>3, <3>4, <3>5
  <2>2. CASE ReadAtEnd
    <3>1. CASE eof = "no"
      <4>1. Busy /\ wtodo = <<>> /\ Live
        BY <2>2, <3>1 DEF ReadAtEnd, AtEnd, Busy, Live
      <4>2. Agree
        BY <3>1, <4>1 DEF Agreement
      <4> QED BY <4>1, <4>2, RestFacts
    <3>2. CASE eof # "no"
      BY <2>2, <3>2 DEF ReadAtEnd, Fail, OnlyDepthFails
    <3> QED BY <3>1, <3>2
  <2>3. CASE Return \/ Unwind \/ Finish
    BY <2>3 DEF Return, Unwind, Finish, OnlyDepthFails
  <2>4. CASE Truncate
    BY <2>4 DEF Truncate, OnlyDepthFails
  <2>5. CASE UNCHANGED vars
    BY <2>5 DEF vars, pvars, OnlyDepthFails
  <2> QED BY <2>1, <2>2, <2>3, <2>4, <2>5 DEF Next, Parse
<1>3. Init => Agreement
  BY AgreementInit
<1>4. TypeInv /\ Agreement /\ [Next]_vars => Agreement'
  BY AgreementStep
<1> QED BY <1>1, <1>2, <1>3, <1>4, TypeCorrect, PTL DEF Spec

(* The fallback of parse_pairlist_element to the symbol table is dead code: *)
(* the symbol table is never longer than the reference table, so an index   *)
(* that misses the one misses the other, with either numbering of tags.     *)
FallbackUnused == got # "fallback"

(* No stream makes parse_pairlist_element look a tag up in the symbol table.*)
THEOREM FallbackIsDead == Spec => []FallbackUnused
<1>1. Init => FallbackUnused
  BY DEF Init, PInit, FallbackUnused
<1>2. TypeInv /\ FallbackUnused /\ [Next]_vars => FallbackUnused'
  <2> SUFFICES ASSUME TypeInv, FallbackUnused, [Next]_vars PROVE FallbackUnused'
    OBVIOUS
  <2>1. CASE Read
    <3>1. PICK i \in NextItems :
            ReadTagRef(i) \/ ReadCell(i) \/ EnterFails(i) \/ ReadRef(i) \/ ReadObject(i)
      BY <2>1 DEF Read
    <3>2. CASE ReadTagRef(i)
      BY <3>2, RefInTable DEF ReadTagRef, FallbackUnused
    <3>3. CASE ReadRef(i) \/ EnterFails(i) \/ ReadCell(i) \/ ReadObject(i)
      BY <3>3 DEF ReadRef, EnterFails, ReadCell, ReadObject, Fail, FallbackUnused
    <3> QED BY <3>1, <3>2, <3>3
  <2>2. CASE Return \/ ReadAtEnd \/ Unwind \/ Finish \/ Truncate
    BY <2>2 DEF Return, ReadAtEnd, Fail, Unwind, Finish, Truncate, FallbackUnused
  <2>3. CASE UNCHANGED vars
    BY <2>3 DEF vars, pvars, FallbackUnused
  <2> QED BY <2>1, <2>2, <2>3 DEF Next, Parse
<1> QED BY <1>1, <1>2, TypeCorrect, PTL DEF Spec
-----------------------------------------------------------------------------
(* A symbol consists of its name and nothing else, so no other call is ever *)
(* between a symbol that is being read and its name.                        *)
CharsOnTop ==
  \A k \in 1..Depth :
    /\ frames[k].op = "chars" => frames[k].todo = <<>> /\ k = Depth
    /\ frames[k].op \in SymbolKinds =>
         /\ frames[k].todo = <<>> \/ frames[k].todo = <<"chars">>
         /\ k < Depth => frames[k + 1].op = "chars"

LEMMA SymbolStep ==
  ASSUME TypeInv, CharsOnTop, Busy
  PROVE  Top.op # "chars" /\ (Top.op \in SymbolKinds => Step = "chars" /\ Rest = <<>>)
<1>1. Depth \in 1..Depth /\ Top = frames[Depth]
  BY TopFacts DEF TypeInv, Top
<1>2. Top.op # "chars"
  BY <1>1 DEF CharsOnTop, Busy
<1>3. Top.op \in SymbolKinds => Top.todo = <<"chars">>
  BY <1>1 DEF CharsOnTop, Busy
<1>4. Head(<<"chars">>) = "chars" /\ Tail(<<"chars">>) = <<>>
  OBVIOUS
<1> QED BY <1>2, <1>3, <1>4 DEF Step, Rest

LEMMA ContinueKeepsChars ==
  ASSUME TypeInv, CharsOnTop, Busy, Top.op \notin SymbolKinds,
         NEW t \in Seq(StepNames), NEW r \in BOOLEAN, frames' = Continue(frames, t, r)
  PROVE  CharsOnTop'
<1>1. /\ Depth \in Nat \ {0} /\ Top = frames[Depth] /\ Depth = Len(frames)
      /\ frames \in Seq(Frames) /\ frames # <<>>
  BY TopFacts DEF TypeInv, TypeOK, Top, Depth
<1>2. /\ Len(frames') = Len(frames)
      /\ \A k \in 1..Len(frames) - 1 : frames'[k] = frames[k]
      /\ SameCall(frames'[Len(frames)], frames[Len(frames)])
  BY <1>1, ContinueFacts
<1>3. Depth' = Depth /\ frames'[Depth].op = Top.op
  BY <1>1, <1>2 DEF Depth, SameCall
<1>4. Top.op # "chars"
  BY SymbolStep
<1>5. ASSUME NEW k \in 1..Depth
      PROVE  /\ frames'[k].op = "chars" => frames'[k].todo = <<>> /\ k = Depth
             /\ frames'[k].op \in SymbolKinds =>
                  /\ frames'[k].todo = <<>> \/ frames'[k].todo = <<"chars">>
                  /\ k < Depth => frames'[k + 1].op = "chars"
  <2>1. CASE k = Depth
    BY <1>3, <1>4, <2>1
  <2>2. CASE k # Depth
    <3>1. k \in 1..Len(frames) - 1 /\ k + 1 \in 1..Depth
      BY <1>1, <2>2
    <3>2. frames'[k] = frames[k] /\ frames'[k + 1].op = frames[k + 1].op
      BY <1>1, <1>2, <1>3, <3>1
    <3> QED BY <3>2 DEF CharsOnTop
  <2> QED BY <2>1, <2>2
<1> QED BY <1>3, <1>5 DEF CharsOnTop

LEMMA ReadKeepsChars ==
  ASSUME TypeInv, CharsOnTop, Agree, Busy, NEW i \in NextItems,
         ReadTagRef(i) \/ ReadCell(i) \/ ReadRef(i) \/ ReadObject(i),
         status' # "unwinding"
  PROVE  CharsOnTop'
<1>1. /\ Rest \in Seq(StepNames) /\ Top.rn \in BOOLEAN /\ Head(wtodo) = RoleOf(Step)
      /\ RTypeOK /\ wtodo # <<>> /\ Depth \in Nat \ {0} /\ Top = frames[Depth]
  BY TopFacts, RestFacts DEF TypeInv, TypeOK, Top
<1>2. /\ Head(wtodo) \in Roles /\ i \in Items
      /\ i.type = "ref" => i \in RefItems(Head(wtodo))
      /\ i.type # "ref" => i \in NewItems(Head(wtodo))
  BY <1>1, NextItemFacts
<1>3. Top.op \in SymbolKinds => Step = "chars" /\ Head(wtodo) = "chars"
  BY <1>1, SymbolStep DEF RoleOf
<1>4. CASE ReadTagRef(i)
  <2>1. PICK r \in BOOLEAN : frames' = Continue(frames, Rest, r)
    BY <1>4 DEF ReadTagRef, Fail
  <2>2. Top.op \notin SymbolKinds
    BY <1>3, <1>4 DEF ReadTagRef
  <2> QED BY <1>1, <2>1, <2>2, ContinueKeepsChars
<1>5. CASE ReadCell(i)
  <2>1. Item("list", FALSE, i.tag, 0, 0) \in Items
    BY <1>2 DEF Item, Items, AllKinds, RAttributed
  <2>2. Steps(Item("list", FALSE, i.tag, 0, 0)) \o Rest \in Seq(StepNames)
    BY <1>1, <2>1, StepsType, ConcatProperties
  <2>3. Top.op \notin SymbolKinds
    BY <1>3, <1>5 DEF ReadCell
  <2> QED BY <1>5, <2>2, <2>3, ContinueKeepsChars DEF ReadCell
<1>6. CASE ReadRef(i)
  <2>1. frames' = Continue(frames, Rest, Top.rn)
    BY <1>6 DEF ReadRef, Fail
  <2>2. Top.op \notin SymbolKinds
    <3>1. RefItems("chars") = {}
      <4>1. \A k \in 1..Len(wtable) : wtable[k] \in RTracked
        BY <1>1, ElementOfSeq DEF RTypeOK
      <4>2. "chars" \notin RTracked
        BY DEF RTracked, SymbolKinds, EnvKinds
      <4> QED BY <4>1, <4>2 DEF RefItems, KindsOf
    <3> QED BY <1>2, <1>3, <1>6, <3>1 DEF ReadRef
  <2> QED BY <1>1, <2>1, <2>2, ContinueKeepsChars
<1>7. CASE ReadObject(i)
  <2> DEFINE n == IF i.type \in Tracked THEN Len(refs) + 1 ELSE 0
             f == NewFrame(i.type, Step, Steps(i), n, ~i.attr)
  <2>1. n \in Nat
    BY DEF TypeInv, TypeOK
  <2>2. f.op = i.type /\ f.todo = Steps(i)
    BY DEF NewFrame
  <2>3. f \in Frames
    <3> HIDE DEF n
    <3> QED BY <1>7, <2>1, NewFrameType DEF ReadObject
  <2>4. frames' = Append(Continue(frames, Rest, Top.rn), f)
    BY <1>7 DEF ReadObject
  <2>5. /\ i.type \in KindsOf(Head(wtodo)) /\ (i.attr => i.type \in RAttributed)
        /\ i.attr \in BOOLEAN
    BY <1>1, <1>2, <1>7, NewItemFacts DEF ReadObject, Items
  <2>6. Top.op \in SymbolKinds => i.type = "chars"
    BY <1>3, <2>5 DEF KindsOf
  <2>7. i.type \in SymbolKinds \cup {"chars"} => ~i.attr
    BY <2>5 DEF RAttributed, SymbolKinds
  <2>8. i.type = "chars" => Steps(i) = <<>>
    <3>1. i.type = "chars" => Steps(i) = <<>> \o <<>> \o <<>>
      BY <2>7 DEF Steps, EarlyAttrs, Data, LateAttrs, SymbolKinds
    <3> QED BY <3>1, EmptySeq, ConcatEmptySeq
  <2>9. i.type \in SymbolKinds => Steps(i) = <<"chars">>
    <3>1. i.type \in SymbolKinds => Steps(i) = <<>> \o <<"chars">> \o <<>>
      <4>1. CASE i.type = "sym"
        BY <2>7, <4>1 DEF Steps, EarlyAttrs, Data, LateAttrs, ParseSymbol, SymbolKinds
      <4>2. CASE i.type = "rownames"
        BY <2>7, <4>2 DEF Steps, EarlyAttrs, Data, LateAttrs, ParseSymbol, SymbolKinds
      <4> QED BY <4>1, <4>2 DEF SymbolKinds
    <3>2. <<"chars">> \in Seq(StepNames)
      BY DEF StepNames
    <3> QED BY <3>1, <3>2, EmptySeq, ConcatEmptySeq
  <2> HIDE DEF f
  <2>10. /\ Len(frames') = Depth + 1 /\ frames'[Depth + 1] = f
         /\ \A k \in 1..Depth : SameCall(frames'[k], frames[k])
         /\ \A k \in 1..Depth - 1 : frames'[k] = frames[k]
         /\ frames'[Depth].todo = Rest
    <3>1. TypeOK
      BY DEF TypeInv
    <3> QED BY <1>1, <2>3, <2>4, <3>1, CallFrames
  <2>11. Depth' = Depth + 1
    BY <2>10 DEF Depth
  <2>12. ASSUME NEW k \in 1..Depth + 1
         PROVE  /\ frames'[k].op = "chars" => frames'[k].todo = <<>> /\ k = Depth + 1
                /\ frames'[k].op \in SymbolKinds =>
                     /\ frames'[k].todo = <<>> \/ frames'[k].todo = <<"chars">>
                     /\ k < Depth + 1 => frames'[k + 1].op = "chars"
    <3>1. CASE k = Depth + 1
      BY <1>1, <2>2, <2>8, <2>9, <2>10, <3>1
    <3>2. CASE k = Depth
      <4>1. frames'[k].op = Top.op /\ frames'[k + 1].op = i.type
        BY <1>1, <2>2, <2>10, <3>2 DEF SameCall
      <4>2. Top.op # "chars" /\ (Top.op \in SymbolKinds => Rest = <<>>)
        BY SymbolStep
      <4> QED BY <2>6, <2>10, <3>2, <4>1, <4>2
    <3>3. CASE k # Depth /\ k # Depth + 1
      <4>1. k \in 1..Depth - 1 /\ k \in 1..Depth /\ k + 1 \in 1..Depth /\ k < Depth
        BY <1>1, <3>3
      <4>2. frames'[k] = frames[k] /\ frames'[k + 1].op = frames[k + 1].op
        BY <2>10, <4>1 DEF SameCall
      <4>3. frames[k].op # "chars"
        BY <3>3, <4>1 DEF CharsOnTop
      <4> QED BY <4>1, <4>2, <4>3 DEF CharsOnTop
    <3> QED BY <3>1, <3>2, <3>3
  <2> QED BY <2>11, <2>12 DEF CharsOnTop
<1> QED BY <1>4, <1>5, <1>6, <1>7

LEMMA ReturnKeepsChars ==
  ASSUME TypeInv, CharsOnTop, Return
  PROVE  CharsOnTop'
<1> DEFINE parent == frames[Depth - 1]
           t == IF Swallows(parent, Top) THEN <<"swallow">> \o parent.todo ELSE parent.todo
           r == IF Top.as = "tag" THEN Top.op = "rownames" ELSE parent.rn
<1>1. Depth > 1 /\ Depth \in Nat /\ parent \in Frames /\ TypeOK
  BY TopFacts, PopFacts DEF Return, TypeInv
<1>2. t \in Seq(StepNames) /\ r \in BOOLEAN
  <2>1. parent.todo \in Seq(StepNames) /\ parent.rn \in BOOLEAN
    BY <1>1 DEF Frames
  <2>2. <<"swallow">> \in Seq(StepNames)
    BY DEF StepNames
  <2>3. <<"swallow">> \o parent.todo \in Seq(StepNames)
    BY <2>1, <2>2, ConcatProperties
  <2> QED BY <2>1, <2>3
<1>3. frames' = Continue(SubSeq(frames, 1, Depth - 1), t, r)
  BY DEF Return
<1>4. /\ parent.op # "chars"
      /\ parent.op \in SymbolKinds =>
           /\ parent.todo = <<>> \/ parent.todo = <<"chars">>
           /\ t = parent.todo
  <2>1. Depth - 1 \in 1..Depth /\ Depth - 1 # Depth
    BY <1>1
  <2>2. /\ parent.op # "chars"
        /\ parent.op \in SymbolKinds => parent.todo = <<>> \/ parent.todo = <<"chars">>
    BY <2>1 DEF CharsOnTop
  <2>3. Head(<<"chars">>) # "elem"
    OBVIOUS
  <2> QED BY <2>2, <2>3 DEF Swallows
<1> HIDE DEF t, r
<1>5. /\ Len(frames') = Depth - 1
      /\ \A k \in 1..Depth - 1 : SameCall(frames'[k], frames[k])
      /\ \A k \in 1..Depth - 2 : frames'[k] = frames[k]
      /\ frames'[Depth - 1].todo = t
  BY <1>1, <1>2, <1>3, ReturnFrames
<1>6. Depth' = Depth - 1
  BY <1>5 DEF Depth
<1>7. ASSUME NEW k \in 1..Depth - 1
      PROVE  /\ frames'[k].op = "chars" => frames'[k].todo = <<>> /\ k = Depth - 1
             /\ frames'[k].op \in SymbolKinds =>
                  /\ frames'[k].todo = <<>> \/ frames'[k].todo = <<"chars">>
                  /\ k < Depth - 1 => frames'[k + 1].op = "chars"
  <2>1. frames'[k].op = frames[k].op /\ k \in 1..Depth /\ k < Depth
    BY <1>1, <1>5 DEF SameCall
  <2>2. CASE k = Depth - 1
    BY <1>4, <1>5, <2>1, <2>2
  <2>3. CASE k # Depth - 1
    <3>1. k \in 1..Depth - 2 /\ k + 1 \in 1..Depth - 1
      BY <1>1, <2>3
    <3>2. frames'[k] = frames[k] /\ frames'[k + 1].op = frames[k + 1].op
      BY <1>5, <3>1 DEF SameCall
    <3> QED BY <2>1, <3>2 DEF CharsOnTop
  <2> QED BY <2>2, <2>3
<1> QED BY <1>6, <1>7 DEF CharsOnTop

CharsInv == Live => CharsOnTop

LEMMA CharsStep ==
  ASSUME Handled, TypeInv, Agreement, CharsInv, [Next]_vars
  PROVE  CharsInv'
<1> SUFFICES ASSUME Live' PROVE CharsOnTop'
  BY DEF CharsInv
<1>1. CASE Read
  <2>1. Live /\ Busy /\ eof = "no"
    BY <1>1 DEF Read, Busy, Live, AtEnd
  <2>2. Agree /\ CharsOnTop /\ status' # "unwinding"
    BY <2>1 DEF Agreement, CharsInv, Live
  <2>3. PICK i \in NextItems :
          ReadTagRef(i) \/ ReadCell(i) \/ EnterFails(i) \/ ReadRef(i) \/ ReadObject(i)
    BY <1>1 DEF Read
  <2>4. ~EnterFails(i)
    BY <2>2 DEF EnterFails, Fail
  <2> QED BY <2>1, <2>2, <2>3, <2>4, ReadKeepsChars
<1>2. CASE Return
  BY <1>2, ReturnKeepsChars DEF Return, CharsInv, Live
<1>3. CASE ReadAtEnd
  <2>1. /\ Busy /\ CharsOnTop /\ Step \in {"next", "attrs"}
        /\ frames' = Continue(frames, Rest, Top.rn)
    BY <1>3 DEF ReadAtEnd, Busy, Live, Fail, CharsInv, AfterEnd, Rest
  <2>2. Rest \in Seq(StepNames) /\ Top.rn \in BOOLEAN
    BY <2>1, TopFacts DEF Busy, TypeInv, Rest
  <2>3. Top.op \notin SymbolKinds
    BY <2>1, SymbolStep
  <2> QED BY <2>1, <2>2, <2>3, ContinueKeepsChars
<1>4. CASE Unwind
  BY <1>4 DEF Unwind, Live
<1>5. CASE Finish
  BY <1>5 DEF Finish, CharsInv, CharsOnTop, Live, Depth
<1>6. CASE Truncate
  BY <1>6 DEF Truncate, CharsInv, CharsOnTop, Live, Depth
<1>7. CASE UNCHANGED vars
  BY <1>7 DEF vars, pvars, CharsInv, CharsOnTop, Live, Depth
<1> QED BY <1>1, <1>2, <1>3, <1>4, <1>5, <1>6, <1>7 DEF Next, Parse

LEMMA CharsInit ==
  ASSUME Init
  PROVE  CharsInv
<1>1. Depth = 1 /\ frames[1].op = "root"
  BY DEF Init, PInit, Depth
<1> QED BY <1>1 DEF CharsInv, CharsOnTop, SymbolKinds

(* No call that still has something to read is under a symbol, so a tag     *)
(* never refers to a symbol whose slot is being filled.                     *)
LEMMA NoSymbolBelow ==
  ASSUME TypeInv, CharsOnTop, Busy, Step # "chars", NEW k \in 1..Depth
  PROVE  frames[k].op \notin SymbolKinds
<1>1. Depth \in Nat \ {0} /\ Top = frames[Depth] /\ Top.todo # <<>>
  BY TopFacts DEF TypeInv, Top, Busy
<1>2. CASE k = Depth
  BY <1>1, <1>2, SymbolStep
<1>3. CASE k # Depth
  <2>1. k < Depth /\ k + 1 \in 1..Depth
    BY <1>1, <1>3
  <2>2. frames[k + 1].op = "chars" => k + 1 = Depth /\ frames[k + 1].todo = <<>>
    BY <2>1 DEF CharsOnTop
  <2>3. frames[k + 1].op # "chars"
    BY <1>1, <2>2
  <2> QED BY <2>1, <2>3 DEF CharsOnTop
<1> QED BY <1>2, <1>3

(* A tag that R wrote as a reference is found in the reference table, and   *)
(* what stands there is a symbol and is complete.                           *)
THEOREM TagReferencesResolve == Handled /\ ~OldTags => (Spec => []TagsResolve)
<1> SUFFICES ASSUME Handled, ~OldTags PROVE Spec => []TagsResolve
  OBVIOUS
<1>1. Init => TagsResolve
  BY DEF Init, PInit, TagsResolve
<1>2. TypeInv /\ Agreement /\ CharsInv /\ RefsAligned /\ TagsResolve /\ [Next]_vars
        => TagsResolve'
  <2> SUFFICES ASSUME TypeInv, Agreement, CharsInv, RefsAligned, TagsResolve, [Next]_vars
               PROVE  TagsResolve'
    OBVIOUS
  <2>1. CASE Read
    <3>1. PICK i \in NextItems :
            ReadTagRef(i) \/ ReadCell(i) \/ EnterFails(i) \/ ReadRef(i) \/ ReadObject(i)
      BY <2>1 DEF Read
    <3>2. CASE ReadTagRef(i)
      <4>1. /\ Live /\ Busy /\ Agree /\ CharsOnTop /\ Step = "tag" /\ i.type = "ref"
        BY <2>1, <3>2 DEF Read, AtEnd, Busy, Live, Agreement, CharsInv, ReadTagRef
      <4>2. RTypeOK /\ Head(wtodo) = "tag"
        BY <4>1, RestFacts DEF TypeInv, TypeOK, RoleOf
      <4>3. i.id \in 1..Len(wtable) /\ wtable[i.id] \in KindsOf("tag")
        BY <4>1, <4>2, NextItemFacts, RefItemFacts DEF Roles
      <4>4. wtable[i.id] \in SymbolKinds
        BY <4>3 DEF KindsOf, SymbolKinds
      <4>5. i.id \notin Filling
        <5> SUFFICES ASSUME NEW k \in 1..Depth, i.id = frames[k].ref, i.id # 0 PROVE FALSE
          BY DEF Filling
        <5>1. frames[k].op = wtable[i.id]
          BY DEF TypeInv, Slots
        <5> QED BY <4>1, <4>4, <5>1, NoSymbolBelow
      <4>6. i.id \in DOMAIN refs /\ refs[i.id] = ValueOf(wtable[i.id])
        BY <4>1, <4>3, <4>5, RefInTable DEF RefsAligned, Live
      <4>7. refs[i.id] \in SymbolKinds
        BY <4>4, <4>6 DEF ValueOf, SymbolKinds
      <4> QED BY <3>2, <4>6, <4>7 DEF ReadTagRef, TagsResolve
    <3>3. CASE ReadRef(i) \/ EnterFails(i) \/ ReadCell(i) \/ ReadObject(i)
      BY <3>3 DEF ReadRef, EnterFails, ReadCell, ReadObject, Fail, TagsResolve
    <3> QED BY <3>1, <3>2, <3>3
  <2>2. CASE Return \/ ReadAtEnd \/ Unwind \/ Finish \/ Truncate
    BY <2>2 DEF Return, ReadAtEnd, Fail, Unwind, Finish, Truncate, TagsResolve
  <2>3. CASE UNCHANGED vars
    BY <2>3 DEF vars, pvars, TagsResolve
  <2> QED BY <2>1, <2>2, <2>3 DEF Next, Parse
<1>3. Init => Agreement /\ CharsInv
  BY AgreementInit, CharsInit
<1>4. TypeInv /\ Agreement /\ [Next]_vars => Agreement'
  BY AgreementStep
<1>5. TypeInv /\ Agreement /\ CharsInv /\ [Next]_vars => CharsInv'
  BY CharsStep
<1> QED BY <1>1, <1>2, <1>3, <1>4, <1>5, TypeCorrect, RefTableAligned, PTL DEF Spec
-----------------------------------------------------------------------------
(* The symbol table grows in the order of the reference table: a symbol     *)
(* that is still being read comes after all the symbols in the table.       *)
SymbolsBefore ==
  \A k \in 1..Depth : frames[k].op \in SymbolKinds =>
    \A j \in 1..Len(symbols) : symbols[j] < frames[k].ref

SymbolInv == SymbolsInOrder /\ SymbolsBefore

LEMMA SameSymbols ==
  ASSUME TypeInv, SymbolInv, UNCHANGED <<symbols, refs>>,
         Len(frames') <= Depth, Len(frames') \in Nat,
         \A k \in 1..Len(frames') : SameCall(frames'[k], frames[k])
  PROVE  SymbolInv'
<1>1. SymbolsInOrder'
  BY DEF SymbolInv, SymbolsInOrder
<1>2. SymbolsBefore'
  <2> SUFFICES ASSUME NEW k \in 1..Len(frames'), frames'[k].op \in SymbolKinds
               PROVE  \A j \in 1..Len(symbols) : symbols[j] < frames'[k].ref
    BY DEF SymbolsBefore, Depth
  <2>1. k \in 1..Depth
    BY TopFacts DEF TypeInv
  <2>2. frames'[k].op = frames[k].op /\ frames'[k].ref = frames[k].ref
    BY DEF SameCall
  <2> QED BY <2>1, <2>2 DEF SymbolInv, SymbolsBefore
<1> QED BY <1>1, <1>2 DEF SymbolInv

LEMMA ContinueKeepsSymbols ==
  ASSUME TypeInv, SymbolInv, NEW t \in Seq(StepNames), NEW r \in BOOLEAN,
         frames' = Continue(frames, t, r), UNCHANGED <<symbols, refs>>
  PROVE  SymbolInv'
<1>1. frames \in Seq(Frames) /\ frames # <<>> /\ Depth \in Nat \ {0} /\ Depth = Len(frames)
  BY TopFacts DEF TypeInv, TypeOK, Depth
<1>2. /\ Len(frames') = Depth
      /\ \A k \in 1..Depth - 1 : frames'[k] = frames[k]
      /\ SameCall(frames'[Depth], frames[Depth])
  <2>1. /\ Len(Continue(frames, t, r)) = Len(frames)
        /\ \A k \in 1..Len(frames) - 1 : Continue(frames, t, r)[k] = frames[k]
        /\ SameCall(Continue(frames, t, r)[Len(frames)], frames[Len(frames)])
    BY ONLY <1>1, ContinueFacts, t \in Seq(StepNames), r \in BOOLEAN
  <2>2. frames' = Continue(frames, t, r) /\ Depth = Len(frames)
    BY <1>1
  <2> QED BY ONLY <2>1, <2>2
<1>3. \A k \in 1..Depth : SameCall(frames'[k], frames[k])
  BY <1>1, <1>2 DEF SameCall
<1> QED BY <1>1, <1>2, <1>3, SameSymbols

LEMMA ReadObjectKeepsSymbols ==
  ASSUME TypeInv, SymbolInv, Busy, NEW i \in NextItems, ReadObject(i)
  PROVE  SymbolInv'
<1> DEFINE n == IF i.type \in Tracked THEN Len(refs) + 1 ELSE 0
           f == NewFrame(i.type, Step, Steps(i), n, ~i.attr)
<1>1. /\ TypeOK /\ Depth \in Nat \ {0} /\ Len(refs) \in Nat /\ refs \in Seq(Values)
      /\ Rest \in Seq(StepNames) /\ Top.rn \in BOOLEAN /\ symbols \in Seq(Nat)
  BY TopFacts DEF TypeInv, TypeOK, Busy, Rest
<1>2. n \in Nat /\ f.op = i.type /\ f.ref = n
  BY <1>1 DEF NewFrame
<1>3. f \in Frames
  <2> HIDE DEF n
  <2> QED BY <1>2, NewFrameType DEF ReadObject
<1>4. frames' = Append(Continue(frames, Rest, Top.rn), f) /\ symbols' = symbols
  BY DEF ReadObject
<1> HIDE DEF f
<1>5. /\ Len(frames') = Depth + 1 /\ frames'[Depth + 1] = f
      /\ \A k \in 1..Depth : SameCall(frames'[k], frames[k])
  BY <1>1, <1>3, <1>4, CallFrames
<1>6. Len(refs') \in Nat /\ Len(refs) <= Len(refs') /\ \A k \in 1..Len(refs) : refs'[k] = refs[k]
  <2>1. CASE i.type \in Tracked
    <3>1. "null" \in Values
      BY DEF Values
    <3>2. refs' = Append(refs, "null")
      BY <2>1 DEF ReadObject
    <3> QED BY <1>1, <3>1, <3>2, AppendProperties
  <2>2. CASE i.type \notin Tracked
    BY <1>1, <2>2 DEF ReadObject
  <2> QED BY <2>1, <2>2
<1>7. \A j \in 1..Len(symbols) : symbols[j] \in 1..Len(refs) /\ symbols[j] < Len(refs) + 1
  BY <1>1 DEF SymbolInv, SymbolsInOrder
<1>8. SymbolsInOrder'
  BY <1>1, <1>4, <1>6, <1>7 DEF SymbolInv, SymbolsInOrder
<1>9. SymbolsBefore'
  <2> SUFFICES ASSUME NEW k \in 1..Depth + 1, frames'[k].op \in SymbolKinds
               PROVE  \A j \in 1..Len(symbols) : symbols[j] < frames'[k].ref
    BY <1>4, <1>5 DEF SymbolsBefore, Depth
  <2>1. CASE k = Depth + 1
    <3>1. i.type \in Tracked
      BY <1>2, <1>5, <2>1 DEF Tracked, RTracked
    <3> QED BY <1>2, <1>5, <1>7, <2>1, <3>1
  <2>2. CASE k # Depth + 1
    <3>1. k \in 1..Depth
      BY <1>1, <2>2
    <3>2. frames'[k].op = frames[k].op /\ frames'[k].ref = frames[k].ref
      BY <1>5, <3>1 DEF SameCall
    <3> QED BY <3>1, <3>2 DEF SymbolInv, SymbolsBefore
  <2> QED BY <2>1, <2>2
<1> QED BY <1>8, <1>9 DEF SymbolInv

LEMMA ReturnKeepsSymbols ==
  ASSUME TypeInv, RefsAligned, CharsOnTop, SymbolInv, Return
  PROVE  SymbolInv'
<1> DEFINE parent == frames[Depth - 1]
           t == IF Swallows(parent, Top) THEN <<"swallow">> \o parent.todo ELSE parent.todo
           r == IF Top.as = "tag" THEN Top.op = "rownames" ELSE parent.rn
<1>1. /\ Depth > 1 /\ Depth \in Nat /\ TypeOK /\ Live
      /\ Depth \in 1..Depth /\ Top = frames[Depth]
      /\ symbols \in Seq(Nat) /\ refs \in Seq(Values) /\ Len(refs) \in Nat
      /\ Len(symbols) \in Nat
  BY TopFacts DEF Return, TypeInv, TypeOK, Live, Top
<1>2. t \in Seq(StepNames) /\ r \in BOOLEAN
  <2>1. parent \in Frames
    BY <1>1, PopFacts
  <2>2. parent.todo \in Seq(StepNames) /\ parent.rn \in BOOLEAN
    BY <2>1 DEF Frames
  <2>3. <<"swallow">> \in Seq(StepNames)
    BY DEF StepNames
  <2>4. <<"swallow">> \o parent.todo \in Seq(StepNames)
    BY <2>2, <2>3, ConcatProperties
  <2> QED BY <2>2, <2>4
<1>3. frames' = Continue(SubSeq(frames, 1, Depth - 1), t, r)
  BY DEF Return
<1> HIDE DEF t, r
<1>4. /\ Len(frames') = Depth - 1
      /\ \A k \in 1..Depth - 1 : SameCall(frames'[k], frames[k])
  BY <1>1, <1>2, <1>3, ReturnFrames
<1>5. /\ Top.ref = 0 => Top.op \notin RTracked
      /\ Top.ref # 0 => Top.ref \in 1..Len(refs) /\ Top.op \in RTracked
  BY <1>1 DEF TypeInv, Slots
<1>6. Len(refs') = Len(refs) /\ \A n \in 1..Len(refs) : n # Top.ref => refs'[n] = refs[n]
  BY <1>1 DEF Return
<1>7. Top.ref # 0 => Top.ref \in Filling /\ refs[Top.ref] = "null"
  BY <1>1, <1>5 DEF RefsAligned, Filling, Live
<1>8. \A j \in 1..Len(symbols) :
        symbols[j] \in 1..Len(refs) /\ refs'[symbols[j]] \in SymbolKinds
  <2> SUFFICES ASSUME NEW j \in 1..Len(symbols)
               PROVE  symbols[j] \in 1..Len(refs) /\ refs'[symbols[j]] \in SymbolKinds
    OBVIOUS
  <2>1. symbols[j] \in 1..Len(refs) /\ refs[symbols[j]] \in SymbolKinds
    BY DEF SymbolInv, SymbolsInOrder
  <2>2. symbols[j] # Top.ref
    BY <1>1, <1>7, <2>1 DEF SymbolKinds
  <2> QED BY <1>6, <2>1, <2>2
<1>9. \A j, k \in 1..Len(symbols) : j < k => symbols[j] < symbols[k]
  BY DEF SymbolInv, SymbolsInOrder
<1>10. CASE Top.op \in SymbolKinds
  <2>1. symbols' = Append(symbols, Top.ref)
    BY <1>10 DEF Return, Registers
  <2>2. Top.ref \in 1..Len(refs) /\ refs'[Top.ref] = ValueOf(Top.op)
    BY <1>1, <1>5, <1>10 DEF Return, RTracked
  <2>3. refs'[Top.ref] \in SymbolKinds
    BY <1>10, <2>2 DEF ValueOf, SymbolKinds
  <2>4. \A j \in 1..Len(symbols) : symbols[j] < Top.ref
    BY <1>1, <1>10 DEF SymbolInv, SymbolsBefore
  <2>5. /\ Len(symbols') = Len(symbols) + 1 /\ symbols'[Len(symbols) + 1] = Top.ref
        /\ \A j \in 1..Len(symbols) : symbols'[j] = symbols[j]
    <3>1. Top.ref \in Nat
      BY <1>1, <2>2
    <3> QED BY <1>1, <2>1, <3>1, AppendProperties
  <2>6. SymbolsInOrder'
    <3>1. ASSUME NEW k \in 1..Len(symbols')
          PROVE  symbols'[k] \in 1..Len(refs') /\ refs'[symbols'[k]] \in SymbolKinds
      <4>1. CASE k = Len(symbols) + 1
        BY <1>6, <2>2, <2>3, <2>5, <4>1
      <4>2. CASE k # Len(symbols) + 1
        <5>1. k \in 1..Len(symbols)
          BY <1>1, <2>5, <4>2
        <5> QED BY <1>6, <1>8, <2>5, <5>1
      <4> QED BY <4>1, <4>2
    <3>2. ASSUME NEW j \in 1..Len(symbols'), NEW k \in 1..Len(symbols'), j < k
          PROVE  symbols'[j] < symbols'[k]
      <4>1. j \in 1..Len(symbols)
        BY <1>1, <2>5, <3>2
      <4>2. CASE k = Len(symbols) + 1
        BY <2>4, <2>5, <4>1, <4>2
      <4>3. CASE k # Len(symbols) + 1
        <5>1. k \in 1..Len(symbols)
          BY <1>1, <2>5, <4>3
        <5> QED BY <1>9, <2>5, <3>2, <4>1, <5>1
      <4> QED BY <4>2, <4>3
    <3> QED BY <3>1, <3>2 DEF SymbolsInOrder
  <2>7. SymbolsBefore'
    <3> SUFFICES ASSUME NEW k \in 1..Depth - 1 PROVE frames'[k].op \notin SymbolKinds
      BY <1>4 DEF SymbolsBefore, Depth
    <3>1. k \in 1..Depth /\ k < Depth /\ k + 1 \in 1..Depth
      BY <1>1
    <3>2. frames[k + 1].op = "chars" => k + 1 = Depth
      BY <3>1 DEF CharsOnTop
    <3>3. frames[k + 1].op # "chars"
      BY <1>1, <1>10, <3>2 DEF SymbolKinds
    <3>4. frames[k].op \notin SymbolKinds
      BY <3>1, <3>3 DEF CharsOnTop
    <3> QED BY <1>4, <3>4 DEF SameCall
  <2> QED BY <2>6, <2>7 DEF SymbolInv
<1>11. CASE Top.op \notin SymbolKinds
  <2>1. symbols' = symbols
    BY <1>11 DEF Return, Registers
  <2>2. SymbolsInOrder'
    BY <1>6, <1>8, <1>9, <2>1 DEF SymbolsInOrder
  <2>3. SymbolsBefore'
    <3> SUFFICES ASSUME NEW k \in 1..Depth - 1, frames'[k].op \in SymbolKinds
                 PROVE  \A j \in 1..Len(symbols) : symbols[j] < frames'[k].ref
      BY <1>4, <2>1 DEF SymbolsBefore, Depth
    <3>1. k \in 1..Depth /\ frames'[k].op = frames[k].op /\ frames'[k].ref = frames[k].ref
      BY <1>1, <1>4 DEF SameCall
    <3> QED BY <3>1 DEF SymbolInv, SymbolsBefore
  <2> QED BY <2>2, <2>3 DEF SymbolInv
<1> QED BY <1>10, <1>11

(* The symbol table lists symbols only, in the order R numbered them.       *)
THEOREM SymbolTableOrdered == Handled => (Spec => []SymbolsInOrder)
<1> SUFFICES ASSUME Handled PROVE Spec => []SymbolsInOrder
  OBVIOUS
<1>1. Init => SymbolInv
  BY DEF Init, PInit, SymbolInv, SymbolsInOrder, SymbolsBefore
<1>2. TypeInv /\ RefsAligned /\ CharsInv /\ SymbolInv /\ [Next]_vars => SymbolInv'
  <2> SUFFICES ASSUME TypeInv, RefsAligned, CharsInv, SymbolInv, [Next]_vars
               PROVE  SymbolInv'
    OBVIOUS
  <2>0. ASSUME UNCHANGED <<frames, refs, symbols>> PROVE SymbolInv'
    BY <2>0 DEF SymbolInv, SymbolsInOrder, SymbolsBefore, Depth
  <2>1. CASE Read
    <3>1. PICK i \in NextItems :
            ReadTagRef(i) \/ ReadCell(i) \/ EnterFails(i) \/ ReadRef(i) \/ ReadObject(i)
      BY <2>1 DEF Read
    <3>2. Busy /\ Rest \in Seq(StepNames) /\ Top.rn \in BOOLEAN
      BY <2>1, TopFacts DEF Read, Busy, TypeInv, Rest
    <3>3. CASE ReadTagRef(i)
      <4>1. CASE i.id \in DOMAIN refs \/ i.id \in DOMAIN symbols
        <5>1. PICK r \in BOOLEAN : frames' = Continue(frames, Rest, r)
          BY <3>3, <4>1 DEF ReadTagRef
        <5>2. UNCHANGED <<symbols, refs>>
          BY <3>3, <4>1 DEF ReadTagRef
        <5> QED BY <3>2, <5>1, <5>2, ContinueKeepsSymbols
      <4>2. CASE ~(i.id \in DOMAIN refs \/ i.id \in DOMAIN symbols)
        BY <2>0, <3>3, <4>2 DEF ReadTagRef, Fail
      <4> QED BY <4>1, <4>2
    <3>4. CASE ReadCell(i)
      <4>1. Item("list", FALSE, i.tag, 0, 0) \in Items
        <5>1. i \in Items
          BY NextItemFacts DEF TypeInv, TypeOK
        <5> QED BY <5>1 DEF Item, Items, AllKinds, RAttributed
      <4>2. Steps(Item("list", FALSE, i.tag, 0, 0)) \o Rest \in Seq(StepNames)
        BY <3>2, <4>1, StepsType, ConcatProperties
      <4> QED BY <3>4, <4>2, ContinueKeepsSymbols DEF ReadCell
    <3>5. CASE ReadRef(i)
      <4>1. CASE i.id \in DOMAIN refs
        BY <3>2, <3>5, <4>1, ContinueKeepsSymbols DEF ReadRef
      <4>2. CASE i.id \notin DOMAIN refs
        BY <2>0, <3>5, <4>2 DEF ReadRef, Fail
      <4> QED BY <4>1, <4>2
    <3>6. CASE EnterFails(i)
      BY <2>0, <3>6 DEF EnterFails, Fail
    <3>7. CASE ReadObject(i)
      BY <3>2, <3>7, ReadObjectKeepsSymbols
    <3> QED BY <3>1, <3>3, <3>4, <3>5, <3>6, <3>7
  <2>2. CASE Return
    BY <2>2, ReturnKeepsSymbols DEF Return, CharsInv, Live
  <2>3. CASE ReadAtEnd
    <3>1. CASE Fail("eof")
      BY <2>0, <3>1 DEF Fail
    <3>2. CASE ~Fail("eof")
      <4>1. frames' = Continue(frames, Rest, Top.rn) /\ UNCHANGED <<symbols, refs>> /\ Busy
        BY <2>3, <3>2 DEF ReadAtEnd, AfterEnd, Rest
      <4>2. Rest \in Seq(StepNames) /\ Top.rn \in BOOLEAN
        BY <4>1, TopFacts DEF Busy, TypeInv, Rest
      <4> QED BY <4>1, <4>2, ContinueKeepsSymbols
    <3> QED BY <3>1, <3>2
  <2>4. CASE Unwind
    <3>1. CASE Depth > 1
      <4>1. frames' = SubSeq(frames, 1, Depth - 1) /\ UNCHANGED <<symbols, refs>>
        BY <2>4, <3>1 DEF Unwind
      <4>2. /\ Len(frames') \in Nat /\ Len(frames') <= Depth
            /\ \A k \in 1..Len(frames') : SameCall(frames'[k], frames[k])
        BY <3>1, <4>1, PopFacts, TopFacts DEF TypeInv, SameCall
      <4> QED BY <4>1, <4>2, SameSymbols
    <3>2. CASE ~(Depth > 1)
      BY <2>0, <2>4, <3>2 DEF Unwind
    <3> QED BY <3>1, <3>2
  <2>5. CASE Finish \/ Truncate
    BY <2>0, <2>5 DEF Finish, Truncate
  <2>6. CASE UNCHANGED vars
    BY <2>0, <2>6 DEF vars, pvars
  <2> QED BY <2>1, <2>2, <2>3, <2>4, <2>5, <2>6 DEF Next, Parse
<1>3. Init => Agreement /\ CharsInv
  BY AgreementInit, CharsInit
<1>4. TypeInv /\ Agreement /\ [Next]_vars => Agreement'
  BY AgreementStep
<1>5. TypeInv /\ Agreement /\ CharsInv /\ [Next]_vars => CharsInv'
  BY CharsStep
<1>6. SymbolInv => SymbolsInOrder
  BY DEF SymbolInv
<1> QED BY <1>1, <1>2, <1>3, <1>4, <1>5, <1>6, TypeCorrect, RefTableAligned, PTL DEF Spec
-----------------------------------------------------------------------------
(* The two flags that calls set for those above them.  What a call found and*)
(* puts back is what the calls below it ask for; so the whole stack has to  *)
(* be right for the flag to be right after the next return.                 *)
BodyIn(s, d)  == \E k \in 2..d : s[k].as = "body"
EagerIn(s, d) == \E k \in 2..d : s[k].as = "car" /\ s[k - 1].rn
Scoped(s, d, body, lz) == /\ body <=> BodyIn(s, d)
                          /\ lz <=> Lazy /\ ~EagerIn(s, d)
Found(s, d)   == \A k \in 2..d : Scoped(s, k - 1, s[k].wasBody, s[k].wasLazy)

FlagsInv == Live => Scoped(frames, Depth, inBody, lazy) /\ Found(frames, Depth)

LEMMA SameScope ==
  ASSUME NEW s, NEW t, NEW d \in Nat,
         \A k \in 1..d : SameCall(t[k], s[k]), \A k \in 1..d - 1 : t[k].rn = s[k].rn
  PROVE  /\ BodyIn(t, d) <=> BodyIn(s, d)
         /\ EagerIn(t, d) <=> EagerIn(s, d)
<1>1. ASSUME NEW k \in 2..d
      PROVE  k \in 1..d /\ k - 1 \in 1..d - 1 /\ t[k].as = s[k].as /\ t[k - 1].rn = s[k - 1].rn
  <2>1. k \in 1..d /\ k - 1 \in 1..d - 1
    OBVIOUS
  <2> QED BY <2>1 DEF SameCall
<1> QED BY <1>1 DEF BodyIn, EagerIn

LEMMA SameFound ==
  ASSUME NEW s, NEW t, NEW d \in Nat, Found(s, d),
         \A k \in 1..d : SameCall(t[k], s[k]), \A k \in 1..d - 1 : t[k].rn = s[k].rn
  PROVE  Found(t, d)
<1> SUFFICES ASSUME NEW k \in 2..d PROVE Scoped(t, k - 1, t[k].wasBody, t[k].wasLazy)
  BY DEF Found
<1>1. /\ k - 1 \in Nat /\ k \in 1..d /\ \A j \in 1..k - 1 : j \in 1..d
      /\ \A j \in 1..(k - 1) - 1 : j \in 1..d - 1
  OBVIOUS
<1>2. Scoped(s, k - 1, s[k].wasBody, s[k].wasLazy)
  BY DEF Found
<1>3. BodyIn(t, k - 1) <=> BodyIn(s, k - 1)
  BY <1>1, SameScope
<1>4. EagerIn(t, k - 1) <=> EagerIn(s, k - 1)
  BY <1>1, SameScope
<1>5. t[k].wasBody = s[k].wasBody /\ t[k].wasLazy = s[k].wasLazy
  BY <1>1 DEF SameCall
<1> QED BY <1>2, <1>3, <1>4, <1>5 DEF Scoped

LEMMA OneMore ==
  ASSUME NEW s, NEW d \in Nat \ {0}
  PROVE  /\ BodyIn(s, d + 1) <=> BodyIn(s, d) \/ s[d + 1].as = "body"
         /\ EagerIn(s, d + 1) <=> EagerIn(s, d) \/ (s[d + 1].as = "car" /\ s[d].rn)
<1>1. \A k : k \in 2..d + 1 <=> k \in 2..d \/ k = d + 1
  OBVIOUS
<1>2. (d + 1) - 1 = d
  OBVIOUS
<1> QED BY <1>1, <1>2 DEF BodyIn, EagerIn

(* A call goes on.                                                          *)
LEMMA ContinueKeepsFlags ==
  ASSUME TypeInv, FlagsInv, NEW t \in Seq(StepNames), NEW r \in BOOLEAN,
         frames' = Continue(frames, t, r), UNCHANGED <<inBody, lazy>>, Live' => Live
  PROVE  FlagsInv'
<1>1. Depth \in Nat \ {0} /\ frames \in Seq(Frames) /\ frames # <<>> /\ Depth = Len(frames)
  BY TopFacts DEF TypeInv, TypeOK, Depth
<1>2. /\ Len(frames') = Depth /\ \A k \in 1..Depth - 1 : frames'[k] = frames[k]
      /\ SameCall(frames'[Depth], frames[Depth])
  BY <1>1, ContinueFacts
<1>3. \A k \in 1..Depth : SameCall(frames'[k], frames[k])
  <2> SUFFICES ASSUME NEW k \in 1..Depth, k # Depth PROVE SameCall(frames'[k], frames[k])
    BY <1>2
  <2>1. k \in 1..Depth - 1
    BY <1>1
  <2> QED BY <1>2, <2>1 DEF SameCall
<1>4. \A k \in 1..Depth - 1 : frames'[k].rn = frames[k].rn
  BY <1>2
<1> SUFFICES ASSUME Live, Scoped(frames, Depth, inBody, lazy), Found(frames, Depth)
             PROVE  Scoped(frames', Depth, inBody', lazy') /\ Found(frames', Depth)
  BY <1>2 DEF FlagsInv, Depth
<1>5. (BodyIn(frames', Depth) <=> BodyIn(frames, Depth)) /\ (EagerIn(frames', Depth) <=> EagerIn(frames, Depth))
  BY <1>1, <1>3, <1>4, SameScope
<1>6. Found(frames', Depth)
  BY <1>1, <1>3, <1>4, SameFound
<1> QED BY <1>5, <1>6 DEF Scoped

(* A call begins, for a closure's body or the value of row.names perhaps.   *)
LEMMA CallKeepsFlags ==
  ASSUME TypeInv, FlagsInv, Busy, NEW i \in NextItems, ReadObject(i)
  PROVE  FlagsInv'
<1>1. Depth \in Nat \ {0} /\ Rest \in Seq(StepNames) /\ Top.rn \in BOOLEAN /\ Top = frames[Depth]
  BY TopFacts DEF TypeInv, Busy, Top
<1> DEFINE n == IF i.type \in Tracked THEN Len(refs) + 1 ELSE 0
           f == NewFrame(i.type, Step, Steps(i), n, ~i.attr)
<1>2. f \in Frames
  <2>1. i.type # "ref" /\ refs \in Seq(Values) /\ Len(refs) \in Nat
    BY DEF ReadObject, TypeInv, TypeOK
  <2>2. n \in Nat
    BY <2>1
  <2> HIDE DEF n
  <2> QED BY <2>1, <2>2, NewFrameType
<1>3. f.as = Step /\ f.wasBody = inBody /\ f.wasLazy = lazy
  BY DEF NewFrame
<1>4. frames' = Append(Continue(frames, Rest, Top.rn), f)
  BY DEF ReadObject
<1> HIDE DEF f
<1>5. /\ Len(frames') = Depth + 1 /\ frames'[Depth + 1] = f
      /\ \A k \in 1..Depth : SameCall(frames'[k], frames[k])
      /\ \A k \in 1..Depth - 1 : frames'[k] = frames[k]
      /\ frames'[Depth].rn = Top.rn
  BY <1>1, <1>2, <1>4, CallFrames DEF TypeInv
<1>6. \A k \in 1..Depth - 1 : frames'[k].rn = frames[k].rn
  BY <1>5
<1> SUFFICES ASSUME Live, Scoped(frames, Depth, inBody, lazy), Found(frames, Depth)
             PROVE  Scoped(frames', Depth + 1, inBody', lazy') /\ Found(frames', Depth + 1)
  <2>1. Live' => Live
    BY DEF ReadObject, Live
  <2> QED BY <1>5, <2>1 DEF FlagsInv, Depth
<1>7. (BodyIn(frames', Depth) <=> BodyIn(frames, Depth)) /\ (EagerIn(frames', Depth) <=> EagerIn(frames, Depth))
  BY <1>1, <1>5, <1>6, SameScope
<1>8. /\ BodyIn(frames', Depth + 1) <=> BodyIn(frames', Depth) \/ f.as = "body"
      /\ EagerIn(frames', Depth + 1) <=> EagerIn(frames', Depth) \/ (f.as = "car" /\ Top.rn)
  BY <1>1, <1>5, OneMore
<1>9. /\ inBody' <=> inBody \/ Step = "body"
      /\ lazy' <=> lazy /\ ~(Step = "car" /\ Top.rn)
  <2>1. inBody' = (inBody \/ Step = "body") /\ lazy' = (lazy /\ ~(Step = "car" /\ Top.rn))
    BY DEF ReadObject
  <2> QED BY <2>1
<1>10. Scoped(frames', Depth + 1, inBody', lazy')
  BY <1>3, <1>7, <1>8, <1>9 DEF Scoped
<1>11. Found(frames', Depth + 1)
  <2>1. Found(frames', Depth)
    BY <1>1, <1>5, <1>6, SameFound
  <2>2. Scoped(frames', Depth, f.wasBody, f.wasLazy)
    BY <1>3, <1>7 DEF Scoped
  <2>3. \A k \in 2..Depth + 1 : k \in 2..Depth \/ (k = Depth + 1 /\ k - 1 = Depth)
    BY <1>1
  <2> QED BY <1>5, <2>1, <2>2, <2>3 DEF Found
<1> QED BY <1>10, <1>11

(* A call returns and puts back what it found.                              *)
LEMMA ReturnKeepsFlags ==
  ASSUME TypeInv, FlagsInv, Return
  PROVE  FlagsInv'
<1>1. Depth > 1 /\ Depth \in Nat /\ Live /\ Top = frames[Depth]
  BY TopFacts DEF Return, TypeInv, Live, Top
<1>2. /\ Len(frames') = Depth - 1
      /\ \A k \in 1..Depth - 1 : SameCall(frames'[k], frames[k])
      /\ \A k \in 1..Depth - 2 : frames'[k] = frames[k]
  <2> DEFINE parent == frames[Depth - 1]
             t == IF Swallows(parent, Top) THEN <<"swallow">> \o parent.todo
                  ELSE parent.todo
             r == IF Top.as = "tag" THEN Top.op = "rownames" ELSE parent.rn
  <2>1. parent.todo \in Seq(StepNames) /\ parent.rn \in BOOLEAN
    BY <1>1, PopFacts DEF Frames, TypeInv
  <2>2. <<"swallow">> \in Seq(StepNames)
    BY DEF StepNames
  <2>3. <<"swallow">> \o parent.todo \in Seq(StepNames)
    BY <2>1, <2>2, ConcatProperties
  <2>4. t \in Seq(StepNames) /\ r \in BOOLEAN
    BY <2>1, <2>3
  <2>5. frames' = Continue(SubSeq(frames, 1, Depth - 1), t, r)
    BY DEF Return
  <2> HIDE DEF t, r
  <2> QED BY <1>1, <2>4, <2>5, ReturnFrames DEF TypeInv
<1> DEFINE d == Depth - 1
<1>3. d \in Nat \ {0} /\ d + 1 = Depth /\ Depth - 2 = d - 1 /\ Depth - 1 = d
  BY <1>1
<1> HIDE DEF d
<1>4. \A k \in 1..d : SameCall(frames'[k], frames[k])
  BY <1>2, <1>3
<1>5. \A k \in 1..d - 1 : frames'[k].rn = frames[k].rn
  BY <1>2, <1>3
<1>6. Scoped(frames, Depth, inBody, lazy) /\ Found(frames, Depth)
  BY <1>1 DEF FlagsInv
<1>7. Found(frames, d) /\ Scoped(frames, d, Top.wasBody, Top.wasLazy)
  <2>1. \A k \in 2..d : k \in 2..Depth
    BY <1>3
  <2>2. Depth \in 2..Depth
    BY <1>1
  <2> QED BY <1>1, <1>3, <1>6, <2>1, <2>2 DEF Found
<1>8. Found(frames', d)
  BY <1>3, <1>4, <1>5, <1>7, SameFound
<1>9. (BodyIn(frames', d) <=> BodyIn(frames, d)) /\ (EagerIn(frames', d) <=> EagerIn(frames, d))
  BY <1>3, <1>4, <1>5, SameScope
<1>10. /\ BodyIn(frames, Depth) <=> BodyIn(frames, d) \/ Top.as = "body"
       /\ EagerIn(frames, Depth) <=> EagerIn(frames, d) \/ (Top.as = "car" /\ frames[d].rn)
  BY <1>1, <1>3, OneMore
<1>11. inBody' = BodyAfter(Top) /\ lazy' = LazyAfter(Top)
  BY DEF Return
<1>12. inBody' <=> BodyIn(frames, d)
  <2>1. CASE Top.as = "body"
    BY <1>7, <1>11, <2>1 DEF BodyAfter, Scoped
  <2>2. CASE Top.as # "body"
    BY <1>6, <1>10, <1>11, <2>2 DEF BodyAfter, Scoped
  <2> QED BY <2>1, <2>2
<1>13. lazy' <=> Lazy /\ ~EagerIn(frames, d)
  <2>1. CASE Top.as = "car"
    BY <1>7, <1>11, <2>1 DEF LazyAfter, Scoped
  <2>2. CASE Top.as # "car"
    BY <1>6, <1>10, <1>11, <2>2 DEF LazyAfter, Scoped
  <2> QED BY <2>1, <2>2
<1>14. Scoped(frames', d, inBody', lazy')
  BY <1>9, <1>12, <1>13 DEF Scoped
<1> QED BY <1>2, <1>3, <1>8, <1>14 DEF FlagsInv, Depth

LEMMA FlagsStep == TypeInv /\ FlagsInv /\ [Next]_vars => FlagsInv'
<1> SUFFICES ASSUME TypeInv, FlagsInv, [Next]_vars PROVE FlagsInv'
  OBVIOUS
<1>0. ASSUME UNCHANGED <<frames, inBody, lazy>>, Live' => Live PROVE FlagsInv'
  BY <1>0 DEF FlagsInv, Depth
<1>1. ASSUME ~Live' PROVE FlagsInv'
  BY <1>1 DEF FlagsInv
<1>2. CASE Read
  <2>1. PICK i \in NextItems :
          ReadTagRef(i) \/ ReadCell(i) \/ EnterFails(i) \/ ReadRef(i) \/ ReadObject(i)
    BY <1>2 DEF Read
  <2>2. Busy /\ Rest \in Seq(StepNames) /\ Top.rn \in BOOLEAN /\ Live
    BY <1>2, TopFacts DEF Read, Busy, TypeInv, Rest, Live
  <2>3. CASE ReadTagRef(i)
    <3>1. CASE i.id \in DOMAIN refs \/ i.id \in DOMAIN symbols
      <4>1. PICK r \in BOOLEAN : frames' = Continue(frames, Rest, r)
        BY <2>3, <3>1 DEF ReadTagRef
      <4> QED BY <2>2, <2>3, <3>1, <4>1, ContinueKeepsFlags DEF ReadTagRef
    <3>2. CASE ~(i.id \in DOMAIN refs \/ i.id \in DOMAIN symbols)
      BY <1>1, <2>3, <3>2 DEF ReadTagRef, Fail, Live
    <3> QED BY <3>1, <3>2
  <2>4. CASE ReadCell(i)
    <3>1. Item("list", FALSE, i.tag, 0, 0) \in Items
      <4>1. i \in Items
        BY NextItemFacts DEF TypeInv, TypeOK
      <4> QED BY <4>1 DEF Item, Items, AllKinds, RAttributed
    <3>2. Steps(Item("list", FALSE, i.tag, 0, 0)) \o Rest \in Seq(StepNames)
      BY <2>2, <3>1, StepsType, ConcatProperties
    <3> QED BY <2>2, <2>4, <3>2, ContinueKeepsFlags DEF ReadCell
  <2>5. CASE ReadRef(i)
    <3>1. CASE i.id \in DOMAIN refs
      BY <2>2, <2>5, <3>1, ContinueKeepsFlags DEF ReadRef
    <3>2. CASE i.id \notin DOMAIN refs
      BY <1>1, <2>5, <3>2 DEF ReadRef, Fail, Live
    <3> QED BY <3>1, <3>2
  <2>6. CASE EnterFails(i)
    BY <1>1, <2>6 DEF EnterFails, Fail, Live
  <2>7. CASE ReadObject(i)
    BY <2>2, <2>7, CallKeepsFlags
  <2> QED BY <2>1, <2>3, <2>4, <2>5, <2>6, <2>7
<1>3. CASE Return
  BY <1>3, ReturnKeepsFlags
<1>4. CASE ReadAtEnd
  <2>1. CASE Fail("eof")
    BY <1>1, <2>1 DEF Fail, Live
  <2>2. CASE ~Fail("eof")
    <3>1. frames' = Continue(frames, Rest, Top.rn) /\ UNCHANGED <<inBody, lazy>> /\ Busy
      BY <1>4, <2>2 DEF ReadAtEnd, AfterEnd, Rest
    <3>2. Rest \in Seq(StepNames) /\ Top.rn \in BOOLEAN /\ Live
      BY <3>1, TopFacts DEF Busy, TypeInv, Rest, Live
    <3> QED BY <3>1, <3>2, ContinueKeepsFlags
  <2> QED BY <2>1, <2>2
<1>5. CASE Unwind
  BY <1>1, <1>5 DEF Unwind, Live
<1>6. CASE Finish \/ Truncate
  BY <1>0, <1>6 DEF Finish, Truncate, Live
<1>7. CASE UNCHANGED vars
  BY <1>0, <1>7 DEF vars, pvars, Live
<1> QED BY <1>2, <1>3, <1>4, <1>5, <1>6, <1>7 DEF Next, Parse

(* However objects nest: references are made concrete exactly inside a      *)
(* closure's body, and vectors read at once exactly inside the value of a   *)
(* row.names cell, whatever other bodies and cells were left in between.    *)
THEOREM FlagsAreScoped == Spec => []FlagsScoped
<1>1. Init => FlagsInv
  <2> SUFFICES ASSUME Init PROVE FlagsInv
    OBVIOUS
  <2>1. Depth = 1 /\ inBody = FALSE /\ lazy = Lazy
    BY DEF Init, PInit, Depth
  <2>2. ~BodyIn(frames, 1) /\ ~EagerIn(frames, 1) /\ Found(frames, 1)
    BY DEF BodyIn, EagerIn, Found
  <2> QED BY <2>1, <2>2 DEF FlagsInv, Scoped
<1>2. TypeInv /\ FlagsInv => FlagsScoped
  <2> SUFFICES ASSUME TypeInv, FlagsInv, Live
               PROVE  /\ inBody = (Within("body") # {})
                      /\ lazy = (Lazy /\ {k \in Within("car") : frames[k - 1].rn} = {})
    BY DEF FlagsScoped, Live
  <2>1. /\ inBody <=> BodyIn(frames, Depth)
        /\ lazy <=> Lazy /\ ~EagerIn(frames, Depth)
    BY DEF FlagsInv, Scoped
  <2>2. BodyIn(frames, Depth) <=> Within("body") # {}
    BY DEF BodyIn, Within
  <2>3. EagerIn(frames, Depth) <=> {k \in Within("car") : frames[k - 1].rn} # {}
    BY DEF EagerIn, Within
  <2>4. inBody \in BOOLEAN /\ lazy \in BOOLEAN
    BY DEF TypeInv, TypeOK
  <2>5. inBody = (Within("body") # {})
    BY <2>1, <2>2, <2>4
  <2>6. lazy = (Lazy /\ {k \in Within("car") : frames[k - 1].rn} = {})
    BY <2>1, <2>3, <2>4
  <2> QED BY <2>5, <2>6
<1> QED BY <1>1, <1>2, FlagsStep, TypeCorrect, PTL DEF Spec
-----------------------------------------------------------------------------
(* For the other readers of the same stream: what n nested calls have yet   *)
(* to read, in roles, L[k] of them in the k-th, and how much R has left     *)
(* when the k-th returns, R[k].  W[k] is what R has left when the calls     *)
(* above the k-th have returned.                                            *)
EndsWith(s, t) == \E p \in Seq(Roles) : s = p \o t

OwesBy(W, n, L, R, w) ==
  /\ W \in [0..n -> Seq(Roles)] /\ W[0] = <<>> /\ W[n] = w
  /\ \A k \in 1..n : L[k] \in Seq(Roles) /\ W[k] = L[k] \o W[k - 1] /\ R[k] = Len(W[k - 1])
  /\ \A j \in 0..n : EndsWith(w, W[j])
  /\ \A k \in 1..n : \A j \in 0..k - 1 : EndsWith(W[k - 1], W[j])

Owes(n, L, R, w) == \E W : OwesBy(W, n, L, R, w)

LEMMA EndsWithFacts ==
  /\ \A s \in Seq(Roles) : EndsWith(s, s)
  /\ \A s, t, u \in Seq(Roles) : EndsWith(t, u) => EndsWith(s \o t, u)
<1>1. ASSUME NEW s \in Seq(Roles) PROVE EndsWith(s, s)
  <2>1. <<>> \in Seq(Roles) /\ s = <<>> \o s
    BY EmptySeq, ConcatEmptySeq
  <2> QED BY <2>1 DEF EndsWith
<1>2. ASSUME NEW s \in Seq(Roles), NEW t \in Seq(Roles), NEW u \in Seq(Roles), EndsWith(t, u)
      PROVE  EndsWith(s \o t, u)
  <2>1. PICK p \in Seq(Roles) : t = p \o u
    BY <1>2 DEF EndsWith
  <2>2. s \o t = (s \o p) \o u
    BY <2>1, ConcatAssociative
  <2>3. s \o p \in Seq(Roles)
    BY ConcatProperties
  <2> QED BY <2>2, <2>3 DEF EndsWith
<1> QED BY <1>1, <1>2

(* The first role of a concatenation.                                       *)
LEMMA HeadOfConcat ==
  ASSUME NEW a \in Seq(Roles), NEW b \in Seq(Roles), a # <<>>
  PROVE  a \o b # <<>> /\ Head(a \o b) = Head(a) /\ Tail(a \o b) = Tail(a) \o b
<1>1. Len(a) \in Nat \ {0} /\ Len(b) \in Nat
  BY EmptySeq, LenProperties
<1>2. /\ a \o b \in Seq(Roles) /\ Len(a \o b) = Len(a) + Len(b)
      /\ \A i \in 1 .. Len(a) + Len(b) :
           (a \o b)[i] = IF i <= Len(a) THEN a[i] ELSE b[i - Len(a)]
  BY ConcatProperties
<1>3. a \o b # <<>>
  BY <1>1, <1>2, EmptySeq
<1>4. Head(a \o b) = (a \o b)[1] /\ Head(a) = a[1]
  BY <1>2, <1>3, HeadTailProperties
<1>5. (a \o b)[1] = a[1]
  BY <1>1, <1>2
<1>6. /\ Tail(a) \in Seq(Roles) /\ Len(Tail(a)) = Len(a) - 1
      /\ \A i \in 1..Len(Tail(a)) : Tail(a)[i] = a[i + 1]
  BY HeadTailProperties
<1>7. /\ Tail(a \o b) \in Seq(Roles) /\ Len(Tail(a \o b)) = Len(a \o b) - 1
      /\ \A i \in 1..Len(Tail(a \o b)) : Tail(a \o b)[i] = (a \o b)[i + 1]
  BY <1>2, <1>3, HeadTailProperties
<1>8. /\ Tail(a) \o b \in Seq(Roles) /\ Len(Tail(a) \o b) = Len(Tail(a)) + Len(b)
      /\ \A i \in 1 .. Len(Tail(a)) + Len(b) :
           (Tail(a) \o b)[i] = IF i <= Len(Tail(a)) THEN Tail(a)[i] ELSE b[i - Len(Tail(a))]
  BY <1>6, ConcatProperties
<1>9. Len(Tail(a \o b)) = Len(Tail(a) \o b)
  BY <1>1, <1>2, <1>6, <1>7, <1>8
<1>10. ASSUME NEW i \in 1..Len(Tail(a \o b))
       PROVE  Tail(a \o b)[i] = (Tail(a) \o b)[i]
  <2> DEFINE n == Len(a)
             m == Len(b)
  <2>1. n \in Nat \ {0} /\ m \in Nat /\ Len(Tail(a \o b)) = n + m - 1 /\ Len(Tail(a)) = n - 1
    BY <1>1, <1>2, <1>6, <1>7
  <2>2. i \in 1..n + m - 1 /\ i + 1 \in 1..n + m
    BY <2>1
  <2>3. Tail(a \o b)[i] = IF i + 1 <= n THEN a[i + 1] ELSE b[i + 1 - n]
    BY <1>2, <1>7, <2>2
  <2>4. (Tail(a) \o b)[i] = IF i <= n - 1 THEN Tail(a)[i] ELSE b[i - (n - 1)]
    <3>1. i \in 1..Len(Tail(a)) + Len(b)
      BY <2>1, <2>2
    <3> QED BY <1>8, <2>1, <3>1
  <2>5. i + 1 <= n <=> i <= n - 1
    BY <2>1, <2>2
  <2>6. i + 1 - n = i - (n - 1)
    BY <2>1, <2>2
  <2>7. i <= n - 1 => Tail(a)[i] = a[i + 1]
    BY <1>6, <2>1, <2>2
  <2> QED BY <2>3, <2>4, <2>5, <2>6, <2>7
<1>11. Tail(a \o b) = Tail(a) \o b
  BY <1>7, <1>8, <1>9, <1>10, SeqEqual
<1> QED BY <1>3, <1>4, <1>5, <1>11

LEMMA OwesTop ==
  ASSUME NEW n \in Nat \ {0}, NEW L, NEW R, NEW w, NEW W, OwesBy(W, n, L, R, w)
  PROVE  /\ L[n] \in Seq(Roles) /\ W[n - 1] \in Seq(Roles) /\ w \in Seq(Roles)
         /\ w = L[n] \o W[n - 1]
<1>1. n \in 1..n /\ n \in 0..n /\ n - 1 \in 0..n
  OBVIOUS
<1> QED BY <1>1 DEF OwesBy

(* The role that R writes next is the first one of the innermost call.      *)
LEMMA OwesReads ==
  ASSUME NEW n \in Nat \ {0}, NEW L, NEW R, NEW w, Owes(n, L, R, w), L[n] # <<>>
  PROVE  /\ w \in Seq(Roles) /\ w # <<>> /\ Head(w) = Head(L[n]) /\ Tail(w) \in Seq(Roles)
         /\ Len(Tail(w)) = Len(w) - 1
<1>1. PICK W : OwesBy(W, n, L, R, w)
  BY DEF Owes
<1> DEFINE a == L[n]
           t == W[n - 1]
<1>2. a \in Seq(Roles) /\ t \in Seq(Roles) /\ w \in Seq(Roles) /\ w = a \o t /\ a # <<>>
  <2>1. n \in 1..n /\ n \in 0..n /\ n - 1 \in 0..n
    OBVIOUS
  <2> QED BY <1>1, <2>1 DEF OwesBy
<1> HIDE DEF a, t
<1>3. w # <<>> /\ Head(w) = Head(a)
  BY <1>2, HeadOfConcat
<1>4. Tail(w) \in Seq(Roles) /\ Len(Tail(w)) = Len(w) - 1
  BY <1>2, <1>3, HeadTailProperties
<1> QED BY <1>2, <1>3, <1>4 DEF a

(* The innermost call reads an item and goes on with the item's parts.      *)
LEMMA OwesInPlace ==
  ASSUME NEW n \in Nat \ {0}, NEW L, NEW R, NEW w, Owes(n, L, R, w), L[n] # <<>>,
         NEW P \in Seq(Roles), NEW M, NEW Q,
         \A k \in 1..n - 1 : M[k] = L[k], M[n] = P \o Tail(L[n]),
         \A k \in 1..n : Q[k] = R[k]
  PROVE  Owes(n, M, Q, P \o Tail(w))
<1>1. PICK W : OwesBy(W, n, L, R, w)
  BY DEF Owes
<1> DEFINE a == L[n]
           b == W[n - 1]
           v == P \o Tail(w)
           V == [k \in 0..n |-> IF k = n THEN v ELSE W[k]]
           m == M[n]
<1>2. /\ a \in Seq(Roles) /\ b \in Seq(Roles) /\ w \in Seq(Roles) /\ w = a \o b
      /\ a # <<>> /\ m = P \o Tail(a)
  <2>1. n \in 1..n /\ n \in 0..n /\ n - 1 \in 0..n
    OBVIOUS
  <2> QED BY <1>1, <2>1 DEF OwesBy
<1>3. v \in Seq(Roles) /\ m \in Seq(Roles) /\ v = m \o b
  <2> HIDE DEF a, b, m
  <2>1. Tail(w) = Tail(a) \o b /\ Tail(a) \in Seq(Roles)
    BY <1>2, HeadOfConcat, HeadTailProperties
  <2> DEFINE c == Tail(a)
  <2>2. c \in Seq(Roles) /\ v = P \o (c \o b) /\ m = P \o c
    BY <1>2, <2>1
  <2> HIDE DEF v, c
  <2>5. P \o (c \o b) = (P \o c) \o b
    <3>1. P \in Seq(Roles) /\ c \in Seq(Roles) /\ b \in Seq(Roles)
      BY <1>2, <2>2
    <3> QED BY <3>1, ConcatAssociative
  <2>3. v = (P \o c) \o b
    BY <2>2, <2>5
  <2>4. P \o c \in Seq(Roles) /\ (P \o c) \o b \in Seq(Roles)
    BY <1>2, <2>2, ConcatProperties
  <2> QED BY <2>2, <2>3, <2>4
<1> HIDE DEF v
<1>4. V \in [0..n -> Seq(Roles)] /\ V[0] = <<>> /\ V[n] = v
  <2>1. W \in [0..n -> Seq(Roles)] /\ W[0] = <<>>
    BY <1>1 DEF OwesBy
  <2>2. V \in [0..n -> Seq(Roles)]
    BY <1>3, <2>1
  <2>3. 0 \in 0..n /\ n \in 0..n /\ 0 # n
    OBVIOUS
  <2> QED BY <2>1, <2>2, <2>3
<1>5. \A k \in 0..n - 1 : k \in 0..n /\ V[k] = W[k]
  OBVIOUS
<1> HIDE DEF V
<1>6. ASSUME NEW k \in 1..n
      PROVE  M[k] \in Seq(Roles) /\ V[k] = M[k] \o V[k - 1] /\ Q[k] = Len(V[k - 1])
  <2>0. k - 1 \in 0..n - 1 /\ R[k] = Len(W[k - 1])
    <3>1. k - 1 \in 0..n - 1
      OBVIOUS
    <3> QED BY <1>1, <3>1 DEF OwesBy
  <2>1. k - 1 \in 0..n - 1 /\ V[k - 1] = W[k - 1] /\ Q[k] = Len(V[k - 1])
    BY <2>0, <1>5
  <2>2. CASE k = n
    BY <1>3, <1>4, <2>1, <2>2
  <2>3. CASE k # n
    <3>1. k \in 1..n - 1 /\ k \in 0..n - 1
      BY <2>3
    <3> QED BY <1>1, <1>5, <2>1, <3>1 DEF OwesBy
  <2> QED BY <2>1, <2>2, <2>3
<1>7. ASSUME NEW j \in 0..n - 1
      PROVE  EndsWith(W[n - 1], W[j]) /\ W[j] \in Seq(Roles)
  <2>1. n \in 1..n /\ j \in 0..n
    OBVIOUS
  <2> QED BY <1>1, <2>1 DEF OwesBy
<1>8. ASSUME NEW j \in 0..n
      PROVE  EndsWith(v, V[j])
  <2>1. CASE j = n
    BY <1>3, <1>4, <2>1, EndsWithFacts
  <2>2. CASE j # n
    <3>1. j \in 0..n - 1
      BY <2>2
    <3>2. EndsWith(b, W[j]) /\ W[j] \in Seq(Roles)
      BY <1>7, <3>1
    <3> HIDE DEF b, m
    <3>3. EndsWith(m \o b, W[j])
      BY <1>2, <1>3, <3>2, EndsWithFacts
    <3> QED BY <1>3, <1>5, <3>1, <3>3
  <2> QED BY <2>1, <2>2
<1>9. ASSUME NEW k \in 1..n, NEW j \in 0..k - 1
      PROVE  EndsWith(V[k - 1], V[j])
  <2>1. k - 1 \in 0..n - 1 /\ j \in 0..n - 1
    OBVIOUS
  <2> QED BY <1>1, <1>5, <2>1 DEF OwesBy
<1>10. OwesBy(V, n, M, Q, v)
  BY <1>4, <1>6, <1>8, <1>9 DEF OwesBy
<1> QED BY <1>10 DEF Owes, v

(* It calls a reader of the item's parts.                                   *)
LEMMA OwesCall ==
  ASSUME NEW n \in Nat \ {0}, NEW L, NEW R, NEW w, Owes(n, L, R, w), L[n] # <<>>,
         NEW P \in Seq(Roles), NEW M, NEW Q,
         \A k \in 1..n - 1 : M[k] = L[k], M[n] = Tail(L[n]), M[n + 1] = P,
         \A k \in 1..n : Q[k] = R[k], Q[n + 1] = Len(w) - 1
  PROVE  Owes(n + 1, M, Q, P \o Tail(w))
<1> DEFINE K == [k \in 1..n |-> IF k = n THEN Tail(L[n]) ELSE L[k]]
           v == P \o Tail(w)
<1>1. Owes(n, K, R, Tail(w)) /\ Tail(w) \in Seq(Roles) /\ Len(Tail(w)) = Len(w) - 1
  <2>2. Tail(w) \in Seq(Roles) /\ w # <<>> /\ w \in Seq(Roles) /\ Len(Tail(w)) = Len(w) - 1
    BY OwesReads
  <2>3. Tail(L[n]) \in Seq(Roles)
    <3>1. PICK W : OwesBy(W, n, L, R, w)
      BY DEF Owes
    <3>2. n \in 1..n
      OBVIOUS
    <3>3. L[n] \in Seq(Roles)
      BY <3>1, <3>2 DEF OwesBy
    <3> QED BY <3>3, HeadTailProperties
  <2>4. <<>> \in Seq(Roles) /\ <<>> \o Tail(w) = Tail(w) /\ <<>> \o Tail(L[n]) = Tail(L[n])
    BY <2>2, <2>3, EmptySeq, ConcatEmptySeq
  <2>5. /\ \A k \in 1..n - 1 : K[k] = L[k]
        /\ K[n] = <<>> \o Tail(L[n]) /\ \A k \in 1..n : R[k] = R[k]
    BY <2>4
  <2> HIDE DEF K
  <2>6. Owes(n, K, R, <<>> \o Tail(w))
    BY <2>4, <2>5, OwesInPlace
  <2> QED BY <2>2, <2>3, <2>4, <2>6
<1>2. PICK W : OwesBy(W, n, K, R, Tail(w))
  BY <1>1 DEF Owes
<1>3. \A k \in 1..n : M[k] = K[k]
  OBVIOUS
<1> HIDE DEF K
<1>4. v \in Seq(Roles)
  BY <1>1, ConcatProperties
<1> DEFINE V == [k \in 0..n + 1 |-> IF k = n + 1 THEN v ELSE W[k]]
<1> HIDE DEF v
<1>5. V \in [0..n + 1 -> Seq(Roles)] /\ V[0] = <<>> /\ V[n + 1] = v
  <2>1. W \in [0..n -> Seq(Roles)] /\ W[0] = <<>>
    BY <1>2 DEF OwesBy
  <2>2. \A k \in 0..n + 1 : k # n + 1 => k \in 0..n
    OBVIOUS
  <2> QED BY <1>4, <2>1, <2>2
<1>6. \A k \in 0..n : k \in 0..n + 1 /\ V[k] = W[k]
  OBVIOUS
<1> HIDE DEF V
<1>7. W[n] = Tail(w) /\ V[n] = Tail(w)
  BY <1>2, <1>6 DEF OwesBy
<1>8. ASSUME NEW k \in 1..n + 1
      PROVE  M[k] \in Seq(Roles) /\ V[k] = M[k] \o V[k - 1] /\ Q[k] = Len(V[k - 1])
  <2>1. CASE k = n + 1
    <3>1. (n + 1) - 1 = n
      OBVIOUS
    <3>2. V[n + 1] = P \o V[n] /\ M[n + 1] = P /\ Q[n + 1] = Len(V[n])
      BY <1>1, <1>5, <1>7 DEF v
    <3> QED BY <2>1, <3>1, <3>2
  <2>2. CASE k # n + 1
    <3>1. k \in 1..n /\ k \in 0..n /\ k - 1 \in 0..n
      BY <2>2
    <3>2. K[k] \in Seq(Roles) /\ W[k] = K[k] \o W[k - 1] /\ R[k] = Len(W[k - 1])
      BY <1>2, <3>1 DEF OwesBy
    <3>3. M[k] = K[k] /\ V[k] = W[k] /\ V[k - 1] = W[k - 1] /\ Q[k] = R[k]
      BY <1>3, <1>6, <3>1
    <3> QED BY <3>2, <3>3
  <2> QED BY <2>1, <2>2
<1>9. ASSUME NEW j \in 0..n
      PROVE  EndsWith(Tail(w), V[j]) /\ V[j] \in Seq(Roles)
  BY <1>2, <1>6 DEF OwesBy
<1>10. ASSUME NEW j \in 0..n + 1
       PROVE  EndsWith(v, V[j])
  <2>1. CASE j = n + 1
    BY <1>4, <1>5, <2>1, EndsWithFacts
  <2>2. CASE j # n + 1
    <3>1. j \in 0..n
      BY <2>2
    <3> QED BY <1>1, <1>9, <3>1, EndsWithFacts DEF v
  <2> QED BY <2>1, <2>2
<1>11. ASSUME NEW k \in 1..n + 1, NEW j \in 0..k - 1
       PROVE  EndsWith(V[k - 1], V[j])
  <2>1. k - 1 \in 0..n /\ j \in 0..n
    OBVIOUS
  <2>2. CASE k = n + 1
    <3>1. k - 1 = n
      BY <2>2
    <3>2. EndsWith(V[n], V[j])
      BY <1>7, <1>9, <2>1
    <3> QED BY <3>1, <3>2
  <2>3. CASE k # n + 1
    <3>1. k \in 1..n
      BY <2>3
    <3>2. EndsWith(W[k - 1], W[j])
      BY <1>2, <3>1 DEF OwesBy
    <3>3. V[k - 1] = W[k - 1] /\ V[j] = W[j]
      BY <1>6, <2>1
    <3> QED BY <3>2, <3>3
  <2> QED BY <2>2, <2>3
<1>12. OwesBy(V, n + 1, M, Q, v)
  BY <1>5, <1>8, <1>10, <1>11 DEF OwesBy
<1> QED BY <1>12 DEF Owes, v

(* It returns.                                                              *)
LEMMA OwesReturn ==
  ASSUME NEW n \in Nat \ {0}, NEW L, NEW R, NEW w, Owes(n, L, R, w), L[n] = <<>>,
         NEW M, NEW Q, \A k \in 1..n - 1 : M[k] = L[k] /\ Q[k] = R[k]
  PROVE  Owes(n - 1, M, Q, w)
<1>1. PICK W : OwesBy(W, n, L, R, w)
  BY DEF Owes
<1> DEFINE b == W[n - 1]
<1>2. b \in Seq(Roles) /\ w = <<>> \o b
  <2>1. n \in 1..n /\ n \in 0..n /\ n - 1 \in 0..n
    OBVIOUS
  <2> QED BY <1>1, <2>1 DEF OwesBy
<1>3. b = w
  <2> HIDE DEF b
  <2> QED BY <1>2, ConcatEmptySeq
<1> DEFINE V == [k \in 0..n - 1 |-> W[k]]
<1>4. V \in [0..n - 1 -> Seq(Roles)] /\ V[0] = <<>> /\ V[n - 1] = w
  BY <1>1, <1>3 DEF OwesBy
<1>5. \A k \in 0..n - 1 : V[k] = W[k] /\ k \in 0..n
  OBVIOUS
<1> HIDE DEF V
<1>6. ASSUME NEW k \in 1..n - 1
      PROVE  M[k] \in Seq(Roles) /\ V[k] = M[k] \o V[k - 1] /\ Q[k] = Len(V[k - 1])
  <2>1. k \in 1..n /\ k \in 0..n - 1 /\ k - 1 \in 0..n - 1
    OBVIOUS
  <2> QED BY <1>1, <1>5, <2>1 DEF OwesBy
<1>7. ASSUME NEW j \in 0..n - 1
      PROVE  EndsWith(w, V[j])
  BY <1>1, <1>5 DEF OwesBy
<1>8. ASSUME NEW k \in 1..n - 1, NEW j \in 0..k - 1
      PROVE  EndsWith(V[k - 1], V[j])
  <2>1. k \in 1..n /\ k - 1 \in 0..n - 1 /\ j \in 0..n - 1
    OBVIOUS
  <2> QED BY <1>1, <1>5, <2>1 DEF OwesBy
<1>9. OwesBy(V, n - 1, M, Q, w)
  BY <1>4, <1>6, <1>7, <1>8 DEF OwesBy
<1> QED BY <1>9 DEF Owes

LEMMA OwesSame ==
  ASSUME NEW n \in Nat, NEW L, NEW R, NEW w, Owes(n, L, R, w),
         NEW M, NEW Q, \A k \in 1..n : M[k] = L[k] /\ Q[k] = R[k]
  PROVE  Owes(n, M, Q, w)
BY DEF Owes, OwesBy

(* One call that has everything to read.                                    *)
LEMMA OwesFirst ==
  ASSUME NEW L, NEW R, NEW w \in Seq(Roles), L[1] = w, R[1] = 0
  PROVE  Owes(1, L, R, w)
<1> DEFINE W == [k \in 0..1 |-> IF k = 1 THEN w ELSE <<>>]
<1>1. <<>> \in Seq(Roles) /\ w \o <<>> = w /\ Len(<<>>) = 0
  BY EmptySeq, ConcatEmptySeq
<1>2. W[0] = <<>> /\ W[1] = w /\ W \in [0..1 -> Seq(Roles)]
  BY <1>1
<1> HIDE DEF W
<1>3. EndsWith(w, W[0]) /\ EndsWith(w, W[1]) /\ EndsWith(W[0], W[0])
  <2>1. EndsWith(w, w) /\ EndsWith(<<>>, <<>>)
    BY <1>1, EndsWithFacts
  <2>2. EndsWith(w, <<>>)
    BY <1>1 DEF EndsWith
  <2> QED BY <1>2, <2>1, <2>2
<1>4. ASSUME NEW j \in 0..1 PROVE EndsWith(w, W[j])
  <2>1. j = 0 \/ j = 1
    OBVIOUS
  <2> QED BY <1>3, <2>1
<1>5. ASSUME NEW k \in 1..1, NEW j \in 0..k - 1 PROVE EndsWith(W[k - 1], W[j])
  <2>1. k = 1 /\ j = 0 /\ k - 1 = 0
    OBVIOUS
  <2> QED BY <1>3, <2>1
<1>6. ASSUME NEW k \in 1..1
      PROVE  L[k] \in Seq(Roles) /\ W[k] = L[k] \o W[k - 1] /\ R[k] = Len(W[k - 1])
  <2>1. k = 1 /\ k - 1 = 0
    OBVIOUS
  <2> QED BY <1>1, <1>2, <2>1
<1>7. OwesBy(W, 1, L, R, w)
  BY <1>2, <1>4, <1>5, <1>6 DEF OwesBy
<1> QED BY <1>7 DEF Owes

(* Said as in the invariants: role by role.                                 *)
LEMMA OwesLaid ==
  ASSUME NEW n \in Nat \ {0}, NEW L, NEW R, NEW w, Owes(n, L, R, w), NEW k \in 1..n
  PROVE  LET left == IF k = n THEN Len(w) ELSE R[k + 1] IN
         /\ Len(L[k]) + R[k] = left
         /\ \A j \in 1..Len(L[k]) : L[k][j] = w[Len(w) - left + j]
<1>1. PICK W : OwesBy(W, n, L, R, w)
  BY DEF Owes
<1> DEFINE left == IF k = n THEN Len(w) ELSE R[k + 1]
           a == L[k]
           b == W[k - 1]
           c == W[k]
<1>2. /\ L[k] \in Seq(Roles) /\ W[k] \in Seq(Roles) /\ W[k - 1] \in Seq(Roles)
      /\ W[k] = L[k] \o W[k - 1] /\ R[k] = Len(W[k - 1])
  <2>1. k \in 0..n /\ k - 1 \in 0..n
    OBVIOUS
  <2> QED BY <1>1, <2>1 DEF OwesBy
<1>3. left = Len(W[k]) /\ w \in Seq(Roles)
  <2>1. CASE k = n
    BY <1>1, <1>2, <2>1 DEF OwesBy
  <2>2. CASE k # n
    <3>1. k + 1 \in 1..n /\ (k + 1) - 1 = k /\ n \in 0..n
      BY <2>2
    <3>2. R[k + 1] = Len(W[(k + 1) - 1])
      BY <1>1, <3>1 DEF OwesBy
    <3> QED BY <1>1, <2>2, <3>1, <3>2 DEF OwesBy
  <2> QED BY <2>1, <2>2
<1>10. a \in Seq(Roles) /\ b \in Seq(Roles) /\ c \in Seq(Roles) /\ c = a \o b /\ left = Len(c) /\ R[k] = Len(b)
  BY <1>2, <1>3
<1>11. PICK p \in Seq(Roles) : w = p \o c
  <2>1. k \in 0..n
    OBVIOUS
  <2> QED BY <1>1, <2>1 DEF OwesBy, EndsWith
<1> HIDE DEF left, a, b, c
<1>4. /\ Len(c) = Len(a) + Len(b)
      /\ \A i \in 1 .. Len(a) + Len(b) : c[i] = IF i <= Len(a) THEN a[i] ELSE b[i - Len(a)]
  BY <1>10, ConcatProperties
<1>6. /\ Len(w) = Len(p) + Len(c)
      /\ \A i \in 1 .. Len(p) + Len(c) : w[i] = IF i <= Len(p) THEN p[i] ELSE c[i - Len(p)]
  BY <1>10, <1>11, ConcatProperties
<1>7. Len(p) \in Nat /\ Len(a) \in Nat /\ Len(b) \in Nat
  BY <1>10, LenProperties
<1>8. ASSUME NEW j \in 1..Len(a)
      PROVE  a[j] = w[Len(w) - left + j]
  <2> DEFINE x == Len(p)
             y == Len(a)
             z == Len(b)
  <2>0. /\ x \in Nat /\ y \in Nat /\ z \in Nat /\ j \in 1..y
        /\ left = y + z /\ Len(w) = x + (y + z) /\ Len(c) = y + z
    BY <1>4, <1>6, <1>7, <1>10
  <2> HIDE DEF x, y, z
  <2>1. /\ Len(w) - left + j = x + j /\ x + j \in 1..x + (y + z)
        /\ ~(x + j <= x) /\ x + j - x = j /\ j \in 1..y + z /\ j <= y
    BY <2>0
  <2>2. w[x + j] = c[j]
    BY <1>6, <2>0, <2>1 DEF x
  <2>3. c[j] = a[j]
    BY <1>4, <2>1 DEF y, z
  <2> QED BY <2>1, <2>2, <2>3
<1>9. Len(a) + R[k] = left
  BY <1>4, <1>10
<1> QED BY <1>8, <1>9 DEF left, a

(* Their stacks of calls, whose reads are those of some set T.              *)
FramesIn(T) == [op : AllKinds \cup {"root"}, as : T, todo : Seq(T), ref : Nat,
                plain : BOOLEAN, rn : BOOLEAN, wasBody : BOOLEAN, wasLazy : BOOLEAN,
                rest : Nat]

LEMMA FrameFacts ==
  ASSUME NEW T, NEW s \in Seq(FramesIn(T)), s # <<>>
  PROVE  /\ Len(s) \in Nat \ {0} /\ s[Len(s)] \in FramesIn(T)
         /\ s[Len(s)].todo \in Seq(T) /\ s[Len(s)].rn \in BOOLEAN
         /\ \A k \in 1..Len(s) : s[k] \in FramesIn(T) /\ s[k].rest \in Nat /\ s[k].ref \in Nat
                                 /\ s[k].todo \in Seq(T)
<1>1. Len(s) \in Nat \ {0}
  BY EmptySeq
<1>2. \A k \in 1..Len(s) : s[k] \in FramesIn(T)
  BY ElementOfSeq
<1>3. \A f \in FramesIn(T) : /\ f.rest \in Nat /\ f.ref \in Nat /\ f.todo \in Seq(T)
                             /\ f.rn \in BOOLEAN
  BY DEF FramesIn
<1>4. Len(s) \in 1..Len(s)
  BY <1>1
<1> QED BY <1>1, <1>2, <1>3, <1>4

LEMMA GoesOn ==
  ASSUME NEW T, NEW s \in Seq(FramesIn(T)), s # <<>>,
         NEW t \in Seq(T), NEW r \in BOOLEAN
  PROVE  /\ Continue(s, t, r) \in Seq(FramesIn(T)) /\ Continue(s, t, r) # <<>>
         /\ Len(Continue(s, t, r)) = Len(s)
         /\ \A k \in 1..Len(s) - 1 : Continue(s, t, r)[k] = s[k]
         /\ \A k \in 1..Len(s) : SameCall(Continue(s, t, r)[k], s[k])
         /\ Continue(s, t, r)[Len(s)].todo = t
         /\ Continue(s, t, r)[Len(s)].rn = r
<1> DEFINE n == Len(s)
           c == Continue(s, t, r)
<1>1. n \in Nat \ {0} /\ s[n] \in FramesIn(T)
  BY FrameFacts
<1> DEFINE f == [s[n] EXCEPT !.todo = t, !.rn = r]
<1>2. f \in FramesIn(T)
  BY <1>1 DEF FramesIn
<1>3. c = [s EXCEPT ![n] = f]
  <2>1. n \in DOMAIN s
    BY <1>1, LenProperties
  <2> QED BY <1>1, <2>1 DEF Continue, FramesIn
<1>4. SameCall(f, s[n]) /\ f.todo = t /\ f.rn = r
  BY <1>1 DEF SameCall, FramesIn
<1> HIDE DEF f
<1>5. /\ c \in Seq(FramesIn(T)) /\ Len(c) = n
      /\ \A j \in 1 .. n : c[j] = IF j = n THEN f ELSE s[j]
  <2>1. n \in 1..n
    BY <1>1
  <2> QED BY <1>2, <1>3, <2>1, ExceptSeq
<1> HIDE DEF c, n
<1>6. c[n] = f /\ c # <<>>
  <2>1. n \in 1..n
    BY <1>1
  <2> QED BY <1>1, <1>5, <2>1, EmptySeq
<1>7. \A k \in 1..n - 1 : c[k] = s[k]
  <2> SUFFICES ASSUME NEW k \in 1..n - 1 PROVE c[k] = s[k]
    OBVIOUS
  <2>1. k \in 1..n /\ k # n
    BY <1>1
  <2> QED BY <1>5, <2>1
<1>8. ASSUME NEW k \in 1..n PROVE SameCall(c[k], s[k])
  <2>1. CASE k = n
    BY <1>4, <1>6, <2>1
  <2>2. CASE k # n
    BY <1>5, <2>2 DEF SameCall
  <2> QED BY <2>1, <2>2
<1> QED BY <1>4, <1>5, <1>6, <1>7, <1>8 DEF c, n

LEMMA Pushes ==
  ASSUME NEW T, NEW s \in Seq(FramesIn(T)), s # <<>>,
         NEW t \in Seq(T), NEW r \in BOOLEAN, NEW f \in FramesIn(T)
  PROVE  LET c == Append(Continue(s, t, r), f) IN
         /\ c \in Seq(FramesIn(T)) /\ Len(c) = Len(s) + 1 /\ c # <<>>
         /\ \A k \in 1..Len(s) - 1 : c[k] = s[k]
         /\ \A k \in 1..Len(s) : SameCall(c[k], s[k])
         /\ c[Len(s)].todo = t /\ c[Len(s)].rn = r /\ c[Len(s) + 1] = f
<1> DEFINE d == Continue(s, t, r)
           c == Append(d, f)
           n == Len(s)
<1>1. /\ d \in Seq(FramesIn(T)) /\ Len(d) = n
      /\ \A k \in 1..n - 1 : d[k] = s[k]
      /\ \A k \in 1..n : SameCall(d[k], s[k])
      /\ d[n].todo = t /\ d[n].rn = r
  BY GoesOn
<1>2. n \in Nat \ {0}
  BY FrameFacts
<1> HIDE DEF c, d
<1>3. /\ c \in Seq(FramesIn(T)) /\ c # <<>> /\ Len(c) = Len(d) + 1
      /\ \A i \in 1..Len(d) : c[i] = d[i]
      /\ c[Len(d) + 1] = f
  BY <1>1, <1>2, AppendProperties DEF c
<1> HIDE DEF n
<1>4. n \in 1..n /\ \A k \in 1..n - 1 : k \in 1..n
  BY <1>2
<1>5. /\ Len(c) = n + 1 /\ c[n + 1] = f /\ \A i \in 1..n : c[i] = d[i]
  BY <1>1, <1>3
<1>6. /\ \A k \in 1..n - 1 : c[k] = s[k]
      /\ \A k \in 1..n : SameCall(c[k], s[k])
      /\ c[n].todo = t /\ c[n].rn = r
  BY <1>1, <1>4, <1>5
<1> QED BY <1>3, <1>5, <1>6 DEF c, d, n

LEMMA Drops ==
  ASSUME NEW T, NEW s \in Seq(T), Len(s) > 1
  PROVE  /\ SubSeq(s, 1, Len(s) - 1) \in Seq(T) /\ SubSeq(s, 1, Len(s) - 1) # <<>>
         /\ Len(SubSeq(s, 1, Len(s) - 1)) = Len(s) - 1
         /\ \A k \in 1..Len(s) - 1 : SubSeq(s, 1, Len(s) - 1)[k] = s[k]
<1> DEFINE n == Len(s)
           c == SubSeq(s, 1, n - 1)
<1>1. n \in Nat /\ n > 1
  OBVIOUS
<1>2. \A k \in 1..n - 1 : s[k] \in T
  BY <1>1, ElementOfSeq
<1>3. /\ c \in Seq(T) /\ Len(c) = n - 1
      /\ \A k \in 1..n - 1 : c[k] = s[k]
  <2> HIDE DEF n
  <2>1. 1 \in Int /\ n - 1 \in Int /\ 1 <= n - 1 /\ (n - 1) - 1 + 1 = n - 1
    BY <1>1
  <2>2. /\ c \in Seq(T) /\ Len(c) = n - 1 /\ \A k \in 1..n - 1 : c[k] = s[1 + k - 1]
    BY <1>2, <2>1, SubSeqProperties
  <2>3. \A k \in 1..n - 1 : 1 + k - 1 = k
    BY <1>1
  <2> QED BY <2>2, <2>3
<1>4. c # <<>>
  <2> HIDE DEF c, n
  <2>1. Len(c) # 0
    BY <1>1, <1>3
  <2> QED BY <1>3, <2>1, EmptySeq
<1> QED BY <1>3, <1>4
=============================================================================
