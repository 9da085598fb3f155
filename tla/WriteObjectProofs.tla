------------------------- MODULE WriteObjectProofs -------------------------
(***************************************************************************)
(* The writer's numbers are the reader's, for every value without one of    *)
(* the shapes that take an index no item answers to.                        *)
(***************************************************************************)
EXTENDS WriteObject, SequenceTheorems, TLAPS

(* The shapes under which the writer and a reader count differently.        *)
Burning == {"sharedNamespace", "equalNamespace", "namedSymbol", "attributedEnv"}
CountsAlike == Shapes \cap Burning = {}

RefType == [next : Nat \ {0}, object : [Handles -> Nat],
            namespace : [NameEnvs \X EnvNames -> Nat]]
SymType == [pointer : [Handles -> Nat], value : [Names -> Nat]]
HeapType == Seq([kind : {"sym", "env"} \cup NameEnvs, name : Names \cup EnvNames \cup {0}])
Ids == ({"env"} \X Nat) \cup ({"sym"} \X Names) \cup (NameEnvs \X EnvNames)

Typed == /\ refs \in RefType /\ syms \in SymType /\ heap \in HeapType
         /\ named \in Seq(Ids) /\ wtable \in Seq(RTracked)

(* The four parts of NumbersAgree.                                          *)
CountAgrees == Len(named) = Len(wtable) /\ refs.next = Len(named) + 1
ObjectsAgree == \A h \in Handles : refs.object[h] # 0 =>
  /\ Known(h) /\ refs.object[h] \in DOMAIN named
  /\ named[refs.object[h]] = Identity(heap[h], h)
NamespacesAgree == \A k \in NameEnvs \X EnvNames : refs.namespace[k] # 0 =>
  refs.namespace[k] \in DOMAIN named /\ named[refs.namespace[k]] = k
PointersAgree == \A h \in Handles : syms.pointer[h] # 0 =>
  Known(h) /\ heap[h].kind = "sym" /\ syms.pointer[h] = syms.value[heap[h].name]
ValuesAgree == \A n \in Names : syms.value[n] # 0 =>
  syms.value[n] \in DOMAIN named /\ named[syms.value[n]] = <<"sym", n>>

(* The tables know everything the reader has numbered.                      *)
TablesComplete == \A i \in DOMAIN named :
  \/ \E h \in 1..Len(heap) : named[i] = <<"env", h>>
  \/ \E k \in NameEnvs \X EnvNames : named[i] = k /\ refs.namespace[k] = i
  \/ \E n \in Names : named[i] = <<"sym", n>> /\ syms.value[n] = i

(* A namespace in the tables is at an address, a symbol at an address has a *)
(* name.                                                                    *)
NamespacesKept == \A k \in NameEnvs \X EnvNames : refs.namespace[k] # 0 =>
  \E h \in 1..Len(heap) : heap[h] = [kind |-> k[1], name |-> k[2]]
HeapKept == \A h \in 1..Len(heap) :
  /\ heap[h].kind = "sym" => heap[h].name \in Names
  /\ heap[h].kind \in NameEnvs => heap[h].name \in EnvNames

Numbered == /\ Typed /\ CountAgrees /\ ObjectsAgree /\ NamespacesAgree
            /\ PointersAgree /\ ValuesAgree /\ TablesComplete
            /\ NamespacesKept /\ HeapKept
            /\ RefsMeanWhatWasWritten /\ WrittenOnce

----------------------------------------------------------------------------
(* The steps by what they do to the numbering.                              *)

Keeps == UNCHANGED <<heap, refs, syms, named, last, wtable>>

LEMMA PlainKeeps ==
  ASSUME NEW type, NEW attr, NEW tag, NEW n, NEW parts, type \notin RTracked,
         Plain(type, attr, tag, n, parts), Untracked
  PROVE  Keeps
BY DEF Plain, Emit, Write, Item, Untracked, Keeps

LEMMA KeepsNumbered == Numbered /\ Keeps => Numbered'
<1> SUFFICES ASSUME Numbered, Keeps PROVE Numbered'
  OBVIOUS
<1> USE DEF Keeps
<1>1. Typed' BY DEF Numbered, Typed
<1>2. CountAgrees' BY DEF Numbered, CountAgrees
<1>3. ObjectsAgree' BY DEF Numbered, ObjectsAgree, Known, Identity
<1>4. NamespacesAgree' BY DEF Numbered, NamespacesAgree
<1>5. PointersAgree' BY DEF Numbered, PointersAgree, Known
<1>6. ValuesAgree' BY DEF Numbered, ValuesAgree
<1>7. TablesComplete' BY DEF Numbered, TablesComplete
<1>8. NamespacesKept' /\ HeapKept' BY DEF Numbered, NamespacesKept, HeapKept
<1>9. RefsMeanWhatWasWritten' /\ WrittenOnce'
  BY DEF Numbered, RefsMeanWhatWasWritten, WrittenOnce
<1> QED BY <1>1, <1>2, <1>3, <1>4, <1>5, <1>6, <1>7, <1>8, <1>9 DEF Numbered

(* The heap only grows, by well-formed entries.                             *)
Grown == /\ heap' \in HeapType /\ HeapKept' /\ Len(heap) <= Len(heap')
         /\ \A h \in 1..Len(heap) : heap'[h] = heap[h]

LEMMA SameHeapGrown == Typed /\ HeapKept /\ heap' = heap => Grown
BY DEF Grown, HeapKept, Typed, HeapType

LEMMA AppendGrown ==
  ASSUME NEW kind \in {"sym", "env"} \cup NameEnvs, NEW name \in Names \cup EnvNames \cup {0},
         kind = "sym" => name \in Names, kind \in NameEnvs => name \in EnvNames,
         Typed, HeapKept, heap' = Append(heap, [kind |-> kind, name |-> name])
  PROVE  Grown /\ Len(heap') = Fresh /\ heap'[Fresh] = [kind |-> kind, name |-> name]
<1> DEFINE e == [kind |-> kind, name |-> name]
<1>1. e \in [kind : {"sym", "env"} \cup NameEnvs, name : Names \cup EnvNames \cup {0}]
  OBVIOUS
<1>2. heap \in HeapType BY DEF Typed
<1> HIDE DEF e
<1>3. heap' = Append(heap, e) BY DEF e
<1>4. /\ heap' \in HeapType /\ Len(heap') = Len(heap) + 1 /\ heap'[Len(heap) + 1] = e
      /\ \A h \in 1..Len(heap) : heap'[h] = heap[h]
  BY <1>1, <1>2, <1>3 DEF HeapType
<1>5. e.kind = kind /\ e.name = name BY DEF e
<1>6. HeapKept'
  <2> SUFFICES ASSUME NEW h \in 1..Len(heap')
               PROVE  /\ heap'[h].kind = "sym" => heap'[h].name \in Names
                      /\ heap'[h].kind \in NameEnvs => heap'[h].name \in EnvNames
    BY DEF HeapKept
  <2>1. CASE h = Len(heap) + 1 BY <2>1, <1>4, <1>5
  <2>2. CASE h # Len(heap) + 1
    <3>1. h \in 1..Len(heap) BY <2>2, <1>4, <1>2 DEF HeapType
    <3> QED BY <3>1, <1>4 DEF HeapKept
  <2> QED BY <2>1, <2>2
<1> QED BY <1>4, <1>6, <1>2 DEF Grown, Fresh, HeapType, e

LEMMA GrownKnown == Grown /\ Typed => \A h \in Handles : Known(h) => Known(h)' /\ heap'[h] = heap[h]
<1> SUFFICES ASSUME Grown, Typed, NEW h \in Handles, Known(h) PROVE Known(h)' /\ heap'[h] = heap[h]
  OBVIOUS
<1>1. Len(heap) \in Nat /\ Len(heap') \in Nat BY DEF Grown, Typed, HeapType
<1> QED BY <1>1 DEF Grown, Known

(* A reference to what the reader has under that number.                    *)
LEMMA RefKeeps ==
  ASSUME NEW idx, NEW id, Numbered, WriteRefsxp(idx, id), UNCHANGED <<refs, syms>>,
         Grown, idx \in DOMAIN named, named[idx] = id
  PROVE  Numbered'
<1>1. UNCHANGED <<named, wtable>> /\ last' = [ref |-> idx, meant |-> id]
  BY DEF WriteRefsxp, Emit, Write, Item, RTracked, SymbolKinds, EnvKinds
<1>a. \A h \in Handles : Known(h) => Known(h)' /\ heap'[h] = heap[h]
  BY GrownKnown DEF Numbered
<1>b. Len(heap) \in Nat /\ Len(heap') \in Nat
  BY DEF Numbered, Typed, Grown, HeapType
<1>2. RefsMeanWhatWasWritten' BY <1>1 DEF RefsMeanWhatWasWritten
<1>3. WrittenOnce' BY <1>1 DEF Numbered, WrittenOnce
<1>4. Typed' BY <1>1 DEF Numbered, Typed, Grown
<1>5. CountAgrees' BY <1>1 DEF Numbered, CountAgrees
<1>6. ObjectsAgree' BY <1>1, <1>a DEF Numbered, ObjectsAgree, Identity
<1>7. NamespacesAgree' BY <1>1 DEF Numbered, NamespacesAgree
<1>8. PointersAgree' BY <1>1, <1>a DEF Numbered, PointersAgree
<1>9. ValuesAgree' BY <1>1 DEF Numbered, ValuesAgree
<1>10. TablesComplete' BY <1>1, <1>b DEF Numbered, TablesComplete, Grown
<1>11. NamespacesKept' BY <1>1, <1>b DEF Numbered, NamespacesKept, Grown
<1>12. HeapKept' BY DEF Grown
<1> QED BY <1>2, <1>3, <1>4, <1>5, <1>6, <1>7, <1>8, <1>9, <1>10, <1>11, <1>12 DEF Numbered

(* A new object takes the reader's next number, and some table says so.     *)
EntersOne(id) ==
  /\ refs' \in RefType /\ syms' \in SymType /\ refs'.next = refs.next + 1
  /\ \A h \in Handles : \/ refs'.object[h] = refs.object[h]
                        \/ /\ refs'.object[h] = refs.next
                           /\ Known(h)' /\ id = Identity(heap'[h], h)
  /\ \A k \in NameEnvs \X EnvNames :
       \/ refs'.namespace[k] = refs.namespace[k]
       \/ /\ refs.namespace[k] = 0 /\ refs'.namespace[k] = refs.next /\ id = k
          /\ \E h \in 1..Len(heap') : heap'[h] = [kind |-> k[1], name |-> k[2]]
  /\ \A n \in Names :
       \/ syms'.value[n] = syms.value[n]
       \/ syms.value[n] = 0 /\ syms'.value[n] = refs.next /\ id = <<"sym", n>>
  /\ PointersAgree'
  /\ \/ \E h \in 1..Len(heap') : id = <<"env", h>>
     \/ \E k \in NameEnvs \X EnvNames : id = k /\ refs'.namespace[k] = refs.next
     \/ \E n \in Names : id = <<"sym", n>> /\ syms'.value[n] = refs.next

LEMMA DefineKeeps ==
  ASSUME NEW type \in RTracked, NEW id \in Ids, NEW parts, NEW entered, Numbered,
         Defines(type, id, parts, entered), Grown, EntersOne(id),
         \A i \in DOMAIN named : named[i] # id
  PROVE  Numbered'
<1>1. /\ named' = Append(named, id) /\ wtable' = Append(wtable, type) /\ last' = last
  BY DEF Defines, Emit, Write, Item
<1>2. named \in Seq(Ids) /\ wtable \in Seq(RTracked) BY DEF Numbered, Typed
<1>3. /\ Len(named') = Len(named) + 1 /\ Len(wtable') = Len(wtable) + 1
      /\ named' \in Seq(Ids) /\ wtable' \in Seq(RTracked)
      /\ DOMAIN named = 1..Len(named) /\ DOMAIN named' = 1..(Len(named) + 1)
      /\ named'[Len(named) + 1] = id
      /\ \A i \in DOMAIN named : named'[i] = named[i]
      /\ Len(named) \in Nat
  BY <1>1, <1>2
<1>4. refs.next = Len(named) + 1 /\ Len(named) = Len(wtable) BY DEF Numbered, CountAgrees
<1>5. \A h \in Handles : Known(h) => Known(h)' /\ heap'[h] = heap[h]
  BY GrownKnown DEF Numbered
<1>6. Len(heap) \in Nat /\ Len(heap') \in Nat
  BY DEF Numbered, Typed, Grown, HeapType
<1>7. Typed' BY <1>3 DEF Typed, EntersOne, Grown
<1>8. CountAgrees' BY <1>3, <1>4 DEF CountAgrees, EntersOne
<1>9. ObjectsAgree'
  <2> SUFFICES ASSUME NEW h \in Handles, refs'.object[h] # 0
               PROVE  /\ Known(h)' /\ refs'.object[h] \in DOMAIN named'
                      /\ named'[refs'.object[h]] = Identity(heap'[h], h)
    BY DEF ObjectsAgree
  <2>1. CASE refs'.object[h] = refs.object[h]
    <3>1. /\ Known(h) /\ refs.object[h] \in DOMAIN named
          /\ named[refs.object[h]] = Identity(heap[h], h)
      BY <2>1 DEF Numbered, ObjectsAgree
    <3>2. Known(h)' /\ heap'[h] = heap[h] BY <3>1, <1>5
    <3>3. refs'.object[h] \in DOMAIN named' /\ named'[refs'.object[h]] = named[refs.object[h]]
      BY <3>1, <2>1, <1>3
    <3>4. Identity(heap'[h], h) = Identity(heap[h], h) BY <3>2
    <3> QED BY <3>1, <3>2, <3>3, <3>4
  <2>2. CASE refs'.object[h] # refs.object[h]
    <3>1. refs'.object[h] = refs.next /\ Known(h)' /\ id = Identity(heap'[h], h)
      BY <2>2 DEF EntersOne
    <3> QED BY <3>1, <1>3, <1>4
  <2> QED BY <2>1, <2>2
<1>10. NamespacesAgree'
  <2> SUFFICES ASSUME NEW k \in NameEnvs \X EnvNames, refs'.namespace[k] # 0
               PROVE  refs'.namespace[k] \in DOMAIN named' /\ named'[refs'.namespace[k]] = k
    BY DEF NamespacesAgree
  <2>1. CASE refs'.namespace[k] = refs.namespace[k]
    BY <2>1, <1>3 DEF Numbered, NamespacesAgree
  <2>2. CASE refs'.namespace[k] # refs.namespace[k]
    <3>1. refs'.namespace[k] = refs.next /\ id = k BY <2>2 DEF EntersOne
    <3> QED BY <3>1, <1>3, <1>4
  <2> QED BY <2>1, <2>2
<1>11. ValuesAgree' BY <1>3, <1>4 DEF Numbered, ValuesAgree, EntersOne
<1>12. TablesComplete'
  <2> SUFFICES ASSUME NEW i \in DOMAIN named'
               PROVE  \/ \E h \in 1..Len(heap') : named'[i] = <<"env", h>>
                      \/ \E k \in NameEnvs \X EnvNames : named'[i] = k /\ refs'.namespace[k] = i
                      \/ \E n \in Names : named'[i] = <<"sym", n>> /\ syms'.value[n] = i
    BY DEF TablesComplete
  <2>1. CASE i = Len(named) + 1 BY <2>1, <1>3, <1>4 DEF EntersOne
  <2>2. CASE i # Len(named) + 1
    <3>1. i \in DOMAIN named /\ named'[i] = named[i] /\ i # 0 BY <2>2, <1>3
    <3>2. CASE \E h \in 1..Len(heap) : named[i] = <<"env", h>>
      BY <3>1, <3>2, <1>6 DEF Grown
    <3>3. CASE \E k \in NameEnvs \X EnvNames : named[i] = k /\ refs.namespace[k] = i
      BY <3>1, <3>3 DEF EntersOne
    <3>4. CASE \E n \in Names : named[i] = <<"sym", n>> /\ syms.value[n] = i
      BY <3>1, <3>4 DEF EntersOne
    <3> QED BY <3>1, <3>2, <3>3, <3>4 DEF Numbered, TablesComplete
  <2> QED BY <2>1, <2>2
<1>13. NamespacesKept'
  <2> SUFFICES ASSUME NEW k \in NameEnvs \X EnvNames, refs'.namespace[k] # 0
               PROVE  \E h \in 1..Len(heap') : heap'[h] = [kind |-> k[1], name |-> k[2]]
    BY DEF NamespacesKept
  <2>1. CASE refs'.namespace[k] = refs.namespace[k]
    BY <2>1, <1>6 DEF Numbered, NamespacesKept, Grown
  <2>2. CASE refs'.namespace[k] # refs.namespace[k] BY <2>2 DEF EntersOne
  <2> QED BY <2>1, <2>2
<1>14. HeapKept' /\ PointersAgree' BY DEF Grown, EntersOne
<1>15. RefsMeanWhatWasWritten' BY <1>1, <1>3 DEF Numbered, RefsMeanWhatWasWritten
<1>16. WrittenOnce'
  <2> SUFFICES ASSUME NEW i \in DOMAIN named', NEW j \in DOMAIN named', named'[i] = named'[j]
               PROVE  i = j
    BY DEF WrittenOnce
  <2>1. i # Len(named) + 1 => i \in DOMAIN named BY <1>3
  <2>2. j # Len(named) + 1 => j \in DOMAIN named BY <1>3
  <2> QED BY <2>1, <2>2, <1>3 DEF Numbered, WrittenOnce
<1> QED BY <1>7, <1>8, <1>9, <1>10, <1>11, <1>12, <1>13, <1>14, <1>15, <1>16 DEF Numbered

----------------------------------------------------------------------------
(* The one counter.                                                         *)

LEMMA RegisterFacts ==
  ASSUME NEW h \in Handles, refs \in RefType
  PROVE  /\ RegisterObjectPtr(refs, h) \in RefType
         /\ RegisterObjectPtr(refs, h).namespace = refs.namespace
         /\ RegisterObjectPtr(refs, h).object[h] # 0
         /\ refs.object[h] # 0 => RegisterObjectPtr(refs, h) = refs
         /\ refs.object[h] = 0 =>
              /\ RegisterObjectPtr(refs, h).next = refs.next + 1
              /\ RegisterObjectPtr(refs, h).object[h] = refs.next
              /\ \A g \in Handles \ {h} : RegisterObjectPtr(refs, h).object[g] = refs.object[g]
              /\ RegisterObjectPtr(refs, h) # refs
<1> DEFINE r == RegisterObjectPtr(refs, h)
<1>1. CASE refs.object[h] # 0
  <2>1. r = refs BY <1>1 DEF RegisterObjectPtr
  <2> QED BY <2>1, <1>1
<1>2. CASE refs.object[h] = 0
  <2>1. r = [next |-> refs.next + 1, object |-> [refs.object EXCEPT ![h] = refs.next],
             namespace |-> refs.namespace]
    BY <1>2 DEF RegisterObjectPtr, RefType
  <2>2. refs.next \in Nat \ {0} /\ refs.object \in [Handles -> Nat] BY DEF RefType
  <2>3. /\ [refs.object EXCEPT ![h] = refs.next] \in [Handles -> Nat]
        /\ [refs.object EXCEPT ![h] = refs.next][h] = refs.next
        /\ \A g \in Handles \ {h} : [refs.object EXCEPT ![h] = refs.next][g] = refs.object[g]
    BY <2>2
  <2>4. r \in RefType BY <2>1, <2>2, <2>3 DEF RefType
  <2>5. r # refs BY <2>1, <2>2
  <2> QED BY <2>1, <2>2, <2>3, <2>4, <2>5, <1>2
<1> QED BY <1>1, <1>2

LEMMA NextFacts ==
  ASSUME refs \in RefType
  PROVE  /\ [refs EXCEPT !.next = @ + 1] \in RefType
         /\ [refs EXCEPT !.next = @ + 1].next = refs.next + 1
         /\ [refs EXCEPT !.next = @ + 1].object = refs.object
         /\ [refs EXCEPT !.next = @ + 1].namespace = refs.namespace
BY DEF RefType

----------------------------------------------------------------------------
(* The actions.                                                             *)

(* What a writer of a symbol can assume about its Arc.                      *)
SymbolAt(ptr, name) ==
  /\ ptr \in Handles \cup {0}
  /\ Known(ptr) => heap[ptr] = [kind |-> "sym", name |-> name]
  /\ Grown
  /\ ptr # 0 => Known(ptr)' /\ heap'[ptr] = [kind |-> "sym", name |-> name]

LEMMA SymbolGrows ==
  ASSUME NEW name \in Names, NEW ptr \in Pointers(name), Typed, HeapKept,
         heap' = IF ptr = 0 \/ Known(ptr) THEN heap
                 ELSE Append(heap, [kind |-> "sym", name |-> name])
  PROVE  SymbolAt(ptr, name)
<1>1. /\ ptr \in Handles \cup {0} /\ Len(heap) \in Nat
      /\ ptr # 0 => ptr <= Len(heap) + 1
      /\ ptr # 0 /\ Known(ptr) => heap[ptr] = [kind |-> "sym", name |-> name]
  BY DEF Pointers, Typed, HeapType
<1>2. ~Known(0) BY DEF Known
<1>3. Known(ptr) => heap[ptr] = [kind |-> "sym", name |-> name] BY <1>1, <1>2
<1>4. CASE ptr = 0 \/ Known(ptr)
  <2>1. heap' = heap BY <1>4
  <2>2. Grown BY <2>1, SameHeapGrown
  <2>3. Known(ptr) => Known(ptr)' BY <2>1 DEF Known
  <2> QED BY <2>1, <2>2, <2>3, <1>1, <1>3, <1>4 DEF SymbolAt
<1>5. CASE ptr # 0 /\ ~Known(ptr)
  <2>1. ptr = Fresh /\ ptr \in Nat \ {0}
    BY <1>1, <1>5, WriterAssumption DEF Known, Fresh, Handles
  <2>2. heap' = Append(heap, [kind |-> "sym", name |-> name]) BY <1>5
  <2>3. "sym" \notin NameEnvs BY DEF NameEnvs
  <2>4. Grown /\ Len(heap') = Fresh /\ heap'[Fresh] = [kind |-> "sym", name |-> name]
    BY <2>2, <2>3, AppendGrown
  <2>5. Known(ptr)' BY <2>1, <2>4 DEF Known
  <2> QED BY <2>1, <2>4, <2>5, <1>1, <1>3 DEF SymbolAt
<1> QED BY <1>4, <1>5

(* An identity that is in none of the tables has not been numbered.         *)
LEMMA NewSymbol ==
  ASSUME NEW name \in Names, Numbered, syms.value[name] = 0
  PROVE  \A i \in DOMAIN named : named[i] # <<"sym", name>>
<1> SUFFICES ASSUME NEW i \in DOMAIN named, named[i] = <<"sym", name>> PROVE FALSE
  OBVIOUS
<1>1. i # 0 BY DEF Numbered, Typed
<1>2. CASE \E h \in 1..Len(heap) : named[i] = <<"env", h>> BY <1>2
<1>3. CASE \E k \in NameEnvs \X EnvNames : named[i] = k BY <1>3 DEF NameEnvs
<1>4. CASE \E n \in Names : named[i] = <<"sym", n>> /\ syms.value[n] = i BY <1>1, <1>4
<1> QED BY <1>2, <1>3, <1>4 DEF Numbered, TablesComplete

LEMMA FoundSymbol ==
  ASSUME NEW name \in Names, NEW ptr, Numbered, SymbolAt(ptr, name), Lookup(ptr, name) # 0
  PROVE  Lookup(ptr, name) \in DOMAIN named /\ named[Lookup(ptr, name)] = <<"sym", name>>
<1>1. Lookup(ptr, name) = syms.value[name]
  <2>1. CASE ptr # 0 /\ syms.pointer[ptr] # 0
    <3>1. Known(ptr) /\ syms.pointer[ptr] = syms.value[heap[ptr].name]
      BY <2>1 DEF Numbered, PointersAgree, SymbolAt
    <3>2. heap[ptr].name = name BY <3>1 DEF SymbolAt
    <3> QED BY <3>1, <3>2, <2>1 DEF Lookup
  <2>2. CASE ptr = 0 \/ syms.pointer[ptr] = 0 BY <2>2 DEF Lookup
  <2> QED BY <2>1, <2>2
<1> QED BY <1>1 DEF Numbered, ValuesAgree

(* Whatever was reserved, a new symbol ends up with the next index, and no  *)
(* other index is taken.                                                    *)
LEMMA NewSymbolIndex ==
  ASSUME NEW ptr \in Handles \cup {0}, NEW name, refs \in RefType,
         ptr # 0 => refs.object[ptr] = 0
  PROVE  /\ SymbolIndex(Reserve(ptr), ptr) = refs.next
         /\ RegisterSymbol(Reserve(ptr), ptr, name)
              = IF ptr = 0 THEN [refs EXCEPT !.next = @ + 1] ELSE RegisterObjectPtr(refs, ptr)
<1>1. CASE ptr = 0 BY <1>1 DEF Reserve, SymbolIndex, RegisterSymbol
<1>2. CASE ptr # 0
  <2> DEFINE r == RegisterObjectPtr(refs, ptr)
  <2>1. ptr \in Handles BY <1>2
  <2>2. r.object[ptr] = refs.next /\ r.object[ptr] # 0
    BY <2>1, <1>2, RegisterFacts
  <2>3. CASE Slot = "value"
    <3>1. Reserve(ptr) = r BY <2>3, <1>2 DEF Reserve
    <3> HIDE DEF r
    <3>2. RegisterObjectPtr(r, ptr) = r BY <2>2 DEF RegisterObjectPtr
    <3> QED BY <3>1, <3>2, <2>2, <1>2 DEF SymbolIndex, RegisterSymbol, r
  <2>4. CASE Slot # "value"
    BY <2>4, <1>2 DEF Reserve, SymbolIndex, RegisterSymbol
  <2> QED BY <2>3, <2>4
<1> QED BY <1>1, <1>2

LEMMA SymbolEnters ==
  ASSUME NEW name \in Names, NEW ptr, Numbered, SymbolAt(ptr, name),
         syms.value[name] = 0, ptr # 0 => refs.object[ptr] = 0,
         refs' = IF ptr = 0 THEN [refs EXCEPT !.next = @ + 1] ELSE RegisterObjectPtr(refs, ptr),
         syms' = TrackSymbol(ptr, name, refs.next)
  PROVE  EntersOne(<<"sym", name>>)
<1> DEFINE id == <<"sym", name>>
<1>1. ptr \in Handles \cup {0} BY DEF SymbolAt
<1>2. refs \in RefType /\ syms \in SymType /\ refs.next \in Nat \ {0}
  BY DEF Numbered, Typed, RefType
<1>3. 0 \notin Handles BY WriterAssumption DEF Handles
<1>4. /\ refs' \in RefType /\ refs'.next = refs.next + 1
      /\ refs'.namespace = refs.namespace
      /\ \A h \in Handles : refs'.object[h] = IF h = ptr THEN refs.next ELSE refs.object[h]
  <2>1. CASE ptr = 0 BY <2>1, <1>2, <1>3, NextFacts
  <2>2. CASE ptr # 0 BY <2>2, <1>1, <1>2, RegisterFacts
  <2> QED BY <2>1, <2>2
<1>5. /\ syms' \in SymType
      /\ \A h \in Handles : syms'.pointer[h] = IF h = ptr THEN refs.next ELSE syms.pointer[h]
      /\ \A n \in Names : syms'.value[n] = IF n = name THEN refs.next ELSE syms.value[n]
  <2>1. refs.next \in Nat /\ name \in Names /\ syms.pointer \in [Handles -> Nat]
        /\ syms.value \in [Names -> Nat]
    BY <1>2 DEF SymType
  <2>2. syms' = [pointer |-> IF ptr = 0 THEN syms.pointer ELSE [syms.pointer EXCEPT ![ptr] = refs.next],
                 value   |-> [syms.value EXCEPT ![name] = refs.next]]
    BY DEF TrackSymbol
  <2> HIDE DEF id
  <2> QED BY <2>1, <2>2, <1>1, <1>3 DEF SymType
<1>6. ptr # 0 => Known(ptr)' /\ heap'[ptr].kind = "sym" /\ heap'[ptr].name = name
                 /\ Identity(heap'[ptr], ptr) = id
  BY DEF SymbolAt, Identity
<1>7. \A h \in Handles : \/ refs'.object[h] = refs.object[h]
                         \/ /\ refs'.object[h] = refs.next
                            /\ Known(h)' /\ id = Identity(heap'[h], h)
  BY <1>3, <1>4, <1>6
<1>8. PointersAgree'
  <2> SUFFICES ASSUME NEW h \in Handles, syms'.pointer[h] # 0
               PROVE  /\ Known(h)' /\ heap'[h].kind = "sym"
                      /\ syms'.pointer[h] = syms'.value[heap'[h].name]
    BY DEF PointersAgree
  <2>1. CASE h = ptr BY <2>1, <1>3, <1>5, <1>6
  <2>2. CASE h # ptr
    <3>1. syms.pointer[h] # 0 /\ syms'.pointer[h] = syms.pointer[h] BY <2>2, <1>5
    <3>2. Known(h) /\ heap[h].kind = "sym" /\ syms.pointer[h] = syms.value[heap[h].name]
      BY <3>1 DEF Numbered, PointersAgree
    <3>3. Known(h)' /\ heap'[h] = heap[h] BY <3>2, GrownKnown DEF Numbered, SymbolAt
    <3>4. heap[h].name \in Names BY <3>2 DEF Numbered, HeapKept, Known
    <3>5. heap[h].name # name BY <3>1, <3>2
    <3> QED BY <3>1, <3>2, <3>3, <3>4, <3>5, <1>5
  <2> QED BY <2>1, <2>2
<1>9. id = <<"sym", name>> /\ syms'.value[name] = refs.next BY <1>5
<1> HIDE DEF id
<1>10. \A n \in Names : \/ syms'.value[n] = syms.value[n]
                        \/ syms.value[n] = 0 /\ syms'.value[n] = refs.next /\ id = <<"sym", n>>
  BY <1>5, <1>9
<1>11. \E n \in Names : id = <<"sym", n>> /\ syms'.value[n] = refs.next BY <1>9
<1>12. EntersOne(id) BY <1>4, <1>5, <1>7, <1>8, <1>10, <1>11 DEF EntersOne
<1> QED BY <1>12 DEF id

LEMMA SymbolKeeps == Numbered /\ CountsAlike /\ WriteSymbol => Numbered'
<1> SUFFICES ASSUME Numbered, CountsAlike, WriteSymbol PROVE Numbered'
  OBVIOUS
<1>0. PICK name \in Names : \E ptr \in Pointers(name) :
        /\ Reserve(ptr) # refs /\ Lookup(ptr, name) # 0 => "namedSymbol" \in Shapes
        /\ heap' = IF ptr = 0 \/ Known(ptr) THEN heap
                   ELSE Append(heap, [kind |-> "sym", name |-> name])
        /\ WriteSymbolWithTracking(ptr, name)
  BY DEF WriteSymbol
<1>1. PICK ptr \in Pointers(name) :
        /\ Reserve(ptr) # refs /\ Lookup(ptr, name) # 0 => "namedSymbol" \in Shapes
        /\ heap' = IF ptr = 0 \/ Known(ptr) THEN heap
                   ELSE Append(heap, [kind |-> "sym", name |-> name])
        /\ WriteSymbolWithTracking(ptr, name)
  BY <1>0
<1>2. Typed /\ HeapKept BY DEF Numbered
<1>3. SymbolAt(ptr, name) BY <1>1, <1>2, SymbolGrows
<1>4. ptr \in Handles \cup {0} /\ Grown BY <1>3 DEF SymbolAt
<1>5. CASE Lookup(ptr, name) # 0
  <2>1. /\ WriteRefsxp(Lookup(ptr, name), <<"sym", name>>)
        /\ refs' = Reserve(ptr) /\ UNCHANGED syms
    BY <1>1, <1>5 DEF WriteSymbolWithTracking
  <2>2. Reserve(ptr) = refs BY <1>1, <1>5 DEF CountsAlike, Burning
  <2>3. Lookup(ptr, name) \in DOMAIN named /\ named[Lookup(ptr, name)] = <<"sym", name>>
    BY <1>3, <1>5, FoundSymbol
  <2> QED BY <2>1, <2>2, <2>3, <1>4, RefKeeps
<1>6. CASE Lookup(ptr, name) = 0
  <2>1. /\ Defines("sym", <<"sym", name>>, <<"chars">>, {})
        /\ refs' = RegisterSymbol(Reserve(ptr), ptr, name)
        /\ syms' = TrackSymbol(ptr, name, SymbolIndex(Reserve(ptr), ptr))
    BY <1>1, <1>6 DEF WriteSymbolWithTracking
  <2>2. syms.value[name] = 0 BY <1>6 DEF Lookup
  <2>3. \A i \in DOMAIN named : named[i] # <<"sym", name>> BY <1>1, <2>2, NewSymbol
  <2>4. ptr # 0 => refs.object[ptr] = 0
    <3> SUFFICES ASSUME ptr # 0, refs.object[ptr] # 0 PROVE FALSE
      OBVIOUS
    <3>1. /\ Known(ptr) /\ refs.object[ptr] \in DOMAIN named
          /\ named[refs.object[ptr]] = Identity(heap[ptr], ptr)
      BY <1>4 DEF Numbered, ObjectsAgree
    <3>2. Identity(heap[ptr], ptr) = <<"sym", name>> BY <3>1, <1>3 DEF SymbolAt, Identity
    <3> QED BY <3>1, <3>2, <2>3
  <2>5. /\ SymbolIndex(Reserve(ptr), ptr) = refs.next
        /\ RegisterSymbol(Reserve(ptr), ptr, name)
             = IF ptr = 0 THEN [refs EXCEPT !.next = @ + 1] ELSE RegisterObjectPtr(refs, ptr)
    BY <2>4, <1>2, <1>4, NewSymbolIndex DEF Typed
  <2>6. EntersOne(<<"sym", name>>)
    BY <1>1, <1>3, <2>1, <2>2, <2>4, <2>5, SymbolEnters
  <2>7. "sym" \in RTracked /\ <<"sym", name>> \in Ids
    BY <1>1 DEF RTracked, SymbolKinds, Ids
  <2> QED BY <2>1, <2>3, <2>6, <2>7, <1>4, DefineKeeps
<1> QED BY <1>5, <1>6

(* An address not met before has no entry and no identity yet.              *)
LEMMA FreshAddress ==
  ASSUME Numbered, Fresh \in Handles
  PROVE  /\ refs.object[Fresh] = 0 /\ syms.pointer[Fresh] = 0
         /\ Fresh \in Nat \ {0}
         /\ \A h \in 1..Len(heap) : h # Fresh
<1>1. Len(heap) \in Nat BY DEF Numbered, Typed, HeapType
<1>2. ~Known(Fresh) BY <1>1 DEF Known, Fresh
<1> QED BY <1>1, <1>2 DEF Numbered, ObjectsAgree, PointersAgree, Fresh

(* Pointers stay right while the symbol tables do.                          *)
LEMMA PointersStay == Numbered /\ Grown /\ syms' = syms => PointersAgree'
<1> SUFFICES ASSUME Numbered, Grown, syms' = syms, NEW h \in Handles, syms.pointer[h] # 0
             PROVE  /\ Known(h)' /\ heap'[h].kind = "sym"
                    /\ syms.pointer[h] = syms.value[heap'[h].name]
  BY DEF PointersAgree
<1>1. Known(h) /\ heap[h].kind = "sym" /\ syms.pointer[h] = syms.value[heap[h].name]
  BY DEF Numbered, PointersAgree
<1>2. Known(h)' /\ heap'[h] = heap[h] BY <1>1, GrownKnown DEF Numbered
<1> QED BY <1>1, <1>2

LEMMA EnvironmentKeeps == Numbered /\ CountsAlike /\ WriteEnvironment => Numbered'
<1> SUFFICES ASSUME Numbered, CountsAlike, WriteEnvironment PROVE Numbered'
  OBVIOUS
<1>1. PICK attributed \in BOOLEAN :
        /\ attributed => "attributedEnv" \in Shapes
        /\ refs' = IF attributed THEN refs ELSE RegisterObjectPtr(refs, Fresh)
        /\ Defines("env", <<"env", Fresh>>,
                   EnvironmentParts(IF attributed THEN "attrs" ELSE "nil"), {Fresh})
  BY DEF WriteEnvironment
<1>2. refs' = RegisterObjectPtr(refs, Fresh) BY <1>1 DEF CountsAlike, Burning
<1>3. /\ Fresh \in Handles /\ UNCHANGED syms
      /\ heap' = Append(heap, [kind |-> "env", name |-> 0])
  BY DEF WriteEnvironment
<1>4. Typed /\ HeapKept BY DEF Numbered
<1>5. Grown /\ Len(heap') = Fresh /\ heap'[Fresh] = [kind |-> "env", name |-> 0]
  <2>1. "env" \notin NameEnvs BY DEF NameEnvs
  <2> QED BY <1>3, <1>4, <2>1, AppendGrown
<1>6. /\ refs.object[Fresh] = 0 /\ Fresh \in Nat \ {0}
      /\ \A h \in 1..Len(heap) : h # Fresh
  BY <1>3, FreshAddress
<1>7. /\ refs' \in RefType /\ refs'.next = refs.next + 1 /\ refs'.namespace = refs.namespace
      /\ refs'.object[Fresh] = refs.next
      /\ \A g \in Handles \ {Fresh} : refs'.object[g] = refs.object[g]
  BY <1>2, <1>3, <1>4, <1>6, RegisterFacts DEF Typed
<1>8. Fresh \in 1..Len(heap') /\ Identity(heap'[Fresh], Fresh) = <<"env", Fresh>>
  BY <1>5, <1>6 DEF Identity
<1>9. PointersAgree' BY <1>3, <1>5, PointersStay
<1>10. EntersOne(<<"env", Fresh>>)
  <2>1. syms' \in SymType BY <1>3, <1>4 DEF Typed
  <2>2. \E h \in 1..Len(heap') : <<"env", Fresh>> = <<"env", h>> BY <1>5, <1>6
  <2>3. \A h \in Handles : \/ refs'.object[h] = refs.object[h]
                           \/ /\ refs'.object[h] = refs.next
                              /\ Known(h)' /\ <<"env", Fresh>> = Identity(heap'[h], h)
    BY <1>7, <1>8 DEF Known
  <2> QED BY <1>3, <1>7, <1>9, <2>1, <2>2, <2>3 DEF EntersOne
<1>11. \A i \in DOMAIN named : named[i] # <<"env", Fresh>>
  <2> SUFFICES ASSUME NEW i \in DOMAIN named, named[i] = <<"env", Fresh>> PROVE FALSE
    OBVIOUS
  <2>1. CASE \E h \in 1..Len(heap) : named[i] = <<"env", h>> BY <2>1, <1>6
  <2>2. CASE \E k \in NameEnvs \X EnvNames : named[i] = k BY <2>2 DEF NameEnvs
  <2>3. CASE \E n \in Names : named[i] = <<"sym", n>> BY <2>3
  <2> QED BY <2>1, <2>2, <2>3 DEF Numbered, TablesComplete
<1>12. "env" \in RTracked /\ <<"env", Fresh>> \in Ids
  BY <1>6 DEF RTracked, EnvKinds, Ids
<1> DEFINE parts == EnvironmentParts(IF attributed THEN "attrs" ELSE "nil")
           id == <<"env", Fresh>>
<1>13. Defines("env", id, parts, {Fresh}) BY <1>1
<1> HIDE DEF parts
<1> QED BY <1>5, <1>10, <1>11, <1>12, <1>13, DefineKeeps

LEMMA NamespaceKeeps == Numbered /\ CountsAlike /\ WriteNamespace => Numbered'
<1> SUFFICES ASSUME Numbered, CountsAlike, WriteNamespace PROVE Numbered'
  OBVIOUS
<1>1. PICK kind \in Kinds \cap NameEnvs, name \in EnvNames, shared \in BOOLEAN :
        /\ shared => "sharedNamespace" \in Shapes
        /\ (\E h \in 1..Len(heap) : heap[h] = [kind |-> kind, name |-> name])
             => "equalNamespace" \in Shapes
        /\ heap' = Append(heap, [kind |-> kind, name |-> name])
        /\ WriteStringVecEnv(kind, name, IF shared THEN 0 ELSE refs.next)
  BY DEF WriteNamespace
<1>2. Fresh \in Handles /\ UNCHANGED syms BY DEF WriteNamespace
<1>3. ~shared /\ ~\E h \in 1..Len(heap) : heap[h] = [kind |-> kind, name |-> name]
  BY <1>1 DEF CountsAlike, Burning
<1> DEFINE k == <<kind, name>>
           r == RegisterObjectPtr(refs, Fresh)
<1>4. k \in NameEnvs \X EnvNames /\ k[1] = kind /\ k[2] = name OBVIOUS
<1>5. refs.namespace[k] = 0 BY <1>3, <1>4 DEF Numbered, NamespacesKept
<1>6. Typed /\ HeapKept BY DEF Numbered
<1>7. refs \in RefType /\ refs.next \in Nat \ {0} BY <1>6 DEF Typed, RefType
<1>8. /\ Defines(kind, k, <<>>, {})
      /\ refs' = [r EXCEPT !.namespace[k] = refs.next]
  BY <1>1, <1>3, <1>5, <1>7 DEF WriteStringVecEnv, NamespaceKey, AllocateNamespace
<1>9. /\ Grown /\ Len(heap') = Fresh /\ heap'[Fresh] = [kind |-> kind, name |-> name]
  <2>1. kind # "sym" BY DEF NameEnvs
  <2> QED BY <1>1, <1>6, <2>1, AppendGrown
<1>10. /\ refs.object[Fresh] = 0 /\ Fresh \in Nat \ {0}
  BY <1>2, FreshAddress
<1>11. /\ r \in RefType /\ r.next = refs.next + 1 /\ r.namespace = refs.namespace
       /\ r.object[Fresh] = refs.next
       /\ \A g \in Handles \ {Fresh} : r.object[g] = refs.object[g]
  BY <1>2, <1>7, <1>10, RegisterFacts
<1> HIDE DEF r
<1>12. /\ refs' \in RefType /\ refs'.next = refs.next + 1
       /\ refs'.object[Fresh] = refs.next
       /\ \A g \in Handles \ {Fresh} : refs'.object[g] = refs.object[g]
       /\ refs'.namespace[k] = refs.next
       /\ \A j \in (NameEnvs \X EnvNames) \ {k} : refs'.namespace[j] = refs.namespace[j]
  <2> HIDE DEF k
  <2>1. refs' = [next |-> r.next, object |-> r.object,
                 namespace |-> [r.namespace EXCEPT ![k] = refs.next]]
    BY <1>8, <1>11 DEF RefType
  <2>2. r.namespace \in [NameEnvs \X EnvNames -> Nat] BY <1>11 DEF RefType
  <2> QED BY <1>4, <1>7, <1>11, <2>1, <2>2 DEF RefType
<1>13. Fresh \in 1..Len(heap') /\ Identity(heap'[Fresh], Fresh) = k
  BY <1>9, <1>10 DEF Identity, NameEnvs
<1>14. PointersAgree' BY <1>2, <1>9, PointersStay
<1>15. EntersOne(k)
  <2>1. syms' \in SymType BY <1>2, <1>6 DEF Typed
  <2>2. \E h \in 1..Len(heap') : heap'[h] = [kind |-> k[1], name |-> k[2]]
    BY <1>4, <1>9, <1>10
  <2> HIDE DEF k
  <2>3. \A h \in Handles : \/ refs'.object[h] = refs.object[h]
                           \/ /\ refs'.object[h] = refs.next
                              /\ Known(h)' /\ k = Identity(heap'[h], h)
    BY <1>12, <1>13 DEF Known
  <2>4. \A j \in NameEnvs \X EnvNames :
          \/ refs'.namespace[j] = refs.namespace[j]
          \/ /\ refs.namespace[j] = 0 /\ refs'.namespace[j] = refs.next /\ k = j
             /\ \E h \in 1..Len(heap') : heap'[h] = [kind |-> j[1], name |-> j[2]]
    BY <1>5, <1>12, <2>2
  <2> QED BY <1>2, <1>4, <1>12, <1>14, <2>1, <2>3, <2>4 DEF EntersOne
<1>16. \A i \in DOMAIN named : named[i] # k
  <2> SUFFICES ASSUME NEW i \in DOMAIN named, named[i] = k PROVE FALSE
    OBVIOUS
  <2>1. CASE \E h \in 1..Len(heap) : named[i] = <<"env", h>> BY <2>1 DEF NameEnvs
  <2>2. CASE \E j \in NameEnvs \X EnvNames : named[i] = j /\ refs.namespace[j] = i
    <3>1. refs.namespace[k] = i BY <2>2
    <3>2. i # 0 BY <1>6 DEF Typed
    <3> QED BY <3>1, <3>2, <1>5
  <2>3. CASE \E n \in Names : named[i] = <<"sym", n>> BY <2>3 DEF NameEnvs
  <2> QED BY <2>1, <2>2, <2>3 DEF Numbered, TablesComplete
<1>17. kind \in RTracked /\ k \in Ids
  BY <1>4 DEF RTracked, EnvKinds, NameEnvs, Ids
<1> HIDE DEF k
<1> QED BY <1>8, <1>9, <1>15, <1>16, <1>17, DefineKeeps

LEMMA ReferenceKeeps == Numbered /\ WriteReference => Numbered'
<1> SUFFICES ASSUME Numbered, WriteReference PROVE Numbered'
  OBVIOUS
<1>1. PICK h \in Handles :
        /\ CheckObjectPtr(h) # 0 /\ heap[h].kind # "sym"
        /\ WriteRefsxp(CheckObjectPtr(h), Identity(heap[h], h))
  BY DEF WriteReference
<1>2. UNCHANGED <<heap, refs, syms>> BY DEF WriteReference, Untracked
<1>3. Grown BY <1>2, SameHeapGrown DEF Numbered
<1>4. refs.object[h] \in DOMAIN named /\ named[refs.object[h]] = Identity(heap[h], h)
  BY <1>1 DEF Numbered, ObjectsAgree, CheckObjectPtr
<1> QED BY <1>1, <1>2, <1>3, <1>4, RefKeeps DEF CheckObjectPtr

LEMMA PlainActions ==
  WriteNull \/ WriteVector \/ WriteList \/ WriteS4Object \/ WritePairlist
    \/ WriteCell \/ WriteLanguage \/ WriteClosure \/ WritePromise \/ WriteCharsxp => Keeps
<1>1. {"nil", "leaf", "vec", "expr", "s4", "list", "lang", "clo", "prom", "chars"} \cap RTracked = {}
  BY DEF RTracked, SymbolKinds, EnvKinds
<1>2. WriteNull => Keeps BY <1>1, PlainKeeps DEF WriteNull
<1>3. WriteVector => Keeps BY <1>1, PlainKeeps DEF WriteVector
<1>4. WriteList => Keeps BY <1>1, PlainKeeps DEF WriteList
<1>5. WriteS4Object => Keeps BY <1>1, PlainKeeps DEF WriteS4Object
<1>6. WritePairlist => Keeps BY <1>1, PlainKeeps DEF WritePairlist
<1>7. WriteCell => Keeps BY <1>1, PlainKeeps DEF WriteCell
<1>8. WriteLanguage => Keeps BY <1>1, PlainKeeps DEF WriteLanguage
<1>9. WriteClosure => Keeps BY <1>1, PlainKeeps DEF WriteClosure
<1>10. WritePromise => Keeps BY <1>1, PlainKeeps DEF WritePromise
<1>11. WriteCharsxp => Keeps BY <1>1, PlainKeeps DEF WriteCharsxp
<1> QED BY <1>2, <1>3, <1>4, <1>5, <1>6, <1>7, <1>8, <1>9, <1>10, <1>11

LEMMA NumberedInit == Init => Numbered
<1> SUFFICES ASSUME Init PROVE Numbered
  OBVIOUS
<1>1. /\ heap = <<>> /\ named = <<>> /\ wtable = <<>> /\ last.ref = 0
      /\ refs = [next |-> 1, object |-> [h \in Handles |-> 0],
                 namespace |-> [k \in NameEnvs \X EnvNames |-> 0]]
      /\ syms = [pointer |-> [h \in Handles |-> 0], value |-> [n \in Names |-> 0]]
  BY DEF Init, RInit, FirstIndex, NoRef
<1>2. Typed BY <1>1 DEF Typed, RefType, SymType, HeapType
<1>3. CountAgrees BY <1>1 DEF CountAgrees
<1>4. ObjectsAgree /\ PointersAgree BY <1>1 DEF ObjectsAgree, PointersAgree
<1>5. NamespacesAgree /\ NamespacesKept BY <1>1 DEF NamespacesAgree, NamespacesKept
<1>6. ValuesAgree BY <1>1 DEF ValuesAgree
<1>7. TablesComplete /\ HeapKept /\ WrittenOnce BY <1>1 DEF TablesComplete, HeapKept, WrittenOnce
<1>8. RefsMeanWhatWasWritten BY <1>1 DEF RefsMeanWhatWasWritten
<1> QED BY <1>2, <1>3, <1>4, <1>5, <1>6, <1>7, <1>8 DEF Numbered

LEMMA NumberedStep == Numbered /\ CountsAlike /\ [Next]_vars => Numbered'
<1> SUFFICES ASSUME Numbered, CountsAlike, [Next]_vars PROVE Numbered'
  OBVIOUS
<1>1. CASE WriteNull \/ WriteVector \/ WriteList \/ WriteS4Object \/ WritePairlist
             \/ WriteCell \/ WriteLanguage \/ WriteClosure \/ WritePromise \/ WriteCharsxp
  BY <1>1, PlainActions, KeepsNumbered
<1>2. CASE WriteSymbol BY <1>2, SymbolKeeps
<1>3. CASE WriteEnvironment BY <1>3, EnvironmentKeeps
<1>4. CASE WriteNamespace BY <1>4, NamespaceKeeps
<1>5. CASE WriteReference BY <1>5, ReferenceKeeps
<1>6. CASE Refuse
  <2>1. Keeps BY <1>6 DEF Refuse, Keeps, rvars
  <2> QED BY <2>1, KeepsNumbered
<1>7. CASE Finish
  <2>1. Keeps BY <1>7 DEF Finish, Keeps, rvars
  <2> QED BY <2>1, KeepsNumbered
<1>8. CASE Terminated \/ UNCHANGED vars
  <2>1. Keeps BY <1>8 DEF Terminated, Keeps, vars, wvars, rvars
  <2> QED BY <2>1, KeepsNumbered
<1> QED BY <1>1, <1>2, <1>3, <1>4, <1>5, <1>6, <1>7, <1>8 DEF Next

LEMMA NumberedAlways == CountsAlike => (Spec => []Numbered)
<1> SUFFICES ASSUME CountsAlike PROVE Spec => []Numbered
  OBVIOUS
<1>1. Init => Numbered BY NumberedInit
<1>2. Numbered /\ [Next]_vars => Numbered' BY NumberedStep
<1> QED BY <1>1, <1>2, PTL DEF Spec

(* The writer's next index is the reader's, and every entry of its tables   *)
(* is the reader's number of what the entry is for: the three places that   *)
(* advance next_index (writer.rs:170, 323, 1082) never disagree.            *)
THEOREM WriterCountsLikeReader == CountsAlike => (Spec => []NumbersAgree)
<1> SUFFICES ASSUME CountsAlike PROVE Spec => []NumbersAgree
  OBVIOUS
<1>1. Spec => []Numbered BY NumberedAlways
<1>2. Numbered => NumbersAgree
  BY DEF Numbered, NumbersAgree, CountAgrees, ObjectsAgree, NamespacesAgree,
         PointersAgree, ValuesAgree
<1> QED BY <1>1, <1>2, PTL

(* A REFSXP that write_refsxp emits stands for the object a reader has      *)
(* under that number.                                                       *)
THEOREM ReferencesAreRight == CountsAlike => (Spec => []RefsMeanWhatWasWritten)
<1> SUFFICES ASSUME CountsAlike PROVE Spec => []RefsMeanWhatWasWritten
  OBVIOUS
<1>1. Spec => []Numbered BY NumberedAlways
<1>2. Numbered => RefsMeanWhatWasWritten BY DEF Numbered
<1> QED BY <1>1, <1>2, PTL

(* No symbol, environment, namespace or package is written a second time,   *)
(* by whatever key write_object_inner came to it.                           *)
THEOREM SharingSurvives == CountsAlike => (Spec => []WrittenOnce)
<1> SUFFICES ASSUME CountsAlike PROVE Spec => []WrittenOnce
  OBVIOUS
<1>1. Spec => []Numbered BY NumberedAlways
<1>2. Numbered => WrittenOnce BY DEF Numbered
<1> QED BY <1>1, <1>2, PTL
----------------------------------------------------------------------------
(* The stream.  Each write that is still to be made has a role in what the  *)
(* format expects, and the two rows are equally long.                       *)
NoEmptyForms == Shapes \cap {"emptyPairlist", "emptyAttributes"} = {}

RolesOf(slot) ==
  CASE slot \in AnyValue                             -> {"item"}
    [] slot \in {"pairs", "cells", "args", "moreattrs"} -> {"cdr"}
    [] slot \in {"tag", "name"}                      -> {"tag"}
    [] slot = "attrs" -> IF "attributedEnv" \in Shapes THEN {"cell", "attrib"} ELSE {"cell"}
    [] slot = "nil"                                  -> {"attrib"}
    [] OTHER                                         -> {slot}

Agree(s, w) == /\ s \in Seq(Slots) /\ w \in Seq(Roles) /\ Len(s) = Len(w)
               /\ \A j \in 1..Len(s) : w[j] \in RolesOf(s[j])

Matching == result # "error" => Agree(todo, wtodo)

LEMMA AgreeNone == Agree(<<>>, <<>>)
BY DEF Agree

LEMMA AgreeOne ==
  ASSUME NEW s \in Slots, NEW w \in Roles, w \in RolesOf(s)
  PROVE  Agree(<<s>>, <<w>>)
BY DEF Agree

LEMMA AgreeBoth ==
  ASSUME NEW s, NEW w, NEW t, NEW v, Agree(s, w), Agree(t, v)
  PROVE  Agree(s \o t, w \o v)
<1>1. /\ s \in Seq(Slots) /\ t \in Seq(Slots) /\ w \in Seq(Roles) /\ v \in Seq(Roles)
      /\ Len(s) = Len(w) /\ Len(t) = Len(v) /\ Len(s) \in Nat /\ Len(t) \in Nat
  BY DEF Agree
<1>2. /\ s \o t \in Seq(Slots) /\ w \o v \in Seq(Roles)
      /\ Len(s \o t) = Len(s) + Len(t) /\ Len(w \o v) = Len(s) + Len(t)
      /\ \A j \in 1..Len(s) + Len(t) :
           /\ (s \o t)[j] = IF j <= Len(s) THEN s[j] ELSE t[j - Len(s)]
           /\ (w \o v)[j] = IF j <= Len(s) THEN w[j] ELSE v[j - Len(s)]
  <2>1. /\ s \o t \in Seq(Slots) /\ Len(s \o t) = Len(s) + Len(t)
        /\ \A j \in 1..Len(s) + Len(t) : (s \o t)[j] = IF j <= Len(s) THEN s[j] ELSE t[j - Len(s)]
    BY <1>1, ConcatProperties
  <2>2. /\ w \o v \in Seq(Roles) /\ Len(w \o v) = Len(w) + Len(v)
        /\ \A j \in 1..Len(w) + Len(v) : (w \o v)[j] = IF j <= Len(w) THEN w[j] ELSE v[j - Len(w)]
    BY <1>1, ConcatProperties
  <2> QED BY <1>1, <2>1, <2>2
<1>3. ASSUME NEW j \in 1..Len(s) + Len(t) PROVE (w \o v)[j] \in RolesOf((s \o t)[j])
  <2>1. CASE j <= Len(s)
    <3>1. j \in 1..Len(s)
      BY <2>1
    <3>2. w[j] \in RolesOf(s[j])
      BY <3>1 DEF Agree
    <3> QED BY <1>2, <2>1, <3>2
  <2>2. CASE ~(j <= Len(s))
    <3>1. j - Len(s) \in 1..Len(t)
      BY <1>1, <2>2
    <3>2. v[j - Len(s)] \in RolesOf(t[j - Len(s)])
      BY <3>1 DEF Agree
    <3> QED BY <1>2, <2>2, <3>2
  <2> QED BY <2>1, <2>2
<1> QED BY <1>2, <1>3 DEF Agree

LEMMA AgreeAll ==
  ASSUME NEW s, NEW w, NEW t, NEW v, NEW u, NEW x, Agree(s, w), Agree(t, v), Agree(u, x)
  PROVE  Agree(s \o t \o u, w \o v \o x)
BY AgreeBoth

LEMMA AgreeRun ==
  ASSUME NEW n \in Nat
  PROVE  Agree([j \in 1..n |-> "value"], [j \in 1..n |-> "item"])
<1>1. "value" \in Slots /\ "item" \in Roles /\ "item" \in RolesOf("value")
  BY DEF Slots, AnyValue, Symbolic, Valued, Cells, Roles, RolesOf
<1>2. /\ [j \in 1..n |-> "value"] \in Seq(Slots) /\ Len([j \in 1..n |-> "value"]) = n
      /\ [j \in 1..n |-> "item"] \in Seq(Roles) /\ Len([j \in 1..n |-> "item"]) = n
  BY <1>1
<1> QED BY <1>1, <1>2 DEF Agree

LEMMA AgreeTail ==
  ASSUME NEW s, NEW w, Agree(s, w), s # <<>>
  PROVE  /\ w # <<>> /\ Head(s) \in Slots /\ Head(w) \in RolesOf(Head(s)) /\ Head(w) \in Roles
         /\ Agree(Tail(s), Tail(w))
<1>1. s \in Seq(Slots) /\ w \in Seq(Roles) /\ Len(s) = Len(w) /\ Len(s) \in Nat /\ Len(s) > 0
  BY DEF Agree
<1>2. w # <<>>
  BY <1>1
<1>3. /\ Head(s) = s[1] /\ Head(w) = w[1] /\ Tail(s) \in Seq(Slots) /\ Tail(w) \in Seq(Roles)
      /\ Len(Tail(s)) = Len(s) - 1 /\ Len(Tail(w)) = Len(s) - 1
      /\ \A j \in 1..Len(s) - 1 : Tail(s)[j] = s[j + 1] /\ Tail(w)[j] = w[j + 1]
  BY <1>1, <1>2, HeadTailProperties
<1>4. 1 \in 1..Len(s) /\ \A j \in 1..Len(s) - 1 : j + 1 \in 1..Len(s)
  BY <1>1
<1>5. \A j \in 1..Len(s) : w[j] \in RolesOf(s[j])
  BY DEF Agree
<1>6. s[1] \in Slots /\ w[1] \in Roles
  BY <1>1, <1>4
<1> QED BY <1>1, <1>2, <1>3, <1>4, <1>5, <1>6 DEF Agree

(* The parts of an item with attributes, which come first or last.          *)
LEMMA PartsAgree ==
  ASSUME NEW i, NEW a \in {"no", "some"}, i.attr <=> a # "no",
         NEW body, Agree(body, Contents(i))
  PROVE  /\ i.type \in AttrFirst => Agree(AttrsFirst(a) \o body, Parts(i))
         /\ i.type \notin AttrFirst => Agree(body \o AttrsLast(a), Parts(i))
<1>1. "attrs" \in Slots /\ "cell" \in Roles /\ "cell" \in RolesOf("attrs")
  BY DEF Slots, AnyValue, Symbolic, Valued, Cells, Roles, RolesOf
<1>2. Agree(<<"attrs">>, <<"cell">>) /\ Agree(<<>>, <<>>)
  BY <1>1, AgreeOne, AgreeNone
<1>3. body \in Seq(Slots) /\ Contents(i) \in Seq(Roles)
  BY DEF Agree
<1>4. CASE i.type \in AttrFirst
  <2>1. Agree(AttrsFirst(a), AttrsBefore(i))
    BY <1>2, <1>4 DEF AttrsFirst, AttrsBefore
  <2>2. AttrsAfter(i) = <<>>
    BY <1>4 DEF AttrsAfter
  <2>3. Agree(AttrsFirst(a) \o body, AttrsBefore(i) \o Contents(i))
    BY <2>1, AgreeBoth
  <2>4. AttrsBefore(i) \o Contents(i) = Parts(i)
    <3>1. AttrsBefore(i) \o Contents(i) \in Seq(Roles)
      BY <2>3 DEF Agree
    <3>2. (AttrsBefore(i) \o Contents(i)) \o <<>> = AttrsBefore(i) \o Contents(i)
      BY <3>1, ConcatEmptySeq
    <3> QED BY <2>2, <3>2 DEF Parts
  <2> QED BY <1>4, <2>3, <2>4
<1>5. CASE i.type \notin AttrFirst
  <2>1. Agree(AttrsLast(a), AttrsAfter(i))
    BY <1>2, <1>5 DEF AttrsLast, AttrsAfter
  <2>2. AttrsBefore(i) = <<>> /\ <<>> \o Contents(i) = Contents(i)
    BY <1>3, <1>5, ConcatEmptySeq DEF AttrsBefore
  <2>3. Agree(body \o AttrsLast(a), Contents(i) \o AttrsAfter(i))
    BY <2>1, AgreeBoth
  <2> QED BY <1>5, <2>2, <2>3 DEF Parts
<1> QED BY <1>4, <1>5

LEMMA EmitAgrees ==
  ASSUME NEW i, NEW parts, NEW entered, Matching, todo # <<>>,
         Emit(i, parts, entered), Agree(parts, Parts(i))
  PROVE  Matching'
<1>1. Agree(todo, wtodo) /\ result' = result /\ result = "writing"
  BY DEF Emit, Matching
<1>2. Agree(Tail(todo), Tail(wtodo))
  BY <1>1, AgreeTail
<1>3. todo' = parts \o Tail(todo) /\ wtodo' = Parts(i) \o Tail(wtodo)
  BY DEF Emit, Write
<1>4. Agree(parts \o Tail(todo), Parts(i) \o Tail(wtodo))
  BY <1>2, AgreeBoth
<1> QED BY <1>3, <1>4 DEF Matching

LEMMA Choices == NoEmptyForms => AttrChoices = {"no", "some"} /\ "emptyPairlist" \notin Shapes
BY DEF NoEmptyForms, AttrChoices

(* The rows a writer leaves behind.                                         *)
LEMMA Rows ==
  /\ Agree(<<"chars">>, <<"chars">>)
  /\ Agree(<<"env", "pairs", "value">>, <<"env", "cdr", "item">>)
  /\ Agree(<<"env">>, <<"env">>)
  /\ Agree(<<"value", "value">>, <<"item", "item">>)
  /\ Agree(<<"value", "cells">>, <<"item", "cdr">>)
  /\ Agree(<<"value", "moreattrs">>, <<"item", "cdr">>)
  /\ Agree(<<"arg", "args">>, <<"item", "cdr">>)
  /\ Agree(<<"fun", "args">>, <<"item", "cdr">>)
  /\ Agree(<<"tag">>, <<"tag">>)
  /\ Agree(<<"name">>, <<"tag">>)
  /\ Agree(<<"env", "pairs", "hash", "nil">>, <<"env", "cdr", "hash", "attrib">>)
  /\ "attributedEnv" \in Shapes => Agree(<<"env", "pairs", "hash", "attrs">>, <<"env", "cdr", "hash", "attrib">>)
<1>1. /\ {"chars", "env", "pairs", "value", "cells", "moreattrs", "arg", "args", "fun", "tag", "name",
          "hash", "nil", "attrs"} \subseteq Slots
      /\ {"chars", "env", "cdr", "item", "tag", "hash", "attrib"} \subseteq Roles
  BY DEF Slots, AnyValue, Symbolic, Valued, Cells, Roles
<1>2. /\ RolesOf("chars") = {"chars"} /\ RolesOf("env") = {"env"} /\ RolesOf("pairs") = {"cdr"}
      /\ RolesOf("value") = {"item"} /\ RolesOf("arg") = {"item"} /\ RolesOf("fun") = {"item"}
      /\ RolesOf("cells") = {"cdr"} /\ RolesOf("moreattrs") = {"cdr"} /\ RolesOf("args") = {"cdr"}
      /\ RolesOf("tag") = {"tag"} /\ RolesOf("name") = {"tag"} /\ RolesOf("hash") = {"hash"}
      /\ RolesOf("nil") = {"attrib"} /\ ("attributedEnv" \in Shapes => "attrib" \in RolesOf("attrs"))
  BY DEF RolesOf, AnyValue
<1>3. /\ Agree(<<"chars">>, <<"chars">>) /\ Agree(<<"env">>, <<"env">>) /\ Agree(<<"tag">>, <<"tag">>)
      /\ Agree(<<"name">>, <<"tag">>)
  BY <1>1, <1>2, AgreeOne
<1>4. /\ Agree(<<"value", "value">>, <<"item", "item">>)
      /\ Agree(<<"value", "cells">>, <<"item", "cdr">>)
      /\ Agree(<<"value", "moreattrs">>, <<"item", "cdr">>)
      /\ Agree(<<"arg", "args">>, <<"item", "cdr">>)
      /\ Agree(<<"fun", "args">>, <<"item", "cdr">>)
  BY <1>1, <1>2 DEF Agree
<1>5. Agree(<<"env", "pairs", "value">>, <<"env", "cdr", "item">>)
  BY <1>1, <1>2 DEF Agree
<1>6. /\ Agree(<<"env", "pairs", "hash", "nil">>, <<"env", "cdr", "hash", "attrib">>)
      /\ "attributedEnv" \in Shapes => Agree(<<"env", "pairs", "hash", "attrs">>, <<"env", "cdr", "hash", "attrib">>)
  BY <1>1, <1>2 DEF Agree
<1> QED BY <1>3, <1>4, <1>5, <1>6

(* The format has a place for whatever the writer writes, and numbers tags  *)
(* like everything else.                                                    *)
WriterKinds == {"leaf", "s4", "list", "lang", "clo", "prom", "sym"}
Writable    == CountsAlike /\ NoEmptyForms /\ WriterKinds \subseteq Kinds /\ ~OldTags

Lawful(i) == Writable => i \in NewItems(Head(wtodo)) \cup RefItems(Head(wtodo))
Follows   == Matching' /\ (Writable => RNext)

LEMMA EmitFollows ==
  ASSUME NEW i, NEW parts, NEW entered, Matching, todo # <<>>,
         Emit(i, parts, entered), Agree(parts, Parts(i)), Lawful(i)
  PROVE  Follows
<1>1. Matching'
  BY EmitAgrees
<1>2. Write(i) /\ wtodo # <<>>
  BY DEF Emit
<1> QED BY <1>1, <1>2 DEF Follows, Lawful, RNext

(* What may be written where.                                               *)
LEMMA Next1 ==
  ASSUME Matching, result = "writing", todo # <<>>
  PROVE  Head(wtodo) \in RolesOf(Slot) /\ Slot \in Slots /\ Head(wtodo) \in Roles
BY AgreeTail DEF Matching, Slot

LEMMA NewItem ==
  ASSUME NEW role, NEW i \in [type : AllKinds, attr : BOOLEAN, tag : BOOLEAN, id : Nat, n : Nat],
         i.type \in KindsOf(role), Closing => i.type \in ClosingKindsOf(role),
         i.attr \in AttrsOf(i.type, role), i.tag \in TagsOf(i.type, role), i.n \in LensOf(i.type),
         i.id = IF i.type \in RTracked THEN Len(wtable) + 1 ELSE 0, i.type # "rownames"
  PROVE  i \in NewItems(role)
<1>1. i.n \in Lens \cup {0}
  BY DEF LensOf
<1>2. i \in [type : IF Closing THEN ClosingKindsOf(role) ELSE KindsOf(role),
             attr : BOOLEAN, tag : BOOLEAN, id : {0, Len(wtable) + 1}, n : Lens \cup {0}]
  BY <1>1
<1> QED BY <1>2 DEF NewItems

LEMMA PlainFollows ==
  ASSUME NEW type \in {"nil", "leaf", "vec", "expr", "s4", "list", "lang", "clo", "prom", "chars"},
         NEW attr \in BOOLEAN, NEW tag \in BOOLEAN, NEW n \in Nat, NEW parts,
         Matching, todo # <<>>, Plain(type, attr, tag, n, parts),
         Agree(parts, Parts(Item(type, attr, tag, 0, n))),
         Writable => /\ type \in KindsOf(Head(wtodo))
                     /\ Closing => type \in ClosingKindsOf(Head(wtodo))
                     /\ attr \in AttrsOf(type, Head(wtodo))
                     /\ tag \in TagsOf(type, Head(wtodo)) /\ n \in LensOf(type)
  PROVE  Follows
<1> DEFINE i == Item(type, attr, tag, 0, n)
<1>1. type \in AllKinds /\ type \notin RTracked /\ type # "rownames"
  BY DEF AllKinds, RTracked, RAttributed, SymbolKinds, EnvKinds
<1>2. /\ i \in [type : AllKinds, attr : BOOLEAN, tag : BOOLEAN, id : Nat, n : Nat]
      /\ i.type = type /\ i.attr = attr /\ i.tag = tag /\ i.id = 0 /\ i.n = n
  BY <1>1 DEF Item
<1>3. Emit(i, parts, {}) /\ Agree(parts, Parts(i))
  BY DEF Plain
<1> HIDE DEF i
<1>4. Lawful(i)
  BY <1>1, <1>2, NewItem DEF Lawful
<1> QED BY <1>3, <1>4, EmitFollows

(* One writer after the other.                                              *)
LEMMA NullFollows == Matching /\ WriteNull => Follows
<1> SUFFICES ASSUME Matching, WriteNull PROVE Follows
  OBVIOUS
<1>1. /\ todo # <<>> /\ Slot \in Valued \cup {"nil", "cells", "args", "moreattrs"}
      /\ Plain("nil", FALSE, FALSE, 0, <<>>) /\ result = "writing"
  BY DEF WriteNull, Plain, Emit
<1>2. Head(wtodo) \in {"item", "env", "cdr", "hash", "attrib"}
  BY <1>1, Next1 DEF RolesOf, Valued, AnyValue
<1>3. /\ "nil" \in KindsOf(Head(wtodo)) /\ "nil" \in ClosingKindsOf(Head(wtodo))
  BY <1>2 DEF KindsOf, ClosingKindsOf
<1>4. FALSE \in AttrsOf("nil", Head(wtodo)) /\ FALSE \in TagsOf("nil", Head(wtodo)) /\ 0 \in LensOf("nil")
  BY <1>2 DEF AttrsOf, TagsOf, LensOf, RAttributed, RTagged
<1>5. Parts(Item("nil", FALSE, FALSE, 0, 0)) = <<>>
  BY DEF Parts, AttrsBefore, AttrsAfter, Contents, Item, SymbolKinds
<1> QED BY <1>1, <1>3, <1>4, <1>5, AgreeNone, PlainFollows

(* A value with attributes, and a value in the middle of the graph.         *)
LEMMA WithAttributes ==
  ASSUME NEW type, NEW a \in {"no", "some"}, NEW tag, NEW n, NEW body,
         Agree(body, Contents(Item(type, a # "no", tag, 0, n)))
  PROVE  /\ type \in AttrFirst =>
              Agree(AttrsFirst(a) \o body, Parts(Item(type, a # "no", tag, 0, n)))
         /\ type \notin AttrFirst =>
              Agree(body \o AttrsLast(a), Parts(Item(type, a # "no", tag, 0, n)))
<1> DEFINE i == Item(type, a # "no", tag, 0, n)
<1>1. i.type = type /\ (i.attr <=> a # "no")
  BY DEF Item
<1>2. Agree(body, Contents(i))
  OBVIOUS
<1> HIDE DEF i
<1>3. /\ type \in AttrFirst => Agree(AttrsFirst(a) \o body, Parts(i))
      /\ type \notin AttrFirst => Agree(body \o AttrsLast(a), Parts(i))
  BY <1>1, <1>2, PartsAgree
<1> QED BY <1>3 DEF i

LEMMA InTheMiddle ==
  ASSUME Matching, Grows, result = "writing", Slot \in AnyValue
  PROVE  /\ todo # <<>> /\ ~Closing /\ Head(wtodo) = "item"
         /\ KindsOf(Head(wtodo)) = Kinds \cup {"nil"}
         /\ \A k \in RAttributed : AttrsOf(k, Head(wtodo)) = BOOLEAN
         /\ \A k \in RTagged : k # "clo" => TagsOf(k, Head(wtodo)) = BOOLEAN
         /\ \A k : k # "clo" /\ k \notin RTagged => TagsOf(k, Head(wtodo)) = {FALSE}
<1>1. todo # <<>> /\ ~Closing
  BY DEF Grows
<1>2. Head(wtodo) = "item"
  BY <1>1, Next1 DEF RolesOf, AnyValue
<1> QED BY <1>1, <1>2 DEF KindsOf, AttrsOf, TagsOf

LEMMA VectorFollows == Matching /\ NoEmptyForms /\ WriteVector => Follows
<1> SUFFICES ASSUME Matching, NoEmptyForms, WriteVector PROVE Follows
  OBVIOUS
<1>1. PICK a \in {"no", "some"} : Plain("leaf", a # "no", FALSE, 0, AttrsLast(a))
  BY Choices DEF WriteVector
<1>2. Grows /\ Slot \in AnyValue /\ result = "writing"
  BY <1>1 DEF WriteVector, Plain, Emit
<1>3. Agree(AttrsLast(a), Parts(Item("leaf", a # "no", FALSE, 0, 0)))
  <2>1. Contents(Item("leaf", a # "no", FALSE, 0, 0)) = <<>>
    BY DEF Contents, Item, SymbolKinds
  <2>2. Agree(<<>> \o AttrsLast(a), Parts(Item("leaf", a # "no", FALSE, 0, 0)))
    BY <2>1, AgreeNone, WithAttributes DEF AttrFirst
  <2>3. <<>> \o AttrsLast(a) = AttrsLast(a)
    BY DEF AttrsLast
  <2> QED BY <2>2, <2>3
<1>4. (a # "no") \in BOOLEAN
  OBVIOUS
<1>5. Writable => "leaf" \in KindsOf(Head(wtodo))
  BY <1>2, InTheMiddle DEF Writable, WriterKinds
<1>6. /\ todo # <<>> /\ ~Closing /\ (a # "no") \in AttrsOf("leaf", Head(wtodo))
      /\ FALSE \in TagsOf("leaf", Head(wtodo)) /\ 0 \in LensOf("leaf")
  BY <1>2, <1>4, InTheMiddle DEF RAttributed, RTagged, LensOf
<1> QED BY <1>1, <1>3, <1>4, <1>5, <1>6, PlainFollows

LEMMA S4Follows == Matching /\ WriteS4Object => Follows
<1> SUFFICES ASSUME Matching, WriteS4Object PROVE Follows
  OBVIOUS
<1>1. Plain("s4", TRUE, FALSE, 0, <<"attrs">>) /\ Grows /\ Slot \in AnyValue /\ result = "writing"
  BY DEF WriteS4Object, Plain, Emit
<1>2. Agree(<<"attrs">>, Parts(Item("s4", TRUE, FALSE, 0, 0)))
  <2>1. Parts(Item("s4", TRUE, FALSE, 0, 0)) = <<"cell">>
    BY DEF Parts, AttrsBefore, AttrsAfter, Contents, Item, SymbolKinds, AttrFirst
  <2>2. "attrs" \in Slots /\ "cell" \in Roles /\ "cell" \in RolesOf("attrs")
    BY DEF Slots, AnyValue, Symbolic, Valued, Cells, Roles, RolesOf
  <2> QED BY <2>1, <2>2, AgreeOne
<1>3. Writable => "s4" \in KindsOf(Head(wtodo))
  BY <1>1, InTheMiddle DEF Writable, WriterKinds
<1>4. /\ todo # <<>> /\ ~Closing /\ TRUE \in AttrsOf("s4", Head(wtodo))
      /\ FALSE \in TagsOf("s4", Head(wtodo)) /\ 0 \in LensOf("s4")
  BY <1>1, InTheMiddle DEF RAttributed, RTagged, LensOf
<1> QED BY <1>1, <1>2, <1>3, <1>4, PlainFollows

LEMMA LanguageFollows == Matching /\ NoEmptyForms /\ WriteLanguage => Follows
<1> SUFFICES ASSUME Matching, NoEmptyForms, WriteLanguage PROVE Follows
  OBVIOUS
<1>1. PICK a \in {"no", "some"} : Plain("lang", a # "no", FALSE, 0, AttrsFirst(a) \o <<"fun", "args">>)
  BY Choices DEF WriteLanguage
<1>2. Grows /\ Slot \in AnyValue /\ result = "writing"
  BY <1>1 DEF WriteLanguage, Plain, Emit
<1>3. Agree(AttrsFirst(a) \o <<"fun", "args">>, Parts(Item("lang", a # "no", FALSE, 0, 0)))
  <2>1. Contents(Item("lang", a # "no", FALSE, 0, 0)) = <<"item", "cdr">>
    BY DEF Contents, Item, SymbolKinds, IfTagged
  <2> QED BY <2>1, Rows, WithAttributes DEF AttrFirst
<1>4. (a # "no") \in BOOLEAN
  OBVIOUS
<1>5. Writable => "lang" \in KindsOf(Head(wtodo))
  BY <1>2, InTheMiddle DEF Writable, WriterKinds
<1>6. /\ todo # <<>> /\ ~Closing /\ (a # "no") \in AttrsOf("lang", Head(wtodo))
      /\ FALSE \in TagsOf("lang", Head(wtodo)) /\ 0 \in LensOf("lang")
  BY <1>2, <1>4, InTheMiddle DEF RAttributed, RTagged, LensOf
<1> QED BY <1>1, <1>3, <1>4, <1>5, <1>6, PlainFollows

LEMMA ClosureFollows == Matching /\ NoEmptyForms /\ WriteClosure => Follows
<1> SUFFICES ASSUME Matching, NoEmptyForms, WriteClosure PROVE Follows
  OBVIOUS
<1>1. PICK a \in {"no", "some"} : Plain("clo", a # "no", TRUE, 0, AttrsFirst(a) \o ClosureParts)
  BY Choices DEF WriteClosure
<1>2. Grows /\ Slot \in AnyValue /\ result = "writing"
  BY <1>1 DEF WriteClosure, Plain, Emit
<1>3. Agree(AttrsFirst(a) \o ClosureParts, Parts(Item("clo", a # "no", TRUE, 0, 0)))
  <2>1. Contents(Item("clo", a # "no", TRUE, 0, 0)) = <<"env", "cdr", "item">>
    BY DEF Contents, Item, SymbolKinds
  <2>2. Agree(ClosureParts, Contents(Item("clo", a # "no", TRUE, 0, 0)))
    BY <2>1, Rows DEF ClosureParts
  <2> QED BY <2>2, WithAttributes DEF AttrFirst
<1>4. (a # "no") \in BOOLEAN
  OBVIOUS
<1>5. Writable => "clo" \in KindsOf(Head(wtodo))
  BY <1>2, InTheMiddle DEF Writable, WriterKinds
<1>6. /\ todo # <<>> /\ ~Closing /\ (a # "no") \in AttrsOf("clo", Head(wtodo))
      /\ TRUE \in TagsOf("clo", Head(wtodo)) /\ 0 \in LensOf("clo")
  BY <1>2, <1>4, InTheMiddle DEF RAttributed, TagsOf, LensOf
<1> QED BY <1>1, <1>3, <1>4, <1>5, <1>6, PlainFollows

LEMMA PromiseFollows == Matching /\ NoEmptyForms /\ WritePromise => Follows
<1> SUFFICES ASSUME Matching, NoEmptyForms, WritePromise PROVE Follows
  OBVIOUS
<1>1. PICK a \in {"no", "some"}, env \in BOOLEAN :
        Plain("prom", a # "no", env, 0,
              AttrsFirst(a) \o (IF env THEN <<"env">> ELSE <<>>) \o <<"value", "value">>)
  BY Choices DEF WritePromise
<1> DEFINE body == (IF env THEN <<"env">> ELSE <<>>) \o <<"value", "value">>
<1>2. Grows /\ Slot \in AnyValue /\ result = "writing"
  BY <1>1 DEF WritePromise, Plain, Emit
<1>3. Agree(body, Contents(Item("prom", a # "no", env, 0, 0)))
  <2>1. Contents(Item("prom", a # "no", env, 0, 0)) = (IF env THEN <<"env">> ELSE <<>>) \o <<"item", "item">>
    BY DEF Contents, Item, SymbolKinds, IfTagged
  <2>2. Agree(IF env THEN <<"env">> ELSE <<>>, IF env THEN <<"env">> ELSE <<>>)
    BY Rows, AgreeNone
  <2>3. Agree(<<"value", "value">>, <<"item", "item">>)
    BY Rows
  <2> QED BY <2>1, <2>2, <2>3, AgreeBoth
<1>4. Agree(AttrsFirst(a) \o body, Parts(Item("prom", a # "no", env, 0, 0)))
  <2> HIDE DEF body
  <2> QED BY <1>3, WithAttributes DEF AttrFirst
<1>5. AttrsFirst(a) \o body = AttrsFirst(a) \o (IF env THEN <<"env">> ELSE <<>>) \o <<"value", "value">>
  <2>1. /\ AttrsFirst(a) \in Seq(Slots) /\ <<"env">> \in Seq(Slots) /\ <<>> \in Seq(Slots)
        /\ <<"value", "value">> \in Seq(Slots)
    <3>1. {"attrs", "env", "value"} \subseteq Slots
      BY DEF Slots, AnyValue, Symbolic, Valued, Cells
    <3>2. AttrsFirst(a) = <<>> \/ AttrsFirst(a) = <<"attrs">>
      BY DEF AttrsFirst
    <3>3. <<"attrs">> \in Seq(Slots) /\ <<"env">> \in Seq(Slots) /\ <<>> \in Seq(Slots)
      BY <3>1
    <3>4. <<"value", "value">> \in Seq(Slots)
      BY <3>1
    <3> QED BY <3>2, <3>3, <3>4
  <2>2. (IF env THEN <<"env">> ELSE <<>>) \in Seq(Slots)
    BY <2>1
  <2> QED BY <2>1, <2>2, ConcatAssociative
<1>6. Plain("prom", a # "no", env, 0, AttrsFirst(a) \o body)
  BY <1>1, <1>5
<1> HIDE DEF body
<1>7. (a # "no") \in BOOLEAN
  OBVIOUS
<1>8. Writable => "prom" \in KindsOf(Head(wtodo))
  BY <1>2, InTheMiddle DEF Writable, WriterKinds
<1>9. /\ todo # <<>> /\ ~Closing /\ (a # "no") \in AttrsOf("prom", Head(wtodo))
      /\ env \in TagsOf("prom", Head(wtodo)) /\ 0 \in LensOf("prom")
  BY <1>2, <1>7, InTheMiddle DEF RAttributed, RTagged, LensOf
<1> QED BY <1>4, <1>6, <1>7, <1>8, <1>9, PlainFollows

LEMMA PairlistFollows == Matching /\ NoEmptyForms /\ WritePairlist => Follows
<1> SUFFICES ASSUME Matching, NoEmptyForms, WritePairlist PROVE Follows
  OBVIOUS
<1>1. PICK a \in {"no", "some"}, tag \in BOOLEAN :
        /\ Slot = "pairs" => a = "no"
        /\ Plain("list", a # "no", tag, 0,
                 AttrsFirst(a) \o ((IF tag THEN <<"tag">> ELSE <<>>) \o <<"value", "cells">>))
  <2>1. PICK a \in {"no", "some"}, tag \in BOOLEAN, empty \in BOOLEAN :
          /\ Slot = "pairs" => a = "no"
          /\ empty => a # "no" /\ ~tag /\ "emptyPairlist" \in Shapes
          /\ Plain("list", a # "no", tag, 0,
                   AttrsFirst(a) \o (IF empty THEN <<"nil">>
                                     ELSE (IF tag THEN <<"tag">> ELSE <<>>) \o <<"value", "cells">>))
    BY Choices DEF WritePairlist
  <2>2. ~empty
    BY <2>1, Choices
  <2> QED BY <2>1, <2>2
<1> DEFINE body == (IF tag THEN <<"tag">> ELSE <<>>) \o <<"value", "cells">>
<1>2. Grows /\ Slot \in AnyValue \cup {"pairs"} /\ result = "writing"
  BY <1>1 DEF WritePairlist, Plain, Emit
<1>3. Agree(body, Contents(Item("list", a # "no", tag, 0, 0)))
  <2>1. Contents(Item("list", a # "no", tag, 0, 0)) = (IF tag THEN <<"tag">> ELSE <<>>) \o <<"item", "cdr">>
    BY DEF Contents, Item, SymbolKinds, IfTagged
  <2>2. Agree(IF tag THEN <<"tag">> ELSE <<>>, IF tag THEN <<"tag">> ELSE <<>>)
    BY Rows, AgreeNone
  <2>3. Agree(<<"value", "cells">>, <<"item", "cdr">>)
    BY Rows
  <2> QED BY <2>1, <2>2, <2>3, AgreeBoth
<1>4. Agree(AttrsFirst(a) \o body, Parts(Item("list", a # "no", tag, 0, 0)))
  <2> HIDE DEF body
  <2> QED BY <1>3, WithAttributes DEF AttrFirst
<1>5. Plain("list", a # "no", tag, 0, AttrsFirst(a) \o body)
  BY <1>1
<1> HIDE DEF body
<1>6. (a # "no") \in BOOLEAN /\ todo # <<>> /\ ~Closing
  BY <1>2 DEF Grows
<1>7. CASE Slot = "pairs"
  <2>1. Head(wtodo) = "cdr" /\ a = "no"
    BY <1>1, <1>2, <1>6, <1>7, Next1 DEF RolesOf, AnyValue
  <2>2. "list" \in KindsOf(Head(wtodo)) /\ (a # "no") \in AttrsOf("list", Head(wtodo))
    BY <2>1 DEF KindsOf, AttrsOf
  <2>3. tag \in TagsOf("list", Head(wtodo)) /\ 0 \in LensOf("list")
    BY <1>6, <2>1 DEF TagsOf, LensOf, RTagged
  <2> QED BY <1>4, <1>5, <1>6, <2>2, <2>3, PlainFollows
<1>8. CASE Slot \in AnyValue
  <2>1. Writable => "list" \in KindsOf(Head(wtodo))
    BY <1>2, <1>8, InTheMiddle DEF Writable, WriterKinds
  <2>2. /\ (a # "no") \in AttrsOf("list", Head(wtodo))
        /\ tag \in TagsOf("list", Head(wtodo)) /\ 0 \in LensOf("list")
    BY <1>2, <1>6, <1>8, InTheMiddle DEF RAttributed, RTagged, LensOf
  <2> QED BY <1>4, <1>5, <1>6, <2>1, <2>2, PlainFollows
<1> QED BY <1>2, <1>7, <1>8

LEMMA CellFollows == Matching /\ WriteCell => Follows
<1> SUFFICES ASSUME Matching, WriteCell PROVE Follows
  OBVIOUS
<1>1. todo # <<>> /\ Slot \in Cells /\ (Closing => Slot = "attrs")
  BY DEF WriteCell
<1>2. PICK tag \in BOOLEAN :
        /\ Slot \in Attributes => tag
        /\ Plain("list", FALSE, tag, 0,
                 (IF tag THEN CellTag(Slot) ELSE <<>>)
                   \o <<IF Slot = "args" THEN "arg" ELSE "value", RestOf(Slot)>>)
  BY DEF WriteCell
<1> DEFINE body == (IF tag THEN CellTag(Slot) ELSE <<>>)
                     \o <<IF Slot = "args" THEN "arg" ELSE "value", RestOf(Slot)>>
<1>3. result = "writing"
  BY <1>2 DEF Plain, Emit
<1>4. Agree(body, Contents(Item("list", FALSE, tag, 0, 0)))
  <2>1. Contents(Item("list", FALSE, tag, 0, 0)) = (IF tag THEN <<"tag">> ELSE <<>>) \o <<"item", "cdr">>
    BY DEF Contents, Item, SymbolKinds, IfTagged
  <2>2. Agree(IF tag THEN CellTag(Slot) ELSE <<>>, IF tag THEN <<"tag">> ELSE <<>>)
    BY Rows, AgreeNone DEF CellTag
  <2>3. Agree(<<IF Slot = "args" THEN "arg" ELSE "value", RestOf(Slot)>>, <<"item", "cdr">>)
    BY <1>1, Rows DEF RestOf, Attributes, Cells
  <2> QED BY <2>1, <2>2, <2>3, AgreeBoth
<1>5. Parts(Item("list", FALSE, tag, 0, 0)) = Contents(Item("list", FALSE, tag, 0, 0))
  <2>1. Contents(Item("list", FALSE, tag, 0, 0)) \in Seq(Roles)
    BY <1>4 DEF Agree
  <2>2. AttrsBefore(Item("list", FALSE, tag, 0, 0)) = <<>> /\ AttrsAfter(Item("list", FALSE, tag, 0, 0)) = <<>>
    BY DEF AttrsBefore, AttrsAfter, Item
  <2> QED BY <2>1, <2>2, ConcatEmptySeq DEF Parts
<1>6. Plain("list", FALSE, tag, 0, body)
  BY <1>2
<1> HIDE DEF body
<1>7. Writable => Head(wtodo) \in {"cell", "cdr"} /\ (Head(wtodo) = "cell" => tag) /\ (Closing => Head(wtodo) = "cell")
  BY <1>1, <1>2, <1>3, Next1 DEF RolesOf, AnyValue, Cells, Attributes, Writable, CountsAlike, Burning
<1>8. Writable => /\ "list" \in KindsOf(Head(wtodo)) /\ (Closing => "list" \in ClosingKindsOf(Head(wtodo)))
                  /\ FALSE \in AttrsOf("list", Head(wtodo)) /\ tag \in TagsOf("list", Head(wtodo))
  BY <1>7 DEF KindsOf, ClosingKindsOf, AttrsOf, TagsOf, RTagged
<1>9. 0 \in LensOf("list")
  BY DEF LensOf
<1> QED BY <1>1, <1>4, <1>5, <1>6, <1>8, <1>9, PlainFollows

LEMMA ListFollows == Matching /\ NoEmptyForms /\ WriteList => Follows
<1> SUFFICES ASSUME Matching, NoEmptyForms, WriteList PROVE Follows
  OBVIOUS
<1>1. PICK k \in Kinds \cap {"vec", "expr"}, n \in Lens, a \in {"no", "some"} :
        /\ Slot = "hash" => k = "vec" /\ a = "no"
        /\ Plain(k, a # "no", FALSE, n, [j \in 1..n |-> "value"] \o AttrsLast(a))
  BY Choices DEF WriteList
<1>2. Grows /\ Slot \in AnyValue \cup {"hash"} /\ result = "writing"
  BY <1>1 DEF WriteList, Plain, Emit
<1>3. n \in Nat /\ n \in LensOf(k)
  BY <1>1, StreamAssumption DEF LensOf
<1>4. Agree([j \in 1..n |-> "value"] \o AttrsLast(a), Parts(Item(k, a # "no", FALSE, 0, n)))
  <2>1. Contents(Item(k, a # "no", FALSE, 0, n)) = [j \in 1..n |-> "item"]
    BY <1>1 DEF Contents, Item, SymbolKinds
  <2>2. Agree([j \in 1..n |-> "value"], Contents(Item(k, a # "no", FALSE, 0, n)))
    BY <1>3, <2>1, AgreeRun
  <2>3. k \notin AttrFirst
    BY <1>1 DEF AttrFirst
  <2> QED BY <2>2, <2>3, WithAttributes
<1>5. (a # "no") \in BOOLEAN /\ todo # <<>> /\ ~Closing
  BY <1>2 DEF Grows
<1>6. CASE Slot = "hash"
  <2>1. Head(wtodo) = "hash" /\ a = "no" /\ k = "vec"
    BY <1>1, <1>2, <1>5, <1>6, Next1 DEF RolesOf, AnyValue
  <2>2. k \in KindsOf(Head(wtodo)) /\ (a # "no") \in AttrsOf(k, Head(wtodo))
        /\ FALSE \in TagsOf(k, Head(wtodo))
    BY <1>1, <1>5, <2>1 DEF KindsOf, AttrsOf, TagsOf, RTagged, RAttributed
  <2> QED BY <1>1, <1>3, <1>4, <1>5, <2>2, PlainFollows
<1>7. CASE Slot \in AnyValue
  <2>1. /\ k \in KindsOf(Head(wtodo)) /\ (a # "no") \in AttrsOf(k, Head(wtodo))
        /\ FALSE \in TagsOf(k, Head(wtodo))
    BY <1>1, <1>2, <1>5, <1>7, InTheMiddle DEF RAttributed, RTagged
  <2> QED BY <1>1, <1>3, <1>4, <1>5, <2>1, PlainFollows
<1> QED BY <1>2, <1>6, <1>7

LEMMA CharsFollow == Matching /\ WriteCharsxp => Follows
<1> SUFFICES ASSUME Matching, WriteCharsxp PROVE Follows
  OBVIOUS
<1>1. Plain("chars", FALSE, FALSE, 0, <<>>) /\ todo # <<>> /\ Slot = "chars" /\ result = "writing"
  BY DEF WriteCharsxp, Plain, Emit
<1>2. Head(wtodo) = "chars"
  BY <1>1, Next1 DEF RolesOf, AnyValue
<1>3. /\ "chars" \in KindsOf(Head(wtodo)) /\ "chars" \in ClosingKindsOf(Head(wtodo))
      /\ FALSE \in AttrsOf("chars", Head(wtodo)) /\ FALSE \in TagsOf("chars", Head(wtodo))
      /\ 0 \in LensOf("chars")
  BY <1>2 DEF KindsOf, ClosingKindsOf, AttrsOf, TagsOf, LensOf, RAttributed, RTagged
<1>4. Parts(Item("chars", FALSE, FALSE, 0, 0)) = <<>>
  BY DEF Parts, AttrsBefore, AttrsAfter, Contents, Item, SymbolKinds
<1> QED BY <1>1, <1>3, <1>4, AgreeNone, PlainFollows

(* Symbols, environments and references.  What the reader has numbered is   *)
(* of the kind the writer thinks, so that a reference may stand where the   *)
(* object could.                                                            *)
KindsNamed == \A i \in 1..Len(wtable) : wtable[i] = named[i][1] /\ wtable[i] \in Kinds
Sure       == Writable => Numbered /\ KindsNamed

LEMMA DefineFollows ==
  ASSUME NEW type \in {"sym", "env"} \cup NameEnvs, NEW id, NEW parts, NEW entered,
         Matching, Sure, todo # <<>>, Defines(type, id, parts, entered),
         Agree(parts, Contents(Item(type, FALSE, FALSE, Len(wtable) + 1, 0))),
         Writable => /\ type \in KindsOf(Head(wtodo))
                     /\ Closing => type \in ClosingKindsOf(Head(wtodo))
  PROVE  Follows
<1> DEFINE i == Item(type, FALSE, FALSE, Len(wtable) + 1, 0)
<1>1. type \in AllKinds /\ type \in RTracked /\ type # "rownames" /\ type \notin RAttributed
      /\ type \notin RTagged /\ type \notin {"vec", "expr"} /\ type # "clo"
  BY DEF AllKinds, RTracked, RAttributed, RTagged, SymbolKinds, EnvKinds, NameEnvs
<1>2. i.type = type /\ i.attr = FALSE /\ i.tag = FALSE /\ i.id = Len(wtable) + 1 /\ i.n = 0
  BY DEF Item
<1>3. Writable => Len(wtable) \in Nat
  BY DEF Sure, Numbered, Typed
<1>4. Writable => i \in [type : AllKinds, attr : BOOLEAN, tag : BOOLEAN, id : Nat, n : Nat]
  BY <1>1, <1>3 DEF Item
<1>5. Emit(i, parts, entered) /\ Agree(parts, Contents(i))
  BY DEF Defines
<1> HIDE DEF i
<1>6. Parts(i) = Contents(i)
  <2>1. Contents(i) \in Seq(Roles)
    BY <1>5 DEF Agree
  <2>2. AttrsBefore(i) = <<>> /\ AttrsAfter(i) = <<>>
    BY <1>2 DEF AttrsBefore, AttrsAfter
  <2> QED BY <2>1, <2>2, ConcatEmptySeq DEF Parts
<1>7. ASSUME Writable PROVE i \in NewItems(Head(wtodo))
  <2>1. Head(wtodo) \in Roles /\ result = "writing"
    BY <1>5, Next1 DEF Emit
  <2>2. Head(wtodo) # "cell"
    BY <1>1, <1>7 DEF KindsOf, NameEnvs
  <2>3. i.attr \in AttrsOf(i.type, Head(wtodo)) /\ i.tag \in TagsOf(i.type, Head(wtodo)) /\ i.n \in LensOf(i.type)
    BY <1>1, <1>2, <2>2 DEF AttrsOf, TagsOf, LensOf
  <2> QED BY <1>1, <1>2, <1>4, <1>7, <2>3, NewItem
<1>8. Lawful(i)
  BY <1>7 DEF Lawful
<1> QED BY <1>5, <1>6, <1>8, EmitFollows

LEMMA RefFollows ==
  ASSUME NEW idx, NEW id, Matching, Sure, todo # <<>>, WriteRefsxp(idx, id),
         Writable => idx \in DOMAIN named /\ named[idx] = id /\ id[1] \in KindsOf(Head(wtodo))
  PROVE  Follows
<1> DEFINE i == Item("ref", FALSE, FALSE, idx, 0)
<1>1. Emit(i, <<>>, {})
  BY DEF WriteRefsxp
<1>2. Parts(i) = <<>>
  BY DEF Parts, AttrsBefore, AttrsAfter, Contents, Item, SymbolKinds
<1>3. ASSUME Writable PROVE i \in RefItems(Head(wtodo))
  <2>1. idx \in 1..Len(wtable)
    BY <1>3 DEF Sure, Numbered, CountAgrees, Typed
  <2>2. wtable[idx] \in KindsOf(Head(wtodo))
    BY <1>3, <2>1 DEF Sure, KindsNamed
  <2>3. IndexOf(Head(wtodo), idx) = idx
    BY <1>3 DEF IndexOf, Writable
  <2> QED BY <2>1, <2>2, <2>3 DEF RefItems
<1>4. Lawful(i)
  BY <1>3 DEF Lawful
<1> HIDE DEF i
<1> QED BY <1>1, <1>2, <1>4, AgreeNone, EmitFollows

LEMMA SymbolFollows == Matching /\ Sure /\ WriteSymbol => Follows
<1> SUFFICES ASSUME Matching, Sure, WriteSymbol PROVE Follows
  OBVIOUS
<1>1. PICK name \in Names : \E ptr \in Pointers(name) :
        /\ heap' = IF ptr = 0 \/ Known(ptr) THEN heap
                   ELSE Append(heap, [kind |-> "sym", name |-> name])
        /\ WriteSymbolWithTracking(ptr, name)
  BY DEF WriteSymbol
<1>2. PICK ptr \in Pointers(name) :
        /\ heap' = IF ptr = 0 \/ Known(ptr) THEN heap
                   ELSE Append(heap, [kind |-> "sym", name |-> name])
        /\ WriteSymbolWithTracking(ptr, name)
  BY <1>1
<1>3. todo # <<>> /\ Slot \in Symbolic
  BY DEF WriteSymbol
<1>4. ASSUME result = "writing", Writable
      PROVE  /\ "sym" \in KindsOf(Head(wtodo))
             /\ Slot \in {"tag", "name"} => "sym" \in ClosingKindsOf(Head(wtodo))
  <2>1. CASE Slot \in AnyValue
    <3>1. Head(wtodo) = "item"
      BY <1>3, <1>4, <2>1, Next1 DEF RolesOf, AnyValue
    <3> QED BY <1>4, <2>1, <3>1 DEF KindsOf, Writable, WriterKinds, AnyValue
  <2>2. CASE Slot \in {"tag", "name"}
    <3>1. Head(wtodo) = "tag"
      BY <1>3, <1>4, <2>2, Next1 DEF RolesOf, AnyValue
    <3> QED BY <3>1 DEF KindsOf, ClosingKindsOf
  <2> QED BY <1>3, <2>1, <2>2 DEF Symbolic
<1>5. CASE Lookup(ptr, name) # 0
  <2>1. WriteRefsxp(Lookup(ptr, name), <<"sym", name>>) /\ result = "writing"
    BY <1>2, <1>5 DEF WriteSymbolWithTracking, WriteRefsxp, Emit
  <2>2. ASSUME Writable
        PROVE  Lookup(ptr, name) \in DOMAIN named /\ named[Lookup(ptr, name)] = <<"sym", name>>
    <3>1. Numbered /\ Typed /\ HeapKept
      BY <2>2 DEF Sure, Numbered
    <3>2. SymbolAt(ptr, name)
      BY <1>2, <3>1, SymbolGrows
    <3> QED BY <1>5, <3>1, <3>2, FoundSymbol
  <2> DEFINE id == <<"sym", name>>
  <2>3. id[1] = "sym"
    OBVIOUS
  <2> HIDE DEF id
  <2>4. /\ WriteRefsxp(Lookup(ptr, name), id)
        /\ Writable => Lookup(ptr, name) \in DOMAIN named /\ named[Lookup(ptr, name)] = id
    BY <2>1, <2>2 DEF id
  <2> QED BY <1>3, <1>4, <2>1, <2>3, <2>4, RefFollows
<1>6. CASE Lookup(ptr, name) = 0
  <2>1. /\ Defines("sym", <<"sym", name>>, <<"chars">>, {}) /\ result = "writing"
        /\ Closing => Slot \in {"tag", "name"}
    BY <1>2, <1>6 DEF WriteSymbolWithTracking, Defines, Emit
  <2>2. Contents(Item("sym", FALSE, FALSE, Len(wtable) + 1, 0)) = <<"chars">>
    BY DEF Contents, Item, SymbolKinds
  <2>3. Agree(<<"chars">>, <<"chars">>)
    BY Rows
  <2> QED BY <1>3, <1>4, <2>1, <2>2, <2>3, DefineFollows
<1> QED BY <1>5, <1>6

LEMMA EnvironmentFollows == Matching /\ Sure /\ WriteEnvironment => Follows
<1> SUFFICES ASSUME Matching, Sure, WriteEnvironment PROVE Follows
  OBVIOUS
<1>1. PICK attributed \in BOOLEAN :
        /\ attributed => "attributedEnv" \in Shapes
        /\ Defines("env", <<"env", Fresh>>,
                   EnvironmentParts(IF attributed THEN "attrs" ELSE "nil"), {Fresh})
  BY DEF WriteEnvironment
<1>2. Grows /\ todo # <<>> /\ ~Closing /\ Slot \in AnyValue \cup {"env"} /\ "env" \in Kinds /\ result = "writing"
  BY <1>1 DEF WriteEnvironment, Defines, Emit, Grows
<1>3. Head(wtodo) = "item" \/ Head(wtodo) = "env"
  BY <1>2, Next1 DEF RolesOf, AnyValue
<1>4. "env" \in KindsOf(Head(wtodo))
  BY <1>2, <1>3 DEF KindsOf, EnvKinds
<1>5. Contents(Item("env", FALSE, FALSE, Len(wtable) + 1, 0)) = <<"env", "cdr", "hash", "attrib">>
  BY DEF Contents, Item, SymbolKinds
<1>6. Agree(EnvironmentParts(IF attributed THEN "attrs" ELSE "nil"), <<"env", "cdr", "hash", "attrib">>)
  BY <1>1, Rows DEF EnvironmentParts
<1> QED BY <1>1, <1>2, <1>4, <1>5, <1>6, DefineFollows

LEMMA NamespaceFollows == Matching /\ Sure /\ WriteNamespace => Follows
<1> SUFFICES ASSUME Matching, Sure, WriteNamespace PROVE Follows
  OBVIOUS
<1>1. PICK kind \in Kinds \cap NameEnvs, name \in EnvNames, shared \in BOOLEAN :
        WriteStringVecEnv(kind, name, IF shared THEN 0 ELSE refs.next)
  BY DEF WriteNamespace
<1> DEFINE k == <<kind, name>>
<1>2. k \in NameEnvs \X EnvNames /\ k[1] = kind
  OBVIOUS
<1> HIDE DEF k
<1>3. \/ refs.namespace[k] # 0 /\ WriteRefsxp(refs.namespace[k], k)
      \/ Defines(kind, k, <<>>, {})
  BY <1>1 DEF WriteStringVecEnv, NamespaceKey, k
<1>4. todo # <<>> /\ ~Closing /\ Slot \in AnyValue \cup {"env"} /\ result = "writing"
  BY <1>3 DEF WriteNamespace, Grows, Defines, WriteRefsxp, Emit
<1>5. Head(wtodo) = "item" \/ Head(wtodo) = "env"
  BY <1>4, Next1 DEF RolesOf, AnyValue
<1>6. kind \in KindsOf(Head(wtodo))
  BY <1>1, <1>5 DEF KindsOf, EnvKinds, NameEnvs
<1>7. CASE refs.namespace[k] # 0 /\ WriteRefsxp(refs.namespace[k], k)
  <2>1. Writable => refs.namespace[k] \in DOMAIN named /\ named[refs.namespace[k]] = k
    BY <1>2, <1>7 DEF Sure, Numbered, NamespacesAgree
  <2> QED BY <1>2, <1>4, <1>6, <1>7, <2>1, RefFollows
<1>8. CASE Defines(kind, k, <<>>, {})
  <2>1. Contents(Item(kind, FALSE, FALSE, Len(wtable) + 1, 0)) = <<>>
    BY <1>1 DEF Contents, Item, SymbolKinds, NameEnvs
  <2> QED BY <1>1, <1>4, <1>6, <1>8, <2>1, AgreeNone, DefineFollows
<1> QED BY <1>3, <1>7, <1>8

LEMMA ReferenceFollows == Matching /\ Sure /\ WriteReference => Follows
<1> SUFFICES ASSUME Matching, Sure, WriteReference PROVE Follows
  OBVIOUS
<1>1. PICK h \in Handles :
        /\ Known(h) /\ heap[h].kind # "sym" /\ CheckObjectPtr(h) # 0
        /\ WriteRefsxp(CheckObjectPtr(h), Identity(heap[h], h))
  BY DEF WriteReference
<1> DEFINE id == Identity(heap[h], h)
<1>2. todo # <<>> /\ Slot \in AnyValue \cup {"env"} /\ result = "writing"
  BY <1>1 DEF WriteReference, WriteRefsxp, Emit
<1>3. Head(wtodo) = "item" \/ Head(wtodo) = "env"
  BY <1>2, Next1 DEF RolesOf, AnyValue
<1>4. ASSUME Writable
      PROVE  CheckObjectPtr(h) \in DOMAIN named /\ named[CheckObjectPtr(h)] = id /\ id[1] \in KindsOf(Head(wtodo))
  <2>1. CheckObjectPtr(h) \in DOMAIN named /\ named[CheckObjectPtr(h)] = id
    BY <1>1, <1>4 DEF Sure, Numbered, ObjectsAgree, CheckObjectPtr
  <2>2. id[1] = heap[h].kind
    BY DEF Identity
  <2> HIDE DEF id
  <2>3. heap[h].kind \in {"env"} \cup NameEnvs
    <3>1. heap \in HeapType /\ h \in 1..Len(heap)
      BY <1>1, <1>4 DEF Sure, Numbered, Typed, Known
    <3> DEFINE K == {"sym", "env"} \cup NameEnvs
    <3> DEFINE B == Names \cup EnvNames \cup {0}
    <3>2. heap \in Seq([kind : K, name : B])
      BY <3>1 DEF HeapType
    <3>3. heap[h].kind \in K
      <4> HIDE DEF K, B
      <4>1. heap[h] \in [kind : K, name : B]
        BY <3>1, <3>2, ElementOfSeq
      <4> QED BY <4>1
    <3> HIDE DEF B
    <3> QED BY <1>1, <3>3
  <2>4. CheckObjectPtr(h) \in 1..Len(wtable) /\ id[1] \in Kinds
    <3>1. CheckObjectPtr(h) \in 1..Len(wtable)
      BY <1>4, <2>1 DEF Sure, Numbered, CountAgrees, Typed
    <3> QED BY <1>4, <2>1, <3>1 DEF Sure, KindsNamed
  <2> QED BY <1>3, <2>1, <2>2, <2>3, <2>4 DEF KindsOf, EnvKinds, NameEnvs
<1>5. WriteRefsxp(CheckObjectPtr(h), id)
  BY <1>1
<1> HIDE DEF id
<1> QED BY <1>2, <1>4, <1>5, RefFollows

LEMMA StreamStep ==
  ASSUME NoEmptyForms, Matching, Sure, [Next]_vars
  PROVE  Matching' /\ (Writable => [RNext]_rvars)
<1>1. CASE WriteNull \/ WriteVector \/ WriteList \/ WriteS4Object \/ WritePairlist
             \/ WriteCell \/ WriteLanguage \/ WriteClosure \/ WritePromise \/ WriteCharsxp
             \/ WriteSymbol \/ WriteEnvironment \/ WriteNamespace \/ WriteReference
  <2>1. Follows
    BY <1>1, NullFollows, VectorFollows, ListFollows, S4Follows, PairlistFollows, CellFollows,
       LanguageFollows, ClosureFollows, PromiseFollows, CharsFollow, SymbolFollows,
       EnvironmentFollows, NamespaceFollows, ReferenceFollows
  <2> QED BY <2>1 DEF Follows
<1>2. CASE Refuse
  BY <1>2 DEF Refuse, Matching
<1>3. CASE Finish
  BY <1>3 DEF Finish, Matching, rvars
<1>4. CASE Terminated \/ UNCHANGED vars
  BY <1>4 DEF Terminated, Matching, vars, rvars, wvars
<1> QED BY <1>1, <1>2, <1>3, <1>4 DEF Next

LEMMA KindsStep ==
  ASSUME Writable, Numbered, KindsNamed, [Next]_vars
  PROVE  KindsNamed'
<1>0. /\ named \in Seq(Ids) /\ wtable \in Seq(RTracked) /\ Len(named) = Len(wtable)
  BY DEF Numbered, Typed, CountAgrees
<1>1. ASSUME UNCHANGED <<named, wtable>> PROVE KindsNamed'
  BY <1>1 DEF KindsNamed
<1>2. ASSUME NEW idx, NEW id, WriteRefsxp(idx, id) PROVE KindsNamed'
  <2>1. UNCHANGED <<named, wtable>>
    BY <1>2 DEF WriteRefsxp, Emit, Write, Item, RTracked, SymbolKinds, EnvKinds
  <2> QED BY <1>1, <2>1
<1>3. ASSUME NEW kind \in RTracked \cap Kinds, NEW id, NEW parts, NEW entered,
             Defines(kind, id, parts, entered), id[1] = kind
      PROVE  KindsNamed'
  <2>1. named' = Append(named, id) /\ wtable' = Append(wtable, kind)
    BY <1>3 DEF Defines, Emit, Write, Item
  <2>2. /\ Len(wtable') = Len(wtable) + 1 /\ wtable'[Len(wtable) + 1] = kind
        /\ named'[Len(wtable) + 1] = id /\ Len(wtable) \in Nat
        /\ \A i \in 1..Len(wtable) : wtable'[i] = wtable[i] /\ named'[i] = named[i]
    BY <1>0, <2>1
  <2>3. \A i \in 1..Len(wtable) + 1 : i \in 1..Len(wtable) \/ i = Len(wtable) + 1
    BY <2>2
  <2> QED BY <1>3, <2>2, <2>3 DEF KindsNamed
<1>4. CASE WriteNull \/ WriteVector \/ WriteList \/ WriteS4Object \/ WritePairlist
             \/ WriteCell \/ WriteLanguage \/ WriteClosure \/ WritePromise \/ WriteCharsxp
  BY <1>1, <1>4, PlainActions DEF Keeps
<1>5. CASE WriteSymbol
  <2>1. PICK name \in Names : \E ptr \in Pointers(name) : WriteSymbolWithTracking(ptr, name)
    BY <1>5 DEF WriteSymbol
  <2>2. PICK ptr \in Pointers(name) : WriteSymbolWithTracking(ptr, name)
    BY <2>1
  <2> DEFINE id == <<"sym", name>>
  <2>3. "sym" \in RTracked \cap Kinds /\ id[1] = "sym"
    BY DEF Writable, WriterKinds, RTracked, SymbolKinds
  <2>4. WriteRefsxp(Lookup(ptr, name), id) \/ Defines("sym", id, <<"chars">>, {})
    BY <2>2 DEF WriteSymbolWithTracking
  <2> HIDE DEF id
  <2> QED BY <1>2, <1>3, <2>3, <2>4
<1>6. CASE WriteEnvironment
  <2> DEFINE id == <<"env", Fresh>>
  <2>1. PICK parts : Defines("env", id, parts, {Fresh})
    BY <1>6 DEF WriteEnvironment
  <2>2. "env" \in RTracked \cap Kinds /\ id[1] = "env"
    BY <1>6 DEF WriteEnvironment, RTracked, EnvKinds
  <2> HIDE DEF id
  <2> QED BY <1>3, <2>1, <2>2
<1>7. CASE WriteNamespace
  <2>1. PICK kind \in Kinds \cap NameEnvs, name \in EnvNames, shared \in BOOLEAN :
          WriteStringVecEnv(kind, name, IF shared THEN 0 ELSE refs.next)
    BY <1>7 DEF WriteNamespace
  <2> DEFINE id == <<kind, name>>
  <2>2. kind \in RTracked \cap Kinds /\ id[1] = kind
    BY DEF RTracked, EnvKinds, NameEnvs
  <2>3. WriteRefsxp(refs.namespace[id], id) \/ Defines(kind, id, <<>>, {})
    BY <2>1 DEF WriteStringVecEnv, NamespaceKey
  <2> HIDE DEF id
  <2> QED BY <1>2, <1>3, <2>2, <2>3
<1>8. CASE WriteReference
  BY <1>2, <1>8 DEF WriteReference
<1>9. CASE Refuse \/ Finish \/ Terminated \/ UNCHANGED vars
  BY <1>1, <1>9 DEF Refuse, Finish, Terminated, vars, rvars, wvars
<1> QED BY <1>4, <1>5, <1>6, <1>7, <1>8, <1>9 DEF Next

LEMMA StreamInit == Init => Matching /\ KindsNamed
<1> SUFFICES ASSUME Init PROVE Matching /\ KindsNamed
  OBVIOUS
<1>1. todo = <<"value">> /\ wtodo = <<"item">> /\ wtable = <<>>
  BY DEF Init, RInit
<1>2. "value" \in Slots /\ "item" \in Roles /\ "item" \in RolesOf("value")
  BY DEF Slots, AnyValue, Symbolic, Valued, Cells, Roles, RolesOf
<1>3. Matching
  BY <1>1, <1>2, AgreeOne DEF Matching
<1> QED BY <1>1, <1>3 DEF KindsNamed

(* The writer ends exactly where the format does, whatever it was given, as *)
(* long as no attributes are empty or around a pairlist without elements.   *)
THEOREM StreamIsComplete == NoEmptyForms => (Spec => []StreamComplete)
<1> SUFFICES ASSUME NoEmptyForms PROVE Spec => []StreamComplete
  OBVIOUS
<1>1. Matching => StreamComplete
  BY DEF Matching, Agree, StreamComplete
<1>2. CASE Writable
  <2>1. Init => Matching /\ Numbered /\ KindsNamed
    BY StreamInit, NumberedInit
  <2>2. Matching /\ Numbered /\ KindsNamed /\ [Next]_vars => (Matching /\ Numbered /\ KindsNamed)'
    BY <1>2, StreamStep, KindsStep, NumberedStep DEF Sure, Writable
  <2> QED BY <1>1, <2>1, <2>2, PTL DEF Spec
<1>3. CASE ~Writable
  <2>1. Init => Matching
    BY StreamInit
  <2>2. Matching /\ [Next]_vars => Matching'
    BY <1>3, StreamStep DEF Sure
  <2> QED BY <1>1, <2>1, <2>2, PTL DEF Spec
<1> QED BY <1>2, <1>3

(* Where the writer counts like a reader, what it writes is a stream that R *)
(* could have written: each item is one the format allows at its place, and *)
(* each reference is to an object that may stand there.                     *)
THEOREM WritesWhatRCould == Writable => (Spec => ImplementsStream)
<1> SUFFICES ASSUME Writable PROVE Spec => ImplementsStream
  OBVIOUS
<1>1. Init => Matching /\ Numbered /\ KindsNamed /\ RInit
  BY StreamInit, NumberedInit DEF Init
<1>2. Matching /\ Numbered /\ KindsNamed /\ [Next]_vars
        => (Matching /\ Numbered /\ KindsNamed)' /\ [RNext]_rvars
  BY StreamStep, KindsStep, NumberedStep DEF Sure, Writable
<1> QED BY <1>1, <1>2, PTL DEF Spec, ImplementsStream, RSpec
=============================================================================
