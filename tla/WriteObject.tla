---------------------------- MODULE WriteObject ----------------------------
(***************************************************************************)
(* The serializer of writer.rs: write_rds_streaming, write_object_inner and *)
(* the writers it calls.                                                    *)
(*                                                                          *)
(* A reader numbers the symbols and environments of a stream by counting    *)
(* them, and a REFSXP is such a number.  The writer never sees the reader's *)
(* count: it keeps one of its own, next_index, advanced in three places     *)
(* under three kinds of key (the address of an Arc, the name of a symbol,   *)
(* the name of a namespace).  The stream is right only if the two counts    *)
(* move together, whatever value is written.                                *)
(*                                                                          *)
(* The reader is RStream: rvars is what has been written and what the       *)
(* format expects next.  The value is chosen while it is written: an action *)
(* takes any value that may stand in the next slot.  Of the values only     *)
(* identities are kept.  Bytecode is left out (RStream has no item for it). *)
(***************************************************************************)
EXTENDS RStream

CONSTANTS
  Names,      \* the names of symbols
  EnvNames,   \* the names of namespaces and packages
  MaxHandles, \* how many addresses the value has
  Shapes      \* which values with a wire form of their own the caller may pass

(* Values of these shapes are no different from others to a caller.         *)
AllShapes == {"sharedNamespace",   \* a namespace behind an Arc, as parsed ones are
              "equalNamespace",    \* two namespaces with one name, not one Arc
              "namedSymbol",       \* an Arc of a symbol whose name came before as a name
              "attributedEnv",     \* attributes around an environment
              "emptyPairlist",     \* attributes around a pairlist without elements
              "emptyAttributes"}   \* attributes around a value, but none in them

ASSUME WriterAssumption ==
  /\ MaxHandles \in Nat /\ Shapes \subseteq AllShapes
  /\ 0 \notin Names \cup EnvNames

VARIABLES
  todo,     \* the writes the active calls still have to make, the next one first
  active,   \* WRITE_STACK: the environments being written, and what follows them
  heap,     \* what is at each address met so far
  refs,     \* RefTable: next_index, object_refs, namespace_refs
  syms,     \* SymbolTracker: pointer_symbols, value_symbols (object indices)
  named,    \* for each index of the reader, whose it is (history)
  last,     \* the last REFSXP: its number and what it stands for (history)
  result    \* writing, ok, error

wvars == <<todo, active, heap, refs, syms, named, last, result>>
vars  == <<rvars, wvars>>

Handles  == 1..MaxHandles
NameEnvs == {"namespace", "package"}
NoRef    == [ref |-> 0, meant |-> <<"none", 0>>]

(* Where a value stands decides which values can be there and, for symbols, *)
(* which function writes them.                                              *)
AnyValue  == {"value", "fun", "arg"}       \* write_object, or a call's parts
Valued    == AnyValue \cup {"env", "pairs", "hash"}
Cells     == {"cells", "args", "attrs", "moreattrs"}
Symbolic  == AnyValue \cup {"tag", "name"}
Slots     == Valued \cup Cells \cup Symbolic \cup {"chars", "nil"}

(* What an address or name identifies: symbols are their name, namespaces   *)
(* and packages too, an environment is its address.                         *)
Known(h) == h \in 1..Len(heap)
Identity(o, h) == IF o.kind = "env" THEN <<"env", h>> ELSE <<o.kind, o.name>>

(* R's references start at 1.                                               *)
FirstIndexZero == 0
FirstIndex == 1

Init ==
  /\ RInit
  /\ todo = <<"value">> /\ active = {} /\ heap = <<>>
  /\ refs = [next |-> FirstIndex, object |-> [h \in Handles |-> 0],
             namespace |-> [k \in NameEnvs \X EnvNames |-> 0]]
  /\ syms = [pointer |-> [h \in Handles |-> 0], value |-> [n \in Names |-> 0]]
  /\ named = <<>> /\ last = NoRef /\ result = "writing"

----------------------------------------------------------------------------
(* RefTable and SymbolTracker.                                              *)

CheckObjectPtr(h) == refs.object[h]

RegisterObjectPtr(r, h) ==
  IF r.object[h] # 0 THEN r
  ELSE [r EXCEPT !.object[h] = r.next, !.next = @ + 1]

(* namespace_key: the kind keeps the two key spaces apart.                  *)
NamespaceKeyNoKind(kind, name) == <<"namespace", name>>
NamespaceKey(kind, name) == <<kind, name>>

LookupPointerOnly(ptr, name) == IF ptr = 0 THEN 0 ELSE syms.pointer[ptr]
Lookup(ptr, name) ==
  IF ptr # 0 /\ syms.pointer[ptr] # 0 THEN syms.pointer[ptr] ELSE syms.value[name]

(* register_symbol_atomic.  The separate symbol index is left out: no call  *)
(* of the writer ever puts it into the stream.  The first form is the       *)
(* defect of the releases before 0.2.0.                                     *)
RegisterSymbolTwice(r, ptr, name) ==
  IF ptr = 0 THEN [r EXCEPT !.next = @ + 2] ELSE RegisterObjectPtr(r, ptr)
RegisterSymbol(r, ptr, name) ==
  IF ptr = 0 THEN [r EXCEPT !.next = @ + 1] ELSE RegisterObjectPtr(r, ptr)

SymbolIndex(r, ptr) ==
  IF ptr = 0 \/ r.object[ptr] = 0 THEN r.next ELSE r.object[ptr]

TrackSymbol(ptr, name, idx) ==
  [pointer |-> IF ptr = 0 THEN syms.pointer ELSE [syms.pointer EXCEPT ![ptr] = idx],
   value   |-> [syms.value EXCEPT ![name] = idx]]

----------------------------------------------------------------------------
(* One write: item i goes out, and its parts are what is to be written.     *)

(* WriteStackGuard: an environment leaves the stack when its parts are done. *)
Guarded(entries, left) == {e \in entries : e.left < Len(left)}

Emit(i, parts, entered) ==
  /\ result = "writing" /\ wtodo # <<>> /\ Write(i)
  /\ todo' = parts \o Tail(todo)
  /\ active' = Guarded(active \cup {[h |-> h, left |-> Len(todo) - 1] : h \in entered}, todo')
  /\ UNCHANGED result

(* An item the reader gives no index to.                                    *)
Plain(type, attr, tag, n, parts) ==
  /\ Emit(Item(type, attr, tag, 0, n), parts, {})
  /\ UNCHANGED <<named, last>>

(* An item the reader numbers, of identity id.                              *)
Defines(type, id, parts, entered) ==
  /\ Emit(Item(type, FALSE, FALSE, Len(wtable) + 1, 0), parts, entered)
  /\ named' = Append(named, id)
  /\ UNCHANGED last

WriteRefsxp(idx, id) ==
  /\ Emit(Item("ref", FALSE, FALSE, idx, 0), <<>>, {})
  /\ last' = [ref |-> idx, meant |-> id]
  /\ UNCHANGED named

Slot == Head(todo)
Untracked == UNCHANGED <<heap, refs, syms>>

(* The graph can only grow while the budget lasts.                          *)
Grows == todo # <<>> /\ ~Closing

(* WithAttributes: no attributes at all, some, or an empty map of them.     *)
AttrChoices == {"no", "some"} \cup (IF "emptyAttributes" \in Shapes THEN {"empty"} ELSE {})
AttrsFirst(a) == CASE a = "no" -> <<>> [] a = "some" -> <<"attrs">> [] a = "empty" -> <<"nil">>
AttrsLast(a)  == IF a = "some" THEN <<"attrs">> ELSE <<>>

IsActive(h) == \E e \in active : e.h = h

----------------------------------------------------------------------------
(* The writers.                                                             *)

(* write_null: NULL and the singletons, the end of a pairlist, and a value  *)
(* found on WRITE_STACK, that is, a cycle.                                  *)
WriteNull ==
  /\ todo # <<>> /\ Slot \in Valued \cup {"nil", "cells", "args", "moreattrs"}
  /\ Plain("nil", FALSE, FALSE, 0, <<>>)
  /\ Untracked

(* Atomic vectors, factors and primitive functions.                         *)
WriteVector ==
  /\ Grows /\ Slot \in AnyValue
  /\ \E a \in AttrChoices : Plain("leaf", a # "no", FALSE, 0, AttrsLast(a))
  /\ Untracked

(* write_list and write_expression; a data frame is a list with attributes. *)
WriteList ==
  /\ Grows /\ Slot \in AnyValue \cup {"hash"}
  /\ \E k \in Kinds \cap {"vec", "expr"}, n \in Lens, a \in AttrChoices :
       /\ Slot = "hash" => k = "vec" /\ a = "no"
       /\ Plain(k, a # "no", FALSE, n, [j \in 1..n |-> "value"] \o AttrsLast(a))
  /\ Untracked

(* build_s4_attributes always gives the class.                              *)
WriteS4Object ==
  /\ Grows /\ Slot \in AnyValue
  /\ Plain("s4", TRUE, FALSE, 0, <<"attrs">>)
  /\ Untracked

(* A pairlist is written as its first cell and a rest.                      *)
WritePairlist ==
  /\ Grows /\ Slot \in AnyValue \cup {"pairs"}
  /\ \E a \in AttrChoices, tag \in BOOLEAN, empty \in BOOLEAN :
       /\ Slot = "pairs" => a = "no"
       /\ empty => a # "no" /\ ~tag /\ "emptyPairlist" \in Shapes
       /\ Plain("list", a # "no", tag, 0,
                AttrsFirst(a) \o (IF empty THEN <<"nil">>
                                  ELSE (IF tag THEN <<"tag">> ELSE <<>>) \o <<"value", "cells">>))
  /\ Untracked

(* A further element, an argument of a call, or an attribute; an attribute  *)
(* has its name for a tag, and write_attributes is called for one or more.  *)
Attributes == {"attrs", "moreattrs"}
RestOf(slot) == IF slot \in Attributes THEN "moreattrs" ELSE slot
CellTag(slot) == IF slot \in Attributes THEN <<"name">> ELSE <<"tag">>

WriteCell ==
  /\ todo # <<>> /\ Slot \in Cells /\ (Closing => Slot = "attrs")
  /\ \E tag \in IF Slot \in Attributes THEN {TRUE} ELSE BOOLEAN :
       Plain("list", FALSE, tag, 0,
             (IF tag THEN CellTag(Slot) ELSE <<>>)
               \o <<IF Slot = "args" THEN "arg" ELSE "value", RestOf(Slot)>>)
  /\ Untracked

WriteLanguage ==
  /\ Grows /\ Slot \in AnyValue
  /\ \E a \in AttrChoices :
       Plain("lang", a # "no", FALSE, 0, AttrsFirst(a) \o <<"fun", "args">>)
  /\ Untracked

ClosureFormalsFirst == <<"pairs", "env", "value">>
ClosureParts == <<"env", "pairs", "value">>

WriteClosure ==
  /\ Grows /\ Slot \in AnyValue
  /\ \E a \in AttrChoices :
       Plain("clo", a # "no", TRUE, 0, AttrsFirst(a) \o ClosureParts)
  /\ Untracked

(* The tag bit says whether there is an environment.                        *)
WritePromise ==
  /\ Grows /\ Slot \in AnyValue
  /\ \E a \in AttrChoices, env \in BOOLEAN :
       Plain("prom", a # "no", env, 0,
             AttrsFirst(a) \o (IF env THEN <<"env">> ELSE <<>>) \o <<"value", "value">>)
  /\ Untracked

(* A symbol that is written for the first time, or a reference to it.  In a *)
(* general position write_object_inner registers the Arc before the symbol  *)
(* is looked up; names, functions and arguments go to                       *)
(* write_symbol_with_tracking at once.                                      *)
Reserve(ptr) ==
  IF Slot = "value" /\ ptr # 0 THEN RegisterObjectPtr(refs, ptr) ELSE refs

Pointers(name) ==
  {0} \cup {h \in Handles : /\ Slot # "name" /\ h <= Len(heap) + 1
                            /\ Known(h) => heap[h] = [kind |-> "sym", name |-> name]}

WriteSymbolWithTracking(ptr, name) ==
  LET r     == Reserve(ptr)
      found == Lookup(ptr, name)
  IN IF found # 0
     THEN /\ WriteRefsxp(found, <<"sym", name>>)
          /\ refs' = r
          /\ UNCHANGED syms
     ELSE /\ Closing => Slot \in {"tag", "name"}
          /\ Defines("sym", <<"sym", name>>, <<"chars">>, {})
          /\ refs' = RegisterSymbol(r, ptr, name)
          /\ syms' = TrackSymbol(ptr, name, SymbolIndex(r, ptr))

WriteSymbol ==
  /\ todo # <<>> /\ Slot \in Symbolic
  /\ \E name \in Names : \E ptr \in Pointers(name) :
       /\ Reserve(ptr) # refs /\ Lookup(ptr, name) # 0 => "namedSymbol" \in Shapes
       /\ heap' = IF ptr = 0 \/ Known(ptr) THEN heap
                  ELSE Append(heap, [kind |-> "sym", name |-> name])
       /\ WriteSymbolWithTracking(ptr, name)

(* An address that has not been met yet.                                    *)
Fresh == Len(heap) + 1

(* The attribute field of an environment is always there.                   *)
EnvironmentNoAttrib(attrib) == <<"env", "pairs", "hash">>
EnvironmentParts(attrib) == <<"env", "pairs", "hash", attrib>>

WriteEnvironment ==
  /\ Grows /\ Slot \in AnyValue \cup {"env"} /\ "env" \in Kinds
  /\ Fresh \in Handles
  /\ heap' = Append(heap, [kind |-> "env", name |-> 0])
  /\ \E attributed \in BOOLEAN :
       /\ attributed => "attributedEnv" \in Shapes
       /\ refs' = IF attributed THEN refs ELSE RegisterObjectPtr(refs, Fresh)
       /\ Defines("env", <<"env", Fresh>>,
                  EnvironmentParts(IF attributed THEN "attrs" ELSE "nil"), {Fresh})
  /\ UNCHANGED syms

(* A namespace or package at an address not met before.  The index reserved *)
(* for the address is passed on to write_string_vec_env, except through an  *)
(* Arc, where the inner call starts without one.                            *)
AllocateNamespace(r, key, reserved) ==
  IF reserved # 0 THEN [r EXCEPT !.namespace[key] = reserved]
  ELSE [r EXCEPT !.namespace[key] = r.next, !.next = @ + 1]

WriteStringVecEnv(kind, name, reserved) ==
  LET r   == RegisterObjectPtr(refs, Fresh)
      key == NamespaceKey(kind, name)
  IN IF refs.namespace[key] # 0
     THEN WriteRefsxp(refs.namespace[key], <<kind, name>>) /\ refs' = r
     ELSE /\ Defines(kind, <<kind, name>>, <<>>, {})
          /\ refs' = AllocateNamespace(r, key, reserved)

WriteNamespace ==
  /\ Grows /\ Slot \in AnyValue \cup {"env"} /\ Fresh \in Handles
  /\ \E kind \in Kinds \cap NameEnvs, name \in EnvNames, shared \in BOOLEAN :
       /\ shared => "sharedNamespace" \in Shapes
       /\ (\E h \in 1..Len(heap) : heap[h] = [kind |-> kind, name |-> name])
            => "equalNamespace" \in Shapes
       /\ heap' = Append(heap, [kind |-> kind, name |-> name])
       /\ WriteStringVecEnv(kind, name, IF shared THEN 0 ELSE refs.next)
  /\ UNCHANGED syms

(* An environment, namespace or package met before and not being written.   *)
WriteReference ==
  /\ todo # <<>> /\ Slot \in AnyValue \cup {"env"}
  /\ \E h \in Handles :
       /\ Known(h) /\ heap[h].kind # "sym" /\ ~IsActive(h) /\ CheckObjectPtr(h) # 0
       /\ WriteRefsxp(CheckObjectPtr(h), Identity(heap[h], h))
  /\ Untracked

WriteCharsxp ==
  /\ todo # <<>> /\ Slot = "chars"
  /\ Plain("chars", FALSE, FALSE, 0, <<>>)
  /\ Untracked

(* A value of which some vector is not loaded, attributes around a value    *)
(* that has none, a factor with names of another length.                    *)
Refuse ==
  /\ result = "writing" /\ todo # <<>> /\ Slot \in AnyValue
  /\ result' = "error" /\ todo' = <<>> /\ active' = {}
  /\ UNCHANGED <<rvars, heap, refs, syms, named, last>>

Finish ==
  /\ result = "writing" /\ todo = <<>>
  /\ result' = "ok"
  /\ UNCHANGED <<rvars, todo, active, heap, refs, syms, named, last>>

Terminated == result # "writing" /\ UNCHANGED vars

Next ==
  \/ WriteNull \/ WriteVector \/ WriteList \/ WriteS4Object \/ WritePairlist
  \/ WriteCell \/ WriteLanguage \/ WriteClosure \/ WritePromise
  \/ WriteSymbol \/ WriteEnvironment \/ WriteNamespace \/ WriteReference
  \/ WriteCharsxp \/ Refuse \/ Finish \/ Terminated

Spec == Init /\ [][Next]_vars

----------------------------------------------------------------------------
(* Properties.                                                              *)

TypeOK ==
  /\ RTypeOK
  /\ todo \in Seq(Slots)
  /\ active \in SUBSET [h : Handles, left : Nat]
  /\ heap \in Seq([kind : {"sym", "env"} \cup NameEnvs, name : Names \cup EnvNames \cup {0}])
  /\ refs \in [next : Nat \ {0}, object : [Handles -> Nat],
               namespace : [NameEnvs \X EnvNames -> Nat]]
  /\ syms \in [pointer : [Handles -> Nat], value : [Names -> Nat]]
  /\ result \in {"writing", "ok", "error"}

(* The writer writes what R could have written: every item is one the       *)
(* format allows at that place, and every reference names an object that    *)
(* may stand there (CHANGELOG: "Writer wire format is now R-conforming").   *)
ImplementsStream == RSpec

(* The writer is done exactly when the format expects nothing more.         *)
StreamComplete == result # "error" => Len(todo) = Len(wtodo)

(* A reference stands for the object the reader has under its number: the   *)
(* writer's three ways to count agree with the reader's one.                *)
RefsMeanWhatWasWritten ==
  last.ref # 0 => last.ref \in DOMAIN named /\ named[last.ref] = last.meant

(* Sharing survives: nothing that has an identity is written twice, by      *)
(* whatever key the writer came to it.                                      *)
WrittenOnce == \A i, j \in DOMAIN named : named[i] = named[j] => i = j

(* What makes the references right: the next index is the reader's, and     *)
(* every entry of every table is the reader's number of the thing it keys.  *)
NumbersAgree ==
  /\ Len(named) = Len(wtable) /\ refs.next = Len(named) + 1
  /\ \A h \in Handles : refs.object[h] # 0 =>
       /\ Known(h) /\ refs.object[h] \in DOMAIN named
       /\ named[refs.object[h]] = Identity(heap[h], h)
  /\ \A k \in NameEnvs \X EnvNames : refs.namespace[k] # 0 =>
       refs.namespace[k] \in DOMAIN named /\ named[refs.namespace[k]] = k
  /\ \A h \in Handles : syms.pointer[h] # 0 =>
       Known(h) /\ heap[h].kind = "sym" /\ syms.pointer[h] = syms.value[heap[h].name]
  /\ \A n \in Names : syms.value[n] # 0 =>
       syms.value[n] \in DOMAIN named /\ named[syms.value[n]] = <<"sym", n>>
=============================================================================
