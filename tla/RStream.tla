------------------------------ MODULE RStream ------------------------------
(***************************************************************************)
(* R's serializer, as the readers of this crate see it (external: the crate *)
(* never runs R, it only reads what R wrote).                               *)
(*                                                                          *)
(* A stream is a sequence of items, each one a flags word with the payload  *)
(* that belongs to it.  R writes it by recursion over the object, so at any *)
(* moment what is still to come is a sequence of grammatical roles; writing *)
(* an item replaces the first role by the roles of the item's parts.  The   *)
(* stream is produced on demand: a reader that asks for the next item gets  *)
(* any item R could write there.                                            *)
(*                                                                          *)
(* R gives a reference index to symbols, environments (also packages and    *)
(* namespaces), external pointers, weak references and persistent names,    *)
(* in the order it writes them, and writes every later occurrence as a      *)
(* REFSXP with that index.  An object's index is its identity here.         *)
(***************************************************************************)
EXTENDS Naturals, Sequences, FiniteSets

CONSTANTS
  Kinds,       \* the kinds of object R writes in this instance
  Lens,        \* the lengths of generic vectors
  CellAttrs,   \* may a pairlist cell after the first carry attributes?
  OldTags,     \* number tag references by symbol, as this crate wrote up to 0.1.41
  Budget       \* after this many items R only closes what it has open

SymbolKinds == {"sym", "rownames"}          \* "rownames" is the symbol row.names
EnvKinds    == {"env", "package", "namespace"}
RTracked    == SymbolKinds \cup EnvKinds \cup {"extptr", "weakref", "persist"}
RAttributed == {"leaf", "real3", "vec", "expr", "s4", "list", "lang", "clo",
                "prom", "extptr", "weakref"}
RTagged     == {"list", "lang", "prom"}
AllKinds    == RTracked \cup RAttributed \cup {"nil", "altrep", "chars"}
Roles       == {"item", "env", "cdr", "cell", "tag", "chars", "hash", "attrib"}

ASSUME StreamAssumption ==
  /\ Kinds \subseteq AllKinds \ {"chars"}
  /\ Lens \in SUBSET Nat /\ Lens # {}
  /\ CellAttrs \in BOOLEAN /\ OldTags \in BOOLEAN
  /\ Budget \in Nat

VARIABLES
  wtodo,     \* the roles R still has to write, the next one first
  wtable,    \* the kinds of the objects R gave an index to, in index order
  written    \* how many items R has written (counted up to Budget)

rvars == <<wtodo, wtable, written>>

(* An item: its type, the attribute and tag bits, the index of the object   *)
(* if it is tracked or a REFSXP, and the length of a generic vector.        *)
Item(type, attr, tag, id, n) ==
  [type |-> type, attr |-> attr, tag |-> tag, id |-> id, n |-> n]

Items == [type : AllKinds \cup {"ref"}, attr : BOOLEAN, tag : BOOLEAN,
          id : Nat, n : Nat]

(* The kinds of object that may stand in a role.  The type DOTSXP is not    *)
(* among the kinds: the parser refuses it.                                  *)
KindsOf(role) ==
  CASE role = "item"   -> Kinds \cup {"nil"}
    [] role = "env"    -> (Kinds \cap EnvKinds) \cup {"nil"}
    [] role = "cdr"    -> {"nil", "list"}
    [] role = "cell"   -> {"list"}
    [] role = "tag"    -> {"sym"} \cup (Kinds \cap SymbolKinds)
    [] role = "chars"  -> {"chars"}
    [] role = "hash"   -> {"nil"} \cup (Kinds \cap {"vec"})
    [] role = "attrib" -> {"nil", "list"}

(* The part of them that closes the role without opening much more.         *)
ClosingKindsOf(role) ==
  CASE role \in {"item", "env", "cdr", "hash", "attrib"} -> {"nil"}
    [] OTHER -> KindsOf(role) \ {"rownames"}

(* Every item R may write in a role: a reference to an object it has        *)
(* already written, or the object itself.  A symbol is written once.        *)
IndexOf(role, j) ==
  IF OldTags /\ role = "tag"
  THEN Cardinality({k \in 1..j : wtable[k] \in SymbolKinds})
  ELSE j

RefItems(role) ==
  {Item("ref", FALSE, FALSE, IndexOf(role, i), 0) :
     i \in {j \in 1..Len(wtable) : wtable[j] \in KindsOf(role)}}

(* Once the budget is spent R has no attributes, tags or open kinds left.   *)
Closing == written >= Budget

AttrsOf(k, role) ==
  IF Closing \/ k \notin RAttributed \/ (role = "cdr" /\ ~CellAttrs)
  THEN {FALSE} ELSE BOOLEAN

TagsOf(k, role) ==
  IF k = "clo" \/ role = "cell" THEN {TRUE}
  ELSE IF k \in RTagged /\ ~Closing THEN BOOLEAN ELSE {FALSE}

LensOf(k) == IF k \in {"vec", "expr"} THEN Lens ELSE {0}

NewItems(role) ==
  {i \in [type : IF Closing THEN ClosingKindsOf(role) ELSE KindsOf(role),
          attr : BOOLEAN, tag : BOOLEAN,
          id : {0, Len(wtable) + 1}, n : Lens \cup {0}] :
     /\ i.attr \in AttrsOf(i.type, role)
     /\ i.tag \in TagsOf(i.type, role)
     /\ i.id = IF i.type \in RTracked THEN Len(wtable) + 1 ELSE 0
     /\ i.n \in LensOf(i.type)
     /\ i.type = "rownames" => \A j \in 1..Len(wtable) : wtable[j] # "rownames"}

(* The parts of an item, in the order R writes them.  A pairlist, call,     *)
(* closure or promise has its attributes first, everything else last.       *)
AttrFirst == {"list", "lang", "clo", "prom"}

IfTagged(i, r) == IF i.tag THEN <<r>> ELSE <<>>

AttrsBefore(i) == IF i.attr /\ i.type \in AttrFirst THEN <<"cell">> ELSE <<>>
AttrsAfter(i)  == IF i.attr /\ i.type \notin AttrFirst THEN <<"cell">> ELSE <<>>

Contents(i) ==
  CASE i.type \in SymbolKinds      -> <<"chars">>
    [] i.type = "env"              -> <<"env", "cdr", "hash", "attrib">>
    [] i.type \in {"list", "lang"} -> IfTagged(i, "tag") \o <<"item", "cdr">>
    [] i.type = "clo"              -> <<"env", "cdr", "item">>
    [] i.type = "prom"             -> IfTagged(i, "env") \o <<"item", "item">>
    [] i.type \in {"vec", "expr"}  -> [j \in 1..i.n |-> "item"]
    [] i.type = "altrep"           -> <<"cell", "item", "attrib">>
    [] i.type = "extptr"           -> <<"item", "item">>
    [] OTHER                       -> <<>>

Parts(i) == AttrsBefore(i) \o Contents(i) \o AttrsAfter(i)

RInit == wtodo = <<"item">> /\ wtable = <<>> /\ written = 0

(* R writes item i for the role that is next.                               *)
Write(i) ==
  /\ wtodo' = Parts(i) \o Tail(wtodo)
  /\ wtable' = IF i.type \in RTracked THEN Append(wtable, i.type) ELSE wtable
  /\ written' = IF written < Budget THEN written + 1 ELSE written

(* Everything R may do: write an item its grammar allows next.              *)
RNext ==
  /\ wtodo # <<>>
  /\ \E i \in RefItems(Head(wtodo)) \cup NewItems(Head(wtodo)) : Write(i)

RSpec == RInit /\ [][RNext]_rvars

RTypeOK ==
  /\ wtodo \in Seq(Roles)
  /\ wtable \in Seq(RTracked)
  /\ written \in 0..Budget
=============================================================================
