-------------------------- MODULE SequentialParse --------------------------
(***************************************************************************)
(* The reader of a forward-only input (wasm): two mutually recursive        *)
(* parsers, parse_object_sequential_value_async and                         *)
(* skip_object_sequential_value_async, with a policy that says which slots  *)
(* of an S4 object are parsed, dropped, skipped or captured.                *)
(*                                                                          *)
(* Both parsers have to read the same items and number the same objects;    *)
(* which of them reads an item depends on the mode, the policy and three    *)
(* flags of the context that calls set and put back.  The format is that of *)
(* RStream, and the frames are those of ParseObject: this module adds what  *)
(* each call remembers beside its frame.                                    *)
(***************************************************************************)
EXTENDS ParseObject

CONSTANTS
  Policies,         \* what the caller may ask for a slot of an S4 object
  Misread           \* which constructs the two parsers misread R may write

ASSUME PolicyAssumption ==
  /\ Policies \subseteq {"keep", "drop", "skip", "capture"}
  /\ Misread \subseteq {"skippedCode", "namedStrings"}

VARIABLES
  calls,     \* per frame: the parser that runs it, its tag, the flags to restore
  flags,     \* parsing_s4_tag, parsing_pairlist_root, lenient_skip_vectors
  decided,   \* the policy, per symbol, as far as it was asked
  applied    \* what it was asked about last: a slot, what is being skipped
             \* anyway, or something else

callVars == <<calls, flags, decided, applied>>
seqVars  == <<vars, callVars>>

Call    == calls[Depth]
NoFlags == [s4tag |-> FALSE, root |-> FALSE, lenient |-> FALSE]

(* The parts of an item, for the parser m that runs with flags f.  A call   *)
(* is read as the pairlist it is on the wire; the types that are not listed *)
(* have no parts for these two parsers.                                     *)
TaggedIf(b, s)   == IF b THEN <<s>> ELSE <<>>
ParseCells(i, f) == TaggedIf(i.tag \/ f.s4tag, "tag") \o <<"car", "next">>
SkipCells(i)     == TaggedIf(i.tag, "tag") \o <<"vcar", "vnext">>

ValueData(i, f) ==
  CASE i.type \in SymbolKinds      -> <<"name">>
    [] i.type \in {"list", "lang"} -> IF f.lenient THEN SkipCells(i) ELSE ParseCells(i, f)
    [] i.type \in {"vec", "expr"}  -> ParseList(i)
    [] i.type = "altrep"           -> ParseAltrep
    [] OTHER                       -> <<>>
SkipData(i, f) ==
  IF i.type \in {"list", "lang"} THEN ParseCells(i, f) ELSE ValueData(i, f)

(* Attributes of every type, whether it is kept or skipped; and a skip that *)
(* counts on the attributes being skipped with the data.                    *)
ValueSteps(i, f)    == EarlyAttrs(i) \o ValueData(i, f) \o LateAttrs(i)
SkipWithAttrs(i, f) == SkipData(i, f)
SkipSteps(i, f)     == EarlyAttrs(i) \o SkipData(i, f) \o LateAttrs(i)
SeqSteps(i, m, f)   == IF m = "value" THEN ValueSteps(i, f) ELSE SkipSteps(i, f)

(* What R may write next.  Every attribute has a name, and a list of        *)
(* attributes has none itself.  "skippedCode" are lists and calls without a *)
(* tag among the slots of a skipped S4 object.                              *)
AttrLists    == {"early", "attrs", "altattrs"}
InAttributes == Step \in AttrLists \/ (Step \in {"next", "vnext"} /\ Top.as \in AttrLists)
InSkippedS4  == flags.lenient /\ flags.s4tag
SeqItems ==
  {i \in NextItems :
     i.type \in {"list", "lang"} =>
       /\ InAttributes => i.tag /\ ~i.attr
       /\ InSkippedS4 /\ "skippedCode" \notin Misread => i.tag}

(* The policy is asked for the tags of a list that was entered with both    *)
(* flags up; skip_pairlist asks only whether to capture.                    *)
AsksSlot    == Step = "car" /\ lazy /\ Call.forced /\ flags.root
AsksCapture == Step = "vcar" /\ lazy /\ flags.root /\ Call.tag # 0
Asks        == AsksSlot \/ AsksCapture
PolicyFor(id) == IF id \in DOMAIN decided THEN {decided[id]} ELSE Policies

(* Which of the parsers reads the next part.                                *)
ChildMode(p) ==
  CASE Step \in {"early", "class", "state", "altattrs"} -> Call.mode
    [] Step = "attrs" -> IF Top.op = "s4" THEN "value" ELSE Call.mode
    [] Step = "elem"  -> Call.elems
    [] Step = "car"   -> IF AsksSlot /\ p \in {"drop", "skip"} THEN "skip" ELSE "value"
    [] Step = "vcar"  -> IF AsksCapture /\ p = "capture" THEN "value" ELSE "skip"
    [] Step = "vnext" -> "skip"
    [] OTHER          -> "value"

(* The flags it runs with.  A slot's value is not an S4 object's list of    *)
(* slots, unless it says so itself.                                         *)
KeepsFlags(f) == f
InValue(f)    == [f EXCEPT !.s4tag = @ /\ ~Call.forced, !.root = @ /\ ~Call.forced]
ChildFlags(p) ==
  CASE Step = "attrs" /\ Top.op = "s4" -> [flags EXCEPT !.s4tag = TRUE, !.root = TRUE]
    [] Step = "car" -> [InValue(flags) EXCEPT !.lenient = @ \/ (AsksSlot /\ p = "skip")]
    [] OTHER        -> flags
ChildLazy(p) == lazy /\ ~(AsksCapture /\ p = "capture")

SeqInit ==
  /\ Init
  /\ calls = <<[mode |-> "value", forced |-> FALSE, tag |-> 0, elems |-> "value",
                saved |-> NoFlags]>>
  /\ flags = NoFlags /\ decided = <<>> /\ applied = "none"

Tagged(id) == calls' = [calls EXCEPT ![Depth].tag = id]

(* parse_tag_sequential_value_async: a reference, or a symbol read in place,*)
(* which takes its slot before its name is read.                            *)
SeqTagRef(i) ==
  /\ ReadTagRef(i)
  /\ Tagged(i.id)
  /\ UNCHANGED <<flags, decided, applied>>

TagNoSlot == refs
TagSlot   == Append(refs, "null")
SeqTagSymbol(i) ==
  /\ Step = "tag" /\ i.type \in SymbolKinds
  /\ refs' = TagSlot
  /\ frames' = Continue(frames, <<"tagname">> \o Rest, i.type = "rownames")
  /\ got' = "none"
  /\ Tagged(i.id)
  /\ Write(i)
  /\ UNCHANGED <<symbols, nesting, inBody, lazy, eof, status, err, flags, decided, applied>>

(* The name of a symbol.                                                    *)
SeqName(i) ==
  /\ Step \in {"name", "tagname"}
  /\ frames' = Continue(frames, Rest, Top.rn)
  /\ IF Step = "tagname"
     THEN /\ refs' = [refs EXCEPT ![Len(refs)] = IF Top.rn THEN "rownames" ELSE "sym"]
          /\ symbols' = Append(symbols, Len(refs))
     ELSE UNCHANGED <<refs, symbols>>
  /\ got' = "none"
  /\ Write(i)
  /\ UNCHANGED <<nesting, inBody, lazy, eof, status, err, callVars>>

(* The next cell of a pairlist, read in place like ParseObject's.  Two ways *)
(* out of that loop are left out: the early one when all the slots that the *)
(* caller wants have been seen, after which the parse is abandoned, and a   *)
(* cell that begins with a symbol, which R does not write.                  *)
ContinuesCells(i) == Step \in {"next", "vnext"} /\ i.type # "ref" /\ (i.tag \/ i.type \in Pairs)
SeqCell(i) ==
  /\ ContinuesCells(i)
  /\ frames' = Continue(frames,
       (IF Step = "vnext" THEN SkipCells(i)
        ELSE TaggedIf(i.tag \/ Call.forced, "tag") \o <<"car", "next">>) \o Rest, FALSE)
  /\ Tagged(0)
  /\ got' = "none"
  /\ Write(i)
  /\ UNCHANGED <<refs, symbols, nesting, inBody, lazy, eof, status, err,
                 flags, decided, applied>>

SeqCalls(i) == Step \notin {"tag", "name", "tagname"} /\ ~ContinuesCells(i)

SeqTooDeep(i) ==
  /\ SeqCalls(i) /\ AtLimit
  /\ Fail("depth")
  /\ UNCHANGED <<rvars, callVars>>

(* Asking the policy settles it for that name.                              *)
Decide(p) ==
  /\ p \in (IF Asks THEN PolicyFor(Call.tag) ELSE {"keep"})
  /\ decided' = IF Asks THEN [x \in DOMAIN decided \cup {Call.tag} |->
                                IF x = Call.tag THEN p ELSE decided[x]]
                ELSE decided
  /\ applied' = IF ~Asks THEN applied
                ELSE IF Top.as = "attrs" /\ frames[Depth - 1].op = "s4" THEN "slot"
                ELSE IF flags.lenient THEN "skipped" ELSE "other"

SeqRef(i, p) ==
  /\ SeqCalls(i) /\ ~AtLimit /\ i.type = "ref"
  /\ Decide(p)
  /\ IF i.id \in DOMAIN refs
     THEN /\ frames' = Continue(frames, Rest, Top.rn)
          /\ got' = "shared"
          /\ UNCHANGED <<refs, symbols, nesting, inBody, lazy, eof, status, err>>
     ELSE Fail("ref")
  /\ Write(i)
  /\ UNCHANGED <<calls, flags>>

(* Lazily, the elements of a vector that is skipped or longer than the      *)
(* threshold are skipped.                                                   *)
ElemMode(m, z, long) == IF z /\ (m = "skip" \/ long) THEN "skip" ELSE "value"

(* A character vector that stays lazy is returned as soon as its strings    *)
(* have been passed over, and its attributes are left unread.               *)
Skimmed(i, long) == i.type = "leaf" /\ i.attr /\ long

NewCall(m, f, z, long) ==
  [mode |-> m, forced |-> f.s4tag, tag |-> 0, elems |-> ElemMode(m, z, long), saved |-> flags]

SeqObject(i, p, long) ==
  /\ SeqCalls(i) /\ ~AtLimit /\ i.type # "ref"
  /\ Decide(p)
  /\ long => lazy /\ (i.type \in {"vec", "expr"} \/ Skimmed(i, "namedStrings" \in Misread))
  /\ flags' = ChildFlags(p) /\ lazy' = ChildLazy(p)
  /\ nesting' = nesting + 1
  /\ refs' = IF i.type \in Tracked THEN Append(refs, "null") ELSE refs
  /\ calls' = Append(calls, NewCall(ChildMode(p), ChildFlags(p), ChildLazy(p), long))
  /\ frames' = Append(Continue(frames, Rest, Top.rn),
                      NewFrame(i.type, Step,
                               IF Skimmed(i, long) THEN <<>>
                               ELSE SeqSteps(i, ChildMode(p), ChildFlags(p)),
                               IF i.type \in Tracked THEN Len(refs) + 1 ELSE 0, ~i.attr))
  /\ got' = "none"
  /\ Write(i)
  /\ UNCHANGED <<symbols, inBody, eof, status, err>>

SeqRead ==
  /\ Busy /\ ~AtEnd
  /\ \E i \in SeqItems :
       \/ SeqTagRef(i) \/ SeqTagSymbol(i) \/ SeqName(i) \/ SeqCell(i) \/ SeqTooDeep(i)
       \/ \E p \in Policies \cup {"keep"} : SeqRef(i, p) \/ \E long \in BOOLEAN : SeqObject(i, p, long)

(* The call returns, and its caller puts back what it had changed for it;   *)
(* one flag could be forgotten.                                             *)
FlagsForgotten == [Call.saved EXCEPT !.lenient = flags.lenient]
FlagsAfter     == Call.saved

SeqReturn ==
  /\ status = "parsing" /\ Depth > 1 /\ Top.todo = <<>>
  /\ refs' = IF Top.ref = 0 THEN refs ELSE [refs EXCEPT ![Top.ref] = ValueOf(Top.op)]
  /\ symbols' = IF Registers(Top) THEN Append(symbols, Top.ref) ELSE symbols
  /\ nesting' = NestingAfter
  /\ flags' = FlagsAfter /\ lazy' = Top.wasLazy
  /\ frames' = SubSeq(frames, 1, Depth - 1) /\ calls' = SubSeq(calls, 1, Depth - 1)
  /\ got' = "none"
  /\ UNCHANGED <<inBody, eof, status, err, rvars, decided, applied>>

(* No read is forgiven the end of the input.                                *)
SeqAtEnd ==
  /\ Busy /\ AtEnd
  /\ Fail("eof")
  /\ UNCHANGED <<rvars, callVars>>

(* An error leaves the flags and the mode as they are.                      *)
SeqUnwind ==
  /\ status = "unwinding"
  /\ IF Depth > 1
     THEN /\ frames' = SubSeq(frames, 1, Depth - 1) /\ calls' = SubSeq(calls, 1, Depth - 1)
          /\ nesting' = NestingAfter
          /\ UNCHANGED status
     ELSE status' = "error" /\ UNCHANGED <<frames, calls, nesting>>
  /\ UNCHANGED <<refs, symbols, inBody, lazy, eof, err, got, rvars, flags, decided, applied>>

SeqParse == SeqRead \/ SeqReturn \/ SeqAtEnd \/ SeqUnwind \/ (Finish /\ UNCHANGED callVars)
SeqNext  == SeqParse \/ (Truncate /\ UNCHANGED callVars)
SeqSpec  == SeqInit /\ [][SeqNext]_seqVars /\ WF_seqVars(SeqParse)
-----------------------------------------------------------------------------
SeqRoleOf(step) ==
  CASE step = "vcar"                -> "item"
    [] step = "vnext"               -> "cdr"
    [] step \in {"name", "tagname"} -> "chars"
    [] OTHER                        -> RoleOf(step)

(* Every variable of the two parsers has its type, and every frame its call.*)
SeqTypeOK ==
  /\ RTypeOK
  /\ \A k \in 1..Depth : \A j \in 1..Len(frames[k].todo) :
       frames[k].todo[j] \in StepNames \cup {"name", "tagname", "vcar", "vnext"}
  /\ nesting \in 0..MaxDepth /\ Len(calls) = Depth
  /\ flags \in [s4tag : BOOLEAN, root : BOOLEAN, lenient : BOOLEAN]
  /\ \A k \in 1..Depth : calls[k].mode \in {"value", "skip"} /\ calls[k].tag \in 0..Len(refs)
  /\ DOMAIN decided \subseteq 1..Len(refs)

(* Parsed, dropped, skipped or captured, an object is read to its end and   *)
(* no further: the two parsers never take an item for another.              *)
SeqAligned ==
  status \in {"parsing", "ok"} /\ eof = "no" =>
    \A k \in 1..Depth :
      LET left == IF k = Depth THEN Len(wtodo) ELSE frames[k + 1].rest
          todo == frames[k].todo
      IN /\ Len(todo) + frames[k].rest = left
         /\ \A j \in 1..Len(todo) : SeqRoleOf(todo[j]) = wtodo[Len(wtodo) - left + j]

(* What is skipped takes the same slots as what is parsed: a later reference*)
(* finds its object whatever the policy threw away before it.               *)
NamePending == Top.todo # <<>> /\ Step = "tagname"
SeqSlotsAligned ==
  status \in {"parsing", "ok"} =>
    /\ Len(refs) = Len(wtable)
    /\ \A i \in 1..Len(refs) :
         refs[i] = IF i \in Filling \/ (NamePending /\ i = Len(refs)) THEN "null"
                   ELSE ValueOf(wtable[i])

(* The policy for slots is asked for the names in the attribute list of an  *)
(* S4 object and never for those of the attributes of a value in it, except *)
(* in what is being skipped anyway.                                         *)
PolicyScoped == applied # "other"

(* The flags are those of the active calls: lenient inside a skipped slot   *)
(* and nowhere else, and lazy again after a captured one.                   *)
SkippedSlots == {k \in 2..Depth : frames[k].as = "car" /\ calls[k].mode = "skip"
                   /\ decided[calls[k - 1].tag] = "skip"}
FlagsFollowCalls ==
  status \in {"parsing", "ok"} =>
    /\ flags.lenient = (SkippedSlots # {})
    /\ flags.root = flags.s4tag
    /\ ~lazy => ~Lazy \/ \E k \in 2..Depth : frames[k].as = "vcar" /\ calls[k].mode = "value"

(* What is returned is all there was: an input that ends early is an error. *)
WholeOrError == status = "ok" => wtodo = <<>>

(* The parsers come to an end.                                              *)
SeqEnds == <>(status \in {"ok", "error"})
=============================================================================
