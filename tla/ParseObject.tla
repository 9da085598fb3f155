---------------------------- MODULE ParseObject ----------------------------
(***************************************************************************)
(* The synchronous value parser of parser.rs: parse_object and the parsers  *)
(* it calls, run against R's serializer (RStream).                          *)
(*                                                                          *)
(* The format has no lengths or end markers for compound objects.  What an  *)
(* item means follows only from the position the reader believes it is at,  *)
(* and a back reference means the slot the reader gave that number to.  So  *)
(* the parser and R have to agree, item by item, on two things neither of   *)
(* them ever sends: what comes next, and which objects took an index.       *)
(*                                                                          *)
(* The Rust call stack is a sequence of frames, one per active parse_object *)
(* call above the root; a frame holds the reads its parser has yet to make. *)
(***************************************************************************)
EXTENDS RStream

CONSTANTS
  MaxDepth,    \* max_nesting_depth, at most 128
  Lazy,        \* ParseMode: does the caller parse lazily?
  Truncates    \* may the input end before R is done?

ASSUME ParserAssumption ==
  MaxDepth \in Nat /\ Lazy \in BOOLEAN /\ Truncates \in BOOLEAN

VARIABLES
  frames,    \* the active calls, the innermost one last
  refs,      \* RefTable: what each slot holds, Null until its object is done
  symbols,   \* SymbolTable: the slots of the symbols, in the order parsed
  nesting,   \* ctx.nesting_depth
  inBody,    \* ctx.parsing_closure_body
  lazy,      \* ctx.mode is lazy
  eof,       \* where the input ends: not here, before an item, inside one
  status,    \* parsing, unwinding after an error, ok, error
  err,       \* the error that parse_object returns
  got        \* what the REFSXP just read resolved to

pvars == <<frames, refs, symbols, nesting, inBody, lazy, eof, status, err, got>>
vars  == <<rvars, pvars>>

(* should_track_reference, and two sets it could be mistaken for.           *)
TrackedNoEnv     == RTracked \ EnvKinds
TrackedCells     == RTracked \cup {"list"}
TrackedNoPersist == RTracked \ {"persist"}
Tracked          == RTracked

(* The types whose attributes come before the data.                         *)
EarlyNoPromise == {"list", "lang", "clo"}
Early          == {"list", "lang", "clo", "prom"}

Pairs    == {"list", "lang", "clo", "prom"}  \* types that continue a pairlist
StepNames == {"item", "elem", "swallow", "fn", "value", "body", "car", "state",
              "env", "formals", "args", "frame", "next", "early", "attrs",
              "class", "tag", "ltag", "chars", "hash", "altattrs", "envattrs"}
Values   == {"null", "chars"} \cup SymbolKinds \cup EnvKinds
Errors   == {"none", "depth", "ref", "tag", "eof"}

(* What the parser of an item of type i.type reads after the item itself.   *)
(* The data of the other types is part of the item: atomic vectors, special *)
(* and builtin functions, bytecode, the names of packages and namespaces.   *)
ParseSymbol      == <<"chars">>
ParseEnvironment == <<"env", "frame", "hash", "envattrs">>
ParseCell(i)     == IfTagged(i, "tag") \o <<"car", "next">>
ParseLanguage(i) == IfTagged(i, "ltag") \o <<"fn", "args">>
ParseClosure     == <<"env", "formals", "body">>
ParsePromise(i)  == IfTagged(i, "env") \o <<"value", "value">>
ParseList(i)     == [j \in 1..i.n |-> "elem"]
ParseExpr(i)     == [j \in 1..i.n |-> "item"]
ParseAltrep      == <<"class", "state", "altattrs">>

EarlyAttrs(i) == IF i.attr /\ i.type \in Early THEN <<"early">> ELSE <<>>
LateAttrs(i)  == IF i.attr /\ i.type \notin Early THEN <<"attrs">> ELSE <<>>

Data(i) ==
  CASE i.type \in SymbolKinds -> ParseSymbol
    [] i.type = "env"         -> ParseEnvironment
    [] i.type = "list"        -> ParseCell(i)
    [] i.type = "lang"        -> ParseLanguage(i)
    [] i.type = "clo"         -> ParseClosure
    [] i.type = "prom"        -> ParsePromise(i)
    [] i.type = "vec"         -> ParseList(i)
    [] i.type = "expr"        -> ParseExpr(i)
    [] i.type = "altrep"      -> ParseAltrep
    [] OTHER                  -> <<>>

Steps(i) == EarlyAttrs(i) \o Data(i) \o LateAttrs(i)

(* The value parse_object stores in the slot of a finished tracked object.  *)
ValueOf(kind) ==
  CASE kind \in {"extptr", "weakref"} -> "null"
    [] kind = "persist"               -> "chars"
    [] OTHER                          -> kind

Depth == Len(frames)
Top   == frames[Depth]
Step  == Head(Top.todo)

(* The call on top of s goes on with the reads in todo; rn tells whether    *)
(* the tag it read last is row.names.                                       *)
Continue(s, todo, rn) == [s EXCEPT ![Len(s)].todo = todo, ![Len(s)].rn = rn]
Rest == Tail(Top.todo)

(* The slots of the objects the active calls are still building.            *)
Filling == {frames[k].ref : k \in 1..Depth} \ {0}

(* rest is no variable of the program: it is how much R still has to write  *)
(* when the call returns, that is, where in the stream its object ends.     *)
NewFrame(op, as, todo, ref, plain) ==
  [op |-> op, as |-> as, todo |-> todo, ref |-> ref, plain |-> plain,
   rn |-> FALSE, wasBody |-> inBody, wasLazy |-> lazy, rest |-> Len(wtodo) - 1]

PInit ==
  /\ frames = << [op |-> "root", as |-> "item", todo |-> <<"item">>, ref |-> 0,
                  plain |-> TRUE, rn |-> FALSE, wasBody |-> FALSE,
                  wasLazy |-> Lazy, rest |-> 0] >>
  /\ refs = <<>> /\ symbols = <<>>
  /\ nesting = 0 /\ inBody = FALSE /\ lazy = Lazy
  /\ eof = "no" /\ status = "parsing" /\ err = "none" /\ got = "none"

Init == RInit /\ PInit

Fail(e) ==
  /\ status' = "unwinding" /\ err' = e /\ got' = "none"
  /\ UNCHANGED <<frames, refs, symbols, nesting, inBody, lazy, eof>>

Busy  == status = "parsing" /\ Top.todo # <<>>
AtEnd == eof = "no" => wtodo = <<>>

(* R's next item, as the reader that asks for it now will find it.          *)
NextItems ==
  IF wtodo = <<>> THEN {} ELSE RefItems(Head(wtodo)) \cup NewItems(Head(wtodo))

(* A tag that is a REFSXP is looked up by parse_pairlist_element itself,    *)
(* first in the reference table, then among the symbols.                    *)
ReadTagRef(i) ==
  /\ Step = "tag" /\ i.type = "ref"
  /\ IF i.id \in DOMAIN refs \/ i.id \in DOMAIN symbols
     THEN LET slot == IF i.id \in DOMAIN refs THEN i.id ELSE symbols[i.id]
          IN /\ frames' = Continue(frames, Rest, refs[slot] = "rownames")
             /\ got' = CASE i.id \notin DOMAIN refs        -> "fallback"
                         [] refs[slot] \in SymbolKinds     -> "symbol"
                         [] refs[slot] \notin SymbolKinds  -> "badtag"
             /\ UNCHANGED <<refs, symbols, nesting, inBody, lazy, eof, status, err>>
     ELSE Fail("tag")
  /\ Write(i)

(* parse_pairlist reads on in place while the items look like cells; it     *)
(* takes every one of them for a cell without attributes.                   *)
ReadCell(i) ==
  /\ Step = "next" /\ i.type # "ref" /\ (i.tag \/ i.type \in Pairs)
  /\ frames' = Continue(frames, Steps(Item("list", FALSE, i.tag, 0, 0)) \o Rest, FALSE)
  /\ got' = "none"
  /\ Write(i)
  /\ UNCHANGED <<refs, symbols, nesting, inBody, lazy, eof, status, err>>

(* Everything else goes through parse_object.                               *)
CallsParseObject(i) ==
  /\ ~(Step = "tag" /\ i.type = "ref")
  /\ ~(Step = "next" /\ i.type # "ref" /\ (i.tag \/ i.type \in Pairs))

(* enter_nesting refuses the call.                                          *)
AboveLimit == nesting > MaxDepth
AtLimit    == nesting >= MaxDepth

EnterFails(i) ==
  /\ CallsParseObject(i) /\ AtLimit
  /\ Fail("depth")
  /\ UNCHANGED rvars

(* A REFSXP: a handle on the slot, except that inside a closure body the    *)
(* handle is replaced by what the slot holds at this moment.                *)
ReadRef(i) ==
  /\ CallsParseObject(i) /\ ~AtLimit /\ i.type = "ref"
  /\ IF i.id \in DOMAIN refs
     THEN /\ frames' = Continue(frames, Rest, Top.rn)
          /\ got' = CASE ~(inBody \/ Step = "body")  -> "shared"
                      [] refs[i.id] \in SymbolKinds   -> "symbol"
                      [] i.id \in Filling             -> "stale"
                      [] OTHER                        -> "copy"
          /\ UNCHANGED <<refs, symbols, nesting, inBody, lazy, eof, status, err>>
     ELSE Fail("ref")
  /\ Write(i)

(* Any other item: a slot first if the type has one, then its parts.        *)
ReadObject(i) ==
  /\ CallsParseObject(i) /\ ~AtLimit /\ i.type # "ref"
  /\ nesting' = nesting + 1
  /\ refs' = IF i.type \in Tracked THEN Append(refs, "null") ELSE refs
  /\ inBody' = (inBody \/ Step = "body")
  /\ lazy' = (lazy /\ ~(Step = "car" /\ Top.rn))
  /\ frames' = Append(Continue(frames, Rest, Top.rn),
                      NewFrame(i.type, Step, Steps(i),
                               IF i.type \in Tracked THEN Len(refs) + 1 ELSE 0,
                               ~i.attr))
  /\ got' = "none"
  /\ Write(i)
  /\ UNCHANGED <<symbols, eof, status, err>>

Read ==
  /\ Busy /\ ~AtEnd
  /\ \E i \in NextItems :
       ReadTagRef(i) \/ ReadCell(i) \/ EnterFails(i) \/ ReadRef(i) \/ ReadObject(i)

(* The heuristic of parse_list: an element that looks like the state of a   *)
(* compact sequence is taken for one, and the item after it is dropped.     *)
Swallows(parent, child) ==
  /\ child.as = "elem" /\ child.op = "real3" /\ child.plain
  /\ parent.todo # <<>> /\ Head(parent.todo) = "elem"

(* Which finished objects the symbol table takes.                           *)
RegistersTracked(f) == f.ref # 0
Registers(f)        == f.op \in SymbolKinds

(* What leaving a call does to the nesting count and the two flags.         *)
NestingKept    == nesting
NestingAfter   == nesting - 1
LazyAfter(f) == IF f.as = "car" THEN f.wasLazy ELSE lazy
BodyCleared(f) == IF f.as = "body" THEN FALSE ELSE inBody
BodyAfter(f)   == IF f.as = "body" THEN f.wasBody ELSE inBody

(* parse_object returns: fill the slot, register a symbol, restore the      *)
(* flags the caller had changed and hand the value over.                    *)
Return ==
  /\ status = "parsing" /\ Depth > 1 /\ Top.todo = <<>>
  /\ refs' = IF Top.ref = 0 THEN refs ELSE [refs EXCEPT ![Top.ref] = ValueOf(Top.op)]
  /\ symbols' = IF Registers(Top) THEN Append(symbols, Top.ref) ELSE symbols
  /\ nesting' = NestingAfter
  /\ inBody' = BodyAfter(Top) /\ lazy' = LazyAfter(Top)
  /\ LET parent == frames[Depth - 1]
     IN frames' = Continue(SubSeq(frames, 1, Depth - 1),
          IF Swallows(parent, Top) THEN <<"swallow">> \o parent.todo ELSE parent.todo,
          IF Top.as = "tag" THEN Top.op = "rownames" ELSE parent.rn)
  /\ got' = "none"
  /\ UNCHANGED <<eof, status, err, rvars>>

(* The input stops, between two items or in the middle of one.              *)
Truncate ==
  /\ Truncates /\ status = "parsing" /\ eof = "no" /\ wtodo # <<>>
  /\ eof' \in {"clean", "ragged"}
  /\ UNCHANGED <<frames, refs, symbols, nesting, inBody, lazy, status, err, got, rvars>>

(* A read at the end of the input.  A pairlist without a terminator and     *)
(* attributes that are not there at all count as NULL.                      *)
StuckAtEnd(todo) == todo
AfterEnd(todo)   == Tail(todo)

ReadAtEnd ==
  /\ Busy /\ AtEnd
  /\ IF eof # "ragged" /\ Step \in {"next", "attrs"}
     THEN /\ frames' = Continue(frames, AfterEnd(Top.todo), Top.rn)
          /\ got' = "none"
          /\ UNCHANGED <<refs, symbols, nesting, inBody, lazy, eof, status, err>>
     ELSE Fail("eof")
  /\ UNCHANGED rvars

(* The error goes up one call.  Only nesting and mode are put back.         *)
Unwind ==
  /\ status = "unwinding"
  /\ IF Depth > 1
     THEN /\ frames' = SubSeq(frames, 1, Depth - 1)
          /\ nesting' = NestingAfter
          /\ lazy' = LazyAfter(Top)
          /\ UNCHANGED status
     ELSE status' = "error" /\ UNCHANGED <<frames, nesting, lazy>>
  /\ UNCHANGED <<refs, symbols, inBody, eof, err, got, rvars>>

Finish ==
  /\ status = "parsing" /\ Depth = 1 /\ Top.todo = <<>>
  /\ status' = "ok" /\ got' = "none"
  /\ UNCHANGED <<frames, refs, symbols, nesting, inBody, lazy, eof, err, rvars>>

Parse == Read \/ Return \/ ReadAtEnd \/ Unwind \/ Finish
Next  == Parse \/ Truncate

(* parse_object is a plain call: while it can go on, it does.               *)
Spec == Init /\ [][Next]_vars /\ WF_vars(Parse)
-----------------------------------------------------------------------------
(* The part R plays at each step of the parser.                             *)
RoleOf(step) ==
  CASE step \in {"item", "elem", "swallow", "fn", "value", "body", "car", "state"}
                                              -> "item"
    [] step \in {"early", "attrs", "class"}    -> "cell"
    [] step \in {"formals", "args", "frame", "next"} -> "cdr"
    [] step \in {"tag", "ltag"}                -> "tag"
    [] step \in {"altattrs", "envattrs"}       -> "attrib"
    [] OTHER                                   -> step

Frames == [op : AllKinds \cup {"root"}, as : StepNames, todo : Seq(StepNames),
           ref : Nat, plain : BOOLEAN, rn : BOOLEAN, wasBody : BOOLEAN,
           wasLazy : BOOLEAN, rest : Nat]

(* Every variable has its type; the frames' reads are among the parser's.   *)
TypeOK ==
  /\ RTypeOK
  /\ frames \in Seq(Frames) /\ frames # <<>>
  /\ refs \in Seq(Values) /\ symbols \in Seq(Nat)
  /\ nesting \in 0..MaxDepth /\ inBody \in BOOLEAN /\ lazy \in BOOLEAN
  /\ eof \in {"no", "clean", "ragged"}
  /\ status \in {"parsing", "unwinding", "ok", "error"}
  /\ err \in Errors
  /\ got \in {"none", "shared", "symbol", "copy", "stale", "fallback", "badtag"}

(* The reads the calls have left are, in order, what R has left to write:   *)
(* the parser never takes an item for something else than R meant.          *)
Aligned ==
  status \in {"parsing", "ok"} /\ eof = "no" =>
    \A k \in 1..Depth :
      LET left == IF k = Depth THEN Len(wtodo) ELSE frames[k + 1].rest
          todo == frames[k].todo
      IN /\ Len(todo) + frames[k].rest = left
         /\ \A j \in 1..Len(todo) : RoleOf(todo[j]) = wtodo[Len(wtodo) - left + j]

(* Slot i of the reference table belongs to the object R numbered i: it     *)
(* holds that object's value, or Null exactly while a call is filling it.   *)
RefsAligned ==
  status \in {"parsing", "ok"} =>
    /\ Len(refs) = Len(wtable)
    /\ \A i \in 1..Len(refs) :
         refs[i] = IF i \in Filling THEN "null" ELSE ValueOf(wtable[i])

(* The symbol table lists the finished symbols, each once, in R's order, so *)
(* its n-th entry never comes before slot n.                                *)
SymbolsInOrder ==
  /\ \A k \in 1..Len(symbols) :
       symbols[k] \in 1..Len(refs) /\ refs[symbols[k]] \in SymbolKinds
  /\ \A j, k \in 1..Len(symbols) : j < k => symbols[j] < symbols[k]

(* A tag reference finds the symbol it was written for, in the reference    *)
(* table and not through the fallback to the symbol table.                  *)
TagsResolve == got \notin {"badtag", "fallback"}

(* Of what RStream lets R write, parse_object reads all that was written in *)
(* full, unless it nests too deep: no reference dangles and no read goes    *)
(* past the end.                                                            *)
OnlyDepthFails == err \in {"none", "depth"} \/ (err = "eof" /\ eof # "no")

(* The nesting budget counts exactly the active calls, on the error path    *)
(* too, so siblings give back what they used.                               *)
NestingBalanced == nesting = Depth - 1

(* Values are read eagerly exactly inside the value of a row.names cell     *)
(* and references are made concrete exactly inside a closure body.          *)
Within(step) == {k \in 2..Depth : frames[k].as = step}
FlagsScoped ==
  status \in {"parsing", "ok"} =>
    /\ inBody = (Within("body") # {})
    /\ lazy = (Lazy /\ {k \in Within("car") : frames[k - 1].rn} = {})

(* The parser always comes to an end: it returns an object or an error.     *)
Termination == <>(status \in {"ok", "error"})

(* What a reference to an object under construction resolves to still sees  *)
(* the object once it is complete.                                          *)
PlaceholdersNeverEscape == got # "stale"

(* The item that parse_list drops after a bare sequence state is the        *)
(* NILVALUE that R is said to write there.                                  *)
DroppedIsNil == \A k \in 1..Depth : frames[k].as = "swallow" => frames[k].op = "nil"

(* A tag reference numbered the way versions up to 0.1.41 numbered it still *)
(* finds its symbol.                                                        *)
OldTagsResolve == got # "badtag"
=============================================================================
