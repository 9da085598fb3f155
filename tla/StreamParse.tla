---------------------------- MODULE StreamParse ----------------------------
(***************************************************************************)
(* The synchronous streaming traversal of parser.rs: parse_object_streaming *)
(* walks the stream and reports what it meets to a visitor, which answers   *)
(* every object with Continue, Skip or Stop.                                *)
(*                                                                          *)
(* The traversal runs beside the value parser of ParseObject: names, tags,  *)
(* attributes and the parts of an ALTREP item are read with parse_object,   *)
(* on the same cursor and with the same tables, so its frames and actions   *)
(* are used here as they are.  The frames of the traversal are the lowest   *)
(* ones of the stack, one per entry of walk.                                *)
(***************************************************************************)
EXTENDS ParseObject

CONSTANT Answers    \* what the visitor may answer: Continue, Skip, Stop

ASSUME VisitorAssumption ==
  Answers \subseteq {"Continue", "Skip", "Stop"} /\ Answers # {}

VARIABLES
  walk,      \* per traversal call: is it reported, are its parts, ...
  path,      \* the path of the object at hand, shared by all calls
  refPaths,  \* StreamingRefTable: slot -> path
  stopped,   \* StreamControl::Stop is on its way up
  open,      \* the visitor's own account: paths started and not ended
  nested,    \* it never heard an end that was not the innermost start's
  told,      \* the objects with an index it heard of, index -> path
  target     \* the last shared reference it heard of

visitorVars == <<open, nested, told, target>>
walkVars    == <<walk, path, refPaths, stopped, visitorVars>>
streamVars  == <<vars, walkVars>>

(* The steps that the traversal reads with parse_object, and those that read*)
(* nothing: where the visitor hears of the object, of a value among its     *)
(* attributes, and of the end of that value.                                *)
ByParseObject == {"early", "attrs", "tag", "ltag", "chars", "class", "state",
                  "altattrs"}
Silent        == {"start", "report", "endreport"}
Quiet         == {"tail", "attrib"}   \* parts read with emit = false
Segments      == {"root", "element", "cell", "function", "args", "formals",
                  "body", "environment", "enclosing", "frame", "hashtab",
                  "value", "expression"} \cup Quiet

WalkCell(i)     == IfTagged(i, "tag") \o <<"cell", "tail">>
WalkLanguage(i) == IfTagged(i, "ltag") \o <<"function", "args">>
WalkClosure     == <<"formals", "body", "environment">>
WalkPromise     == <<"value", "expression", "environment">>
WalkList(i)     == [j \in 1..i.n |-> "element"]
WalkExpression(i) == [j \in 1..i.n |-> "element"]
WalkSymbol      == ParseSymbol
WalkAltrep      == ParseAltrep

(* The attributes of an environment are on the wire even if it has none; a  *)
(* walk could leave them unread.                                            *)
WalkEnvironmentNoAttrib == <<"enclosing", "frame", "hashtab">>
WalkEnvironment         == <<"enclosing", "frame", "hashtab", "attrib">>

WalkData(i) ==
  CASE i.type \in SymbolKinds    -> WalkSymbol
    [] i.type = "env"            -> WalkEnvironment
    [] i.type = "list"           -> WalkCell(i)
    [] i.type = "lang"           -> WalkLanguage(i)
    [] i.type = "clo"            -> WalkClosure
    [] i.type = "prom"           -> WalkPromise
    [] i.type = "vec"            -> WalkList(i)
    [] i.type = "expr"           -> WalkExpression(i)
    [] i.type = "altrep"         -> WalkAltrep
    [] OTHER                     -> <<>>

Reported(attrs) == IF attrs = <<>> THEN <<>> ELSE <<"report">>
OnceStarted(i) == Reported(EarlyAttrs(i)) \o WalkData(i)
                    \o LateAttrs(i) \o Reported(LateAttrs(i))
WalkSteps(i) == EarlyAttrs(i) \o (<<"start">> \o OnceStarted(i))

Calls    == Len(walk)
Here     == walk[Calls]
InWalk   == Depth = Calls + 1               \* the innermost call is a traversal
WalkReads == InWalk /\ Busy /\ Step \in Segments
ToParse  == Busy /\ (~InWalk \/ Step \in ByParseObject)

(* emit of the call for the next part, and whether it has a segment.        *)
Emits    == IF walk = <<>> THEN TRUE ELSE Here.kids /\ Step \notin Quiet
Counted  == IF walk = <<>> THEN walk ELSE [walk EXCEPT ![Calls].count = @ + 1]
Down     == IF Emits /\ walk # <<>> THEN Append(path, <<Step, Here.count>>) ELSE path

(* The path after a call has returned to its caller, whether it goes on or  *)
(* stops; and that of a caller that forgets to shorten it when it stops.    *)
Shorter == IF Here.emit /\ Calls > 1 THEN SubSeq(path, 1, Len(path) - 1) ELSE path
UpContinue(control) == IF control = "Stop" THEN path ELSE Shorter
Up(control)         == Shorter

Bind(f, k, v) == [x \in DOMAIN f \cup {k} |-> IF x = k THEN v ELSE f[x]]
NoTarget      == [id |-> 0, known |-> FALSE, path |-> <<>>]

StreamInit ==
  /\ RInit
  /\ frames = << [op |-> "root", as |-> "root", todo |-> <<"root">>, ref |-> 0,
                  plain |-> TRUE, rn |-> FALSE, wasBody |-> FALSE,
                  wasLazy |-> Lazy, rest |-> 0] >>
  /\ refs = <<>> /\ symbols = <<>>
  /\ nesting = 0 /\ inBody = FALSE /\ lazy = Lazy
  /\ eof = "no" /\ status = "parsing" /\ err = "none" /\ got = "none"
  /\ walk = <<>> /\ path = <<>> /\ refPaths = <<>> /\ stopped = FALSE
  /\ open = <<>> /\ nested = TRUE /\ told = <<>> /\ target = NoTarget

(* What the visitor hears when an object ends.                              *)
HearEnd ==
  /\ nested' = (nested /\ open # <<>> /\ open[Len(open)] = path)
  /\ open' = IF open = <<>> THEN open ELSE SubSeq(open, 1, Len(open) - 1)

(* The look-up of a reference's path by index, and one that counts only the *)
(* references the traversal itself has met.                                 *)
PathOf(slot)    == [id |-> slot, known |-> slot \in DOMAIN refPaths,
                    path |-> IF slot \in DOMAIN refPaths THEN refPaths[slot] ELSE <<>>]
SlotOfNextPath  == Cardinality(DOMAIN refPaths) + 1
SlotOfNext      == Len(refs) + 1

(* A REFSXP in the walk: start, shared reference, end, all at once.         *)
WalkRef(i) ==
  /\ WalkReads /\ ~AtLimit /\ i.type = "ref"
  /\ frames' = Continue(frames, Rest, Top.rn)
  /\ walk' = Counted
  /\ target' = IF Emits THEN PathOf(i.id) ELSE target
  /\ got' = "none"
  /\ Write(i)
  /\ UNCHANGED <<refs, symbols, nesting, inBody, lazy, eof, status, err,
                 path, refPaths, stopped, open, nested, told>>

(* The cells after the first are read in place: no call, no attributes.     *)
(* R never writes a REFSXP there.                                           *)
ContinuesPairlist(i) == Step = "tail" /\ (i.tag \/ i.type \in Pairs)

WalkNextCell(i) ==
  /\ WalkReads /\ ContinuesPairlist(i)
  /\ frames' = Continue(frames, WalkCell(i) \o Rest, FALSE)
  /\ got' = "none"
  /\ Write(i)
  /\ UNCHANGED <<refs, symbols, nesting, inBody, lazy, eof, status, err, walkVars>>

(* Any other item begins a call of its own.                                 *)
WalkObject(i) ==
  /\ WalkReads /\ ~ContinuesPairlist(i) /\ ~AtLimit /\ i.type # "ref"
  /\ nesting' = nesting + 1
  /\ frames' = Append(Continue(frames, Rest, Top.rn),
                      NewFrame(i.type, Step, WalkSteps(i), 0, FALSE))
  /\ walk' = Append(Counted, [emit |-> Emits, kids |-> Emits, id |-> i.id, count |-> 0])
  /\ path' = Down
  /\ got' = "none"
  /\ Write(i)
  /\ UNCHANGED <<refs, symbols, inBody, lazy, eof, status, err, refPaths,
                 stopped, visitorVars>>

WalkTooDeep(i) ==
  /\ WalkReads /\ ~ContinuesPairlist(i) /\ AtLimit
  /\ Fail("depth")
  /\ UNCHANGED <<rvars, walkVars>>

(* on_object_start.  The slot of a tracked object is taken just before, so  *)
(* that it is taken whatever the visitor answers.                           *)
SlotIfHeard == Top.op \in Tracked /\ Here.emit
SlotTaken   == Top.op \in Tracked

TakeSlot ==
  IF SlotTaken
  THEN /\ refs' = Append(refs, "null")
       /\ refPaths' = Bind(refPaths, SlotOfNext, path)
  ELSE UNCHANGED <<refs, refPaths>>

Started == [frames EXCEPT ![Depth].todo = Rest,
                          ![Depth].ref = IF SlotTaken THEN SlotOfNext ELSE 0]

HearStart ==
  /\ open' = Append(open, path)
  /\ told' = IF Here.id = 0 THEN told ELSE Bind(told, Here.id, path)

StartSilently ==
  /\ status = "parsing" /\ InWalk /\ Top.todo # <<>> /\ Step = "start" /\ ~Here.emit
  /\ TakeSlot /\ frames' = Started
  /\ got' = "none"
  /\ UNCHANGED <<symbols, nesting, inBody, lazy, eof, status, err, rvars,
                 walk, path, stopped, visitorVars>>

(* Continue and Skip differ in whether the parts are reported.              *)
Start(answer) ==
  /\ status = "parsing" /\ InWalk /\ Top.todo # <<>> /\ Step = "start" /\ Here.emit
  /\ answer \in {"Continue", "Skip"}
  /\ TakeSlot /\ frames' = Started
  /\ walk' = [walk EXCEPT ![Calls].kids = answer = "Continue"]
  /\ HearStart
  /\ got' = "none"
  /\ UNCHANGED <<symbols, nesting, inBody, lazy, eof, status, err, rvars, path,
                 stopped, nested, target>>

(* The caller of a call that was told to stop leaves its loop; what it      *)
(* still does is read its attributes, if they come last.                    *)
KeepsGoing(todo) == todo
AfterStop(todo)  == IF Len(todo) > 1 /\ todo[Len(todo) - 1] = "attrs"
                    THEN <<"attrs", "report">> ELSE <<>>

Popped(todo) == Continue(SubSeq(frames, 1, Depth - 1), todo, frames[Depth - 1].rn)

(* Stop: the call returns at once, with no end for its object.              *)
StartStop ==
  /\ status = "parsing" /\ InWalk /\ Top.todo # <<>> /\ Step = "start" /\ Here.emit
  /\ TakeSlot
  /\ frames' = Popped(AfterStop(frames[Depth - 1].todo))
  /\ walk' = SubSeq(walk, 1, Calls - 1)
  /\ path' = Up("Stop")
  /\ nesting' = NestingAfter
  /\ stopped' = TRUE /\ got' = "none"
  /\ told' = IF Here.id = 0 THEN told ELSE Bind(told, Here.id, path)
  /\ UNCHANGED <<symbols, inBody, lazy, eof, status, err, rvars, open, nested, target>>

StartObject ==
  \/ StartSilently
  \/ \E a \in Answers : Start(a)
  \/ "Stop" \in Answers /\ StartStop

(* The call returns: a symbol is complete, the visitor hears the end.       *)
EndObject ==
  /\ status = "parsing" /\ InWalk /\ Calls > 0 /\ Top.todo = <<>>
  /\ refs' = IF Registers(Top) THEN [refs EXCEPT ![Top.ref] = Top.op] ELSE refs
  /\ symbols' = IF Registers(Top) THEN Append(symbols, Top.ref) ELSE symbols
  /\ IF Here.emit THEN HearEnd ELSE UNCHANGED <<open, nested>>
  /\ frames' = LET todo == frames[Depth - 1].todo
               IN Popped(IF stopped THEN AfterStop(todo) ELSE todo)
  /\ walk' = SubSeq(walk, 1, Calls - 1)
  /\ path' = Up(IF stopped THEN "Stop" ELSE "Continue")
  /\ nesting' = NestingAfter
  /\ got' = "none"
  /\ UNCHANGED <<inBody, lazy, eof, status, err, rvars, refPaths, stopped, told, target>>

(* The values of attributes are reported after all of them were read, each  *)
(* with the objects inside it.  One value, with at most one object inside,  *)
(* stands for them.  A Stop here only ends the value at hand.               *)
ReportingOf(todo) == Len(SelectSeq(todo, LAMBDA s : s = "endreport"))
AtReport(step)    == status = "parsing" /\ InWalk /\ Top.todo # <<>> /\ Step = step

Report(answer) ==
  /\ AtReport("report")
  /\ IF Here.kids /\ answer = "Continue"
     THEN /\ \E inside \in {<<>>, <<"report">>} :
               /\ inside # <<>> => ReportingOf(Rest) = 0
               /\ frames' = Continue(frames, inside \o <<"endreport">> \o Rest, Top.rn)
          /\ path' = Append(path, <<"attribute", 0>>)
          /\ open' = Append(open, path')
     ELSE frames' = Continue(frames, Rest, Top.rn) /\ UNCHANGED <<path, open>>
  /\ got' = "none"
  /\ UNCHANGED <<refs, symbols, nesting, inBody, lazy, eof, status, err, rvars,
                 walk, refPaths, stopped, nested, told, target>>

ReportEnd ==
  /\ AtReport("endreport")
  /\ HearEnd /\ path' = SubSeq(path, 1, Len(path) - 1)
  /\ frames' = Continue(frames, Rest, Top.rn) /\ got' = "none"
  /\ UNCHANGED <<refs, symbols, nesting, inBody, lazy, eof, status, err, rvars,
                 walk, refPaths, stopped, told, target>>

(* Attributes that are read after a part was told to stop start somewhere   *)
(* inside that part: parse_object makes of them what it can, or fails.      *)
ReadAfterStop ==
  /\ stopped /\ Busy /\ InWalk /\ Step \notin Silent
  /\ \/ \E e \in {"eof", "ref"} : Fail(e)
     \/ /\ frames' = Continue(frames, Rest, Top.rn) /\ got' = "none"
        /\ UNCHANGED <<refs, symbols, nesting, inBody, lazy, eof, status, err>>
  /\ UNCHANGED <<rvars, walkVars>>

(* parse_object on behalf of the traversal.                                 *)
ParseForWalk ==
  \/ /\ ~stopped /\ ToParse /\ ~AtEnd
     /\ \E i \in NextItems :
          ReadTagRef(i) \/ ReadCell(i) \/ EnterFails(i) \/ ReadRef(i) \/ ReadObject(i)
     /\ UNCHANGED walkVars
  \/ ~InWalk /\ Return /\ UNCHANGED walkVars

(* The input ends.  A pairlist takes that for its terminator.               *)
StreamAtEnd ==
  /\ ~stopped /\ AtEnd /\ Busy /\ Step \notin Silent
  /\ IF InWalk /\ Step = "tail" /\ eof # "ragged"
     THEN /\ frames' = Continue(frames, AfterEnd(Top.todo), Top.rn) /\ got' = "none"
          /\ UNCHANGED <<refs, symbols, nesting, inBody, lazy, eof, status, err>>
          /\ UNCHANGED rvars
     ELSE IF InWalk THEN Fail("eof") /\ UNCHANGED rvars ELSE ReadAtEnd
  /\ UNCHANGED walkVars

StreamUnwind ==
  /\ Unwind
  /\ walk' = IF InWalk /\ Calls > 0 THEN SubSeq(walk, 1, Calls - 1) ELSE walk
  /\ UNCHANGED <<path, refPaths, stopped, visitorVars>>

Walk ==
  /\ ~AtEnd
  /\ \E i \in NextItems : WalkRef(i) \/ WalkNextCell(i) \/ WalkObject(i) \/ WalkTooDeep(i)

Traverse ==
  \/ Walk \/ StartObject \/ (\E a \in Answers : Report(a)) \/ ReportEnd
  \/ EndObject \/ ReadAfterStop \/ ParseForWalk
  \/ StreamAtEnd \/ StreamUnwind
  \/ Finish /\ UNCHANGED walkVars

StreamNext == Traverse \/ (Truncate /\ UNCHANGED walkVars)
StreamSpec == StreamInit /\ [][StreamNext]_streamVars /\ WF_streamVars(Traverse)
-----------------------------------------------------------------------------
(* The part R plays at each step of the traversal.  The parts of closures   *)
(* and promises are not where their labels say.                             *)
WalkRoleOf(step) ==
  CASE step \in {"root", "element", "cell", "function", "expression", "environment"}
                                              -> "item"
    [] step \in {"formals", "enclosing", "value"} -> "env"
    [] step \in {"body", "tail"}               -> "cdr"
    [] step = "hashtab"                       -> "hash"
    [] OTHER                                  -> RoleOf(step)

(* The steps among todo that read something.                                *)
Loud(todo) ==
  LET upTo[n \in 0..Len(todo)] ==
        IF n = 0 THEN <<>>
        ELSE IF todo[n] \in Silent THEN upTo[n - 1] ELSE Append(upTo[n - 1], todo[n])
  IN upTo[Len(todo)]

(* Every variable of the traversal has its type.                            *)
StreamTypeOK ==
  /\ RTypeOK
  /\ \A k \in 1..Depth : \A j \in 1..Len(frames[k].todo) :
       frames[k].todo[j] \in StepNames \cup Segments \cup Silent
  /\ nesting \in 0..MaxDepth /\ status \in {"parsing", "unwinding", "ok", "error"}
  /\ \A k \in 1..Calls :
       /\ walk[k].emit \in BOOLEAN /\ walk[k].kids \in BOOLEAN
       /\ walk[k].kids => walk[k].emit
       /\ walk[k].emit /\ k > 1 => walk[k - 1].kids
  /\ Calls < Depth /\ stopped \in BOOLEAN /\ nested \in BOOLEAN

(* The traversal and parse_object together read what R wrote: what the      *)
(* calls have left is, in order, what R has left to write, whatever the     *)
(* visitor answers, as long as it does not stop the walk.                   *)
WalkAligned ==
  status \in {"parsing", "ok"} /\ eof = "no" /\ ~stopped =>
    \A k \in 1..Depth :
      LET left == IF k = Depth THEN Len(wtodo) ELSE frames[k + 1].rest
          todo == Loud(frames[k].todo)
      IN /\ Len(todo) + frames[k].rest = left
         /\ \A j \in 1..Len(todo) :
              (IF k <= Calls + 1 THEN WalkRoleOf(todo[j]) ELSE RoleOf(todo[j]))
                = wtodo[Len(wtodo) - left + j]

(* Skipped or reported, an object with an index takes the slot R numbered:  *)
(* a tag reference inside a part the visitor skipped still finds its        *)
(* symbol.  Only symbols are kept; other objects leave Null.                *)
StartPending == InWalk /\ Top.todo # <<>> /\ Step = "start" /\ Top.op \in Tracked
WalkSlotsAligned ==
  status \in {"parsing", "ok"} /\ ~stopped =>
    /\ Len(refs) + (IF StartPending THEN 1 ELSE 0) = Len(wtable)
    /\ \A i \in 1..Len(refs) :
         IF i \in Filling THEN refs[i] = "null"
         ELSE refs[i] = ValueOf(wtable[i]) \/ (refs[i] = "null" /\ wtable[i] \notin SymbolKinds)

(* The visitor hears ends in the reverse order of the starts, each with the *)
(* path of its start, and at the end of the walk nothing is left open,      *)
(* even if it stopped the walk in the middle.                               *)
EventsNested == nested /\ (status = "ok" => open = <<>>)

(* A shared reference to an object the visitor heard of names the path it   *)
(* heard it under, however many objects took a slot unheard in between.     *)
SharedTargets ==
  target.id \in DOMAIN told => target.known /\ target.path = told[target.id]

(* After a Stop the visitor hears of no further object of the walk: only    *)
(* the ends of those it has open, and the attributes they still read.       *)
NothingAfterStop ==
  [][stopped /\ Len(open') > Len(open) => Step = "report"]_streamVars

=============================================================================
