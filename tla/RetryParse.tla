----------------------------- MODULE RetryParse -----------------------------
(***************************************************************************)
(* How the wasm entry points parse an input that arrives piece by piece     *)
(* with parsers that know nothing of pieces: parse_object_async and         *)
(* parse_object_streaming_async give the synchronous parser a window of the *)
(* input, and if it runs off the window's end they put back the context and *)
(* the three tables and try again with a window twice as long.              *)
(*                                                                          *)
(* The grammar is left to ParseObject, StreamParse and SequentialParse.  An *)
(* object is a run of parts here, each with a length and an effect on what  *)
(* has to be put back; lengths are in units of four bytes, the size of a    *)
(* flags word.  Two reads take the end of the window for the end of the     *)
(* object: parse_object for no attributes, the loops over a pairlist's cells*)
(* for the end of the list.  A part is marked with who forgives its absence.*)
(*                                                                          *)
(* Where no window is long enough a streaming parse has two ways on, neither*)
(* of which is the parser it began with: a sequential parser, which shares  *)
(* no strings and takes environments, closures and promises for NULL without*)
(* reading their contents, and a reading of a list child by child.  Such    *)
(* fallbacks for pairlists, calls and S4 objects are not described.         *)
(***************************************************************************)
EXTENDS Naturals, Sequences

CONSTANTS
  Kinds,      \* what the parts of an object may be
  Lengths,    \* how long a part may be
  MaxParts,   \* how many parts an object may have
  Limit,      \* max_buffer_size
  Slack,      \* how many units may follow the object in the input
  Entries,    \* "value": parse_object_async, "stream": parse_object_streaming_async
  Known       \* may the length of the input be known, may it be unknown?

(* A list is its flags word and length, its children are parts of their own.*)
(* Streaming, a string or body is one the walk reads by value: a list's     *)
(* names, what an attribute holds.  The walk itself shares no strings.      *)
PartKinds == {"plain", "vector", "environment", "symbol", "string", "body", "malformed"}
AllKinds  == PartKinds \cup {"list"}

(* Who takes the end of the input for the absence of a part: nobody; only   *)
(* the parser of values, if the part is the attributes that follow an       *)
(* object's data; or the walk as well, if it is a further cell of a pairlist*)
(* or lies within attributes, which the walk reads by value.                *)
Tails == {"no", "late", "inner"}

ASSUME RetryAssumption ==
  /\ Kinds \subseteq PartKinds /\ Lengths \subseteq Nat \ {0} /\ MaxParts \in Nat \ {0}
  /\ Limit \in Nat \ {0, 1} /\ Slack \subseteq Nat /\ Entries \subseteq {"value", "stream"}
  /\ Known \subseteq BOOLEAN

VARIABLES
  input,     \* the object's parts, what the input has of them, how it is read
  call,      \* the parts the active call is to parse: first and last
  pc,        \* open, window, parse, retry, children, done, failed; astray: it
             \* goes on where it has left contents unread, or is not described
  size,      \* the length of the window
  part,      \* the part the synchronous parser is at
  off,       \* how much of the window it has read
  pos,       \* the cursor's position, from the start of the object
  tables,    \* RefTable, SymbolTable, DedupTable and the context's flag
  saved,     \* snapshot and checkpoints
  bare       \* history: the parts that the sequential parser has read

rvars == <<input, call, pc, size, part, off, pos, tables, saved, bare>>

Smaller(a, b) == IF a < b THEN a ELSE b
Larger(a, b)  == IF a > b THEN a ELSE b

(* The tables as an earlier object has left them.                           *)
Earlier == [objects |-> <<"symbol">>, next |-> 2, symbols |-> <<1>>,
            cache |-> <<"x">>, index |-> {<<"x", 1>>}, hits |-> 0, misses |-> 1,
            inBody |-> FALSE]

Bind(f, i, v) == [j \in DOMAIN f \cup {i} |-> IF j = i THEN v ELSE f[j]]

(* What the parser does when it has the flags word of a part, and what when *)
(* it has all of it.  Every string part is the same string.                 *)
Begin(t, kind) ==
  CASE kind \in {"environment", "symbol"} ->
         [t EXCEPT !.objects = Bind(@, t.next, "null"), !.next = @ + 1]
    [] kind = "body" -> [t EXCEPT !.inBody = TRUE]
    [] OTHER -> t

Deduplicate(t) ==
  IF \E e \in t.index : e[1] = "s" /\ e[2] \in DOMAIN t.cache /\ t.cache[e[2]] = "s"
  THEN [t EXCEPT !.hits = @ + 1]
  ELSE [t EXCEPT !.misses = @ + 1, !.cache = Append(@, "s"),
                 !.index = @ \cup {<<"s", Len(t.cache) + 1>>}]

End(t, kind) ==
  CASE kind = "environment" -> [t EXCEPT !.objects[t.next - 1] = kind]
    [] kind = "symbol"      -> [t EXCEPT !.objects[t.next - 1] = kind,
                                         !.symbols = Append(@, t.next - 1)]
    [] kind = "string"      -> Deduplicate(t)
    [] kind = "body"        -> [t EXCEPT !.inBody = FALSE]
    [] OTHER                -> t

Read(t, kind) == End(Begin(t, kind), kind)

(* The parts of o from i to j, read one after the other, and their length.  *)
ReadAll(o, t, i, j) ==
  LET after[k \in (i - 1)..j] == IF k < i THEN t ELSE Read(after[k - 1], o[k].kind)
  IN after[j]
LengthOf(o, i, j) ==
  LET sum[k \in (i - 1)..j] == IF k < i THEN 0 ELSE sum[k - 1] + o[k].len
  IN sum[j]

(* checkpoint and rollback of each table, and rollbacks that leave some of  *)
(* it behind.                                                               *)
RollbackRefsNextKept(t, s) ==
  [t EXCEPT !.objects = [i \in {j \in DOMAIN @ : j < s.next} |-> @[i]]]
RollbackRefs(t, s)        == [RollbackRefsNextKept(t, s) EXCEPT !.next = s.next]
RollbackSymbolsNone(t, s) == t
RollbackSymbols(t, s)     == [t EXCEPT !.symbols = SubSeq(@, 1, Len(s.symbols))]
RollbackDedup(t, s) ==
  [t EXCEPT !.cache = SubSeq(@, 1, Len(s.cache)),
            !.index = {e \in @ : e[2] <= Len(s.cache)},
            !.hits = s.hits, !.misses = s.misses]
Restore(t, s)   == [t EXCEPT !.inBody = s.inBody]
PutBack(t, s)   == Restore(RollbackDedup(RollbackSymbols(RollbackRefs(t, s), s), s), s)

Remaining == input.given - pos
MaxSize   == IF input.known THEN Smaller(Limit, Remaining) ELSE Limit

(* The parts of an object, the first of which is no other's tail.           *)
First  == [kind : Kinds, len : Lengths, tail : {"no"}]
Later  == [kind : Kinds, len : Lengths, tail : Tails \ {"no"}]
Header == [kind |-> "list", len |-> 2, tail |-> "no"]
SomeOf(S) == UNION {[1..n -> S] : n \in 0..(MaxParts - 1)}
Led(p, S) == {<<p>> \o c : c \in SomeOf(S)}
Objects   == (UNION {Led(p, Later) : p \in First}) \cup Led(Header, First \cup Later)

(* What follows the object, or is missing of it, is the rest of the input.  *)
Init ==
  /\ \E o \in Objects, e \in Entries, k \in Known :
       \E whole \in BOOLEAN, s \in Slack :
         input = [parts |-> o, entry |-> e, known |-> k,
                  given |-> IF whole THEN LengthOf(o, 1, Len(o)) + s ELSE LengthOf(o, 1, Len(o)) - 1]
  /\ call = [first |-> 1, last |-> Len(input.parts)]
  /\ pc = "open" /\ size = 0 /\ part = 1 /\ off = 0 /\ pos = 0
  /\ tables = Earlier /\ saved = Earlier /\ bare = {}

Streaming   == input.entry = "stream"
Kind(i)     == input.parts[i].kind
TailOf(i)   == input.parts[i].tail
Absent(i)   == \A j \in i..Len(input.parts) : TailOf(j) # "no"
Fails       == pc' = "failed" /\ UNCHANGED <<input, call, size, part, off, pos, saved, bare>>

(* The parts as one pass reads them, but for the strings that the sequential*)
(* parser has read, which it does not share.                                *)
Taken(b) ==
  [i \in 1..Len(input.parts) |->
     IF i \in b /\ Kind(i) = "string" THEN [input.parts[i] EXCEPT !.kind = "plain"]
                                      ELSE input.parts[i]]

(* A call ends with part n: the root's, or that of a child of a list that is*)
(* read child by child.  If the child has parts left, the next is looked for*)
(* in the middle of it.                                                     *)
IsChild == call.first > 1
CallEnds(n) ==
  /\ pos' = pos + LengthOf(input.parts, call.first, n)
  /\ pc' = CASE ~IsChild                                          -> "done"
             [] IsChild /\ (n = call.last \/ call.last = Len(input.parts)) -> "children"
             [] OTHER                                             -> "astray"

(* The sequential parser reads the call's parts from the tables t, up to one*)
(* that is cut or malformed, or that it leaves unread.                      *)
LeftUnread == {"environment", "body"}
Obstructed(i) ==
  \/ Kind(i) \in LeftUnread \cup {"malformed"}
  \/ LengthOf(input.parts, call.first, i) > Remaining
Sequentially(t) ==
  \E n \in (call.first - 1)..call.last :
    /\ \A i \in call.first..n : ~Obstructed(i)
    /\ n < call.last => Obstructed(n + 1)
    /\ bare' = bare \cup (call.first..n)
    /\ tables' = ReadAll(Taken(bare'), t, call.first, n)
    /\ IF n = call.last
       THEN CallEnds(n)
       ELSE /\ pc' = IF /\ Kind(n + 1) \in LeftUnread
                        /\ LengthOf(input.parts, call.first, n) < Remaining
                     THEN "astray" ELSE "failed"
            /\ UNCHANGED pos
    /\ UNCHANGED <<input, call, size, part, off, saved>>

(* A vector is not read through a window at all when it is streamed: its    *)
(* data are skipped and its attributes read by the sequential parser.       *)
BypassesWindow ==
  /\ Streaming /\ Kind(call.first) = "vector" /\ TailOf(call.first) = "no"
  /\ call.first < call.last => TailOf(call.first + 1) = "late"

StreamVector ==
  /\ pc = "open" /\ BypassesWindow
  /\ Sequentially(tables)

(* The estimate needs two words of the object; it depends on its type and   *)
(* length and may be anything.  A value is not read from an input of unknown*)
(* length.                                                                  *)
Ahead == 2
Open ==
  /\ pc = "open" /\ ~BypassesWindow
  /\ IF Remaining < Ahead \/ (~Streaming /\ ~input.known)
     THEN Fails /\ UNCHANGED tables
     ELSE /\ \E estimate \in 1..Limit : size' = Smaller(estimate, Larger(MaxSize, 1))
          /\ pc' = "window" /\ off' = 0
          /\ UNCHANGED <<input, call, part, pos, tables, saved, bare>>

(* ensure_available and the snapshot.                                       *)
Window ==
  /\ pc = "window"
  /\ IF size > Remaining
     THEN Fails /\ UNCHANGED tables
     ELSE /\ pc' = "parse" /\ saved' = tables
          /\ part' = call.first /\ off' = 0
          /\ UNCHANGED <<input, call, size, pos, tables, bare>>

(* The synchronous parser reads the next part.                              *)
ReadPart ==
  /\ pc = "parse" /\ part <= call.last
  /\ off + input.parts[part].len <= size /\ Kind(part) # "malformed"
  /\ tables' = Read(tables, Kind(part))
  /\ off' = off + input.parts[part].len /\ part' = part + 1
  /\ UNCHANGED <<input, call, pc, size, pos, saved, bare>>

(* The window ends where a part would start that may be absent.  A value is *)
(* then complete.  The walk, too, takes it for the end of a pairlist's cells*)
(* or of attributes; but it may have more to read, and then it runs off the *)
(* end where it is strict.                                                  *)
MayEndHere ==
  /\ part \in (call.first + 1)..call.last /\ off = size
  /\ \A i \in part..call.last : TailOf(i) # "no"
  /\ Streaming => TailOf(part) = "inner"
MustEndHere ==
  /\ MayEndHere
  /\ Streaming => \A i \in part..call.last : TailOf(i) = "inner"

(* It runs off the end of the window inside the part, or before its flags.  *)
Cut ==
  /\ pc = "parse" /\ part <= call.last
  /\ off + input.parts[part].len > size /\ ~MustEndHere
  /\ tables' = IF off < size THEN Begin(tables, Kind(part)) ELSE tables
  /\ pc' = "retry"
  /\ UNCHANGED <<input, call, size, part, off, pos, saved, bare>>

(* Any other error goes up as it is.                                        *)
Malformed ==
  /\ pc = "parse" /\ part <= call.last
  /\ off + input.parts[part].len <= size /\ Kind(part) = "malformed"
  /\ Fails
  /\ UNCHANGED tables

Succeed ==
  /\ pc = "parse" /\ (part > call.last \/ MayEndHere)
  /\ CallEnds(part - 1)
  /\ UNCHANGED <<input, call, size, part, off, tables, saved, bare>>

(* The next window, with one that is not clamped and one that does not grow,*)
(* and when there is none.                                                  *)
Unclamped  == 2 * size
NotGrown   == Smaller(MaxSize, size)
Doubled    == Smaller(MaxSize, 2 * size)
NearlyMost == 2 * size >= MaxSize
AtMost     == size >= MaxSize

Retry ==
  /\ pc = "retry" /\ ~AtMost
  /\ tables' = PutBack(tables, saved)
  /\ size' = Doubled /\ pc' = "window"
  /\ UNCHANGED <<input, call, part, off, pos, saved, bare>>

(* The longest window is too short.  Which error it was decides what comes  *)
(* next: that a vector exceeds the window's end is not rolled back when the *)
(* input's length is known.                                                 *)
VectorExceeds == Kind(part) = "vector" /\ off < size
GiveUp ==
  /\ pc = "retry" /\ AtMost
  /\ tables' \in {PutBack(tables, saved)} \cup (IF VectorExceeds /\ input.known THEN {tables} ELSE {})
  /\ Fails

(* Streaming, an early end of the window makes the call read the value from *)
(* the cursor, item by item, and report it as a whole.                      *)
ReadSequentially ==
  /\ pc = "retry" /\ AtMost /\ Streaming
  /\ Sequentially(PutBack(tables, saved))

(* Streaming an input of unknown length, a list with a vector too long for  *)
(* any window is started once more and its children are read one by one,    *)
(* each as an object of its own, and its attributes after them.             *)
IsList == Kind(call.first) = "list"
ReadChildren ==
  /\ pc = "retry" /\ AtMost /\ Streaming /\ ~input.known
  /\ VectorExceeds /\ IsList
  /\ tables' = PutBack(tables, saved)
  /\ pc' = "children" /\ pos' = pos + input.parts[1].len
  /\ call' = [first |-> 1, last |-> 1]
  /\ UNCHANGED <<input, size, part, off, saved, bare>>

(* The pairlist, the call and the S4 object that are read in this way are   *)
(* not described.                                                           *)
ReadOtherwise ==
  /\ pc = "retry" /\ AtMost /\ Streaming /\ ~input.known
  /\ VectorExceeds /\ ~IsList
  /\ tables' = PutBack(tables, saved)
  /\ pc' = "astray"
  /\ UNCHANGED <<input, call, size, part, off, pos, saved, bare>>

(* The next child is a part with what follows it as its own; what follows   *)
(* the last child may also be the list's.                                   *)
ChildEnds ==
  {n \in (call.last + 1)..Len(input.parts) :
     /\ \A i \in (call.last + 2)..n : TailOf(i) # "no"
     /\ n < Len(input.parts) =>
          TailOf(n + 1) = "no" \/ (TailOf(n + 1) = "late" /\ Absent(n + 1))}
NextChild ==
  /\ pc = "children"
  /\ IF call.last < Len(input.parts)
     THEN /\ \E n \in ChildEnds : call' = [first |-> call.last + 1, last |-> n]
          /\ pc' = "open"
     ELSE pc' = "done" /\ UNCHANGED call
  /\ UNCHANGED <<input, size, part, off, pos, tables, saved, bare>>

Next ==
  \/ StreamVector \/ Open \/ Window \/ ReadPart \/ Cut \/ Malformed \/ Succeed
  \/ Retry \/ GiveUp \/ ReadSequentially \/ ReadChildren
  \/ ReadOtherwise \/ NextChild

(* The future is polled until it is ready.                                  *)
Spec == Init /\ [][Next]_rvars /\ WF_rvars(Next)
-----------------------------------------------------------------------------
(* Every variable has its type; the window is never longer than the buffer  *)
(* may be.                                                                  *)
TypeOK ==
  /\ pc \in {"open", "window", "parse", "retry", "children", "done", "failed", "astray"}
  /\ size \in 0..Limit /\ off \in 0..size /\ pos \in 0..input.given
  /\ part \in 1..(Len(input.parts) + 1) /\ bare \subseteq 1..Len(input.parts)
  /\ call.first \in 1..Len(input.parts) /\ call.last \in call.first..Len(input.parts)
  /\ DOMAIN tables.objects \subseteq 1..(tables.next - 1)

(* Each attempt starts from the tables that the parts before the call left, *)
(* however far the attempts before it came.                                 *)
AttemptsStartClean ==
  pc = "window" => tables = ReadAll(Taken(bare), Earlier, 1, call.first - 1)

(* What is returned is what a single pass over the object returns, from the *)
(* first part to the one the cursor stands behind: the same slots, symbols  *)
(* and cached values, the flag down.  There are two differences, and no     *)
(* others: the strings that the sequential parser has read are not cached,  *)
(* and attributes and further cells of a pairlist may be missing, since a   *)
(* window ended before them.  Nothing is said of a parse that goes astray.  *)
AsInOnePass ==
  pc = "done" => \E n \in 1..Len(input.parts) :
                   /\ tables = ReadAll(Taken(bare), Earlier, 1, n)
                   /\ pos = LengthOf(input.parts, 1, n)
                   /\ Absent(n + 1)

(* An object that is all there, well-formed and no longer than the buffer   *)
(* may become is parsed, if the length of the input is known and it has two *)
(* words; except a streamed vector with an environment or a closure among   *)
(* its attributes, which the sequential parser leaves unread.               *)
Readable ==
  /\ LengthOf(input.parts, 1, Len(input.parts)) <= Smaller(Limit, input.given)
  /\ \A i \in 1..Len(input.parts) : Kind(i) # "malformed"
FitsMeansParsed ==
  pc \in {"failed", "astray"} =>
    \/ ~Readable \/ ~input.known \/ input.given < Ahead
    \/ pc = "astray" /\ BypassesWindow /\ \E i \in 1..Len(input.parts) : Kind(i) \in LeftUnread

(* The attempts come to an end.                                             *)
AttemptsEnd == <>(pc \in {"done", "failed", "astray"})

(* The same of every input.  It does not hold, and no run checks it: the    *)
(* cursor asks for two words of an input that has one, and for more than is *)
(* left where it cannot know what is left.                                  *)
ReadableMeansParsed == pc = "failed" => ~Readable

(* A parse that returns has read the whole object.  It does not hold, and no*)
(* run checks it: the window may end just before the attributes of an       *)
(* object, whose absence is then no error.                                  *)
WholeWhenReturned ==
  pc = "done" => pos = LengthOf(input.parts, 1, Len(input.parts))
=============================================================================
