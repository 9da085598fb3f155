----------------------------- MODULE LazyVectors -----------------------------
(***************************************************************************)
(* Reading a vector in pieces: the chunk iterators (chunk_iter.rs and       *)
(* wasm/async_chunk_iter.rs), the range readers, the chunks that            *)
(* extract_vector_chunked hands to a JavaScript callback (wasm/extract.rs)  *)
(* and the vectors that extraction.rs writes to files.  The vector is in    *)
(* memory, or lazy: a span of the input that was skipped when it was        *)
(* parsed.                                                                  *)
(*                                                                          *)
(* On the wire a fixed-width element is Width bytes.  A string is a flags   *)
(* word, a length word and its bytes, NA is the two words, and a reference  *)
(* to the k-th string or NA of the vector is one word; a word counts as one *)
(* byte here.  An element is named by its place in the vector.              *)
(***************************************************************************)
EXTENDS SpanReader, FiniteSets, SequencesExt

CONSTANTS
  Vectors,    \* the vectors: [width |-> bytes of an element, 0 for strings,
              \*               items |-> what is on the wire]
  Elements,   \* the values of max_elements
  Limits,     \* the values of max_bytes, chunk_size or the budget
  Reach,      \* up to where a range may begin, and its length (a bound)
  Faults      \* how often the input may fail (a bound)

ASSUME LazyAssumption ==
  /\ \A v \in Vectors :
       /\ v.width \in Nat
       /\ v.items \in Seq([t : IF v.width = 0 THEN {"str", "na", "ref"} ELSE {"cell"},
                           len : Nat, to : Nat])
  /\ Elements \subseteq Nat \ {0} /\ Limits \subseteq Nat /\ Reach \in Nat /\ Faults \in Nat

VARIABLES
  job,      \* who reads which vector, how
  pc,       \* where the reader is
  taken,    \* how many elements have been read
  cache,    \* the strings that references may mean
  out,      \* the chunk being made
  bytes,    \* its size in bytes of text
  carry,    \* the bytes of an element cut by the end of a read
  skipped, result,   \* of a range of strings: elements passed over, and found
  chunks,   \* what the caller has been given
  faults    \* how often the input has failed

ivars == <<taken, cache, out, bytes>>
gvars == <<skipped, result, chunks>>
vars  == <<job, pc, rvars, ivars, carry, gvars, faults>>
-----------------------------------------------------------------------------
(* The vector and its wire form.                                            *)
Items  == job.vec.items
Width  == job.vec.width
IsText == Width = 0
N      == Len(Items)
NA     == 0
Garbled == N + 1     \* bytes that are no element of the vector

WireLen(x) == CASE x.t = "cell" -> Width [] x.t = "str" -> 2 + x.len
                [] x.t = "na" -> 2 [] x.t = "ref" -> 1
Total(s) ==
  LET upTo[n \in 0..Len(s)] == IF n = 0 THEN 0 ELSE upTo[n - 1] + s[n]
  IN  upTo[Len(s)]
Place(k) == Total([j \in 1..(k - 1) |-> WireLen(Items[j])])
SpanLen  == Place(N + 1)

(* The k-th element that is not a reference, and what element k means.      *)
Spelled == {j \in 1..N : Items[j].t # "ref"}
Nth(k)  == CHOOSE j \in Spelled : Cardinality({h \in Spelled : h <= j}) = k
Plain(k) == IF Items[k].t = "na" THEN NA ELSE k
Element(k) ==
  IF Items[k].t # "ref" THEN Plain(k)
  ELSE IF Items[k].to \in 1..Cardinality({j \in Spelled : j < k})
  THEN Plain(Nth(Items[k].to))
  ELSE Garbled

TextLen(e) == IF e \in 1..N THEN Items[e].len ELSE 0

(* Fixed-width elements out of their bytes.                                 *)
Decode(b) ==
  [k \in 1..(Len(b) \div Width) |->
     LET e == b[(k - 1) * Width + 1] \div Width + 1 IN
     IF SubSeq(b, (k - 1) * Width + 1, k * Width) = ReadAt(Place(e), Width)
     THEN e ELSE Garbled]

(* Who reads: an iterator over chunks, a reader of a range, the caller of a *)
(* callback, the writer of a file.                                          *)
Jobs ==
  {j \in [user : {"iterator", "range", "callback", "file"}, lazy : BOOLEAN, vec : Vectors,
          elements : Elements, limit : Limits, start : 0..Reach, count : 0..Reach] :
    /\ j.user = "range" => j.lazy /\ j.limit > 0
    /\ ~j.lazy => \A k \in 1..Len(j.vec.items) : j.vec.items[k].t # "ref"
    /\ j.user # "range" => j.start = 0 /\ j.count = 0
    /\ j.user \in {"callback", "file"} => j.elements = 1
    /\ j.user = "file" /\ j.lazy => j.vec.width < 2}   \* its bytes are copied

Init ==
  /\ job \in Jobs /\ pc = "open" /\ NewReader
  /\ taken = 0 /\ cache = <<>> /\ out = <<>> /\ bytes = 0 /\ carry = <<>>
  /\ skipped = 0 /\ result = <<>> /\ chunks = <<>> /\ faults = 0

Goto(l) == pc' = l
Largest(a, b) == IF a > b THEN a ELSE b

(* The call: a range outside the vector is refused, an empty one is empty   *)
(* (read_lazy_vector_range looks at its start first), and a budget of zero  *)
(* cannot hold a chunk.                                                     *)
Streamed == job.lazy /\ ~IsText /\ job.user # "iterator"

Open ==
  /\ pc = "open"
  /\ IF job.user = "range" /\ job.count = 0
     THEN Goto("ended") \/ (job.start > N /\ ~IsText /\ Goto("failed"))
     ELSE IF \/ job.user = "range" /\ job.start + job.count > N
             \/ job.user = "file" /\ job.lazy /\ job.limit = 0
     THEN Goto("failed")
     ELSE Goto("ready")
  /\ pos' = IF Streamed THEN job.start * Width ELSE 0
  /\ UNCHANGED <<job, buf, bufPos, got, ivars, carry, gvars, faults>>

(* A chunk goes to the caller, or into the range that is being gathered.    *)
Hand(chunk) ==
  /\ chunks' = Append(chunks, chunk)
  /\ Goto(IF job.user \in {"callback", "file"} THEN "called" ELSE "ready")
  /\ UNCHANGED <<skipped, result>>

Wanting(chunk, from) ==
  SubSeq(chunk, from + 1, from + Least(Len(chunk) - from, job.count - Len(result)))

Useful(chunk) ==
  IF skipped >= job.start THEN Wanting(chunk, 0)
  ELSE IF skipped + Len(chunk) <= job.start THEN <<>>
  ELSE Wanting(chunk, job.start - skipped)

SkippedAfter(chunk) == IF skipped >= job.start THEN skipped
                       ELSE Least(job.start, skipped + Len(chunk))

Gather(chunk) ==
  /\ result' = result \o Useful(chunk)
  /\ skipped' = SkippedAfter(chunk)
  /\ IF Len(result') = job.count
     THEN chunks' = <<result'>> /\ Goto("ended")
     ELSE Goto("ready") /\ UNCHANGED chunks

Yield(chunk) ==
  /\ IF job.user = "range" THEN Gather(chunk) ELSE Hand(chunk)
  /\ out' = <<>> /\ bytes' = 0
-----------------------------------------------------------------------------
(* Fixed width, in memory or one read for each chunk.                       *)
ByCount == IF job.user = "callback" THEN N ELSE job.elements
ChunkElements ==
  LET byBytes == Largest(job.limit \div Width, 1) IN
  IF job.user = "callback" THEN byBytes
  ELSE IF job.user = "file" THEN 1
  ELSE Least(job.elements, byBytes)

Take == Least(N - taken, ChunkElements)

OwnedNext ==
  /\ pc = "ready" /\ ~job.lazy /\ ~IsText /\ taken < N
  /\ Yield([k \in 1..Take |-> taken + k])
  /\ taken' = taken + Take
  /\ UNCHANGED <<job, rvars, cache, carry, faults>>

FixedNext ==
  /\ pc = "ready" /\ job.lazy /\ ~IsText /\ job.user = "iterator" /\ taken < N
  /\ Yield(Decode(ReadAt(taken * Width, Take * Width)))
  /\ taken' = taken + Take
  /\ UNCHANGED <<job, rvars, cache, carry, faults>>

(* Fixed width, a stream of reads that need not end between two elements;   *)
(* a range is decoded when all its bytes are there.                         *)
Stop     == IF job.user = "range" THEN (job.start + job.count) * Width ELSE SpanLen
AsAsked  == job.limit
ReadSize == IF job.user = "callback" THEN Largest(job.limit, Width) ELSE job.limit

StreamNext ==
  /\ pc = "ready" /\ Streamed /\ pos < Stop
  /\ LET n     == Least(Stop - pos, ReadSize)
         b     == carry \o ReadAt(pos, n)
         split == IF job.user = "range" /\ pos + n < Stop THEN 0
                  ELSE Len(b) - (Len(b) % Width)
     IN /\ pos' = pos + n
        /\ carry' = SubSeq(b, split + 1, Len(b))
        /\ IF split = 0 THEN UNCHANGED <<pc, chunks>>
           ELSE /\ chunks' = Append(chunks, Decode(SubSeq(b, 1, split)))
                /\ Goto(IF job.user = "range" THEN "ended" ELSE "called")
  /\ UNCHANGED <<job, buf, bufPos, got, ivars, skipped, result, faults>>

(* read_at fails.  An iterator of fixed-width elements has moved nothing    *)
(* and may be asked again.                                                  *)
ReadFails ==
  /\ pc = "ready" /\ job.lazy /\ ~IsText /\ faults < Faults
  /\ IF Streamed THEN pos < Stop ELSE taken < N
  /\ faults' = faults + 1 /\ Goto("failed")
  /\ UNCHANGED <<job, rvars, ivars, carry, gvars>>

Retry ==
  /\ pc = "failed" /\ job.user = "iterator" /\ ~IsText
  /\ Goto("ready")
  /\ UNCHANGED <<job, rvars, ivars, carry, gvars, faults>>
-----------------------------------------------------------------------------
(* Strings: one call makes one chunk, an element at a time.                 *)
MaxElements == CASE job.user = "callback" -> N [] job.user = "file" -> 1
                 [] OTHER -> job.elements

Begin ==
  /\ pc = "ready" /\ IsText /\ taken < N
  /\ Goto("taking")
  /\ UNCHANGED <<job, rvars, ivars, carry, gvars, faults>>

More == taken < N /\ Len(out) < MaxElements

NoMore ==
  /\ pc = "taking" /\ ~More
  /\ Yield(out)
  /\ UNCHANGED <<job, rvars, taken, cache, carry, faults>>

ByteLimit == IF job.user = "callback" THEN Largest(job.limit, 1) ELSE job.limit
Over(e)   == out # <<>> /\ bytes + TextLen(e) > ByteLimit

(* A chunk is full at max_bytes; emit_string_chunks only looks when it is   *)
(* about to exceed them.                                                    *)
Full(b) == b >= ByteLimit /\ ~(job.user = "callback" /\ ~job.lazy)

Push(e) ==
  /\ taken' = taken + 1
  /\ IF Over(e) \/ Full(bytes + TextLen(e))
     THEN Yield(Append(out, e))
     ELSE /\ out' = Append(out, e) /\ bytes' = bytes + TextLen(e)
          /\ Goto("taking") /\ UNCHANGED gvars

(* In memory the string that does not fit is left for the next chunk; one   *)
(* that has been read from a span cannot be put back.                       *)
OwnedString ==
  /\ pc = "taking" /\ ~job.lazy /\ More
  /\ IF Over(Element(taken + 1)) THEN Yield(out) /\ UNCHANGED taken
     ELSE Push(Element(taken + 1))
  /\ UNCHANGED <<job, rvars, cache, carry, faults>>

StartRecord ==
  /\ pc = "taking" /\ job.lazy /\ More
  /\ got' = <<>> /\ Goto("record")
  /\ UNCHANGED <<job, pos, buf, bufPos, ivars, carry, gvars, faults>>

(* The record that starts with the flags word that was read.                *)
Here == LET at == {k \in 1..N : Place(k) = got[1]} IN
        IF at = {} THEN 0 ELSE CHOOSE k \in at : TRUE

Need == IF got = <<>> THEN 1
        ELSE IF Here = 0 \/ Items[Here].t = "ref" THEN 1
        ELSE IF Len(got) = 1 \/ Items[Here].t = "na" THEN 2
        ELSE 2 + Items[Here].len

ReaderSize == Largest(job.limit, 1)

Refill ==
  /\ pc = "record" /\ Len(got) < Need /\ Exhausted
  /\ IF pos < SpanLen THEN Fill(SpanLen, ReaderSize) /\ UNCHANGED pc
     ELSE Truncated(SpanLen) /\ Goto("failed")
  /\ UNCHANGED <<job, ivars, carry, gvars, faults>>

RefillFails ==
  /\ pc = "record" /\ Len(got) < Need /\ Exhausted /\ faults < Faults
  /\ faults' = faults + 1 /\ Goto("failed")
  /\ UNCHANGED <<job, rvars, ivars, carry, gvars>>

ReadExact ==
  /\ pc = "record" /\ Len(got) < Need /\ Copy(Need)
  /\ UNCHANGED <<job, pc, ivars, carry, gvars, faults>>

(* The string a complete record spells; NA has a place in the cache too.    *)
Spelling == IF Here = 0 \/ got # ReadAt(got[1], Need) THEN Garbled ELSE Plain(Here)

WithStrings(e) == IF e = NA THEN cache ELSE Append(cache, e)
WithSpelled(e) == Append(cache, e)

String ==
  /\ pc = "record" /\ Len(got) = Need /\ (Here = 0 \/ Items[Here].t # "ref")
  /\ cache' = WithSpelled(Spelling)
  /\ Push(Spelling)
  /\ UNCHANGED <<job, rvars, carry, faults>>

Reference ==
  /\ pc = "record" /\ Len(got) = Need /\ Here # 0 /\ Items[Here].t = "ref"
  /\ IF Items[Here].to \in 1..Len(cache) THEN Push(cache[Items[Here].to])
     ELSE Goto("failed") /\ UNCHANGED <<taken, out, bytes, gvars>>
  /\ UNCHANGED <<job, rvars, cache, carry, faults>>
-----------------------------------------------------------------------------
(* Nothing is left.                                                         *)
Finish ==
  /\ pc = "ready"
  /\ IF Streamed THEN pos = Stop ELSE taken = N
  /\ Goto(IF job.user = "range" THEN "failed" ELSE "ended")
  /\ UNCHANGED <<job, rvars, ivars, carry, gvars, faults>>

(* The callback returns, or throws; the file takes the bytes, or does not.  *)
Accepted == pc = "called" /\ Goto("ready")
            /\ UNCHANGED <<job, rvars, ivars, carry, gvars, faults>>
Refused  == pc = "called" /\ Goto("failed")
            /\ UNCHANGED <<job, rvars, ivars, carry, gvars, faults>>

Step ==
  \/ Open \/ OwnedNext \/ FixedNext \/ StreamNext
  \/ Begin \/ NoMore \/ OwnedString \/ StartRecord \/ Refill
  \/ ReadExact \/ String \/ Reference \/ Finish \/ Accepted

Next == Step \/ ReadFails \/ RefillFails \/ Refused \/ Retry

(* A call runs to its end; nothing has to fail, and whether the caller of   *)
(* an iterator asks again is his affair.                                    *)
Spec == Init /\ [][Next]_vars /\ WF_vars(Step)
-----------------------------------------------------------------------------
TypeOK ==
  /\ job \in Jobs
  /\ pc \in {"open", "ready", "taking", "record", "called", "ended", "failed"}
  /\ pos \in Nat /\ buf \in Seq(Nat) /\ bufPos \in 0..Len(buf) /\ got \in Seq(Nat)
  /\ taken \in 0..N /\ cache \in Seq(0..Garbled) /\ out \in Seq(0..Garbled) /\ bytes \in Nat
  /\ carry \in Seq(Nat) /\ skipped \in Nat /\ result \in Seq(0..Garbled)
  /\ chunks \in Seq(Seq(0..Garbled)) /\ faults \in 0..Faults

(* However a vector is read, whatever cuts it into buffers and chunks and   *)
(* wherever the input fails, the caller gets its elements in order, each    *)
(* once, and hears of the end when it has them all; references mean the     *)
(* strings they number.                                                     *)
Wanted ==
  IF job.user # "range" THEN [k \in 1..N |-> Element(k)]
  ELSE IF job.start + job.count > N THEN <<>>
  ELSE [k \in 1..job.count |-> Element(job.start + k)]

Delivery == INSTANCE VectorDelivery WITH
              wanted <- Wanted, delivered <- FlattenSeq(chunks),
              state <- IF pc \in {"ended", "failed"} THEN pc ELSE "open"
ImplementsDelivery == Delivery!Spec

Size(c) == IF IsText THEN Total([k \in 1..Len(c) |-> TextLen(c[k])])
           ELSE Len(c) * Width
Cut     == job.lazy /\ (IsText \/ Streamed)

Bounded(c) ==
  /\ IsText \/ job.user = "iterator" => Len(c) <= MaxElements
  /\ Len(c) = 1 \/ Size(IF Cut THEN Front(c) ELSE c) <= ByteLimit

(* A chunk keeps to max_elements and to the limit in bytes; a single larger *)
(* element is a chunk, and what was cut or cannot be put back may come on   *)
(* top as one element.                                                      *)
ChunksBounded == job.user # "range" => \A k \in 1..Len(chunks) : Bounded(chunks[k])

(* Every reading comes to an end or to an error that is its last.           *)
IterationEnds == <>[](pc \in {"ended", "failed"})
=============================================================================
