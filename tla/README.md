# rds2rust in TLA+

rds2rust reads and writes R's RDS files without R. This directory holds TLA+
models of the parts whose correctness depends on an order of steps, the TLC
configurations that check them on small instances, and proofs, checked by
TLAPS, that the most important properties hold for every instance. The models
are translated from the Rust source; `PROJECT.json` ("map") names the lines
behind every definition, and "hazards" what the properties are for.

    tlc -config MCParse.cfg MCParse      checks a run
    tlapm ParseObjectProofs.tla          checks the proofs

## 1. The system

An RDS file is a header and one serialized object. The format is a sequence of
items: a flags word (type, attribute bit, tag bit) and its payload. Compound
objects have no length and no end marker: a pairlist ends where a cell's CDR is
not a cell, and what an item means follows only from where the reader believes
it is. An object that R may meet twice (symbols, environments, external pointers,
weak references, persistent names) gets a number the first time, which is never
written; later occurrences are written as that number. A reader that assigns one
number too many or takes one item for another goes wrong silently from there on.

| Component (source) | State | Operations | Hard because | Module |
| --- | --- | --- | --- | --- |
| Recursive parser (`parser.rs` 217-1102, 4574-10224) | call stack, reference table, symbol table, deduplication table, nesting count, scoped flags of `ParserContext` | `parse_object` and one parser per type | alignment with R; placeholders; state kept across errors | `ParseObject` |
| Streaming traversal (`parser.rs` 5188-7460, `streaming.rs`) | as the recursive parser, the path, the table of paths | walk, report, skip, stop | a second grammar beside the first one; a visitor that answers in the middle | `StreamParse` |
| Sequential parsers (`parser.rs` 2500-4521) | as the recursive parser over a forward cursor, a policy, three flags | value, header and skip versions of every type | three more copies of the grammar that hand over to each other | `SequentialParse` |
| Async parser with retry (`parser.rs` 1105-1840, 2358-2405) | a window of the input, checkpoints of the tables | parse what is buffered, on end of buffer roll back, read more, parse again | a rollback that forgets one table | `RetryParse` |
| Bytecode (`parser.rs` 8178-8480), S4 class attributes, deduplication | table of shared language cells; cache of equal values | BCREPDEF, BCREPREF; look up | slots reserved before they are filled | not modelled |
| Async cursors (`wasm/async.rs`) | buffer, position, start of the buffer | ensure, slice, advance, skip | three counters that move together across awaits | `AsyncCursor` |
| Native chunked source (`source.rs`) | LRU cache behind a mutex, file behind another | `read_at`, prefetch | lookup, load and insert are separate critical sections | `ChunkedSource` |
| Blob source (`wasm/blob_source.rs`) | LRU cache in a RefCell, prefetch tasks | `read_at`, spawn prefetch | everything interleaves at the awaits | `BlobSource` |
| Streaming decompression (`wasm/streaming_decompress.rs`) | JS reader, pending piece | `read_next` | pieces larger than what was asked | not modelled |
| Writer (`writer.rs`) | reference table, symbol tracker, stack of active objects | `write_object` and one writer per type | must number as R's reader numbers; cycles | `WriteObject` |
| Atomic file write (`writer.rs` 447-540) | temporary file, its name, the target's name | write, drop, rename | a crash or a failing write between any two steps | `SaveSink` |
| Callback writers (`wasm/write.rs`) | buffered bytes, progress | write, flush | a callback that throws | `SaveSink` |
| Chunk iterators and ranges (`chunk_iter.rs`, `wasm/async_chunk_iter.rs`) | position in a span, buffer, cache of strings | next, range | records and limits that do not fall together | `LazyVectors` |
| Extraction of a vector (`extraction.rs`, `wasm/extract.rs`) | carried bytes, the chunk being made | to a callback, to a file | reads that cut elements | `LazyVectors` |
| Materialization, manifest, the rest of extraction (`materialization.rs`, `manifest.rs`) | a byte budget; files of an extraction | materialize, extract, validate | half-written results | not modelled |
| Object model (`types.rs`, `lib.rs`) | shared handles on table slots | make concrete | cycles through shared handles | in `ParseObject` |

They meet at three interfaces: the parsers read the stream R's serializer wrote
(or this crate's writer); the asynchronous parsers read through a cursor; the
cursors and the lazy vectors read through a source. What makes each correct:

- parsers: aligned with the serializer, item by item and number by number; back
  references resolve to complete objects; scoped state is scoped on every path;
  depth and truncation are the only reasons to refuse what R wrote; they end.
- the traversal, besides: the visitor hears properly nested events, and a Stop is
  final.
- retry: an attempt that failed leaves no trace, and what is returned is, as far as
  the cursor has come, what one pass would have returned.
- cursors: every implementation is the same stream of bytes, in order, each once, and
  a skip ends exactly where it was asked to.
- sources: a read that succeeds returns its bytes whatever else runs; memory is
  bounded; every read settles.
- writer: the numbers it writes are those R's reader gives; it ends on cycles.
- saving: the target is the old file or the new one, and success means delivery.
- lazy vectors: the elements come in order, each once, whatever cuts the reads.

## 2. The modules

| Module | Models | Instance / proofs |
| --- | --- | --- |
| `RStream` | R's serializer (external): what R may write next | |
| `ParseObject` | `parse_object` and its parsers, composed with `RStream` | `MCParse`; `ParseObjectProofs` |
| `StreamParse` | `parse_object_streaming` and its visitor; extends `ParseObject`, which it calls | `MCStreamParse`; `ReadersProofs` |
| `SequentialParse` | the value and skip parsers of a forward-only input; extends `ParseObject` | `MCSequential`; `ReadersProofs` |
| `RetryParse` | `parse_object_async` and its streaming version around any of the parsers | `MCRetry`; `RetryProofs` |
| `SourceConfig`, `ChunkCache` | the sources' configuration; the LRU cache, the same code twice in the crate | |
| `ChunkedSource`, `BlobSource` | the two implementations of `read_at` over `ChunkCache` | |
| `RangeSource` | either of the two, as a reader opens it | `MCSources`; `SourceProofs` |
| `ByteStream` | abstract: what a parser relies on in an `AsyncCursor` | |
| `CursorConfig`, `SequentialCursor`, `BufferedCursor` | configuration and the two cursors | |
| `AsyncCursor` | the trait: either cursor implements `ByteStream` | itself; `CursorProofs` |
| `WriteObject` | the writer, composed with `RStream` as the reader it writes for | `MCWrite`; `WriteObjectProofs` |
| `SaveSink` | `write_rds_atomic`, `CallbackWriter`, and the compressor between them and the writer | `MCSave`; `SaveProofs` |
| `VectorDelivery` | abstract: what reading a vector in pieces promises | |
| `SpanReader`, `LazyVectors` | the reader of a span; iterators, ranges, callback and file over it; implements `VectorDelivery` | `MCLazy`; `LazyProofs` |

### RStream

R writes by recursion, so what is still to come is at any moment a sequence of
grammatical roles (`wtodo`). Writing an item replaces the first role by the
roles of the item's parts. The stream is produced on demand: the reader asks,
and R writes any item that may stand there, an object of any kind in `Kinds` or
a reference to any object numbered so far. All streams of the instance are
therefore checked, also infinite families of shapes no test holds. `Budget`
bounds them: after that many items R only closes what it has open. `wtable` is
R's numbering, the reference the parser is measured by; an object's number is
its identity.

### ParseObject

A frame is an active Rust call; `todo` are the reads its parser has yet to
make (`Steps` is the translation of the parsers: attributes early or late, tag,
value, rest). `ReadObject` is the entry of `parse_object_inner` up to the
placeholder, `Return` its end (slot, symbol table, scoped flags, the sequence
heuristic of `parse_list`), `ReadRef` the REFSXP arm, `ReadTagRef` the lookup
`parse_pairlist_element` makes itself, `ReadCell` the loop of `parse_pairlist`,
`EnterFails` the nesting limit, `ReadAtEnd` a read at the end of the input
(two reads take it for NULL), `Unwind` the `?` operator. The value of an atomic
vector, a string or bytecode is part of its item and is abstracted to its type.
`rest`, in a frame, is not in the program: it marks where in the stream the
call's object ends, for `Aligned`.

Three properties of this module are not run, because the code does not have them
(`PlaceholdersNeverEscape`, `DroppedIsNil`, `OldTagsResolve`); section 3 says where.

### StreamParse

The traversal runs on the same stack as the value parser it calls for names, tags,
attributes and the parts of an ALTREP item: its frames are the lowest ones, one
per entry of `walk`, and above them the actions of `ParseObject` apply unchanged.

| Model | Code |
| --- | --- |
| `walk[k].emit`, `kids` | the argument `emit`, and `emit_children` after the answer |
| `path`, `refPaths` | `PathTracker`; `StreamingRefTable` |
| `WalkObject`, `WalkNextCell`, `WalkRef` | the entry of `parse_object_streaming_inner`, the loop over cells, the REFSXP arm |
| `Start`, `StartStop`, `StartSilently` | `on_object_start` with its three answers, after the slot was taken |
| `EndObject`, `Report`, `ReportEnd` | `on_object_end`; `emit_parsed_object_streaming` for attributes |
| `AfterStop`, `ReadAfterStop` | a parent whose child was stopped still reads late attributes, in the middle of the child |
| `open`, `nested`, `told`, `target` | history: what the visitor itself has heard |

`RStream` says what the walk has to read, so that a part skipped for the visitor
must still consume its items and take its slots. Attributes are values already
parsed when they are reported; one value with at most one object inside stands
for them.

### SequentialParse

Beside each frame of `ParseObject` stands which parser runs it (`mode`), the tag of
the cell it is at, how its elements are read, and the flags its caller puts back.
`Policies` are the answers of the caller for the name of an S4 slot: keep it,
return nothing for it (drop), skip its vectors (skip), capture it whole; any
answer may come, and stays for that name (`decided`). A long vector stays lazy or
does not (`long`). `Misread` admits two constructs that these parsers do not read
as R writes them (section 3).

### RetryParse

The grammar is left to the other modules: an object is a row of parts with a length,
a kind, which is its effect on what must be rolled back, and a `tail`. The kinds are
`plain`, `vector` (raises a different error at the end of the window), `environment`
and `symbol` (slots), `string` (deduplication), `body` (the closure-body flag),
`malformed`. The tail says who takes the end of the window for the absence of the
part, since two reads do so instead of failing (4996, 8774): nobody, only the parser
of values (`late`: attributes after the data), or the walk as well (`inner`).

| Model | Code |
| --- | --- |
| `Open`, `Window` | the estimate, `ensure_available`, the snapshot |
| `ReadPart`, `Cut`, `Malformed` | the synchronous parser inside the window |
| `MayEndHere`, `MustEndHere`, `Succeed` | it returns, at the object's end or before parts whose absence it forgives |
| `Retry` | roll back and double |
| `GiveUp` | the largest window is too short, or the input has no more |
| `ReadSequentially` | fallback of the streaming parse: the sequential parser |
| `StreamVector` | a streamed vector, whose attributes the sequential parser reads without any window |
| `ReadChildren`, `NextChild` | fallback for a list: child by child, each through windows of its own |
| `ReadOtherwise` | the fallbacks for pairlists, calls and S4 objects, not described |

The sequential parser (2527-3120) is not the parser that the parse began with. It
shares no strings, so what it has read is kept in `bare` and `Taken` reads those
strings as plain parts; and environments, closures and promises are NULL to it, with
their contents unread (3023), so that it goes on in the middle of them: `astray`, as
is a fallback that is not described. Nothing is claimed of a parse that is astray but
where it may come from (`FitsMeansParsed`).

The tables start as an earlier object left them, so that rolling back too much shows
as well as too little. A rollback is written per table (`RollbackRefs`,
`RollbackSymbols`, `RollbackDedup`, `Restore`) as in the code.

### SourceConfig, ChunkCache, ChunkedSource, BlobSource, RangeSource

The two caches are the same algorithm: look up and move to the back, insert
with eviction from the front, count bytes. A chunk is its index; it always
holds the file's bytes, so the map is a set. `holder` is the mutex of the
native source; in the browser nothing runs between two awaits, which the same
variable models. In `ChunkedSource` each critical section is an action, so that
other threads run between a miss and the insert after it; file reads may fail.
In `BlobSource` each await is a boundary, and a prefetch task is a load under
way (`tasks` counts them per chunk, at most `MaxTasks`). `RangeSource` is the
disjoint union of the two over the same variables: which one it is, is chosen when
the source is opened, and the promise to the reader is stated once.

### ByteStream, SequentialCursor, BufferedCursor, AsyncCursor

A byte is named by its position in the stream. `ByteStream` promises that a
slice is the next bytes, that positions only move forward inside the stream,
that an advance or a skip, however many awaits it takes, ends exactly at the position
that was asked for, and that only a request beyond the stream or the limit is refused.
That position is `goal`, a history variable of the cursors, which no step of theirs reads.
`SequentialCursor` reads pieces of any size from its input, between awaits;
`BufferedCursor` replaces a window. Callers stay within what they have ensured.
`AsyncCursor` is the trait, the union of the two; it implements `ByteStream`
(`ImplementsByteStream`, by INSTANCE with a refinement mapping).

### WriteObject

The value written is a graph that is chosen while it is written: an action takes
any value that may stand in the next slot, new or met before. So all graphs of
the instance are covered, cyclic ones and errors in the middle included.

| Model | Code |
| --- | --- |
| `todo` | the writes the active calls still have to make |
| `active` | `WRITE_STACK`: environments whose writing has not returned |
| `heap` | what is at each address met; an address is an Arc or a field of the value |
| `refs` | `RefTable`: `next_index`, `object_refs`, `namespace_refs` |
| `syms` | `SymbolTracker`: object indices by address and by name |
| `wtodo`, `wtable` of `RStream` | what the reader expects next and has numbered |
| `named`, `last` | history: what each number of the reader stands for, the last reference |

The index of symbols among symbols is left out: the code allocates it and never
writes it. A value found on `WRITE_STACK` is written as NULL, by the same step as
NULL itself. `Shapes` lists values that differ from others only in how they are
held in memory; each is admitted by an instance or not:

| Shape | What the writer does with it |
| --- | --- |
| `sharedNamespace` | spends two numbers on it; parsed namespaces are all of this shape (`write_parsed`) |
| `equalNamespace` | reserves a number for the second address and then refers to the first |
| `namedSymbol` | the same, for an Arc of a symbol first met as an attribute name or tag |
| `attributedEnv` | numbers nothing: a later reference to the environment is lost |
| `emptyPairlist` | attributes around a pairlist of no elements: a NULL with an attribute bit and attributes nobody reads |
| `emptyAttributes` | an attribute bit without attributes, after which the reader takes the next item for them |

The first four break `NumbersAgree`, the last two `StreamComplete`; add one to
`Shapes` in `MCWriteGraph.cfg` to see it. `write_graph` and the theorems are about
everything else; `write_parsed` is the first shape.

### SaveSink

A stream is a row of units, each marked with the save it belongs to. `files` are
contents, `names` what the temporary name and the target stand for, so that a file
that is renamed stays open under its handle. `BufWriter` makes room before it takes
a unit, `CallbackWriter` hands on a full buffer at once; both are flushed at the end
and by their drop. The compressor (external) tries once more to write when it is
dropped after an error. Every write may fail after any part of it, the callback may
throw before or after it used the data, and `Crash` may come between any two steps
of a save to a file; the next save meets the temporary file it left. A crash is of
the process: what the operating system loses when the power fails is not modelled, and
the code syncs nothing. `LateErrors` says whether the last flush of a file may fail,
which happens in the drop of the `BufWriter` and is seen by nobody.

### VectorDelivery, SpanReader, LazyVectors

An element is named by its place in the vector and a byte by its position in the
span, so that an element put together from the wrong bytes is `Garbled`. A flags
word and a length word count one byte each. `SpanReader` is the buffer that exists
three times in the crate; the users over it are the iterators (synchronous and
asynchronous), the range readers, the callback of `extract_vector_chunked` and the
file of `extract_vector`:

| Model | Code |
| --- | --- |
| `OwnedNext`, `FixedNext` | the iterators over a slice, and over a fixed-width span |
| `StreamNext` | `stream_numeric_chunks`, the copy of a span to a file, `read_lazy_fixed_range` |
| `Begin` ... `NoMore`, `OwnedString` | the character iterators, `emit_string_chunks` |
| `StartRecord`, `Refill`, `ReadExact`, `String`, `Reference` | reading one record of a lazy character vector |
| `Gather` | `read_lazy_vector_range`: skip, take, stop early |
| `ReadFails`, `RefillFails`, `Refused`, `Retry` | a failing input, a refusing caller, an iterator asked again |

## 3. The runs

| Run | Module | Checks |
| --- | --- | --- |
| `parse` | `MCParse` | Everything of the grammar the parser tells apart, on streams that may be cut off between items or inside one: `Aligned`, `RefsAligned`, `TagsResolve`, `NestingBalanced`, `FlagsScoped`, `OnlyDepthFails`, and under fairness `Termination`. |
| `stream` | `MCStreamParse` | The traversal with a visitor that gives every answer anywhere: `WalkAligned`, `WalkSlotsAligned`, `EventsNested`, `SharedTargets`, `NothingAfterStop`. |
| `sequential` | `MCSequential` | The two parsers of a forward-only input under every policy: `SeqAligned`, `SeqSlotsAligned`, `FlagsFollowCalls`, `PolicyScoped`. |
| `retry` | `MCRetry` | Every object of the instance through windows that end anywhere, and the fallbacks: `AttemptsStartClean`, `AsInOnePass` (up to where the cursor stands, but for strings the sequential parser does not share and tails that are missing), `FitsMeansParsed`, `AttemptsEnd`. |
| `cursors` | `AsyncCursor` | Refinement of `ByteStream`, the amount of a skip included, `BufferBounded`, `OperationsComplete`. |
| `sources` | `MCSources` | Either source, two clients: `ReadsExact`, `LruMatchesMap`, `MemoryBounded`, `CountCoversHeld`, `CallsReturn`. |
| `lazy` | `MCLazy` | Refinement of `VectorDelivery`, `ChunksBounded`, `IterationEnds`. |
| `write_graph` | `MCWrite` | `ImplementsStream` (every step is one R's serializer could make), `StreamComplete`, `RefsMeanWhatWasWritten`, `WrittenOnce`, `NumbersAgree`. |
| `save` | `MCSave` | One saver, errors at every write but the last flush of a file (`LateErrors = FALSE`), crashes, later saves: `TargetWhole`, `OkMeansDelivered`. |

Three runs end in a violation: there the code does not do what a comment or a
document says of it.

| Run | Shows |
| --- | --- |
| `stream_promise` | The traversal walks value, expression and environment of every promise; R writes an environment first, and only if there is one, as the comment in `parse_promise` says (`WalkAligned`). |
| `save_late` | The last bytes of a file are written by the drop of its `BufWriter`, whose error nobody sees; the file is renamed over the target without them (`TargetWhole`). |
| `write_parsed` | A parsed list of a namespace and one symbol twice is written with a reference the reader does not have (`RefsMeanWhatWasWritten`). |

### The bounds

- `parse`, `stream`: five items besides what closes them, vectors of two elements,
  depth 5. Five items reach every pair of constructs nested in each other with a
  back reference after them, which is what an alignment error needs to show. The
  depth limit (64 by default) is reached by the streams of the instance, so that
  the error path is explored. For the value parser, the traversal and the sequential parsers the theorems remove
  these bounds.
  `stream` is the largest run (5.6 million states).
- `sequential`: seven items and depth 6, which is what a slot of an S4 object inside
  a skipped slot takes; vectors of one element.
- `retry`: up to three parts of one or three units, of every kind and tail, and a
  buffer of at most 5 units, so that an object may fit at once, after growth, or never,
  and a window may end inside a part or between two; the input is complete, one unit too
  long or cut one unit short, and knows its length or not (2.6 million states). A list read child by child
  has at most two children: a child that ends early before another child is beyond these
  bounds, and within those of the theorem.
- `cursors`: 9 bytes, a buffer of 3, at most 5: two full drains or refills, a refusal
  by the limit and one by the end.
- `sources`: three chunks, the last one short; limits below a chunk, of one chunk and
  of two, so that a chunk alone is too big, nothing but the last stays, or two fit;
  two clients of two calls reach every duplicate insertion and eviction order. A
  prefetch looks two chunks ahead and each chunk has at most one task.
- `lazy`: fixed-width vectors of up to three elements of one to three bytes; all
  character vectors of up to three strings of no or two bytes, NA, good and bad
  references, and one of four; limits from 0 to 4 bytes, so that every way
  of cutting a word, a string or an element occurs; one failure of the input.
- `write_graph`: values of up to 6 items before they close, two symbol names, a
  namespace and a package of one name, three addresses.
- `save`: a stream of 5 units, a buffer of 3, three saves: one full flush, one
  partial flush at the end, and a save after a crash after a success.

### Fairness

`ParseObject`, `StreamParse`, `SequentialParse`: weak fairness of the parser, which is
a plain call. Truncation is not fair: the input need not end early. `RetryParse`: the
future is polled until it is ready. `AsyncCursor`: a pending operation is polled and
the input delivers; nobody has to call again. `RangeSource`: strong fairness of each
client inside `read_at`, since threads compete for a mutex that std hands over in the
end and the event loop runs every settled promise; weak fairness of prefetch tasks.
`LazyVectors`: the reading goes on, but failures and the caller's retry are not
fair. `WriteObject` and `SaveSink`: none; their properties are safety. `WriteObject`
is checked for deadlock: the writer always has a next step until it is done.

`CHECK_DEADLOCK FALSE` where the system really stops: a finished parse, a source
whose callers made all their calls, a cursor after an error, a saver after its last
save.

### Seen, and without a run

Of the recursive parser:

- The type DOTSXP of docs/RDS_FORMAT.md:55 is refused (4983); it is none of the kinds of
  `RStream`, and `OnlyDepthFails` says nothing of it.
- R writes two objects after the flags of an external pointer, `parse_external_pointer`
  (4762) reads none: add `"extptr"` to `MCKinds`, and `Aligned` fails.
- The element `parse_list` drops after something that looks like a compact sequence
  state (8113, 8131) need not be NULL: add `"real3"`, with
  `Lens = {3}`, and `DroppedIsNil` fails.
- A reference in a closure's body to an environment under construction is replaced
  by a copy of the placeholder (4808): `PlaceholdersNeverEscape` fails in the
  instance as it is.
- Tags numbered as versions up to 0.1.41 numbered them never reach the fallback meant
  for them (8646, 8672; CHANGELOG.md:240): `OldTagsResolve` fails with `OldTags = TRUE`,
  and the theorem `FallbackIsDead` says never.
- A pairlist cell after the first that has attributes of its own is misread
  (`CellAttrs = TRUE`, `Aligned`).

Of the other parsers:

- `estimate_parse_size` asks for 8 bytes before it looks at the object (1401, 1604), so
  that a root or a last object of 4 bytes is refused; and an input of unknown length
  is asked for more than it has left (`ReadableMeansParsed` of `RetryParse`).
- The streaming parse that tries again (1635) rolls back context and tables, but not
  the visitor's path, the table of paths, `objects_visited`, nor the events it has
  delivered.
- The end of a window taken for the end of the input cuts attributes and cells off with
  a result that is Ok (4996, 8774), where docs/RDS_FORMAT.md:183 has attributes follow:
  `WholeWhenReturned` of `RetryParse` fails. A character vector of one string of 92 bytes is one such case:
  the estimate (`8 + 100 * length` bytes) is then exactly where its attributes begin.
- A streamed vector of numbers with an environment or a closure in its attributes leaves
  their contents unread and goes on in the middle of them (`BypassesWindow` in
  `RetryParse`).
- `parse_pairlist_streaming_sequential_async` reads a flags word (6248) after its caller
  has read the list's (2055).
- Stop is ignored inside `emit_parsed_object_streaming` (5722-5862), where the visitors of
  streaming.rs (951-976) pass it on; and the parent of a stopped child reads its late
  attributes in the middle of the child (5653-5667).
- The parts of a closure are labelled in another order than they are on the wire
  (7008-7114); objects inside a skipped part register the path of the part (7402-7404).
- `DatasetInfoVisitor` (streaming.rs:205-430) counts the values of attributes as columns,
  and knows neither dims nor names when it hears of a vector's metadata.
- A lazy character vector is returned by the sequential parser before its attributes are
  read (2631-2682, 3979-4027; `Misread = {"namedStrings"}`); `skip_pairlist` keeps
  `parsing_s4_tag` up while it skips (3669-3796; `{"skippedCode"}` with
  `Budget = 8`); environments, closures,
  promises, bytecode and external pointers are NULL to the sequential parsers,
  which read nothing of them.
- The sequential and asynchronous parsers put references into the cache of strings too
  (2734, 4077), the recursive parser and all readers of spans only strings; so `"a",
  reference 1, "b", reference 2` means different things to them, where
  tests/invector_ref_tests.rs:3 wants every reader to agree.

Of the rest:

- A cache counts a chunk twice that two inserts overlap on, two threads in
  `ChunkedSource` or a reader and its own prefetch task in `BlobSource`, and then
  evicts chunks although everything would fit (`CountCoversHeld` is an inequality
  for this reason). `BlobSource` divides by `chunk_size` without the `max(1)` of the native
  source.
- `SequentialCursor::with_config` asks for the whole buffer at once, so a stream
  shorter than the buffer cannot be opened.
- A call argument that is a single string is written as a symbol
  (`write_pairlist_internal`), and an environment reached from within itself as
  NULL, which tests/bytecode_tests.rs:289 wants.
- Two savers of one target share the temporary name: with two `Savers` in
  `MCSave.cfg`, `TargetWhole` fails. After an error, the drops of the encoder and of
  `CallbackWriter` call the callback once more, with data it may have had.
- The comment at chunk_iter.rs:348 has an oversized string yielded alone; it is pushed
  onto the chunk at hand, hence the slack in `ChunksBounded`. The progress of
  `stream_numeric_chunks` (extract.rs:625) counts carried bytes twice and can exceed 1.
  With `max_elements = 0` the character iterators give empty chunks for ever, and one that
  is asked again after an error goes on in the middle of a record. An empty range past
  the end is refused by `read_lazy_vector_range`, and empty for `read_lazy_fixed_range`.
- `sanitize_path` (extraction.rs:1701) maps different paths to one file, which the manifest
  lists twice; `charge_budget` (1386) is charged after the write; an extraction that
  fails leaves its files and no manifest.

## 4. The proofs

Each theorem holds for every value of the constants that the named `ASSUME`s of the
modules admit; what it assumes besides is in its statement and in the tables here.
What the runs check on small instances under the same names is then a test that
the statements say what they should.

### ParseObjectProofs

For every `MaxDepth`, every `Budget`, every set of kinds and lengths:

| Theorem | Says | Assumes |
| --- | --- | --- |
| `TypesAreKept`, `TypeCorrect` | `TypeOK`; the type invariant, with the ranges the slots of the calls lie in | nothing |
| `NestingIsBalanced` | `NestingBalanced` | nothing |
| `FlagsAreScoped` | `FlagsScoped` | nothing |
| `RefTableAligned` | `RefsAligned` | nothing |
| `StreamAligned` | `Aligned` | `Handled` |
| `OnlyTheLimitStopsIt` | `OnlyDepthFails` | `Handled` |
| `TagReferencesResolve` | `TagsResolve` | `Handled`, tags numbered as R numbers them |
| `SymbolTableOrdered` | `SymbolsInOrder` | `Handled` |
| `FallbackIsDead` | the symbol table is never consulted for a tag | nothing |

`Handled` excludes what the parser is known to misread: external pointers, the
triple that looks like a sequence state, attributes on later cells.

The argument. `Aligned` is not inductive: it relates the reads of the topmost
call to what R has left, but a step that returns needs the same for the call
below. The strengthening keeps, for every active call, where its object ends
(`rest`) and that these points are ordered; then each action changes only the
topmost segment, and `Parts` and `Steps` agree role by role (the lemma the case
distinction over kinds goes into). `RefsAligned` needs that each slot being
filled belongs to exactly one call and that the call's type is what R numbered;
`SymbolsInOrder` that a symbol's call has nothing above it but its characters,
so symbols finish in the order they begin. `OnlyDepthFails` follows from
alignment: a reference R writes is to a number it has given, and the tables have
the same length. `FlagsScoped` speaks of the two flags as they are now; that a
return puts the right ones back needs that what each call found when it began
(`wasBody`, `wasLazy`) is what the calls below it ask for (`Found`), and that no
read changes the row.names mark of a call that has another one above it.

### ReadersProofs: the sequential parsers

For every policy, every depth and every stream the two parsers handle:

| Theorem | Says |
| --- | --- |
| `SequentialAligned` | `SeqAligned` |
| `SequentialSlots` | `SeqSlotsAligned` |
| `FlagsAreOfCalls` | `FlagsFollowCalls` |
| `PolicyIsScoped` | `PolicyScoped` |

All four assume `SeqHandled`: no environments, closures, promises and external
pointers, of which these parsers read no parts, no attributes on later cells, and
neither of the constructs in `Misread`.

The four properties hang together, which is why there is one invariant, `SeqInv`. What
is skipped depends on the flags (a lenient parser skips cells it would otherwise
keep), so the alignment of the reads needs `FlagsKept`; the flags a call puts back
depend on the tag it read, so they need that names are read at the top of the
stack (`NamesOnTop`) and hit the slot R numbered. Alignment itself is `Owes`: there
is a row of pieces, one per active call, each the roles its reads stand for, whose
concatenation is what R has left to write, the piece of a call that has another
above it beginning where the one above ends. `FlagsKept` says of every call, not
only of the top, that the flags it found are those its callers ask for.

### ReadersProofs: the streaming traversal

For every visitor, depth and budget, and every set of kinds:

| Theorem | Says | Assumes |
| --- | --- | --- |
| `WalkTypesAreKept` | `StreamTypeOK` | nothing |
| `StopIsTheEnd` | `NothingAfterStop` | nothing |
| `EventsAreNested` | `EventsNested` | nothing |
| `WalkKeepsSlots` | `WalkSlotsAligned` | nothing |
| `TargetsAreShared` | `SharedTargets` | nothing |
| `WalkStaysAligned` | `WalkAligned` | `WalkHandled` |

`WalkHandled` is `Handled` without promises, which the traversal does not read as R
writes them (the run `stream_promise`).

The argument. Two parsers share a stack, so everything begins with `StreamShape`: the
lowest frames are the traversal's, one per entry of `walk`, and each has left of its
reads an end of what its type asks for; a call that was stopped has left late
attributes and reports only, and so have the calls below it. `StreamStep` shows that with every
step and says what the step did to the stack (`Effect`: a call entered, a read made, a
return, a start, a report); the other invariants go over these few effects instead of
over all the actions. They build on each other:

- `HeardInv`: the calls the visitor heard of are the lowest ones, the paths it has open are
  theirs, each a segment longer than the one below, and the objects reported among attributes
  lie above them. `EventsNested` says this at its end only.
- `SlotInv`: every slot belongs to the object R numbered there, and only the innermost call
  may owe one, from the item it has read to the answer of the visitor (`Slotted`). What
  the visitor was told of an object is the path the table of paths has for it (`PathsKept`), where
  that table may know more, of the objects it never heard of.
- `AlignInv`: as `Owes` of the sequential parsers, with the calls of both parsers in one row
  of pieces (`WalkAgreed`). A start, a report and an end stand for no role of the
  stream (`Loud` leaves them out), so that the answer of a visitor cannot shift what is read.

### RetryProofs

| Theorem | Says |
| --- | --- |
| `RetryAlways` | the inductive invariant `RetryInv` |
| `AttemptsAreClean` | `AttemptsStartClean` |
| `RetriesAreOnePass` | `AsInOnePass` |
| `WhatFitsIsParsed` | `FitsMeansParsed` |

For every object, every limit of the buffer and every input, with no further
assumption. `AsInOnePass` says where a returned parse may differ from one pass and that it
differs nowhere else: there is a part behind which the cursor stands; the tables are those
of one pass up to that part, in which the strings read by the sequential parser are not
shared; and what lies behind it are parts whose absence the code forgives. Of a parse
that is astray it says nothing. The invariant says at each control point what the tables
are: those of one pass up to the parts before the call (`Places`), and in an attempt
those up to the part at hand, which extend the ones that were saved (`Attempt`). A rollback by
length is then a rollback to what was saved, since a part only appends. `ReadAll`
and `LengthOf`, defined by recursive functions, are unfolded by lemmas
on their domains, and what holds of every prefix of an object is shown with the least
length where it would fail (`Least`).

### CursorProofs

| Theorem | Says |
| --- | --- |
| `CursorAlways` | the inductive invariant of either cursor |
| `CursorTypes` | the type invariant |
| `CursorHoldsTheStream` | `BufferIsStream`: the buffer is the stream at the place the cursor takes it to be |
| `CursorIsBounded` | `BufferBounded` |
| `CursorImplementsStream` | `ImplementsByteStream`: every step of either cursor is a step of `ByteStream` or none of its; so a skip that is done has taken the amount it was asked to |

For every input, buffer size, limit and way the input is cut into pieces. At rest
three counters agree; the invariant says what becomes of them across the awaits:
during a fill, what is left to read is what the request lacks after what came, and
during a skip the buffer is empty and only the position of the input counts.

### SourceProofs

| Theorem | Says |
| --- | --- |
| `SourceAlways`, `SourceTypes` | the inductive invariant; the type invariant |
| `QueueMatchesMap` | `LruMatchesMap` |
| `CacheIsBounded` | `MemoryBounded` |
| `CountIsSafe` | `CountCoversHeld` |
| `ReadsAreExact` | `ReadsExact` |

For every file, chunk size and limit, any number of clients and any number of prefetch
tasks. `MemoryBounded` is not inductive: the bound is kept by comparing
`current_bytes`, which counts a chunk twice when two insert it. It needs
`CountCoversHeld`, which in turn needs that the queue lists each chunk once, and
between the steps of an insert that the chunk on its way in can fit. `ReadsExact`
needs for each client at each of its control points how much of its range it has
(`ClientOK`); nothing that the others do to the cache appears in it, which is the
point.

### SaveProofs

| Theorem | Says | Assumes |
| --- | --- | --- |
| `SaveTypes` | `TypeOK` | nothing |
| `CallsAreDelivered` | a save to a callback that reports success called it with the pieces of its stream, in order and complete | nothing |
| `TargetIsWhole` | `TargetWhole` | `LateErrors = FALSE`, `OneFileSaver` |
| `OkIsDelivered` | `OkMeansDelivered` | `OneFileSaver` |

Any number of savers, saves, errors and crashes. Both hypotheses are what the code
needs and does not enforce: with `LateErrors` the run `save_late` refutes `TargetWhole`,
and two savers of one target write the same temporary file (section 3).
`OkIsDelivered` holds whether or not the last flush of a file may fail, because
`OkMeansDelivered` states what that costs (`LostItsEnd`): only a file, only by that one
failure, and then the target is a beginning of the stream that lacks no more than the
buffer held. Every other failure is reported. The invariant says where the stream is: in the file, then in the buffer, with no
overlap (`FileOK`), and that temporary name and target never stand for the same
file, so that what is written is never what readers see.

### WriteObjectProofs

For every set of names, every number of addresses and every budget:

| Theorem | Says | Assumes |
| --- | --- | --- |
| `WriterCountsLikeReader` | `NumbersAgree` | `CountsAlike` |
| `ReferencesAreRight` | `RefsMeanWhatWasWritten` | `CountsAlike` |
| `SharingSurvives` | `WrittenOnce` | `CountsAlike` |
| `StreamIsComplete` | `StreamComplete` | `NoEmptyForms` |
| `WritesWhatRCould` | `ImplementsStream`: the writer refines `RStream` | `Writable` |

`CountsAlike` excludes the first four shapes of section 2, `NoEmptyForms` the last
two; `Writable` is both, with all kinds the writer knows among those R writes and
tags numbered as R numbers them.

The argument. `NumbersAgree` says the tables are right, not that they are complete:
a symbol the tables lost would be written twice and still counted right. The
inductive invariant `Numbered` adds `TablesComplete`, every number of the reader is
in the table its owner is looked up in, and `NamespacesKept`, a
namespace in the table of names is at an address already met. A reference is then right because it comes from a
table, and nothing is written twice because what was written is found. Completeness
is `Matching`: the writes still to be made and the roles the format still expects
are equally long rows, and each write is one of its role. For the refinement an item must
besides be one R may write *there*: a reference stands where an object of its kind
could (`KindsNamed`), and after the budget both close in the same way.

### LazyProofs

| Theorem | Says |
| --- | --- |
| `LazyInvariant` | the inductive invariant `LazyInv` |
| `TypeCorrect` | `TypeOK` |
| `ChunksKeepLimits` | `ChunksBounded` |
| `ReadersDeliver` | `ImplementsDelivery`: every reader refines `VectorDelivery` |

For every set of vectors, with elements of any width and strings of any length,
every limit, every range, and any number of failures; only `LazyAssumption`, which
says what a vector is, is assumed.

The argument. What has been handed over is a prefix of the elements asked for, and it is
known by its length alone: `From(0, n)`, n elements from the first one on. So a chunk is right
when it is the next such run, and `LazyInv` says for each reader where that run begins.

- In memory, and for an iterator: the chunk in the making is what follows those that
  were handed over (`PiecesInv`); of a range of strings, which reads from the
  start, how many were passed over and how many found follows from how many have left
  the reader.
- A stream of reads (`StreamInv`): what is carried over begins where the last element
  that was handed over ends, and is less than an element. A read that ends anywhere
  then completes whole elements and leaves less than one, which is what division by
  the width of an element says.
- Strings of a span (`ReaderInv`): the byte that comes next is the first of the next
  record, or as far behind it as the record has been read, whatever the last read put
  in the buffer; and the cache has the strings spelled so far, in order, so that the
  k-th is the k-th element that is not a reference, which is what a reference means.
- The limits (`OutInv`): the count of bytes is that of the chunk, and a chunk that
  goes on being filled is below both limits. `ChunksBounded` follows when it is handed
  over; it allows one element on top, because the code pushes before it looks.

The lemmas before that are about the operators: `Total`, the sum of a sequence, and
`FlattenSeq`, of which the proofs need what an appended element adds to them. Both
are recursive functions; that such a function has the values it is written to have is shown for
one sequence, with the least place where it would not (`LeastOf`), as in `RetryProofs`.

### Only model-checked

Liveness (`Termination`, `AttemptsEnd`, `OperationsComplete`, `CallsReturn`,
`IterationEnds`), which is out of the prover's reach. Every invariant, action property
and refinement of the passing runs is stated by a theorem; what a theorem assumes besides
the constants' `ASSUME`s is in the tables above.

## 5. Not modelled, and the plan

Not modelled:

- the bytes inside an item (numbers, strings, encodings, compression headers): no
  state depends on them beyond the item's type and length;
- bytecode, S4 class attributes and the deduplication table: further state of the
  recursive parser (the table appears in `RetryParse`, where it is rolled back);
- the streaming fallback over a forward cursor (parser.rs 1841-2355, 5964-6520), a
  further copy of the traversal that `StreamParse` models; `RetryParse` has it for lists
  and calls a parse that takes it for a pairlist, a call or an S4 object `astray`;
- two ways out of the loop over a pairlist's cells of the sequential parser: the early
  one when the caller has all the slots it wants (3291, 3313-3327, 3517-3530), after
  which the parse is abandoned, and the continuation by a symbol without a tag bit
  (3561-3565), which R does not write;
- DOTSXP, which the parser refuses (4983);
- streaming decompression, seen by the cursor as pieces of any size;
- materialization and the rest of extraction: loops over what `LazyVectors` models
  with a budget that is added up, file names, the manifest;
- the object model, the commands in `src/bin`, the browser bindings: no state of their
  own that outlives a call.

The plan, most important first:

1. Composition: `ParseObject` reading what `WriteObject` writes.
2. Deduplication, bytecode slots and S4 class attributes as parts of `ParseObject`.
3. The sequential streaming fallback; decompression; extraction of several vectors
   under one budget, and its manifest.
