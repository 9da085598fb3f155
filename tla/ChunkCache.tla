----------------------------- MODULE ChunkCache -----------------------------
(***************************************************************************)
(* The byte-bounded LRU cache of file chunks, written twice in the crate:   *)
(* ChunkCacheState (source.rs, behind a mutex) and CacheState               *)
(* (wasm/blob_source.rs, behind a RefCell).                                 *)
(*                                                                          *)
(* A cached chunk always holds the file's bytes, so the map is the set of   *)
(* its keys.  current_bytes is the cache's own count of what it holds; what *)
(* it really holds is Held.                                                 *)
(***************************************************************************)
EXTENDS SourceConfig

VARIABLES
  maxBytes,  \* max_bytes, fixed when the cache is made
  map,       \* the chunks in the cache
  lru,       \* their indices, the one used longest ago first
  bytes,     \* current_bytes
  holder,    \* who is inside insert: the cache is borrowed or locked
  incoming   \* the chunk being inserted

cvars == <<maxBytes, map, lru, bytes, holder, incoming>>

(* Chunk c of the file: the positions from chunk_start up to chunk_end.     *)
ChunkStart(c) == c * ChunkSize
ChunkEnd(c)   == IF ChunkStart(c) + ChunkSize < FileLen
                 THEN ChunkStart(c) + ChunkSize ELSE FileLen
Bytes(c)      == ChunkStart(c) .. (ChunkEnd(c) - 1)
Chunks        == {c \in 0..FileLen : ChunkStart(c) < FileLen}
Held          == UNION {Bytes(c) : c \in map}

Elements(s) == {s[k] : k \in 1..Len(s)}

(* lru.retain(|id| *id != c): an index is in the queue at most once.        *)
Retain(s, c) ==
  IF c \in Elements(s)
  THEN LET k == CHOOSE j \in 1..Len(s) : s[j] = c
       IN SubSeq(s, 1, k - 1) \o SubSeq(s, k + 1, Len(s))
  ELSE s

CInit ==
  /\ maxBytes \in Limits
  /\ map = {} /\ lru = <<>> /\ bytes = 0 /\ holder = Nobody /\ incoming = 0

(* A hit makes the chunk the most recent one.                               *)
Appended(c) == Append(lru, c)
Moved(c)    == Append(Retain(lru, c), c)

Hit(c) ==
  /\ holder = Nobody /\ c \in map
  /\ lru' = Moved(c)
  /\ UNCHANGED <<maxBytes, map, bytes, holder, incoming>>

Miss(c) == holder = Nobody /\ c \notin map /\ UNCHANGED cvars

(* insert: a chunk that can never fit empties the cache; for any other one  *)
(* the oldest chunks go until it fits or none is left.                      *)
Size(c) == ChunkEnd(c) - ChunkStart(c)

NeverTooBig(c) == FALSE
TooBig(c)      == Size(c) > maxBytes

BeginInsert(who, c) ==
  /\ holder = Nobody /\ incoming' = c /\ UNCHANGED maxBytes
  /\ IF TooBig(c)
     THEN map' = {} /\ lru' = <<>> /\ bytes' = 0 /\ UNCHANGED holder
     ELSE holder' = who /\ UNCHANGED <<map, lru, bytes>>

FitsWithout == bytes <= maxBytes
Fits        == bytes + Size(incoming) <= maxBytes

NeverExhausted == FALSE
Exhausted      == lru = <<>>

(* The count without chunk c; the subtraction saturates.                    *)
CountAfter(c) == IF c \notin map THEN bytes
                 ELSE IF bytes > Size(c) THEN bytes - Size(c) ELSE 0

Evict(who) ==
  /\ holder = who /\ ~Fits /\ lru # <<>>
  /\ lru' = Tail(lru)
  /\ map' = map \ {Head(lru)}
  /\ bytes' = CountAfter(Head(lru))
  /\ UNCHANGED <<maxBytes, holder, incoming>>

(* The count grows by the chunk's size whether or not the map had it.       *)
CountNew(c)    == Size(c)
CountStored(c) == bytes + Size(c)

Store(who) ==
  /\ holder = who /\ (Fits \/ Exhausted)
  /\ bytes' = CountStored(incoming)
  /\ map' = map \cup {incoming}
  /\ lru' = Moved(incoming)
  /\ holder' = Nobody
  /\ UNCHANGED <<maxBytes, incoming>>
-----------------------------------------------------------------------------
CTypeOK(Actors) ==
  /\ maxBytes \in Limits /\ map \subseteq Chunks /\ lru \in Seq(Chunks) /\ bytes \in Nat
  /\ holder \in Actors \cup {Nobody} /\ incoming \in Nat

(* The queue lists the cached chunks, each once: whatever is cached can be  *)
(* evicted, and what is evicted was cached.                                 *)
LruMatchesMap ==
  /\ Elements(lru) = map
  /\ \A j, k \in 1..Len(lru) : lru[j] = lru[k] => j = k

(* The cache never holds more than max_bytes.                               *)
MemoryBounded == Cardinality(Held) <= maxBytes

(* The count never falls behind what is held: an insert that looks as if it *)
(* fits does fit.                                                           *)
CountCoversHeld == Cardinality(Held) <= bytes
=============================================================================
