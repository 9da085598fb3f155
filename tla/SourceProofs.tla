---------------------------- MODULE SourceProofs ----------------------------
(***************************************************************************)
(* The two chunked sources, for every file, chunk size, limit and number of *)
(* clients: the cache keeps its books and its limit, and a read that        *)
(* returns Ok has its bytes, whatever the others did to the cache.          *)
(***************************************************************************)
EXTENDS RangeSource, FiniteSetTheorems, SequenceTheorems, TLAPS

(* The cache between two steps of an insert: the chunk that is on its way   *)
(* in is one of the file's and can fit.  Nothing is said of the count but   *)
(* that it covers what is held: two who insert one chunk count it twice.    *)
CacheInv ==
  /\ maxBytes \in Nat /\ map \subseteq Chunks /\ lru \in Seq(Chunks) /\ bytes \in Nat
  /\ LruMatchesMap
  /\ CountCoversHeld /\ MemoryBounded
  /\ holder # Nobody => incoming \in Chunks /\ ~TooBig(incoming)

-----------------------------------------------------------------------------
(* Chunks.                                                                  *)
LEMMA ChunkFacts ==
  ASSUME NEW c \in Chunks
  PROVE  /\ c \in Nat /\ ChunkStart(c) \in Nat /\ ChunkStart(c) < FileLen
         /\ ChunkEnd(c) \in Nat /\ ChunkStart(c) < ChunkEnd(c)
         /\ ChunkEnd(c) <= FileLen /\ ChunkEnd(c) <= ChunkStart(c) + ChunkSize
         /\ (ChunkEnd(c) < FileLen => ChunkEnd(c) = ChunkStart(c) + ChunkSize)
         /\ Size(c) \in Nat /\ Size(c) > 0
<1>1. FileLen \in Nat /\ ChunkSize \in Nat \ {0}
  BY SourceAssumption
<1>2. c \in Nat /\ ChunkStart(c) < FileLen
  BY <1>1 DEF Chunks
<1>3. ChunkStart(c) \in Nat
  BY <1>1, <1>2 DEF ChunkStart
<1>4. /\ ChunkEnd(c) \in Nat /\ ChunkStart(c) < ChunkEnd(c)
      /\ ChunkEnd(c) <= FileLen /\ ChunkEnd(c) <= ChunkStart(c) + ChunkSize
      /\ (ChunkEnd(c) < FileLen => ChunkEnd(c) = ChunkStart(c) + ChunkSize)
  BY <1>1, <1>2, <1>3 DEF ChunkEnd
<1>5. Size(c) \in Nat /\ Size(c) > 0
  BY <1>3, <1>4 DEF Size
<1> QED BY <1>2, <1>3, <1>4, <1>5

LEMMA ChunkBytes ==
  ASSUME NEW c \in Chunks
  PROVE  /\ IsFiniteSet(Bytes(c)) /\ Cardinality(Bytes(c)) = Size(c)
         /\ Bytes(c) \subseteq 0..FileLen
<1>1. /\ ChunkStart(c) \in Nat /\ ChunkEnd(c) \in Nat /\ ChunkStart(c) < ChunkEnd(c)
      /\ ChunkEnd(c) <= FileLen /\ FileLen \in Nat
  BY ChunkFacts, SourceAssumption
<1>2. IsFiniteSet(Bytes(c)) /\ Cardinality(Bytes(c)) = Size(c)
  <2> DEFINE a == ChunkStart(c)
             b == ChunkEnd(c) - 1
  <2>1. a \in Int /\ b \in Int /\ a <= b /\ b - a + 1 = Size(c)
    BY <1>1 DEF Size
  <2>2. Bytes(c) = a..b
    BY DEF Bytes
  <2> HIDE DEF a, b
  <2>3. IsFiniteSet(a..b) /\ Cardinality(a..b) = IF a > b THEN 0 ELSE b - a + 1
    BY <2>1, FS_Interval
  <2> QED BY <2>1, <2>2, <2>3
<1>3. Bytes(c) \subseteq 0..FileLen
  BY <1>1 DEF Bytes
<1> QED BY <1>2, <1>3

LEMMA LaterChunk ==
  ASSUME NEW c \in Nat, NEW d \in Nat, c < d
  PROVE  ChunkStart(c) + ChunkSize <= ChunkStart(d)
<1>1. ChunkSize \in Nat /\ ChunkSize > 0
  BY SourceAssumption
<1>2. PICK k \in Nat : d = (c + 1) + k
  <2>1. d - (c + 1) \in Nat /\ d = (c + 1) + (d - (c + 1))
    OBVIOUS
  <2> QED BY <2>1
<1>3. d * ChunkSize = (c * ChunkSize + ChunkSize) + k * ChunkSize
  BY <1>1, <1>2
<1>4. k * ChunkSize \in Nat /\ c * ChunkSize \in Nat
  BY <1>1
<1> QED BY <1>1, <1>3, <1>4 DEF ChunkStart

LEMMA ChunksDisjoint ==
  ASSUME NEW c \in Chunks, NEW d \in Chunks, c # d
  PROVE  Bytes(c) \cap Bytes(d) = {}
<1>1. ASSUME NEW a \in Chunks, NEW b \in Chunks, a < b PROVE Bytes(a) \cap Bytes(b) = {}
  <2>1. /\ ChunkStart(a) \in Nat /\ ChunkEnd(a) \in Nat /\ ChunkEnd(a) <= ChunkStart(a) + ChunkSize
        /\ ChunkStart(b) \in Nat /\ ChunkEnd(b) \in Nat /\ ChunkSize \in Nat /\ a \in Nat /\ b \in Nat
    BY ChunkFacts, SourceAssumption
  <2>2. ChunkStart(a) + ChunkSize <= ChunkStart(b)
    BY <1>1, <2>1, LaterChunk
  <2> QED BY <2>1, <2>2 DEF Bytes
<1>2. c \in Nat /\ d \in Nat
  BY ChunkFacts
<1> QED BY <1>1, <1>2

(* What a set of chunks holds.                                              *)
LEMMA HeldIsFinite ==
  ASSUME map \subseteq Chunks
  PROVE  IsFiniteSet(Held) /\ Cardinality(Held) \in Nat
<1>1. Held \subseteq 0..FileLen
  BY ChunkBytes DEF Held
<1>2. IsFiniteSet(0..FileLen)
  BY FS_Interval, SourceAssumption
<1>3. IsFiniteSet(Held)
  BY <1>1, <1>2, FS_Subset
<1> QED BY <1>3, FS_CardinalityType

LEMMA HeldWithout ==
  ASSUME map \subseteq Chunks, NEW h \in map, map' = map \ {h}
  PROVE  Cardinality(Held') = Cardinality(Held) - Size(h)
         /\ Size(h) <= Cardinality(Held)
<1>1. Held = Held' \cup Bytes(h) /\ Held' \cap Bytes(h) = {}
  BY ChunksDisjoint DEF Held
<1>2. IsFiniteSet(Held) /\ IsFiniteSet(Bytes(h)) /\ Cardinality(Bytes(h)) = Size(h)
  BY HeldIsFinite, ChunkBytes
<1> DEFINE rest == Held'
<1>3. IsFiniteSet(rest)
  BY <1>1, <1>2, FS_Subset
<1>4. Cardinality(rest) \in Nat /\ Size(h) \in Nat
  BY <1>3, FS_CardinalityType, ChunkFacts
<1> HIDE DEF rest
<1>5. Cardinality(rest \cup Bytes(h))
        = Cardinality(rest) + Cardinality(Bytes(h)) - Cardinality(rest \cap Bytes(h))
  BY <1>2, <1>3, FS_Union
<1>6. rest \cap Bytes(h) = {} /\ rest \cup Bytes(h) = Held
  BY <1>1 DEF rest
<1>7. Cardinality({}) = 0
  BY FS_EmptySet
<1>8. Cardinality(Held) = Cardinality(rest) + Size(h)
  <2>1. Cardinality(Held) = Cardinality(rest) + Size(h) - 0
    BY <1>2, <1>5, <1>6, <1>7, Zenon
  <2> QED BY <1>4, <2>1
<1> QED BY <1>4, <1>8 DEF rest

LEMMA HeldWith ==
  ASSUME map \subseteq Chunks, NEW c \in Chunks, map' = map \cup {c}
  PROVE  Cardinality(Held') <= Cardinality(Held) + Size(c)
         /\ Cardinality(Held') \in Nat
<1>1. Held' = Held \cup Bytes(c)
  BY DEF Held
<1>2. IsFiniteSet(Held) /\ IsFiniteSet(Bytes(c)) /\ Cardinality(Bytes(c)) = Size(c)
  BY HeldIsFinite, ChunkBytes
<1>3. /\ IsFiniteSet(Held \cup Bytes(c))
      /\ Cardinality(Held \cup Bytes(c))
           = Cardinality(Held) + Cardinality(Bytes(c)) - Cardinality(Held \cap Bytes(c))
  BY <1>2, FS_Union
<1>4. IsFiniteSet(Held \cap Bytes(c))
  BY <1>2, FS_Subset
<1>5. Cardinality(Held \cap Bytes(c)) \in Nat /\ Cardinality(Held \cup Bytes(c)) \in Nat
      /\ Cardinality(Held) \in Nat /\ Size(c) \in Nat
  BY <1>2, <1>3, <1>4, FS_CardinalityType, ChunkFacts
<1> QED BY <1>1, <1>2, <1>3, <1>5

LEMMA HeldNothing ==
  ASSUME map = {}
  PROVE  Held = {} /\ Cardinality(Held) = 0
<1>1. Held = {}
  BY DEF Held
<1> QED BY <1>1, FS_EmptySet
-----------------------------------------------------------------------------
(* The queue.                                                               *)
Distinct(s) == \A j, k \in 1..Len(s) : s[j] = s[k] => j = k

LEMMA RetainDrops ==
  ASSUME NEW s \in Seq(Chunks), Distinct(s), NEW c \in Chunks
  PROVE  /\ Retain(s, c) \in Seq(Chunks) /\ Distinct(Retain(s, c))
         /\ Elements(Retain(s, c)) = Elements(s) \ {c}
<1>1. CASE c \notin Elements(s)
  BY <1>1 DEF Retain
<1>2. CASE c \in Elements(s)
  <2> DEFINE k == CHOOSE j \in 1..Len(s) : s[j] = c
             a == SubSeq(s, 1, k - 1)
             b == SubSeq(s, k + 1, Len(s))
             t == a \o b
  <2>1. k \in 1..Len(s) /\ s[k] = c
    <3>1. \E j \in 1..Len(s) : s[j] = c
      BY <1>2 DEF Elements
    <3> QED BY <3>1
  <2>2. Retain(s, c) = t
    BY <1>2 DEF Retain
  <2> HIDE DEF k
  <2>3. Len(s) \in Nat
    OBVIOUS
  <2>4. a \in Seq(Chunks) /\ Len(a) = k - 1 /\ \A i \in 1..(k - 1) : a[i] = s[i]
    BY <2>1, <2>3
  <2>5. b \in Seq(Chunks) /\ Len(b) = Len(s) - k /\ \A i \in 1..(Len(s) - k) : b[i] = s[k + i]
    BY <2>1, <2>3
  <2> HIDE DEF a, b
  <2>6. t \in Seq(Chunks) /\ Len(t) = Len(s) - 1
    <3>1. t \in Seq(Chunks) /\ Len(t) = Len(a) + Len(b)
      BY <2>4, <2>5, ConcatProperties
    <3> QED BY <2>1, <2>3, <2>4, <2>5, <3>1
  <2>7. \A i \in 1..Len(t) : t[i] = IF i < k THEN s[i] ELSE s[i + 1]
    <3> TAKE i \in 1..Len(t)
    <3>1. CASE i < k
      BY <3>1, <2>1, <2>3, <2>4, <2>5, <2>6
    <3>2. CASE i >= k
      <4>1. t[i] = b[i - (k - 1)]
        BY <3>2, <2>1, <2>3, <2>4, <2>5, <2>6
      <4>2. i - (k - 1) \in 1..(Len(s) - k) /\ k + (i - (k - 1)) = i + 1
        BY <3>2, <2>1, <2>3, <2>6
      <4> QED BY <3>2, <4>1, <4>2, <2>1, <2>5
    <3> QED BY <3>1, <3>2, <2>1, <2>6
  <2> HIDE DEF t
  <2>8. Distinct(t)
    BY <2>1, <2>3, <2>6, <2>7 DEF Distinct
  <2>9. ASSUME NEW x \in Elements(t) PROVE x \in Elements(s) \ {c}
    <3>1. PICK i \in 1..Len(t) : x = t[i]
      BY <2>9 DEF Elements
    <3>2. PICK j \in 1..Len(s) : x = s[j] /\ j # k
      BY <3>1, <2>1, <2>3, <2>6, <2>7
    <3> QED BY <3>2, <2>1 DEF Elements, Distinct
  <2>10. ASSUME NEW x \in Elements(s) \ {c} PROVE x \in Elements(t)
    <3>1. PICK j \in 1..Len(s) : x = s[j]
      BY <2>10 DEF Elements
    <3>2. j # k
      BY <3>1, <2>1, <2>10
    <3>3. CASE j < k
      <4>1. j \in 1..Len(t) /\ t[j] = x
        BY <3>1, <3>3, <2>1, <2>3, <2>6, <2>7
      <4> QED BY <4>1 DEF Elements
    <3>4. CASE j > k
      <4>1. j - 1 \in 1..Len(t) /\ t[j - 1] = x
        BY <3>1, <3>4, <2>1, <2>3, <2>6, <2>7
      <4> QED BY <4>1 DEF Elements
    <3> QED BY <3>2, <3>3, <3>4, <2>1, <2>3
  <2> QED BY <2>2, <2>6, <2>8, <2>9, <2>10
<1> QED BY <1>1, <1>2

LEMMA AppendKeepsDistinct ==
  ASSUME NEW s \in Seq(Chunks), Distinct(s), NEW c \in Chunks, c \notin Elements(s)
  PROVE  /\ Append(s, c) \in Seq(Chunks) /\ Distinct(Append(s, c))
         /\ Elements(Append(s, c)) = Elements(s) \cup {c}
<1> DEFINE t == Append(s, c)
<1>1. t \in Seq(Chunks) /\ Len(t) = Len(s) + 1 /\ Len(s) \in Nat
      /\ (\A i \in 1..Len(s) : t[i] = s[i]) /\ t[Len(s) + 1] = c
  BY AppendProperties
<1> HIDE DEF t
<1>2. \A i \in 1..Len(t) : i \in 1..Len(s) \/ i = Len(s) + 1
  BY <1>1
<1>3. Distinct(t)
  BY <1>1, <1>2 DEF Distinct, Elements
<1>4. Elements(t) = Elements(s) \cup {c}
  <2>1. Elements(t) \subseteq Elements(s) \cup {c}
    BY <1>1, <1>2 DEF Elements
  <2>2. c \in Elements(t) /\ Elements(s) \subseteq Elements(t)
    <3>1. Len(s) + 1 \in 1..Len(t) /\ 1..Len(s) \subseteq 1..Len(t)
      BY <1>1
    <3> QED BY <1>1, <3>1 DEF Elements
  <2> QED BY <2>1, <2>2
<1> QED BY <1>1, <1>3, <1>4 DEF t

LEMMA MoveKeepsQueue ==
  ASSUME NEW c \in Chunks, lru \in Seq(Chunks), LruMatchesMap
  PROVE  /\ Moved(c) \in Seq(Chunks) /\ Distinct(Moved(c))
         /\ Elements(Moved(c)) = map \cup {c}
<1>1. Distinct(lru) /\ Elements(lru) = map
  BY DEF Distinct, LruMatchesMap
<1>2. Retain(lru, c) \in Seq(Chunks) /\ Distinct(Retain(lru, c)) /\ Elements(Retain(lru, c)) = map \ {c}
  BY <1>1, RetainDrops
<1>3. c \notin Elements(Retain(lru, c))
  BY <1>2
<1>4. /\ Append(Retain(lru, c), c) \in Seq(Chunks) /\ Distinct(Append(Retain(lru, c), c))
      /\ Elements(Append(Retain(lru, c), c)) = (map \ {c}) \cup {c}
  BY <1>2, <1>3, AppendKeepsDistinct
<1> QED BY <1>4 DEF Moved

LEMMA TailKeepsQueue ==
  ASSUME lru \in Seq(Chunks), lru # <<>>, LruMatchesMap
  PROVE  /\ Tail(lru) \in Seq(Chunks) /\ Distinct(Tail(lru)) /\ Head(lru) \in map
         /\ Elements(Tail(lru)) = map \ {Head(lru)}
<1> DEFINE t == Tail(lru)
<1>1. /\ t \in Seq(Chunks) /\ Len(t) = Len(lru) - 1 /\ Len(lru) \in Nat /\ Len(lru) > 0
      /\ Head(lru) = lru[1] /\ \A i \in 1..Len(t) : t[i] = lru[i + 1]
  BY HeadTailProperties
<1> HIDE DEF t
<1>2. Distinct(lru) /\ Elements(lru) = map
  BY DEF Distinct, LruMatchesMap
<1>3. Distinct(t)
  BY <1>1, <1>2 DEF Distinct
<1>4. Head(lru) \in map
  BY <1>1, <1>2 DEF Elements
<1>5. ASSUME NEW x \in Elements(t) PROVE x \in map \ {Head(lru)}
  <2>1. PICK i \in 1..Len(t) : x = t[i]
    BY <1>5 DEF Elements
  <2>2. i + 1 \in 1..Len(lru) /\ i + 1 # 1 /\ 1 \in 1..Len(lru) /\ x = lru[i + 1]
    BY <2>1, <1>1
  <2> QED BY <2>2, <1>1, <1>2 DEF Distinct, Elements
<1>6. ASSUME NEW x \in map \ {Head(lru)} PROVE x \in Elements(t)
  <2>1. PICK j \in 1..Len(lru) : x = lru[j]
    BY <1>2, <1>6 DEF Elements
  <2>2. j # 1
    BY <1>1, <1>6, <2>1
  <2>3. j - 1 \in 1..Len(t) /\ t[j - 1] = x
    BY <1>1, <2>1, <2>2
  <2> QED BY <2>3 DEF Elements
<1> QED BY <1>1, <1>3, <1>4, <1>5, <1>6 DEF t
-----------------------------------------------------------------------------
(* The cache's operations.                                                  *)
LEMMA CacheFacts ==
  ASSUME CacheInv
  PROVE  /\ maxBytes \in Nat /\ map \subseteq Chunks /\ lru \in Seq(Chunks) /\ bytes \in Nat
         /\ LruMatchesMap /\ Cardinality(Held) \in Nat
         /\ Cardinality(Held) <= bytes /\ Cardinality(Held) <= maxBytes
BY HeldIsFinite DEF CacheInv, CountCoversHeld, MemoryBounded

LEMMA CacheIntro ==
  ASSUME maxBytes' \in Nat, map' \subseteq Chunks, lru' \in Seq(Chunks), bytes' \in Nat,
         Distinct(lru'), Elements(lru') = map',
         Cardinality(Held') <= bytes', Cardinality(Held') <= maxBytes',
         holder' # Nobody => incoming' \in Chunks /\ Size(incoming') <= maxBytes'
  PROVE  CacheInv'
<1>1. LruMatchesMap'
  BY DEF LruMatchesMap, Distinct
<1>2. CountCoversHeld' /\ MemoryBounded'
  BY DEF CountCoversHeld, MemoryBounded
<1>3. (holder # Nobody => incoming \in Chunks /\ ~TooBig(incoming))'
  <2> SUFFICES ASSUME holder' # Nobody
               PROVE  incoming' \in Chunks /\ ~(Size(incoming') > maxBytes')
    BY DEF TooBig
  <2>1. incoming' \in Chunks /\ Size(incoming') <= maxBytes' /\ maxBytes' \in Nat
    OBVIOUS
  <2>2. Size(incoming') \in Nat
    BY <2>1, ChunkFacts
  <2> QED BY <2>1, <2>2
<1> QED BY <1>1, <1>2, <1>3 DEF CacheInv

LEMMA CacheSame == CacheInv /\ UNCHANGED cvars => CacheInv'
BY DEF CacheInv, cvars, LruMatchesMap, CountCoversHeld, MemoryBounded, Held, TooBig

LEMMA CacheHits == ASSUME CacheInv, NEW c \in Chunks, Hit(c) PROVE CacheInv'
<1>1. /\ c \in map /\ lru' = Moved(c) /\ holder' = Nobody
      /\ UNCHANGED <<maxBytes, map, bytes, holder, incoming>>
  BY DEF Hit
<1>2. lru' \in Seq(Chunks) /\ Distinct(lru') /\ Elements(lru') = map
  BY <1>1, MoveKeepsQueue, CacheFacts
<1>3. Held' = Held
  BY <1>1 DEF Held
<1> QED BY <1>1, <1>2, <1>3, CacheFacts, CacheIntro

LEMMA CacheBegins ==
  ASSUME CacheInv, NEW who, NEW c \in Chunks, BeginInsert(who, c) PROVE CacheInv'
<1>1. CASE TooBig(c)
  <2>1. map' = {} /\ lru' = <<>> /\ bytes' = 0 /\ holder' = Nobody /\ maxBytes' = maxBytes
    BY <1>1 DEF BeginInsert
  <2>2. Held' = {} /\ Cardinality(Held') = 0
    <3>1. Held' = {}
      BY <2>1 DEF Held
    <3> QED BY <3>1, FS_EmptySet
  <2>3. Distinct(<<>>) /\ Elements(<<>>) = {} /\ <<>> \in Seq(Chunks)
    BY DEF Distinct, Elements
  <2> QED BY <2>1, <2>2, <2>3, CacheFacts, CacheIntro
<1>2. CASE ~TooBig(c)
  <2>1. incoming' = c /\ UNCHANGED <<maxBytes, map, lru, bytes>>
    BY <1>2 DEF BeginInsert
  <2>2. Size(c) <= maxBytes
    BY <1>2, ChunkFacts, CacheFacts DEF TooBig
  <2>3. Held' = Held
    BY <2>1 DEF Held
  <2>4. Distinct(lru) /\ Elements(lru) = map
    BY CacheFacts DEF LruMatchesMap, Distinct
  <2> QED BY <2>1, <2>2, <2>3, <2>4, CacheFacts, CacheIntro
<1> QED BY <1>1, <1>2

LEMMA CacheEvicts == ASSUME CacheInv, NEW who, who # Nobody, Evict(who) PROVE CacheInv'
<1> DEFINE h == Head(lru)
<1>1. /\ holder = who /\ lru # <<>> /\ lru' = Tail(lru) /\ map' = map \ {h}
      /\ bytes' = CountAfter(h) /\ UNCHANGED <<maxBytes, holder, incoming>>
  BY DEF Evict
<1>2. /\ h \in map /\ lru' \in Seq(Chunks) /\ Distinct(lru') /\ Elements(lru') = map'
  BY <1>1, CacheFacts, TailKeepsQueue
<1> HIDE DEF h
<1>3. h \in Chunks /\ map' \subseteq Chunks
  BY <1>1, <1>2, CacheFacts
<1>4. Cardinality(Held') = Cardinality(Held) - Size(h) /\ Size(h) <= Cardinality(Held)
  BY <1>1, <1>2, CacheFacts, HeldWithout
<1>5. Size(h) \in Nat /\ Size(h) > 0
  BY <1>3, ChunkFacts
<1>6. bytes' = IF bytes > Size(h) THEN bytes - Size(h) ELSE 0
  BY <1>1, <1>2 DEF CountAfter
<1>7. bytes' \in Nat /\ Cardinality(Held') <= bytes' /\ Cardinality(Held') <= maxBytes
  BY <1>4, <1>5, <1>6, CacheFacts
<1>8. incoming \in Chunks /\ Size(incoming) <= maxBytes
  <2>1. incoming \in Chunks /\ ~(Size(incoming) > maxBytes)
    BY <1>1 DEF CacheInv, TooBig
  <2> QED BY <2>1, ChunkFacts, CacheFacts
<1> QED BY <1>1, <1>2, <1>3, <1>7, <1>8, CacheFacts, CacheIntro

LEMMA CacheStores == ASSUME CacheInv, NEW who, who # Nobody, Store(who) PROVE CacheInv'
<1> DEFINE c == incoming
<1>1. /\ holder = who /\ (Fits \/ Exhausted) /\ bytes' = bytes + Size(c)
      /\ map' = map \cup {c} /\ lru' = Moved(c) /\ holder' = Nobody /\ maxBytes' = maxBytes
  BY DEF Store, CountStored
<1>2. c \in Chunks /\ Size(c) \in Nat /\ Size(c) <= maxBytes
  <2>1. incoming \in Chunks /\ ~(Size(incoming) > maxBytes)
    BY <1>1 DEF CacheInv, TooBig
  <2> QED BY <2>1, ChunkFacts, CacheFacts
<1>3. lru' \in Seq(Chunks) /\ Distinct(lru') /\ Elements(lru') = map' /\ map' \subseteq Chunks
  BY <1>1, <1>2, CacheFacts, MoveKeepsQueue
<1>4. Fits => bytes + Size(c) <= maxBytes
  BY DEF Fits
<1> HIDE DEF c
<1>5. Cardinality(Held') <= Cardinality(Held) + Size(c) /\ Cardinality(Held') \in Nat
  BY <1>1, <1>2, CacheFacts, HeldWith
<1>6. Cardinality(Held') <= bytes' /\ bytes' \in Nat
  BY <1>1, <1>2, <1>5, CacheFacts
<1>7. Cardinality(Held') <= maxBytes
  <2>1. CASE Fits
    BY <1>1, <1>2, <1>4, <1>5, <2>1, CacheFacts
  <2>2. CASE Exhausted
    <3>1. map = {}
      BY <2>2, CacheFacts DEF Exhausted, LruMatchesMap, Elements
    <3>2. Cardinality(Held) = 0
      BY <3>1, HeldNothing
    <3> QED BY <1>2, <1>5, <3>2, CacheFacts
  <2> QED BY <1>1, <2>1, <2>2
<1> QED BY <1>1, <1>3, <1>6, <1>7, CacheFacts, CacheIntro

LEMMA CacheStart == CInit => CacheInv
<1> SUFFICES ASSUME CInit PROVE CacheInv
  OBVIOUS
<1>1. /\ maxBytes \in Nat /\ map = {} /\ lru = <<>> /\ bytes = 0 /\ holder = Nobody
  BY SourceAssumption DEF CInit
<1>2. Cardinality(Held) = 0
  BY <1>1, HeldNothing
<1>3. LruMatchesMap /\ <<>> \in Seq(Chunks)
  BY <1>1 DEF LruMatchesMap, Elements
<1> QED BY <1>1, <1>2, <1>3 DEF CacheInv, CountCoversHeld, MemoryBounded
(* Whatever is done to the cache, it is one of these.                       *)
CacheStep(Actors) ==
  \/ \E c \in Chunks : Hit(c) \/ Miss(c) \/ \E who \in Actors : BeginInsert(who, c)
  \/ \E who \in Actors : Evict(who) \/ Store(who)
  \/ UNCHANGED cvars

LEMMA CacheMoves ==
  ASSUME NEW Actors, Nobody \notin Actors, CacheInv, CTypeOK(Actors), CacheStep(Actors)
  PROVE  CacheInv' /\ CTypeOK(Actors)'
<1> USE DEF CacheStep
<1>1. CacheInv'
  BY CacheHits, CacheBegins, CacheEvicts, CacheStores, CacheSame DEF Miss
<1>2. /\ maxBytes' = maxBytes /\ holder' \in Actors \cup {Nobody} /\ incoming' \in Nat
      /\ maxBytes \in Limits
  <2>1. maxBytes \in Limits /\ holder \in Actors \cup {Nobody} /\ incoming \in Nat
    BY DEF CTypeOK
  <2>2. ASSUME NEW c \in Chunks, NEW who \in Actors, BeginInsert(who, c)
        PROVE  maxBytes' = maxBytes /\ holder' \in Actors \cup {Nobody} /\ incoming' \in Nat
    <3>1. c \in Nat
      BY ChunkFacts
    <3>2. CASE TooBig(c)
      BY <2>1, <2>2, <3>1, <3>2 DEF BeginInsert
    <3>3. CASE ~TooBig(c)
      BY <2>1, <2>2, <3>1, <3>3 DEF BeginInsert
    <3> QED BY <3>2, <3>3
  <2> QED BY <2>1, <2>2 DEF Hit, Miss, Evict, Store, cvars
<1> QED BY <1>1, <1>2 DEF CTypeOK, CacheInv
-----------------------------------------------------------------------------
(* What a client was to read, and what of it lies before chunk k.           *)
Wanted(q)    == q[1] .. ((q[1] + q[2]) - 1)
Copied(q, k) == {x \in Wanted(q) : x < ChunkStart(k)}
Last(q)      == ((q[1] + q[2]) - 1) \div ChunkSize

(* A client's loop: it has the part of its range before the chunk it is at, *)
(* or, once it has read that one, before the next.                          *)
ClientOK(p, q, k, o, r) ==
  /\ p \in {"lookup", "fetch", "loading", "insert", "inserting"} =>
       q[2] > 0 /\ q[1] + q[2] <= FileLen /\ k <= Last(q)
  /\ p \in {"lookup", "fetch", "loading"} => o = Copied(q, k)
  /\ p \in {"insert", "inserting"} => o = Copied(q, k + 1)
  /\ p \in {"prefetch", "prefetching", "storing"} => o = Wanted(q)
  /\ p = "idle" /\ r = "ok" => o = Wanted(q)
  /\ p = "prefetching" => k + 1 \in Chunks

SourceInv ==
  /\ source \in {"file", "blob"} /\ TypeOK /\ CacheInv
  /\ \A c \in Clients : ClientOK(pc[c], req[c], cur[c], out[c], res[c])

LEMMA DivFacts ==
  ASSUME NEW a \in Nat
  PROVE  /\ a \div ChunkSize \in Nat
         /\ ChunkStart(a \div ChunkSize) \in Nat
         /\ ChunkStart(a \div ChunkSize) <= a
         /\ a < ChunkStart(a \div ChunkSize) + ChunkSize
<1>1. ChunkSize \in Nat /\ ChunkSize > 0
  BY SourceAssumption
<1>2. a \div ChunkSize \in Nat
  BY <1>1
<1>3. (a \div ChunkSize) * ChunkSize \in Nat
  BY <1>1, <1>2
<1>4. (a \div ChunkSize) * ChunkSize <= a
  BY <1>1
<1>5. a < (a \div ChunkSize) * ChunkSize + ChunkSize
  BY <1>1
<1> QED BY <1>2, <1>3, <1>4, <1>5 DEF ChunkStart

LEMMA IsChunk ==
  ASSUME NEW k \in Nat, ChunkStart(k) < FileLen
  PROVE  k \in Chunks
<1>1. ChunkSize \in Nat /\ ChunkSize > 0 /\ FileLen \in Nat
  BY SourceAssumption
<1>2. k * ChunkSize >= k
  BY <1>1
<1> QED BY <1>1, <1>2 DEF Chunks, ChunkStart

LEMMA StartsGrow ==
  ASSUME NEW c \in Nat, NEW d \in Nat, c <= d
  PROVE  ChunkStart(c) <= ChunkStart(d) /\ ChunkStart(c) \in Nat /\ ChunkStart(d) \in Nat
<1>1. ChunkSize \in Nat
  BY SourceAssumption
<1>2. ChunkStart(c) \in Nat /\ ChunkStart(d) \in Nat
  BY <1>1 DEF ChunkStart
<1>3. CASE c = d
  BY <1>2, <1>3
<1>4. CASE c < d
  BY <1>1, <1>2, <1>4, LaterChunk
<1> QED BY <1>2, <1>3, <1>4

(* The chunks of a range that lies in the file are the file's.              *)
LEMMA RangeInFile ==
  ASSUME NEW q \in Nat \X Nat, q[2] > 0, q[1] + q[2] <= FileLen, NEW k \in Nat, k <= Last(q)
  PROVE  k \in Chunks
<1> DEFINE e == (q[1] + q[2]) - 1
<1>1. e \in Nat /\ e < FileLen /\ FileLen \in Nat
  BY SourceAssumption
<1>2. Last(q) = e \div ChunkSize
  BY DEF Last
<1> HIDE DEF e
<1>3. ChunkStart(Last(q)) <= e /\ Last(q) \in Nat
  BY <1>1, <1>2, DivFacts
<1>4. ChunkStart(k) <= ChunkStart(Last(q)) /\ ChunkStart(k) \in Nat /\ ChunkStart(Last(q)) \in Nat
  BY <1>3, StartsGrow
<1> QED BY <1>1, <1>3, <1>4, IsChunk

LEMMA CopyStarts ==
  ASSUME NEW q \in Nat \X Nat
  PROVE  /\ q[1] \div ChunkSize \in Nat /\ Copied(q, q[1] \div ChunkSize) = {}
         /\ (q[2] > 0 => q[1] \div ChunkSize <= Last(q))
<1> DEFINE a == q[1]
           e == (q[1] + q[2]) - 1
<1>1. a \in Nat /\ q[2] \in Nat /\ (q[2] > 0 => e \in Nat /\ a <= e)
  OBVIOUS
<1>2. a \div ChunkSize \in Nat /\ ChunkStart(a \div ChunkSize) \in Nat
      /\ ChunkStart(a \div ChunkSize) <= a
  BY <1>1, DivFacts
<1>3. Copied(q, a \div ChunkSize) = {}
  <2> HIDE DEF e
  <2>1. \A x \in Wanted(q) : x \in Int /\ x >= a
    BY <1>1 DEF Wanted
  <2> QED BY <1>1, <1>2, <2>1 DEF Copied
<1>4. ASSUME q[2] > 0 PROVE a \div ChunkSize <= Last(q)
  <2>1. Last(q) = e \div ChunkSize
    BY DEF Last
  <2>2. e \in Nat /\ a <= e
    BY <1>1, <1>4
  <2> HIDE DEF e, a
  <2>3. e \div ChunkSize \in Nat /\ ChunkStart(e \div ChunkSize) \in Nat
        /\ e < ChunkStart(e \div ChunkSize) + ChunkSize
    BY <2>2, DivFacts
  <2>4. SUFFICES ASSUME e \div ChunkSize < a \div ChunkSize PROVE FALSE
    BY <1>2, <2>1, <2>3
  <2>5. ChunkStart(e \div ChunkSize) + ChunkSize <= ChunkStart(a \div ChunkSize)
    BY <1>2, <2>3, <2>4, LaterChunk
  <2> QED BY <1>1, <1>2, <2>2, <2>3, <2>5, SourceAssumption
<1> QED BY <1>2, <1>3, <1>4

LEMMA CopyGrows ==
  ASSUME NEW q \in Nat \X Nat, q[1] + q[2] <= FileLen, NEW k \in Chunks
  PROVE  Copied(q, k) \cup (Bytes(k) \cap Wanted(q)) = Copied(q, k + 1)
<1>1. /\ k \in Nat /\ ChunkStart(k) \in Nat /\ ChunkEnd(k) \in Nat /\ FileLen \in Nat
      /\ ChunkEnd(k) <= ChunkStart(k) + ChunkSize /\ ChunkEnd(k) <= FileLen
      /\ (ChunkEnd(k) < FileLen => ChunkEnd(k) = ChunkStart(k) + ChunkSize)
      /\ ChunkSize \in Nat
  BY ChunkFacts, SourceAssumption
<1>2. ChunkStart(k + 1) = ChunkStart(k) + ChunkSize
  BY <1>1 DEF ChunkStart
<1>3. \A x \in Wanted(q) : x \in Nat /\ x < FileLen
  <2>1. q[1] \in Nat /\ q[2] \in Nat
    OBVIOUS
  <2> QED BY <1>1, <2>1 DEF Wanted
<1>4. \A x \in Wanted(q) : x < ChunkStart(k + 1) <=> x < ChunkStart(k) \/ x \in Bytes(k)
  BY <1>1, <1>2, <1>3 DEF Bytes
<1> QED BY <1>4 DEF Copied

LEMMA CopyEnds ==
  ASSUME NEW q \in Nat \X Nat, q[2] > 0
  PROVE  Copied(q, Last(q) + 1) = Wanted(q)
<1> DEFINE e == (q[1] + q[2]) - 1
<1>1. e \in Nat /\ q[1] \in Nat
  OBVIOUS
<1>2. Last(q) = e \div ChunkSize /\ Wanted(q) = q[1]..e
  BY DEF Last, Wanted
<1> HIDE DEF e
<1>3. Last(q) \in Nat /\ e < ChunkStart(Last(q)) + ChunkSize /\ ChunkStart(Last(q)) \in Nat
  BY <1>1, <1>2, DivFacts
<1>4. ChunkStart(Last(q) + 1) = ChunkStart(Last(q)) + ChunkSize /\ ChunkSize \in Nat
  BY <1>3, SourceAssumption DEF ChunkStart
<1>5. \A x \in q[1]..e : x < ChunkStart(Last(q) + 1)
  BY <1>1, <1>3, <1>4
<1> QED BY <1>2, <1>5 DEF Copied

(* An empty request is served by nothing.                                   *)
LEMMA WantedNothing == ASSUME NEW q \in Nat \X Nat, q[2] = 0 PROVE Wanted(q) = {}
<1>1. q[1] \in Nat
  OBVIOUS
<1> QED BY <1>1 DEF Wanted
-----------------------------------------------------------------------------
(* Both sources have the cache's code: what the modules' copies say is what *)
(* ChunkCache says.                                                         *)
LEMMA FileCache ==
  ASSUME NEW c, NEW who
  PROVE  /\ Native!Hit(c) <=> Hit(c)
         /\ Native!Miss(c) <=> Miss(c)
         /\ Native!BeginInsert(who, c) <=> BeginInsert(who, c)
         /\ Native!TooBig(c) <=> TooBig(c)
         /\ Native!Evict(who) <=> Evict(who)
         /\ Native!Store(who) <=> Store(who)
         /\ Native!ChunkStart(c) = ChunkStart(c) /\ Native!Chunks = Chunks
         /\ Native!CInit <=> CInit
         /\ Native!CTypeOK(Clients) <=> CTypeOK(Clients)
         /\ Native!cvars = cvars
         /\ Native!Slice(who, c) = Bytes(c) \cap Wanted(req[who])
         /\ Native!LastChunk(who) = Last(req[who])
<1>1. Native!Hit(c) <=> Hit(c)
  BY DEF Native!Hit, Native!Moved, Native!Retain, Native!Elements, Native!Nobody, Hit, Moved,
     Retain, Elements, Nobody
<1>2. Native!Miss(c) <=> Miss(c)
  BY DEF Native!Miss, Native!cvars, Native!Nobody, Miss, cvars, Nobody
<1>3. Native!BeginInsert(who, c) <=> BeginInsert(who, c)
  BY DEF Native!BeginInsert, Native!TooBig, Native!Size, Native!ChunkEnd, Native!ChunkStart,
     Native!Nobody, BeginInsert, TooBig, Size, ChunkEnd, ChunkStart, Nobody
<1>4. Native!TooBig(c) <=> TooBig(c)
  BY DEF Native!TooBig, Native!Size, Native!ChunkEnd, Native!ChunkStart, TooBig, Size, ChunkEnd,
     ChunkStart
<1>5. Native!Evict(who) <=> Evict(who)
  BY DEF Native!Evict, Native!Fits, Native!CountAfter, Native!Size, Native!ChunkEnd,
     Native!ChunkStart, Evict, Fits, CountAfter, Size, ChunkEnd, ChunkStart
<1>6. Native!Store(who) <=> Store(who)
  BY DEF Native!Store, Native!Fits, Native!Exhausted, Native!CountStored, Native!Moved,
     Native!Retain, Native!Elements, Native!Size, Native!ChunkEnd, Native!ChunkStart,
     Native!Nobody, Store, Fits, Exhausted, CountStored, Moved, Retain, Elements, Size, ChunkEnd,
     ChunkStart, Nobody
<1>7. Native!ChunkStart(c) = ChunkStart(c) /\ Native!Chunks = Chunks
  BY DEF Native!ChunkStart, Native!Chunks, ChunkStart, Chunks
<1>8. Native!CInit <=> CInit
  BY DEF Native!CInit, Native!Nobody, CInit, Nobody
<1>9. Native!CTypeOK(Clients) <=> CTypeOK(Clients)
  BY DEF Native!CTypeOK, Native!Chunks, Native!ChunkStart, Native!Nobody, CTypeOK, Chunks,
     ChunkStart, Nobody
<1>10. Native!cvars = cvars
  BY DEF Native!cvars, cvars
<1>11. Native!Slice(who, c) = Bytes(c) \cap Wanted(req[who])
  BY DEF Native!Bytes, Native!ChunkStart, Native!ChunkEnd, Bytes, ChunkStart, ChunkEnd,
     Native!Slice, Native!Start, Native!End, Wanted
<1>12. Native!LastChunk(who) = Last(req[who])
  BY DEF Native!LastChunk, Native!End, Last
<1> QED BY <1>1, <1>2, <1>3, <1>4, <1>5, <1>6, <1>7, <1>8, <1>9, <1>10, <1>11, <1>12

LEMMA BlobCache ==
  ASSUME NEW c, NEW who
  PROVE  /\ Blob!Hit(c) <=> Hit(c)
         /\ Blob!Miss(c) <=> Miss(c)
         /\ Blob!BeginInsert(who, c) <=> BeginInsert(who, c)
         /\ Blob!TooBig(c) <=> TooBig(c)
         /\ Blob!Evict(who) <=> Evict(who)
         /\ Blob!Store(who) <=> Store(who)
         /\ Blob!ChunkStart(c) = ChunkStart(c) /\ Blob!Chunks = Chunks
         /\ Blob!CInit <=> CInit
         /\ Blob!CTypeOK(Clients \cup {"task"}) <=> CTypeOK(Clients \cup {"task"})
         /\ Blob!cvars = cvars
         /\ Blob!Slice(who, c) = Bytes(c) \cap Wanted(req[who])
         /\ Blob!LastChunk(who) = Last(req[who])
<1>1. Blob!Hit(c) <=> Hit(c)
  BY DEF Blob!Hit, Blob!Moved, Blob!Retain, Blob!Elements, Blob!Nobody, Hit, Moved, Retain,
     Elements, Nobody
<1>2. Blob!Miss(c) <=> Miss(c)
  BY DEF Blob!Miss, Blob!cvars, Blob!Nobody, Miss, cvars, Nobody
<1>3. Blob!BeginInsert(who, c) <=> BeginInsert(who, c)
  BY DEF Blob!BeginInsert, Blob!TooBig, Blob!Size, Blob!ChunkEnd, Blob!ChunkStart, Blob!Nobody,
     BeginInsert, TooBig, Size, ChunkEnd, ChunkStart, Nobody
<1>4. Blob!TooBig(c) <=> TooBig(c)
  BY DEF Blob!TooBig, Blob!Size, Blob!ChunkEnd, Blob!ChunkStart, TooBig, Size, ChunkEnd, ChunkStart
<1>5. Blob!Evict(who) <=> Evict(who)
  BY DEF Blob!Evict, Blob!Fits, Blob!CountAfter, Blob!Size, Blob!ChunkEnd, Blob!ChunkStart,
     Evict, Fits, CountAfter, Size, ChunkEnd, ChunkStart
<1>6. Blob!Store(who) <=> Store(who)
  BY DEF Blob!Store, Blob!Fits, Blob!Exhausted, Blob!CountStored, Blob!Moved, Blob!Retain,
     Blob!Elements, Blob!Size, Blob!ChunkEnd, Blob!ChunkStart, Blob!Nobody, Store, Fits, Exhausted,
     CountStored, Moved, Retain, Elements, Size, ChunkEnd, ChunkStart, Nobody
<1>7. Blob!ChunkStart(c) = ChunkStart(c) /\ Blob!Chunks = Chunks
  BY DEF Blob!ChunkStart, Blob!Chunks, ChunkStart, Chunks
<1>8. Blob!CInit <=> CInit
  BY DEF Blob!CInit, Blob!Nobody, CInit, Nobody
<1>9. Blob!CTypeOK(Clients \cup {"task"}) <=> CTypeOK(Clients \cup {"task"})
  BY DEF Blob!CTypeOK, Blob!Chunks, Blob!ChunkStart, Blob!Nobody, CTypeOK, Chunks, ChunkStart,
     Nobody
<1>10. Blob!cvars = cvars
  BY DEF Blob!cvars, cvars
<1>11. Blob!Slice(who, c) = Bytes(c) \cap Wanted(req[who])
  BY DEF Blob!Bytes, Blob!ChunkStart, Blob!ChunkEnd, Bytes, ChunkStart, ChunkEnd, Blob!Slice,
     Blob!Start, Blob!End, Wanted
<1>12. Blob!LastChunk(who) = Last(req[who])
  BY DEF Blob!LastChunk, Blob!End, Last
<1> QED BY <1>1, <1>2, <1>3, <1>4, <1>5, <1>6, <1>7, <1>8, <1>9, <1>10, <1>11, <1>12
-----------------------------------------------------------------------------
(* What a step of one client may do.                                        *)
FileLabels == {"idle", "lookup", "fetch", "insert", "inserting",
               "prefetch", "prefetching", "storing"}

LEMMA FileFacts ==
  ASSUME SourceInv, source = "file"
  PROVE  /\ CTypeOK(Clients) /\ CacheInv
         /\ pc \in [Clients -> FileLabels]
         /\ req \in [Clients -> Requests \cup {<<0, 0>>}]
         /\ req \in [Clients -> Nat \X Nat]
         /\ cur \in [Clients -> Nat]
         /\ out \in [Clients -> SUBSET (0..FileLen)]
         /\ res \in [Clients -> {"none", "ok", "eof", "io"}]
         /\ calls \in [Clients -> 0..Calls]
         /\ tasks = <<>>
         /\ \A c \in Clients : ClientOK(pc[c], req[c], cur[c], out[c], res[c])
<1>1. Native!TypeOK /\ tasks = <<>>
  BY DEF SourceInv, TypeOK
<1>2. CTypeOK(Clients)
  BY <1>1, FileCache DEF Native!TypeOK
<1>3. Requests \cup {<<0, 0>>} \subseteq Nat \X Nat
  BY SourceAssumption
<1> QED BY <1>1, <1>2, <1>3 DEF Native!TypeOK, SourceInv, FileLabels

(* The client that moves, and what it has then.                             *)
ClientStep(t, p, q, k, o, r) ==
  /\ pc' = [pc EXCEPT ![t] = p] /\ req' = [req EXCEPT ![t] = q] /\ cur' = [cur EXCEPT ![t] = k]
  /\ out' = [out EXCEPT ![t] = o] /\ res' = [res EXCEPT ![t] = r]

LEMMA FileMoves ==
  ASSUME SourceInv, source = "file", UNCHANGED <<source, tasks>>,
         NEW t \in Clients,
         NEW p \in FileLabels, NEW q \in Requests \cup {<<0, 0>>}, NEW k \in Nat,
         NEW o \in SUBSET (0..FileLen), NEW r \in {"none", "ok", "eof", "io"},
         ClientStep(t, p, q, k, o, r), ClientOK(p, q, k, o, r),
         calls' \in [Clients -> 0..Calls], CacheStep(Clients)
  PROVE  SourceInv'
<1> USE DEF ClientStep
<1>1. CacheInv' /\ CTypeOK(Clients)'
  BY FileFacts, CacheMoves, SourceAssumption
<1>2. /\ pc' \in [Clients -> FileLabels] /\ req' \in [Clients -> Requests \cup {<<0, 0>>}]
      /\ cur' \in [Clients -> Nat] /\ out' \in [Clients -> SUBSET (0..FileLen)]
      /\ res' \in [Clients -> {"none", "ok", "eof", "io"}]
  BY FileFacts
<1>3. Native!CTypeOK(Clients)'
  BY <1>1 DEF Native!CTypeOK, CTypeOK, Native!Chunks, Chunks, Native!ChunkStart, ChunkStart,
              Native!Nobody, Nobody
<1>4. TypeOK'
  BY <1>2, <1>3, FileFacts DEF TypeOK, Native!TypeOK, FileLabels
<1>5. \A c \in Clients : ClientOK(pc'[c], req'[c], cur'[c], out'[c], res'[c])
  <2> TAKE c \in Clients
  <2>1. CASE c = t
    BY <2>1, FileFacts
  <2>2. CASE c # t
    <3>1. pc'[c] = pc[c] /\ req'[c] = req[c] /\ cur'[c] = cur[c] /\ out'[c] = out[c] /\ res'[c] = res[c]
      BY <2>2, FileFacts
    <3>2. ClientOK(pc[c], req[c], cur[c], out[c], res[c])
      BY FileFacts
    <3> QED BY <3>1, <3>2
  <2> QED BY <2>1, <2>2
<1> QED BY <1>1, <1>4, <1>5 DEF SourceInv

(* Where a client still has to read the chunk it is at.                     *)
AtChunk == {"lookup", "fetch", "loading"}

(* What a client that is at a chunk has, with the chunk's part of its range,*)
(* is what it is to have before the next chunk; after the last, all of it.  *)
LEMMA ClientReads ==
  ASSUME NEW q \in Nat \X Nat, NEW k \in Nat, NEW p, NEW o \in SUBSET (0..FileLen), NEW r,
         p \in AtChunk, ClientOK(p, q, k, o, r)
  PROVE  /\ k \in Chunks /\ q[2] > 0 /\ q[1] + q[2] <= FileLen /\ k <= Last(q)
         /\ o \cup (Bytes(k) \cap Wanted(q)) = Copied(q, k + 1)
         /\ o \cup (Bytes(k) \cap Wanted(q)) \in SUBSET (0..FileLen)
<1>1. q[2] > 0 /\ q[1] + q[2] <= FileLen /\ k <= Last(q) /\ o = Copied(q, k)
  BY DEF ClientOK, AtChunk
<1>2. k \in Chunks
  BY <1>1, RangeInFile
<1> QED BY <1>1, <1>2, CopyGrows, ChunkBytes

LEMMA ClientStays ==
  ASSUME NEW q \in Nat \X Nat, NEW k \in Nat, NEW p, NEW o, NEW r,
         p \in {"insert", "inserting"}, ClientOK(p, q, k, o, r)
  PROVE  /\ k \in Chunks /\ q[2] > 0 /\ q[1] + q[2] <= FileLen /\ k <= Last(q)
         /\ o = Copied(q, k + 1)
BY RangeInFile DEF ClientOK

(* The rest of the loop, after chunk k.                                     *)
LEMMA ClientNext ==
  ASSUME NEW q \in Nat \X Nat, NEW k \in Nat, NEW r, NEW s,
         q[2] > 0, q[1] + q[2] <= FileLen, k <= Last(q), NEW o, o = Copied(q, k + 1)
  PROVE  /\ (k = Last(q) => ClientOK("idle", q, k, o, s) /\ ClientOK("prefetch", q, k, o, s))
         /\ (k # Last(q) => ClientOK("lookup", q, k + 1, o, r))
<1>1. Last(q) \in Nat
  <2>1. (q[1] + q[2]) - 1 \in Nat
    OBVIOUS
  <2> QED BY <2>1, DivFacts DEF Last
<1>2. k # Last(q) => k + 1 <= Last(q)
  BY <1>1
<1>3. k = Last(q) => o = Wanted(q)
  BY CopyEnds
<1> QED BY <1>2, <1>3 DEF ClientOK

LEMMA FileCalls ==
  ASSUME SourceInv, source = "file", UNCHANGED <<source, tasks>>,
         NEW t \in Clients, NEW q \in Requests, Native!Call(t, q)
  PROVE  SourceInv'
<1> DEFINE k == q[1] \div ChunkSize
<1>1. /\ pc[t] = "idle" /\ calls[t] < Calls
      /\ calls' = [calls EXCEPT ![t] = calls[t] + 1] /\ req' = [req EXCEPT ![t] = q]
      /\ out' = [out EXCEPT ![t] = {}] /\ cur' = [cur EXCEPT ![t] = k]
      /\ UNCHANGED cvars
  BY DEF Native!Call, Native!cvars, cvars
<1>2. q \in Nat \X Nat /\ q[1] \in Nat /\ q[2] \in Nat
  BY SourceAssumption
<1>3. k \in Nat /\ Copied(q, k) = {} /\ (q[2] > 0 => k <= Last(q))
  BY <1>2, CopyStarts
<1>4. calls' \in [Clients -> 0..Calls]
  <2>1. calls[t] + 1 \in 0..Calls
    BY <1>1, FileFacts, SourceAssumption
  <2> QED BY <1>1, <2>1, FileFacts
<1>9. CacheStep(Clients)
  BY <1>1 DEF CacheStep
<1> HIDE DEF k
<1>5. ASSUME NEW p \in FileLabels, NEW r \in {"none", "ok", "eof", "io"},
             pc' = [pc EXCEPT ![t] = p], res' = [res EXCEPT ![t] = r], ClientOK(p, q, k, {}, r)
      PROVE  SourceInv'
  <2>1. {} \in SUBSET (0..FileLen) /\ q \in Requests \cup {<<0, 0>>}
    OBVIOUS
  <2>2. ClientStep(t, p, q, k, {}, r)
    BY <1>1, <1>5 DEF ClientStep
  <2> QED BY <1>3, <1>4, <1>5, <1>9, <2>1, <2>2, FileMoves
<1>6. CASE q[2] = 0
  <2>1. pc' = [pc EXCEPT ![t] = "idle"] /\ res' = [res EXCEPT ![t] = "ok"]
    BY <1>6 DEF Native!Call, Native!Return, Native!Goto
  <2>2. ClientOK("idle", q, k, {}, "ok")
    BY <1>2, <1>6, WantedNothing DEF ClientOK
  <2> QED BY <1>5, <2>1, <2>2 DEF FileLabels
<1>7. CASE q[2] # 0 /\ Native!PastEnd(q)
  <2>1. pc' = [pc EXCEPT ![t] = "idle"] /\ res' = [res EXCEPT ![t] = "eof"]
    BY <1>7 DEF Native!Call, Native!Return, Native!Goto
  <2>2. ClientOK("idle", q, k, {}, "eof")
    BY DEF ClientOK
  <2> QED BY <1>5, <2>1, <2>2 DEF FileLabels
<1>8. CASE q[2] # 0 /\ ~Native!PastEnd(q)
  <2>1. pc' = [pc EXCEPT ![t] = "lookup"] /\ res' = [res EXCEPT ![t] = res[t]]
    BY <1>8, FileFacts DEF Native!Call, Native!Goto
  <2>2. q[2] > 0 /\ q[1] + q[2] <= FileLen
    BY <1>2, <1>8, SourceAssumption DEF Native!PastEnd
  <2>3. ClientOK("lookup", q, k, {}, res[t])
    BY <1>3, <2>2 DEF ClientOK
  <2>4. res[t] \in {"none", "ok", "eof", "io"}
    BY FileFacts
  <2> QED BY <1>5, <2>1, <2>3, <2>4 DEF FileLabels
<1> QED BY <1>6, <1>7, <1>8

LEMMA FileReads ==
  ASSUME SourceInv, source = "file", UNCHANGED <<source, tasks>>, NEW t \in Clients,
         \/ Native!LookupHit(t) \/ Native!LookupMiss(t) \/ Native!Fetch(t) \/ Native!FetchFails(t)
  PROVE  SourceInv'
<1> DEFINE p == pc[t]
           q == req[t]
           k == cur[t]
           o == out[t]
           r == res[t]
<1>1. /\ q \in Nat \X Nat /\ q \in Requests \cup {<<0, 0>>} /\ k \in Nat
      /\ o \in SUBSET (0..FileLen) /\ r \in {"none", "ok", "eof", "io"}
      /\ ClientOK(p, q, k, o, r) /\ calls \in [Clients -> 0..Calls]
  BY FileFacts
<1>2. /\ pc = [pc EXCEPT ![t] = p] /\ req = [req EXCEPT ![t] = q] /\ cur = [cur EXCEPT ![t] = k]
      /\ out = [out EXCEPT ![t] = o] /\ res = [res EXCEPT ![t] = r]
  BY FileFacts
<1> DEFINE more == o \cup (Bytes(k) \cap Wanted(q))
<1>3. /\ k \in Chunks /\ q[2] > 0 /\ q[1] + q[2] <= FileLen /\ k <= Last(q)
      /\ more = Copied(q, k + 1) /\ more \in SUBSET (0..FileLen)
  <2>1. p \in AtChunk
    BY DEF AtChunk, Native!LookupHit, Native!LookupMiss, Native!Fetch, Native!FetchFails
  <2> QED BY <1>1, <2>1, ClientReads
<1>4. calls' = calls
  BY DEF Native!LookupHit, Native!LookupMiss, Native!Fetch, Native!FetchFails
<1>5. CASE Native!LookupHit(t)
  <2>1. /\ Native!Hit(k) /\ out' = [out EXCEPT ![t] = out[t] \cup Native!Slice(t, k)] /\ Native!NextChunk(t)
        /\ req' = req
    BY <1>5 DEF Native!LookupHit
  <2>2. CacheStep(Clients) /\ out' = [out EXCEPT ![t] = more]
    BY <1>3, <2>1, FileCache DEF CacheStep
  <2>3. CASE k = Last(q)
    <3>1. /\ pc' = [pc EXCEPT ![t] = "idle"] /\ res' = [res EXCEPT ![t] = "ok"] /\ cur' = cur
      BY <2>1, <2>3, FileCache DEF Native!NextChunk, Native!Return, Native!Goto
    <3>2. ClientStep(t, "idle", q, k, more, "ok")
      BY <1>2, <2>1, <2>2, <3>1 DEF ClientStep
    <3>3. ClientOK("idle", q, k, more, "ok")
      BY <1>1, <1>3, <2>3, ClientNext
    <3> HIDE DEF p, q, k, o, r, more
    <3> QED BY <1>1, <1>3, <1>4, <2>2, <3>2, <3>3, FileMoves DEF FileLabels
  <2>4. CASE k # Last(q)
    <3>1. /\ pc' = [pc EXCEPT ![t] = "lookup"] /\ res' = res /\ cur' = [cur EXCEPT ![t] = k + 1]
      BY <2>1, <2>4, FileCache DEF Native!NextChunk, Native!Goto
    <3>2. ClientStep(t, "lookup", q, k + 1, more, r)
      BY <1>2, <2>1, <2>2, <3>1 DEF ClientStep
    <3>3. ClientOK("lookup", q, k + 1, more, r)
      BY <1>1, <1>3, <2>4, ClientNext
    <3>4. k + 1 \in Nat
      BY <1>1
    <3> HIDE DEF p, q, k, o, r, more
    <3> QED BY <1>1, <1>3, <1>4, <2>2, <3>2, <3>3, <3>4, FileMoves DEF FileLabels
  <2> QED BY <2>3, <2>4
<1>6. CASE Native!LookupMiss(t)
  <2>1. /\ Native!Miss(k) /\ pc' = [pc EXCEPT ![t] = "fetch"] /\ UNCHANGED <<req, cur, out, res>>
        /\ p = "lookup"
    BY <1>6 DEF Native!LookupMiss, Native!Goto
  <2>2. CacheStep(Clients) /\ ClientStep(t, "fetch", q, k, o, r)
    BY <1>2, <1>3, <2>1, FileCache DEF CacheStep, ClientStep
  <2>3. ClientOK("fetch", q, k, o, r)
    BY <1>1, <2>1 DEF ClientOK
  <2> HIDE DEF p, q, k, o, r, more
  <2> QED BY <1>1, <1>3, <1>4, <2>2, <2>3, FileMoves DEF FileLabels
<1>7. CASE Native!Fetch(t)
  <2>1. /\ pc' = [pc EXCEPT ![t] = "insert"] /\ UNCHANGED <<req, cur, res>>
        /\ out' = [out EXCEPT ![t] = out[t] \cup Native!Slice(t, k)]
    BY <1>7 DEF Native!Fetch, Native!Goto
  <2>2. CacheStep(Clients)
    BY <1>7 DEF Native!Fetch, Native!cvars, cvars, CacheStep
  <2>3. ClientStep(t, "insert", q, k, more, r)
    BY <1>2, <2>1, FileCache DEF ClientStep
  <2>4. ClientOK("insert", q, k, more, r)
    BY <1>3 DEF ClientOK
  <2> HIDE DEF p, q, k, o, r, more
  <2> QED BY <1>1, <1>3, <1>4, <2>2, <2>3, <2>4, FileMoves DEF FileLabels
<1>8. CASE Native!FetchFails(t)
  <2>1. /\ pc' = [pc EXCEPT ![t] = "idle"] /\ UNCHANGED <<req, cur, out>>
        /\ res' = [res EXCEPT ![t] = "io"]
    BY <1>8 DEF Native!FetchFails, Native!Goto, Native!Return
  <2>2. CacheStep(Clients)
    BY <1>8 DEF Native!FetchFails, Native!cvars, cvars, CacheStep
  <2>3. ClientStep(t, "idle", q, k, o, "io")
    BY <1>2, <2>1 DEF ClientStep
  <2>4. ClientOK("idle", q, k, o, "io")
    BY DEF ClientOK
  <2> HIDE DEF p, q, k, o, r, more
  <2> QED BY <1>1, <1>3, <1>4, <2>2, <2>3, <2>4, FileMoves DEF FileLabels
<1> QED BY <1>5, <1>6, <1>7, <1>8

LEMMA FileInserts ==
  ASSUME SourceInv, source = "file", UNCHANGED <<source, tasks>>, NEW t \in Clients,
         \/ Native!InsertTooBig(t) \/ Native!InsertBegins(t) \/ Native!InsertEnds(t)
  PROVE  SourceInv'
<1> DEFINE p == pc[t]
           q == req[t]
           k == cur[t]
           o == out[t]
           r == res[t]
<1>1. /\ q \in Nat \X Nat /\ q \in Requests \cup {<<0, 0>>} /\ k \in Nat
      /\ o \in SUBSET (0..FileLen) /\ r \in {"none", "ok", "eof", "io"}
      /\ ClientOK(p, q, k, o, r) /\ calls \in [Clients -> 0..Calls]
  BY FileFacts
<1>2. /\ pc = [pc EXCEPT ![t] = p] /\ req = [req EXCEPT ![t] = q] /\ cur = [cur EXCEPT ![t] = k]
      /\ out = [out EXCEPT ![t] = o] /\ res = [res EXCEPT ![t] = r]
  BY FileFacts
<1>3. k \in Chunks /\ q[2] > 0 /\ q[1] + q[2] <= FileLen /\ k <= Last(q) /\ o = Copied(q, k + 1)
  <2>1. p \in {"insert", "inserting"}
    BY DEF Native!InsertTooBig, Native!InsertBegins, Native!InsertEnds
  <2> QED BY <1>1, <2>1, ClientStays
<1>4. UNCHANGED <<req, out, calls>>
  BY DEF Native!InsertTooBig, Native!InsertBegins, Native!InsertEnds
<1>9. CacheStep(Clients)
  <2>1. BeginInsert(t, k) \/ Store(t)
    BY FileCache DEF Native!InsertTooBig, Native!InsertBegins, Native!InsertEnds
  <2> QED BY <1>3, <2>1 DEF CacheStep
<1>5. CASE Native!InsertBegins(t)
  <2>1. pc' = [pc EXCEPT ![t] = "inserting"] /\ UNCHANGED <<cur, res>>
    BY <1>5 DEF Native!InsertBegins, Native!Goto
  <2>2. ClientStep(t, "inserting", q, k, o, r)
    BY <1>2, <1>4, <2>1 DEF ClientStep
  <2>3. ClientOK("inserting", q, k, o, r)
    BY <1>3 DEF ClientOK
  <2> HIDE DEF p, q, k, o, r
  <2> QED BY <1>1, <1>4, <1>9, <2>2, <2>3, FileMoves DEF FileLabels
<1>6. CASE Native!InsertTooBig(t) \/ Native!InsertEnds(t)
  <2>1. Native!AfterInsert(t)
    BY <1>6 DEF Native!InsertTooBig, Native!InsertEnds
  <2>3. CASE k = Last(q)
    <3>1. pc' = [pc EXCEPT ![t] = "prefetch"] /\ UNCHANGED <<cur, res>>
      BY <2>1, <2>3, FileCache DEF Native!AfterInsert, Native!Goto
    <3>2. ClientStep(t, "prefetch", q, k, o, r)
      BY <1>2, <1>4, <3>1 DEF ClientStep
    <3>3. ClientOK("prefetch", q, k, o, r)
      BY <1>1, <1>3, <2>3, ClientNext
    <3> HIDE DEF p, q, k, o, r
    <3> QED BY <1>1, <1>4, <1>9, <3>2, <3>3, FileMoves DEF FileLabels
  <2>4. CASE k # Last(q)
    <3>1. pc' = [pc EXCEPT ![t] = "lookup"] /\ res' = res /\ cur' = [cur EXCEPT ![t] = k + 1]
      BY <2>1, <2>4, FileCache DEF Native!AfterInsert, Native!NextChunk, Native!Goto
    <3>2. ClientStep(t, "lookup", q, k + 1, o, r)
      BY <1>2, <1>4, <3>1 DEF ClientStep
    <3>3. ClientOK("lookup", q, k + 1, o, r)
      BY <1>1, <1>3, <2>4, ClientNext
    <3>4. k + 1 \in Nat
      BY <1>1
    <3> HIDE DEF p, q, k, o, r
    <3> QED BY <1>1, <1>4, <1>9, <3>2, <3>3, <3>4, FileMoves DEF FileLabels
  <2> QED BY <2>3, <2>4
<1> QED BY <1>5, <1>6

LEMMA FilePrefetches ==
  ASSUME SourceInv, source = "file", UNCHANGED <<source, tasks>>, NEW t \in Clients,
         \/ Native!PrefetchSkips(t) \/ Native!PrefetchStarts(t) \/ Native!PrefetchFails(t)
         \/ Native!PrefetchInserts(t) \/ Native!PrefetchEnds(t)
  PROVE  SourceInv'
<1> DEFINE p == pc[t]
           q == req[t]
           k == cur[t]
           o == out[t]
           r == res[t]
<1>1. /\ q \in Nat \X Nat /\ q \in Requests \cup {<<0, 0>>} /\ k \in Nat
      /\ o \in SUBSET (0..FileLen) /\ r \in {"none", "ok", "eof", "io"}
      /\ ClientOK(p, q, k, o, r) /\ calls \in [Clients -> 0..Calls]
  BY FileFacts
<1>2. /\ pc = [pc EXCEPT ![t] = p] /\ req = [req EXCEPT ![t] = q] /\ cur = [cur EXCEPT ![t] = k]
      /\ out = [out EXCEPT ![t] = o] /\ res = [res EXCEPT ![t] = r]
  BY FileFacts
<1>3. o = Wanted(q) /\ (p = "prefetching" => k + 1 \in Chunks)
  BY <1>1 DEF ClientOK, Native!PrefetchSkips, Native!PrefetchStarts, Native!PrefetchFails,
         Native!PrefetchInserts, Native!PrefetchEnds
<1>4. UNCHANGED <<req, cur, out, calls>>
  BY DEF Native!PrefetchSkips, Native!PrefetchStarts, Native!PrefetchFails,
         Native!PrefetchInserts, Native!PrefetchEnds
<1>5. CacheStep(Clients)
  <2>1. CASE Native!PrefetchInserts(t)
    <3>1. Native!BeginInsert(t, k + 1) /\ p = "prefetching"
      BY <2>1 DEF Native!PrefetchInserts, Native!Following
    <3> QED BY <1>3, <3>1, FileCache DEF CacheStep
  <2>2. CASE Native!PrefetchEnds(t)
    BY <2>2, FileCache DEF Native!PrefetchEnds, CacheStep
  <2>3. CASE Native!PrefetchSkips(t) \/ Native!PrefetchStarts(t) \/ Native!PrefetchFails(t)
    BY <2>3 DEF Native!PrefetchSkips, Native!PrefetchStarts, Native!PrefetchFails, Native!Miss,
                Native!cvars, cvars, CacheStep
  <2> QED BY <2>1, <2>2, <2>3
<1>6. \/ pc' = [pc EXCEPT ![t] = "idle"] /\ res' = [res EXCEPT ![t] = "ok"]
      \/ pc' = [pc EXCEPT ![t] = "storing"] /\ res' = res
      \/ pc' = [pc EXCEPT ![t] = "prefetching"] /\ res' = res /\ k + 1 \in Chunks
  <2>1. CASE Native!PrefetchStarts(t)
    <3>1. Native!ChunkStart(k + 1) < FileLen
      BY <2>1 DEF Native!PrefetchStarts, Native!Following
    <3>2. k + 1 \in Chunks
      <4> HIDE DEF k
      <4>1. ChunkStart(k + 1) < FileLen /\ k + 1 \in Nat
        BY <1>1, <3>1, FileCache
      <4> QED BY <4>1, IsChunk
    <3> QED BY <2>1, <3>2 DEF Native!PrefetchStarts, Native!Goto
  <2>2. CASE Native!PrefetchInserts(t)
    BY <2>2 DEF Native!PrefetchInserts, Native!Return, Native!Goto
  <2>3. CASE Native!PrefetchSkips(t) \/ Native!PrefetchFails(t) \/ Native!PrefetchEnds(t)
    BY <2>3 DEF Native!PrefetchSkips, Native!PrefetchFails, Native!PrefetchEnds,
                Native!Return, Native!Goto
  <2> QED BY <2>1, <2>2, <2>3
<1>7. /\ ClientOK("idle", q, k, o, "ok") /\ ClientOK("storing", q, k, o, r)
      /\ (k + 1 \in Chunks => ClientOK("prefetching", q, k, o, r))
  BY <1>3 DEF ClientOK
<1>8. \/ ClientStep(t, "idle", q, k, o, "ok")
      \/ ClientStep(t, "storing", q, k, o, r)
      \/ ClientStep(t, "prefetching", q, k, o, r) /\ k + 1 \in Chunks
  BY <1>2, <1>4, <1>6 DEF ClientStep
<1> HIDE DEF p, q, k, o, r
<1> QED BY <1>1, <1>4, <1>5, <1>7, <1>8, FileMoves DEF FileLabels

LEMMA FileKeeps == SourceInv /\ FileStep => SourceInv'
<1> SUFFICES ASSUME SourceInv, FileStep PROVE SourceInv'
  OBVIOUS
<1>1. source = "file" /\ UNCHANGED <<source, tasks>> /\ Native!Next
  BY DEF FileStep
<1>2. ASSUME NEW t \in Clients, Native!InsertEvicts(t) PROVE SourceInv'
  <2>1. UNCHANGED <<pc, req, cur, out, res, calls>> /\ CacheStep(Clients)
    BY <1>2, FileCache DEF Native!InsertEvicts, Native!tvars, CacheStep
  <2> DEFINE p == pc[t]
             q == req[t]
             k == cur[t]
             o == out[t]
             r == res[t]
  <2>2. ClientStep(t, p, q, k, o, r) /\ ClientOK(p, q, k, o, r)
    BY <1>1, <2>1, FileFacts DEF ClientStep
  <2>3. /\ p \in FileLabels /\ q \in Requests \cup {<<0, 0>>} /\ k \in Nat
        /\ o \in SUBSET (0..FileLen) /\ r \in {"none", "ok", "eof", "io"}
        /\ calls' \in [Clients -> 0..Calls]
    BY <1>1, <2>1, FileFacts
  <2> HIDE DEF p, q, k, o, r
  <2> QED BY <1>1, <2>1, <2>2, <2>3, FileMoves
<1> QED BY <1>1, <1>2, FileCalls, FileReads, FileInserts, FilePrefetches DEF Native!Next, Native!Run
-----------------------------------------------------------------------------
(* The blob source: the same, with one program counter less, and the tasks. *)
BlobLabels == {"idle", "lookup", "loading", "inserting"}
BlobActors == Clients \cup {"task"}

LEMMA BlobFacts ==
  ASSUME SourceInv, source = "blob"
  PROVE  /\ CTypeOK(BlobActors) /\ CacheInv
         /\ pc \in [Clients -> BlobLabels]
         /\ req \in [Clients -> Requests \cup {<<0, 0>>}]
         /\ req \in [Clients -> Nat \X Nat]
         /\ cur \in [Clients -> Nat]
         /\ out \in [Clients -> SUBSET (0..FileLen)]
         /\ res \in [Clients -> {"none", "ok", "eof", "error"}]
         /\ calls \in [Clients -> 0..Calls]
         /\ tasks \in [Chunks -> 0..MaxTasks]
         /\ \A c \in Clients : ClientOK(pc[c], req[c], cur[c], out[c], res[c])
<1>1. Blob!TypeOK
  BY DEF SourceInv, TypeOK
<1>2. CTypeOK(BlobActors) /\ Blob!Chunks = Chunks
  BY <1>1, BlobCache DEF Blob!TypeOK, BlobActors
<1>3. Requests \cup {<<0, 0>>} \subseteq Nat \X Nat
  BY SourceAssumption
<1> QED BY <1>1, <1>2, <1>3 DEF Blob!TypeOK, SourceInv, BlobLabels

LEMMA NobodyActs == Nobody \notin BlobActors
BY SourceAssumption DEF BlobActors, Nobody

LEMMA BlobIntro ==
  ASSUME SourceInv, source = "blob", source' = source,
         pc' \in [Clients -> BlobLabels], req' \in [Clients -> Requests \cup {<<0, 0>>}],
         cur' \in [Clients -> Nat], out' \in [Clients -> SUBSET (0..FileLen)],
         res' \in [Clients -> {"none", "ok", "eof", "error"}],
         calls' \in [Clients -> 0..Calls], tasks' \in [Chunks -> 0..MaxTasks],
         \A c \in Clients : ClientOK(pc'[c], req'[c], cur'[c], out'[c], res'[c]),
         CacheStep(BlobActors)
  PROVE  SourceInv'
<1>1. CacheInv' /\ CTypeOK(BlobActors)'
  BY BlobFacts, CacheMoves, NobodyActs
<1>2. Blob!CTypeOK(Clients \cup {"task"})'
  BY <1>1 DEF Blob!CTypeOK, CTypeOK, Blob!Chunks, Chunks, Blob!ChunkStart, ChunkStart,
              Blob!Nobody, Nobody, BlobActors
<1>3. Blob!Chunks = Chunks
  BY BlobCache
<1>4. TypeOK'
  BY <1>2, <1>3 DEF TypeOK, Blob!TypeOK, BlobLabels
<1> QED BY <1>1, <1>4 DEF SourceInv

LEMMA BlobMoves ==
  ASSUME SourceInv, source = "blob", source' = source,
         NEW t \in Clients,
         NEW p \in BlobLabels, NEW q \in Requests \cup {<<0, 0>>}, NEW k \in Nat,
         NEW o \in SUBSET (0..FileLen), NEW r \in {"none", "ok", "eof", "error"},
         ClientStep(t, p, q, k, o, r), ClientOK(p, q, k, o, r),
         calls' \in [Clients -> 0..Calls], tasks' \in [Chunks -> 0..MaxTasks],
         CacheStep(BlobActors)
  PROVE  SourceInv'
<1> USE DEF ClientStep
<1>1. /\ pc' \in [Clients -> BlobLabels] /\ req' \in [Clients -> Requests \cup {<<0, 0>>}]
      /\ cur' \in [Clients -> Nat] /\ out' \in [Clients -> SUBSET (0..FileLen)]
      /\ res' \in [Clients -> {"none", "ok", "eof", "error"}]
  BY BlobFacts
<1>2. \A c \in Clients : ClientOK(pc'[c], req'[c], cur'[c], out'[c], res'[c])
  <2> TAKE c \in Clients
  <2>1. CASE c = t
    BY <2>1, BlobFacts
  <2>2. CASE c # t
    <3>1. pc'[c] = pc[c] /\ req'[c] = req[c] /\ cur'[c] = cur[c] /\ out'[c] = out[c] /\ res'[c] = res[c]
      BY <2>2, BlobFacts
    <3>2. ClientOK(pc[c], req[c], cur[c], out[c], res[c])
      BY BlobFacts
    <3> QED BY <3>1, <3>2
  <2> QED BY <2>1, <2>2
<1> QED BY <1>1, <1>2, BlobIntro

LEMMA BlobCalls ==
  ASSUME SourceInv, source = "blob", source' = source,
         NEW t \in Clients, NEW q \in Requests, Blob!Call(t, q)
  PROVE  SourceInv'
<1> DEFINE k == q[1] \div ChunkSize
<1>1. /\ pc[t] = "idle" /\ calls[t] < Calls
      /\ calls' = [calls EXCEPT ![t] = calls[t] + 1] /\ req' = [req EXCEPT ![t] = q]
      /\ out' = [out EXCEPT ![t] = {}] /\ cur' = [cur EXCEPT ![t] = k]
      /\ UNCHANGED cvars /\ tasks' = tasks
  BY DEF Blob!Call, Blob!cvars, cvars
<1>2. q \in Nat \X Nat /\ q[1] \in Nat /\ q[2] \in Nat
  BY SourceAssumption
<1>3. k \in Nat /\ Copied(q, k) = {} /\ (q[2] > 0 => k <= Last(q))
  BY <1>2, CopyStarts
<1>4. calls' \in [Clients -> 0..Calls] /\ tasks' \in [Chunks -> 0..MaxTasks]
  <2>1. calls[t] + 1 \in 0..Calls
    BY <1>1, BlobFacts, SourceAssumption
  <2> QED BY <1>1, <2>1, BlobFacts
<1>9. CacheStep(BlobActors)
  BY <1>1 DEF CacheStep
<1> HIDE DEF k
<1>5. ASSUME NEW p \in BlobLabels, NEW r \in {"none", "ok", "eof", "error"},
             pc' = [pc EXCEPT ![t] = p], res' = [res EXCEPT ![t] = r], ClientOK(p, q, k, {}, r)
      PROVE  SourceInv'
  <2>1. {} \in SUBSET (0..FileLen) /\ q \in Requests \cup {<<0, 0>>}
    OBVIOUS
  <2>2. ClientStep(t, p, q, k, {}, r)
    BY <1>1, <1>5 DEF ClientStep
  <2> QED BY <1>3, <1>4, <1>5, <1>9, <2>1, <2>2, BlobMoves
<1>6. CASE q[2] = 0 \/ Blob!PastEnd(q)
  <2> DEFINE r == IF q[2] = 0 THEN "ok" ELSE "eof"
  <2>1. pc' = [pc EXCEPT ![t] = "idle"] /\ res' = [res EXCEPT ![t] = r]
    <3>1. pc' = pc /\ pc = [pc EXCEPT ![t] = "idle"]
      BY <1>1, <1>6, BlobFacts DEF Blob!Call
    <3> QED BY <1>6, <3>1 DEF Blob!Call
  <2>2. ClientOK("idle", q, k, {}, r)
    BY <1>2, WantedNothing DEF ClientOK
  <2> QED BY <1>5, <2>1, <2>2 DEF BlobLabels
<1>8. CASE ~(q[2] = 0 \/ Blob!PastEnd(q))
  <2>1. pc' = [pc EXCEPT ![t] = "lookup"] /\ res' = [res EXCEPT ![t] = res[t]]
    BY <1>8, BlobFacts DEF Blob!Call, Blob!Goto
  <2>2. q[2] > 0 /\ q[1] + q[2] <= FileLen
    BY <1>2, <1>8, SourceAssumption DEF Blob!PastEnd
  <2>3. ClientOK("lookup", q, k, {}, res[t])
    BY <1>3, <2>2 DEF ClientOK
  <2>4. res[t] \in {"none", "ok", "eof", "error"}
    BY BlobFacts
  <2> QED BY <1>5, <2>1, <2>3, <2>4 DEF BlobLabels
<1> QED BY <1>6, <1>8

(* A read that goes on to the next chunk, or ends and spawns its tasks.     *)
LEMMA BlobNext ==
  ASSUME SourceInv, source = "blob", source' = source, NEW t \in Clients,
         NEW q \in Nat \X Nat, q \in Requests \cup {<<0, 0>>}, q = req[t],
         NEW k \in Nat, k = cur[t], NEW o \in SUBSET (0..FileLen), o = Copied(q, k + 1),
         q[2] > 0, q[1] + q[2] <= FileLen, k <= Last(q),
         out' = [out EXCEPT ![t] = o], UNCHANGED <<req, calls>>,
         CacheStep(BlobActors), Blob!NextChunk(t)
  PROVE  SourceInv'
<1>1. /\ req = [req EXCEPT ![t] = q] /\ cur = [cur EXCEPT ![t] = k] /\ res = [res EXCEPT ![t] = res[t]]
      /\ calls \in [Clients -> 0..Calls] /\ tasks \in [Chunks -> 0..MaxTasks]
      /\ res[t] \in {"none", "ok", "eof", "error"}
  BY BlobFacts
<1>2. CASE k = Last(q)
  <2>1. /\ pc' = [pc EXCEPT ![t] = "idle"] /\ res' = [res EXCEPT ![t] = "ok"] /\ cur' = cur
        /\ tasks' = Blob!Spawned(cur[t])
    BY <1>2, BlobCache DEF Blob!NextChunk, Blob!Goto
  <2>2. tasks' \in [Chunks -> 0..MaxTasks]
    <3>1. \A d \in Chunks : tasks[d] \in 0..MaxTasks
      BY <1>1
    <3>2. \A d \in Chunks : tasks[d] < MaxTasks => tasks[d] + 1 \in 0..MaxTasks
      BY <3>1, SourceAssumption
    <3>3. Blob!Chunks = Chunks
      BY BlobCache
    <3> QED BY <2>1, <3>1, <3>2, <3>3 DEF Blob!Spawned
  <2>3. ClientStep(t, "idle", q, k, o, "ok")
    BY <1>1, <2>1 DEF ClientStep
  <2>4. ClientOK("idle", q, k, o, "ok")
    BY <1>2, ClientNext
  <2> QED BY <1>1, <2>2, <2>3, <2>4, BlobMoves DEF BlobLabels
<1>3. CASE k # Last(q)
  <2>1. /\ pc' = [pc EXCEPT ![t] = "lookup"] /\ cur' = [cur EXCEPT ![t] = k + 1]
        /\ UNCHANGED <<res, tasks>>
    BY <1>3, BlobCache DEF Blob!NextChunk, Blob!Goto
  <2>3. ClientStep(t, "lookup", q, k + 1, o, res[t])
    BY <1>1, <2>1 DEF ClientStep
  <2>4. ClientOK("lookup", q, k + 1, o, res[t]) /\ k + 1 \in Nat
    BY <1>3, ClientNext
  <2> QED BY <1>1, <2>1, <2>3, <2>4, BlobMoves DEF BlobLabels
<1> QED BY <1>2, <1>3

LEMMA BlobReads ==
  ASSUME SourceInv, source = "blob", source' = source, NEW t \in Clients, Blob!Run(t)
  PROVE  SourceInv'
<1> DEFINE p == pc[t]
           q == req[t]
           k == cur[t]
           o == out[t]
           r == res[t]
<1>1. /\ q \in Nat \X Nat /\ q \in Requests \cup {<<0, 0>>} /\ k \in Nat
      /\ o \in SUBSET (0..FileLen) /\ r \in {"none", "ok", "eof", "error"}
      /\ ClientOK(p, q, k, o, r) /\ calls \in [Clients -> 0..Calls]
      /\ tasks \in [Chunks -> 0..MaxTasks]
  BY BlobFacts
<1>2. /\ pc = [pc EXCEPT ![t] = p] /\ req = [req EXCEPT ![t] = q] /\ cur = [cur EXCEPT ![t] = k]
      /\ out = [out EXCEPT ![t] = o] /\ res = [res EXCEPT ![t] = r]
  BY BlobFacts
<1> DEFINE more == o \cup (Bytes(k) \cap Wanted(q))
<1>3. ASSUME p \in AtChunk
      PROVE  /\ k \in Chunks /\ q[2] > 0 /\ q[1] + q[2] <= FileLen /\ k <= Last(q)
             /\ more = Copied(q, k + 1) /\ more \in SUBSET (0..FileLen)
  BY <1>1, <1>3, ClientReads
<1>4. calls' = calls /\ req' = req
  BY DEF Blob!Run, Blob!LookupHit, Blob!LookupMiss, Blob!LoadFails, Blob!Loaded, Blob!InsertEnds
<1>5. CASE Blob!LookupHit(t)
  <2>1. /\ Blob!Hit(k) /\ out' = [out EXCEPT ![t] = out[t] \cup Blob!Slice(t, k)] /\ Blob!NextChunk(t)
        /\ p \in AtChunk
    BY <1>5 DEF Blob!LookupHit, AtChunk
  <2>2. CacheStep(BlobActors) /\ out' = [out EXCEPT ![t] = more]
    BY <1>3, <2>1, BlobCache DEF CacheStep
  <2> HIDE DEF more
  <2> QED BY <1>1, <1>3, <1>4, <2>1, <2>2, BlobNext
<1>6. CASE Blob!LookupMiss(t)
  <2>1. /\ Blob!Miss(k) /\ pc' = [pc EXCEPT ![t] = "loading"] /\ UNCHANGED <<cur, out, res, tasks>>
        /\ p = "lookup" /\ p \in AtChunk
    BY <1>6 DEF AtChunk, Blob!LookupMiss, Blob!Goto
  <2>2. CacheStep(BlobActors) /\ ClientStep(t, "loading", q, k, o, r)
    BY <1>2, <1>3, <1>4, <2>1, BlobCache DEF CacheStep, ClientStep
  <2>3. ClientOK("loading", q, k, o, r)
    BY <1>1, <2>1 DEF ClientOK
  <2> HIDE DEF p, q, k, o, r, more
  <2> QED BY <1>1, <1>4, <2>1, <2>2, <2>3, BlobMoves DEF BlobLabels
<1>7. CASE Blob!LoadFails(t)
  <2>1. /\ pc' = [pc EXCEPT ![t] = "idle"] /\ UNCHANGED <<cur, out, tasks>>
        /\ res' = [res EXCEPT ![t] = "error"]
    BY <1>7 DEF Blob!LoadFails, Blob!Goto
  <2>2. CacheStep(BlobActors)
    BY <1>7 DEF Blob!LoadFails, Blob!cvars, cvars, CacheStep
  <2>3. ClientStep(t, "idle", q, k, o, "error")
    BY <1>2, <1>4, <2>1 DEF ClientStep
  <2>4. ClientOK("idle", q, k, o, "error")
    BY DEF ClientOK
  <2> HIDE DEF p, q, k, o, r, more
  <2> QED BY <1>1, <1>4, <2>1, <2>2, <2>3, <2>4, BlobMoves DEF BlobLabels
<1>8. CASE Blob!Loaded(t)
  <2>1. /\ Blob!BeginInsert(t, k) /\ out' = [out EXCEPT ![t] = out[t] \cup Blob!Slice(t, k)]
        /\ p \in AtChunk
    BY <1>8 DEF Blob!Loaded, AtChunk
  <2>2. CacheStep(BlobActors) /\ out' = [out EXCEPT ![t] = more]
    <3>1. BeginInsert(t, k) /\ t \in BlobActors
      BY <2>1, BlobCache DEF BlobActors
    <3> QED BY <1>3, <2>1, <3>1, BlobCache DEF CacheStep
  <2>3. CASE Blob!TooBig(k)
    <3>1. Blob!NextChunk(t)
      BY <1>8, <2>3 DEF Blob!Loaded
    <3> HIDE DEF more
    <3> QED BY <1>1, <1>3, <1>4, <2>1, <2>2, <3>1, BlobNext
  <2>4. CASE ~Blob!TooBig(k)
    <3>1. pc' = [pc EXCEPT ![t] = "inserting"] /\ UNCHANGED <<cur, res, tasks>>
      BY <1>8, <2>4 DEF Blob!Loaded, Blob!Goto
    <3>2. ClientStep(t, "inserting", q, k, more, r)
      BY <1>2, <1>4, <2>2, <3>1 DEF ClientStep
    <3>3. ClientOK("inserting", q, k, more, r) /\ more \in SUBSET (0..FileLen)
      BY <1>3, <2>1 DEF ClientOK
    <3> HIDE DEF p, q, k, o, r, more
    <3> QED BY <1>1, <1>4, <2>2, <3>1, <3>2, <3>3, BlobMoves DEF BlobLabels
  <2> QED BY <2>3, <2>4
<1>9. CASE Blob!InsertEnds(t)
  <2>1. p = "inserting" /\ Blob!Store(t) /\ Blob!NextChunk(t) /\ out' = [out EXCEPT ![t] = o]
    BY <1>2, <1>9 DEF Blob!InsertEnds
  <2>2. CacheStep(BlobActors)
    BY <2>1, BlobCache DEF CacheStep, BlobActors
  <2>3. k \in Chunks /\ q[2] > 0 /\ q[1] + q[2] <= FileLen /\ k <= Last(q) /\ o = Copied(q, k + 1)
    BY <1>1, <2>1, ClientStays
  <2> QED BY <1>1, <1>4, <2>1, <2>2, <2>3, BlobNext
<1> QED BY <1>5, <1>6, <1>7, <1>8, <1>9 DEF Blob!Run

LEMMA BlobTasks ==
  ASSUME SourceInv, source = "blob", source' = source, Blob!Task
  PROVE  SourceInv'
<1>1. UNCHANGED <<pc, req, cur, out, res, calls>>
  BY DEF Blob!Task, Blob!TaskEnds, Blob!InsertEvicts, Blob!TaskLoaded, Blob!TaskFails, Blob!tvars
<1>2. tasks' \in [Chunks -> 0..MaxTasks]
  <2>1. ASSUME NEW c \in Chunks, tasks[c] > 0, tasks' = [tasks EXCEPT ![c] = tasks[c] - 1]
        PROVE  tasks' \in [Chunks -> 0..MaxTasks]
    <3>1. tasks \in [Chunks -> 0..MaxTasks] /\ MaxTasks \in Nat
      BY BlobFacts, SourceAssumption
    <3>2. tasks[c] - 1 \in 0..MaxTasks
      BY <2>1, <3>1
    <3> QED BY <2>1, <3>1, <3>2
  <2>2. CASE Blob!TaskEnds \/ Blob!InsertEvicts
    BY <2>2, BlobFacts DEF Blob!TaskEnds, Blob!InsertEvicts, Blob!tvars
  <2>3. Blob!Chunks = Chunks
    BY BlobCache
  <2> QED BY <2>1, <2>2, <2>3 DEF Blob!Task, Blob!TaskLoaded, Blob!TaskFails
<1>3. CacheStep(BlobActors)
  <2>1. CASE Blob!TaskEnds \/ Blob!InsertEvicts
    BY <2>1, BlobCache DEF Blob!TaskEnds, Blob!InsertEvicts, CacheStep, BlobActors
  <2>2. ASSUME NEW c \in Chunks, Blob!TaskLoaded(c) PROVE CacheStep(BlobActors)
    BY <2>2, BlobCache DEF Blob!TaskLoaded, CacheStep, BlobActors
  <2>3. ASSUME NEW c \in Chunks, Blob!TaskFails(c) PROVE CacheStep(BlobActors)
    BY <2>3 DEF Blob!TaskFails, Blob!cvars, cvars, CacheStep
  <2>4. Blob!Chunks = Chunks
    BY BlobCache
  <2> QED BY <2>1, <2>2, <2>3, <2>4 DEF Blob!Task
<1> QED BY <1>1, <1>2, <1>3, BlobFacts, BlobIntro

LEMMA BlobKeeps == SourceInv /\ BlobStep => SourceInv'
BY BlobCalls, BlobReads, BlobTasks DEF BlobStep, Blob!Next
-----------------------------------------------------------------------------
LEMMA SourceStart == Init => SourceInv
<1> SUFFICES ASSUME Init PROVE SourceInv
  OBVIOUS
<1>1. CInit
  BY FileCache, BlobCache DEF Init, Native!Init, Blob!Init
<1>2. CacheInv
  BY <1>1, CacheStart
<1>3. \A A : CTypeOK(A)
  BY <1>1, <1>2 DEF CInit, CTypeOK, CacheInv
<1>4. /\ pc = [t \in Clients |-> "idle"] /\ req = [t \in Clients |-> <<0, 0>>]
      /\ cur = [t \in Clients |-> 0] /\ out = [t \in Clients |-> {}]
      /\ res = [t \in Clients |-> "none"] /\ calls = [t \in Clients |-> 0]
  BY DEF Init, Native!Init, Blob!Init
<1>5. Calls \in Nat /\ MaxTasks \in Nat
  BY SourceAssumption
<1>6. \A c \in Clients : ClientOK(pc[c], req[c], cur[c], out[c], res[c])
  BY <1>4 DEF ClientOK
<1>9. /\ pc \in [Clients -> FileLabels] /\ pc \in [Clients -> BlobLabels]
      /\ req \in [Clients -> Requests \cup {<<0, 0>>}]
      /\ cur \in [Clients -> Nat] /\ out \in [Clients -> SUBSET (0..FileLen)]
      /\ res \in [Clients -> {"none", "ok", "eof", "io"}]
      /\ res \in [Clients -> {"none", "ok", "eof", "error"}]
      /\ calls \in [Clients -> 0..Calls]
  BY <1>4, <1>5 DEF FileLabels, BlobLabels
<1>7. CASE source = "file" /\ tasks = <<>>
  <2>1. Native!TypeOK
    BY <1>3, <1>9, FileCache DEF Native!TypeOK, FileLabels
  <2> QED BY <1>2, <1>6, <1>7, <2>1 DEF SourceInv, TypeOK
<1>8. CASE source = "blob" /\ Blob!Init
  <2>1. Blob!Chunks = Chunks /\ tasks = [c \in Chunks |-> 0]
    BY <1>8, BlobCache DEF Blob!Init
  <2>2. tasks \in [Blob!Chunks -> 0..MaxTasks]
    BY <1>5, <2>1
  <2>3. Blob!TypeOK
    BY <1>3, <1>9, <2>2, BlobCache DEF Blob!TypeOK, BlobLabels
  <2> QED BY <1>2, <1>6, <1>8, <2>3 DEF SourceInv, TypeOK
<1> QED BY <1>7, <1>8 DEF Init

LEMMA SourceStutters == SourceInv /\ UNCHANGED vars => SourceInv'
<1> SUFFICES ASSUME SourceInv, UNCHANGED vars PROVE SourceInv'
  OBVIOUS
<1>1. /\ UNCHANGED <<source, pc, req, cur, out, res, calls, tasks>> /\ UNCHANGED cvars
  BY DEF vars
<1>2. CASE source = "blob"
  BY <1>1, <1>2, BlobFacts, BlobIntro DEF CacheStep
<1>3. CASE source = "file"
  <2>1. CacheInv' /\ Native!CTypeOK(Clients)'
    <3>1. CacheInv'
      BY <1>1, <1>3, FileFacts, CacheSame
    <3>2. Native!CTypeOK(Clients)
      BY <1>3 DEF SourceInv, TypeOK, Native!TypeOK
    <3> QED BY <1>1, <3>1, <3>2 DEF Native!CTypeOK, cvars
  <2> QED BY <1>1, <1>3, <2>1, FileFacts DEF SourceInv, TypeOK, Native!TypeOK, FileLabels
<1> QED BY <1>2, <1>3 DEF SourceInv

(* The inductive invariant, of both sources.                                *)
THEOREM SourceAlways == Spec => []SourceInv
<1>1. SourceInv /\ [Next]_vars => SourceInv'
  BY FileKeeps, BlobKeeps, SourceStutters DEF Next
<1> QED BY <1>1, SourceStart, PTL DEF Spec

(* The caches, the clients and the tasks stay in their ranges.              *)
THEOREM SourceTypes == Spec => []TypeOK
<1>1. SourceInv => TypeOK
  BY DEF SourceInv
<1> QED BY <1>1, SourceAlways, PTL

(* The queue lists exactly the cached chunks, each once.                    *)
THEOREM QueueMatchesMap == Spec => []LruMatchesMap
<1>1. SourceInv => LruMatchesMap
  BY DEF SourceInv, CacheInv
<1> QED BY <1>1, SourceAlways, PTL

(* The cache never holds more bytes than max_bytes.                         *)
THEOREM CacheIsBounded == Spec => []MemoryBounded
<1>1. SourceInv => MemoryBounded
  BY DEF SourceInv, CacheInv
<1> QED BY <1>1, SourceAlways, PTL

(* current_bytes never falls behind what the cache holds.                   *)
THEOREM CountIsSafe == Spec => []CountCoversHeld
<1>1. SourceInv => CountCoversHeld
  BY DEF SourceInv, CacheInv
<1> QED BY <1>1, SourceAlways, PTL

(* A read that returns Ok has its bytes and no other, whatever the other    *)
(* clients and the prefetches do to the cache.                              *)
THEOREM ReadsAreExact == Spec => []ReadsExact
<1>1. SourceInv => ReadsExact
  <2> SUFFICES ASSUME SourceInv, NEW c \in Clients, pc[c] = "idle", res[c] = "ok"
               PROVE  out[c] = req[c][1] .. (req[c][1] + req[c][2] - 1)
    BY DEF ReadsExact
  <2>1. out[c] = req[c][1] .. ((req[c][1] + req[c][2]) - 1)
    BY DEF SourceInv, ClientOK, Wanted
  <2>2. req[c] \in Nat \X Nat
    BY FileFacts, BlobFacts DEF SourceInv
  <2>3. req[c][1] \in Nat /\ req[c][2] \in Nat
    BY <2>2
  <2> QED BY <2>1, <2>3
<1> QED BY <1>1, SourceAlways, PTL
=============================================================================
